----------------------------- MODULE MCStartup -----------------------------
(***************************************************************************)
(* Starts for Startup: two deployments and what one or two changed options *)
(* make of them, launches over several nodes, and the KV cache scenarios   *)
(* of MCKVPlan.                                                            *)
(***************************************************************************)
EXTENDS Startup, MCKVPlan

\* DeepSeek-V4.1 on two pipeline ranks, drafting with DSpark (the launchers' options).
Pipeline == [
    sentence |-> FALSE, known |-> TRUE, poolingArch |-> FALSE, generative |-> TRUE, suffix |-> "generate",
    runner |-> "auto", convert |-> "auto", windowOff |-> FALSE, window |-> 0, derivedLen |-> 32, tokenizerLen |-> 0,
    rope |-> "yarn", originalLen |-> 16, ropeFactor |-> 4, encoderLen |-> 0, userLen |-> 48, targetLen |-> 0,
    modelMaxLength |-> 0, allowLong |-> FALSE, quantArg |-> "none", quantCkpt |-> "mxfp4", quantClaim |-> "none",
    allowDeprecated |-> FALSE, promptEmbeds |-> FALSE, pooler |-> FALSE, maxLen |-> 0, cumem |-> FALSE, sleep |-> FALSE,
    causal |-> TRUE, attentionFree |-> FALSE, meanPooling |-> FALSE, chunked |-> "unset", prefixCaching |-> "unset",
    heads |-> 8, kvHeads |-> 1, expertParallel |-> FALSE, supportsPp |-> TRUE,
    nnodes |-> 1, nodeRank |-> 0, dpLocal |-> -1, dpRank |-> -1, dpStart |-> -1, hybridLb |-> FALSE,
    externalLb |-> FALSE, headless |-> FALSE, dpBackend |-> "mp", faultTolerance |-> FALSE, spanPack |-> FALSE,
    spec |-> TRUE, methodArg |-> "dspark", specModel |-> "unset", nspec |-> 5, drafter |-> "plain",
    family |-> "deepseek", nextn |-> 3, fixedLayers |-> 3, deepseek41 |-> TRUE,
    lookupMin |-> -1, lookupMax |-> -1, blockSize |-> 5, nPredict |-> 0, treeDepth |-> 4, draftTp |-> -1,
    specLen |-> 0, draftMaxLen |-> 48, draftLen |-> 0, draftPositions |-> 48, topk |-> 0, vocab |-> 8,
    draftVocab |-> 8, indexShare |-> FALSE, adaptive |-> FALSE, synthetic |-> FALSE, syntheticSampler |-> FALSE,
    heteroVocab |-> FALSE, greedyDraft |-> TRUE, arctic |-> FALSE, omni |-> FALSE, omniShapes |-> TRUE,
    batchedDpMoe |-> FALSE, bigGpu |-> FALSE, seqs |-> 4, batched |-> 64, throughput |-> FALSE, mmItem |-> 40,
    mmLoras |-> FALSE, givenTwice |-> FALSE, method |-> "none", parallelDrafting |-> FALSE,
    canvas |-> 0, schedule |-> <<>>, padOff |-> FALSE, draft |-> "none", dsparkV1 |-> TRUE,
    v2Env |-> "off", triton |-> TRUE, breakEnv |-> "unset", breakArch |-> TRUE, batchInvariant |-> FALSE,
    compileDisabled |-> FALSE, spawn |-> TRUE, expandable |-> FALSE, simpleOffload |-> FALSE, chunkHma |-> FALSE,
    blackwell |-> FALSE, hopper |-> FALSE, opaque |-> FALSE,
    encoderDecoder |-> FALSE, eager |-> FALSE, cascadeOff |-> FALSE, moe |-> TRUE, mla |-> TRUE, hybrid |-> FALSE,
    diffusion |-> FALSE, logitsProcs |-> FALSE, processedLogprobs |-> FALSE, samplingMask |-> FALSE,
    traceReplay |-> FALSE, routed |-> FALSE, mm |-> FALSE, mmGraph |-> FALSE, languageOnly |-> FALSE,
    mmPrefixLm |-> FALSE, mmDevice |-> "unset", shmIpc |-> FALSE, encodeOnly |-> FALSE, encoderOnly |-> FALSE,
    ecConsumer |-> FALSE, kvConsumer |-> FALSE, missingEmbeds |-> FALSE, chunkedMmOff |-> FALSE,
    objectStore |-> FALSE, loader |-> "auto", updated |-> FALSE, chunkAttn |-> FALSE, allLogprobs |-> FALSE,
    lora |-> FALSE, kda |-> FALSE, async |-> "unset", scheduled |-> -1, disableHybrid |-> "unset",
    tp |-> 1, pp |-> 2, dp |-> 1, dcp |-> 1, pcp |-> 1, backend |-> "mp", asyncExecutor |-> TRUE, dbo |-> FALSE,
    deepep |-> FALSE, elasticEp |-> FALSE, shardSampling |-> "unset", ncclOff |-> "unset", workerSet |-> FALSE,
    mode |-> "unset", gmode |-> "FULL_AND_PIECEWISE", level |-> 2, inductor |-> TRUE, torchWrap |-> "unset",
    customOps |-> "unset", enableSp |-> "unset", fuseGemm |-> "unset", fuseAllreduce |-> "unset", spMin |-> -1,
    spHeuristic |-> 8, allreduceMax |-> 16, endpoints |-> <<>>, fastCold |-> "unset", sizes |-> {},
    sizesSet |-> FALSE, maxSize |-> -1, interactivity |-> FALSE, rmsNorm |-> FALSE,
    fastPrefill |-> FALSE, mambaMode |-> "none", mambaBlockSet |-> FALSE, mambaTriton |-> FALSE, replaySsm |-> FALSE,
    stochastic |-> FALSE, ssmHalf |-> TRUE, nvfp4 |-> FALSE, offload |-> "unset", connector |-> "none",
    specMetrics |-> FALSE, proton |-> FALSE, refuses |-> {}]

\* A dense model on two tensor-parallel ranks of the V2 runner, everything left open.
Tensor ==
    [Pipeline EXCEPT !.pp = 1, !.tp = 2, !.v2Env = "unset", !.spec = FALSE, !.methodArg = "unset", !.nspec = -1,
                     !.family = "none", !.deepseek41 = FALSE, !.breakArch = FALSE, !.moe = FALSE, !.mla = FALSE,
                     !.kvHeads = 4, !.rope = "none", !.userLen = 0, !.seqs = -1, !.batched = -1, !.gmode = "unset",
                     !.quantCkpt = "none", !.hopper = TRUE]

\* Tensor with a small limit, so that what is left open is interesting.
Small == [Tensor EXCEPT !.seqs = 6, !.batched = 40]

\* One changed option: [f (field), v (value)].
Opt(f, values) == {[f |-> f, v |-> v] : v \in values}
Flags(fs) == {[f |-> f, v |-> TRUE] : f \in fs}
With(c, o) == [c EXCEPT ![o.f] = o.v]

\* Every option of the configuration, changed alone.
Singles ==
    UNION {
        Flags({"sentence", "poolingArch", "windowOff", "allowLong", "allowDeprecated", "promptEmbeds", "sleep",
               "attentionFree", "meanPooling", "expertParallel", "hybridLb", "externalLb", "headless",
               "faultTolerance", "indexShare", "adaptive", "synthetic", "heteroVocab", "arctic", "omni",
               "batchedDpMoe", "bigGpu", "throughput", "mmLoras", "givenTwice", "padOff", "breakArch",
               "batchInvariant", "compileDisabled", "expandable", "chunkAttn", "blackwell", "opaque",
               "encoderDecoder", "eager", "hybrid", "diffusion", "logitsProcs", "samplingMask", "traceReplay",
               "routed", "mm", "mmGraph", "encodeOnly", "objectStore", "lora", "dbo", "elasticEp", "proton",
               "specMetrics", "fastPrefill", "mambaBlockSet", "replaySsm", "nvfp4", "interactivity"}),
        Opt("generative", {FALSE}), Opt("known", {FALSE}), Opt("suffix", {"none", "pooling"}),
        Opt("triton", {FALSE}), Opt("supportsPp", {FALSE}), Opt("causal", {FALSE}), Opt("inductor", {FALSE}),
        Opt("asyncExecutor", {FALSE}), Opt("dsparkV1", {FALSE}), Opt("draftVocab", {9}),
        Opt("runner", {"pooling", "draft"}), Opt("convert", {"embed"}), Opt("window", {16}),
        Opt("derivedLen", {0}), Opt("tokenizerLen", {24}), Opt("rope", {"linear", "longrope"}),
        Opt("encoderLen", {12}), Opt("userLen", {-1, 8, 200}), Opt("targetLen", {20}), Opt("modelMaxLength", {256}),
        Opt("quantArg", {"mxfp4", "deprecated", "unknown"}), Opt("quantClaim", {"marlin"}),
        Opt("chunked", {"off"}), Opt("prefixCaching", {"off"}), Opt("heads", {5}),
        Opt("spec", {FALSE, TRUE}), Opt("specModel", {"ngram", "custom", "path"}),
        Opt("methodArg", {"eagle", "eagle3", "dflash", "suffix", "ngram", "deepseek_mtp", "draft_model"}),
        Opt("drafter", {"dspark", "eagle3", "medusa", "mlp_speculator", "plain"}), Opt("nspec", {-1, 1, 7, 10}),
        Opt("blockSize", {0, 7}),
        Opt("family", {"none", "longcat_flash", "gemma4_assistant", "mimo_v2", "inkling", "nemotron_h"}), Opt("nextn", {-1, 0}), Opt("topk", {4}), Opt("specLen", {30, 60}), Opt("draftPositions", {10}),
        Opt("draftTp", {1, 4}), Opt("lookupMin", {9}), Opt("lookupMax", {3}), Opt("deepseek41", {FALSE}),
        Opt("seqs", {1, 3, 16}), Opt("batched", {1, 6, 30, -1}), Opt("canvas", {4}),
        Opt("schedule", {<<3, 3, 1, 1>>}), Opt("v2Env", {"unset", "on"}), Opt("breakEnv", {"on", "off"}),
        Opt("async", {"on", "off"}), Opt("disableHybrid", {"on", "off"}), Opt("tp", {1, 4}), Opt("pp", {1, 2}),
        Opt("dp", {2}), Opt("dcp", {2}), Opt("pcp", {2}), Opt("backend", {"external_launcher"}),
        Opt("shardSampling", {"on"}), Opt("mode", {"NONE", "VLLM", "STOCK"}),
        Opt("gmode", {"NONE", "PIECEWISE", "FULL", "FULL_DECODE_ONLY"}), Opt("level", {0, 1}),
        Opt("enableSp", {"on"}), Opt("fuseGemm", {"on"}), Opt("spHeuristic", {-1}), Opt("maxSize", {0, 7, 24}),
        Opt("endpoints", {<<4, 90>>}), Opt("mambaMode", {"align", "all"}),
        Opt("offload", {"native", "lmcache"}), Opt("connector", {"nixl", "layerwise"}),
        Opt("refuses", {{"engram"}, {"dtype"}, {"lora"}}) }

\* Options that reach across sections, changed in pairs.
Pairable ==
    UNION {
        Flags({"adaptive", "batchInvariant", "chunkAttn", "encoderDecoder", "eager", "diffusion", "samplingMask",
               "traceReplay", "mm", "encodeOnly", "lora", "dbo", "replaySsm", "sleep", "expandable",
               "opaque", "padOff", "poolingArch", "kda"}),
        Opt("spec", {TRUE}), Opt("methodArg", {"eagle", "dflash", "ngram"}), Opt("nspec", {2, 10}),
        Opt("specModel", {"path"}), Opt("schedule", {<<3, 3, 1, 1>>}), Opt("v2Env", {"unset", "on", "off"}),
        Opt("breakEnv", {"off"}), Opt("async", {"on"}), Opt("tp", {1, 4}), Opt("pp", {1, 2}), Opt("dp", {2}),
        Opt("mode", {"NONE", "VLLM"}), Opt("gmode", {"PIECEWISE", "FULL"}), Opt("enableSp", {"on"}),
        Opt("chunked", {"off"}), Opt("seqs", {16}), Opt("maxSize", {24}), Opt("mambaMode", {"align"}),
        Opt("offload", {"native", "lmcache"}), Opt("connector", {"layerwise"}), Opt("disableHybrid", {"off"}) }

\* What needs several options at once.
Draft(m) == [Small EXCEPT !.spec = TRUE, !.methodArg = m, !.specModel = "path", !.nspec = 3]
Sized(c, sizes) == [c EXCEPT !.sizesSet = TRUE, !.sizes = sizes]
Combined ==
  {[Draft("draft_model") EXCEPT !.drafter = d] : d \in {"dspark", "eagle3", "medusa", "mlp_speculator", "mtp"}} \cup {
    Draft("eagle"), Draft("eagle3"), Draft("dflash"), Draft("draft_model"), Draft("ngram_gpu"),
    [Draft("eagle") EXCEPT !.draftPositions = 10], [Draft("draft_model") EXCEPT !.batched = 1],
    [Draft("dflash") EXCEPT !.v2Env = "off", !.draft = "mixed"], [Draft("suffix") EXCEPT !.arctic = TRUE],
    [Draft("dspark") EXCEPT !.adaptive = TRUE, !.drafter = "dspark", !.blockSize = 3],
    [Draft("eagle") EXCEPT !.schedule = <<3, 3, 1, 1>>, !.enableSp = "on"],
    [Tensor EXCEPT !.chunked = "off", !.derivedLen = 4096],
    [Draft("mtp") EXCEPT !.family = "inkling", !.nextn = -1], [Draft("mtp") EXCEPT !.family = "longcat_flash", !.nextn = -1],
    Sized(Small, {2, 8, 64}), Sized(Small, {50}), Sized(Pipeline, {1, 2, 6, 12, 24}), Sized(Small, {}),
    [Sized(Small, {2, 8}) EXCEPT !.maxSize = 16],
    [Small EXCEPT !.samplingMask = TRUE, !.processedLogprobs = TRUE],
    [Small EXCEPT !.samplingMask = TRUE, !.processedLogprobs = TRUE, !.enableSp = "on"],
    [Small EXCEPT !.mm = TRUE, !.mmPrefixLm = TRUE, !.batched = -1, !.maxLen = 8, !.userLen = 8],
    [Small EXCEPT !.mm = TRUE, !.encodeOnly = TRUE, !.shmIpc = TRUE, !.tp = 1],
    [Small EXCEPT !.mm = TRUE, !.shmIpc = TRUE, !.tp = 1, !.spawn = FALSE],
    [Small EXCEPT !.mm = TRUE, !.languageOnly = TRUE, !.mmGraph = TRUE],
    [Small EXCEPT !.mm = TRUE, !.ecConsumer = TRUE], [Small EXCEPT !.dbo = TRUE, !.deepep = TRUE, !.v2Env = "off"],
    [Small EXCEPT !.objectStore = TRUE, !.loader = "dummy"], [Small EXCEPT !.routed = TRUE, !.connector = "nixl"],
    [Small EXCEPT !.stochastic = TRUE, !.ssmHalf = FALSE], [Small EXCEPT !.mla = TRUE, !.nvfp4 = TRUE] }

\* Launches over several nodes, the ranks left to be inferred.
Launches ==
    {[Small EXCEPT !.nnodes = x[1], !.nodeRank = r, !.dp = x[2], !.tp = x[3], !.externalLb = x[4], !.moe = TRUE] :
        x \in {1, 2, 4} \X {1, 2, 4} \X {1, 2} \X BOOLEAN, r \in 0..1}
    \cup {[Small EXCEPT !.moe = TRUE, !.dp = 4, !.dpLocal = n, !.dpStart = s, !.hybridLb = h] :
            n \in {1, 2, 4}, s \in {-1, 2}, h \in BOOLEAN}
    \cup {[Small EXCEPT !.dp = 2, !.dpBackend = "ray", !.spanPack = TRUE, !.moe = TRUE]}

\* One rank's worth of every scenario: one token per step, so that windows are short.
KvConf(sc, len, auto) ==
    [Pipeline EXCEPT !.seqs = 1, !.batched = 1, !.nspec = 1, !.blockSize = 1, !.spec = sc.cfg.eagle > 0,
                     !.deepseek41 = sc.cfg.eagle = 2, !.disableHybrid = Switch(sc.cfg.disableHybrid),
                     !.rope = "none", !.derivedLen = len, !.userLen = IF auto THEN -1 ELSE len]

\* Devices that leave 24, 61 and 90 bytes; one with too little free, one whose free memory grew.
Device(free, requested, after, headroom) ==
    [free |-> free, requested |-> requested, after |-> after, reserved |-> 5, headroom |-> headroom,
     first |-> <<4, 2>>, second |-> <<1, 0>>, num |-> <<3, 2>>, encoder |-> 0, graphs |-> 6, kvBytes |-> 0, buffer |-> 1]

Roomy == Device(140, 130, 107, 0)
Tight == Device(120, 100, 94, 6)
MCDevices == {Roomy, Tight, Device(120, 110, 44, 3)}

\* The first has too little memory free, of the second others released memory meanwhile.
OddDevices == {Device(90, 100, 60, 0), Device(120, 100, 125, 20)}

\* Backends: of even layers and of odd layers.
AnySize == [multiple |-> TRUE, n |-> 1]
Only(n) == [multiple |-> FALSE, n |-> n]
Be(cls, sizes, graphs, threshold) ==
    [cls |-> cls, sizes |-> sizes, graphs |-> graphs, threshold |-> threshold, heads |-> 1]
Rig == [be |-> <<Be("a", {AnySize}, 2, 0), Be("a", {AnySize}, 2, 0)>>, shared |-> FALSE, encoder |-> FALSE,
        rocm |-> FALSE, zeroes |-> TRUE, flag |-> TRUE, mode |-> 2, restart |-> FALSE]
MCRigs == {
    Rig,
    [Rig EXCEPT !.be = <<Be("a", {Only(1)}, 2, 3), Be("b", {AnySize}, 1, 1)>>, !.shared = TRUE, !.encoder = TRUE],
    [Rig EXCEPT !.be = <<Be("a", {Only(2), Only(1)}, 2, 2), Be("b", {Only(1), Only(4)}, 2, 0)>>, !.flag = FALSE,
                !.rocm = TRUE, !.restart = TRUE],
    [Rig EXCEPT !.be = <<Be("a", {Only(2)}, 2, 2), Be("b", {Only(2), Only(3)}, 0, 0)>>, !.zeroes = FALSE] }

Plain(c) == [conf |-> c, in |-> Sc(<<Full(1)>>, <<{1}>>, Cfg), devices |-> {}, rigs |-> {}, life |-> FALSE]

MCStarts ==
    {Plain(With(b, o)) : b \in {Pipeline, Tensor, Small}, o \in Singles}
    \cup {Plain(With(With(b, o), p)) : b \in {Pipeline, Small}, o, p \in Pairable}
    \cup {Plain(c) : c \in Combined \cup Launches}
    \cup {[conf |-> KvConf(sc, 4, sc.cfg.auto), in |-> sc, devices |-> MCDevices, rigs |-> {Rig}, life |-> FALSE] : sc \in MCScenarios}
    \cup {[conf |-> KvConf(sc, 4, sc.cfg.auto), in |-> sc, devices |-> {Roomy}, rigs |-> {Rig}, life |-> TRUE] :
            sc \in {Sc(<<Full(1)>>, <<{1}>>, Cfg)}}
    \cup {[conf |-> KvConf(sc, 9, sc.cfg.auto), in |-> sc, devices |-> {Roomy, Tight}, rigs |-> MCRigs, life |-> FALSE] : sc \in MCScenarios}
    \cup {[conf |-> KvConf(sc, 4, sc.cfg.auto), in |-> sc, devices |-> OddDevices \cup {Roomy},
           rigs |-> {[Rig EXCEPT !.rocm = TRUE], [Rig EXCEPT !.be[1].sizes = {Only(3)}]}, life |-> FALSE] :
            sc \in {Sc(<<Full(1), Full(1), Full(1)>>, <<{1, 2}, {3}>>, Cfg)}}
=============================================================================
