---------------------------- MODULE EngineConfig ----------------------------
(***************************************************************************)
(* VllmConfig.__post_init__ of config/vllm.py: the engine's options are    *)
(* checked against each other and the open ones are filled in, section by  *)
(* section, each reading what the ones before it wrote.  A configuration   *)
(* is one record; "unset" and -1 stand for None.  with_hf_config makes a   *)
(* second configuration that shares the sub-configurations of the first,   *)
(* so all sections run a second time on their own results.                 *)
(***************************************************************************)
EXTENDS ModelArgs, Sequences, SequencesExt

VARIABLES
    conf,    \* the configuration
    at,      \* the section that runs next, "refused" or "done"
    round,   \* 1, or 2 for the configuration with_hf_config makes
    first,   \* what round 1 ended with
    asked    \* the options the user gave

configVars == <<conf, at, round, first, asked>>
-----------------------------------------------------------------------------
HasSpec(c) == c.method # "none"
UseEagle(c) == c.method \in {"eagle", "eagle3", "mtp", "dflash", "dspark"}
UsesDynamic(c) == HasSpec(c) /\ c.schedule # <<>>
AsyncMethods == {"eagle", "eagle3", "extract_hidden_states", "mtp", "dflash", "ngram_gpu", "draft_model", "dspark"}

\* CUDAGraphMode
HasFull(g) == g \in {"FULL", "FULL_DECODE_ONLY", "FULL_AND_PIECEWISE"}
HasPiecewise(g) == g \in {"PIECEWISE", "FULL_AND_PIECEWISE"}

NumSpeculativeTokens(c) == IF HasSpec(c) THEN c.nspec ELSE c.canvas
NumLookaheadTokens(c) ==
    CASE c.method = "dflash" -> NumSpeculativeTokens(c) + 1
      [] UseEagle(c) \/ c.method = "draft_model" -> NumSpeculativeTokens(c)
      [] OTHER -> 0
UniformDecodeQueryLen(c) == 1 + NumSpeculativeTokens(c)

\* Slots a drafter needs beside the scheduled tokens.
MaxNewSlots(c) ==
    CASE c.method = "dflash" \/ (c.parallelDrafting /\ c.method = "draft_model") -> c.nspec
      [] c.parallelDrafting -> c.nspec - 1
      [] c.method = "draft_model" -> 1
      [] OTHER -> 0

V2Unsupported(c) ==
    \/ c.mode = "STOCK"
    \/ c.enableSp = "on" /\ c.tp > 1
    \/ c.backend = "external_launcher" /\ c.pp > 1
    \/ HasSpec(c) /\ c.method \notin {"eagle", "eagle3", "mtp", "dflash", "dspark", "extract_hidden_states"}
    \/ HasSpec(c) /\ c.parallelDrafting /\ c.method \notin {"dflash", "dspark"}
    \/ c.method = "eagle3" /\ c.pp > 1
    \/ c.dbo \/ c.elasticEp \/ c.logitsProcs \/ c.fastPrefill
    \/ c.mambaMode = "all"

DflashMixed(c) == c.method = "dflash" /\ c.draft = "mixed"
Dflash2(c)     == c.method = "dflash" /\ c.draft = "dflash2"

V1Unsupported(c) ==
    \/ c.pcp > 1
    \/ c.method = "dspark" /\ ~c.dsparkV1
    \/ c.adaptive
    \/ DflashMixed(c) \/ Dflash2(c)
    \/ c.diffusion
    \/ c.shardSampling = "on"

\* The environment decides; otherwise V2 unless it lacks something the configuration has now.
UseV2(c) ==
    IF c.v2Env # "unset" THEN c.v2Env = "on"
    ELSE c.triton /\ ~V2Unsupported(c)

MaxConcurrentBatches(c) ==
    IF c.async = "on" THEN (IF UseV2(c) THEN c.pp + 1 ELSE IF c.pp <= 1 THEN 2 ELSE c.pp) ELSE c.pp
MaxInFlightTokens(c) == MaxConcurrentBatches(c) * c.batched

NeedsDpCoordinator(c) == c.dp > 1 /\ (c.moe \/ ~c.externalLb)
-----------------------------------------------------------------------------
(* Verification of the parts.  `refuses` holds the checks of other classes  *)
(* (model, LoRA, Engram, quantisation) that would raise.                    *)
EncoderOnlyOk(c) == c.encodeOnly => c.mm
EngramOk(c) == "engram" \notin c.refuses
ReturnRoutedOk(c) == c.routed => c.pp = 1 /\ c.dcp = 1 /\ c.pcp = 1 /\ c.connector = "none"
SamplingReplayOk(c) ==
    c.samplingMask => UseV2(c) /\ ~HasSpec(c) /\ ~c.diffusion /\ ~c.logitsProcs /\ c.processedLogprobs
TraceReplayOk(c) == c.traceReplay => UseV2(c)
NixlOk(c) ==
    c.connector = "nixl" => c.pcp = 1 /\ c.dcp \in {1, c.tp} /\ (c.mla \/ c.dcp = 1) /\ (c.hybrid => c.dcp = 1)
QuantOk(c) == {"capability", "dtype"} \cap c.refuses = {}

\* try_verify_and_update_config: once per model; a model in object storage needs its loader.
ModelHookOk(c) == c.objectStore /\ ~c.updated => c.loader \in {"auto", "modelexpress", "runai_streamer", "runai_streamer_sharded"}
ModelHook(c) ==
    [c EXCEPT !.updated = TRUE,
              !.loader = IF c.objectStore /\ ~c.updated /\ c.loader = "auto" THEN "runai_streamer" ELSE @]

VerifyOk(c) ==
    /\ EncoderOnlyOk(c) /\ ModelHookOk(c) /\ EngramOk(c)
    /\ ParallelOk(c, c.tp, c.pp)
    /\ ReturnRoutedOk(c)
    /\ ~(c.languageOnly /\ c.mmGraph)
    /\ SamplingReplayOk(c) /\ TraceReplayOk(c) /\ NixlOk(c)
    /\ "lora" \notin c.refuses
    /\ c.stochastic => c.ssmHalf
    /\ QuantOk(c)

Verified(c) == [ModelHook(c) EXCEPT !.encoderOnly = @ \/ c.encodeOnly]
-----------------------------------------------------------------------------
\* Explicit asynchronous scheduling fails on what it cannot do ...
AsyncOk(c) ==
    c.async = "on" =>
        /\ HasSpec(c) => c.method \in AsyncMethods /\ ~c.padOff
        /\ c.asyncExecutor

\* ... and by default is on unless something is in the way.
AsyncDefault(c) ==
    /\ c.runner # "pooling"
    /\ ~(c.method = "dspark" /\ c.pp > 1)
    /\ HasSpec(c) => c.method \in AsyncMethods /\ ~c.padOff
    /\ c.asyncExecutor

Switch(b) == IF b THEN "on" ELSE "off"

ResolveAsync(c) ==
    LET a == IF c.async = "unset" THEN Switch(AsyncDefault(c)) ELSE c.async
    IN [c EXCEPT !.async = a,
                 !.ncclOff = IF @ = "unset" THEN a ELSE @,
                 !.cascadeOff = @ \/ (HasSpec(c) /\ a = "on")]

ObserveOk(c) == (c.specMetrics => HasSpec(c)) /\ (c.shmIpc /\ c.mm => c.spawn)
-----------------------------------------------------------------------------
\* Eager execution, the environment and breakable graphs take the compile mode first.
Eager(c) == IF c.eager THEN [c EXCEPT !.mode = "NONE", !.gmode = "NONE"] ELSE c
ProtonOk(c) == c.proton => Eager(c).gmode = "NONE"
Uncompiled(c) == IF c.compileDisabled THEN [c EXCEPT !.mode = "NONE"] ELSE c
MaybeBreakable(c) ==
    LET env == IF c.breakEnv = "unset" /\ c.breakArch THEN "on" ELSE c.breakEnv
    IN [c EXCEPT !.breakEnv = env, !.mode = IF env = "on" THEN "NONE" ELSE @]
Breakable(c) == c.breakEnv = "on"

ResolveMode(c) ==
    LET d == MaybeBreakable(Uncompiled(Eager(c)))
        m == IF d.mode # "unset" THEN d.mode ELSE IF d.level > 0 THEN "VLLM" ELSE "NONE"
    IN [d EXCEPT !.mode = m,
                 !.torchWrap = IF @ = "unset" THEN Switch(m = "VLLM" /\ d.inductor) ELSE @,
                 !.customOps = IF @ = "unset" THEN (IF d.inductor /\ m # "NONE" THEN "none" ELSE "all") ELSE @]
-----------------------------------------------------------------------------
\* OPTIMIZATION_LEVEL_*: only what is still open is filled in.
LevelGraphs(l) == CASE l = 0 -> "NONE" [] l = 1 -> "PIECEWISE" [] OTHER -> "FULL_AND_PIECEWISE"
EnableAllreduceRms(c) == ~c.batchInvariant /\ c.tp > 1 /\ c.hopper
LevelDefaults(c) ==
    [c EXCEPT !.gmode = IF @ = "unset" THEN LevelGraphs(c.level) ELSE @,
              !.enableSp = IF @ = "unset" THEN "off" ELSE @,
              !.fuseGemm = IF @ = "unset" THEN "off" ELSE @,
              !.fuseAllreduce = IF @ = "unset" THEN Switch(c.level > 1 /\ EnableAllreduceRms(c)) ELSE @]

DynamicOffForDp(c) == IF UsesDynamic(c) /\ c.dp > 1 THEN [c EXCEPT !.schedule = <<>>] ELSE c
DynamicPiecewise(c) ==
    IF UsesDynamic(c) /\ HasFull(c.gmode) /\ ~UseV2(c) THEN [c EXCEPT !.gmode = "PIECEWISE"] ELSE c
NoPiecewise(c) ==
    IF HasPiecewise(c.gmode) /\ c.mode # "VLLM" /\ ~Breakable(c) THEN [c EXCEPT !.gmode = "NONE"] ELSE c

ResolveLevel(c) == NoPiecewise(DynamicPiecewise(DynamicOffForDp(LevelDefaults(c))))
-----------------------------------------------------------------------------
\* Sequence parallelism; spHeuristic is the threshold for this hidden size, -1 if too small.
ResolveSp(c) ==
    LET wanted == c.enableSp = "on" \/ c.fuseGemm = "on"
        min == IF c.spMin = -1 THEN c.spHeuristic ELSE c.spMin
        on == wanted /\ c.tp > 1 /\ min # -1
    IN [c EXCEPT !.enableSp = IF wanted THEN Switch(on) ELSE @,
                 !.fuseGemm = IF wanted /\ ~on THEN "off" ELSE @,
                 !.spMin = IF wanted /\ c.tp > 1 THEN min ELSE @,
                 !.fastCold = IF c.opaque THEN "off" ELSE IF @ = "unset" THEN Switch(~HasSpec(c)) ELSE @]

ScheduledOk(c) ==
    HasSpec(c) => (c.scheduled = -1 \/ c.scheduled > 0) /\ c.batched > MaxNewSlots(c)
\* Fault: the drafter's slots are taken off, whoever set the limit.
SetMaxScheduledLess(c) ==
    IF HasSpec(c) THEN [c EXCEPT !.scheduled = (IF @ = -1 THEN c.batched ELSE @) - MaxNewSlots(c)] ELSE c

SetMaxScheduled(c) == IF HasSpec(c) /\ c.scheduled = -1 THEN [c EXCEPT !.scheduled = c.batched] ELSE c
-----------------------------------------------------------------------------
Pooling(c) == IF HasFull(c.gmode) /\ c.pooler THEN "PIECEWISE"
              ELSE IF c.encoderDecoder /\ c.gmode \notin {"NONE", "FULL_DECODE_ONLY"} THEN "FULL_DECODE_ONLY"
              ELSE c.gmode
ConnectorGraphs(g, c) == IF c.connector = "layerwise" /\ HasFull(g) THEN "PIECEWISE" ELSE g

GraphMode(c) ==
    IF c.eager
    THEN [c EXCEPT !.gmode = "NONE", !.maxSize = 0, !.sizesSet = TRUE, !.sizes = {}]
    ELSE [c EXCEPT !.gmode = ConnectorGraphs(Pooling(c), c)]

Every(from, below, by) == {from + by * k : k \in 0..((below - from) \div by)} \cap (from..(below - 1))

\* 1, 2, 4, then steps of 8 below 256 and of 16 from there.
Grid(top) == ({1, 2, 4} \cap 1..top) \cup Every(8, Min({top + 1, 256}), 8) \cup Every(256, top + 1, 16)

DefaultCeiling(c) == IF c.blackwell THEN 1024 ELSE 512

RequestCounts(c, maxReqs) ==
    LET top == Min({maxReqs, DefaultCeiling(c)}) IN Grid(top) \cup {top}

\* Dynamic drafting is uniform per tier: the widest batch at each query length.
DecodeTiers(c) ==
    IF UsesDynamic(c)
    THEN {<<q, Max({b \in DOMAIN c.schedule : c.schedule[b] + 1 = q})>> : q \in {c.schedule[b] + 1 : b \in DOMAIN c.schedule}}
    ELSE {<<UniformDecodeQueryLen(c), c.seqs>>}

Ceiling(c) ==
    IF c.maxSize # -1 THEN c.maxSize
    ELSE Min({c.seqs * UniformDecodeQueryLen(c) * 2, DefaultCeiling(c)})

UniformDecodeSizes(c) ==
    IF c.maxSize # -1 \/ UniformDecodeQueryLen(c) = 1 THEN {}
    ELSE {s \in UNION {{n * t[1] : n \in RequestCounts(c, t[2])} : t \in DecodeTiers(c)} : s <= Ceiling(c)}

DefaultSizes(c, top) ==
    (IF c.interactivity
     THEN 1..Min({top, 32}) \cup Every(8, Min({top + 1, 256}), 8) \cup Every(256, top + 1, 16)
     ELSE Grid(top))
    \cup ({c.batched} \cap 1..top)
    \cup {s \in UniformDecodeSizes(c) : s <= c.batched}

SpSizes(c, sizes) ==
    IF c.tp > 1 /\ c.enableSp = "on" THEN {s \in sizes : s % c.tp = 0} ELSE sizes

GraphsOn(c) == ~c.eager /\ c.gmode # "NONE"

CaptureSizes(c) ==
    SpSizes(c, IF c.sizesSet THEN {s \in c.sizes : s <= c.batched}
               ELSE DefaultSizes(c, Min({c.batched, Ceiling(c)})))

SizesOk(c) ==
    GraphsOn(c) =>
        /\ Min({c.batched, Ceiling(c)}) >= 1
        /\ c.sizesSet => c.sizes # {}
        /\ c.sizesSet /\ c.maxSize # -1 => c.maxSize = Max(CaptureSizes(c) \cup {0})

SetCudagraphSizes(c) ==
    LET s == IF GraphsOn(c) THEN CaptureSizes(c) ELSE {}
    IN [c EXCEPT !.sizesSet = TRUE, !.sizes = s, !.maxSize = Max(s \cup {0})]

GraphsOk(c) == ScheduledOk(c) /\ SizesOk(GraphMode(SetMaxScheduled(c)))
ResolveGraphs(c) == SetCudagraphSizes(GraphMode(SetMaxScheduled(c)))
-----------------------------------------------------------------------------
FastPrefillOk(c) == c.fastPrefill => ~UseEagle(c)

\* CudaPlatform.check_and_update_config
CheckAndUpdate(c) ==
    [c EXCEPT !.workerSet = TRUE,
              !.chunkedMmOff = @ \/ (c.mmPrefixLm /\ c.mm)]

AllowMissingEmbeds(c) == [c EXCEPT !.missingEmbeds = c.mm /\ (c.ecConsumer \/ c.kvConsumer)]

MmProcessorDevice(c) ==
    IF c.mm /\ c.mmDevice = "unset" /\ c.encodeOnly /\ c.shmIpc THEN [c EXCEPT !.mmDevice = "cuda"] ELSE c

\* Fault: what the environment asks for is taken without looking.
RunnerOkAsked(c) == IF UseV2(c) THEN c.triton ELSE ~V1Unsupported(c)

RunnerOk(c) == IF UseV2(c) THEN c.triton /\ ~V2Unsupported(c) ELSE ~V1Unsupported(c)

ShardSamplingOk(c) ==
    c.shardSampling = "on" => c.tp > 1 /\ c.seqs >= c.tp /\ ~c.allLogprobs /\ ~c.samplingMask /\ ~c.adaptive
AdaptiveOk(c) == c.adaptive => ~c.lora /\ c.gmode # "NONE" /\ c.pp = 1

PlatformOk(c) == FastPrefillOk(c) /\ RunnerOk(c) /\ ShardSamplingOk(c) /\ AdaptiveOk(c)
ResolvePlatform(c) ==
    LET d == MmProcessorDevice(AllowMissingEmbeds(CheckAndUpdate(c)))
    IN [d EXCEPT !.shardSampling = IF @ = "unset" THEN "off" ELSE @]
-----------------------------------------------------------------------------
\* _set_compile_ranges: a sorted list that may repeat an endpoint.
Endpoints(c) ==
    <<c.batched>>
    \o (IF c.fuseAllreduce = "on" /\ c.allreduceMax < c.batched THEN <<c.allreduceMax>> ELSE <<>>)
    \o (IF c.enableSp = "on" /\ c.spMin > 1 /\ c.spMin < c.batched THEN <<c.spMin - 1>> ELSE <<>>)
    \o SelectSeq(c.endpoints, LAMBDA x : x < c.batched /\ x > 1)

SetCompileRanges(c) == [c EXCEPT !.endpoints = SortSeq(Endpoints(c), LAMBDA x, y : x < y)]

PiecewiseOk(c) == HasPiecewise(c.gmode) => c.mode = "VLLM" \/ Breakable(c)
UbatchOk(c) == c.dbo => c.deepep

FinalOk(c) == PiecewiseOk(c) /\ UbatchOk(c)
ResolveFinal(c) ==
    LET d == SetCompileRanges(c)
    IN [d EXCEPT !.cascadeOff = @ \/ c.batchInvariant \/ c.dbo,
                 !.rmsNorm = @ \/ (c.enableSp = "on" /\ c.pp > 1)]
-----------------------------------------------------------------------------
\* _post_init_kv_transfer_config
Offloaded(c) ==
    CASE c.offload = "unset" -> c
      [] c.offload = "native" -> [c EXCEPT !.connector = IF c.simpleOffload THEN "simple" ELSE "offload"]
      [] c.offload = "lmcache" -> [c EXCEPT !.connector = "lmcache"]

SupportsHma(connector) == connector # "lmcache"

\* Hybrid KV cache manager: chunked local attention, or a connector without support, turn it off.
HmaClash(c) == c.chunkAttn /\ (UseEagle(c) \/ ~c.chunkHma)
KvOk(c) ==
    /\ ~(c.disableHybrid = "off" /\ HmaClash(c))
    /\ Offloaded(c).connector # "none" => ~c.expandable \/ c.cumem
ResolveKv(c) ==
    LET d == Offloaded(c)
        clash == HmaClash(c) \/ (d.connector # "none" /\ ~SupportsHma(d.connector))
    IN [d EXCEPT !.disableHybrid = IF @ = "unset" THEN Switch(clash) ELSE @,
                 !.prefixCaching = IF c.encoderOnly THEN "off" ELSE @]
-----------------------------------------------------------------------------
\* The validators that run on the finished object.
Nvfp4Ok(c) == ~(c.nvfp4 /\ c.mla)
MambaBlockOk(c) == c.mambaBlockSet => c.prefixCaching = "on"
ReplaySsmOk(c) ==
    c.replaySsm =>
        /\ IF NumSpeculativeTokens(c) > 0
           THEN c.kda /\ ~c.stochastic /\ c.mambaMode \in {"none", "align"} /\ c.pp = 1 /\ c.mambaTriton
                /\ (c.mambaMode = "align" => UseV2(c))
           ELSE c.mambaMode # "all" /\ (c.mambaTriton => ~UseV2(c)) /\ (~c.mambaTriton => c.mambaMode # "align")
        /\ c.connector = "none"
ValidOk(c) == Nvfp4Ok(c) /\ MambaBlockOk(c) /\ ReplaySsmOk(c)
-----------------------------------------------------------------------------
ConfigInit(options) ==
    /\ conf \in options /\ asked = conf
    /\ at = "model" /\ round = 1 /\ first = <<>>

Section(name, ok, new, next) ==
    /\ at = name
    /\ at' = IF ok THEN next ELSE "refused"
    /\ conf' = IF ok THEN new ELSE conf
    /\ UNCHANGED <<round, first, asked>>

\* create_engine_config
Model     == Section("model", ModelOk(conf), SettlePrefill(SettleModel(conf)), "launch")
Launch    == Section("launch", LaunchOk(conf), SettleLaunch(conf), "spec")
Speculate ==
    \E c \in {HfOverride(conf)} :
        Section("spec", (conf.spec => HfOverrideOk(conf)) /\ SpecOk(c), SettleSpec(c), "limits")
Limits    == Section("limits", LimitsOk(conf), SettleLimits(conf), "verify")

\* VllmConfig.__post_init__
Verify    == Section("verify", VerifyOk(conf), Verified(conf), "async")
Scheduling == Section("async", AsyncOk(conf) /\ ObserveOk(conf), ResolveAsync(conf), "compile")
Compile   == Section("compile", ProtonOk(conf), ResolveMode(conf), "level")
Level     == Section("level", TRUE, ResolveLevel(conf), "sp")
Sequence  == Section("sp", TRUE, ResolveSp(conf), "graphs")
Graphs    == Section("graphs", GraphsOk(conf), ResolveGraphs(conf), "platform")
Platform  == Section("platform", PlatformOk(ResolvePlatform(conf)), ResolvePlatform(conf), "final")
Final     == Section("final", FinalOk(conf), ResolveFinal(conf), "kv")
Kv        == Section("kv", KvOk(conf), ResolveKv(conf), "valid")
Validate  == Section("valid", ValidOk(conf), conf, "done")

\* with_hf_config, for the language model inside a multimodal one
WithHfConfig ==
    /\ at = "done" /\ round = 1
    /\ at' = "verify" /\ round' = 2 /\ first' = <<conf>>
    /\ UNCHANGED <<conf, asked>>

ConfigNext == Model \/ Launch \/ Speculate \/ Limits \/ Verify \/ Scheduling \/ Compile \/ Level \/ Sequence \/ Graphs \/ Platform \/ Final \/ Kv
              \/ Validate \/ WithHfConfig
-----------------------------------------------------------------------------
\* What a resolution leaves open to the next one: the runner, if sequence parallelism (settled after
\* the checks that ask for V2) turned it to V1; a list of capture sizes emptied by the token budget;
\* a connector that offloading brought in after the check against routed experts; the graph mode of
\* an encoder-decoder model that pools, for which two overrides undo each other.
Settled(c) ==
    /\ UseV2(c) = UseV2([c EXCEPT !.enableSp = "off"])
    /\ GraphsOn(c) => c.sizes # {}
    /\ ~(c.routed /\ c.connector # "none")
    /\ ~(c.encoderDecoder /\ c.pooler)

(***************************************************************************)
(* Filling in the defaults is a fixed point: the second configuration that *)
(* shares the sub-configurations of an accepted one is accepted too and    *)
(* changes nothing (compile ranges as a set), but for what Settled names.  *)
(***************************************************************************)
ResolveStable ==
    round = 2 /\ Settled(first[1]) =>
        /\ at # "refused"
        /\ at = "done" => [conf EXCEPT !.endpoints = ToSet(@)] = [first[1] EXCEPT !.endpoints = ToSet(@)]

(***************************************************************************)
(* What an accepted configuration runs with: the runner supports all that  *)
(* was settled after it was first asked for, captured batches fit the      *)
(* token budget and sequence parallelism, a full decode batch below the    *)
(* ceiling has a captured size its query length divides, no full graph for *)
(* pooling (of decoders) or a layerwise connector, and no cascade          *)
(* attention with asynchronously scheduled drafts.                         *)
(***************************************************************************)
SettledSound ==
    at = "done" =>
        /\ IF UseV2(conf) THEN ~V2Unsupported(conf) ELSE ~V1Unsupported(conf)
        /\ \A s \in conf.sizes : s <= conf.batched /\ (conf.enableSp = "on" => s % conf.tp = 0)
        /\ HasFull(conf.gmode) => (conf.pooler => conf.encoderDecoder) /\ conf.connector # "layerwise"
        /\ HasSpec(conf) /\ conf.async = "on" => conf.cascadeOff /\ conf.method \in AsyncMethods
        /\ conf.gmode # "NONE" /\ conf.enableSp = "off" /\ ~asked.sizesSet /\ ~UsesDynamic(conf) =>
               LET t == conf.seqs * UniformDecodeQueryLen(conf)
               IN t <= conf.maxSize => \E s \in conf.sizes : s >= t /\ s % UniformDecodeQueryLen(conf) = 0

(***************************************************************************)
(* What the options left open are given: a token budget that a whole       *)
(* prompt fits into where prompts are not chunked, a batch no larger than  *)
(* the budget, and a drafter that drafts whole rounds, whose rotary cache  *)
(* reaches the last position and which never runs past the target.         *)
(***************************************************************************)
ArgsSound ==
    at = "verify" /\ round = 1 =>
        /\ asked.batched = -1 /\ conf.chunked = "off" => conf.batched >= conf.maxLen
        /\ asked.batched = -1 => conf.batched <= Max({conf.seqs, SeqsBefore(asked)}) * conf.maxLen
        /\ asked.seqs = -1 => conf.seqs <= conf.batched
        /\ conf.method # "none" =>
              /\ conf.nspec > 0 /\ conf.draftLen <= conf.maxLen
              /\ conf.method \in {"eagle", "eagle3"} => conf.draftPositions >= conf.maxLen
              /\ conf.method = "dspark" /\ conf.deepseek41 /\ conf.drafter # "dspark" /\ conf.nspec > conf.blockSize =>
                     conf.nspec % conf.blockSize = 0

(***************************************************************************)
(* The nodes of one launch, which differ in --node-rank only and leave the *)
(* ranks to be inferred, start every data-parallel rank, and none twice    *)
(* unless a rank spans nodes.  (The nodes divide the ranks evenly.)        *)
(***************************************************************************)
LaunchCovers ==
    LET nodes == 0..(conf.nnodes - 1)
        on(n) == [conf EXCEPT !.nodeRank = n]
        ranks(n) == StartedRanks(SettleLaunch(on(n)))
        spans == WithinDp(conf) > LocalWorld(conf)
        even == IF spans THEN WithinDp(conf) % LocalWorld(conf) = 0
                ELSE LocalWorld(conf) % WithinDp(conf) = 0
    IN at = "launch" /\ conf.dpLocal = -1 /\ conf.dpStart = -1 /\ conf.dpRank = -1 /\ conf.dpBackend = "mp"
       /\ (\A n \in nodes : LaunchOk(on(n)))
       /\ even /\ (conf.externalLb => LocalWorld(conf) <= WithinDp(conf))
       => /\ UNION {ranks(n) : n \in nodes} = 0..(conf.dp - 1)
          /\ ~spans => \A n, k \in nodes : n # k => ranks(n) \cap ranks(k) = {}

\* The options, once defaulted and once settled, can be run together, and the nodes of a
\* launch start all of it (create_engine_config, VllmConfig.__post_init__).
ConfigSound == ArgsSound /\ SettledSound /\ LaunchCovers
=============================================================================
