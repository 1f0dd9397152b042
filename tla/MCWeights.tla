------------------------------ MODULE MCWeights ------------------------------
(***************************************************************************)
(* Packs and ranks for WeightLoad: a model of four layers whose first is   *)
(* the kv source of all, on one or two pipeline ranks; and batches for the *)
(* ranks that go on to serve.  Checkpoints of ModelOpt are loaded in       *)
(* behaviours of their own.                                                *)
(***************************************************************************)
EXTENDS ExpertServe, ModelOpt

Ratios == 0 :> 2 @@ 1 :> 2 @@ 2 :> 2 @@ 3 :> 0

Quant(kind, block, experts, algo, scope) ==
    [kind |-> kind, block |-> block, experts |-> experts, moeAlgo |-> algo,
     ignored |-> {"compressor.fused_wkv_wgate", "indexer.wk"}, scope |-> scope, nMain |-> 4]

Mx4    == Quant("v4", 32, "fp4", "", "all")
Block4 == Quant("v4", 128, "fp4", "", "all")
Block8 == Quant("v4", 128, "fp8", "", "all")
Nv4    == Quant("v4", 128, "fp4", "NVFP4", "all")
Exl3   == Quant("exl3", 0, "fp4", "", "all")
Hybrid == [Quant("exl3", 32, "fp4", "", "routed") EXCEPT !.ignored = {}]

KMap == [mtp_bits |-> 4, shared |-> (0 :> 4 @@ 1 :> 3), engram |-> (2 :> 4),
         routed |-> (0 :> 2 @@ 1 :> 3 @@ 2 :> 3 @@ 3 :> 2), head_bits |-> 6]
NoKMap == [k \in {} |-> 0]

\* A rank with the layers from the first element of cut up to the second.
Conf(pack, quant, cut) ==
    [loader |-> "dsv41", inv |-> FALSE, pack |-> pack, quant |-> quant, start |-> cut[1], end |-> cut[2],
     shadow |-> IF cut[1] > 0 THEN {0} ELSE {}, draft |-> pack # "exl3" /\ cut[2] = 4,
     cpu |-> {}, mega |-> FALSE, phys |-> 2, tp |-> 1, rank |-> 0, ep |-> 1, inter |-> 160, heads |-> 4,
     strategy |-> "lazy", kmap |-> KMap, packK |-> KMap, served |-> TRUE]

Cuts == {<<0, 4>>, <<0, 2>>, <<2, 4>>}

Packs == {<<"fp4", Mx4>>, <<"fp4", Block4>>, <<"fp8", Block8>>, <<"nvfp4", Nv4>>,
          <<"exl3", Exl3>>, <<"hybrid", Hybrid>>}

PlainConfs == {Conf(p[1], p[2], cut) : p \in Packs, cut \in Cuts}

Parallel == {[Conf("fp4", q, <<0, 2>>) EXCEPT !.tp = 2, !.rank = r, !.ep = e]
             : q \in {Mx4, Block4}, r \in {0, 1}, e \in {1, 2}}

Strategies == {[Conf("fp4", Mx4, <<2, 4>>) EXCEPT !.strategy = s] : s \in {"eager", "threads"}}
              \cup {[Conf("hybrid", Hybrid, <<2, 4>>) EXCEPT !.strategy = "eager"]}

\* MegaMoE with one replica of each expert.
Megas == {[Conf("fp4", Mx4, <<0, 2>>) EXCEPT !.mega = TRUE, !.phys = 4, !.tp = 2,
                                              !.rank = r, !.ep = e] : r \in {0, 1}, e \in {1, 2}}

OnCpus == {[Conf("fp4", Mx4, cut) EXCEPT !.cpu = {1, 2}] : cut \in Cuts}

\* The model on AMD, with either name for its scales, and the older model; its
\* checkpoint here is the same with engram tensors left out.
OtherModels ==
    {[Conf("fp4", Mx4, <<0, 4>>) EXCEPT !.loader = "amd", !.draft = FALSE, !.inv = i] : i \in BOOLEAN}
    \cup {[Conf(p[1], p[2], cut) EXCEPT !.loader = "v4", !.draft = FALSE, !.shadow = {}]
          : p \in {<<"fp4", Block4>>, <<"fp8", Block8>>}, cut \in Cuts}

\* Packed experts cannot be read by the CPU, a pack without its K map and the
\* draft of a packed model cannot be loaded: these starts fail.
Refused == {[Conf("exl3", Exl3, <<0, 4>>) EXCEPT !.cpu = {1}, !.served = FALSE],
            [Conf("exl3", Exl3, <<0, 4>>) EXCEPT !.kmap = NoKMap, !.served = FALSE],
            [Conf("exl3", Exl3, <<2, 4>>) EXCEPT !.draft = TRUE, !.served = FALSE]}

\* The first rank with layer 1 on the CPU, and the two ranks of a hybrid.
ServingConfs == {[Conf("fp4", Mx4, <<0, 2>>) EXCEPT !.cpu = {1, 2}],
                 Conf("hybrid", Hybrid, <<0, 2>>)}

Row(i, p) == [ids |-> i, pad |-> p]
Routed == {Row(<<0, 1>>, FALSE), Row(<<1, 0>>, TRUE), Row(<<1, 0>>, FALSE)}
CpuBatches == {<<r>> : r \in Routed} \cup {<<r, s>> : r, s \in Routed}

\* One token, a few, and so many that an expert's rows exceed every tier.
Picks == {Row(<<0, 1>>, FALSE), Row(<<0, None>>, FALSE)}
WideBatches ==
    UNION {[1 .. m -> Picks] : m \in {1, 2, 4}}
    \cup {[i \in 1 .. 7 |-> IF i % 2 = 0 \/ i > n THEN Row(<<0, 1>>, FALSE) ELSE Row(<<0, None>>, FALSE)]
          : n \in 1 .. 7}

-----------------------------------------------------------------------------
Pattern(r, star) == [root |-> r, star |-> star]

\* A checkpoint whose shards q and k, and w1 and w3, may differ in scale.
Checkpoint(algo, sk, s3, plain, ignore) ==
    [wrapped |-> FALSE, algo |-> algo, fields |-> TRUE, weightOnly |-> FALSE, legacy |-> FALSE,
     plain |-> plain, ignore |-> ignore, algos |-> <<>>, width |-> 128, good |-> TRUE,
     scale |-> [s \in UNION {ShardsOf(l) : l \in MoLayers} |->
                  CASE s = "k" -> sk [] s = "w3" -> s3 [] OTHER -> 1]]

\* The same exclusions, in the forms exporters write them.
Exclusions == {<<{}, {}>>, <<{"head"}, {Pattern("head", FALSE)}>>,
               <<{"qkv"}, {Pattern("q", FALSE), Pattern("k", FALSE)}>>,
               <<{"qkv", "head"}, {Pattern("qkv", TRUE), Pattern("head", TRUE)}>>,
               <<MoLayers, {Pattern("model", TRUE)}>>}

Uniform == {Checkpoint(a, sk, s3, x[1], x[2])
            : a \in DOMAIN LinearAlgos, sk \in {1, 2}, s3 \in {1, 2}, x \in Exclusions}

Mixed == {[Checkpoint("MIXED_PRECISION", 2, s3, {"out"}, {Pattern("out", FALSE)})
             EXCEPT !.algos = "q" :> a @@ "k" :> a @@ "w1" :> e @@ "w3" :> e @@ "w2" :> e @@ "head" :> a]
          : a \in DOMAIN LinearAlgos, e \in {"FP8", "NVFP4", "W4A16_NVFP4", "MXFP8"}, s3 \in {1, 2}}

Exports ==
    {[Checkpoint("NVFP4", 2, 2, {}, {}) EXCEPT !.weightOnly = TRUE],
     [Checkpoint("W4A16_NVFP4", 2, 1, {}, {}) EXCEPT !.legacy = TRUE],
     [Checkpoint("", 1, 1, {}, {}) EXCEPT !.legacy = TRUE],
     [Checkpoint("NVFP4", 1, 2, {}, {}) EXCEPT !.wrapped = TRUE],
     [Checkpoint("FP8_PB_WO", 1, 1, {}, {}) EXCEPT !.width = 192]}

\* Fields missing, algorithms unknown or different within a merged layer.
Bad == {[Checkpoint("NVFP4", 1, 1, {}, {}) EXCEPT !.wrapped = TRUE, !.fields = FALSE, !.good = FALSE],
        [Checkpoint("INT3", 1, 1, {}, {}) EXCEPT !.good = FALSE],
        [Checkpoint("FP8", 1, 1, {"q"}, {Pattern("q", FALSE)}) EXCEPT !.good = FALSE],
        [Checkpoint("MIXED_PRECISION", 1, 1, {}, {}) EXCEPT !.algos = "q" :> "FP8" @@ "k" :> "NVFP4",
                                                            !.good = FALSE],
        [Checkpoint("MIXED_PRECISION", 1, 1, {}, {}) EXCEPT !.good = FALSE]}

AllCheckpoints == Uniform \cup Mixed \cup Exports \cup Bad

\* A behaviour loads and serves a rank, or loads a ModelOpt checkpoint.
MCInit ==
    \/ /\ ServeInit
       /\ stage = "off" /\ ck = <<>> /\ config = <<>> /\ methods = <<>> /\ scales = <<>> /\ result = <<>>
    \/ /\ MoInit
       /\ pc = "off" /\ conf = <<>> /\ left = {} /\ mem = {} /\ cpuMem = {}
       /\ calls = 0 /\ batch = <<>> /\ thr = <<>> /\ taken = <<>> /\ xp = <<>> /\ hp = <<>> /\ yp = <<>>
       /\ out = <<>>

MCNext ==
    \/ pc # "off" /\ ServeNext /\ UNCHANGED moVars
    \/ stage # "off" /\ MoNext /\ UNCHANGED allVars

MCSpec == MCInit /\ [][MCNext]_<<allVars, moVars>>

AllConfs == PlainConfs \cup Parallel \cup Strategies \cup Megas \cup OnCpus \cup OtherModels \cup Refused
=============================================================================
