------------------------------ MODULE ModelOpt ------------------------------
(***************************************************************************)
(* Checkpoints quantized by ModelOpt: how the configuration is read, which *)
(* method a layer is given, and what becomes of the per-tensor scales when *)
(* several shards of a checkpoint are merged into one layer.               *)
(*                                                                         *)
(* A checkpoint is a record                                                *)
(*   [wrapped, algo, fields, weightOnly, legacy, plain, ignore, algos,     *)
(*    scale, width, good]                                                  *)
(* plain is the set of layers it stores unquantized, ignore the patterns   *)
(* that say so, algos the algorithm of each shard (mixed precision) and    *)
(* scale the per-tensor scale of a shard.  The layers of the model are     *)
(* fixed: an attention, merged and single linears, experts, a head.  A     *)
(* stored number is the weight divided by its shard's scale: a shard is    *)
(* right if it is multiplied by its own scale again.                       *)
(***************************************************************************)
EXTENDS Integers, FiniteSets

CONSTANT Checkpoints    \* the checkpoints that are loaded

VARIABLES
    ck,         \* the checkpoint
    stage,      \* "parse", "create", "load", "process", "ready", "refused" or "off"
    config,     \* what from_config returned
    methods,    \* the method of each layer
    scales,     \* the per-tensor scales of each layer, one per shard
    result      \* the scales the kernels use

moVars == <<ck, stage, config, methods, scales, result>>

ASSUME CheckpointAssumption == \A c \in Checkpoints : c.width \in Nat \ {0}

Linears == {"qkv", "out", "vision"}
Heads   == {"head"}
MoLayers  == Linears \cup Heads \cup {"attn", "experts"}

\* The names the checkpoint uses for what vLLM merges; packed_modules_mapping.
ShardsOf(l) ==
    CASE l = "qkv"     -> {"q", "k"}
      [] l = "experts" -> {"w1", "w3", "w2"}
      [] OTHER         -> {l}

Unset == 0      \* torch.empty, a sentinel or NaN: never a scale

-----------------------------------------------------------------------------
(***************************************************************************)
(* The configuration                                                       *)
(***************************************************************************)
\* LINEAR_ALGOS: the configuration that owns each algorithm.
LinearAlgos == [FP8 |-> "modelopt", FP8_PER_CHANNEL_PER_TOKEN |-> "modelopt",
                FP8_PB_WO |-> "modelopt", NVFP4 |-> "modelopt_fp4",
                W4A16_NVFP4 |-> "modelopt_fp4", MXFP8 |-> "modelopt_mxfp8"]

AlgosOwnedBy(name) == {a \in DOMAIN LinearAlgos : LinearAlgos[a] = name}

QuantAlgos == DOMAIN LinearAlgos \cup {"MIXED_PRECISION"}

\* override_quantization_method of the four configurations: the first that
\* claims the algorithm; the name in the checkpoint decides for the others.
ConfigClass(algo) ==
    CASE algo \in {"NVFP4", "W4A16_NVFP4"} -> "modelopt_fp4"
      [] algo = "MXFP8"                    -> "modelopt_mxfp8"
      [] algo = "MIXED_PRECISION"          -> "modelopt_mixed"
      [] OTHER                             -> "modelopt"

\* ModelOptMxFp8Config.from_config: other exporters name no algorithm.
Algo(c) == IF ~c.wrapped /\ c.algo = "" /\ c.legacy THEN "MXFP8" ELSE c.algo

\* Fields the wrapped form of a configuration must have.
FieldsMissing(c) ==
    /\ c.wrapped /\ ~c.fields
    /\ ConfigClass(Algo(c)) \in {"modelopt_fp4", "modelopt_mxfp8"}

\* from_config and the checks of the constructors.
Rejected(c) ==
    \/ Algo(c) \notin QuantAlgos
    \/ ConfigClass(Algo(c)) # "modelopt_mixed" /\ Algo(c) \notin AlgosOwnedBy(ConfigClass(Algo(c)))
    \/ FieldsMissing(c)
    \/ Algo(c) = "MIXED_PRECISION" /\ DOMAIN c.algos = {}

\* Fault: what is declared is believed.
NvAlgoDeclared(c) == c.algo

\* ModelOptNvFp4Config._from_config: a checkpoint that quantizes weights only is
\* not run with quantized activations, whatever it declares.
NvAlgo(c) == IF c.algo = "NVFP4" /\ c.weightOnly /\ ~c.wrapped THEN "W4A16_NVFP4" ELSE c.algo

\* apply_vllm_mapper: a pattern "m*" becomes "m" and "m.*".
MappedIgnore(ps) ==
    UNION {IF p.star THEN {[root |-> p.root, star |-> FALSE, below |-> FALSE],
                           [root |-> p.root, star |-> TRUE, below |-> TRUE]}
           ELSE {[root |-> p.root, star |-> FALSE, below |-> FALSE]} : p \in ps}

Configured(c) ==
    [class |-> ConfigClass(Algo(c)),
     algo |-> IF ConfigClass(Algo(c)) = "modelopt_fp4" THEN NvAlgo(c) ELSE Algo(c),
     ignore |-> MappedIgnore(c.ignore)]

-----------------------------------------------------------------------------
(***************************************************************************)
(* The method of a layer                                                   *)
(***************************************************************************)
\* is_layer_excluded: by its name, by the names of all its shards (external:
\* is_layer_skipped), or below a pattern; "model" is above every layer.
Excluded(g, l) ==
    \/ \E p \in g.ignore : p.root = l /\ ~p.below
    \/ \A s \in ShardsOf(l) : \E p \in g.ignore : p.root = s /\ ~p.below
    \/ \E p \in g.ignore : p.root = "model"

\* Some shards of a merged layer excluded and some not: ValueError.
HalfExcluded(g, l) ==
    /\ Cardinality(ShardsOf(l)) > 1 /\ l # "experts"
    /\ \E s \in ShardsOf(l) : \E p \in g.ignore : p.root = s /\ ~p.below
    /\ ~Excluded(g, l)

LayerKind(l) == CASE l \in Linears \cup Heads -> "linear" [] l = "attn" -> "kv" [] OTHER -> "moe"

MoMethod(kind, algo) == [kind |-> kind, algo |-> algo]
Unquantized == MoMethod("unquantized", "")
NoMethod    == MoMethod("none", "")

\* ModelOptQuantConfigBase.get_quant_method.
BaseMethod(g, l) ==
    CASE l = "attn"       -> MoMethod("kv", "")
      [] Excluded(g, l)   -> IF LayerKind(l) = "linear" THEN Unquantized ELSE NoMethod
      [] l = "vision"     -> Unquantized
      [] OTHER            -> MoMethod(LayerKind(l), g.algo)

\* _resolve_quant_algo: the layer's own entry, its shards' if they agree, or for
\* experts the first entry below them.
Entries(c, l) == {c.algos[s] : s \in ShardsOf(l) \cap DOMAIN c.algos}

ResolveAlgo(c, l) ==
    IF l \in DOMAIN c.algos THEN c.algos[l]
    ELSE IF Entries(c, l) = {} THEN ""
    ELSE CHOOSE a \in Entries(c, l) : TRUE

AlgosDisagree(c, l) == l # "experts" /\ l \notin DOMAIN c.algos /\ Cardinality(Entries(c, l)) > 1

\* ModelOptMixedPrecisionConfig.get_quant_method, without a quantized KV cache.
MixedMethod(c, g, l) ==
    LET a == ResolveAlgo(c, l) IN
    CASE l = "attn"       -> NoMethod
      [] Excluded(g, l)   -> IF LayerKind(l) = "linear" THEN Unquantized ELSE NoMethod
      [] LayerKind(l) = "linear" -> IF a \in DOMAIN LinearAlgos THEN MoMethod("linear", a) ELSE Unquantized
      [] a \in {"FP8", "NVFP4", "W4A16_NVFP4", "MXFP8"} -> MoMethod("moe", a)
      [] OTHER            -> NoMethod

MethodOf(c, g, l) == IF g.class = "modelopt_mixed" THEN MixedMethod(c, g, l) ELSE BaseMethod(g, l)

-----------------------------------------------------------------------------
(***************************************************************************)
(* Parameters and their processing                                         *)
(***************************************************************************)
\* resolve: the schemes of the weight and of the activation, and the hook of the
\* format.
Resolve(a) ==
    CASE a = "FP8"         -> [weight |-> "fp8_tensor", act |-> "fp8_tensor", fmt |-> "none"]
      [] a = "FP8_PER_CHANNEL_PER_TOKEN"
                           -> [weight |-> "fp8_channel", act |-> "dynamic", fmt |-> "none"]
      [] a = "FP8_PB_WO"   -> [weight |-> "fp8_block", act |-> "dynamic", fmt |-> "partial_block"]
      [] a = "MXFP8"       -> [weight |-> "mxfp8", act |-> "dynamic", fmt |-> "none"]
      [] a = "NVFP4"       -> [weight |-> "nvfp4", act |-> "nvfp4", fmt |-> "none"]
      [] a = "W4A16_NVFP4" -> [weight |-> "nvfp4", act |-> "none", fmt |-> "drop_input_scale"]

\* Per-tensor scales a linear registers.  Channel and block scales belong to the
\* rows of one shard and are left out.
KFp8StaticTensorParams(role) == IF role = "weight" THEN {"weight_scale"} ELSE {"input_scale"}
KNvfp4StaticParams  == {"weight_scale_2"}
KNvfp4DynamicParams == {"input_scale"}
DropInputScaleParams == {"input_scale"}

LinearScales(a) ==
    LET r == Resolve(a) IN
    (CASE r.weight = "fp8_tensor" -> KFp8StaticTensorParams("weight")
       [] r.weight = "nvfp4"      -> KNvfp4StaticParams
       [] OTHER                   -> {})
    \cup (CASE r.act = "fp8_tensor" -> KFp8StaticTensorParams("act")
            [] r.act = "nvfp4"      -> KNvfp4DynamicParams
            [] OTHER                -> {})
    \cup (IF r.fmt = "drop_input_scale" THEN DropInputScaleParams ELSE {})

\* create_weights of the expert methods.
Fp8MoEScales  == {"weight_scale", "input_scale"}
NvFp4MoEScales == {"weight_scale_2", "input_scale"}
MxFp8MoEScales == {}

MoEScales(a) ==
    CASE a = "FP8" -> Fp8MoEScales
      [] a \in {"NVFP4", "W4A16_NVFP4"} -> NvFp4MoEScales
      [] OTHER -> MxFp8MoEScales

ScalesOf(m) ==
    CASE m.kind = "linear" -> LinearScales(m.algo)
      [] m.kind = "moe"    -> MoEScales(m.algo)
      [] OTHER             -> {}

\* create_weights allocates; only the FP8 experts start from 1.
InitialScale(m) == IF m.kind = "moe" /\ m.algo = "FP8" THEN 1 ELSE Unset

\* Scales the checkpoint stores for a shard.
StoredAlgo(c, l) == IF Algo(c) = "MIXED_PRECISION" THEN ResolveAlgo(c, l) ELSE Algo(c)

StoredScales(c, l) ==
    LET a == StoredAlgo(c, l)
        inputs == IF c.weightOnly THEN {} ELSE {"input_scale"} IN
    IF l \in c.plain \cup {"attn", "vision"} THEN {}
    ELSE CASE a = "FP8"         -> {"weight_scale"} \cup inputs
           [] a = "NVFP4"       -> {"weight_scale_2"} \cup inputs
           [] a = "W4A16_NVFP4" -> {"weight_scale_2"} \cup IF c.legacy THEN {"input_scale"} ELSE {}
           [] OTHER             -> {}

Highest(f) == LET r == {f[s] : s \in DOMAIN f} IN CHOOSE x \in r : \A y \in r : y <= x
Differ(f) == Cardinality({f[s] : s \in DOMAIN f}) > 1

\* The scale each shard is multiplied with, and whether its numbers were made
\* for it again or the log says that they were not.
Used(own, scale, requantized) ==
    [used |-> scale, requantized |-> requantized, warned |-> FALSE, own |-> own]
Warned(u) == [u EXCEPT !.warned = Differ(u.own)]

\* KFp8StaticTensor.process and requantize_with_max_scale.
ProcessFp8Tensor(own) == Used(own, [s \in DOMAIN own |-> Highest(own)], Differ(own))

\* KNvfp4Static.process: the largest global scale for all, with a warning.
ProcessNvfp4Static(own) == Warned(Used(own, [s \in DOMAIN own |-> Highest(own)], FALSE))

\* Scales of the activations: the largest, with a warning, for the shards that
\* read the same input.
ProcessInput(m, own) ==
    LET same(s) == IF m.kind = "moe" THEN (IF s = "w2" THEN {"w2"} ELSE {"w1", "w3"}) ELSE DOMAIN own IN
    Warned(Used(own, [s \in DOMAIN own |-> Highest([t \in same(s) |-> own[t]])], FALSE))

\* ModelOptFp8MoEMethod: w1 and w3 are requantized for the larger of their
\* scales.
ProcessFp8MoE(own) ==
    LET w13 == [s \in {"w1", "w3"} |-> own[s]] IN
    Used(own, [s \in DOMAIN own |-> IF s = "w2" THEN own[s] ELSE Highest(w13)], Differ(w13))

\* ModelOptNvFp4FusedMoE: w1's global scale for both, with a warning.
ProcessNvFp4MoE(own) ==
    [Used(own, [s \in DOMAIN own |-> IF s = "w3" THEN own["w1"] ELSE own[s]], FALSE)
        EXCEPT !.warned = own["w1"] # own["w3"]]

ProcessScale(m, leaf, own) ==
    CASE leaf = "input_scale"                     -> ProcessInput(m, own)
      [] m.kind = "moe" /\ leaf = "weight_scale"   -> ProcessFp8MoE(own)
      [] m.kind = "moe" /\ leaf = "weight_scale_2" -> ProcessNvFp4MoE(own)
      [] leaf = "weight_scale"                    -> ProcessFp8Tensor(own)
      [] leaf = "weight_scale_2"                  -> ProcessNvfp4Static(own)

\* The scales the kernel reads: _DropInputScale and Marlin's experts read none
\* of the activations (select_linear_kernel, use_a16).
KernelReads(m) == IF m.algo = "W4A16_NVFP4" THEN ScalesOf(m) \ {"input_scale"} ELSE ScalesOf(m)

\* KFp8Block128.create_weights: a scale for every block of 128 rows, the last
\* of which may be partial.
BlockRows(w) == (w + 127) \div 128

\* _Fp8PbWoPartialBlock: before the kernel sees it the weight is padded to whole
\* blocks (and the output cut back to its logical width).
KernelRows(a, w) == IF Resolve(a).fmt = "partial_block" THEN w + ((-w) % 128) ELSE w

-----------------------------------------------------------------------------
(***************************************************************************)
(* The steps of a load                                                     *)
(***************************************************************************)
MoInit ==
    /\ ck \in Checkpoints
    /\ stage = "parse"
    /\ config = <<>> /\ methods = <<>> /\ scales = <<>> /\ result = <<>>

Parse ==
    /\ stage = "parse"
    /\ stage' = IF Rejected(ck) THEN "refused" ELSE "create"
    /\ config' = IF Rejected(ck) THEN <<>> ELSE Configured(ck)
    /\ UNCHANGED <<ck, methods, scales, result>>

\* get_quant_method for each layer, then create_weights.
Create ==
    /\ stage = "create"
    /\ IF \E l \in MoLayers \ {"attn"} :
             HalfExcluded(config, l) \/ (config.class = "modelopt_mixed" /\ AlgosDisagree(ck, l))
       THEN stage' = "refused" /\ UNCHANGED <<methods, scales>>
       ELSE /\ stage' = "load"
            /\ methods' = [l \in MoLayers |-> MethodOf(ck, config, l)]
            /\ scales' = [l \in MoLayers |->
                 [f \in ScalesOf(methods'[l]) |-> [s \in ShardsOf(l) |-> InitialScale(methods'[l])]]]
    /\ UNCHANGED <<ck, config, result>>

\* The checkpoint's scales are copied; a name without a parameter is an error.
LoadScales ==
    /\ stage = "load"
    /\ IF \E l \in MoLayers : ~(StoredScales(ck, l) \subseteq DOMAIN scales[l])
       THEN stage' = "refused" /\ UNCHANGED scales
       ELSE /\ stage' = "process"
            /\ scales' = [l \in MoLayers |-> [f \in DOMAIN scales[l] |->
                 IF f \in StoredScales(ck, l) THEN [s \in ShardsOf(l) |-> ck.scale[s]] ELSE scales[l][f]]]
    /\ UNCHANGED <<ck, config, methods, result>>

\* process_weights_after_loading of every layer.
ProcessScales ==
    /\ stage = "process"
    /\ stage' = "ready"
    /\ result' = [l \in MoLayers |-> [f \in KernelReads(methods[l]) |->
                    ProcessScale(methods[l], f, scales[l][f])]]
    /\ UNCHANGED <<ck, config, methods, scales>>

MoStopped == stage \in {"ready", "refused"} /\ UNCHANGED moVars

MoNext == Parse \/ Create \/ LoadScales \/ ProcessScales \/ MoStopped

-----------------------------------------------------------------------------
\* Of a checkpoint that got ready: the layers it stores unquantized, and only
\* those, have no method; every scale a kernel reads was loaded, and multiplies
\* the numbers that were divided by it (its own, or made for it again), unless a
\* warning was logged; no input exceeds the range its scale gives; the kernel of
\* whole blocks has a scale for every block.
\* Well-formed checkpoints do get ready.
ScalesKept ==
    /\ stage = "ready" =>
         /\ \A l \in MoLayers \ {"attn", "vision"} :
               methods[l].kind \in {"linear", "moe"} <=> l \notin ck.plain
         /\ \A l \in MoLayers : \A f \in DOMAIN result[l] : \A s \in ShardsOf(l) :
               LET u == result[l][f] IN
               /\ u.used[s] # Unset
               /\ u.used[s] = ck.scale[s] \/ u.requantized \/ u.warned
               /\ f = "input_scale" => u.used[s] >= ck.scale[s]
         /\ methods["out"].algo = "FP8_PB_WO" =>
               KernelRows("FP8_PB_WO", ck.width) = 128 * BlockRows(ck.width)
    /\ stage = "refused" => ~ck.good
=============================================================================
