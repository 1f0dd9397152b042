---------------------------- MODULE QuantMethods ----------------------------
(***************************************************************************)
(* Which quantization method each layer of the model is given, the         *)
(* parameters that method registers, and what a copy into a parameter      *)
(* keeps.                                                                  *)
(*                                                                         *)
(* A layer is a record [cls, at, l, mod]: the vLLM class it has ("linear", *)
(* "experts", "head" or "plain"), the block it is in ("layers", "shadow",  *)
(* "draft" or "top"), the number of that block and its name there.  A      *)
(* quantization configuration is a record                                  *)
(*   [kind, block, experts, moeAlgo, ignored, scope, nMain]                *)
(* with kind "v4" (DeepseekV4FP8Config), "exl3" or "none".                 *)
(***************************************************************************)
EXTENDS Integers, Sequences

\* Bits per weight of an EXL3 layer: what the pack's K map says for it (the map
\* is empty if the file is missing) and a default for its kind otherwise.
KForPrefix(km, x) ==
    LET Said(f, default) == IF f \in DOMAIN km THEN km[f] ELSE default
        Of(f, default) == IF f \in DOMAIN km /\ x.l \in DOMAIN km[f]
                          THEN km[f][x.l] ELSE default
    IN
    CASE x.at = "draft"           -> Said("mtp_bits", 4)
      [] x.mod \in {"shared_experts.gate_up_proj", "shared_experts.down_proj"}
                                  -> Of("shared", 3)
      [] x.mod = "engram.wkv"     -> Of("engram", 3)
      [] x.cls = "experts"        -> Of("routed", 3)
      [] x.mod = "indexer.wk"     -> Said("indexer_wk_bits", 8)
      [] x.cls = "head"           -> Said("head_bits", 6)
      [] OTHER                    -> Said("attn_default", 5)

\* Names whose layer the EXL3 pack stores without quantizing it.
SkipExl3Linear(mod) == mod \in {"indexer.weights_proj", "gate", "markov_w1",
                                "markov_w2", "confidence_head", "embed_tokens"}

\* Fp8Config.get_quant_method, for the layers DeepseekV4FP8Config passes on.
Fp8Method(q, x) ==
    CASE x.cls = "linear"  -> IF x.mod \in q.ignored THEN "unquantized" ELSE "fp8"
      [] x.cls = "experts" -> "fp8"
      [] OTHER             -> "unquantized"

\* Blocks of [32, 32] with power-of-two scales are MXFP8.
IsMxfp8(q) == q.block = 32 /\ q.experts = "fp4"

V4Method(q, x) ==
    IF x.cls = "linear" /\ IsMxfp8(q)
    THEN IF x.mod \in q.ignored THEN "unquantized" ELSE "mxfp8"
    ELSE IF x.cls = "experts" /\ x.mod \in q.ignored THEN "unquantized"
    ELSE IF x.cls = "experts" /\ q.experts = "fp4"
    THEN IF q.moeAlgo = "NVFP4" THEN "nvfp4" ELSE "mxfp4"
    ELSE Fp8Method(q, x)

\* The hybrid pack: EXL3 for the routed experts of the main layers, the inner
\* configuration for the rest, nothing for what the base stores in bf16.
HybridMethod(q, x) ==
    CASE x.cls = "experts" /\ x.at = "layers" /\ x.l < q.nMain -> "exl3"
      [] x.cls = "head"                                        -> "unquantized"
      [] x.mod \in {"compressor.fused_wkv_wgate", "indexer.wk"} -> "unquantized"
      [] OTHER                                                 -> V4Method(q, x)

Exl3Method(q, x) ==
    IF q.scope = "routed" THEN HybridMethod(q, x)
    ELSE IF x.cls \in {"experts", "head"} \/ (x.cls = "linear" /\ ~SkipExl3Linear(x.mod))
    THEN "exl3" ELSE "unquantized"

QuantMethod(q, x) ==
    CASE q.kind = "v4"   -> V4Method(q, x)
      [] q.kind = "exl3" -> Exl3Method(q, x)
      [] OTHER           -> "unquantized"

Packed == [trellis |-> "int16", suh |-> "fp16", svh |-> "fp16", mul1 |-> "int32"]
Plain  == [weight |-> "bf16"]

\* create_weights of the linear methods: the parameters and their types.
LinearParams(m) ==
    CASE m = "unquantized" -> Plain
      [] m = "fp8"   -> [weight |-> "fp8", weight_scale_inv |-> "f32"]
      [] m = "mxfp8" -> [weight |-> "fp8", weight_scale |-> "uint8"]
      [] m = "exl3"  -> Packed

\* create_weights of the expert methods.
MoEParams(m) ==
    CASE m = "unquantized" -> Plain
      [] m = "fp8"   -> [weight |-> "fp8", weight_scale_inv |-> "f32"]
      [] m \in {"mxfp4", "mega"} -> [weight |-> "uint8", weight_scale |-> "uint8"]
      [] m = "nvfp4" -> [weight |-> "uint8", weight_scale |-> "fp8",
                         weight_scale_2 |-> "f32", input_scale |-> "f32"]
      [] m = "exl3"  -> Packed

\* The loader of a power-of-two scale keeps its bytes: KMxfp8Static's and
\* Mxfp4MoEMethod's take the tensor as uint8 instead of converting its value.
ScaleEncoded(m, leaf, dtype) ==
    IF m \in {"mxfp8", "mxfp4"} /\ leaf = "weight_scale" /\ dtype = "e8m0"
    THEN "uint8" ELSE dtype

\* Tensor.copy_ converts values: these keep them.
Keeps(from, to) == from = to \/ <<from, to>> \in {<<"bf16", "f32">>, <<"e8m0", "f32">>}
=============================================================================
