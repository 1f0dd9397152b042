----------------------------- MODULE ModelArgs -----------------------------
(***************************************************************************)
(* EngineArgs.create_engine_config (engine/arg_utils.py) up to the         *)
(* constructor of VllmConfig, with the parts it builds first: ModelConfig  *)
(* (config/model.py) and SpeculativeConfig (config/speculative.py).        *)
(*                                                                         *)
(* All operators take the options c, one record, and return it with more   *)
(* options settled.  "unset", -1 and, for lengths, 0 stand for None.       *)
(***************************************************************************)
EXTENDS Integers, FiniteSets, FiniteSetsExt
-----------------------------------------------------------------------------
(* ModelConfig: which runner, and whether the model is adapted for pooling. *)
DefaultRunner(c) ==
    IF c.sentence THEN "pooling"
    ELSE IF c.known /\ c.poolingArch THEN "pooling"
    ELSE IF c.known /\ c.generative THEN "generate"
    ELSE IF c.suffix # "none" THEN c.suffix ELSE "generate"

RunnerType(c) ==
    IF c.runner # "auto" THEN c.runner
    ELSE IF c.convert \in {"auto", "none"} THEN DefaultRunner(c) ELSE "pooling"

\* suffixConvert: what the architecture's suffix says for this runner
DefaultConvert(c, r) ==
    IF c.known /\ ((r = "generate" /\ c.generative) \/ (r = "pooling" /\ c.poolingArch)) THEN "none"
    ELSE IF c.suffix = r THEN (IF r = "pooling" THEN "embed" ELSE "none")
    ELSE IF r = "pooling" THEN "embed" ELSE "none"

ConvertType(c, r) == IF c.convert # "auto" THEN c.convert ELSE DefaultConvert(c, r)

RunnerTypeOk(c, r) ==
    /\ ~(c.poolingArch /\ ~c.generative /\ r \in {"draft", "generate"})
    /\ r = "generate" => c.generative
    /\ r = "pooling" /\ ~c.poolingArch => ConvertType(c, r) \in {"embed", "classify"}

\* _get_and_verify_max_len.  derivedLen = 0: the checkpoint does not say.
DerivedLen(c) ==
    LET window == IF c.windowOff /\ c.window # 0 /\ c.window < c.derivedLen THEN c.window ELSE c.derivedLen
        known == IF c.tokenizerLen # 0 THEN Min({window, c.tokenizerLen}) ELSE window
        base == IF known = 0 THEN 2048 ELSE known
        rope == (IF c.rope = "yarn" THEN c.originalLen ELSE base) * (IF c.rope \in {"yarn", "linear"} THEN c.ropeFactor ELSE 1)
    IN IF c.encoderLen # 0 THEN c.encoderLen ELSE rope

\* Nothing known of the model, but the user or the target model says.
LenGiven(c) == c.derivedLen = 0 /\ c.tokenizerLen = 0 /\ (c.userLen # 0 \/ c.targetLen # 0)

MaxLenOk(c) ==
    \/ LenGiven(c)
    \/ c.userLen \in {-1, 0}
    \/ c.userLen <= DerivedLen(c)
    \/ c.modelMaxLength # 0 /\ c.userLen <= c.modelMaxLength
    \/ c.allowLong

MaxLen(c) ==
    CASE LenGiven(c) -> IF c.userLen # 0 THEN c.userLen ELSE c.targetLen
      [] ~LenGiven(c) /\ c.userLen \in {-1, 0} -> IF c.rope = "longrope" THEN c.originalLen ELSE DerivedLen(c)
      [] OTHER -> c.userLen

\* _verify_quantization: a method may claim the checkpoint for itself.
QuantMethod(c) ==
    IF c.quantCkpt = "none" THEN c.quantArg
    ELSE IF c.quantClaim # "none" THEN c.quantClaim
    ELSE IF c.quantArg = "none" THEN c.quantCkpt ELSE c.quantArg

QuantizationOk(c) ==
    /\ c.quantCkpt # "none" /\ c.quantClaim = "none" => c.quantArg \in {"none", c.quantCkpt}
    /\ QuantMethod(c) = "deprecated" => c.allowDeprecated
    /\ QuantMethod(c) # "unknown"

\* validate_model_config_after
ModelOk(c) ==
    /\ RunnerTypeOk(c, RunnerType(c)) /\ MaxLenOk(c) /\ QuantizationOk(c)
    /\ MaxLen(c) >= 1
    /\ ~(c.promptEmbeds /\ c.encoderDecoder)

\* Sleep mode needs the cumem allocator.
SettleModel(c) ==
    [c EXCEPT !.runner = RunnerType(c), !.convert = ConvertType(c, RunnerType(c)),
              !.pooler = @ \/ RunnerType(c) = "pooling",
              !.maxLen = MaxLen(c), !.cumem = @ \/ c.sleep, !.quantArg = QuantMethod(c)]

\* attn_type
AttnType(c) ==
    CASE c.pooler -> IF c.causal THEN "decoder" ELSE "encoder_only"
      [] ~c.pooler /\ c.hybrid -> "hybrid"
      [] ~c.pooler /\ ~c.hybrid /\ c.attentionFree -> "attention_free"
      [] OTHER -> IF c.encoderDecoder THEN "encoder_decoder" ELSE "decoder"

ChunkedPrefillSupported(c) ==
    IF c.pooler THEN AttnType(c) = "decoder" /\ ~c.meanPooling ELSE AttnType(c) # "encoder_decoder"

PrefixCachingSupported(c) ==
    IF c.pooler THEN AttnType(c) = "decoder" /\ ~c.meanPooling
    ELSE AttnType(c) \notin {"attention_free", "encoder_decoder"}

\* _set_default_chunked_prefill_and_prefix_caching_args
SettlePrefill(c) ==
    [c EXCEPT !.chunked = IF @ = "unset" THEN (IF ChunkedPrefillSupported(c) THEN "on" ELSE "off") ELSE @,
              !.prefixCaching = IF @ = "unset" THEN (IF PrefixCachingSupported(c) THEN "on" ELSE "off") ELSE @]

\* verify_with_parallel_config
ParallelOk(c, tp, pp) ==
    /\ c.heads % tp = 0
    /\ c.expertParallel => c.moe
    /\ pp > 1 => c.supportsPp
    /\ c.dcp > 1 /\ ~c.mla =>
          /\ tp > c.kvHeads
          /\ c.dcp <= tp \div c.kvHeads
          /\ (c.heads \div c.kvHeads) % c.dcp = 0
    /\ c.mm /\ c.shmIpc => tp * pp * c.dp = 1
-----------------------------------------------------------------------------
(* Which data-parallel ranks this node starts. *)
WithinDp(c) == c.pp * c.tp * c.pcp
LocalWorld(c) == (c.dp * WithinDp(c)) \div c.nnodes
InferredRank(c) == IF c.nnodes > 1 THEN (c.nodeRank * LocalWorld(c)) \div WithinDp(c) ELSE 0

\* What several nodes imply for options left open.
Inferred(c) ==
    IF c.nnodes = 1 THEN c
    ELSE IF c.dp > 1 /\ c.externalLb THEN [c EXCEPT !.dpRank = InferredRank(c)]
    ELSE IF c.dpLocal = -1 THEN [c EXCEPT !.dpLocal = Max({LocalWorld(c) \div WithinDp(c), 1})]
    ELSE c

External(c) == c.externalLb \/ c.dpRank # -1

LaunchOk(c) ==
    /\ ~(c.headless /\ c.hybridLb)
    /\ ~(c.hybridLb /\ c.externalLb)
    /\ c.nnodes > 1 => /\ c.dpBackend = "mp"
                       /\ (c.dp * WithinDp(c)) % c.nnodes = 0
                       /\ c.nodeRank \in 0..(c.nnodes - 1)
    /\ c.faultTolerance => External(Inferred(c))
    /\ c.dp > 1 /\ External(Inferred(c)) => c.moe
    /\ IF External(Inferred(c))
       THEN Inferred(c).dpRank # -1 /\ Inferred(c).dpLocal \in {1, -1}
       ELSE Inferred(c).dpLocal = -1 => ~c.hybridLb

\* A node with a count of its own ranks: hybrid balancing needs more than one of them, and others elsewhere.
Counted(c) ==
    LET hybrid == c.hybridLb \/ (c.dpStart # -1 /\ ~c.headless)
    IN [c EXCEPT !.externalLb = hybrid /\ c.dpLocal = 1,
                 !.hybridLb = hybrid /\ c.dpLocal # 1 /\ c.dpLocal # c.dp,
                 !.dpRank = IF c.dpStart # -1 THEN c.dpStart ELSE InferredRank(c)]

SettleLaunch(c) ==
    LET d == Inferred(c)
    IN CASE External(d) -> [d EXCEPT !.externalLb = TRUE, !.dpLocal = 1, !.hybridLb = FALSE]
         [] ~External(d) /\ d.dpLocal # -1 -> Counted(d)
         [] OTHER -> [d EXCEPT !.dpLocal = IF d.dpBackend = "ray" /\ d.spanPack THEN 1 ELSE d.dp, !.dpRank = 0]

\* Ranks a settled configuration starts.
StartedRanks(c) == c.dpRank..(c.dpRank + c.dpLocal - 1)
-----------------------------------------------------------------------------
(* SpeculativeConfig.  drafter: what the draft checkpoint turns out to be.  *)
MtpTypes == {"deepseek_mtp", "qwen_mtp"}

\* hf_config_override: a checkpoint with multi-token-prediction layers becomes its own drafter.
\* family: where the number of those layers comes from; nextn: what the checkpoint says (-1: nothing).
IsMtpCheckpoint(c) == c.family # "none" /\ (c.family = "nemotron_h" => c.nextn > 0)
MtpLayers(c) ==
    CASE c.family \in {"longcat_flash", "step3p5", "minimax_m3", "nemotron_h", "dots3_note"} /\ c.nextn = -1 -> 1
      [] c.family = "gemma4_assistant" -> 1
      [] c.family = "mimo_v2" -> c.fixedLayers
      [] OTHER -> Max({c.nextn, 0})
HfOverrideOk(c) == c.family = "inkling" => c.nextn >= 1
HfOverride(c) == IF IsMtpCheckpoint(c) THEN [c EXCEPT !.drafter = "mtp", !.nPredict = MtpLayers(c)] ELSE c

NamedMethod(c) ==
    IF c.methodArg = "unset"
    THEN (IF c.specModel = "custom" THEN "custom_class" ELSE IF c.specModel = "ngram" THEN "ngram" ELSE "draft_model")
    ELSE IF c.methodArg \in MtpTypes THEN "mtp" ELSE c.methodArg

\* Methods that need no model of their own name one; others fail.
NoModelMethods == {"mtp", "dspark", "ngram", "ngram_gpu", "suffix", "extract_hidden_states"}
SpecModelOk(c) == c.specModel = "unset" /\ c.nspec # -1 => NamedMethod(c) \in NoModelMethods

\* Methods that run no draft checkpoint.
Draftless(m) == m \in {"ngram", "ngram_gpu", "suffix", "custom_class", "extract_hidden_states"}

\* The method detected from the draft checkpoint.
DetectedMethod(c) ==
    IF NamedMethod(c) \in {"eagle", "eagle3", "dflash", "dspark"} THEN NamedMethod(c)
    ELSE IF c.drafter \in {"eagle", "eagle3", "dflash", "dspark", "medusa", "mlp_speculator", "mtp"} THEN c.drafter
    ELSE NamedMethod(c)

Method(c) == IF Draftless(NamedMethod(c)) THEN NamedMethod(c) ELSE DetectedMethod(c)

DetectedOk(c) ==
    /\ Method(c) = "mtp" /\ c.drafter = "mtp" => ~c.deepseek41
    /\ c.drafter = "plain" => NamedMethod(c) \in {"eagle", "eagle3", "dflash", "dspark", "draft_model"}

\* n-gram lookup lengths
LookupMin(c) == IF c.lookupMin # -1 THEN c.lookupMin ELSE IF c.lookupMax # -1 THEN c.lookupMax ELSE 5
LookupMax(c) == IF c.lookupMax # -1 THEN c.lookupMax ELSE IF c.lookupMin # -1 THEN c.lookupMin ELSE 5

\* Tokens one round of the drafter predicts: a V4.1 DSpark round drafts a block, not one token per stage.
NPredict(c) ==
    IF Method(c) = "dspark" /\ c.drafter # "dspark" /\ c.deepseek41 /\ c.blockSize # 0 THEN c.blockSize ELSE c.nPredict

NumSpec(c) ==
    IF c.nspec # -1 THEN c.nspec
    ELSE IF Method(c) = "suffix" THEN c.treeDepth
    ELSE IF Draftless(Method(c)) THEN -1
    ELSE IF NPredict(c) # 0 THEN NPredict(c) ELSE -1

NumSpecOk(c) ==
    /\ NumSpec(c) > 0
    /\ ~Draftless(Method(c)) /\ NPredict(c) # 0 => NumSpec(c) <= NPredict(c) \/ NumSpec(c) % NPredict(c) = 0

\* _verify_and_get_draft_tp, create_draft_parallel_config: the DSpark drafter is whole on the last rank.
DraftTp(c) == IF c.draftTp # -1 THEN c.draftTp ELSE IF Method(c) = "mlp_speculator" THEN 1 ELSE c.tp
DraftPp(c) == IF Method(c) = "dspark" THEN 1 ELSE c.pp

\* _maybe_override_draft_max_model_len
DraftLen(c) == IF c.specLen # 0 THEN c.specLen ELSE Min({c.draftMaxLen, c.maxLen})
DraftLenOk(c) == c.specLen # 0 => c.specLen <= c.draftMaxLen /\ c.specLen <= c.maxLen

\* _maybe_override_draft_max_position_embeddings
DraftPositions(c) ==
    IF Method(c) \in {"eagle", "eagle3"} THEN Max({c.draftPositions, c.maxLen}) ELSE c.draftPositions

\* _validate_qwen3_omni_dspark: a checkpoint of its own, of the target's shape, and whole blocks.
OmniOk(c) ==
    c.omni /\ Method(c) = "dspark" => c.drafter = "dspark" /\ c.blockSize = NumSpec(c) /\ c.omniShapes

DraftOk(c) ==
    ~Draftless(Method(c)) =>
        /\ DetectedOk(c)
        /\ c.topk # 0 => Method(c) = "dspark" /\ c.topk <= c.vocab /\ c.drafter = "dspark"
        /\ OmniOk(c)
        /\ c.draftTp \in {-1, 1, c.tp}
        /\ DraftLenOk(c)
        /\ ParallelOk(c, DraftTp(c), DraftPp(c))

\* _verify_args and the last checks of __post_init__
SpecArgsOk(c) ==
    /\ c.indexShare => Method(c) = "mtp"
    /\ c.adaptive => Method(c) = "dspark"
    /\ c.synthetic => c.syntheticSampler
    /\ c.heteroVocab => Method(c) = "draft_model" /\ c.greedyDraft
    /\ ~c.heteroVocab /\ Method(c) = "draft_model" => c.draftVocab = c.vocab

\* _validate_suffix_decoding
SuffixOk(c) == Method(c) = "suffix" => c.arctic /\ c.treeDepth >= 1

SpecOk(c) ==
    c.spec =>
        /\ SpecModelOk(c)
        /\ Method(c) \in {"ngram", "ngram_gpu"} => LookupMin(c) <= LookupMax(c)
        /\ SuffixOk(c) /\ DraftOk(c) /\ NumSpecOk(c) /\ SpecArgsOk(c)

SettleSpec(c) ==
    IF ~c.spec THEN [c EXCEPT !.method = "none", !.nspec = 0]
    ELSE [c EXCEPT !.method = Method(c), !.nspec = NumSpec(c),
                   !.parallelDrafting = @ \/ Method(c) \in {"dflash", "dspark"},
                   !.draftLen = IF Draftless(Method(c)) THEN c.maxLen ELSE DraftLen(c),
                   !.draftPositions = DraftPositions(c)]
-----------------------------------------------------------------------------
(* _set_default_max_num_seqs_and_batched_tokens_args *)
DefaultBatched(c) == IF c.batchedDpMoe THEN 256 ELSE IF c.bigGpu THEN 16384 ELSE 2048
DefaultSeqs(c)    == IF c.bigGpu THEN 1024 ELSE 256

SeqsBefore(c) == IF c.seqs # -1 THEN c.seqs ELSE DefaultSeqs(c) * (IF c.throughput THEN 2 ELSE 1)

\* Room for a whole prompt without chunked prefill, and for a whole multimodal item.
BatchedTokens(c) ==
    LET twice == DefaultBatched(c) * (IF c.throughput THEN 2 ELSE 1)
        whole == IF c.chunked = "on" THEN twice ELSE Max({twice, c.maxLen})
        item == IF c.mm /\ c.mmPrefixLm THEN Max({whole, c.mmItem}) ELSE whole
    IN IF c.batched # -1 THEN c.batched ELSE Min({item, SeqsBefore(c) * c.maxLen})

SettleLimits(c) ==
    [c EXCEPT !.batched = BatchedTokens(c),
              !.seqs = IF c.seqs # -1 THEN c.seqs ELSE Min({SeqsBefore(c), BatchedTokens(c)})]

\* Checks of create_engine_config itself; options given twice.
LimitsOk(c) ==
    /\ c.mmLoras => c.mm
    /\ c.lora /\ c.spec => BatchedTokens(c) >= SettleLimits(c).seqs * (c.nspec + 1)
    /\ ~c.givenTwice
=============================================================================
