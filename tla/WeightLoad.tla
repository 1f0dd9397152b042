----------------------------- MODULE WeightLoad -----------------------------
(***************************************************************************)
(* Loading of a checkpoint into one pipeline rank.                         *)
(*                                                                         *)
(* A checkpoint is a set of tensors in files, with an index that names a   *)
(* file for every tensor; the rank builds its part of the model, reads the *)
(* files one after the other, renames every tensor, copies it into the     *)
(* parameter (and the shard of it) that its name selects, processes what   *)
(* it loaded, loads the draft model in a second pass over the files, and   *)
(* reads the experts computed on the CPU straight from the files.          *)
(*                                                                         *)
(* A tensor's name is a record [at, l, mod, n, leaf]: its block ("layers", *)
(* "mtp", "top"), the block's number, the module, the number of the expert *)
(* or slice (None without one), and the last component.  A slot is one     *)
(* shard of one parameter, and mem the set of copies in slots:             *)
(* [slot, from, file, kept, rows].                                         *)
(***************************************************************************)
EXTENDS QuantMethods, FiniteSets, SequencesExt

CONSTANTS
    Confs,          \* set of configurations, see MCWeights
    NumLayers,      \* num_hidden_layers
    NumExperts,     \* n_routed_experts
    NumGroups,      \* o_groups
    KVSources,      \* kv_source_layer_ids
    IndexSources,   \* index_source_layer_ids
    EngramLayers,   \* engram layer ids
    Ratio           \* compress_ratios of the main layers

ASSUME ShapeAssumption ==
    /\ NumLayers \in Nat \ {0} /\ NumExperts \in Nat \ {0} /\ NumGroups \in Nat \ {0}
    /\ KVSources \subseteq IndexSources /\ IndexSources \subseteq 0 .. NumLayers - 1
    /\ Ratio \in [0 .. NumLayers - 1 -> {0, 1, 2}]
    /\ \A l \in KVSources : Ratio[l] > 0

VARIABLES
    conf,     \* the configuration of this run
    pc,       \* "load", "process", "draft", "embed", "cpu", "ready" or "failed"
    left,     \* files this pass has not read yet
    mem,      \* what the parameters hold
    cpuMem    \* expert weights the CPU reads: [l, n, leaf, file]

vars == <<conf, pc, left, mem, cpuMem>>

None == -1

-----------------------------------------------------------------------------
(***************************************************************************)
(* The model the rank builds                                               *)
(***************************************************************************)
\* parts: the names under which the checkpoint stores the shards of a module.
Module(cls, at, l, mod, parts) ==
    [cls |-> cls, at |-> at, l |-> l, mod |-> mod, parts |-> parts]

FirstRank(c) == c.start = 0
LastRank(c)  == c.end = NumLayers
Local(c) == c.start .. c.end - 1

\* The gate exists only where the compressor pools pairs.
CompressorParts(l) == IF Ratio[l] > 1 THEN <<"compressor.wkv", "compressor.wgate">>
                      ELSE <<"compressor.wkv">>

\* DeepseekCompressor, on kv sources.
CompressorModules(at, l) ==
    {Module("linear", at, l, "compressor.fused_wkv_wgate", CompressorParts(l)),
     Module("plain", at, l, "compressor.norm", <<"compressor.norm">>)}

\* DeepseekV4Indexer: the keys are made only where the kv cache is owned.
IndexerModules(at, l) ==
    {Module("linear", at, l, "indexer.wq_b", <<"indexer.wq_b">>),
     Module("plain", at, l, "indexer.weights_proj", <<"indexer.weights_proj">>)}
    \cup IF l \notin KVSources THEN {}
         ELSE {Module("linear", at, l, "indexer.wk", <<"indexer.wk">>),
               Module("plain", at, l, "indexer.k_norm", <<"indexer.k_norm">>)}

\* DeepseekV4Attention.  Layers of the draft are pure sliding window.
AttnModules(at, l) ==
    {Module("linear", at, l, "attn.fused_wqa_wkv", <<"attn.wq_a", "attn.wkv">>),
     Module("linear", at, l, "attn.wq_b", <<"attn.wq_b">>),
     Module("linear", at, l, "attn.wo_a", <<"attn.wo_a">>),
     Module("linear", at, l, "attn.wo_b", <<"attn.wo_b">>),
     Module("plain", at, l, "attn.q_norm", <<"attn.q_norm">>),
     Module("plain", at, l, "attn.attn_sink", <<"attn.attn_sink">>)}
    \cup IF at # "draft" /\ l \in IndexSources THEN IndexerModules(at, l) ELSE {}
    \cup IF at # "draft" /\ l \in KVSources THEN CompressorModules(at, l) ELSE {}

\* DeepseekV4MLP and DeepseekV4MoE: shared experts, router and routed experts.
MoEModules(at, l) ==
    {Module("linear", at, l, "shared_experts.gate_up_proj",
            <<"shared_experts.w1", "shared_experts.w3">>),
     Module("linear", at, l, "shared_experts.down_proj", <<"shared_experts.w2">>),
     Module("plain", at, l, "gate", <<"gate">>),
     Module("experts", at, l, "experts.w13", <<"experts.w1", "experts.w3">>),
     Module("experts", at, l, "experts.w2", <<"experts.w2">>)}

\* Engram, on its layers; its table is read through the row store, not loaded.
EngramModules(at, l) ==
    IF at = "layers" /\ l \in EngramLayers
    THEN {Module("linear", at, l, "engram.wkv", <<"engram.wkv">>)} ELSE {}

\* DeepseekV4DecoderLayer.
LayerModules(at, l) ==
    AttnModules(at, l) \cup MoEModules(at, l) \cup EngramModules(at, l)
    \cup {Module("plain", at, l, "attn_norm", <<"attn_norm">>),
          Module("plain", at, l, "hc_attn_fn", <<"hc_attn_fn">>)}

\* Embedding on the first rank, norm and head on the last.
TopModules(c) ==
    (IF FirstRank(c) THEN {Module("plain", "top", 0, "embed_tokens", <<"embed">>)} ELSE {})
    \cup (IF LastRank(c) THEN {Module("plain", "top", 0, "norm", <<"norm">>),
                           Module("head", "top", 0, "lm_head", <<"head">>)} ELSE {})

\* A shadow is the attention module of its kv source, built on a later rank.
ShadowModules(c) == UNION {AttnModules("shadow", s) : s \in c.shadow}

\* DSparkModel, on the last rank; its head is the target's.
DraftModules(c) ==
    IF ~c.draft THEN {}
    ELSE LayerModules("draft", 0)
         \cup {Module("linear", "draft", 0, "main_proj", <<"main_proj">>),
               Module("plain", "draft", 0, "norm", <<"norm">>),
               Module("plain", "draft", 0, "markov_w1", <<"markov_head.embed">>),
               Module("plain", "draft", 0, "markov_w2", <<"markov_head.head">>),
               Module("plain", "draft", 0, "embed_tokens", <<"embed">>)}

\* DeepseekV4Model of the overlay.
Dsv41Modules(c) ==
    UNION {LayerModules("layers", l) : l \in Local(c)} \cup ShadowModules(c) \cup TopModules(c)

\* DeepseekV4Model on AMD: no shadows, so it is not cut inside a sharing group.
AmdModules(c) == UNION {LayerModules("layers", l) : l \in Local(c)} \cup TopModules(c)

\* DeepseekV4Model of the older model: no engram.
V4Modules(c) ==
    UNION {LayerModules("layers", l) \ EngramModules("layers", l) : l \in Local(c)} \cup TopModules(c)

TargetModules(c) ==
    CASE c.loader = "dsv41" -> Dsv41Modules(c)
      [] c.loader = "amd"   -> AmdModules(c)
      [] c.loader = "v4"    -> V4Modules(c)

\* Parameters of the modules, one record for every leaf.  On ROCm the method of
\* an MXFP8 linear may register its scales like FP8's.
Method(c, x) == IF x.cls = "plain" THEN "unquantized"
                ELSE IF x.cls = "experts" /\ c.mega THEN "mega"
                ELSE IF c.loader = "amd" /\ c.inv /\ QuantMethod(c.quant, x) = "mxfp8" THEN "fp8"
                ELSE QuantMethod(c.quant, x)

\* Norms, sinks and router are plain parameters; some are kept in fp32.
PlainDtype(mod) == IF mod \in {"attn.attn_sink", "hc_attn_fn"} THEN "f32" ELSE "bf16"

Params(c, x) ==
    CASE x.cls = "plain"   -> [weight |-> PlainDtype(x.mod)]
      [] x.cls = "experts" -> MoEParams(Method(c, x))
      [] OTHER             -> LinearParams(Method(c, x))

\* The experts of a layer computed on the CPU are built on the meta device.
OnCpu(c, x) == x.cls = "experts" /\ x.at = "layers" /\ x.l \in c.cpu

Tree(c, ms) ==
    UNION {{[at |-> x.at, l |-> x.l, mod |-> x.mod, leaf |-> f, cls |-> x.cls,
             method |-> Method(c, x), dtype |-> Params(c, x)[f],
             parts |-> Len(x.parts), k |-> KForPrefix(c.kmap, x)]
            : f \in DOMAIN Params(c, x)} : x \in {y \in ms : ~OnCpu(c, y)}}

-----------------------------------------------------------------------------
(***************************************************************************)
(* The checkpoint                                                          *)
(***************************************************************************)
\* Modules the base checkpoint stores in bf16, whatever its quantization.
Bf16Parts == {"compressor.wkv", "compressor.wgate", "indexer.wk", "head", "embed"}

\* Leaves and types of a module in the base checkpoint.
BaseLeaves(pack, cls, part) ==
    CASE cls = "plain"       -> [weight |-> PlainDtype(part)]
      [] part \in Bf16Parts  -> Plain
      [] cls = "experts" /\ pack = "fp8"   -> [weight |-> "fp8", scale |-> "f32"]
      [] cls = "experts" /\ pack = "nvfp4" -> MoEParams("nvfp4")
      [] cls = "experts"     -> [weight |-> "uint8", scale |-> "e8m0"]
      [] OTHER -> [weight |-> "fp8", scale |-> IF pack = "fp8" THEN "f32" ELSE "e8m0"]

Exl3Leaves(cls, part) == IF cls = "plain" THEN [weight |-> PlainDtype(part)] ELSE Packed

Leaves(pack, cls, part) ==
    IF pack = "exl3" THEN Exl3Leaves(cls, part) ELSE BaseLeaves(pack, cls, part)

\* Experts are stored one by one, and EXL3 packs wo_a in one slice per group.
Numbers(pack, cls, part) ==
    CASE cls = "experts"                        -> 0 .. NumExperts - 1
      [] pack = "exl3" /\ part = "attn.wo_a"    -> 0 .. NumGroups - 1
      [] OTHER                                  -> {None}

\* All modules of the checkpoint: its layers, the draft's and the top.
Everything ==
    [loader |-> "dsv41", start |-> 0, end |-> NumLayers, shadow |-> {}, draft |-> TRUE]

Stored(x) == [x EXCEPT !.at = IF @ = "draft" THEN "mtp" ELSE @]

Snapshot(pack, kmap) ==
    UNION {UNION {{[at |-> Stored(x).at, l |-> x.l, mod |-> x.parts[i], n |-> n,
                    leaf |-> f, dtype |-> Leaves(pack, x.cls, x.parts[i])[f],
                    k |-> IF f = "trellis" THEN KForPrefix(kmap, x) ELSE None]
                   : f \in DOMAIN Leaves(pack, x.cls, x.parts[i]),
                     n \in Numbers(pack, x.cls, x.parts[i])}
                  : i \in DOMAIN x.parts}
           : x \in {y \in Dsv41Modules(Everything) \cup DraftModules(Everything) :
                        y.at # "draft" \/ y.mod # "embed_tokens"}}

\* Routed experts of the main layers.
MainRouted(t) == t.at = "layers" /\ t.mod \in {"experts.w1", "experts.w2", "experts.w3"}

\* Shards: the layers are spread over two files, the top and the draft are in
\* the first; the two snapshots of a hybrid have files of their own.
BaseFile(t) == IF t.at = "layers" /\ t.l * 2 >= NumLayers THEN 2 ELSE 1
FileOf(pack, t) == IF pack = "exl3" THEN BaseFile(t) + 2 ELSE BaseFile(t)

Copies(pack, kmap) ==
    {[t |-> t, file |-> FileOf(pack, t)] : t \in Snapshot(pack, kmap)}

\* make-hybrid.py links the files that hold something the index names: the
\* routed experts of the pack, and the rest of the base.
Held(c) ==
    CASE c.pack = "hybrid" -> Copies("fp4", c.packK) \cup Copies("exl3", c.packK)
      [] c.loader = "v4"   -> {h \in Copies(c.pack, c.packK) : h.t.mod # "engram.wkv"}
      [] OTHER             -> Copies(c.pack, c.packK)

\* What the index names: a tensor of a snapshot, by file.
Indexed(c, h) ==
    \/ c.pack # "hybrid"
    \/ MainRouted(h.t) <=> h.file > 2

Files(c) == {h.file : h \in Held(c)}

-----------------------------------------------------------------------------
(***************************************************************************)
(* Reading                                                                 *)
(***************************************************************************)
\* Physical experts (replicas of the logical ones with MegaMoE) are dealt out to
\* the ranks of the expert group in runs.
NumLocal(c) == c.phys \div c.ep
FirstPhysical(c) == (c.rank % c.ep) * NumLocal(c)

\* _map_global_expert_id: the slots on this rank of a logical expert.
ExpertSlots(c, e) ==
    {i \in 0 .. NumLocal(c) - 1 : (FirstPhysical(c) + i) % NumExperts = e}

ExpertParts == {"experts.w1", "experts.w2", "experts.w3"}

NotLocal(c, t) == t.mod \in ExpertParts /\ ExpertSlots(c, t.n) = {}

\* should_skip_weight: experts of other ranks are not read.
SkipWeight(c, t) == c.ep > 1 /\ NotLocal(c, t)

\* _dsv41_skip: while the draft is loaded only its tensors are read.
OnlyDraft(t) == t.at = "mtp"

\* Fault: a tensor is taken from every file that holds it.
SkipFileNever(c, h) == FALSE

\* _dsv41_skip_file: the index filter, which the launcher sets for a hybrid.
SkipFile(c, h) == ~Indexed(c, h)

\* safetensors_weights_iterator: the tensors of a file that are handed on.
Read(c, f, draft) ==
    {h \in Held(c) : /\ h.file = f
                     /\ ~SkipWeight(c, h.t)
                     /\ draft => (c.strategy = "eager" \/ OnlyDraft(h.t))
                     /\ ~SkipFile(c, h)}

\* multi_thread_safetensors_weights_iterator hands on everything.
ReadThreads(c, f) == {h \in Held(c) : h.file = f}

Tensors(c, f, draft) == IF c.strategy = "threads" THEN ReadThreads(c, f) ELSE Read(c, f, draft)

-----------------------------------------------------------------------------
(***************************************************************************)
(* Renaming and copying                                                    *)
(***************************************************************************)
\* _linear_scale_param_name.
LinearScaleName(c) == IF IsMxfp8(c.quant) THEN "weight_scale" ELSE "weight_scale_inv"

\* _make_deepseek_v4_weights_mapper: scales take the name their method gives them.
ScaleLeaf(c, t) ==
    CASE t.leaf # "scale" -> t.leaf
      [] t.mod \in ExpertParts /\ c.quant.experts = "fp4" -> "weight_scale"
      [] OTHER -> IF c.loader = "v4" THEN "weight_scale_inv" ELSE LinearScaleName(c)

\* stacked_params_mapping, and the names that only change.
Stacked == [p \in {"shared_experts.w1", "shared_experts.w3", "attn.wq_a", "attn.wkv",
                   "compressor.wkv", "compressor.wgate"} |->
    CASE p = "shared_experts.w1" -> <<"shared_experts.gate_up_proj", 0>>
      [] p = "shared_experts.w3" -> <<"shared_experts.gate_up_proj", 1>>
      [] p = "attn.wq_a"         -> <<"attn.fused_wqa_wkv", 0>>
      [] p = "attn.wkv"          -> <<"attn.fused_wqa_wkv", 1>>
      [] p = "compressor.wkv"    -> <<"compressor.fused_wkv_wgate", 0>>
      [] p = "compressor.wgate"  -> <<"compressor.fused_wkv_wgate", 1>>]

Renamed(mod) ==
    CASE mod = "head"              -> "lm_head"
      [] mod = "embed"             -> "embed_tokens"
      [] mod = "shared_experts.w2" -> "shared_experts.down_proj"
      [] mod = "markov_head.embed" -> "markov_w1"
      [] mod = "markov_head.head"  -> "markov_w2"
      [] OTHER                     -> mod

\* get_expert_mapping: w1 and w3 are the halves of w13.
ExpertMapping(mod) ==
    CASE mod = "experts.w1" -> <<"experts.w13", 0>>
      [] mod = "experts.w3" -> <<"experts.w13", 1>>
      [] mod = "experts.w2" -> <<"experts.w2", 0>>

\* The parameter and shard a tensor is for.
Target(c, t) ==
    CASE t.mod \in ExpertParts -> ExpertMapping(t.mod)
      [] t.n # None            -> <<t.mod, t.n>>
      [] t.mod \in DOMAIN Stacked -> Stacked[t.mod]
      [] OTHER                 -> <<Renamed(t.mod), 0>>

AttnParts == UNION {UNION {Range(x.parts) : x \in AttnModules("layers", l)}
                    : l \in 0 .. NumLayers - 1}

\* remap_shadow_weight_name, and _remap_dspark_name for the draft.
Block(c, t) ==
    CASE t.at = "mtp" -> "draft"
      [] t.at = "layers" /\ t.l \in c.shadow /\ t.mod \in AttnParts -> "shadow"
      [] OTHER -> t.at

\* is_pp_missing_parameter: what other ranks hold.
PPMissing(c, t) ==
    \/ Block(c, t) = "layers" /\ t.l \notin Local(c)
    \/ t.at = "top" /\ t.mod = "embed" /\ ~FirstRank(c)
    \/ t.at = "top" /\ t.mod \in {"norm", "head"} /\ ~LastRank(c)

\* is_cpu_expert_weight.
CpuExpertWeight(c, t) == MainRouted(t) /\ t.l \in c.cpu

Cdiv(a, b) == (a + b - 1) \div b

\* DeepseekV4MLP: elements of the intermediate axis a rank holds, in whole blocks.
LocalInter(c) == IF c.quant.block = 0 THEN c.inter \div c.tp
                 ELSE Cdiv(Cdiv(c.inter, c.quant.block), c.tp) * c.quant.block

IsScale(leaf) == leaf \in {"weight_scale", "weight_scale_inv"}

\* Rows of the intermediate axis in the checkpoint: elements, or blocks of scales.
Extent(c, leaf) == IF IsScale(leaf) THEN Cdiv(c.inter, c.quant.block) ELSE c.inter

PadStep(c, leaf) == IF IsScale(leaf) THEN 1 ELSE c.quant.block

\* _pad_shared_expert_weight: a whole number of shards.
PaddedExtent(c, leaf) ==
    IF c.quant.block = 0 THEN Extent(c, leaf)
    ELSE LET mult == c.tp * PadStep(c, leaf) IN Cdiv(Extent(c, leaf), mult) * mult

\* The rows a rank's loader takes: first and last, as the parameter's size says.
SharedRows(c, leaf) ==
    LET size == IF IsScale(leaf) THEN LocalInter(c) \div c.quant.block ELSE LocalInter(c)
    IN  IF (c.rank + 1) * size > PaddedExtent(c, leaf) THEN <<>>
        ELSE <<c.rank * size, (c.rank + 1) * size - 1>>

\* attn_sink: the rank's heads; the rest of the parameter stays at -inf.
SinkRows(c) == <<(c.heads \div c.tp) * c.rank, (c.heads \div c.tp) * (c.rank + 1) - 1>>

SharedParts == {"shared_experts.w1", "shared_experts.w2", "shared_experts.w3"}

Rows(c, t, leaf) ==
    CASE t.mod \in SharedParts /\ leaf \notin DOMAIN Packed -> SharedRows(c, leaf)
      [] t.mod = "attn.attn_sink"                           -> SinkRows(c)
      [] OTHER                                              -> <<0, 0>>

\* Where on the rank: the slots of an expert, one place for everything else.
Places(c, t) == IF t.mod \in ExpertParts THEN ExpertSlots(c, t.n) ELSE {None}

\* What the loop over the weights passes over without a copy.
Skipped(c, t, draft) ==
    IF draft THEN t.at # "mtp"
    ELSE t.at = "mtp" \/ CpuExpertWeight(c, t) \/ PPMissing(c, t)

\* Parameters of the module a tensor is for.
InModule(c, tree, t) ==
    {p \in tree : p.at = Block(c, t) /\ p.l = t.l /\ p.mod = Target(c, t)[1]}

\* _resolve_param_name, on AMD: either name of a scale.
Resolved(params, leaf) ==
    LET names == {p.leaf : p \in params} IN
    IF leaf = "weight_scale_inv" /\ "weight_scale" \in names THEN "weight_scale"
    ELSE IF leaf = "weight_scale" /\ leaf \notin names /\ "weight_scale_inv" \in names
    THEN "weight_scale_inv" ELSE leaf

Destination(c, tree, t) ==
    LET params == InModule(c, tree, t)
        leaf == IF c.loader = "amd" THEN Resolved(params, ScaleLeaf(c, t)) ELSE ScaleLeaf(c, t)
    IN  {p \in params : p.leaf = leaf}

\* The expert loop passes the bytes of power-of-two scales on.
Viewed(t, leaf) == IF t.mod \in ExpertParts /\ IsScale(leaf) /\ t.dtype = "e8m0"
                   THEN "uint8" ELSE t.dtype

Copy(c, p, h, n) ==
    LET leaf == p.leaf IN
    [slot |-> [at |-> p.at, l |-> p.l, mod |-> p.mod, leaf |-> leaf,
               shard |-> Target(c, h.t)[2], n |-> n],
     from |-> [at |-> h.t.at, l |-> h.t.l, mod |-> h.t.mod, n |-> h.t.n, leaf |-> h.t.leaf],
     file |-> h.file,
     kept |-> Keeps(ScaleEncoded(p.method, leaf, Viewed(h.t, leaf)), p.dtype),
     rows |-> Rows(c, h.t, leaf)]

\* No parameter of that name, packed experts of another width than their layer
\* was built for, or fewer rows than the rank's part of the parameter has.
Fails(c, tree, h) ==
    \/ Destination(c, tree, h.t) = {}
    \/ \E p \in Destination(c, tree, h.t) :
           \/ p.cls = "experts" /\ h.t.k # None /\ h.t.k # p.k
           \/ Rows(c, h.t, p.leaf) = <<>>

ToLoad(c, f, draft) ==
    {h \in Tensors(c, f, draft) : ~Skipped(c, h.t, draft) /\ ~NotLocal(c, h.t)}

Written(c, tree, f, draft) ==
    UNION {{Copy(c, p, h, n) : p \in Destination(c, tree, h.t), n \in Places(c, h.t)}
           : h \in ToLoad(c, f, draft)}

\* One file is read and all of its tensors are handed to load_weights.
LoadFile(f, tree, draft) ==
    /\ f \in left
    /\ conf.strategy # "threads" => \A g \in left : f <= g
    /\ left' = left \ {f}
    /\ IF \E h \in ToLoad(conf, f, draft) : Fails(conf, tree, h)
       THEN pc' = "failed" /\ UNCHANGED mem
       ELSE LET new == Written(conf, tree, f, draft) IN
            /\ mem' = {m \in mem : \A w \in new : w.slot # m.slot} \cup new
            /\ UNCHANGED pc
    /\ UNCHANGED <<conf, cpuMem>>

-----------------------------------------------------------------------------
(***************************************************************************)
(* The steps of a start                                                    *)
(***************************************************************************)
TargetTree == [c \in Confs |-> Tree(c, TargetModules(c))]
DraftTree  == [c \in Confs |-> Tree(c, DraftModules(c))]

Init ==
    /\ conf \in Confs
    /\ pc = "load"
    /\ left = Files(conf)
    /\ mem = {}
    /\ cpuMem = {}

LoadDsv41 ==
    /\ pc = "load" /\ conf.loader = "dsv41"
    /\ \E f \in left : LoadFile(f, TargetTree[conf], FALSE)

\* The loaders of the other models: without shadows, CPU experts and slices.
LoadAmd ==
    /\ pc = "load" /\ conf.loader = "amd"
    /\ \E f \in left : LoadFile(f, TargetTree[conf], FALSE)

LoadV4 ==
    /\ pc = "load" /\ conf.loader = "v4"
    /\ \E f \in left : LoadFile(f, TargetTree[conf], FALSE)

\* finalize_mhc_broadcast_weights: the first rank keeps the sum over the streams
\* of its first layer's mixing weights.
Broadcast(c) ==
    IF ~FirstRank(c) \/ c.start >= c.end THEN {}
    ELSE {[m EXCEPT !.slot.mod = "hc_attn_fn_broadcast"]
          : m \in {x \in mem : /\ x.slot.mod = "hc_attn_fn"
                               /\ x.slot.at = "layers" /\ x.slot.l = c.start}}

\* The tensors expert_offsets looks up in the index for a layer.
OffsetNames(l) ==
    {[at |-> "layers", l |-> l, mod |-> m, n |-> e, leaf |-> f]
     : m \in ExpertParts, e \in 0 .. NumExperts - 1,
       f \in {"weight", "scale"}}

NameOf(t) == [at |-> t.at, l |-> t.l, mod |-> t.mod, n |-> t.n, leaf |-> t.leaf]

IndexFiles(c, name) == {h.file : h \in {x \in Held(c) : NameOf(x.t) = name /\ Indexed(c, x)}}

\* A KeyError in the index, or experts of one layer in several files.
CpuLoadFails(c) ==
    \E l \in c.cpu \cap Local(c) :
        \/ \E name \in OffsetNames(l) : IndexFiles(c, name) = {}
        \/ Cardinality(UNION {IndexFiles(c, name) : name \in OffsetNames(l)}) # 1

\* load_cpu_expert_weights.
CpuLoaded(c) ==
    {[name |-> NameOf(h.t), file |-> h.file]
     : h \in {x \in Held(c) : /\ Indexed(c, x)
                              /\ x.t.l \in c.cpu \cap Local(c)
                              /\ NameOf(x.t) \in OffsetNames(x.t.l)}}

\* process_weights_after_loading of the model, when every file has been read.
Finalize ==
    /\ pc = "load" /\ left = {}
    /\ IF CpuLoadFails(conf)
       THEN pc' = "failed" /\ UNCHANGED <<mem, cpuMem>>
       ELSE /\ pc' = "process"
            /\ mem' = mem \cup Broadcast(conf)
            /\ cpuMem' = CpuLoaded(conf)
    /\ UNCHANGED <<conf, left>>

Filled(p) == {m.slot.shard : m \in {x \in mem : /\ x.slot.at = p.at /\ x.slot.l = p.l
                                                 /\ x.slot.mod = p.mod /\ x.slot.leaf = p.leaf}}

\* Shards Exl3LinearMethod builds a kernel for: the parts of a merged linear, or
\* as many slices as were seen.
Shards(p) == IF p.parts > 1 THEN 0 .. p.parts - 1
             ELSE {i \in 0 .. NumGroups - 1 : \E j \in Filled(p) : i <= j}

\* Exl3LinearMethod and Exl3MoEMethod refuse missing shards and markers.
Exl3Incomplete(tree) ==
    \E p \in tree :
        /\ p.method = "exl3"
        /\ \/ p.cls = "linear" /\ p.leaf \in {"trellis", "suh", "svh"}
              /\ ~(Shards(p) \subseteq Filled(p))
           \/ p.cls = "experts" /\ p.leaf = "mul1" /\ Filled(p) # 0 .. p.parts - 1

\* process_weights_after_loading of every quantization method.
Process ==
    /\ pc = "process"
    /\ pc' = IF Exl3Incomplete(TargetTree[conf]) THEN "failed"
             ELSE IF conf.draft THEN "draft" ELSE "ready"
    /\ left' = IF conf.draft THEN Files(conf) ELSE {}
    /\ UNCHANGED <<conf, mem, cpuMem>>

LoadDraft == pc = "draft" /\ \E f \in left : LoadFile(f, DraftTree[conf], TRUE)

ProcessDraft ==
    /\ pc = "draft" /\ left = {}
    /\ pc' = IF Exl3Incomplete(DraftTree[conf]) THEN "failed" ELSE "embed"
    /\ UNCHANGED <<conf, left, mem, cpuMem>>

EmbedName == [at |-> "top", l |-> 0, mod |-> "embed", n |-> None, leaf |-> "weight"]

EmbedSlot(at) == [at |-> at, l |-> 0, mod |-> "embed_tokens", leaf |-> "weight",
                  shard |-> 0, n |-> None]

\* Behind the first rank the draft reads the embedding from the file the index
\* names; otherwise it shares the target's.
LoadEmbedding ==
    /\ pc = "embed"
    /\ mem' = mem \cup
         IF FirstRank(conf) /\ LastRank(conf)
         THEN {[m EXCEPT !.slot.at = "draft"] : m \in {x \in mem : x.slot = EmbedSlot("top")}}
         ELSE {[slot |-> EmbedSlot("draft"), from |-> EmbedName, file |-> f, kept |-> TRUE,
                rows |-> <<0, 0>>] : f \in IndexFiles(conf, EmbedName)}
    /\ pc' = "ready"
    /\ UNCHANGED <<conf, left, cpuMem>>

Stopped == pc \in {"ready", "failed"} /\ UNCHANGED vars

Next == LoadDsv41 \/ LoadAmd \/ LoadV4 \/ Finalize \/ Process \/ LoadDraft \/ ProcessDraft \/ LoadEmbedding \/ Stopped

Spec == Init /\ [][Next]_vars

-----------------------------------------------------------------------------
(***************************************************************************)
(* Properties                                                              *)
(***************************************************************************)
\* The tensors an operator needs: every part it was trained with, of its own
\* layer, in the snapshot the index takes them from.
Wanted(c, x) ==
    {h \in Held(c) :
        /\ Indexed(c, h)
        /\ h.t.at = (CASE x.at = "draft" /\ x.mod # "embed_tokens" -> "mtp"
                       [] x.at = "draft" -> "top"
                       [] x.at = "shadow" -> "layers"
                       [] OTHER -> x.at)
        /\ h.t.l = x.l
        /\ h.t.mod \in Range(x.parts)}

\* Where they belong: the shard of the part (or slice), and in every slot of the
\* rank the expert that slot is a replica of.
Expected(c, x) ==
    UNION {{[from |-> NameOf(h.t), file |-> h.file, kept |-> TRUE, n |-> i,
             shard |-> IF x.mod = "attn.wo_a" /\ h.t.n # None THEN h.t.n
                       ELSE CHOOSE k \in 0 .. Len(x.parts) - 1 : x.parts[k + 1] = h.t.mod]
            : i \in IF x.cls # "experts" THEN {None}
                    ELSE {k \in 0 .. NumLocal(c) - 1 : (FirstPhysical(c) + k) % NumExperts = h.t.n}}
           : h \in Wanted(c, x)}

\* Exactly those are in memory, unchanged, and no parameter is left as it was
\* allocated.
OperatorRight(c, x) ==
    LET held == {m \in mem : m.slot.at = x.at /\ m.slot.l = x.l /\ m.slot.mod = x.mod} IN
    /\ {[from |-> m.from, file |-> m.file, kept |-> m.kept, n |-> m.slot.n,
         shard |-> m.slot.shard] : m \in held} = Expected(c, x)
    /\ Cardinality({m.slot : m \in held}) = Cardinality(Expected(c, x))
    /\ \A p \in TargetTree[c] \cup DraftTree[c] :
          p.at = x.at /\ p.l = x.l /\ p.mod = x.mod => \E m \in held : m.slot.leaf = p.leaf

\* Blocks of a shared expert: each element on one rank, beside its scale.
BlockOf(c, e) == e \div c.quant.block

SharedRight(c) ==
    c.quant.block # 0 =>
    \A e \in 0 .. c.inter - 1 :
        \E r \in 0 .. c.tp - 1 :
            LET w == SharedRows([c EXCEPT !.rank = r], "weight")
                s == SharedRows([c EXCEPT !.rank = r], LinearScaleName(c))
            IN  /\ w[1] <= e /\ e <= w[2]
                /\ BlockOf(c, e) - s[1] = (e - w[1]) \div c.quant.block
                /\ BlockOf(c, e) <= s[2]
                /\ \A o \in 0 .. c.tp - 1 \ {r} :
                      LET v == SharedRows([c EXCEPT !.rank = o], "weight") IN e < v[1] \/ v[2] < e

\* When a rank is ready, every operator it will run (its layers, the shadows,
\* the draft, its end of the model, the experts on the CPU) holds exactly the
\* tensors the index names for it; and the packs that are served do get ready.
WeightsRight ==
    /\ pc = "ready" =>
          /\ \A x \in TargetModules(conf) \cup DraftModules(conf) :
                OnCpu(conf, x) \/ OperatorRight(conf, x)
          /\ SharedRight(conf)
          /\ \A x \in TargetModules(conf) : OnCpu(conf, x) =>
                \A h \in Wanted(conf, x) : [name |-> NameOf(h.t), file |-> h.file] \in cpuMem
          /\ FirstRank(conf) => \E m \in mem : m.slot.mod = "hc_attn_fn_broadcast" /\ m.from.l = 0
    /\ pc = "failed" => ~conf.served
=============================================================================
