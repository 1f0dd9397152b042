------------------------------ MODULE KVPlan ------------------------------
(***************************************************************************)
(* get_kv_cache_configs of v1/core/kv_cache_utils.py: from the cache specs *)
(* of all pipeline workers and the memory each has left, the engine plans  *)
(* one KV cache: the groups, the number of blocks all workers share, the   *)
(* longest request, and where in its memory every worker keeps every block *)
(* of every layer.                                                         *)
(***************************************************************************)
EXTENDS KVLayout

CONSTANTS
    Scenarios,  \* [model, owns (sequence of sets of layers, one per worker), cfg, len (model length asked for)]
    Memories    \* bytes a worker may have left

VARIABLES
    in,       \* the scenario
    mem,      \* worker -> bytes for its cache
    maxLen,   \* model_config.max_model_len
    step,     \* what is done next
    groups,   \* the groups of the whole model
    local,    \* worker -> its projected groups
    configs   \* worker -> [blocks, size]

vars == <<in, mem, maxLen, step, groups, local, configs>>

Workers == Indices(in.owns)
cfg == in.cfg

\* In registration order; windows are tagged with what multi-module drafting retains.
Merged(sc) ==
    [l \in Indices(sc.model) |->
        IF IsSwa(sc.model[l]) THEN [sc.model[l] EXCEPT !.extra = sc.cfg.retain] ELSE sc.model[l]]

Stages(sc) == {sc.owns[w] : w \in Indices(sc.owns)}

\* _project_kv_cache_groups_to_worker
Projected(gs, owned) ==
    [i \in Indices(gs) |->
        LET mine == SelectSeq(gs[i].layers, LAMBDA l : l \in owned)
        IN [gs[i] EXCEPT !.layers = mine, !.eagle = @ /\ mine # <<>>]]

\* _get_kv_cache_bytes_per_block
BytesPerBlock(gs) ==
    IF Glm5Layout(gs)
    THEN GroupBytes(gs[CHOOSE i \in Indices(gs) : Glm5Attn(gs[i])])
    ELSE Max({GroupBytes(gs[i]) : i \in Indices(gs)})

\* validate_kv_cache_layout
LayoutOk(gs) ==
    \/ Glm5Layout(gs)
    \/ Cardinality(UNION {{Page(LayerSpec(gs[i], l)) : l \in Elems(gs[i].layers)} : i \in Indices(gs)}) = 1
    \/ cfg.blockOuter
    \/ Len(gs) = 1

\* Blocks of all groups for one request: _max_memory_usage_bytes_from_groups.
RequestBlocks(gs, len) ==
    SumSeq([i \in Indices(gs) |-> BlocksFor(gs[i].spec, len, cfg.batched)])

NeededBytes(gs, len) == BytesPerBlock(gs) * RequestBlocks(gs, len)

\* The invariant of _estimate_max_model_len_from_groups' binary search: the answer
\* is `result` or lies between left and right.
RECURSIVE Search(_, _, _, _, _)
Search(gs, avail, left, right, result) ==
    LET mid == (left + right) \div 2
    IN IF left > right THEN result
       ELSE IF NeededBytes(gs, mid) <= avail
       THEN Search(gs, avail, mid + 1, right, mid)
       ELSE Search(gs, avail, left, mid - 1, result)

EstimateMaxLen(gs, avail, len) ==
    IF NeededBytes(gs, 1) > avail THEN 0 ELSE Search(gs, avail, 1, len, 1)

\* may_override_num_blocks
NumBlocks(n) == IF cfg.override = 0 THEN n ELSE cfg.override

\* get_kv_cache_config_from_groups
ConfigFrom(gs, avail) ==
    LET n == NumBlocks(avail \div BytesPerBlock(gs))
    IN [blocks |-> n, size |-> n * BytesPerBlock(gs)]
-----------------------------------------------------------------------------
Init ==
    /\ in \in Scenarios
    /\ mem \in [Indices(in.owns) -> Memories]
    /\ maxLen = in.len
    /\ step = "group"
    /\ groups = <<>> /\ local = <<>> /\ configs = <<>>

Fail == step' = "failed" /\ UNCHANGED <<in, mem, maxLen, groups, local, configs>>

\* Merge the workers' specs and group the layers; an assertion or an error ends the start.
MakeGroups ==
    /\ step = "group"
    /\ \E gs \in {GetGroups(Merged(in), [cfg EXCEPT !.stages = Stages(in)])} :
          IF gs = <<>> THEN Fail
          ELSE /\ groups' = gs
               /\ local' = [w \in Workers |-> Projected(gs, in.owns[w])]
               /\ step' = "memory"
               /\ UNCHANGED <<in, mem, maxLen, configs>>

\* With num_gpu_blocks_override the memory is what these blocks take.
OverrideMemory ==
    /\ step = "memory"
    /\ IF \E w \in Workers : BytesPerBlock(local[w]) = 0 THEN Fail
       ELSE /\ mem' = [w \in Workers |-> IF cfg.override = 0 THEN mem[w]
                                         ELSE cfg.override * BytesPerBlock(local[w])]
            /\ step' = "fit"
            /\ UNCHANGED <<in, maxLen, groups, local, configs>>

\* What requests can use: all but the null block.
CheckMemory(w) == mem[w] - BytesPerBlock(local[w])

\* _auto_fit_max_model_len, if max_model_len was -1.
AutoFit ==
    LET fit == Min({maxLen} \cup {EstimateMaxLen(local[w], CheckMemory(w), maxLen) : w \in Workers})
    IN /\ step = "fit"
       /\ IF cfg.auto /\ fit <= 0 THEN Fail
          ELSE /\ maxLen' = IF cfg.auto THEN fit ELSE maxLen
               /\ step' = "check"
               /\ UNCHANGED <<in, mem, groups, local, configs>>

\* _check_enough_kv_cache_memory
Enough(w) == /\ CheckMemory(w) > 0
             /\ NeededBytes(local[w], maxLen) <= CheckMemory(w)

\* Check, and one configuration per worker; every layer has to be in a group.
Configure ==
    /\ step = "check"
    /\ IF \E w \in Workers :
             \/ ~Enough(w)
             \/ ~LayoutOk(local[w])
             \/ SumSeq([i \in Indices(local[w]) |-> Len(local[w][i].layers)]) # Cardinality(in.owns[w])
       THEN Fail
       ELSE /\ configs' = [w \in Workers |-> ConfigFrom(local[w], mem[w])]
            /\ step' = "shrink"
            /\ UNCHANGED <<in, mem, maxLen, groups, local>>

MinBlocks == Min({configs[w].blocks : w \in Workers})

\* Planned again for the memory of the smallest worker's blocks.
Shrunk(w) ==
    IF configs[w].blocks = MinBlocks THEN configs[w]
    ELSE ConfigFrom(local[w], MinBlocks * BytesPerBlock(local[w]))

Shrink ==
    /\ step = "shrink"
    /\ configs' = [w \in Workers |-> Shrunk(w)]
    /\ step' = "done"
    /\ UNCHANGED <<in, mem, maxLen, groups, local>>

Next == MakeGroups \/ OverrideMemory \/ AutoFit \/ Configure \/ Shrink

Spec == Init /\ [][Next]_vars
-----------------------------------------------------------------------------
(***************************************************************************)
(* Where a block of a layer lies                                           *)
(***************************************************************************)
GroupOf(w, l) == CHOOSE i \in Indices(local[w]) : l \in Elems(local[w][i].layers)

PageOf(w, l) == Page(LayerSpec(local[w][GroupOf(w, l)], l))

\* Bytes of the group's layers before l: those of earlier specs, and those before
\* it with the same spec (layers_by_spec, byte_offset, layer_stride).
BytesBefore(w, l) ==
    LET g == local[w][GroupOf(w, l)]
        specs == Greedy(Singletons(g.layers), LAMBDA a, b : LayerSpec(g, a[1]) = LayerSpec(g, b[1]))
        order == FlattenSeq(specs)
        at == CHOOSE i \in Indices(order) : order[i] = l
    IN SumSeq([i \in 1..(at - 1) |-> Page(LayerSpec(g, order[i]))])

\* Fault: blocks outermost, but strided by the group instead of the widest group.
BlockStartTight(w, l, b) ==
    b * GroupBytes(local[w][GroupOf(w, l)]) + BytesBefore(w, l)

\* The first byte of block b: layers outermost, blocks outermost, or shared slots.
BlockStart(w, l, b) ==
    IF Glm5Layout(local[w]) THEN Glm5Slot(local[w], l) * configs[w].blocks + b * PageOf(w, l)
    ELSE IF cfg.blockOuter THEN b * BytesPerBlock(local[w]) + BytesBefore(w, l)
    ELSE BytesBefore(w, l) * configs[w].blocks + b * PageOf(w, l)

Blocks(w) == 0..(configs[w].blocks - 1)

-----------------------------------------------------------------------------
(***************************************************************************)
(* Properties                                                              *)
(***************************************************************************)

\* Two different blocks of a worker's cache never share a byte, and neither do two
\* layers of one group in the same block, whichever way the layers were grouped,
\* packed, padded, projected to the worker and shrunk to the smallest worker's
\* block count; and all blocks lie inside the memory the worker has.
BlocksApart ==
    step = "done" =>
        \A w \in Workers :
            LET at == [x \in in.owns[w] \X Blocks(w) |-> BlockStart(w, x[1], x[2])]
                to == [x \in in.owns[w] \X Blocks(w) |-> at[x] + PageOf(w, x[1])]
                group == [l \in in.owns[w] |-> GroupOf(w, l)]
            IN /\ configs[w].size <= mem[w]
               /\ \A x \in DOMAIN at : 0 <= at[x] /\ to[x] <= configs[w].size
               /\ \A x, y \in DOMAIN at :
                     x # y /\ (x[2] # y[2] \/ group[x[1]] = group[y[1]])
                     => to[x] <= at[y] \/ to[y] <= at[x]

\* A start that succeeds leaves every worker with the same number of blocks, and
\* a request of max_model_len fits into them, the null block excepted: otherwise
\* the scheduler could never finish it.  A fitted length is the largest that does.
RequestFits ==
    step = "done" =>
        /\ \A w, v \in Workers : configs[w].blocks = configs[v].blocks
        /\ \A w \in Workers : RequestBlocks(groups, maxLen) <= configs[w].blocks - 1
        /\ maxLen < in.len =>
               \E w \in Workers : RequestBlocks(groups, maxLen + 1) > configs[w].blocks - 1

\* A plan keeps blocks apart on every worker and is large enough for the longest
\* request that is admitted.
PlanSound == BlocksApart /\ RequestFits
=============================================================================
