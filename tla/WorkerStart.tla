---------------------------- MODULE WorkerStart ----------------------------
(***************************************************************************)
(* What one worker does with its device while the engine starts            *)
(* (v1/worker/gpu_worker.py, gpu_model_runner.py, utils.py): it measures   *)
(* what its model takes, captures a few graphs on a throw-away KV cache to *)
(* guess what graphs will take, gets its KV cache planned (KVPlan),        *)
(* allocates and binds it, and from then on zeroes and copies blocks of it *)
(* for every step.                                                         *)
(*                                                                         *)
(* A byte of the cache holds Zero or a value of an earlier request, which  *)
(* is the byte's own address.                                              *)
(***************************************************************************)
EXTENDS KVPlan

CONSTANT Granule    \* bytes ROCm pads an allocation to

VARIABLES
    dev,     \* worker -> its device: [free, requested, after, headroom, first, second, num, graphs, kvBytes]
    rig,     \* what its layers run on: [be (backends of even and odd layers), shared, encoder, rocm, zeroes, flag, mode, restart]
    who,     \* the worker that is followed
    runner,  \* its model runner
    cell,    \* its cache: byte -> content
    moved    \* the blocks the last step zeroed and copied: [news, src, dst]

workerVars == <<dev, rig, who, runner, cell, moved>>
planVars == <<in, mem, maxLen, groups, local, configs>>

Zero == -1
Unmoved == [news |-> {}, src |-> 0, dst |-> 0]
NoView == [at |-> -1, ratio |-> 0, stride |-> 0, page |-> 0]

\* A runner before initialize_kv_cache.
Fresh(mode) ==
    [attn |-> {}, caches |-> <<>>, view |-> <<>>, kernel |-> <<>>, batch |-> <<>>, keys |-> FALSE,
     mode |-> mode, blocks |-> 0, graphs |-> 0]

Backend(l) == rig.be[(l % 2) + 1]

SharedLayer  == Len(in.model) + 1
EncoderLayer == Len(in.model) + 2

OwnAttention(w) == {l \in in.owns[w] : in.model[l].kind \in {"full", "swa"}}
Shares(w) == rig.shared /\ OwnAttention(w) # {}
Target(w) == Min(OwnAttention(w))

\* The graphs that all backends of the worker's layers support.
ProfiledMode(w) ==
    Min({rig.mode} \cup {Backend(l).graphs : l \in in.owns[w] \cup (IF Shares(w) THEN {SharedLayer} ELSE {})})
-----------------------------------------------------------------------------
(***************************************************************************)
(* Memory                                                                  *)
(***************************************************************************)

\* request_memory: enough has to be free.
Requests(d) == d.free >= d.requested

\* What the weights and everything else outside torch's cache consumed; on ROCm
\* torch's own figure stands in when others released memory meanwhile.
Consumed(d) ==
    IF rig.rocm /\ d.after > d.free THEN d.reserved ELSE d.free - d.after

\* profile_cudagraph_memory: the first two captures of every mode, largest first.
\* Graphs of different modes share a pool: the largest first capture counts once.
Estimate(d, mode) ==
    IF mode = 0 \/ d.num = <<>> THEN 0
    ELSE Max({d.first[i] : i \in Indices(d.first)})
         + SumSeq([i \in Indices(d.num) |-> (d.num[i] - 1) * Max({d.second[i], 1})])
         + d.encoder

Applied(w) == IF rig.flag THEN Estimate(dev[w], ProfiledMode(w)) ELSE 0

\* Fault: the graphs are left out of the account.
AvailableNoGraphs(w) ==
    IF dev[w].kvBytes > 0 THEN dev[w].kvBytes ELSE dev[w].requested - Consumed(dev[w]) - dev[w].headroom

\* determine_available_memory
Available(w) ==
    IF dev[w].kvBytes > 0 THEN dev[w].kvBytes
    ELSE dev[w].requested - Consumed(dev[w]) - dev[w].headroom - Applied(w)

\* What the captured graphs take in the end.
GraphsOf(w) == IF ProfiledMode(w) = 0 THEN 0 ELSE dev[w].graphs

\* What compile_or_warm_up_model suggests for the next start, and saves.
Suggested(w) ==
    dev[w].requested - (Consumed(dev[w]) + (dev[w].headroom + Applied(w)) + GraphsOf(w)) - dev[w].buffer
-----------------------------------------------------------------------------
(***************************************************************************)
(* Attention groups and kernel block sizes                                 *)
(***************************************************************************)
\* Layers of group i with those that share its caches: add_kv_sharing_layers_to_kv_cache_groups.
Members(w, i) ==
    Elems(local[w][i].layers)
    \cup (IF Shares(w) /\ Target(w) \in Elems(local[w][i].layers) THEN {SharedLayer} ELSE {})

\* Sharing layers are not in the specs of a group of several specs: a KeyError.
SharingFails(w) ==
    Shares(w) /\ \E i \in Indices(local[w]) : SharedLayer \in Members(w, i) /\ local[w][i].uniform

RunnerOnly(l) == l \in {SharedLayer, EncoderLayer}

\* initialize_attn_backend: layers of a group with the same backend, spec and heads.
Key(w, i, l) == <<Backend(l).cls, LayerSpec(local[w][i], l), Backend(l).heads>>

AttnGroups(w) ==
    {[gid |-> i, layers |-> {m \in Members(w, i) : Key(w, i, m) = Key(w, i, l)},
      spec |-> LayerSpec(local[w][i], l)] : <<i, l>> \in {x \in Indices(local[w]) \X (1..SharedLayer) :
                                                              x[2] \in Members(w, x[1])}}
    \cup (IF rig.encoder
          THEN {[gid |-> Len(local[w]) + 1, layers |-> {EncoderLayer},
                 spec |-> [local[w][1].spec EXCEPT !.kind = "encoder"]]}
          ELSE {})

GroupBackends(w, i) == {Backend(l) : l \in Members(w, i)}

Supports(b, size) == \E s \in b.sizes : IF s.multiple THEN size % s.n = 0 ELSE size = s.n

\* Fault: any size that some backend knows.
SelectCommonAny(size, backends) ==
    LET fixed == UNION {{s.n : s \in {s \in b.sizes : ~s.multiple}} : b \in backends}
        usable == {n \in fixed : size % n = 0}
    IN IF \A b \in backends : Supports(b, size) THEN size
       ELSE IF usable = {} THEN 0 ELSE Max(usable)

\* select_common_block_size; 0: an error.
SelectCommon(size, backends) ==
    LET fixed == UNION {{s.n : s \in {s \in b.sizes : ~s.multiple}} : b \in backends}
        usable == {n \in fixed : size % n = 0 /\ \A b \in backends : Supports(b, n)}
    IN IF \A b \in backends : Supports(b, size) THEN size
       ELSE IF usable = {} THEN 0 ELSE Max(usable)

\* prepare_kernel_block_sizes: encoder-only groups, the last, have none.
KernelSizes(w) ==
    [i \in Indices(local[w]) |->
        IF local[w][i].spec.kind = "mamba" THEN local[w][i].spec.bs
        ELSE SelectCommon(local[w][i].spec.bs, GroupBackends(w, i))]

\* The graphs all backends of the worker support: _check_and_update_cudagraph_mode.
ResolvedMode(w, mode) ==
    Min({mode} \cup UNION {{b.graphs : b \in GroupBackends(w, i)} : i \in Indices(local[w])})

\* calculate_reorder_batch_threshold: the smallest of those that have one; 0: none.
Threshold(w) ==
    LET ts == UNION {{b.threshold : b \in GroupBackends(w, i)} : i \in Indices(local[w])} \ {0}
    IN IF ts = {} THEN 0 ELSE Min(ts)

\* may_reinitialize_input_batch: what the block tables are made for.
Batch(w) ==
    [i \in Indices(local[w]) |->
        [size |-> local[w][i].spec.bs, kernel |-> KernelSizes(w)[i],
         slots |-> local[w][i].spec.kind \notin {"mamba", "circular"},
         width |-> BlocksFor(local[w][i].spec, maxLen, cfg.batched)]]
-----------------------------------------------------------------------------
(***************************************************************************)
(* Views of the cache                                                      *)
(***************************************************************************)

\* Kernel blocks per block; compressed caches keep their own storage blocks.
Ratio(w, l) ==
    LET i == GroupOf(w, l)
        s == LayerSpec(local[w][i], l)
    IN IF s.tps > 1 \/ s.kind = "mamba" THEN 1 ELSE local[w][i].spec.bs \div KernelSizes(w)[i]

BlockStride(w, l) == BlockStart(w, l, 1) - BlockStart(w, l, 0)

\* A view with one stride over kernel blocks needs the blocks of a split layer to be adjacent.
Splits(w, l) ==
    /\ Ratio(w, l) > 1 => BlockStride(w, l) = PageOf(w, l)
    /\ PageOf(w, l) % Ratio(w, l) = 0
    /\ RealPage(LayerSpec(local[w][GroupOf(w, l)], l)) % Ratio(w, l) = 0

\* create_kv_cache_views: kernel block k of the layer starts at at + k * stride.
View(w, l) ==
    [at |-> BlockStart(w, l, 0), ratio |-> Ratio(w, l), stride |-> BlockStride(w, l) \div Ratio(w, l),
     page |-> RealPage(LayerSpec(local[w][GroupOf(w, l)], l)) \div Ratio(w, l)]

\* Bytes of block b in a view.
BytesOf(v, b) ==
    {v.at + (b * v.ratio + k) * v.stride + o : k \in 0..(v.ratio - 1), o \in 0..(v.page - 1)}

\* allocate_kv_cache, with layers that share: every layer's view.
Views(w) ==
    [l \in in.owns[w] \cup (IF Shares(w) THEN {SharedLayer} ELSE {}) |->
        View(w, IF l = SharedLayer THEN Target(w) ELSE l)]

BufferSize(w) ==
    IF rig.rocm THEN CDiv(configs[w].size, Granule) * Granule ELSE configs[w].size

\* bind_kv_cache: the caches in the order of the layers.
Ordered(w) == SelectSeq([i \in 1..SharedLayer |-> i], LAMBDA l : l \in DOMAIN Views(w))
-----------------------------------------------------------------------------
(***************************************************************************)
(* Blocks that are zeroed and copied                                       *)
(***************************************************************************)
Attention(s) == s.kind \notin {"mamba", "encoder"}

\* KVBlockZeroer: one segment per first byte of a kernel block, as wide as the widest view there.
SegmentsAt(r) ==
    UNION {UNION {{[addr |-> r.view[l].at + k * r.view[l].stride, stride |-> r.view[l].stride * r.view[l].ratio,
                    page |-> r.view[l].page] : k \in 0..(r.view[l].ratio - 1)} :
                  l \in {l \in g.layers : ~RunnerOnly(l)}} :
           g \in {g \in r.attn : Attention(g.spec) /\ g.gid <= Len(r.kernel)}}

\* Fault: the first width seen at an address is kept.
SegmentsNarrow(r) ==
    {s \in SegmentsAt(r) : \A t \in SegmentsAt(r) : t.addr = s.addr => s.page <= t.page}

Segments(r) ==
    {s \in SegmentsAt(r) : \A t \in SegmentsAt(r) : t.addr = s.addr => t.page <= s.page}

\* The constructor's assertion: overlaid views step alike.
SegmentsAgree(r) == \A s, t \in SegmentsAt(r) : s.addr = t.addr => s.stride = t.stride

\* The kernel's stores for one block and one segment.
SegmentBytes(s, b) == {s.addr + b * s.stride + o : o \in 0..(s.page - 1)}

\* zero_block_ids
Zeroed(r, c, ids) ==
    LET bytes == UNION {SegmentBytes(s, b) : s \in Segments(r), b \in ids}
    IN [x \in DOMAIN c |-> IF x \in bytes THEN Zero ELSE c[x]]

\* Whether the cache's storage is nothing but its blocks, so that they are copied whole.
WholeBlocks(v, n, size) == size = n * v.stride * v.ratio

\* Layers that are copied: of those whose views start at one byte, the first.
CopiedLayers(r) ==
    {r.caches[i] : i \in {i \in Indices(r.caches) :
        \A j \in 1..(i - 1) : r.view[r.caches[j]].at # r.view[r.caches[i]].at}}

\* copy_kv_cache_blocks_inplace, for one pair: all is read before anything is written.
Copied(r, c, size, src, dst) ==
    LET from(l) ==
            LET v == r.view[l]
                step1 == v.stride * v.ratio
            IN IF WholeBlocks(v, r.blocks, size)
               THEN [x \in (dst * step1)..((dst + 1) * step1 - 1) |-> x + (src - dst) * step1]
               ELSE [x \in BytesOf(v, dst) |-> x + (src - dst) * step1]
        one(d, l) == [x \in DOMAIN d |-> IF x \in DOMAIN from(l) THEN c[from(l)[x]] ELSE d[x]]
    IN FoldSet(LAMBDA l, d : one(d, l), c, CopiedLayers(r))
-----------------------------------------------------------------------------
(***************************************************************************)
(* The worker's start                                                      *)
(***************************************************************************)
WorkerOff ==
    /\ dev = <<>> /\ rig = [mode |-> 0] /\ who = 0 /\ runner = Fresh(0) /\ cell = <<>> /\ moved = Unmoved

Stop == step' = "failed" /\ UNCHANGED <<planVars, workerVars>>

\* init_device and load_model on every worker's device.
InitDevices(devices, r, w) ==
    /\ dev' = devices /\ who' = w /\ rig' = r
    /\ runner' = Fresh(r.mode)
    /\ UNCHANGED <<cell, moved>>

\* The minimal cache of profile_cudagraph_memory holds the worker's own layers.
ProfileGraphs ==
    /\ step = "devices"
    /\ IF \E w \in Workers : ~Requests(dev[w]) THEN Stop
       ELSE /\ runner' = IF dev[who].kvBytes > 0 \/ runner.mode = 0 THEN runner
                         ELSE [runner EXCEPT !.attn = {[gid |-> 1, layers |-> in.owns[who], spec |-> <<>>]},
                                             !.caches = SetToSeq(in.owns[who]),
                                             !.view = [l \in in.owns[who] |-> NoView],
                                             !.batch = <<1>>, !.kernel = <<1>>, !.keys = TRUE, !.blocks = 1,
                                             !.mode = ProfiledMode(who)]
            /\ step' = "profiled"
            /\ UNCHANGED <<planVars, dev, rig, who, cell, moved>>

\* _cleanup_profiling_kv_cache and the end of profile_cudagraph_memory: the block tables
\* and the kernel block sizes are left as they are.
Cleaned(r) == [r EXCEPT !.attn = {}, !.caches = <<>>, !.view = <<>>, !.keys = FALSE, !.blocks = 0]

\* Free memory may not have grown, but for ROCm.
DetermineMemory ==
    /\ step = "profiled"
    /\ IF \E w \in Workers : dev[w].kvBytes = 0 /\ dev[w].after > dev[w].free /\ ~rig.rocm THEN Stop
       ELSE /\ mem' = [w \in Workers |-> Available(w)]
            /\ runner' = Cleaned(runner)
            /\ step' = "group"
            /\ UNCHANGED <<in, maxLen, groups, local, configs, dev, rig, who, cell, moved>>

\* initialize_from_config: the assertions and errors of initialize_kv_cache end the start.
InitializeKv ==
    /\ step = "done"
    /\ IF \/ SharingFails(who)
          \/ \E i \in Indices(local[who]) : KernelSizes(who)[i] = 0
          \/ \E l \in in.owns[who] : ~Splits(who, l)
       THEN Stop
       ELSE /\ runner.attn = {} /\ runner.caches = <<>>
            /\ runner' = [attn |-> AttnGroups(who), caches |-> Ordered(who), view |-> Views(who),
                          kernel |-> KernelSizes(who), batch |-> Batch(who), keys |-> TRUE,
                          mode |-> ResolvedMode(who, runner.mode), blocks |-> configs[who].blocks, graphs |-> 0]
            /\ cell' = [x \in 0..(BufferSize(who) - 1) |-> Zero]
            /\ step' = "bound"
            /\ UNCHANGED <<planVars, dev, rig, who, moved>>

\* compile_or_warm_up_model: the graphs are captured, and take what they take.
WarmUp ==
    /\ step = "bound"
    /\ runner' = [runner EXCEPT !.graphs = GraphsOf(who)]
    /\ step' = "ready"
    /\ UNCHANGED <<planVars, dev, rig, who, cell, moved>>

\* A later start of the same engine takes the memory that the first one suggested.
Restart ==
    /\ step = "ready" /\ rig.restart /\ dev[who].kvBytes = 0
    /\ \A w \in Workers : Suggested(w) > 0
    /\ dev' = [w \in Workers |-> [dev[w] EXCEPT !.kvBytes = Suggested(w)]]
    /\ runner' = Fresh(rig.mode)
    /\ mem' = <<>> /\ groups' = <<>> /\ local' = <<>> /\ configs' = <<>> /\ cell' = <<>>
    /\ maxLen' = in.len
    /\ step' = "devices"
    /\ UNCHANGED <<in, rig, who, moved>>

\* Requests come and go until every byte has been used.
Used ==
    /\ step = "ready"
    /\ cell' = [x \in DOMAIN cell |-> x]
    /\ step' = "used"
    /\ UNCHANGED <<planVars, dev, rig, who, runner, moved>>

\* The start of _update_states: new blocks are zeroed, then blocks are copied.
UpdateBlocks(news, src, dst) ==
    /\ step = "used"
    /\ cell' = Copied(runner, IF rig.zeroes THEN Zeroed(runner, cell, news) ELSE cell,
                      Cardinality(DOMAIN cell), src, dst)
    /\ moved' = [news |-> news, src |-> src, dst |-> dst]
    /\ step' = "moved"
    /\ UNCHANGED <<planVars, dev, rig, who, runner>>

\* The first blocks stand for all.
SomeBlocks == 0..Min({2, runner.blocks - 1})

WorkerNext ==
    \/ ProfileGraphs \/ DetermineMemory \/ InitializeKv \/ WarmUp \/ Restart \/ Used
    \/ \E news \in SUBSET SomeBlocks, src, dst \in SomeBlocks :
          src # dst /\ src \notin news /\ UpdateBlocks(news, src, dst)
-----------------------------------------------------------------------------
(***************************************************************************)
(* Properties                                                              *)
(***************************************************************************)
Planned(w, l, b) == BlockStart(w, l, b)..(BlockStart(w, l, b) + PageOf(w, l) - 1)

\* Every layer is bound to a view that has all of its data inside the block's planned
\* bytes, block tables are made for kernel blocks that every backend of the group
\* supports and that split its blocks evenly, and nothing of the profiling is left.
BoundRight ==
    step \in {"bound", "ready"} =>
        /\ in.owns[who] \subseteq DOMAIN runner.view /\ Elems(runner.caches) = DOMAIN runner.view
        /\ \A l \in in.owns[who], b \in Blocks(who) : BytesOf(runner.view[l], b) \subseteq Planned(who, l, b)
        /\ \A i \in Indices(local[who]) :
              /\ runner.batch[i].kernel = runner.kernel[i]
              /\ runner.batch[i].size % runner.kernel[i] = 0
              /\ local[who][i].spec.kind # "mamba" =>
                    \A be \in GroupBackends(who, i) : Supports(be, runner.kernel[i])
        /\ SegmentsAgree(runner)

\* copy_kv_cache_blocks_inplace misses a layer that starts where the narrower view of an
\* earlier layer does, unless blocks are copied whole.
Hidden(l) ==
    /\ ~WholeBlocks(runner.view[l], runner.blocks, Cardinality(DOMAIN cell))
    /\ \E m \in DOMAIN runner.view :
          m < l /\ runner.view[m].at = runner.view[l].at /\ runner.view[m].page < runner.view[l].page

\* After a step's zeroing and copying, a new block is zero wherever a layer that
\* attends to it may read, the copy holds what its source held, whichever group the
\* two belong to, and no byte of another block has changed.
BlocksMoved ==
    step = "moved" =>
        \A l \in in.owns[who], b \in Blocks(who) :
            LET v == runner.view[l]
                s == LayerSpec(local[who][GroupOf(who, l)], l)
                shift == (moved.src - moved.dst) * v.stride * v.ratio
            IN IF b = moved.dst THEN Hidden(l) \/ \A x \in BytesOf(v, b) : cell[x] = x + shift
               ELSE IF b \in moved.news
               THEN (rig.zeroes /\ Attention(s)) => \A x \in BytesOf(v, b) : cell[x] = Zero
               ELSE \A x \in BytesOf(v, b) : cell[x] = x

\* When a worker is ready, its weights, the peak of a forward pass, the KV cache and the
\* graphs are within the memory that was requested, if the graphs were accounted for or
\* the memory is what an earlier start suggested.
MemoryKept ==
    step = "ready" /\ (rig.flag \/ dev[who].kvBytes > 0) =>
        Consumed(dev[who]) + dev[who].headroom + configs[who].size + runner.graphs <= dev[who].requested

\* A worker's cache is bound where it was planned, its blocks are zeroed and copied
\* exactly, and it leaves the device the memory it was not given.
CacheRight == BoundRight /\ BlocksMoved /\ MemoryKept
=============================================================================
