------------------------------ MODULE AttnStep ------------------------------
(***************************************************************************)
(* One worker executes steps of a DeepSeek-V4.1 layer with ratio-2         *)
(* compression: the batch is padded to a captured graph, the metadata of   *)
(* the step is built from query lengths, sequence lengths and block        *)
(* tables, keys are written to the paged caches, and every row of the      *)
(* batch reads its sliding window and its selected compressed entries      *)
(* through that metadata; then a block of drafts is proposed from the kept *)
(* tokens, whose keys are written and read in the same way.                *)
(*                                                                         *)
(* A key is the triple of its request, its position and whether the token  *)
(* there was kept: a rejected draft leaves its key in the caches until the *)
(* position is computed again.  A compressed entry is the pair of keys it  *)
(* was pooled from.  Rows, slots and positions count from 0, block 0 is    *)
(* the null block.                                                         *)
(***************************************************************************)
EXTENDS GraphDispatch, Sequences, SequencesExt

CONSTANTS
    Confs,         \* the configurations (see GraphDispatch), with parallel (drafting), splits and the requests
    Prompt,        \* length of a request's prompt; its domain is the set of requests
    MaxLen,        \* max_model_len
    MaxTokens,     \* max_num_batched_tokens
    Window,        \* sliding_window
    SwaBlock,      \* tokens in a block of the sliding-window cache
    CompBlock,     \* entries in a block of the compressed cache
    RingFloor,     \* the least capacity of a ring of raw keys (8 in the code)
    TopK,          \* index_topk
    PrefillChunk,  \* PREFILL_CHUNK_SIZE
    MaxGather,     \* get_max_prefill_buffer_size
    MaxLogits,     \* VLLM_SPARSE_INDEXER_MAX_LOGITS_MB, in logits
    SwaBlocks, CompBlocks, RingBlocks   \* the blocks that can be handed out

Ratio == 2
Requests == DOMAIN Prompt
Rows == 0..(MaxTokens - 1)

ASSUME SizesAssumption == {Window, SwaBlock, CompBlock, TopK, PrefillChunk, MaxGather, MaxLogits} \subseteq Nat \ {0}
ASSUME PoolsAssumption == 0 \notin SwaBlocks \cup CompBlocks \cup RingBlocks

VARIABLES
    conf,      \* the configuration of this worker
    graphs,    \* the descriptors captured so far
    stage,     \* of a request: "new", "live" or "done"
    len,       \* num_computed_tokens of a request
    swaTab, compTab, ringTab,   \* block tables of a request, one per cache group
    swa, comp, ring,            \* contents of the caches, by slot
    draft,     \* contents of the tensor shared by draft layers of two cache groups, by slot
    skipped,   \* history: positions of a request whose step was not followed by drafting
    seqLens,   \* decode_seq_lens_buffer, which graphs read
    batch,     \* metadata of the step
    phase,     \* "idle", or what the step does next
    out        \* what the last step read and sampled from

vars == <<conf, graphs, stage, len, swaTab, compTab, ringTab, swa, comp, ring, draft, skipped, seqLens, batch, phase, out>>

Junk == <<0, 0, FALSE>>      \* never written
Noise == <<0, 1, FALSE>>     \* computed by a row of padding
NoSlot == 1000               \* -1
NoReads == <<>>

\* Fault: room for the drafts only.
CapacityOfDrafts(c) == Max({RingFloor, Min({2^e : e \in {x \in 0..6 : 2^x >= c.k}})})

\* The capacity of a ring: drafts, the sampled token and the row before, as a power of two.
Capacity(c) == Max({RingFloor, Min({2^e : e \in {x \in 0..6 : 2^x >= c.k + 2}})})

-----------------------------------------------------------------------------
(* The batch and its common metadata *)

\* query_start_loc of a list of query lengths
QueryStart(qs) ==
    LET at[i \in 0..Len(qs)] == IF i = 0 THEN 0 ELSE at[i - 1] + qs[i] IN at

\* num_actual_tokens: in a full graph rows of padding count
ActualTokens(mode, desc, n) == IF mode = "FULL" THEN desc.tokens ELSE n

\* _prepare_inputs and _build_attention_metadata: a batch has its requests, their query lengths, the
\* lengths before the step and how many of their tokens will be kept; padding requests have no tokens
\* and length 0, rows of padding are given the first request.
CommonMetadata(reqs, qs, base, kept, exec) ==
    LET n == QueryStart(qs)[Len(qs)]
        p == IF exec[1] = "FULL" THEN exec[2].reqs ELSE Len(qs)
        q == [i \in 1..p |-> IF i <= Len(qs) THEN qs[i] ELSE 0]
        at == QueryStart(q)
        tokens == ActualTokens(exec[1], exec[2], n)
        row == [t \in 0..(tokens - 1) |-> IF t < n THEN CHOOSE i \in 1..p : at[i - 1] <= t /\ t < at[i] ELSE 1]
    IN [reqs |-> reqs, q |-> q, base |-> base, kept |-> kept, mode |-> exec[1], desc |-> exec[2],
        n |-> n, tokens |-> tokens, p |-> p, at |-> at, row |-> row,
        seq |-> [i \in 1..p |-> IF i <= Len(qs) THEN base[i] + qs[i] ELSE 0],
        pos |-> [t \in 0..(n - 1) |-> base[row[t]] + t - at[row[t] - 1]]]

Key(b, i, pos) == <<b.reqs[i], pos, pos < b.base[i] + b.kept[i]>>
RowKey(b, t) == IF t < b.n THEN Key(b, b.row[t], b.pos[t]) ELSE Noise

Slot(table, size, pos) == (table[(pos \div size) + 1] * size) + (pos % size)

\* Fault: the slots of padding rows point at the null block.
SlotMappingNull(b, tabs, t) == IF t < b.n THEN Slot(tabs[b.row[t]], SwaBlock, b.pos[t]) ELSE 0

\* _get_slot_mappings: rows of padding write nowhere
SlotMapping(b, tabs, t) == IF t < b.n THEN Slot(tabs[b.row[t]], SwaBlock, b.pos[t]) ELSE NoSlot

\* get_compressed_slot_mapping: the row that completes a group writes the group's entry
CompressedSlot(b, tabs, t) ==
    IF t < b.n /\ (b.pos[t] + 1) % Ratio = 0
    THEN Slot(tabs[b.row[t]], CompBlock, b.pos[t] \div Ratio) ELSE NoSlot

\* split_decodes_and_prefills: the requests before the first with more than `threshold` tokens
Decodes(b, threshold) ==
    LET long == {i \in 1..b.p : b.q[i] > threshold} IN IF long = {} THEN b.p ELSE Min(long) - 1

\* the same with require_uniform: only requests as long as the first one, or padding, are decodes
UniformDecodes(b) ==
    LET odd == {i \in 1..b.p : b.q[i] \notin {0, b.q[1]}}
    IN CASE b.q[1] > QueryLen(conf) -> 0
         [] b.q[1] <= QueryLen(conf) /\ odd = {} -> b.p
         [] OTHER -> Min(odd) - 1

DecodeRows(b, decodes) == IF decodes = b.p THEN b.tokens ELSE b.at[decodes]

-----------------------------------------------------------------------------
(* Writing keys *)

Written(mem, rows, SlotOf(_), Value(_)) ==
    LET slots == {SlotOf(t) : t \in rows}
    IN [s \in DOMAIN mem |-> IF s \in slots THEN Value(CHOOSE t \in rows : SlotOf(t) = s) ELSE mem[s]]

SwaInsert(b, tabs) ==
    Written(swa, 0..(b.tokens - 1), LAMBDA t : SlotMapping(b, tabs, t), LAMBDA t : RowKey(b, t))

RingSlot(b, rings, i, pos) == (rings[i][1] * Capacity(conf)) + (pos % Capacity(conf))

\* _ring_slot_mapping_kernel, and the tail store of the request programs
RingStore(b, rings) ==
    LET tail == {t \in 0..(b.n - 1) : b.at[b.row[t]] - t <= Capacity(conf)}
    IN Written(ring, tail, LAMBDA t : RingSlot(b, rings, b.row[t], b.pos[t]), LAMBDA t : RowKey(b, t))

FirstRow(b, t) == t = b.at[b.row[t] - 1]

\* the row that a program of the pair (2g, 2g + 1) pools with the row before it
GroupRow(b, g) == (2 * g) + ((b.pos[2 * g] + 1) % 2)

\* _fused_save_compress_norm_kernel: a request's first row finds its partner in the ring (read before
\* the tail of the step is stored there), any other is pooled with the row before it
Latent(b, rings) ==
    [t \in 0..(b.tokens - 1) |->
        CASE t < b.n /\ FirstRow(b, t) /\ b.pos[t] % 2 = 1 ->
                <<ring[RingSlot(b, rings, b.row[t], b.pos[t] - 1)], RowKey(b, t)>>
          [] t < b.n /\ ~FirstRow(b, t) /\ GroupRow(b, t \div 2) = t -> <<RowKey(b, t - 1), RowKey(b, t)>>
          [] OTHER -> <<Junk, Junk>>]

\* insert_cache and _produce_k: attention entries and index keys share slots and groups
CompInsert(b, tabs, rings) ==
    LET latent == Latent(b, rings)
    IN Written(comp, 0..(b.tokens - 1), LAMBDA t : CompressedSlot(b, tabs, t), LAMBDA t : latent[t])

-----------------------------------------------------------------------------
(* The indexer: which entries a row scores, and the ones it selects *)

\* _use_flattening: without DeepGEMM only one or two rows per request have a kernel of their own
Flattens(c) == QueryLen(c) \notin {1, 2}

IndexerDecodes(b) == IF Flattens(conf) THEN Decodes(b, QueryLen(conf)) ELSE UniformDecodes(b)

MaxDecodeLen(b, decodes) == Max({b.q[i] : i \in 1..decodes})
UniformRows(b, decodes, rows) ==
    /\ \A i \in 1..decodes : b.q[i] = b.q[1]
    /\ decodes * b.q[1] = rows

\* max(x - y, 0)
Monus(x, y) == IF x > y THEN x - y ELSE 0

\* _PREPARE_UNIFORM_DECODE_KERNEL, and the native layout (B, next_n): the length of row t of a
\* batch in which every decode has `width` rows
RegularLen(b, width, t) == Monus(b.seq[(t \div width) + 1] + (t % width) + 1, width) \div Ratio

\* _prepare_decode_tensors, then the division by the ratio
DecodeSeqLens(b) ==
    LET decodes == IndexerDecodes(b)
        rows == DecodeRows(b, decodes)
        real == b.at[decodes]
        width == MaxDecodeLen(b, decodes)
    IN CASE decodes = 0 -> seqLens
         [] decodes > 0 /\ Flattens(conf) /\ UniformRows(b, decodes, rows) ->
                [t \in Rows |-> IF t < rows THEN RegularLen(b, width, t) ELSE 0]
         [] decodes > 0 /\ Flattens(conf) /\ ~UniformRows(b, decodes, rows) ->
                [t \in Rows |-> IF t < real THEN (b.seq[b.row[t]] - b.q[b.row[t]] - b.at[b.row[t] - 1] + t + 1) \div Ratio ELSE 0]
         [] decodes > 0 /\ ~Flattens(conf) /\ conf.k > 0 ->
                [t \in Rows |-> IF t < decodes * width THEN RegularLen(b, width, t) ELSE seqLens[t]]
         [] OTHER ->
                [t \in Rows |-> IF t < decodes THEN b.seq[t + 1] \div Ratio ELSE IF t < rows THEN 0 ELSE seqLens[t]]

\* The request whose block table a decode row uses: its own copy when flattened, that of its place in
\* the (B, next_n) layout of the graph or of the step otherwise.
TableOf(b, t) ==
    CASE Flattens(conf) -> b.row[t]
      [] ~Flattens(conf) /\ b.mode = "FULL" -> (t \div GraphQueryLen(b.desc)) + 1
      [] OTHER -> (t \div b.q[1]) + 1

Entry(mem, tabs, i, g) == IF i \in DOMAIN tabs THEN mem[Slot(tabs[i], CompBlock, g)] ELSE mem[0]

Entries(mem, tabs, i, n) == [g \in 1..n |-> Entry(mem, tabs, i, g - 1)]

DecodeScores(b, lens, mem, tabs, t) == Entries(mem, tabs, TableOf(b, t), lens[t])

CompressedStart(b) == QueryStart([i \in 1..b.p |-> b.seq[i] \div Ratio])

\* split_indexer_prefill_chunks: the last request of the chunk that begins with request i
ChunkEnd(b, i) ==
    LET cu == CompressedStart(b)
    IN Max({i} \cup {e \in i..b.p : /\ cu[e] - cu[i - 1] <= MaxGather
                                     /\ (cu[e] - cu[i - 1]) * (b.at[e] - b.at[i - 1]) <= MaxLogits})

\* the first request of the chunk of each prefill
ChunkStart(b, decodes) ==
    LET first[i \in (decodes + 1)..b.p] ==
            IF i = decodes + 1 THEN i ELSE IF ChunkEnd(b, first[i - 1]) >= i THEN first[i - 1] ELSE i
    IN first

\* the passes over the rows of a chunk, each over at most so many rows as the logits have room for;
\* all use the keys gathered by the first
Passes(b, i) ==
    LET e == ChunkEnd(b, i)
        m == b.at[e] - b.at[i - 1]
        n == CompressedStart(b)[e] - CompressedStart(b)[i - 1]
        maxq == Max({1, IF n > 0 THEN MaxLogits \div n ELSE m})
    IN {o..Min({o + maxq - 1, m - 1}) : o \in {x \in 0..(m - 1) : x % maxq = 0}}

\* build_prefill_chunk_metadata: the keys of all requests of a chunk are gathered one after the other,
\* and a row scores those from cu_seqlen_ks up to cu_seqlen_ke
PrefillScores(b, decodes, mem, tabs, t) ==
    LET i == b.row[t]
        f == ChunkStart(b, decodes)[i]
        gathered == FlattenSeq([j \in 1..(ChunkEnd(b, f) - f + 1) |-> Entries(mem, tabs, f + j - 1, b.seq[f + j - 1] \div Ratio)])
        ks == CompressedStart(b)[i - 1] - CompressedStart(b)[f - 1]
        ke == ks + (b.pos[t] + 1) \div Ratio
    IN IF Len(gathered) > 0 /\ t - b.at[f - 1] \in UNION Passes(b, f) THEN SubSeq(gathered, ks + 1, ke) ELSE <<>>

Scores(b, lens, mem, tabs) ==
    LET decodes == IndexerDecodes(b)
        rows == DecodeRows(b, decodes)
    IN [t \in 0..(b.tokens - 1) |->
            IF t < rows THEN DecodeScores(b, lens, mem, tabs, t) ELSE PrefillScores(b, decodes, mem, tabs, t)]

\* The best entries of n scored ones, by local index: here the newest.
Selected(n) == [j \in 1..Min({n, TopK}) |-> n - j]

-----------------------------------------------------------------------------
(* Sparse attention *)

DecodeThreshold == 1 + (IF conf.parallel THEN 2 ELSE 1) * conf.k

\* _compute_swa_indices_and_lens_kernel: the slots of the window of row t
WindowSlots(b, tabs, t) ==
    LET pos == b.pos[t]
        start == Monus(pos, Window - 1)
    IN IF SlotMapping(b, tabs, t) = NoSlot THEN <<>>
       ELSE [o \in 1..(pos + 1 - start) |-> Slot(tabs[b.row[t]], SwaBlock, start + o - 1)]

\* compute_global_topk_ragged_indices_and_indptr
SelectedSlots(b, tabs, ctabs, t, n) ==
    IF SlotMapping(b, tabs, t) = NoSlot THEN <<>>
    ELSE [j \in 1..Len(Selected(n)) |-> Slot(ctabs[b.row[t]], CompBlock, Selected(n)[j])]

\* build_ragged_indices_from_dense: the lists of all rows in one, and what row t finds there
Packed(lists) == [indices |-> FlattenSeq(lists), indptr |-> QueryStart([i \in DOMAIN lists |-> Len(lists[i])])]

RaggedRow(packed, t) == SubSeq(packed.indices, packed.indptr[t] + 1, packed.indptr[t + 1])

\* _sparse_attn_decode_partial_kernel: the slice of a list that split s reads
SplitSlice(list, s) ==
    LET chunk == (Len(list) + conf.splits - 1) \div conf.splits
    IN SubSeq(list, s * chunk + 1, Min({(s + 1) * chunk, Len(list)}))

SplitReads(list) == FlattenSeq([s \in 1..conf.splits |-> SplitSlice(list, s - 1)])

Loaded(mem, slots) == [j \in DOMAIN slots |-> mem[slots[j]]]

\* the workspace of _forward_prefill: per request N compressed entries, then the window and the chunk
WorkN == (MaxLen + Ratio - 1) \div Ratio
WorkM == WorkN + Window + MaxTokens
GatherLen(b, i) == b.q[i] + Min({b.base[i], Window - 1})

\* dequantize_and_gather_k_cache: what the chunk that begins with request f finds at index x
Workspace(b, f, mem, cmem, tabs, ctabs, x) ==
    LET i == f + (x \div WorkM)
        y == x % WorkM
    IN CASE y < WorkN /\ y < b.seq[i] \div Ratio -> cmem[Slot(ctabs[i], CompBlock, y)]
         [] y >= WorkN /\ y - WorkN < GatherLen(b, i) ->
                mem[Slot(tabs[i], SwaBlock, b.seq[i] - GatherLen(b, i) + y - WorkN)]
         [] OTHER -> Junk

\* combine_topk_swa_indices
PrefillReads(b, decodes, mem, cmem, tabs, ctabs, n, t) ==
    LET i == b.row[t]
        f == decodes + ((i - decodes - 1) \div PrefillChunk) * PrefillChunk + 1
        pos == b.pos[t]
        topkLen == Min({(pos + 1) \div Ratio, TopK})
        swaLen == Min({pos + 1, Window})
        from == WorkM * (i - f) + WorkN + pos + 1 - swaLen - (b.seq[i] - GatherLen(b, i))
    IN [comp |-> [j \in 1..Min({topkLen, Len(Selected(n))}) |->
                    Workspace(b, f, mem, cmem, tabs, ctabs, WorkM * (i - f) + Selected(n)[j])],
        swa |-> [o \in 1..swaLen |-> Workspace(b, f, mem, cmem, tabs, ctabs, from + o - 1)]]

\* forward_mqa
Attention(b, mem, cmem, tabs, ctabs, scores) ==
    LET decodes == Decodes(b, DecodeThreshold)
        rows == DecodeRows(b, decodes)
        main == Packed([i \in 1..rows |-> WindowSlots(b, tabs, i - 1)])
        extra == Packed([i \in 1..rows |-> SelectedSlots(b, tabs, ctabs, i - 1, Len(scores[i - 1]))])
    IN [t \in 0..(b.tokens - 1) |->
            IF t < rows
            THEN [swa |-> Loaded(mem, SplitReads(RaggedRow(main, t))), comp |-> Loaded(cmem, SplitReads(RaggedRow(extra, t)))]
            ELSE PrefillReads(b, decodes, mem, cmem, tabs, ctabs, Len(scores[t]), t)]

-----------------------------------------------------------------------------
(* Sampling *)

\* Drafts of a request in this step: a request still in its prompt has none.
NumDrafts(b, i) == IF b.base[i] < Prompt[b.reqs[i]] THEN 0 ELSE b.q[i] - 1

\* Fault: the logits of a request start at its first row.
LogitsFromStart(b) ==
    LET sampled == [i \in 1..Len(b.reqs) |-> NumDrafts(b, i) + 1]
    IN FlattenSeq([i \in 1..Len(b.reqs) |-> [j \in 1..sampled[i] |-> b.at[i - 1] + j - 1]])

\* logits_indices of _calc_spec_decode_metadata: the rows whose logits are computed
LogitsIndices(b) ==
    LET sampled == [i \in 1..Len(b.reqs) |-> NumDrafts(b, i) + 1]
    IN FlattenSeq([i \in 1..Len(b.reqs) |-> [j \in 1..sampled[i] |-> b.at[i] - sampled[i] + j - 1]])

\* target_logits_indices and bonus_logits_indices, and the rows of the drafts to compare with the targets
SpecDecodeMetadata(b) ==
    LET logits == LogitsIndices(b)
        cu == QueryStart([i \in 1..Len(b.reqs) |-> NumDrafts(b, i) + 1])
        target == FlattenSeq([i \in 1..Len(b.reqs) |-> [j \in 1..NumDrafts(b, i) |-> cu[i - 1] + j - 1]])
    IN [target |-> [x \in DOMAIN target |-> logits[target[x] + 1]],
        draft |-> [x \in DOMAIN target |-> logits[target[x] + 2]],
        bonus |-> [i \in 1..Len(b.reqs) |-> logits[cu[i]]]]

-----------------------------------------------------------------------------
(* Drafting: the layers of the DSpark block keep their keys in the sliding-window caches of two groups *)

DraftGroups == 1..2

\* _block_table_for: the blocks of a group are its own, here one for each block of the first group.
BlockTableFor(gid, tabs) ==
    [i \in DOMAIN tabs |-> [j \in DOMAIN tabs[i] |->
        IF tabs[i][j] = 0 \/ gid = 1 THEN tabs[i][j] ELSE tabs[i][j] + Max(SwaBlocks)]]

\* prepare_inputs_padded: rows of rejected drafts stay in the batch.
NumRejected(b, i) == IF NumDrafts(b, i) = 0 THEN 0 ELSE NumDrafts(b, i) + 1 - b.kept[i]

\* prepare_next_token_ids_padded: the sampled token, or the next one of the prompt; a token is its place
NextToken(b, i) == <<b.reqs[i], b.base[i] + b.kept[i]>>

\* Fault: the queries follow the last row of the request.
QueryPosAfterAll(b, i, o) == b.pos[b.at[i] - 1] + 1 + o

\* copy_and_expand_dflash_inputs_kernel: the queries follow the last row that was not rejected
QueryPos(b, i, o) == b.pos[b.at[i] - NumRejected(b, i) - 1] + 1 + o

\* set_inputs_first_pass: a batch of k query rows for every request, whose rows continue what was kept
FirstPass(b) ==
    LET n == Len(b.reqs)
        seq == [i \in 1..n |-> b.seq[i] - NumRejected(b, i)]
        q == CommonMetadata(b.reqs, [i \in 1..n |-> conf.k], seq, [i \in 1..n |-> 0], <<"PIECEWISE", b.desc>>)
    IN [q EXCEPT !.pos = [t \in DOMAIN q.pos |-> QueryPos(b, q.row[t], t - q.at[q.row[t] - 1])]]

\* propose_draft_token_ids: with a padded batch every row of the target's step is context
TargetRows(b) == 0..(b.n - 1)

\* the slot of a context row or of a query in the cache of a layer (build_model_inputs_first_pass,
\* _dspark_slot_mapping; rows of padding write nowhere)
ContextSlot(b, tabs, g, t) == Slot(BlockTableFor(g, tabs)[b.row[t]], SwaBlock, b.pos[t])
QuerySlot(f, tabs, g, t) == IF t < f.n THEN Slot(BlockTableFor(g, tabs)[f.row[t]], SwaBlock, f.pos[t]) ELSE NoSlot

\* _insert_context_kv: the layer's own key of every context row, rejected or not
InsertContextKv(mem, b, tabs, g) ==
    Written(mem, TargetRows(b), LAMBDA t : ContextSlot(b, tabs, g, t), LAMBDA t : <<g>> \o RowKey(b, t))

\* precompute_and_store_context_kv: all draft layers, before the block runs
ContextInsert(b, tabs) == FoldFunction(LAMBDA g, mem : InsertContextKv(mem, b, tabs, g), draft, [g \in DraftGroups |-> g])

\* The forward of the block: each layer stores the keys of the queries before it attends; the
\* contents are those that the layer of group g finds.
QueryInsert(f, tabs, context) ==
    LET mem[g \in 0..2] ==
            IF g = 0 THEN context
            ELSE Written(mem[g - 1], 0..(f.tokens - 1), LAMBDA t : QuerySlot(f, tabs, g, t),
                         LAMBDA t : <<g, f.reqs[f.row[t]], f.pos[t]>>)
    IN mem

\* ComputeDSparkNoncausalSWAIndicesKernel: the window before the block, and the whole block
NoncausalSlots(f, tabs, t) ==
    LET i == f.row[t]
        start == Monus(f.seq[i] - f.q[i], Window)
    IN [o \in 1..(f.seq[i] - start) |-> Slot(tabs[i], SwaBlock, start + o - 1)]

\* What the rows of the block read in the layer of each group.
DraftReads(f, tabs, mem) ==
    [g \in DraftGroups |-> [t \in 0..(f.n - 1) |->
        LET own == BlockTableFor(g, tabs)
        IN Loaded(mem[g], IF conf.causal THEN WindowSlots(f, own, t) ELSE NoncausalSlots(f, own, t))]]

\* _sample_sequential: draft o of a request comes from the o-th row of its block, the first after the
\* token at its anchor
Sequential(b, f) ==
    LET ids == [t \in 0..(f.n - 1) |-> IF t % conf.k = 0 THEN NextToken(b, f.row[t]) ELSE Noise]
    IN [i \in DOMAIN b.reqs |-> [first |-> ids[(i - 1) * conf.k],
                                  rows |-> [o \in 1..conf.k |-> f.pos[((i - 1) * conf.k) + o - 1]]]]

\* propose: how many of the drafts are then verified, after truncation by confidence, is left to Schedule.
Propose(b, tabs) ==
    LET f == FirstPass(b)
        mem == QueryInsert(f, tabs, ContextInsert(b, tabs))
    IN [mem |-> mem[2], drafted |-> DraftReads(f, tabs, mem), drafts |-> Sequential(b, f)]

\* _input_fits_in_drafter
InputFitsInDrafter(b) == Max({b.seq[i] : i \in DOMAIN b.reqs}) + conf.k <= MaxLen

-----------------------------------------------------------------------------
(* The life of a worker *)

Live == {r \in Requests : stage[r] = "live"}

\* The KV cache manager: the blocks a table needs for n tokens and the slots of drafts.
BlocksFor(n, size) == (Min({n + conf.k, MaxLen}) + size - 1) \div size
Unreachable(r) == Monus(len[r], Window - 1) \div SwaBlock
Trimmed(r) == [j \in 1..Len(swaTab[r]) |-> IF j <= Unreachable(r) THEN 0 ELSE swaTab[r][j]]

\* the tables of the requests of a batch, each extended to the blocks it needs (result is the new tables)
Extend(reqs, tabs, blocks, need, result) ==
    LET free == SetToSortSeq(blocks \ UNION {Range(tabs[r]) : r \in Requests}, <)
        at == QueryStart([i \in DOMAIN reqs |-> Monus(need[reqs[i]], Len(tabs[reqs[i]]))])
        place(r) == CHOOSE i \in DOMAIN reqs : reqs[i] = r
    IN /\ at[Len(reqs)] <= Len(free)
       /\ result = [r \in Requests |->
                      IF r \in Range(reqs) THEN tabs[r] \o SubSeq(free, at[place(r) - 1] + 1, at[place(r)]) ELSE tabs[r]]

\* Tokens a request may be given in a step: any part of its prompt, or the next token and drafts.
Schedulable(r) ==
    IF len[r] < Prompt[r] THEN 1..Min({MaxTokens, Prompt[r] - len[r]})
    ELSE 1..Min({QueryLen(conf), MaxLen - len[r]})

\* The persistent batch holds decodes before prefills.
BatchOrder(q) ==
    SetToSortSeq(DOMAIN q, LAMBDA x, y : LET long(r) == q[r] > QueryLen(conf)
                                         IN (~long(x) /\ long(y)) \/ (x < y /\ long(x) = long(y)))

Init ==
    /\ conf \in Confs
    /\ graphs = {}
    /\ stage = [r \in Requests |-> "new"]
    /\ len = [r \in Requests |-> 0]
    /\ swaTab = [r \in Requests |-> <<>>]
    /\ compTab = [r \in Requests |-> <<>>]
    /\ ringTab = [r \in Requests |-> <<>>]
    /\ swa = [s \in 0..((Max(SwaBlocks) + 1) * SwaBlock - 1) |-> Junk]
    /\ comp = [s \in 0..((Max(CompBlocks) + 1) * CompBlock - 1) |-> <<Junk, Junk>>]
    /\ ring = [s \in 0..((Max(RingBlocks) + 1) * Capacity(conf) - 1) |-> Junk]
    /\ draft = [s \in 0..(2 * (Max(SwaBlocks) + 1) * SwaBlock - 1) |-> Junk]
    /\ skipped = [r \in Requests |-> {}]
    /\ seqLens = [t \in Rows |-> 0]
    /\ batch = <<>> /\ phase = "idle" /\ out = NoReads

\* capture_model: the largest descriptor that is left is captured by a dummy run, which leaves its
\* lengths in the buffer and writes no cache
Capture ==
    LET left == CaptureDescs(conf) \ graphs
    IN /\ left # {}
       /\ LET d == CHOOSE x \in left : \A y \in left : (x[1] = "PIECEWISE" /\ y[1] = "FULL") \/ (x[1] = y[1] /\ x[2].tokens >= y[2].tokens)
              qs == DummyBatch(conf, d[2])
              b == CommonMetadata(<<>>, qs, [i \in DOMAIN qs |-> 0], [i \in DOMAIN qs |-> 0], d)
          IN /\ graphs' = graphs \cup {d}
             /\ seqLens' = IF d[1] = "FULL" THEN DecodeSeqLens(b) ELSE seqLens
       /\ UNCHANGED <<conf, stage, len, swaTab, compTab, ringTab, swa, comp, ring, draft, skipped, batch, phase, out>>

Arrive(r) ==
    /\ graphs = CaptureDescs(conf) /\ phase = "idle"
    /\ stage[r] = "new"
    /\ \A x \in Requests : x < r => stage[x] # "new"
    /\ r \in conf.reqs
    /\ Cardinality(Live) < conf.seqs
    /\ stage' = [stage EXCEPT ![r] = "live"]
    /\ UNCHANGED <<conf, graphs, len, swaTab, compTab, ringTab, swa, comp, ring, draft, skipped, seqLens, batch, phase, out>>

\* The scheduler gives tokens to some requests, their tables are extended, and the batch is padded to
\* a graph; kept says how many of the tokens of each request will turn out right.
Schedule(q, kept) ==
    LET reqs == BatchOrder(q)
        qs == [i \in DOMAIN reqs |-> q[reqs[i]]]
        tokens == [r \in DOMAIN q |-> len[r] + q[r]]
        trimmed == [r \in Requests |-> IF r \in DOMAIN q THEN Trimmed(r) ELSE swaTab[r]]
    IN /\ phase = "idle" /\ graphs = CaptureDescs(conf)
       /\ QueryStart(qs)[Len(qs)] <= MaxTokens
       /\ Extend(reqs, trimmed, SwaBlocks, [r \in DOMAIN q |-> BlocksFor(tokens[r], SwaBlock)], swaTab')
       /\ Extend(reqs, compTab, CompBlocks, [r \in DOMAIN q |-> BlocksFor(tokens[r], CompBlock * Ratio)], compTab')
       /\ Extend(reqs, ringTab, RingBlocks, [r \in DOMAIN q |-> 1], ringTab')
       /\ batch' = CommonMetadata(reqs, qs, [i \in DOMAIN reqs |-> len[reqs[i]]], [i \in DOMAIN reqs |-> kept[reqs[i]]],
                                  Execution(conf, QueryStart(qs)[Len(qs)], Len(reqs), Max(Range(qs)), 0))
       /\ phase' = "write" /\ out' = NoReads
       /\ UNCHANGED <<conf, graphs, stage, len, swa, comp, ring, draft, skipped, seqLens>>

\* The tables of the batch, by place in it
Tables(tab) == [i \in DOMAIN batch.reqs |-> tab[batch.reqs[i]]]

\* The builders prepare the lengths, and the layer writes the keys of all rows before any is read.
Write ==
    /\ phase = "write"
    /\ seqLens' = DecodeSeqLens(batch)
    /\ swa' = SwaInsert(batch, Tables(swaTab))
    /\ comp' = CompInsert(batch, Tables(compTab), Tables(ringTab))
    /\ ring' = RingStore(batch, Tables(ringTab))
    /\ phase' = "score"
    /\ UNCHANGED <<conf, graphs, stage, len, swaTab, compTab, ringTab, draft, skipped, batch, out>>

\* The indexer scores the entries of every row.
Score ==
    /\ phase = "score"
    /\ out' = [scores |-> Scores(batch, seqLens, comp, Tables(compTab))]
    /\ phase' = "attend"
    /\ UNCHANGED <<conf, graphs, stage, len, swaTab, compTab, ringTab, swa, comp, ring, draft, skipped, seqLens, batch>>

\* Every row attends to its window and its selected entries, and the drafts are verified.
Attend ==
    /\ phase = "attend"
    /\ out' = [scores |-> out.scores, spec |-> SpecDecodeMetadata(batch),
               rows |-> Attention(batch, swa, comp, Tables(swaTab), Tables(compTab), out.scores)]
    /\ len' = [r \in Requests |->
                 IF r \in Range(batch.reqs) THEN len[r] + batch.kept[CHOOSE i \in DOMAIN batch.reqs : batch.reqs[i] = r]
                 ELSE len[r]]
    /\ phase' = IF conf.k > 0 THEN "draft" ELSE "idle"
    /\ UNCHANGED <<conf, graphs, stage, swaTab, compTab, ringTab, swa, comp, ring, draft, skipped, seqLens, batch>>

\* The last rank proposes drafts for every request of the step, or for none.
Draft ==
    /\ phase = "draft"
    /\ phase' = "idle"
    /\ IF InputFitsInDrafter(batch)
       THEN LET p == Propose(batch, Tables(swaTab))
            IN /\ draft' = p.mem
               /\ out' = [scores |-> out.scores, spec |-> out.spec, rows |-> out.rows, drafted |-> p.drafted, drafts |-> p.drafts]
               /\ UNCHANGED skipped
       ELSE /\ skipped' = [r \in Requests |->
                    skipped[r] \cup UNION {batch.base[i]..(batch.base[i] + batch.kept[i] - 1) :
                                              i \in {x \in DOMAIN batch.reqs : batch.reqs[x] = r}}]
            /\ UNCHANGED <<draft, out>>
    /\ UNCHANGED <<conf, graphs, stage, len, swaTab, compTab, ringTab, swa, comp, ring, seqLens, batch>>

\* a request that has its first token may end at any time
Finish(r) ==
    /\ stage[r] = "live" /\ len[r] >= Prompt[r] /\ phase = "idle"
    /\ stage' = [stage EXCEPT ![r] = "done"]
    /\ swaTab' = [swaTab EXCEPT ![r] = <<>>]
    /\ compTab' = [compTab EXCEPT ![r] = <<>>]
    /\ ringTab' = [ringTab EXCEPT ![r] = <<>>]
    /\ batch' = <<>> /\ out' = NoReads
    /\ UNCHANGED <<conf, graphs, len, swa, comp, ring, draft, skipped, seqLens, phase>>

Next ==
    \/ Capture
    \/ \E r \in Requests : Arrive(r) \/ Finish(r)
    \/ Write \/ Score \/ Attend \/ Draft
    \/ \E rs \in SUBSET Live \ {{}} :
          \E q \in [rs -> 1..MaxTokens] :
             /\ \A r \in rs : q[r] \in Schedulable(r)
             /\ \E kept \in [rs -> 1..MaxTokens] :
                   /\ \A r \in rs : IF len[r] < Prompt[r] THEN kept[r] = q[r] ELSE kept[r] \in 1..q[r]
                   /\ Schedule(q, kept)

Spec == Init /\ [][Next]_vars

-----------------------------------------------------------------------------
(* Properties *)

Finished == phase = "idle" /\ out # NoReads

(***************************************************************************)
(* The dummy run that captures a descriptor is itself dispatched to that   *)
(* descriptor and fills it exactly, and a step is only replayed in a       *)
(* captured graph with room for its tokens and requests.  A full decode    *)
(* graph is used for uniform batches only, of at most the query length it  *)
(* was captured with (dispatch, _dummy_run).                               *)
(***************************************************************************)
GraphsFit ==
    graphs = {} =>
        /\ \A d \in CaptureDescs(conf) :
              /\ DummyExecution(conf, d[2]) = d
              /\ QueryStart(DummyBatch(conf, d[2]))[DummyReqs(conf, d[2])] = d[2].tokens
        /\ \A reqs \in 1..conf.seqs, maxq \in 1..(QueryLen(conf) + 1), loras \in 0..conf.loras :
              \A n \in (maxq + reqs - 1)..(maxq * reqs) :
                 LET e == Execution(conf, n, reqs, maxq, loras)
                 IN /\ e[2].tokens >= n
                    /\ e[1] # "NONE" => e \in CaptureDescs(conf)
                    /\ e[1] = "FULL" /\ SeparateRoutine(conf) =>
                          /\ n = maxq * reqs
                          /\ reqs <= e[2].reqs /\ maxq <= GraphQueryLen(e[2])
                          /\ ~Flattens(conf) => maxq = GraphQueryLen(e[2])

(***************************************************************************)
(* Every row of a request reads the keys of its own sliding window, scores *)
(* all compressed entries that are complete at its position and reads the  *)
(* selected ones, each once: never a key of another request, of a freed    *)
(* block or of a rejected draft of an earlier step, whatever graph the     *)
(* step is padded to and however the batch is split into decodes, prefill  *)
(* chunks and key splits.                                                  *)
(***************************************************************************)
RowsRight ==
    Finished =>
        LET b == batch
            key(i, pos) == <<b.reqs[i], pos, pos < b.base[i] + b.kept[i]>>
        IN \A i \in DOMAIN b.reqs : \A j \in 0..(b.q[i] - 1) :
              LET t == QueryStart(b.q)[i - 1] + j
                  pos == b.base[i] + j
                  w == Min({pos + 1, Window})
                  entries == [g \in 1..((pos + 1) \div Ratio) |-> <<key(i, 2 * g - 2), key(i, 2 * g - 1)>>]
                  read == out.rows[t]
              IN /\ read.swa = [o \in 1..w |-> key(i, pos - w + o)]
                 /\ out.scores[t] = entries
                 /\ Len(read.comp) = Min({TopK, Len(entries)})
                 /\ Cardinality(Range(read.comp)) = Len(read.comp)
                 /\ Range(read.comp) \subseteq Range(entries)

\* Rows of padding in a replayed graph read no key, whatever an earlier, larger step left in the buffers.
PaddingIdle ==
    Finished =>
        \A t \in DOMAIN out.rows :
            t >= batch.n => out.scores[t] = <<>> /\ out.rows[t].swa = <<>> /\ out.rows[t].comp = <<>>

\* A step is replayed in a graph that fits it, and read what its requests are to read and nothing else.
AttentionRight == GraphsFit /\ RowsRight /\ PaddingIdle

(***************************************************************************)
(* Every row of a draft block reads, in each layer, the keys computed from *)
(* the kept tokens of its own request in the window before the block, and  *)
(* those of the block's queries: never a rejected token's key, nor one of  *)
(* the layer of another group; only where drafting was skipped because     *)
(* some request of the batch was near its limit may a key be old.  Drafts  *)
(* continue the token sampled last, one per position                       *)
(* (DSparkProposer.propose).                                               *)
(***************************************************************************)
DraftsRight ==
    Finished /\ "drafts" \in DOMAIN out =>
        \A i \in DOMAIN batch.reqs :
            LET r == batch.reqs[i]
                next == len[r]
                from(o) == Monus(IF conf.causal THEN next + o ELSE next, IF conf.causal THEN Window - 1 ELSE Window)
                upto(o) == IF conf.causal THEN next + o ELSE next + conf.k - 1
            IN /\ out.drafts[i] = [first |-> <<r, next>>, rows |-> [o \in 1..conf.k |-> next + o - 1]]
               /\ \A g \in DraftGroups, o \in 0..(conf.k - 1) :
                    LET read == out.drafted[g][((i - 1) * conf.k) + o]
                    IN /\ Len(read) = upto(o) + 1 - from(o)
                       /\ \A x \in DOMAIN read :
                            LET pos == from(o) + x - 1
                            IN \/ pos >= next /\ read[x] = <<g, r, pos>>
                               \/ pos < next /\ read[x] = <<g, r, pos, TRUE>>
                               \/ pos \in skipped[r]

\* A step writes no cache slot outside the blocks its live requests hold.
WritesOwn ==
    [][LET held(tabs) == UNION {Range(tabs[r]) : r \in Live} \ {0}
       IN /\ \A s \in DOMAIN swa : swa'[s] # swa[s] => s \div SwaBlock \in held(swaTab')
          /\ \A s \in DOMAIN comp : comp'[s] # comp[s] => s \div CompBlock \in held(compTab')
          /\ \A s \in DOMAIN draft : draft'[s] # draft[s] =>
                s \div SwaBlock \in held(swaTab') \cup {x + Max(SwaBlocks) : x \in held(swaTab')}
          /\ \A s \in DOMAIN ring : ring'[s] # ring[s] => s \div Capacity(conf) \in held(ringTab')]_vars

\* Each request samples from its last row, and each of its drafts is verified by the row of the token before
\* it (_calc_spec_decode_metadata).
SampledRight ==
    Finished =>
        LET b == batch
            at == QueryStart(b.q)
            drafts(i) == IF b.base[i] < Prompt[b.reqs[i]] THEN {} ELSE (at[i - 1] + 1)..(at[i] - 1)
        IN /\ out.spec.bonus = [i \in DOMAIN b.reqs |-> at[i] - 1]
           /\ Range(out.spec.draft) = UNION {drafts(i) : i \in DOMAIN b.reqs}
           /\ \A x \in DOMAIN out.spec.draft : out.spec.draft[x] = out.spec.target[x] + 1
=============================================================================
