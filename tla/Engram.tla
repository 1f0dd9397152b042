------------------------------- MODULE Engram -------------------------------
(***************************************************************************)
(* The n-gram lookups of the engram layers                                 *)
(* (models/deepseek_v4_1/common/engram.py, nvidia/model.py, model_state.py *)
(* and the runner's lookback window).  A position is hashed with the       *)
(* tokens before it.  Those that are not in the step's batch come from the *)
(* window the runner passes, or (V1 runner) from a store with one cell per *)
(* slot of the first layer's sliding-window cache, which nothing but the   *)
(* hash itself fills: chunked prompts, prefix hits, rejected drafts,       *)
(* preemptions and reused blocks all pass through it.  The hashes select   *)
(* rows of a table whose columns are spread over tensor-parallel ranks and *)
(* data-parallel replicas.                                                 *)
(*                                                                         *)
(* The text a request will have is fixed (Texts): what varies is how it is *)
(* scheduled, drafted, cached and cut.  A table row is named by its index. *)
(***************************************************************************)
EXTENDS Integers, Sequences, FiniteSets, FiniteSetsExt, Bitwise

CONSTANTS
    MaxNgram, EngLayers,          \* engram_max_ngram_size, number of engram layers
    BaseVocab,                    \* engram_vocab_size
    TokenForms,                   \* token id + 1 -> [raw, text, norm, partial]
    PadToken, ImageToken, WrongToken,
    Texts,                        \* request -> its tokens
    PromptSize,                   \* request -> how many of them are its prompt
    BlockSize, NumBlocks, Window, \* the sliding-window group
    EngConfs                      \* the deployments; clients and budget bound requests and tokens of a step

Depth == MaxNgram - 1
Reqs == DOMAIN Texts
DeadId == -1
MaxDrafts == Max({c.drafts : c \in EngConfs})

\* A lookback never reaches a block that the window has given up, even when the
\* scheduler counts drafts that are rejected (the window is 128 and the depth 3).
ASSUME EngramAssumption ==
    /\ MaxNgram \in Nat /\ MaxNgram > 1
    /\ Window > Depth + MaxDrafts
    /\ \A r \in Reqs : PromptSize[r] \in 1..Len(Texts[r])

VARIABLES
    conf,     \* the deployment
    kv,       \* the bound sliding-window cache: 0 none, 1 that of the profiling, 2 the served one
    store,    \* hash_cache: [ref (the cache it was sized for), cells]
    request,      \* request -> [status, known, comp (device), cpu (the runner's count), table]
    keys,     \* block -> the text prefix it is cached for, <<>>: none
    loaded,   \* history: blocks a connector has filled
    shown     \* what the running step feeds its engram layer

engVars == <<conf, kv, store, request, keys, loaded, shown>>
NotShown == [at |-> "none"]
-----------------------------------------------------------------------------
(***************************************************************************)
(* Compressed ids and buckets                                              *)
(***************************************************************************)
Tokens == 1..Len(TokenForms)

\* What a token is known by: its normal form, unless it is part of a character or empty.
Key(t) ==
    LET f == TokenForms[t]
    IN IF f.partial THEN f.raw ELSE IF f.norm = "" THEN f.text ELSE f.norm

\* build_compressed_token_map: keys are numbered as they are met.
CompressedId(t) ==
    LET first == Min({u \in Tokens : Key(u) = Key(t)})
    IN Cardinality({Key(u) : u \in 1..(first - 1)})

TokenMap == [t \in Tokens |-> CompressedId(t)]
CompressedSize == Cardinality({Key(t) : t \in Tokens})
PadId == TokenMap[PadToken]

\* What takes part in an n-gram.
Compress(t) == IF t = ImageToken THEN DeadId ELSE TokenMap[t]

PowMod(a, d, n) ==
    LET p[k \in 0..d] == IF k = 0 THEN 1 ELSE (p[k - 1] * a) % n
    IN p[d]

SmallPrimes == {2, 3, 5, 7, 11, 13, 17, 19, 23, 29, 31, 37}

\* n - 1 = odd * 2^twos
Twos(n) == Max({r \in 0..n : r < 12 /\ (n - 1) % (2^r) = 0})

\* Base a does not show that n is composite.
Passes(a, n) ==
    LET d == (n - 1) \div (2^Twos(n))
        x == PowMod(a, d, n)
    IN x \in {1, n - 1} \/ \E r \in 1..(Twos(n) - 1) : PowMod(x, 2^r, n) = n - 1

\* _is_prime
IsPrime(n) ==
    /\ n >= 2
    /\ IF \E p \in SmallPrimes : n % p = 0 THEN n \in SmallPrimes
       ELSE \A a \in {2, 7, 61} : Passes(a, n)

\* find_next_prime
FindNextPrime(start, seen) ==
    CHOOSE n \in (start + 1)..(4 * start + 200) :
        n \notin seen /\ IsPrime(n) /\ \A k \in (start + 1)..(n - 1) : k \in seen \/ ~IsPrime(k)

HeadCounts == {c.heads : c \in EngConfs}

\* EngramLayout: a prime for every column of every layer, none twice; the search
\* starts again for every order.
Primes ==
    [heads \in HeadCounts |->
        LET upTo[i \in 0..(EngLayers * Depth * heads)] ==
                IF i = 0 THEN <<>>
                ELSE LET s == upTo[i - 1]
                         at == IF (i - 1) % heads = 0 THEN BaseVocab - 1 ELSE s[i - 1]
                     IN Append(s, FindNextPrime(at, {s[j] : j \in 1..(i - 1)}))
        IN upTo[EngLayers * Depth * heads]]

\* Rows of a layer's first c columns.
Before ==
    [heads \in HeadCounts |-> [l \in 1..EngLayers |-> [c \in 0..(Depth * heads) |->
        MapThenSumSet(LAMBDA d : Primes[heads][(l - 1) * Depth * heads + d + 1], 0..(c - 1))]]]

Cols == Depth * conf.heads
HeadSize(c) == Primes[conf.heads][(conf.layer - 1) * Cols + c + 1]
RowsBefore(c) == Before[conf.heads][conf.layer][Min({c, Cols})]

\* compute_hash_multipliers: odd, and different for every layer.
Multiplier(layer, shift) == 2 * (3 * layer + 5 * shift) + 1

RECURSIVE Rolling(_, _, _)
Rolling(gram, layer, shift) ==
    IF shift < 0 THEN 0
    ELSE Rolling(gram, layer, shift - 1) ^^ (gram[shift] * Multiplier(layer, shift))

\* The row of one column for an n-gram.
HashedId(gram, c) ==
    (Rolling(gram, conf.layer, (c \div conf.heads) + 1) % HeadSize(c)) + RowsBefore(c)
-----------------------------------------------------------------------------
(***************************************************************************)
(* The hash of a batch                                                     *)
(* A batch is [ids, pos, qsl, slot, tables, window], flattened.            *)
(***************************************************************************)

\* Upper bound in query_start_loc[1:]; rows of padding belong to the last request.
ReqRow(b, i) ==
    LET n == Len(b.qsl) - 1
    IN Min({Cardinality({k \in 1..n : i - 1 >= b.qsl[k + 1]}), n - 1}) + 1

ChunkStart(b, i) == b.pos[Min({b.qsl[ReqRow(b, i)], Len(b.ids) - 1}) + 1]

\* The runner's window, by the distance to the chunk's start.
InWindow(b, i, shift) ==
    LET col == ChunkStart(b, i) - 1 - (b.pos[i] - shift)
    IN IF 0 <= col /\ col < Depth THEN b.window[ReqRow(b, i)][col + 1] ELSE -1

\* The cell of a position outside the batch.
CellOf(b, cells, i, look) ==
    LET row == Min({ReqRow(b, i), Len(b.tables)})
        at == Min({Max({look, 0}), Len(b.tables[row]) * BlockSize - 1})
    IN Min({b.tables[row][at \div BlockSize + 1] * BlockSize + (at % BlockSize),
            Cardinality(DOMAIN cells) - 1})

\* _hash_ids_kernel: the token before, from the batch, from the window, or from the store.
Source(b, cells, i, shift) ==
    LET look == b.pos[i] - shift
    IN IF look >= ChunkStart(b, i) THEN Compress(b.ids[Max({i - shift, 1})])
       ELSE IF InWindow(b, i, shift) >= 0 THEN Compress(InWindow(b, i, shift))
       ELSE IF conf.v2 THEN PadId
       ELSE cells[CellOf(b, cells, i, look)]

\* The n-gram that is hashed: cut at the start of the text and at a dead token.
Gram(b, cells, i) ==
    [shift \in 0..Depth |->
        IF \E s \in 0..shift : b.pos[i] - s < 0 \/ Source(b, cells, i, s) = DeadId THEN PadId
        ELSE Source(b, cells, i, shift)]

\* _write_hash_cache_kernel, complete before anything is read.
Written(b, cells) ==
    [x \in DOMAIN cells |->
        LET at == {i \in 1..Len(b.ids) : b.slot[i] = x}
        IN IF at = {} THEN cells[x] ELSE Compress(b.ids[Max(at)])]

\* Fault: the store is made once.
EnsureCacheOnce(s, k) ==
    IF k = 0 \/ conf.v2 THEN s
    ELSE IF s.ref # 0 THEN s
    ELSE [ref |-> k, cells |-> [x \in 0..((IF k = 1 THEN 1 ELSE NumBlocks) * BlockSize - 1) |-> 0]]

\* ensure_cache: another cache that is bound takes a new store.
EnsureCache(s, k) ==
    IF k = 0 THEN [ref |-> 0, cells |-> <<>>]
    ELSE IF conf.v2 \/ s.ref = k THEN s
    ELSE [ref |-> k, cells |-> [x \in 0..((IF k = 1 THEN 1 ELSE NumBlocks) * BlockSize - 1) |-> 0]]

\* _prepare_lookback_token_ids: prompt tokens only, counted from the runner's own count.
WindowV1(r) ==
    [j \in 1..Depth |->
        LET p == request[r].cpu - j
        IN IF 0 <= p /\ p < PromptSize[r] THEN Texts[r][p + 1] ELSE -1]

\* _gather_lookback_kernel: all tokens, from the device's history.
WindowV2(r) ==
    [j \in 1..Depth |-> LET p == request[r].comp - j IN IF p >= 0 THEN Texts[r][p + 1] ELSE -1]

NoWindow == [j \in 1..Depth |-> -1]
-----------------------------------------------------------------------------
(***************************************************************************)
(* The table, by columns over the shards                                   *)
(***************************************************************************)
ZeroRow0 == -1
Shards == conf.tp * conf.dp
CeilDiv(a, n) == (a + n - 1) \div n
Part == CeilDiv(Cols, Shards)

\* The constructor's assertion.
ShardsFit == (Shards - 1) * Part < Cols

\* engram_head_shard_rank: tensor-parallel rank first.
ShardRank(t, d) == t * conf.dp + d
HeadStart(t, d) == ShardRank(t, d) * Part

\* lookup of one row of hash ids: the columns of one shard.
LookupKernel(ids, t, d) ==
    [h \in 0..(Part - 1) |->
        LET c == HeadStart(t, d) + h
        IN IF /\ c < Cols
              /\ RowsBefore(HeadStart(t, d)) <= ids[c]
              /\ ids[c] < RowsBefore(HeadStart(t, d) + Part)
           THEN ids[c] ELSE ZeroRow0]

DeadIds == [c \in 0..(Cols - 1) |-> DeadId]

\* gather_engram_hashes: every replica padded to the widest.
GatheredHashes(hashes) ==
    LET slot == Max({Len(hashes[d]) : d \in DOMAIN hashes})
        padded(d) == [k \in 1..slot |-> IF k <= Len(hashes[d]) THEN hashes[d][k] ELSE DeadIds]
    IN IF conf.dp = 1 THEN hashes[0] ELSE padded(0) \o padded(1)

\* prepare_embeddings on every rank.
Staged(hashes) ==
    LET all == GatheredHashes(hashes)
    IN [t \in 0..(conf.tp - 1) |-> [d \in 0..(conf.dp - 1) |->
           [k \in 1..Len(all) |-> LookupKernel(all[k], t, d)]]]

\* _engram_select_rows: a window of tokens out of what the ranks of one group gathered,
\* their columns side by side.
SelectRows(gathered, start, count, width, cols) ==
    [k \in 1..count |-> [c \in 0..(cols - 1) |->
        LET rows0 == gathered[c \div width]
        IN IF start + k <= Len(rows0) THEN rows0[start + k][c % width] ELSE ZeroRow0]]

\* _trade_dp_tokens_for_heads, or the rank's own rows.
Traded(staged, t, d, n) ==
    IF conf.dp > 1
    THEN SelectRows(staged[t], d * (Len(staged[t][0]) \div conf.dp), n, Part, conf.dp * Part)
    ELSE SubSeq(staged[t][0], 1, n)

\* embed: all columns, of all tokens or (sequence parallel) of the rank's.
Embed(staged, t, d, n) ==
    LET mine == [u \in 0..(conf.tp - 1) |-> Traded(staged, u, d, n)]
        chunk == CeilDiv(n, conf.tp)
        width == conf.dp * Part
    IN IF conf.tp > 1 /\ conf.sp
       THEN SelectRows(mine, t * chunk, chunk, width, Cols)
       ELSE SelectRows(mine, 0, n, width, Cols)

\* Engram.forward: what is added to every position of the rank's hidden states.
Injected(staged, t, d, n, keep) ==
    LET rows0 == Embed(staged, t, d, n)
        shard == CeilDiv(n, conf.tp)
        start == IF conf.sp THEN Min({t * shard, n}) ELSE 0
        count == IF conf.sp THEN Min({shard, n - start}) ELSE n
    IN [k \in 1..(IF conf.sp THEN shard ELSE n) |->
          IF k <= count /\ keep[start + k] THEN rows0[k] ELSE <<>>]
-----------------------------------------------------------------------------
(***************************************************************************)
(* Requests and blocks                                                     *)
(* Blocks are those of the first layer's sliding-window group; block 0 is  *)
(* the null block.                                                         *)
(***************************************************************************)
Held == UNION {{request[r].table[k] : k \in DOMAIN request[r].table} : r \in Reqs}
Free == (1..(NumBlocks - 1)) \ Held

\* Blocks that lie before the window of the next position.
Outside(k, count) == k * BlockSize <= count - Window + 1

Prefix(r, k) == SubSeq(Texts[r], 1, k * BlockSize)
CachedFor(r, k) == {b \in DOMAIN keys : keys[b] = Prefix(r, k)}

Running == {r \in Reqs : request[r].status = "running"}

EngInit ==
    /\ conf \in EngConfs /\ kv = 0
    /\ store = [ref |-> 0, cells |-> <<>>]
    /\ request = [r \in Reqs |-> [status |-> "waiting", known |-> PromptSize[r], comp |-> 0, cpu |-> 0, table |-> <<>>]]
    /\ keys = [b \in 0..(NumBlocks - 1) |-> <<>>]
    /\ loaded = {} /\ shown = NotShown

\* The profiling binds a small cache, runs on it, and takes it away: nothing is kept.
ProfileBind ==
    /\ kv = 0 /\ store.ref = 0 /\ conf.vocab = CompressedSize /\ ShardsFit
    /\ kv' = 1
    /\ store' = EnsureCache(store, 1)
    /\ UNCHANGED <<conf, request, keys, loaded, shown>>

\* The served cache is bound; the next forward pass notices.
Bind ==
    /\ kv = 1 /\ kv' = 2
    /\ UNCHANGED <<conf, store, request, keys, loaded, shown>>

\* A request starts, or resumes, behind h cached blocks of its text and behind e more that
\* a connector loads.
Admit(r, h, e) ==
    LET hit(k) == IF Outside(k, (h + e) * BlockSize) THEN 0 ELSE Min(CachedFor(r, k))
        new == {b \in Free : \A k \in 1..h : Outside(k, (h + e) * BlockSize) \/ b # hit(k)}
        fresh == [k \in 1..e |-> CHOOSE b \in new : Cardinality({c \in new : c < b}) = k - 1]
    IN
    /\ kv = 2 /\ shown.at = "none" /\ r <= conf.clients
    /\ request[r].status = "waiting" /\ \A x \in 1..(r - 1) : request[x].status # "waiting"
    /\ (h + e) * BlockSize < request[r].known
    /\ \A k \in 1..h : Outside(k, (h + e) * BlockSize) \/ CachedFor(r, k) # {}
    /\ e <= Cardinality(new)
    /\ request' = [request EXCEPT ![r].status = "running", ![r].comp = (h + e) * BlockSize, ![r].cpu = (h + e) * BlockSize,
                          ![r].table = [k \in 1..(h + e) |-> IF k <= h THEN hit(k) ELSE fresh[k - h]]]
    /\ keys' = [b \in DOMAIN keys |-> IF conf.prefix /\ \E k \in 1..e : fresh[k] = b
                                      THEN Prefix(r, h + CHOOSE k \in 1..e : fresh[k] = b) ELSE keys[b]]
    /\ loaded' = loaded \cup {fresh[k] : k \in 1..e}
    /\ UNCHANGED <<conf, kv, store, shown>>

\* Ends, or is preempted; its full blocks stay cached.
Release(r, status) ==
    /\ shown.at = "none" /\ request[r].status = "running"
    /\ request' = [request EXCEPT ![r].status = status, ![r].comp = 0, ![r].cpu = 0, ![r].table = <<>>]

FinishRequest(r) ==
    /\ Release(r, "done")
    /\ request[r].known = Len(Texts[r])
    /\ UNCHANGED <<conf, kv, store, keys, loaded, shown>>
-----------------------------------------------------------------------------
(***************************************************************************)
(* A step                                                                  *)
(***************************************************************************)

Fed(r, p) ==
    [i \in 1..(p.q + p.drafts) |->
        IF i <= p.q + p.right THEN Texts[r][request[r].comp + i] ELSE WrongToken]

\* The blocks of r for this step: those outside of the window go, new ones come.
Grown(r, p, new) ==
    LET count == CeilDiv(Max({request[r].cpu, request[r].comp}) + p.q + p.drafts, BlockSize)
        old == Len(request[r].table)
    IN [k \in 1..Max({old, count}) |->
          IF k <= old THEN IF Outside(k, request[r].cpu) THEN 0 ELSE request[r].table[k]
          ELSE new[k - old]]

NumNewBlocks(r, p) ==
    Max({0, CeilDiv(Max({request[r].cpu, request[r].comp}) + p.q + p.drafts, BlockSize) - Len(request[r].table)})

\* Blocks a step takes.
Needed(plan) == MapThenSumSet(LAMBDA r : IF plan[r].q = 0 THEN 0 ELSE NumNewBlocks(r, plan[r]), Reqs)

\* Running requests in order get what they need of the budget; drafts follow once all that
\* is known is scheduled.
Share(budget, drafts, right) ==
    LET need(r) == request[r].known - request[r].comp
        extra(r) == Min({IF r <= conf.clients THEN drafts ELSE 0, Len(Texts[r]) - 1 - request[r].known})
        part[r \in 0..Cardinality(Reqs)] ==
            LET left == budget - MapThenSumSet(LAMBDA s : part[s].q + part[s].drafts, 1..(r - 1))
                q == IF r \in Running THEN Min({need(r), left}) ELSE 0
                d == IF q > 0 /\ q = need(r) THEN Min({extra(r), left - q}) ELSE 0
            IN [q |-> q, drafts |-> d, right |-> Min({d, right[r]})]
    IN [r \in Reqs |-> part[r]]

\* What one step runs, with what other requests leave of the budget.
Plans ==
    {plan \in {Share(n, d, f) : n \in 1..conf.budget, d \in 0..conf.drafts, f \in [Reqs -> 0..conf.drafts]} :
        \E r \in Reqs : plan[r].q > 0}

\* Blocks run out: the last that runs gives up its own.
Preempt(r) ==
    /\ r = Max(Running)
    /\ \E plan \in Plans : Needed(plan) > Cardinality(Free)
    /\ Release(r, "waiting")
    /\ UNCHANGED <<conf, kv, store, keys, loaded, shown>>

Flat(f) == LET g[r \in 0..Cardinality(Reqs)] == IF r = 0 THEN <<>> ELSE g[r - 1] \o f[r] IN g[Cardinality(Reqs)]

\* The batch the model is called with: requests in order, then padding, whose tokens and
\* positions are left over and whose slots are -1; replays of a graph see all rows.
Batch(plan, tables, pad, static) ==
    LET on == {r \in Reqs : plan[r].q > 0}
        n(r) == plan[r].q + plan[r].drafts
        before(r) == MapThenSumSet(n, {s \in on : s < r})
        total == MapThenSumSet(n, on)
        rowOf(k) == CHOOSE r \in on : Cardinality({s \in on : s < r}) = k - 1
        rows0 == IF static THEN Cardinality(Reqs) ELSE Cardinality(on)
        at(r, i) == request[r].comp + i - 1
    IN [ids  |-> Flat([r \in Reqs |-> Fed(r, plan[r])]) \o [i \in 1..pad |-> WrongToken],
        pos  |-> Flat([r \in Reqs |-> [i \in 1..n(r) |-> at(r, i)]]) \o [i \in 1..pad |-> 0],
        qsl  |-> [k \in 1..(rows0 + 1) |-> IF k <= Cardinality(on) THEN before(rowOf(k)) ELSE total],
        slot |-> Flat([r \in Reqs |-> [i \in 1..n(r) |->
                     tables[r][at(r, i) \div BlockSize + 1] * BlockSize + (at(r, i) % BlockSize)]])
                 \o [i \in 1..pad |-> -1],
        tables |-> [k \in 1..rows0 |-> IF k <= Cardinality(on) THEN tables[rowOf(k)] ELSE <<0>>],
        window |-> [k \in 1..rows0 |-> IF k > Cardinality(on) \/ conf.dbo THEN NoWindow
                                       ELSE IF conf.v2 THEN WindowV2(rowOf(k)) ELSE WindowV1(rowOf(k))],
        real |-> total]

\* forward of the hash: the store is written and the n-grams are read.
Forward(plan, pad, static) ==
    LET on == {r \in Reqs : plan[r].q > 0}
        new(r) == [k \in 1..NumNewBlocks(r, plan[r]) |->
                      CHOOSE b \in Free : Cardinality({c \in Free : c < b}) =
                          k - 1 + MapThenSumSet(LAMBDA s : NumNewBlocks(s, plan[s]), {s \in on : s < r})]
        tables == [r \in Reqs |-> IF r \in on THEN Grown(r, plan[r], new(r)) ELSE request[r].table]
        taken == UNION {{new(r)[k] : k \in DOMAIN new(r)} : r \in on}
        b == Batch(plan, tables, pad, static)
        s == EnsureCache(store, kv)
        cells == IF conf.v2 THEN <<>> ELSE Written(b, s.cells)
    IN
    /\ kv = 2 /\ shown.at = "none"
    /\ (static => conf.graphs /\ ~conf.v2) /\ (pad > 0 => conf.graphs /\ (static \/ conf.v2))
    /\ Needed(plan) <= Cardinality(Free)
    /\ request' = [r \in Reqs |-> [request[r] EXCEPT !.table = tables[r]]]
    /\ keys' = [x \in DOMAIN keys |-> IF x \in taken THEN <<>> ELSE keys[x]]
    /\ loaded' = loaded \ taken
    /\ store' = [s EXCEPT !.cells = cells]
    /\ shown' = [at |-> "grams", plan |-> plan, batch |-> b,
                 grams |-> [i \in 1..Len(b.ids) |-> Gram(b, cells, i)]]
    /\ UNCHANGED <<conf, kv>>

\* Another replica's hash ids: none, those of its tokens, or those of a dummy step.
PeerHashes(m, dummy) ==
    [k \in 1..m |-> IF dummy THEN DeadIds
                    ELSE [c \in 0..(Cols - 1) |-> ((k + c) % HeadSize(c)) + RowsBefore(c)]]

\* The n-grams become rows of the table, for every replica.
Hash(m, dummy) ==
    LET mine == [i \in DOMAIN shown.grams |-> [c \in 0..(Cols - 1) |-> HashedId(shown.grams[i], c)]]
    IN
    /\ shown.at = "grams" /\ (conf.dp = 1 => m = 0) /\ (m = 0 => ~dummy)
    /\ shown' = [at |-> "ids", plan |-> shown.plan, batch |-> shown.batch, m |-> m, dummy |-> dummy,
                 ids |-> IF conf.dp = 1 THEN [d \in {0} |-> mine]
                         ELSE [d \in 0..1 |-> IF d = 0 THEN mine ELSE PeerHashes(m, dummy)]]
    /\ UNCHANGED <<conf, kv, store, request, keys, loaded>>

\* The rows are looked up, exchanged and injected on every rank.
Inject ==
    LET ids == shown.batch.ids
        staged == Staged(shown.ids)
    IN
    /\ shown.at = "ids"
    /\ shown' = [at |-> "rows", plan |-> shown.plan, batch |-> shown.batch, ids |-> shown.ids, dummy |-> shown.dummy,
                 rows |-> [t \in 0..(conf.tp - 1) |-> [d \in 0..(conf.dp - 1) |->
                     IF d = 0 THEN Injected(staged, t, 0, Len(ids), [i \in DOMAIN ids |-> ids[i] # ImageToken])
                     ELSE Injected(staged, t, 1, shown.m, [i \in 1..shown.m |-> ~shown.dummy])]]]
    /\ UNCHANGED <<conf, kv, store, request, keys, loaded>>

\* The sampler accepts the right drafts and adds a token; the runner's own count is ahead
\* by what was rejected when the next step is scheduled before this one's output.
Sampled(ahead) ==
    LET p(r) == shown.plan[r]
        whole(r) == request[r].comp + p(r).q = request[r].known
        comp(r) == request[r].comp + p(r).q + p(r).right
    IN
    /\ shown.at = "rows" /\ (ahead => conf.async)
    /\ request' = [r \in Reqs |->
          IF p(r).q = 0 THEN request[r]
          ELSE [request[r] EXCEPT !.comp = comp(r),
                              !.cpu = IF ahead THEN request[r].comp + p(r).q + p(r).drafts ELSE comp(r),
                              !.known = IF whole(r) THEN comp(r) + 1 ELSE @]]
    /\ keys' = [b \in DOMAIN keys |->
          LET full == {x \in {<<r, k>> : r \in Running, k \in 1..NumBlocks} :
                         /\ x[2] <= Len(request[x[1]].table) /\ b # 0 /\ request[x[1]].table[x[2]] = b
                         /\ x[2] * BlockSize <= IF p(x[1]).q = 0 THEN request[x[1]].comp ELSE comp(x[1])}
          IN IF full = {} \/ ~conf.prefix THEN keys[b]
             ELSE LET x == CHOOSE x \in full : TRUE IN Prefix(x[1], x[2])]
    /\ shown' = NotShown
    /\ UNCHANGED <<conf, kv, store, loaded>>

\* Nothing is left to do, or the tokenizer is not the one the table was hashed with.
Rest ==
    /\ (kv = 0 /\ conf.vocab # CompressedSize) \/ \A r \in 1..conf.clients : request[r].status = "done"
    /\ UNCHANGED engVars

EngNext ==
    \/ ProfileBind \/ Bind
    \/ \E r \in Reqs :
          \/ \E h \in 0..(IF conf.prefix THEN NumBlocks ELSE 0), e \in 0..(IF conf.load THEN 2 ELSE 0) : Admit(r, h, e)
          \/ r \in Running /\ Preempt(r)
          \/ FinishRequest(r)
    \/ \E plan \in Plans, pad \in {0, 1}, static \in BOOLEAN : Forward(plan, pad, static)
    \/ \E m \in {0, 2}, dummy \in BOOLEAN : Hash(m, dummy)
    \/ Inject
    \/ \E ahead \in BOOLEAN : Sampled(ahead)
    \/ Rest
-----------------------------------------------------------------------------
(***************************************************************************)
(* Properties                                                              *)
(***************************************************************************)

\* The request of row i of the running step.
OwnerOf(i) ==
    LET on == {r \in Reqs : shown.plan[r].q > 0}
        n(r) == shown.plan[r].q + shown.plan[r].drafts
    IN CHOOSE r \in on :
          /\ MapThenSumSet(n, {s \in on : s < r}) < i
          /\ i <= MapThenSumSet(n, {s \in on : s <= r})

\* The text the model is fed: what was accepted before, and this step's tokens.
FedAt(r, p) ==
    IF p < request[r].comp THEN Texts[r][p + 1] ELSE Fed(r, shown.plan[r])[p - request[r].comp + 1]

\* The n-gram that ends at position p.
TrueGram(r, p) ==
    [shift \in 0..Depth |->
        IF \E s \in 0..shift : p - s < 0 \/ Compress(FedAt(r, p - s)) = DeadId THEN PadId
        ELSE Compress(FedAt(r, p - shift))]

\* A lookback that only a block of a connector could answer: the store was never written there.
Unwritten(r, p) ==
    /\ ~conf.v2
    /\ \E s \in 1..Depth :
          LET look == p - s
          IN /\ 0 <= look /\ look < request[r].comp
             /\ look >= PromptSize[r] \/ conf.dbo
             /\ request[r].table[look \div BlockSize + 1] \in loaded

\* The runner's count, ahead of the device's by rejected drafts, still reaches the prompt.
Drifted(r) ==
    ~conf.v2 /\ request[r].cpu # request[r].comp /\ request[r].cpu - Depth < PromptSize[r]

\* What rank t of replica d should add at its k-th row, which is the i-th of all.
RowIndex(t, k, n) == IF conf.sp /\ conf.tp > 1 THEN t * CeilDiv(n, conf.tp) + k ELSE k

\* Every rank adds, at every position of every request, the table rows of the n-gram that
\* really ends there, and nothing at image tokens: however the prompt was cut into steps,
\* whoever used the blocks before, whatever drafts were rejected and wherever the columns
\* of the table are.  A peer that has nothing to run takes part and adds nothing.
EngramRight ==
    /\ shown.at = "none" /\ kv = 0 => \A n \in (0..150) \ {61} : IsPrime(n) <=> n > 1 /\ \A d \in 2..(n - 1) : n % d # 0
    /\ shown.at = "grams" =>
        \A i \in 1..shown.batch.real :
            LET r == OwnerOf(i)
                p == shown.batch.pos[i]
            IN Unwritten(r, p) \/ Drifted(r) \/ shown.grams[i] = TrueGram(r, p)
    /\ shown.at = "rows" =>
        \A t \in 0..(conf.tp - 1), d \in 0..(conf.dp - 1) : \A k \in DOMAIN shown.rows[t][d] :
            LET n == Len(shown.ids[d])
                i == RowIndex(t, k, n)
                skip == IF d = 0 THEN shown.batch.ids[i] = ImageToken ELSE shown.dummy
            IN i <= n => shown.rows[t][d][k] = IF skip THEN <<>> ELSE shown.ids[d][i]
=============================================================================
