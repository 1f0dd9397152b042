----------------------------- MODULE ExpertServe -----------------------------
(***************************************************************************)
(* The routed experts of a rank whose weights WeightLoad has loaded: a     *)
(* batch is routed and every pair of a token and a routing slot must reach *)
(* its expert once.                                                        *)
(*                                                                         *)
(* On the CPU a call runs a pool of OpenMP threads through six loops over  *)
(* buffers that live on between calls: a cell holds the number of the call *)
(* that produced what is in it.  Packed experts (EXL3) are computed by     *)
(* launches over the pairs sorted by expert, in one of five ways that      *)
(* depend on the number of tokens and of rows of an expert.                *)
(*                                                                         *)
(* A batch is a sequence of rows [ids, pad]: the experts of a token, one   *)
(* per slot, and whether the row only pads the batch.                      *)
(***************************************************************************)
EXTENDS WeightLoad

CONSTANTS
    Serving,        \* configurations that go on to serve
    Batches,        \* batches a CPU layer may be given
    PackedBatches,  \* batches a packed layer may be given
    MaxCalls,       \* bound on the calls of a CPU layer
    Threads,        \* number of OpenMP threads
    Small,          \* 16: batches with static schedules
    Chunk,          \* 2: tasks a dynamic loop hands out at a time
    Blocks13,       \* row blocks of gate/up: I / 32
    Blocks2,        \* row blocks of down: H / 32
    MaxTokens,      \* max_num_batched_tokens
    CoopRows,       \* tokens the cooperative kernel takes
    TempRows,       \* temp_rows_fused: rows of an expert one launch can hold
    Tier1, Tier2    \* 16 and 32: rows of an expert in the small tiers

ASSUME ServeAssumption ==
    /\ MaxCalls \in Nat /\ Threads \in Nat \ {0} /\ Small \in Nat /\ Chunk \in Nat \ {0}
    /\ Blocks13 \in Nat \ {0} /\ Blocks2 \in Nat \ {0} /\ MaxTokens \in Nat \ {0}
    /\ CoopRows \in Nat /\ Tier1 \in Nat \ {0} /\ Tier1 < Tier2 /\ Tier2 <= TempRows
    /\ \A b \in Batches : Len(b) \in 1 .. MaxTokens

VARIABLES
    calls,      \* calls made to the CPU layer, the current one included
    batch,      \* the batch of the current call
    thr,        \* the loop a thread is in and the tasks it holds
    taken,      \* tasks handed out of the current dynamic loops
    xp, hp, yp, \* permuted inputs, activations, outputs: the call they are from
    out         \* what was added for each token: sets of [slot, from, expert, times]

poolVars == <<thr, taken, xp, hp, yp>>
serveVars == <<calls, batch, poolVars, out>>
allVars == <<vars, serveVars>>

Pool == 0 .. Threads - 1
Idle == [loop |-> 0, mine |-> {}]

-----------------------------------------------------------------------------
(***************************************************************************)
(* Experts on the CPU                                                      *)
(***************************************************************************)
\* Tasks and blocks are counted from zero; a pair is <<token, slot>>.
Tokens(b) == 0 .. Len(b) - 1
Slots(b)  == DOMAIN b[1].ids

\* _cpu_forward_impl: rows that pad a graph's batch are routed nowhere.
Masked(b) == [t \in Tokens(b) |-> IF b[t + 1].pad THEN [k \in Slots(b) |-> None] ELSE b[t + 1].ids]

\* The pairs routed to an expert (tok_of_e between e_start[e] and e_start[e + 1]).
PairsOf(b, e) == {i \in Tokens(b) \X Slots(b) : Masked(b)[i[1]][i[2]] = e}

Active(b) == SelectSeq([e \in 1 .. NumExperts |-> e - 1], LAMBDA e : PairsOf(b, e) # {})

\* The six loops of cpu_moe_forward: inputs; gate and up for large batches, for
\* small ones; down for large, for small; the combination.
NumTasks(b, k) ==
    LET n13 == Len(Active(b)) * Blocks13
        n2  == Len(Active(b)) * Blocks2
    IN  CASE k \in {1, 6} -> Len(b)
          [] k = 2 -> IF Len(b) <= Small THEN 0 ELSE n13
          [] k = 3 -> IF Len(b) <= Small THEN n13 ELSE 0
          [] k = 4 -> IF Len(b) <= Small THEN 0 ELSE n2
          [] k = 5 -> IF Len(b) <= Small THEN n2 ELSE 0

Dynamic(k) == k \in {2, 4}

\* Fault: the empty loop behind the gate/up loop does not wait either.
BarrierLess(k) == k \notin {2, 3, 4}

\* Loops without nowait end in a barrier, also when they have no iterations.
Barrier(k) == k \notin {2, 4}

\* schedule(static): contiguous runs, the first threads one longer.
StaticTasks(b, k, i) ==
    LET n == NumTasks(b, k)
        q == n \div Threads
        r == n % Threads
        first == i * q + (IF i < r THEN i ELSE r)
    IN  {j \in 0 .. n - 1 : first <= j /\ j < first + q + (IF i < r THEN 1 ELSE 0)}

Enter(b, k, i) == [loop |-> k, mine |-> IF Dynamic(k) \/ k > 6 THEN {} ELSE StaticTasks(b, k, i)]

\* _buffers and warmup: pinned buffers for every power of two up to twice the
\* largest batch exist before a graph is captured.
Cap(m) == CHOOSE c \in {2^j : j \in 0 .. m} : c >= m /\ \A d \in {2^j : j \in 0 .. m} : d >= m => c <= d
Warm == {c \in {2^j : j \in 0 .. MaxTokens + 1} : c <= 2 * MaxTokens}

Starts == conf \in Serving /\ pc \in {"ready", "serve"}

\* NativeCpuMoe.forward: inputs are copied to the pinned buffers of the batch's
\* size and the host function is launched on the stream.
Submit ==
    /\ Starts /\ conf.cpu # {} /\ calls < MaxCalls
    /\ thr = [i \in Pool |-> Idle]
    /\ \E b \in Batches :
        /\ pc' = IF Cap(Len(b)) \in Warm THEN "serve" ELSE "failed"
        /\ batch' = b
        /\ thr' = [i \in Pool |-> Enter(b, 1, i)]
    /\ calls' = calls + 1
    /\ taken' = [k \in {2, 4} |-> 0]
    /\ out' = [t \in Tokens(batch') |-> {}]
    /\ UNCHANGED <<conf, left, mem, cpuMem, xp, hp, yp>>

\* A thread of a dynamic loop takes its next tasks.
Take(i) ==
    LET k == thr[i].loop IN
    /\ k \in {2, 4} /\ thr[i].mine = {} /\ taken[k] < NumTasks(batch, k)
    /\ LET end == IF taken[k] + Chunk < NumTasks(batch, k) THEN taken[k] + Chunk ELSE NumTasks(batch, k)
       IN  /\ thr' = [thr EXCEPT ![i].mine = taken[k] .. end - 1]
           /\ taken' = [taken EXCEPT ![k] = end]
    /\ UNCHANGED <<vars, calls, batch, xp, hp, yp, out>>

\* Also the oldest call among the cells a task reads.
Lowest(s) == CHOOSE j \in s : \A o \in s : j <= o

\* gateup_task: one block of rows for all pairs of an expert.
GateUp(j) ==
    LET e == Active(batch)[j \div Blocks13 + 1] IN
    hp' = [c \in DOMAIN hp |->
             IF <<c[1], c[2]>> \in PairsOf(batch, e) /\ c[3] = j % Blocks13
             THEN xp[c[1]] ELSE hp[c]]

\* down_task: reads every block of the pair's activations.
Down(j) ==
    LET e == Active(batch)[j \div Blocks2 + 1] IN
    yp' = [c \in DOMAIN yp |->
             IF <<c[1], c[2]>> \in PairsOf(batch, e) /\ c[3] = j % Blocks2
             THEN Lowest({hp[<<c[1], c[2], r>>] : r \in 0 .. Blocks13 - 1}) ELSE yp[c]]

\* The weighted combination of a token: pairs with an expert, each once.
Combine(t) ==
    out' = [out EXCEPT ![t] =
             {[slot |-> k, expert |-> Masked(batch)[t][k], times |-> 1,
               from |-> Lowest({yp[<<t, k, r>>] : r \in 0 .. Blocks2 - 1})]
              : k \in {s \in Slots(batch) : Masked(batch)[t][s] \in 0 .. NumExperts - 1}}]

\* A thread runs its next task.
Run(i) ==
    /\ thr[i].mine # {}
    /\ LET j == Lowest(thr[i].mine)
           k == thr[i].loop
       IN  /\ thr' = [thr EXCEPT ![i].mine = @ \ {j}]
           /\ \/ k = 1 /\ xp' = [xp EXCEPT ![j] = calls] /\ UNCHANGED <<hp, yp, out>>
              \/ k \in {2, 3} /\ GateUp(j) /\ UNCHANGED <<xp, yp, out>>
              \/ k \in {4, 5} /\ Down(j) /\ UNCHANGED <<xp, hp, out>>
              \/ k = 6 /\ Combine(j) /\ UNCHANGED <<xp, hp, yp>>
    /\ UNCHANGED <<vars, calls, batch, taken>>

Finished(i, k) == thr[i].loop > k \/ (thr[i].loop = k /\ thr[i].mine = {})

\* A thread leaves a loop, after a barrier where there is one.
Advance(i) ==
    LET k == thr[i].loop IN
    /\ k \in 1 .. 6 /\ thr[i].mine = {}
    /\ Dynamic(k) => taken[k] >= NumTasks(batch, k)
    /\ Barrier(k) => \A o \in Pool : Finished(o, k)
    /\ thr' = [thr EXCEPT ![i] = Enter(batch, k + 1, i)]
    /\ UNCHANGED <<vars, calls, batch, taken, xp, hp, yp, out>>

\* The parallel region ends and the result is copied to the device.
Return ==
    /\ \A i \in Pool : thr[i].loop = 7
    /\ thr' = [i \in Pool |-> Idle]
    /\ UNCHANGED <<vars, calls, batch, taken, xp, hp, yp, out>>

-----------------------------------------------------------------------------
(***************************************************************************)
(* Packed experts                                                          *)
(***************************************************************************)
\* The pairs in the order of apply_exl3_fused_moe: by expert, invalid ones last.
Bucket(b, i) == LET e == b[i[1] + 1].ids[i[2]] IN IF e \in 0 .. NumExperts - 1 THEN e ELSE NumExperts

Precedes(b, p, q) ==
    \/ Bucket(b, p) < Bucket(b, q)
    \/ Bucket(b, p) = Bucket(b, q) /\ (p[1] < q[1] \/ (p[1] = q[1] /\ p[2] < q[2]))

Sorted(b) ==
    LET pairs == Tokens(b) \X Slots(b) IN
    [n \in 1 .. Cardinality(pairs) |->
        CHOOSE p \in pairs : Cardinality({q \in pairs : Precedes(b, q, p)}) = n - 1]

Count(b, e) == Cardinality({i \in Tokens(b) \X Slots(b) : b[i[1] + 1].ids[i[2]] = e})
Counts(b) == [e \in 0 .. NumExperts - 1 |-> Count(b, e)]

Before(counts, e) == FoldSet(LAMBDA d, s : s + counts[d], 0, 0 .. e - 1)
Total(counts) == Before(counts, NumExperts)

\* One exl3_moe launch (external): the experts whose count is between lo and hi
\* each compute their run of the sequence.
Launch(seq, counts, lo, hi) ==
    UNION {{[pair |-> seq[Before(counts, e) + r], expert |-> e, rows |-> counts[e]] : r \in 1 .. counts[e]}
           : e \in {d \in DOMAIN counts : lo <= counts[d] /\ counts[d] <= hi}}

\* _exl3_moe_row_tiles: one launch for every slice of TempRows rows.
TileCounts(counts, t) ==
    [e \in DOMAIN counts |-> LET over == counts[e] - t * TempRows
                             IN  IF over < 0 THEN 0 ELSE IF over > TempRows THEN TempRows ELSE over]

ExpertAt(tile, idx) ==
    CHOOSE e \in DOMAIN tile : Before(tile, e) <= idx /\ idx < Before(tile, e + 1)

TileSeq(seq, counts, t) ==
    LET tile == TileCounts(counts, t) IN
    [n \in 1 .. Total(tile) |->
        LET e == ExpertAt(tile, n - 1)
        IN  seq[Before(counts, e) + t * TempRows + (n - 1 - Before(tile, e)) + 1]]

MaxRows(counts) == CHOOSE m \in Range(counts) : \A o \in Range(counts) : o <= m

\* Each way yields a sequence of sets: what every launch computed.
RowTiles(b) ==
    LET counts == Counts(b)
        seq == Sorted(b)
    IN
    [i \in 1 .. Cdiv(MaxRows(counts), TempRows) |->
        Launch(TileSeq(seq, counts, i - 1), TileCounts(counts, i - 1), 1, TempRows)]

\* apply_exl3_python_loop, for the experts in only.
PythonLoop(b, only) ==
    <<UNION {{[pair |-> i, expert |-> e, rows |-> 0] : i \in {j \in Tokens(b) \X Slots(b) : b[j[1] + 1].ids[j[2]] = e}}
             : e \in only}>>

\* _exl3_prefill_tiered: experts by their number of rows, the largest one by one.
Tiered(b) ==
    LET counts == Counts(b)
        seq == Sorted(b)
    IN
    <<Launch(seq, counts, 1, Tier1), Launch(seq, counts, Tier1 + 1, Tier2),
      Launch(seq, counts, Tier2 + 1, TempRows)>>
    \o PythonLoop(b, {e \in DOMAIN counts : counts[e] > TempRows})

\* apply_exl3_coop_moe (external kernel): every valid pair.
Coop(b) == PythonLoop(b, 0 .. NumExperts - 1)

\* apply_exl3_experts and apply_exl3_fused_moe.
Fused(b, coop, tiers) ==
    IF coop /\ Len(b) <= CoopRows THEN Coop(b)
    ELSE IF Len(b) <= TempRows THEN <<Launch(Sorted(b), Counts(b), 1, TempRows)>>
    ELSE IF tiers THEN Tiered(b)
    ELSE IF MaxRows(Counts(b)) <= TempRows THEN <<Launch(Sorted(b), Counts(b), 1, TempRows)>>
    ELSE RowTiles(b)

\* The checkpoint's expert in a slot of the rank's parameters.
HeldExpert(l, e) == {m.from.n : m \in {x \in mem : /\ x.slot.at = "layers" /\ x.slot.l = l
                                                   /\ x.slot.mod = "experts.w13" /\ x.slot.n = e}}

\* A packed layer runs a batch; what each launch adds to a token is summed.
ApplyPacked ==
    /\ Starts /\ conf.cpu = {} /\ conf.pack \in {"exl3", "hybrid"} /\ calls = 0
    /\ \E b \in PackedBatches, fused, coop, tiers \in BOOLEAN :
        LET parts == IF fused THEN Fused(b, coop, tiers) ELSE PythonLoop(b, 0 .. NumExperts - 1) IN
        /\ batch' = b
        /\ out' = [t \in Tokens(b) |->
              {[slot |-> k, from |-> 1,
                expert |-> UNION {{n : n \in HeldExpert(conf.start, c.expert)}
                                  : c \in UNION {{d \in parts[i] : d.pair = <<t, k>>} : i \in DOMAIN parts}},
                times |-> FoldSet(LAMBDA i, s : s + Cardinality({d \in parts[i] : d.pair = <<t, k>>}),
                                  0, DOMAIN parts)]
               : k \in Slots(b)}]
    /\ pc' = "serve" /\ calls' = 1
    /\ UNCHANGED <<conf, left, mem, cpuMem, poolVars>>

-----------------------------------------------------------------------------
Cells(blocks) == (0 .. MaxTokens - 1) \X (1 .. 2) \X (0 .. blocks - 1)

ServeInit ==
    /\ Init
    /\ calls = 0 /\ batch = <<>> /\ out = <<>>
    /\ thr = [i \in Pool |-> Idle]
    /\ taken = [k \in {2, 4} |-> 0]
    /\ xp = [t \in 0 .. MaxTokens - 1 |-> 0]
    /\ hp = [c \in Cells(Blocks13) |-> 0]
    /\ yp = [c \in Cells(Blocks2) |-> 0]

ServeNext ==
    \/ Next /\ UNCHANGED serveVars
    \/ Submit
    \/ \E i \in Pool : Take(i) \/ Run(i) \/ Advance(i)
    \/ Return
    \/ ApplyPacked
    \/ pc = "serve" /\ thr = [i \in Pool |-> Idle] /\ UNCHANGED allVars

ServeSpec == ServeInit /\ [][ServeNext]_allVars

-----------------------------------------------------------------------------
(***************************************************************************)
(* Properties                                                              *)
(***************************************************************************)
\* A call that has returned added, for each token, exactly one product per slot
\* that names an expert, of that expert and of this call's activations, whatever
\* the threads did, whichever kernels ran and however often the buffers had been
\* used before; padding rows of a CPU layer get nothing, and the weights the CPU
\* used were read from the files.
ExpertsOnce ==
    pc = "serve" /\ (\A i \in Pool : thr[i] = Idle) =>
        \A t \in Tokens(batch) :
            IF conf.cpu # {}
            THEN /\ out[t] = {[slot |-> k, expert |-> batch[t + 1].ids[k], times |-> 1, from |-> calls]
                              : k \in {s \in Slots(batch) : ~batch[t + 1].pad /\ batch[t + 1].ids[s] # None}}
                 /\ \A a \in out[t] : \E w \in cpuMem : w.name.n = a.expert /\ w.name.l \in Local(conf)
            ELSE \A a \in out[t] :
                    LET e == batch[t + 1].ids[a.slot] IN
                    IF e \in 0 .. NumExperts - 1 THEN a.times = 1 /\ a.expert = {e}
                    ELSE a.times = 0
=============================================================================
