--------------------------- MODULE GraphDispatch ---------------------------
(***************************************************************************)
(* The CUDA graphs of a worker: which batch shapes are captured, what the  *)
(* dummy run that captures a shape looks like, and which graph, if any, a  *)
(* step of the engine is replayed in.                                      *)
(*                                                                         *)
(* A configuration c has                                                   *)
(*   k             num_speculative_tokens                                  *)
(*   seqs          max_num_seqs                                            *)
(*   sizes         cudagraph_capture_sizes (a set)                         *)
(*   mode          cudagraph_mode                                          *)
(*   q1            DSV41_FULL_Q1                                           *)
(*   eagerPrefill  DSV41_PREFILL_EAGER                                     *)
(*   loras         max_loras (0 without LoRA), loraCases                   *)
(*                 (cudagraph_specialize_lora), loraCounts                 *)
(*                 (specialize_active_lora)                                *)
(***************************************************************************)
EXTENDS Naturals, FiniteSets, FiniteSetsExt, Folds

\* num_reqs = None in a descriptor: a piecewise graph does not fix the number of requests.
AnyReqs == 0

Modes == {"FULL", "PIECEWISE", "NONE"}

QueryLen(c) == c.k + 1
HasFull(c) == c.mode \in {"FULL", "FULL_DECODE_ONLY", "FULL_AND_PIECEWISE"}
SeparateRoutine(c) == c.mode \in {"FULL_DECODE_ONLY", "FULL_AND_PIECEWISE"}
MixedMode(c) ==
    CASE c.mode = "FULL_AND_PIECEWISE" -> "PIECEWISE"
      [] c.mode = "FULL_DECODE_ONLY" -> "NONE"
      [] OTHER -> c.mode

PowerOfTwo(n) == \E e \in 0..n : n = 2^e

CapturedLoras(c) ==
    {n \in 1..(c.loras + 1) : n = c.loras + 1 \/ (c.loraCounts /\ PowerOfTwo(n))}

LoraCases(c) ==
    CASE c.loras = 0 -> {0}
      [] c.loras > 0 /\ c.loraCases -> {0} \cup CapturedLoras(c)
      [] OTHER -> {c.loras + 1}

\* _bs_to_padded_graph_size
PaddedSize(c, n) == Min({s \in c.sizes : s >= n})

Descriptor(c, n, uniform, loras, q) ==
    LET padded == PaddedSize(c, n)
        fitting == {s \in c.sizes : s >= n /\ s % q = 0}
        full == uniform /\ HasFull(c) /\ (padded % q = 0 \/ fitting # {})
        tokens == IF full /\ padded % q # 0 THEN Min(fitting) ELSE padded
    IN [tokens |-> tokens, reqs |-> Min({IF full THEN tokens \div q ELSE tokens, c.seqs}),
        uniform |-> full, loras |-> loras]

Relaxed(d) == [d EXCEPT !.reqs = AnyReqs, !.uniform = FALSE]

\* The sizes captured for steps in which every request has q tokens.
FamilySizes(c, q) ==
    IF q = QueryLen(c) THEN {s \in c.sizes : s <= q * c.seqs /\ s >= q /\ s % q = 0}
    ELSE {s \in c.sizes : s % q = 0 /\ s \div q <= c.seqs}

\* Every query length up to K+1 has a family of graphs.
Families(c) == IF c.q1 THEN 1..QueryLen(c) ELSE {QueryLen(c)}

MixedKeys(c) == {Descriptor(c, s, FALSE, l, QueryLen(c)) : s \in c.sizes, l \in LoraCases(c)}

FullKeys(c) ==
    (IF MixedMode(c) = "FULL" THEN MixedKeys(c) ELSE {})
    \cup (IF SeparateRoutine(c)
          THEN UNION {{Descriptor(c, s, TRUE, l, q) : s \in FamilySizes(c, q), l \in LoraCases(c)} : q \in Families(c)}
          ELSE {})

PiecewiseKeys(c) == IF MixedMode(c) = "PIECEWISE" THEN {Relaxed(d) : d \in MixedKeys(c)} ELSE {}

\* get_capture_descs
CaptureDescs(c) == ({"FULL"} \X FullKeys(c)) \cup ({"PIECEWISE"} \X PiecewiseKeys(c))

EffectiveLoras(c, loras) ==
    CASE loras = 0 -> 0
      [] loras > 0 /\ c.loraCounts ->
            LET above == {n \in LoraCases(c) : n >= loras} IN IF above = {} THEN loras ELSE Min(above)
      [] OTHER -> c.loras + 1

Eager(n) == <<"NONE", [tokens |-> n, reqs |-> AnyReqs, uniform |-> FALSE, loras |-> 0]>>

\* CudagraphDispatcher.dispatch
Dispatch(c, n, uniform, loras, q, allowed) ==
    IF c.mode = "NONE" \/ n > Max(c.sizes) \/ allowed \subseteq {"NONE"}
    THEN Eager(n)
    ELSE LET u == uniform /\ SeparateRoutine(c)
             d == Descriptor(c, n, u, EffectiveLoras(c, loras), IF u THEN q ELSE QueryLen(c))
         IN CASE "FULL" \in allowed /\ d \in FullKeys(c) -> <<"FULL", d>>
              [] OTHER -> IF "PIECEWISE" \in allowed /\ Relaxed(d) \in PiecewiseKeys(c)
                          THEN <<"PIECEWISE", Relaxed(d)>> ELSE Eager(n)

IsUniformDecode(c, maxq, n, reqs) ==
    /\ n = maxq * reqs
    /\ maxq = QueryLen(c) \/ (maxq < QueryLen(c) /\ c.q1)

\* _determine_batch_execution_and_padding for a step of the engine (one data-parallel rank)
Execution(c, n, reqs, maxq, loras) ==
    LET d == Dispatch(c, n, IsUniformDecode(c, maxq, n, reqs), loras, maxq, Modes)
    IN IF d[1] = "PIECEWISE" /\ c.eagerPrefill /\ maxq > QueryLen(c) THEN Eager(n) ELSE d

\* _warmup_and_capture: the query length and the requests of the dummy batch of a descriptor
DummyQueryLen(c, d) == IF d.uniform THEN d.tokens \div d.reqs ELSE d.tokens
DummyReqs(c, d) ==
    IF d.uniform THEN Min({c.seqs, (d.tokens + DummyQueryLen(c, d) - 1) \div DummyQueryLen(c, d)})
    ELSE Min({d.tokens, c.seqs})

\* _dummy_run's num_scheduled_tokens_list
DummyBatch(c, d) ==
    LET reqs == DummyReqs(c, d)
        q == IF d.uniform THEN DummyQueryLen(c, d) ELSE d.tokens \div reqs
        rest == d.tokens % (IF d.uniform THEN q ELSE reqs)
    IN [i \in 1..reqs |-> IF i < reqs \/ rest = 0 THEN q ELSE IF d.uniform THEN rest ELSE q + rest]

DummyExecution(c, d) == Dispatch(c, d.tokens, d.uniform, d.loras, DummyQueryLen(c, d), Modes)

\* The graph of a key computes, for each of its requests, this many rows.
GraphQueryLen(d) == d.tokens \div d.reqs
=============================================================================
