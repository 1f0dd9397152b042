--------------------------- MODULE PPEngineProofs ---------------------------
(***************************************************************************)
(* Theorems about PPEngine, for any number of requests, ranks, drafts,     *)
(* blocks and tokens: what the scheduler issues, what the ranks before the *)
(* last one compute on, the refinement of Generation, and the scheduler's  *)
(* queues and its counts of what is in flight: every live request is       *)
(* queued exactly once, the output that a preemption marked as stale is    *)
(* that of the oldest batches, and the blocks of the cache are neither     *)
(* lost nor handed out twice.                                              *)
(***************************************************************************)
EXTENDS PPEngine, SequenceTheorems, WellFoundedInduction, FiniteSetTheorems, TLAPS

-----------------------------------------------------------------------------
(***************************************************************************)
(* Numbers and sequences                                                   *)
(***************************************************************************)
\* A non-empty set of numbers has a least one.  The proofs below that go by
\* induction over a sequence look at the least position at which they fail.
LEMMA NatMin ==
    ASSUME NEW T \in SUBSET Nat, T # {}
    PROVE  \E x \in T : \A y \in T : x <= y
<1> DEFINE R == {p \in Nat \X Nat : p[1] < p[2]}
<1>1. IsWellFoundedOn(R, Nat)
  BY NatLessThanWellFounded DEF OpToRel
<1>2. PICK x \in T : \A y \in T : ~ (<<y, x>> \in R)
  BY <1>1, WFMin
<1>3. \A y \in T : ~(y < x)
  <2> TAKE y \in T
  <2>1. <<y, x>> \in Nat \X Nat
    OBVIOUS
  <2> QED
    BY <2>1, <1>2
<1>4. \A y \in T : x <= y
  BY <1>3
<1> QED
  BY <1>4

LEMMA MinMax ==
    ASSUME NEW a \in Int, NEW b \in Int
    PROVE  /\ Min(a, b) \in Int /\ Min(a, b) <= a /\ Min(a, b) <= b
           /\ Min(a, b) \in {a, b}
           /\ Max(a, b) \in Int /\ Max(a, b) >= a /\ Max(a, b) >= b
           /\ Max(a, b) \in {a, b}
BY DEF Min, Max

LEMMA SubSeqType ==
    ASSUME NEW S, NEW s \in Seq(S), NEW m \in Int, NEW n \in Int,
           1 <= m, n <= Len(s)
    PROVE  /\ SubSeq(s, m, n) \in Seq(S)
           /\ Len(SubSeq(s, m, n)) = IF m <= n THEN n - m + 1 ELSE 0
           /\ \A i \in 1..(n - m + 1) : SubSeq(s, m, n)[i] = s[m + i - 1]
OBVIOUS

\* Appending to a sequence leaves its subsequences alone.
LEMMA SubSeqConcat ==
    ASSUME NEW S, NEW s \in Seq(S), NEW t \in Seq(S), NEW m \in Int, NEW n \in Int,
           1 <= m, n <= Len(s)
    PROVE  SubSeq(s \o t, m, n) = SubSeq(s, m, n)
<1>1. s \o t \in Seq(S) /\ Len(s \o t) = Len(s) + Len(t)
  OBVIOUS
<1>2. \A i \in 1..Len(s) : (s \o t)[i] = s[i]
  OBVIOUS
<1>3. /\ SubSeq(s \o t, m, n) \in Seq(S)
      /\ Len(SubSeq(s \o t, m, n)) = Len(SubSeq(s, m, n))
      /\ SubSeq(s, m, n) \in Seq(S)
  BY <1>1, SubSeqType
<1>4. ASSUME NEW i \in 1..Len(SubSeq(s, m, n))
      PROVE  SubSeq(s \o t, m, n)[i] = SubSeq(s, m, n)[i]
  BY <1>1, <1>2, <1>4, SubSeqType
<1> QED
  BY <1>3, <1>4, SeqEqual

\* One step of the recursion that defines Without.
WithoutStep(s, S, g, i) ==
    IF i = 0 THEN <<>>
    ELSE IF s[i] \in S THEN g[i-1]
    ELSE Append(g[i-1], s[i])

LEMMA WithoutExists ==
    ASSUME NEW s, NEW S, NEW n \in Nat
    PROVE  \E g : g = [i \in 0..n |-> WithoutStep(s, S, g, i)]
<1> DEFINE P(m) == \E g : g = [i \in 0..m |-> WithoutStep(s, S, g, i)]
           T == {m \in Nat : ~P(m)}
<1>1. P(0)
  <2> DEFINE g == [i \in 0..0 |-> <<>>]
  <2>1. g = [i \in 0..0 |-> WithoutStep(s, S, g, i)]
    BY DEF WithoutStep
  <2> QED
    BY <2>1
<1>2. ASSUME NEW m \in Nat, P(m) PROVE P(m + 1)
  <2>1. PICK g : g = [i \in 0..m |-> WithoutStep(s, S, g, i)]
    BY <1>2
  <2> DEFINE h == [i \in 0..(m+1) |->
                      IF i = m + 1 THEN WithoutStep(s, S, g, i) ELSE g[i]]
  <2>2. \A i \in 0..m : h[i] = g[i]
    OBVIOUS
  <2>3. ASSUME NEW i \in 0..(m+1) PROVE h[i] = WithoutStep(s, S, h, i)
    <3>1. CASE i = 0
      BY <2>1, <3>1 DEF WithoutStep
    <3>2. CASE i # 0
      <4>1. i - 1 \in 0..m /\ h[i-1] = g[i-1]
        BY <2>2, <3>2
      <4>2. h[i] = WithoutStep(s, S, g, i)
        BY <2>1
      <4> QED
        BY <4>1, <4>2, <3>2 DEF WithoutStep
    <3> QED
      BY <3>1, <3>2
  <2>4. h = [i \in 0..(m+1) |-> WithoutStep(s, S, h, i)]
    BY <2>3
  <2> QED
    BY <2>4
<1>3. T = {}
  <2> SUFFICES ASSUME T # {} PROVE FALSE
    OBVIOUS
  <2>1. PICK m \in T : \A y \in T : m <= y
    BY NatMin
  <2>2. m # 0
    BY <1>1, <2>1
  <2>3. m - 1 \in Nat /\ m - 1 \notin T
    BY <2>1, <2>2
  <2> QED
    BY <1>2, <2>1, <2>3
<1> QED
  BY <1>3

\* What is left of a queue are members of the queue outside the set, and none of
\* them more often than before.
Distinct(s) == \A i, j \in DOMAIN s : s[i] = s[j] => i = j

LEMMA WithoutType ==
    ASSUME NEW A, NEW s \in Seq(A), NEW S
    PROVE  /\ Without(s, S) \in Seq(A)
           /\ \A i \in DOMAIN Without(s, S) :
                 Without(s, S)[i] \in SeqSet(s) \ S
           /\ Distinct(s) => Distinct(Without(s, S))
<1>1. PICK g : /\ g = [i \in 0..Len(s) |-> WithoutStep(s, S, g, i)]
               /\ Without(s, S) = g[Len(s)]
  <2>0. Len(s) \in Nat
    OBVIOUS
  <2>1. \E h : h = [i \in 0..Len(s) |-> WithoutStep(s, S, h, i)]
    BY <2>0, WithoutExists, Zenon
  <2> DEFINE g == CHOOSE h : h = [i \in 0..Len(s) |-> WithoutStep(s, S, h, i)]
  <2>2. g = [i \in 0..Len(s) |-> WithoutStep(s, S, g, i)]
    BY <2>1
  <2>3. Without(s, S) = g[Len(s)]
    BY DEF Without, WithoutStep
  <2> QED
    BY <2>2, <2>3
<1> DEFINE P(i) == /\ g[i] \in Seq(A)
                   /\ \A a \in 1..Len(g[i]) :
                        g[i][a] \notin S /\ \E b \in 1..i : g[i][a] = s[b]
                   /\ Distinct(s) => Distinct(g[i])
           T == {i \in 0..Len(s) : ~P(i)}
<1>2. P(0)
  BY <1>1 DEF WithoutStep, Distinct
<1>3. ASSUME NEW i \in 1..Len(s), P(i-1) PROVE P(i)
  <2>1. g[i] = WithoutStep(s, S, g, i) /\ i - 1 \in Nat
    BY <1>1
  <2>2. CASE s[i] \in S
    BY <1>3, <2>1, <2>2 DEF WithoutStep
  <2>3. CASE s[i] \notin S
    <3>1. g[i] = Append(g[i-1], s[i])
      BY <2>1, <2>3 DEF WithoutStep
    <3>2. /\ g[i] \in Seq(A) /\ Len(g[i]) = Len(g[i-1]) + 1
          /\ g[i][Len(g[i])] = s[i]
          /\ \A a \in 1..Len(g[i-1]) : g[i][a] = g[i-1][a]
      BY <1>3, <3>1
    <3>3. ASSUME NEW a \in 1..Len(g[i])
          PROVE  g[i][a] \notin S /\ \E b \in 1..i : g[i][a] = s[b]
      <4>1. CASE a = Len(g[i])
        BY <2>3, <3>2, <4>1
      <4>2. CASE a \in 1..Len(g[i-1])
        <5>1. PICK b \in 1..(i-1) : g[i-1][a] = s[b]
          BY <1>3, <4>2
        <5>2. b \in 1..i /\ g[i][a] = s[b] /\ g[i-1][a] \notin S
          BY <1>3, <3>2, <4>2, <5>1
        <5> QED
          BY <3>2, <4>2, <5>2
      <4>3. Len(g[i-1]) \in Nat
        BY <1>3
      <4> QED
        BY <3>2, <4>1, <4>2, <4>3
    <3>4. ASSUME Distinct(s) PROVE Distinct(g[i])
      <4>1. SUFFICES ASSUME NEW a \in 1..Len(g[i]), NEW b \in 1..Len(g[i]),
                            g[i][a] = g[i][b], a < b
                     PROVE  FALSE
        <5>1. DOMAIN g[i] = 1..Len(g[i])
          BY <3>2
        <5> QED
          BY <5>1, <3>2 DEF Distinct
      <4>2. CASE b <= Len(g[i-1])
        <5>1. DOMAIN g[i-1] = 1..Len(g[i-1]) /\ Distinct(g[i-1])
          BY <1>3, <3>4
        <5>2. a \in 1..Len(g[i-1]) /\ b \in 1..Len(g[i-1])
          BY <3>2, <4>1, <4>2
        <5>3. g[i-1][a] = g[i-1][b]
          BY <3>2, <4>1, <5>2
        <5>4. a = b
          BY <5>1, <5>2, <5>3 DEF Distinct
        <5> QED
          BY <4>1, <5>4
      <4>3. CASE b = Len(g[i])
        <5>1. g[i][a] = s[i] /\ a \in 1..Len(g[i-1])
          BY <3>2, <4>1, <4>3
        <5>2. PICK c \in 1..(i-1) : g[i][a] = s[c]
          BY <1>3, <3>2, <5>1
        <5> QED
          <6>1. DOMAIN s = 1..Len(s) /\ c \in 1..Len(s) /\ c # i /\ i \in 1..Len(s)
            BY <5>2
          <6> QED
            BY <3>4, <5>1, <5>2, <6>1 DEF Distinct
      <4> QED
        BY <3>2, <4>1, <4>2, <4>3
    <3> QED
      BY <3>2, <3>3, <3>4
  <2> QED
    BY <2>2, <2>3
<1>4. T = {}
  <2> SUFFICES ASSUME T # {} PROVE FALSE
    OBVIOUS
  <2> HIDE DEF P
  <2>0. T \in SUBSET Nat
    OBVIOUS
  <2>1. PICK i \in T : \A y \in T : i <= y
    BY <2>0, NatMin
  <2>2. i # 0
    BY <1>2, <2>1
  <2>3. i \in 1..Len(s) /\ i - 1 \in 0..Len(s)
    BY <2>1, <2>2
  <2>4. i - 1 \notin T
    BY <2>1, <2>3
  <2> QED
    BY <1>3, <2>1, <2>3, <2>4
<1>5. P(Len(s))
  BY <1>4
<1> QED
  BY <1>1, <1>5 DEF SeqSet
-----------------------------------------------------------------------------
(***************************************************************************)
(* Types.  The engine thread waits for a result, and processes one, only   *)
(* while a batch is in its queue.                                          *)
(***************************************************************************)
DraftSet == UNION {[S -> [n : 0..NumSpec, base : Nat]] : S \in SUBSET Req}

\* The fields that freeing a request changes.
RequestTypes ==
    /\ status \in [Req -> {"unknown", "waiting", "running", "preempted",
                           "finished"}]
    /\ sent \in [Req -> Nat]
    /\ dropStale \in [Req -> BOOLEAN]
    /\ spec \in [Req -> 0..NumSpec]
    /\ chunk \in [Req -> BOOLEAN]
    /\ finishedIds \subseteq Req
    /\ waiting \in Seq(Req) /\ skipped \in Seq(Req) /\ running \in Seq(Req)

\* The numbers and the output of the requests.
CounterTypes ==
    /\ out \in [Req -> Seq(Token)]
    /\ computed \in [Req -> Int]
    /\ inFlight \in [Req -> Int]
    /\ stale \in [Req -> Int]

EngineTypes ==
    /\ pc \in {"top", "running", "waiting", "issue", "pop", "update", "draft"}
    /\ cur \in Call
    /\ queue \in Seq(Batch)
    /\ draftFuts \in Seq(DraftSet)
    /\ results \in Seq([Req -> Seq(Token)])
    /\ pc \in {"pop", "update"} => queue # <<>>
    /\ pc = "update" => results # <<>>

RankTypes ==
    /\ rpc \in [Rank -> Seq(Messages)]
    /\ known \in [Rank -> SUBSET Req]
    /\ inBatch \in [Rank -> SUBSET Req]
    /\ hist \in [Rank -> [Req -> Seq(Token)]]
    /\ proposed \in DraftSet

TypeInv == RequestTypes /\ CounterTypes /\ EngineTypes /\ RankTypes

\* The constants as the provers read them best.
LEMMA ConstantTypes ==
    /\ PP \in Nat /\ PP > 1 /\ NumSpec \in Nat
    /\ MaxModelLen \in Nat /\ MaxBatched \in Nat /\ MaxBatched > 0
    /\ \A r \in Req : Prompt[r] \in Nat /\ Prompt[r] > 0
                      /\ Prompt[r] < MaxModelLen
BY ConstantsAssumption, CapacityAssumption

LEMMA ConstantSched ==
    NoEntry \in Entry /\ EmptySched \in Sched /\ NoCall \in Call /\ NoBatch \in Batch
<1>1. NoEntry \in Entry
  BY DEF NoEntry, Planned, Entry
<1>2. EmptySched \in Sched
  BY <1>1 DEF EmptySched, Sched
<1>3. NoCall \in Call
  BY <1>2 DEF NoCall, Call
<1>4. NoBatch \in Batch
  BY <1>2 DEF NoBatch, Batch
<1> QED
  BY <1>1, <1>2, <1>3, <1>4

LEMMA PlannedType ==
    ASSUME NEW kind \in {"new", "resumed", "cached"}, NEW start \in Int,
           NEW n \in Int, NEW k \in Nat
    PROVE  /\ Planned(kind, start, n, k) \in Entry
           /\ Planned(kind, start, n, k).kind = kind
           /\ Planned(kind, start, n, k).start = start
           /\ Planned(kind, start, n, k).n = n
           /\ Planned(kind, start, n, k).k = k
BY DEF Planned, Entry

LEMMA TypeInit == Init => TypeInv
<1> SUFFICES ASSUME Init PROVE TypeInv
  OBVIOUS
<1>1. proposed \in DraftSet
  <2>1. proposed \in [{} -> [n : 0..NumSpec, base : Nat]] /\ {} \in SUBSET Req
    BY DEF Init
  <2> QED
    BY <2>1 DEF DraftSet
<1> QED
  BY <1>1, ConstantTypes, ConstantSched DEF Init, TypeInv, RequestTypes, CounterTypes, EngineTypes, RankTypes

\* A step that leaves the ranks alone.
LEMMA SameRanks ==
    ASSUME TypeInv, UNCHANGED <<rpc, rankVars>> PROVE RankTypes'
BY DEF TypeInv, RankTypes, rankVars

LEMMA SameRequests ==
    ASSUME TypeInv, UNCHANGED <<status, sent, dropStale, spec, chunk, finishedIds,
                                waiting, skipped, running>>
    PROVE  RequestTypes'
BY DEF TypeInv, RequestTypes

LEMMA SameCounters ==
    ASSUME TypeInv, UNCHANGED <<out, computed, inFlight, stale>>
    PROVE  CounterTypes'
BY DEF TypeInv, CounterTypes

LEMMA SameEngine ==
    ASSUME TypeInv, UNCHANGED <<engVars, results>> PROVE EngineTypes'
BY DEF TypeInv, EngineTypes, engVars

LEMMA TypeAddRequest ==
    ASSUME TypeInv, NEW r \in Req, AddRequest(r) PROVE TypeInv'
<1>1. RankTypes' /\ CounterTypes' /\ EngineTypes'
  BY SameRanks, SameCounters, SameEngine DEF AddRequest
<1>2. RequestTypes'
  BY DEF TypeInv, RequestTypes, AddRequest
<1> QED
  BY <1>1, <1>2 DEF TypeInv

LEMMA TypeFree ==
    ASSUME TypeInv, NEW F \in SUBSET Req, FreeRequests(F)
    PROVE  RequestTypes'
<1>1. waiting' \in Seq(Req) /\ skipped' \in Seq(Req) /\ running' \in Seq(Req)
  BY WithoutType DEF TypeInv, RequestTypes, FreeRequests
<1>2. dropStale' \in [Req -> BOOLEAN] /\ chunk' \in [Req -> BOOLEAN]
  BY Zenon DEF TypeInv, RequestTypes, FreeRequests, Forget
<1>3. /\ status' \in [Req -> {"unknown", "waiting", "running", "preempted",
                              "finished"}]
      /\ sent' \in [Req -> Nat]
      /\ spec' \in [Req -> 0..NumSpec]
      /\ finishedIds' \subseteq Req
  BY ConstantTypes DEF TypeInv, RequestTypes, FreeRequests, Forget
<1> QED
  BY <1>1, <1>2, <1>3 DEF RequestTypes

LEMMA TypeAbort ==
    ASSUME TypeInv, NEW r \in Req, Abort(r) PROVE TypeInv'
<1>1. RequestTypes'
  BY TypeFree DEF Abort
<1>2. RankTypes' /\ EngineTypes'
  BY SameRanks, SameEngine DEF Abort
<1>3. CounterTypes'
  BY DEF TypeInv, CounterTypes, Abort, Forget
<1> QED
  BY <1>1, <1>2, <1>3 DEF TypeInv

\* Preemption of the requests of s.
LEMMA TypePreempt ==
    ASSUME TypeInv, NEW s \in Seq(Req), NEW drop \in BOOLEAN, Preempt(s, drop),
           UNCHANGED <<out, inFlight, chunk, sent, skipped, finishedIds>>,
           running' \in Seq(Req)
    PROVE  RequestTypes' /\ CounterTypes'
<1>1. dropStale' \in [Req -> BOOLEAN] /\ chunk' \in [Req -> BOOLEAN]
  BY Zenon DEF Preempt, TypeInv, RequestTypes
<1>2. /\ status' \in [Req -> {"unknown", "waiting", "running", "preempted",
                              "finished"}]
      /\ sent' \in [Req -> Nat]
      /\ spec' \in [Req -> 0..NumSpec]
      /\ finishedIds' \subseteq Req
      /\ waiting' \in Seq(Req) /\ skipped' \in Seq(Req)
  BY ConstantTypes DEF TypeInv, RequestTypes, Preempt
<1>3. CounterTypes'
  BY DEF TypeInv, CounterTypes, Preempt
<1> QED
  BY <1>1, <1>2, <1>3 DEF RequestTypes

LEMMA TypeReset ==
    ASSUME TypeInv, ResetPrefixCache PROVE TypeInv'
<1>0. running \in Seq(Req) /\ running' \in Seq(Req)
  BY DEF ResetPrefixCache, TypeInv, RequestTypes
<1>1. RequestTypes' /\ CounterTypes'
  BY <1>0, TypePreempt DEF ResetPrefixCache
<1>2. RankTypes'
  BY SameRanks DEF ResetPrefixCache
<1>3. EngineTypes'
  BY DEF ResetPrefixCache, TypeInv, EngineTypes
<1> QED
  BY <1>1, <1>2, <1>3 DEF TypeInv

LEMMA NextTypes ==
    ASSUME TypeInv, NEW r \in Req
    PROVE  /\ NumTokens(r) \in Nat /\ NumTokens(r) >= Prompt[r]
           /\ Len(out[r]) \in Nat /\ out[r] \in Seq(Token)
           /\ computed[r] \in Int /\ spec[r] \in Nat /\ sent[r] \in Nat
           /\ cur.budget \in Int /\ cur.batch \in Sched
           /\ cur \in Call /\ cur.batch[r] \in Entry
<1>1. /\ out[r] \in Seq(Token) /\ Len(out[r]) \in Nat
      /\ computed[r] \in Int
  BY DEF TypeInv, CounterTypes
<1>2. spec[r] \in Nat /\ sent[r] \in Nat
  BY ConstantTypes DEF TypeInv, RequestTypes
<1>3. cur \in Call
  BY DEF TypeInv, EngineTypes
<1>4. cur.budget \in Int /\ cur.batch \in Sched
  BY <1>3 DEF Call
<1>5. cur.batch[r] \in Entry
  BY <1>4 DEF Sched
<1> QED
  BY <1>1, <1>2, <1>3, <1>4, <1>5, ConstantTypes DEF NumTokens

LEMMA TypeStartStep ==
    ASSUME TypeInv, StartStep PROVE TypeInv'
<1>1. RankTypes' /\ CounterTypes' /\ RequestTypes'
  BY SameRanks, SameCounters, SameRequests DEF StartStep, reqVars, queueVars
<1>2. EngineTypes'
  <2>1. SpreadCap \in Nat
    BY ConstantTypes, MinMax DEF SpreadCap, TypeInv, RequestTypes, Max
  <2>2. [NoCall EXCEPT !.budget = MaxBatched, !.cap = SpreadCap] \in Call
    <3>1. NoCall \in Call /\ MaxBatched \in Int
      BY ConstantSched, ConstantTypes
    <3> QED
      BY <2>1, <3>1 DEF Call
  <2> QED
    BY <2>2 DEF StartStep, TypeInv, EngineTypes
<1> QED
  BY <1>1, <1>2 DEF TypeInv

LEMMA TypeSkipRunning ==
    ASSUME TypeInv, NEW r \in Req, SkipRunning(r) PROVE TypeInv'
<1>1. RankTypes' /\ CounterTypes' /\ RequestTypes'
  BY SameRanks, SameCounters, SameRequests DEF SkipRunning, reqVars, queueVars
<1>2. cur' \in Call
  <2>1. PICK d \in {cur.decodes, cur.decodes + 1} :
           cur' = [cur EXCEPT !.idx = @ + 1, !.decodes = d]
    BY DEF SkipRunning
  <2>2. cur \in Call
    BY NextTypes
  <2>3. cur.decodes \in Nat /\ cur.idx \in Nat \ {0}
    BY <2>2 DEF Call
  <2>4. d \in Nat /\ cur.idx + 1 \in Nat \ {0}
    BY <2>3
  <2>5. [cur EXCEPT !.idx = cur.idx + 1, !.decodes = d] \in Call
    BY <2>2, <2>4 DEF Call
  <2> QED
    BY <2>1, <2>5
<1>3. EngineTypes'
  BY <1>2 DEF SkipRunning, TypeInv, EngineTypes
<1> QED
  BY <1>1, <1>3 DEF TypeInv

LEMMA ScheduleCounts ==
    ASSUME TypeInv, NEW r \in Req
    PROVE  NumNew(r) \in Int /\ SpecScheduled(r, NumNew(r)) \in Nat
<1>1. /\ NumTokens(r) \in Int /\ computed[r] \in Int /\ spec[r] \in Nat
      /\ cur.budget \in Int /\ MaxModelLen \in Int
  BY NextTypes, ConstantTypes
<1>2. NumNew(r) \in Int
  <2> DEFINE a == NumTokens(r) + spec[r] - computed[r]
             m == Min(a, cur.budget)
             l == MaxModelLen - computed[r] - 1
  <2>0. a \in Int /\ l \in Int
    BY <1>1
  <2> HIDE DEF a
  <2>1. m \in Int /\ l \in Int
    BY <1>1, <2>0, MinMax
  <2> HIDE DEF m, l
  <2>2. Min(m, l) \in Int
    BY <2>1, MinMax
  <2> QED
    BY <2>2 DEF NumNew, m, l, a
<1> DEFINE n == NumNew(r)
<1> HIDE DEF n
<1>3. n \in Int
  BY <1>2 DEF n
<1>4. SpecScheduled(r, n) \in Nat
  BY <1>1, <1>3 DEF SpecScheduled, Min, Max
<1> QED
  BY <1>2, <1>4 DEF n

LEMMA TypeScheduleRunning ==
    ASSUME TypeInv, NEW r \in Req, ScheduleRunning(r) PROVE TypeInv'
<1>1. RankTypes' /\ CounterTypes'
  BY SameRanks, SameCounters DEF ScheduleRunning
<1>2. RequestTypes'
  BY ConstantTypes DEF ScheduleRunning, TypeInv, RequestTypes
<1> DEFINE e == Planned("cached", computed[r], NumNew(r),
                        SpecScheduled(r, NumNew(r)))
<1>3. e \in Entry
  BY ScheduleCounts, NextTypes, PlannedType
<1>4. cur' \in Call
  <2>1. [cur.batch EXCEPT ![r] = e] \in Sched
    BY <1>3, NextTypes DEF Sched
  <2>2. PICK d \in {cur.decodes, cur.decodes + 1}, f \in BOOLEAN :
           cur' = [cur EXCEPT !.idx = @ + 1, !.budget = @ - NumNew(r),
                              !.decodes = d, !.prefill = f, !.batch[r] = e]
    BY DEF ScheduleRunning
  <2>3. cur \in Call /\ NumNew(r) \in Int
    BY NextTypes, ScheduleCounts
  <2>4. cur.decodes \in Nat /\ cur.idx \in Nat \ {0} /\ cur.budget \in Int
    BY <2>3 DEF Call
  <2>5. d \in Nat /\ cur.idx + 1 \in Nat \ {0} /\ cur.budget - NumNew(r) \in Int
    BY <2>3, <2>4
  <2> HIDE DEF e
  <2>6. [cur EXCEPT !.idx = cur.idx + 1, !.budget = cur.budget - NumNew(r),
                    !.decodes = d, !.prefill = f,
                    !.batch = [cur.batch EXCEPT ![r] = e]] \in Call
    BY <2>1, <2>3, <2>5 DEF Call
  <2> QED
    BY <2>2, <2>6
<1>5. EngineTypes'
  BY <1>4 DEF ScheduleRunning, TypeInv, EngineTypes
<1> QED
  BY <1>1, <1>2, <1>5 DEF TypeInv

LEMMA TypePreemptLast ==
    ASSUME TypeInv, NEW r \in Req, NEW victim \in Req, PreemptLast(r, victim)
    PROVE  TypeInv'
<1>1. <<victim>> \in Seq(Req) /\ running' \in Seq(Req)
  BY DEF PreemptLast, TypeInv, RequestTypes, Schedulable, AtRunning
<1>2. RequestTypes' /\ CounterTypes'
  BY <1>1, TypePreempt DEF PreemptLast
<1>3. RankTypes'
  BY SameRanks DEF PreemptLast
<1>4. EngineTypes'
  BY DEF PreemptLast, TypeInv, EngineTypes, Call
<1> QED
  BY <1>2, <1>3, <1>4 DEF TypeInv

LEMMA TypeEndRunning ==
    ASSUME TypeInv, EndRunning PROVE TypeInv'
<1>1. RankTypes' /\ CounterTypes' /\ RequestTypes'
  BY SameRanks, SameCounters, SameRequests DEF EndRunning, reqVars, queueVars
<1>2. EngineTypes'
  BY DEF EndRunning, TypeInv, EngineTypes
<1> QED
  BY <1>1, <1>2 DEF TypeInv

LEMMA TypePopWaiting ==
    ASSUME TypeInv, NEW r, AtWaiting(r), PopWaiting
    PROVE  waiting' \in Seq(Req) /\ skipped' \in Seq(Req)
<1>1. waiting \in Seq(Req) /\ skipped \in Seq(Req)
  BY DEF TypeInv, RequestTypes
<1>2. CASE skipped # <<>>
  BY <1>1, <1>2 DEF PopWaiting
<1>3. CASE skipped = <<>>
  <2>1. waiting # <<>>
    BY <1>3 DEF AtWaiting
  <2> QED
    BY <1>1, <1>3, <2>1 DEF PopWaiting
<1> QED
  BY <1>2, <1>3

LEMMA TypeSkipWaiting ==
    ASSUME TypeInv, NEW r \in Req, SkipWaiting(r) PROVE TypeInv'
<1>1. RankTypes' /\ CounterTypes'
  BY SameRanks, SameCounters DEF SkipWaiting, reqVars
<1>2. waiting' \in Seq(Req) /\ skipped' \in Seq(Req)
  BY TypePopWaiting DEF SkipWaiting
<1>3. RequestTypes'
  BY <1>2 DEF SkipWaiting, TypeInv, RequestTypes, reqVars
<1>4. cur' \in Call
  <2>1. cur \in Call
    BY NextTypes
  <2>0. Append(cur.skip, r) \in Seq(Req)
    BY <2>1 DEF Call
  <2>2. [cur EXCEPT !.skip = Append(@, r)] \in Call
    BY <2>0, <2>1 DEF Call
  <2> QED
    BY <2>2 DEF SkipWaiting
<1>5. EngineTypes'
  BY <1>4 DEF SkipWaiting, TypeInv, EngineTypes
<1> QED
  BY <1>1, <1>3, <1>5 DEF TypeInv

LEMMA AdmitCounts ==
    ASSUME TypeInv, NEW r \in Req
    PROVE  AdmitTokens(r) \in Int
BY NextTypes, MinMax, ConstantTypes DEF AdmitTokens, Padded, Min

LEMMA TypeAdmit ==
    ASSUME TypeInv, NEW r \in Req, Admit(r) PROVE TypeInv'
<1>1. RankTypes'
  BY SameRanks DEF Admit
<1>2. CounterTypes'
  BY DEF Admit, TypeInv, CounterTypes
<1>3. waiting' \in Seq(Req) /\ skipped' \in Seq(Req)
  BY TypePopWaiting DEF Admit, CanAdmit
<1>4. RequestTypes'
  BY <1>3 DEF Admit, TypeInv, RequestTypes
<1>5. cur' \in Call
  <2>1. PICK kind \in {"new", "resumed"}, k \in {0, NumSpec} :
          cur' = [cur EXCEPT !.budget = @ - AdmitTokens(r),
                             !.batch[r] = Planned(kind, 0, AdmitTokens(r), k)]
    BY DEF Admit
  <2> DEFINE e == Planned(kind, 0, AdmitTokens(r), k)
  <2>2. cur \in Call /\ e \in Entry
    BY NextTypes, AdmitCounts, PlannedType, ConstantTypes, SMTT(30)
  <2>3. cur.budget - AdmitTokens(r) \in Int /\ [cur.batch EXCEPT ![r] = e] \in Sched
    BY <2>2, NextTypes, AdmitCounts DEF Sched
  <2> HIDE DEF e
  <2>4. [cur EXCEPT !.budget = cur.budget - AdmitTokens(r),
                    !.batch = [cur.batch EXCEPT ![r] = e]] \in Call
    BY <2>2, <2>3 DEF Call
  <2> QED
    BY <2>1, <2>4 DEF e
<1>6. EngineTypes'
  BY <1>5 DEF Admit, TypeInv, EngineTypes
<1> QED
  BY <1>1, <1>2, <1>4, <1>6 DEF TypeInv

LEMMA TypeEndWaiting ==
    ASSUME TypeInv, EndWaiting PROVE TypeInv'
<1>1. RankTypes' /\ CounterTypes'
  BY SameRanks, SameCounters DEF EndWaiting, reqVars
<1>2. cur \in Call
  BY DEF TypeInv, EngineTypes
<1>3. cur.skip \in Seq(Req)
  BY <1>2 DEF Call
<1>4. RequestTypes'
  BY <1>3 DEF EndWaiting, Requeued, TypeInv, RequestTypes, reqVars
<1>5. [cur EXCEPT !.skip = <<>>] \in Call
  <2>1. <<>> \in Seq(Req)
    OBVIOUS
  <2> QED
    BY <1>2, <2>1 DEF Call
<1>6. EngineTypes'
  BY <1>5 DEF EndWaiting, TypeInv, EngineTypes
<1> QED
  BY <1>1, <1>4, <1>6 DEF TypeInv

\* What Issue makes of a planned entry: the fields the scheduler fills in.
LEMMA NewEntryFields ==
    ASSUME NEW r \in Req, NEW e \in Entry
    PROVE  /\ NewEntry(r, e) \in Entry
           /\ NewEntry(r, e).kind = e.kind /\ NewEntry(r, e).start = e.start
           /\ NewEntry(r, e).n = e.n /\ NewEntry(r, e).k = e.k
           /\ NewEntry(r, e).ids = e.ids
           /\ NewEntry(r, e).from = Prompt[r]
BY ConstantTypes DEF NewEntry, Entry

LEMMA CachedEntryFields ==
    ASSUME TypeInv, NEW r \in Req, NEW e \in Entry,
           End(e) <= NumTokens(r)
    PROVE  LET c == CachedEntry(r, e)
               from == Max(sent[r], Prompt[r]) IN
           /\ c \in Entry
           /\ c.kind = e.kind /\ c.start = e.start /\ c.n = e.n /\ c.k = e.k
           /\ c.ids = SubSeq(out[r], from - Prompt[r] + 1, End(e) - Prompt[r])
           /\ c.from = from
<1> DEFINE from == Max(sent[r], Prompt[r])
           ids == SubSeq(out[r], from - Prompt[r] + 1, End(e) - Prompt[r])
<1>1. from \in Nat /\ from >= Prompt[r]
  BY NextTypes, ConstantTypes DEF Max
<1>2. End(e) \in Int
  BY DEF End, Entry
<1>3. ids \in Seq(Token)
  <2>1. /\ from - Prompt[r] + 1 \in Int /\ End(e) - Prompt[r] \in Int
        /\ from - Prompt[r] + 1 >= 1 /\ End(e) - Prompt[r] <= Len(out[r])
    BY <1>1, <1>2, ConstantTypes, NextTypes DEF NumTokens
  <2> QED
    BY <2>1, SubSeqType, NextTypes
<1>4. Len(out[r]) \in Nat
  BY NextTypes
<1> HIDE DEF from, ids
<1>5. LET c == [e EXCEPT !.ids = ids, !.nout = Len(out[r]), !.from = from] IN
      /\ c \in Entry
      /\ c.kind = e.kind /\ c.start = e.start /\ c.n = e.n /\ c.k = e.k
      /\ c.ids = ids /\ c.from = from
  BY <1>1, <1>3, <1>4 DEF Entry
<1> QED
  BY <1>5 DEF CachedEntry, from, ids
-----------------------------------------------------------------------------
(***************************************************************************)
(* The scheduler's side of the inductive invariant                         *)
(***************************************************************************)
\* The running queue holds requests in status RUNNING, each once.  (So what is
\* scheduled from it is neither finished nor new.)
RunningInv ==
    /\ Distinct(running)
    /\ \A i \in DOMAIN running : status[running[i]] = "running"

\* check_stop ends a request before it outgrows the model.
LengthInv ==
    \A r \in Req : /\ NumTokens(r) <= MaxModelLen
                   /\ status[r] # "finished" => NumTokens(r) < MaxModelLen
                   /\ sent[r] <= NumTokens(r)

\* A request that was never scheduled has no output, and nothing was sent of it.
FreshInv ==
    /\ \A r \in Req : status[r] \in {"unknown", "waiting"} =>
          out[r] = <<>> /\ sent[r] = 0
    /\ \A i \in DOMAIN queue : \A r \in Scheduled(queue[i].sched) :
          status[r] \notin {"unknown", "waiting"}

\* A planned entry computes a real token, ends within the tokens there are, and
\* has drafts only behind all of them.
PlanOK(r, e) ==
    /\ e.k < e.n
    /\ End(e) <= NumTokens(r)
    /\ e.k > 0 => End(e) = NumTokens(r)
    /\ e.kind = "new" => out[r] = <<>> /\ sent[r] = 0

CallInv ==
    /\ pc \notin {"running", "waiting", "issue"} => cur = NoCall
    /\ \A r \in Scheduled(cur.batch) :
          PlanOK(r, cur.batch[r]) /\ status[r] \in {"running", "preempted"}

SchedInv == TypeInv /\ RunningInv /\ LengthInv /\ FreshInv /\ CallInv
            /\ NoDraftOnlyStep
-----------------------------------------------------------------------------
(***************************************************************************)
(* The scheduler's invariant is inductive                                  *)
(***************************************************************************)
LEMMA NothingScheduled == Scheduled(EmptySched) = {} /\ NoCall.batch = EmptySched
BY DEF Scheduled, EmptySched, NoEntry, Planned, NoCall

LEMMA SchedInit == Init => SchedInv
<1> SUFFICES ASSUME Init PROVE SchedInv
  OBVIOUS
<1>1. RunningInv /\ FreshInv
  BY DEF Init, RunningInv, FreshInv, Distinct
<1>2. LengthInv
  BY ConstantTypes DEF Init, LengthInv, NumTokens
<1>3. CallInv
  BY NothingScheduled DEF Init, CallInv
<1>4. NoDraftOnlyStep
  BY DEF Init, NoDraftOnlyStep
<1> QED
  BY <1>1, <1>2, <1>3, <1>4, TypeInit DEF SchedInv

\* Of a request only the output so far, the count of what was sent and the
\* status matter, and of the engine thread its queue and its call.
SchedRest == RunningInv /\ LengthInv /\ FreshInv /\ CallInv /\ NoDraftOnlyStep

LEMMA SchedSame ==
    ASSUME SchedInv, UNCHANGED <<status, out, sent, running, queue>>,
           CallInv'
    PROVE  SchedRest'
BY DEF SchedInv, SchedRest, RunningInv, LengthInv, FreshInv, NoDraftOnlyStep,
       NumTokens, Distinct

LEMMA CallSame ==
    ASSUME SchedInv, UNCHANGED <<status, out, sent, pc, cur>>
    PROVE  CallInv'
BY DEF SchedInv, CallInv, PlanOK, NumTokens

LEMMA SchedAddRequest ==
    ASSUME SchedInv, NEW r \in Req, AddRequest(r) PROVE SchedInv'
<1>0. TypeInv /\ TypeInv'
  BY TypeAddRequest DEF SchedInv
<1>1. /\ status' = [status EXCEPT ![r] = "waiting"] /\ status[r] = "unknown"
      /\ UNCHANGED <<out, sent, running, queue, pc, cur>> /\ pc = "top"
      /\ status \in [Req -> {"unknown", "waiting", "running", "preempted",
                             "finished"}]
  BY <1>0 DEF AddRequest, engVars, TypeInv, RequestTypes
<1>2. RunningInv'
  BY <1>0, <1>1 DEF SchedInv, RunningInv, Distinct, TypeInv, RequestTypes
<1>3. LengthInv'
  BY <1>1 DEF SchedInv, LengthInv, NumTokens
<1>4. FreshInv'
  BY <1>1 DEF SchedInv, FreshInv, Scheduled
<1>5. CallInv'
  BY <1>1, NothingScheduled DEF SchedInv, CallInv
<1>6. NoDraftOnlyStep'
  BY <1>1 DEF SchedInv, NoDraftOnlyStep
<1> QED
  BY <1>0, <1>2, <1>3, <1>4, <1>5, <1>6 DEF SchedInv

\* Freeing requests that are alive.
LEMMA SchedFree ==
    ASSUME SchedInv, NEW F \in SUBSET Req, FreeRequests(F),
           \A r \in F : status[r] \notin {"unknown", "finished"}
    PROVE  /\ RunningInv'
           /\ \A r \in Req : /\ r \in F => status'[r] = "finished" /\ sent'[r] = 0
                             /\ r \notin F => status'[r] = status[r]
                                              /\ sent'[r] = sent[r]
<1>1. \A r \in Req : /\ r \in F => status'[r] = "finished" /\ sent'[r] = 0
                     /\ r \notin F => status'[r] = status[r] /\ sent'[r] = sent[r]
  BY DEF FreeRequests, Forget
<1>2. running \in Seq(Req) /\ Distinct(running) /\ running' = Without(running, F)
  BY DEF FreeRequests, SchedInv, RunningInv, TypeInv, RequestTypes
<1>3. /\ Distinct(running')
      /\ \A i \in DOMAIN running' : running'[i] \in SeqSet(running) \ F
  BY <1>2, WithoutType
<1>4. ASSUME NEW i \in DOMAIN running' PROVE status'[running'[i]] = "running"
  <2>1. PICK j \in DOMAIN running : running[j] = running'[i] /\ running'[i] \notin F
    BY <1>3, <1>4 DEF SeqSet
  <2>2. running[j] \in Req /\ status[running[j]] = "running"
    BY <1>2, <2>1 DEF SchedInv, RunningInv
  <2> QED
    BY <1>1, <2>1, <2>2
<1> QED
  BY <1>1, <1>3, <1>4 DEF RunningInv, Distinct

LEMMA SchedAbort ==
    ASSUME SchedInv, NEW r \in Req, Abort(r) PROVE SchedInv'
<1>0. TypeInv /\ TypeInv'
  BY TypeAbort DEF SchedInv
<1>1. /\ RunningInv'
      /\ \A q \in Req : /\ q \in {r} => status'[q] = "finished" /\ sent'[q] = 0
                        /\ q \notin {r} => status'[q] = status[q] /\ sent'[q] = sent[q]
  BY SchedFree DEF Abort, Live
<1>2. /\ UNCHANGED <<out, queue, pc, cur>> /\ pc \in {"top", "update"}
  BY DEF Abort, engVars
<1>3. LengthInv'
  BY <1>0, <1>1, <1>2, NextTypes DEF SchedInv, LengthInv, NumTokens
<1>4. FreshInv'
  BY <1>1, <1>2 DEF SchedInv, FreshInv, Scheduled, Abort, Live
<1>5. CallInv'
  BY <1>2, NothingScheduled DEF SchedInv, CallInv
<1>6. NoDraftOnlyStep'
  BY <1>2 DEF SchedInv, NoDraftOnlyStep
<1> QED
  BY <1>0, <1>1, <1>3, <1>4, <1>5, <1>6 DEF SchedInv

\* Preempting requests of the running queue, when what is left of the queue has
\* none of them.
LEMMA SchedPreempt ==
    ASSUME SchedInv, NEW s \in Seq(Req), NEW drop, Preempt(s, drop),
           UNCHANGED <<out, sent, queue>>, CallInv', RunningInv',
           \A r \in SeqSet(s) : status[r] = "running"
    PROVE  SchedRest'
<1>1. \A r \in Req : /\ r \in SeqSet(s) => status'[r] = "preempted"
                     /\ r \notin SeqSet(s) => status'[r] = status[r]
  BY DEF Preempt
<1>2. LengthInv'
  BY <1>1 DEF SchedInv, LengthInv, NumTokens
<1>3. FreshInv'
  BY <1>1 DEF SchedInv, FreshInv, Scheduled
<1>4. NoDraftOnlyStep'
  BY DEF SchedInv, NoDraftOnlyStep
<1> QED
  BY <1>2, <1>3, <1>4 DEF SchedRest

LEMMA SchedReset ==
    ASSUME SchedInv, ResetPrefixCache PROVE SchedInv'
<1>0. TypeInv /\ TypeInv' /\ running \in Seq(Req)
  BY TypeReset DEF SchedInv, TypeInv, RequestTypes
<1>1. RunningInv'
  BY DEF ResetPrefixCache, RunningInv, Distinct
<1>2. CallInv'
  BY NothingScheduled DEF ResetPrefixCache, SchedInv, CallInv
<1>3. \A r \in SeqSet(running) : status[r] = "running"
  BY DEF SchedInv, RunningInv, SeqSet
<1>4. SchedRest'
  BY <1>0, <1>1, <1>2, <1>3, SchedPreempt DEF ResetPrefixCache
<1> QED
  BY <1>0, <1>4 DEF SchedInv, SchedRest

LEMMA SchedStartStep ==
    ASSUME SchedInv, StartStep PROVE SchedInv'
<1>1. CallInv'
  <2>1. cur = NoCall
    BY DEF StartStep, SchedInv, CallInv
  <2>2. CASE cur' = [NoCall EXCEPT !.budget = MaxBatched, !.cap = SpreadCap]
             /\ pc' = "running"
    <3>1. cur'.batch = EmptySched
      BY <2>2 DEF NoCall
    <3> QED
      BY <2>2, <3>1, NothingScheduled DEF CallInv
  <2>3. CASE cur' = cur
    BY <2>1, <2>3, NothingScheduled DEF CallInv
  <2> QED
    BY <2>2, <2>3 DEF StartStep
<1> QED
  BY <1>1, TypeStartStep, SchedSame
     DEF SchedInv, SchedRest, StartStep, reqVars, queueVars

\* The planned entries after one more request was scheduled.
LEMMA PlanOne ==
    ASSUME SchedInv, NEW r \in Req, NEW e \in Entry, cur' \in Call,
           cur'.batch = [cur.batch EXCEPT ![r] = e],
           pc' \in {"running", "waiting", "issue"},
           UNCHANGED <<out, sent>>, PlanOK(r, e),
           status'[r] \in {"running", "preempted"},
           \A q \in Req \ {r} : status'[q] = status[q]
    PROVE  CallInv'
<1>1. cur.batch \in [Req -> Entry]
  BY NextTypes DEF SchedInv, Sched
<1>2. ASSUME NEW q \in Scheduled(cur'.batch)
      PROVE  PlanOK(q, cur.batch[q])' /\ status'[q] \in {"running", "preempted"}
  <2>1. q \in Req
    BY DEF Scheduled
  <2>2. CASE q = r
    BY <1>1, <2>2 DEF PlanOK, NumTokens
  <2>3. CASE q # r
    <3>1. cur'.batch[q] = cur.batch[q] /\ q \in Scheduled(cur.batch)
      BY <1>1, <1>2, <2>1, <2>3 DEF Scheduled
    <3> QED
      BY <2>1, <2>3, <3>1 DEF SchedInv, CallInv, PlanOK, NumTokens
  <2> QED
    BY <2>2, <2>3
<1> QED
  BY <1>2 DEF CallInv

LEMMA SchedSkipRunning ==
    ASSUME SchedInv, NEW r \in Req, SkipRunning(r) PROVE SchedInv'
<1>1. cur'.batch = cur.batch
  BY NextTypes DEF SchedInv, SkipRunning, Call
<1>2. CallInv'
  BY <1>1 DEF SchedInv, CallInv, PlanOK, NumTokens, SkipRunning, AtRunning,
              reqVars, Scheduled
<1> QED
  BY <1>2, TypeSkipRunning, SchedSame
     DEF SchedInv, SchedRest, SkipRunning, reqVars, queueVars

\* The heart of the in-flight guard: with a real token to compute, a step takes
\* it, and takes drafts only behind the last real token.
LEMMA RunningPlanOK ==
    ASSUME SchedInv, NEW r \in Req, Schedulable(r)
    PROVE  /\ PlanOK(r, Planned("cached", computed[r], NumNew(r),
                               SpecScheduled(r, NumNew(r))))
           /\ status[r] = "running"
<1> DEFINE n == NumNew(r)
           k == SpecScheduled(r, n)
           e == Planned("cached", computed[r], n, k)
<1>0. TypeInv
  BY DEF SchedInv
<1>1. /\ computed[r] \in Int /\ spec[r] \in Nat /\ cur.budget \in Int
      /\ NumTokens(r) \in Nat /\ MaxModelLen \in Nat
  BY <1>0, NextTypes, ConstantTypes
<1>2. /\ computed[r] < NumTokens(r) /\ n # 0 /\ cur.budget > 0
      /\ NumTokens(r) <= MaxModelLen
  BY <1>1 DEF Schedulable, AtRunning, OutputInFlight, SchedInv, LengthInv
<1>3. n \in Int /\ n > 0 /\ n <= NumTokens(r) + spec[r] - computed[r]
  BY <1>1, <1>2 DEF NumNew, Min
<1>4. k \in Nat /\ k = Max(0, computed[r] + n - NumTokens(r))
  BY <1>1, <1>3 DEF SpecScheduled, Min, Max
<1>5. /\ k < n /\ computed[r] + n - k <= NumTokens(r)
      /\ k > 0 => computed[r] + n - k = NumTokens(r)
  BY <1>1, <1>2, <1>3, <1>4 DEF Max
<1>6. e.start = computed[r] /\ e.n = n /\ e.k = k /\ e.kind = "cached"
  BY DEF Planned
<1>7. PlanOK(r, e)
  BY <1>5, <1>6 DEF PlanOK, End
<1>8. status[r] = "running"
  <2>1. cur.idx \in Nat \ {0}
    BY <1>0, NextTypes DEF Call
  <2>2. running \in Seq(Req)
    BY <1>0 DEF TypeInv, RequestTypes
  <2>3. cur.idx \in DOMAIN running /\ running[cur.idx] = r
    BY <2>1, <2>2 DEF Schedulable, AtRunning
  <2> QED
    BY <2>3 DEF SchedInv, RunningInv
<1> QED
  BY <1>7, <1>8

LEMMA SchedScheduleRunning ==
    ASSUME SchedInv, NEW r \in Req, ScheduleRunning(r) PROVE SchedInv'
<1> DEFINE e == Planned("cached", computed[r], NumNew(r),
                        SpecScheduled(r, NumNew(r)))
<1>0. TypeInv /\ TypeInv'
  BY TypeScheduleRunning DEF SchedInv
<1>1. PlanOK(r, e) /\ status[r] = "running" /\ pc = "running" /\ e \in Entry
  BY <1>0, RunningPlanOK, ScheduleCounts, NextTypes, PlannedType
     DEF ScheduleRunning, Schedulable, AtRunning
<1>2. cur'.batch = [cur.batch EXCEPT ![r] = e]
  BY <1>0, NextTypes DEF ScheduleRunning, Call
<1>3. /\ UNCHANGED <<out, sent, status, pc, running, queue>>
      /\ cur' \in Call
  BY <1>0 DEF ScheduleRunning, TypeInv, EngineTypes
<1>4. CallInv'
  <2> HIDE DEF e
  <2> QED
    BY <1>1, <1>2, <1>3, PlanOne
<1> QED
  BY <1>0, <1>3, <1>4, SchedSame DEF SchedInv, SchedRest

LEMMA SchedPreemptLast ==
    ASSUME SchedInv, NEW r \in Req, NEW victim \in Req, PreemptLast(r, victim)
    PROVE  SchedInv'
<1>0. TypeInv /\ TypeInv' /\ running \in Seq(Req)
  BY TypePreemptLast DEF SchedInv, TypeInv, RequestTypes
<1>1. /\ running # <<>> /\ victim = running[Len(running)]
      /\ running' = SubSeq(running, 1, Len(running) - 1)
      /\ pc' \in {"running", "issue"}
  <2>1. cur.idx \in Nat \ {0} /\ cur.idx <= Len(running)
    BY <1>0, NextTypes DEF PreemptLast, Schedulable, AtRunning, Call
  <2> QED
    BY <1>0, <2>1 DEF PreemptLast
<1>2. SeqSet(<<victim>>) = {victim} /\ status[victim] = "running"
  BY <1>0, <1>1 DEF SeqSet, SchedInv, RunningInv
<1>3. \A q \in Req : status'[q] = IF q = victim THEN "preempted" ELSE status[q]
  BY <1>2 DEF PreemptLast, Preempt
<1>4. /\ DOMAIN running' = 1..(Len(running) - 1)
      /\ \A i \in 1..(Len(running) - 1) : running'[i] = running[i]
      /\ DOMAIN running = 1..Len(running) /\ Len(running) \in Nat /\ Len(running) > 0
  BY <1>0, <1>1
<1>5. RunningInv'
  <2>1. \A i \in 1..(Len(running) - 1) : running[i] # victim
    BY <1>1, <1>4 DEF SchedInv, RunningInv, Distinct
  <2>2. \A i \in DOMAIN running' : status'[running'[i]] = "running"
    BY <1>0, <1>3, <1>4, <2>1 DEF SchedInv, RunningInv
  <2>3. Distinct(running')
    BY <1>4 DEF SchedInv, RunningInv, Distinct
  <2> QED
    BY <2>2, <2>3 DEF RunningInv, Distinct
<1>6. cur'.batch = cur.batch
  BY <1>0, NextTypes DEF PreemptLast, Call
<1>7. CallInv'
  <2>1. ASSUME NEW q \in Scheduled(cur.batch)
        PROVE  PlanOK(q, cur.batch[q]) /\ status'[q] \in {"running", "preempted"}
    BY <1>3 DEF SchedInv, CallInv, Scheduled
  <2>2. UNCHANGED <<out, sent>>
    BY DEF PreemptLast
  <2> QED
    BY <1>1, <1>6, <2>1, <2>2 DEF CallInv, PlanOK, NumTokens, Scheduled
<1>8. <<victim>> \in Seq(Req) /\ \A q \in SeqSet(<<victim>>) : status[q] = "running"
  BY <1>2
<1>9. SchedRest'
  BY <1>5, <1>7, <1>8, SchedPreempt DEF PreemptLast
<1> QED
  BY <1>0, <1>9 DEF SchedInv, SchedRest

\* The remaining steps of schedule() before Issue that plan nothing.
LEMMA SchedEndRunning ==
    ASSUME SchedInv, EndRunning PROVE SchedInv'
<1>1. CallInv'
  BY DEF SchedInv, CallInv, PlanOK, NumTokens, EndRunning, reqVars, Scheduled
<1> QED
  BY <1>1, TypeEndRunning, SchedSame
     DEF SchedInv, SchedRest, EndRunning, reqVars, queueVars

LEMMA SchedSkipWaiting ==
    ASSUME SchedInv, NEW r \in Req, SkipWaiting(r) PROVE SchedInv'
<1>1. cur'.batch = cur.batch
  BY NextTypes DEF SchedInv, SkipWaiting, Call
<1>2. CallInv'
  BY <1>1 DEF SchedInv, CallInv, PlanOK, NumTokens, SkipWaiting, AtWaiting,
              reqVars, Scheduled
<1> QED
  BY <1>2, TypeSkipWaiting, SchedSame
     DEF SchedInv, SchedRest, SkipWaiting, reqVars

LEMMA SchedEndWaiting ==
    ASSUME SchedInv, EndWaiting PROVE SchedInv'
<1>1. cur \in Call
  BY DEF SchedInv, TypeInv, EngineTypes
<1>2. cur'.batch = cur.batch
  BY <1>1 DEF EndWaiting, Call
<1>3. CallInv'
  BY <1>2 DEF SchedInv, CallInv, PlanOK, NumTokens, EndWaiting, reqVars, Scheduled
<1> QED
  BY <1>3, TypeEndWaiting, SchedSame
     DEF SchedInv, SchedRest, EndWaiting, reqVars

LEMMA SchedAdmit ==
    ASSUME SchedInv, NEW r \in Req, Admit(r) PROVE SchedInv'
<1>0. TypeInv /\ TypeInv' /\ running \in Seq(Req)
  BY TypeAdmit DEF SchedInv, TypeInv, RequestTypes
<1>1. PICK kind \in {"new", "resumed"}, k \in {0, NumSpec} :
        /\ cur' = [cur EXCEPT !.budget = @ - AdmitTokens(r),
                              !.batch[r] = Planned(kind, 0, AdmitTokens(r), k)]
        /\ k = IF Padded(r) THEN NumSpec ELSE 0
        /\ kind = "new" => status[r] = "waiting"
        /\ status[r] \in {"waiting", "preempted"}
  BY DEF Admit
<1> DEFINE n == AdmitTokens(r)
           e == Planned(kind, 0, n, k)
<1>2. /\ NumTokens(r) \in Nat /\ NumTokens(r) > 0 /\ cur.budget \in Int
      /\ NumSpec \in Nat /\ cur.budget > 0
  <2>1. cur.budget > 0
    BY DEF Admit, CanAdmit, AtWaiting
  <2>2. Prompt[r] \in Nat /\ Prompt[r] > 0 /\ NumSpec \in Nat
    BY ConstantTypes
  <2>3. NumTokens(r) \in Nat /\ NumTokens(r) >= Prompt[r] /\ cur.budget \in Int
    BY <1>0, NextTypes
  <2> QED
    BY <2>1, <2>2, <2>3
<1>3. /\ n \in Int /\ k \in Nat /\ k < n /\ n - k <= NumTokens(r)
      /\ k > 0 => n - k = NumTokens(r)
  BY <1>1, <1>2 DEF AdmitTokens, Padded, Min
<1>4. PlanOK(r, e) /\ e \in Entry
  <2>1. e.start = 0 /\ e.n = n /\ e.k = k /\ e.kind = kind
    BY DEF Planned
  <2>2. kind = "new" => out[r] = <<>> /\ sent[r] = 0
    BY <1>1 DEF SchedInv, FreshInv
  <2>3. e \in Entry
    BY <1>3, PlannedType
  <2> HIDE DEF e, n
  <2> QED
    BY <1>3, <2>1, <2>2, <2>3 DEF PlanOK, End
<1>5. cur'.batch = [cur.batch EXCEPT ![r] = e]
  BY <1>0, <1>1, NextTypes DEF Call
<1>6. /\ UNCHANGED <<out, sent, pc, queue>> /\ cur' \in Call /\ pc = "waiting"
      /\ status' = [status EXCEPT ![r] = "running"]
      /\ running' = Append(running, r)
  BY <1>0 DEF Admit, CanAdmit, AtWaiting, TypeInv, EngineTypes
<1>7. /\ status'[r] = "running"
      /\ \A q \in Req \ {r} : status'[q] = status[q]
  BY <1>0, <1>6 DEF TypeInv, RequestTypes
<1>8. CallInv'
  <2> HIDE DEF e
  <2> QED
    BY <1>4, <1>5, <1>6, <1>7, PlanOne
<1>9. RunningInv'
  <2>1. \A i \in 1..Len(running) : running[i] # r /\ status[running[i]] = "running"
    BY <1>0, <1>1 DEF SchedInv, RunningInv
  <2>2. /\ DOMAIN running' = 1..(Len(running) + 1) /\ Len(running) \in Nat
        /\ \A i \in 1..Len(running) : running'[i] = running[i]
        /\ running'[Len(running) + 1] = r
    BY <1>0, <1>6
  <2>3. Distinct(running')
    BY <1>0, <2>1, <2>2 DEF SchedInv, RunningInv, Distinct
  <2>4. \A i \in DOMAIN running' : status'[running'[i]] = "running"
    BY <1>0, <1>7, <2>1, <2>2
  <2> QED
    BY <2>3, <2>4 DEF RunningInv, Distinct
<1>10. LengthInv'
  BY <1>1, <1>6, <1>7 DEF SchedInv, LengthInv, NumTokens
<1>11. FreshInv'
  BY <1>6, <1>7 DEF SchedInv, FreshInv, Scheduled
<1>12. NoDraftOnlyStep'
  BY <1>6 DEF SchedInv, NoDraftOnlyStep
<1> QED
  BY <1>0, <1>8, <1>9, <1>10, <1>11, <1>12 DEF SchedInv

\* The entries of the scheduler output, by the planned entry they come from.
LEMMA OutputFields ==
    ASSUME SchedInv, NEW r \in Req
    PROVE  LET o == Output[r]
               e == cur.batch[r]
           IN
           /\ o \in Entry
           /\ o.kind = e.kind
           /\ o.kind # "none" =>
                /\ o.start = e.start /\ o.n = e.n /\ o.k = e.k
                /\ o.from = IF e.kind = "new" THEN Prompt[r]
                            ELSE Max(sent[r], Prompt[r])
                /\ o.ids = IF e.kind = "new" THEN e.ids
                           ELSE SubSeq(out[r], o.from - Prompt[r] + 1,
                                       End(e) - Prompt[r])
<1> DEFINE e == cur.batch[r]
<1>0. TypeInv /\ e \in Entry
  BY NextTypes DEF SchedInv
<1>1. CASE e.kind = "none"
  <2>1. Output[r] = NoEntry
    BY <1>1 DEF Output
  <2> QED
    BY <1>1, <2>1, ConstantSched DEF NoEntry, Planned
<1>2. CASE e.kind = "new"
  <2>1. Output[r] = NewEntry(r, e)
    BY <1>2 DEF Output
  <2> HIDE DEF e
  <2>2. /\ NewEntry(r, e) \in Entry
        /\ NewEntry(r, e).kind = e.kind /\ NewEntry(r, e).start = e.start
        /\ NewEntry(r, e).n = e.n /\ NewEntry(r, e).k = e.k
        /\ NewEntry(r, e).ids = e.ids
        /\ NewEntry(r, e).from = Prompt[r]
    BY <1>0, NewEntryFields
  <2> QED
    BY <1>2, <2>1, <2>2 DEF e
<1>3. CASE e.kind \notin {"none", "new"}
  <2>1. Output[r] = CachedEntry(r, e)
    BY <1>3 DEF Output
  <2>2. End(e) <= NumTokens(r)
    BY <1>3 DEF SchedInv, CallInv, PlanOK, Scheduled
  <2>3. LET c == CachedEntry(r, e)
            from == Max(sent[r], Prompt[r]) IN
        /\ c \in Entry
        /\ c.kind = e.kind /\ c.start = e.start /\ c.n = e.n /\ c.k = e.k
        /\ c.ids = SubSeq(out[r], from - Prompt[r] + 1, End(e) - Prompt[r])
        /\ c.from = from
    <3> HIDE DEF e
    <3> QED
      BY <1>0, <2>2, CachedEntryFields
  <2> QED
    BY <1>3, <2>1, <2>3
<1> QED
  BY <1>1, <1>2, <1>3

LEMMA CallsType ==
    ASSUME NEW j, NEW b \in Batch
    PROVE  /\ Calls(j, b) \in Seq(Messages)
           /\ j # PP => Calls(j, b) = <<[op |-> "exec", batch |-> b]>>
<1>1. /\ [op |-> "exec", batch |-> b] \in Messages
      /\ [op |-> "draft", batch |-> NoBatch] \in Messages
  BY ConstantSched DEF Messages
<1> DEFINE m == [op |-> "exec", batch |-> b]
           d == [op |-> "draft", batch |-> NoBatch]
<1> HIDE DEF m, d
<1>2. Calls(j, b) = <<m>> \o IF j = PP /\ b.fetch THEN <<d>> ELSE <<>>
  BY DEF Calls, m, d
<1>3. m \in Messages /\ d \in Messages
  BY <1>1 DEF m, d
<1>4. Calls(j, b) \in Seq(Messages) /\ (j # PP => Calls(j, b) = <<m>>)
  <2>1. CASE j = PP /\ b.fetch
    <3>1. Calls(j, b) = <<m>> \o <<d>>
      BY <1>2, <2>1
    <3> QED
      BY <1>3, <2>1, <3>1
  <2>2. CASE ~(j = PP /\ b.fetch)
    <3>1. Calls(j, b) = <<m>> \o <<>>
      BY <1>2, <2>2
    <3> QED
      BY <1>3, <3>1
  <2> QED
    BY <2>1, <2>2
<1> QED
  BY <1>4 DEF m

\* The batch that is issued.
IssuedBatch(b) ==
    /\ b.sched = Output /\ b.fin = finishedIds
    /\ queue' = Append(queue, b)
    /\ rpc' = [j \in Rank |-> rpc[j] \o Calls(j, b)]

LEMMA IssueBatch ==
    ASSUME SchedInv, Issue
    PROVE  \E b \in Batch : IssuedBatch(b)
<1> DEFINE S == Scheduled(cur.batch)
           done == [r \in Req |-> IF r \in S THEN computed[r] + cur.batch[r].n
                                  ELSE computed[r]]
           fetch == NumSpec > 0 /\ \E r \in S : done[r] >= Prompt[r]
           b == [sched |-> Output, fin |-> finishedIds, fetch |-> fetch]
<1>1. Output \in Sched
  <2>1. \A r \in Req : Output[r] \in Entry
    BY OutputFields
  <2> QED
    BY <2>1 DEF Output, Sched
<1>2. finishedIds \subseteq Req
  BY DEF SchedInv, TypeInv, RequestTypes
<1>3. fetch \in BOOLEAN
  OBVIOUS
<1>4. /\ queue' = Append(queue, b)
      /\ rpc' = [j \in Rank |-> rpc[j] \o Calls(j, b)]
  BY DEF Issue
<1>5. b \in Batch
  <2> HIDE DEF fetch
  <2> QED
    BY <1>1, <1>2, <1>3 DEF Batch
<1>6. b.sched = Output /\ b.fin = finishedIds
  OBVIOUS
<1> HIDE DEF b
<1> QED
  BY <1>4, <1>5, <1>6 DEF IssuedBatch

LEMMA TypeIssue ==
    ASSUME SchedInv, Issue PROVE TypeInv'
<1>0. TypeInv
  BY DEF SchedInv
<1>1. PICK b \in Batch : IssuedBatch(b)
  BY IssueBatch
<1>2. RankTypes'
  <2>1. \A j \in Rank : rpc[j] \o Calls(j, b) \in Seq(Messages)
    BY <1>0, CallsType DEF TypeInv, RankTypes
  <2>2. rpc' \in [Rank -> Seq(Messages)]
    BY <1>1, <2>1 DEF IssuedBatch
  <2> QED
    BY <1>0, <2>2 DEF Issue, TypeInv, RankTypes, rankVars
<1>3. EngineTypes'
  <2>0. queue \in Seq(Batch) /\ queue' = Append(queue, b)
    BY <1>0, <1>1 DEF IssuedBatch, TypeInv, EngineTypes
  <2>1. queue' \in Seq(Batch) /\ queue' # <<>>
    BY <2>0
  <2>2. cur' \in Call /\ pc' \in {"top", "pop"} /\ UNCHANGED <<draftFuts, results>>
    BY ConstantSched DEF Issue
  <2> QED
    BY <1>0, <2>1, <2>2 DEF TypeInv, EngineTypes
<1>4. \A r \in Req : /\ cur.batch[r].n \in Int
                     /\ End(cur.batch[r]) \in Int
  BY <1>0, NextTypes DEF Entry, End
<1>5. CounterTypes'
  <2>1. computed' \in [Req -> Int] /\ inFlight' \in [Req -> Int]
    BY <1>0, <1>4 DEF Issue, TypeInv, CounterTypes
  <2> QED
    BY <1>0, <2>1 DEF Issue, TypeInv, CounterTypes
<1>6. RequestTypes'
  <2>1. chunk' \in [Req -> BOOLEAN]
    <3>1. \A r \in Req : chunk[r] \in BOOLEAN
      BY <1>0 DEF TypeInv, RequestTypes
    <3> DEFINE S == Scheduled(cur.batch)
    <3>2. chunk' = [r \in Req |-> IF r \in S
                      THEN computed[r] + cur.batch[r].n < NumTokens(r)
                      ELSE chunk[r]]
      BY DEF Issue
    <3>3. \A r \in Req : (computed[r] + cur.batch[r].n < NumTokens(r)) \in BOOLEAN
      OBVIOUS
    <3> QED
      BY <3>1, <3>2, <3>3, Zenon
  <2>2. sent' \in [Req -> Nat]
    <3> SUFFICES ASSUME NEW r \in Req
                 PROVE  Max(Max(sent[r], Prompt[r]), End(cur.batch[r])) \in Nat
      BY <1>0 DEF Issue, TypeInv, RequestTypes
    <3> QED
      BY <1>0, <1>4, NextTypes, ConstantTypes DEF Max
  <2> QED
    BY <1>0, <2>1, <2>2 DEF Issue, TypeInv, RequestTypes
<1> QED
  BY <1>2, <1>3, <1>5, <1>6 DEF TypeInv

LEMMA SchedIssue ==
    ASSUME SchedInv, Issue PROVE SchedInv'
<1>0. TypeInv /\ TypeInv' /\ queue \in Seq(Batch)
  BY TypeIssue DEF SchedInv, TypeInv, EngineTypes
<1>1. PICK b \in Batch : IssuedBatch(b)
  BY IssueBatch
<1>2. /\ UNCHANGED <<status, out, running>> /\ cur' = NoCall
  BY DEF Issue
<1>3. RunningInv' /\ CallInv'
  BY <1>2, NothingScheduled DEF SchedInv, RunningInv, Distinct, CallInv
<1>4. LengthInv'
  <2>1. \A r \in Req : sent'[r] = sent[r]
          \/ /\ r \in Scheduled(cur.batch)
             /\ sent'[r] = Max(Max(sent[r], Prompt[r]), End(cur.batch[r]))
    BY DEF Issue
  <2>2. ASSUME NEW r \in Req PROVE sent'[r] <= NumTokens(r)
    <3>1. /\ sent[r] \in Nat /\ Prompt[r] \in Nat /\ NumTokens(r) \in Nat
          /\ Prompt[r] <= NumTokens(r) /\ sent[r] <= NumTokens(r)
      BY <1>0, NextTypes, ConstantTypes DEF SchedInv, LengthInv
    <3>2. End(cur.batch[r]) \in Int
      BY <1>0, NextTypes DEF Entry, End
    <3>3. r \in Scheduled(cur.batch) => End(cur.batch[r]) <= NumTokens(r)
      BY DEF SchedInv, CallInv, PlanOK
    <3> QED
      BY <2>1, <3>1, <3>2, <3>3 DEF Max
  <2> QED
    BY <1>2, <2>2 DEF SchedInv, LengthInv, NumTokens
<1>5. ASSUME NEW r \in Scheduled(b.sched)
      PROVE  /\ r \in Scheduled(cur.batch)
             /\ b.sched[r].k < b.sched[r].n
  <2>1. r \in Req /\ b.sched[r] = Output[r] /\ b.sched[r].kind # "none"
    BY <1>1, <1>5 DEF Scheduled, IssuedBatch
  <2>2. /\ b.sched[r].kind = cur.batch[r].kind
        /\ b.sched[r].n = cur.batch[r].n /\ b.sched[r].k = cur.batch[r].k
    BY <2>1, OutputFields
  <2>3. r \in Scheduled(cur.batch)
    BY <2>1, <2>2 DEF Scheduled
  <2> QED
    BY <2>2, <2>3 DEF SchedInv, CallInv, PlanOK
<1>6. /\ DOMAIN queue' = 1..(Len(queue) + 1) /\ Len(queue) \in Nat
      /\ \A i \in 1..Len(queue) : queue'[i] = queue[i] /\ i \in DOMAIN queue
      /\ queue'[Len(queue) + 1] = b
  BY <1>0, <1>1 DEF IssuedBatch
<1>7. FreshInv'
  <2>1. \A r \in Req : status[r] \in {"unknown", "waiting"} => sent'[r] = sent[r]
    BY DEF Issue, SchedInv, CallInv, Scheduled
  <2>2. ASSUME NEW i \in DOMAIN queue', NEW r \in Scheduled(queue'[i].sched)
        PROVE  status[r] \notin {"unknown", "waiting"}
    <3>1. CASE i \in 1..Len(queue)
      BY <1>6, <2>2, <3>1 DEF SchedInv, FreshInv
    <3>2. CASE i = Len(queue) + 1
      BY <1>5, <1>6, <2>2, <3>2 DEF SchedInv, CallInv
    <3> QED
      BY <1>6, <3>1, <3>2
  <2> QED
    BY <1>2, <2>1, <2>2 DEF SchedInv, FreshInv, Scheduled
<1>8. NoDraftOnlyStep'
  <2>1. ASSUME NEW i \in DOMAIN queue', NEW r \in Scheduled(queue'[i].sched)
        PROVE  queue'[i].sched[r].k < queue'[i].sched[r].n
    <3>1. CASE i \in 1..Len(queue)
      BY <1>6, <2>1, <3>1 DEF SchedInv, NoDraftOnlyStep
    <3>2. CASE i = Len(queue) + 1
      BY <1>5, <1>6, <2>1, <3>2
    <3> QED
      BY <1>6, <3>1, <3>2
  <2> QED
    BY <2>1 DEF NoDraftOnlyStep, Scheduled
<1> QED
  BY <1>0, <1>3, <1>4, <1>7, <1>8 DEF SchedInv

-----------------------------------------------------------------------------
LEMMA SchedAwaitResult ==
    ASSUME SchedInv, AwaitResult PROVE SchedInv'
<1>1. TypeInv'
  <2>1. RankTypes' /\ CounterTypes' /\ RequestTypes'
    BY SameRanks, SameCounters, SameRequests
       DEF AwaitResult, reqVars, queueVars, SchedInv
  <2>2. EngineTypes'
    BY DEF AwaitResult, SchedInv, TypeInv, EngineTypes
  <2> QED
    BY <2>1, <2>2 DEF TypeInv
<1>2. CallInv'
  BY DEF AwaitResult, SchedInv, CallInv, PlanOK, NumTokens, reqVars
<1> QED
  BY <1>1, <1>2, SchedSame DEF AwaitResult, SchedInv, SchedRest, reqVars, queueVars

\* What follows the first stop is cut off, so the output ends within the model.
LEMMA TrimmedLength ==
    ASSUME TypeInv, NEW r \in Req, NEW g \in Seq(Token),
           NumTokens(r) < MaxModelLen
    PROVE  /\ Trimmed(r, g) \in Seq(Token)
           /\ NumTokens(r) + Len(Trimmed(r, g)) <= MaxModelLen
           /\ ~Stops(r, g) => NumTokens(r) + Len(Trimmed(r, g)) < MaxModelLen
<1>0. /\ NumTokens(r) \in Nat /\ MaxModelLen \in Nat
      /\ DOMAIN g = 1..Len(g) /\ Len(g) \in Nat
  BY NextTypes, ConstantTypes
<1>1. CASE ~Stops(r, g)
  <2>1. Trimmed(r, g) = g
    BY <1>1 DEF Trimmed
  <2>2. Len(g) > 0 => ~StopsAt(r, g, Len(g))
    BY <1>0, <1>1 DEF Stops
  <2> QED
    BY <1>0, <1>1, <2>1, <2>2 DEF StopsAt
<1>2. CASE Stops(r, g)
  <2> DEFINE T == {i \in DOMAIN g : StopsAt(r, g, i)}
             First(i) == StopsAt(r, g, i) /\ \A j \in 1..(i-1) : ~StopsAt(r, g, j)
  <2>1. T \in SUBSET Nat /\ T # {}
    BY <1>0, <1>2 DEF Stops
  <2>2. PICK i \in T : \A j \in T : i <= j
    BY <2>1, NatMin
  <2>3. i \in DOMAIN g /\ First(i)
    BY <1>0, <2>1, <2>2
  <2> DEFINE c == CHOOSE x \in DOMAIN g : First(x)
  <2>4. c \in DOMAIN g /\ First(c)
    BY <2>3
  <2>5. Trimmed(r, g) = SubSeq(g, 1, c)
    BY <1>2 DEF Trimmed
  <2> HIDE DEF c
  <2>6. Trimmed(r, g) \in Seq(Token) /\ Len(Trimmed(r, g)) = c
    BY <1>0, <2>4, <2>5, SubSeqType
  <2>7. c > 1 => ~StopsAt(r, g, c - 1)
    BY <1>0, <2>4
  <2>8. NumTokens(r) + c <= MaxModelLen
    BY <1>0, <2>4, <2>7 DEF StopsAt
  <2> QED
    BY <1>2, <2>6, <2>8
<1> QED
  BY <1>1, <1>2

\* The batch and the result that UpdateFromOutput processes.
LEMMA Processed ==
    ASSUME TypeInv, pc = "update", NEW r \in Req
    PROVE  /\ queue # <<>> /\ Head(queue) \in Batch
           /\ Head(queue).sched[r] \in Entry
           /\ Head(results)[r] \in Seq(Token)
           /\ Rejected(r) \in Int
<1>1. queue \in Seq(Batch) /\ queue # <<>> /\ results # <<>>
      /\ results \in Seq([Req -> Seq(Token)])
  BY DEF TypeInv, EngineTypes
<1>2. Head(queue) \in Batch /\ Head(results) \in [Req -> Seq(Token)]
  BY <1>1
<1>3. Head(queue).sched[r] \in Entry /\ Head(results)[r] \in Seq(Token)
  BY <1>2 DEF Batch, Sched
<1>4. Head(queue).sched[r].k \in Nat /\ Len(Head(results)[r]) \in Nat
  BY <1>3 DEF Entry
<1>5. Rejected(r) \in Int
  BY <1>4 DEF Rejected
<1> QED
  BY <1>1, <1>2, <1>3, <1>5

\* What an output does to a request: its output grows by the trimmed tokens, and
\* a request that stops is finished.
LEMMA Delivery ==
    ASSUME SchedInv, UpdateFromOutput, NEW r \in Req
    PROVE  /\ out'[r] \in Seq(Token)
           /\ \E t \in Seq(Token) : out'[r] = out[r] \o t
           /\ out'[r] # out[r] => /\ status[r] \notin {"unknown", "waiting", "finished"}
                                  /\ r \in Scheduled(Head(queue).sched)
           /\ NumTokens(r)' <= MaxModelLen
           /\ Stopped(r) => /\ Live(r) /\ r \in Scheduled(Head(queue).sched)
           /\ status[r] # "finished" /\ ~Stopped(r) => NumTokens(r)' < MaxModelLen
<1> DEFINE g == Head(results)[r]
           D == r \in Scheduled(Head(queue).sched) /\ Live(r) /\ Delivers(r)
<1>0. TypeInv /\ pc = "update"
  BY DEF SchedInv, UpdateFromOutput
<1>1. g \in Seq(Token) /\ queue # <<>> /\ queue \in Seq(Batch)
  BY <1>0, Processed DEF TypeInv, EngineTypes
<1>2. out'[r] = IF D THEN out[r] \o Trimmed(r, g) ELSE out[r]
  BY DEF UpdateFromOutput
<1>3. /\ out[r] \in Seq(Token) /\ NumTokens(r) \in Nat /\ MaxModelLen \in Nat
      /\ Prompt[r] \in Nat /\ Len(out[r]) \in Nat
      /\ NumTokens(r) = Prompt[r] + Len(out[r])
  BY <1>0, NextTypes, ConstantTypes DEF NumTokens
<1>4. CASE ~D
  <2>1. out'[r] = out[r] /\ out[r] = out[r] \o <<>> /\ <<>> \in Seq(Token)
    BY <1>2, <1>3, <1>4
  <2>2. ~Stopped(r)
    BY <1>4 DEF Stopped, Delivers
  <2>3. NumTokens(r)' = NumTokens(r)
    BY <2>1 DEF NumTokens
  <2> QED
    BY <1>3, <2>1, <2>2, <2>3 DEF SchedInv, LengthInv
<1>5. CASE D
  <2>1. /\ status[r] \notin {"unknown", "finished"}
        /\ NumTokens(r) < MaxModelLen
    BY <1>5 DEF Live, SchedInv, LengthInv
  <2>2. status[r] # "waiting"
    <3>1. Head(queue) = queue[1] /\ 1 \in DOMAIN queue
      BY <1>1
    <3> QED
      BY <1>5, <3>1 DEF SchedInv, FreshInv
  <2> DEFINE t == Trimmed(r, g)
  <2>3. /\ t \in Seq(Token) /\ NumTokens(r) + Len(t) <= MaxModelLen
        /\ ~Stops(r, g) => NumTokens(r) + Len(t) < MaxModelLen
    BY <1>0, <1>1, <2>1, TrimmedLength
  <2> HIDE DEF t
  <2>4. out'[r] = out[r] \o t
    BY <1>2, <1>5 DEF t
  <2>5. out'[r] \in Seq(Token) /\ Len(out'[r]) = Len(out[r]) + Len(t)
    BY <1>3, <2>3, <2>4
  <2>6. NumTokens(r)' = NumTokens(r) + Len(t)
    BY <1>3, <2>3, <2>5 DEF NumTokens
  <2>7. Stopped(r) <=> Stops(r, g)
    BY <1>5 DEF Stopped
  <2> QED
    BY <1>5, <2>1, <2>2, <2>3, <2>4, <2>5, <2>6, <2>7
<1> QED
  BY <1>4, <1>5

LEMMA TypeUpdateFromOutput ==
    ASSUME SchedInv, UpdateFromOutput PROVE TypeInv'
<1> DEFINE S == {r \in Scheduled(Head(queue).sched) : Live(r)}
           F == {r \in S : Stopped(r)}
<1>0. TypeInv /\ pc = "update"
  BY DEF SchedInv, UpdateFromOutput
<1>1. F \in SUBSET Req /\ FreeRequests(F)
  BY DEF UpdateFromOutput, Scheduled
<1>2. RequestTypes'
  BY <1>0, <1>1, TypeFree
<1>3. RankTypes'
  BY <1>0, SameRanks DEF UpdateFromOutput
<1>4. EngineTypes'
  <2>1. queue' \in Seq(Batch) /\ results' \in Seq([Req -> Seq(Token)])
    BY <1>0 DEF UpdateFromOutput, TypeInv, EngineTypes
  <2>2. pc' \in {"draft", "top"} /\ UNCHANGED <<cur, draftFuts>>
    BY DEF UpdateFromOutput
  <2> QED
    BY <1>0, <2>1, <2>2 DEF TypeInv, EngineTypes
<1>5. CounterTypes'
  <2>1. out' \in [Req -> Seq(Token)]
    <3>1. \A r \in Req : out'[r] \in Seq(Token)
      BY Delivery
    <3>2. DOMAIN out' = Req /\ out' = [r \in DOMAIN out' |-> out'[r]]
      BY DEF UpdateFromOutput
    <3> QED
      BY <3>1, <3>2
  <2>2. \A r \in Req : /\ Head(queue).sched[r].n \in Int /\ Rejected(r) \in Int
                       /\ inFlight[r] \in Int /\ stale[r] \in Int
                       /\ computed[r] \in Int
    BY <1>0, Processed DEF Entry, TypeInv, CounterTypes
  <2>3. inFlight' \in [Req -> Int] /\ stale' \in [Req -> Int]
    BY <2>2 DEF UpdateFromOutput, Forget
  <2>4. computed' \in [Req -> Int]
    BY <2>2 DEF UpdateFromOutput, Forget
  <2> QED
    BY <2>1, <2>3, <2>4 DEF CounterTypes
<1> QED
  BY <1>2, <1>3, <1>4, <1>5 DEF TypeInv

LEMMA SchedUpdateFromOutput ==
    ASSUME SchedInv, UpdateFromOutput PROVE SchedInv'
<1> DEFINE F == {r \in {r \in Scheduled(Head(queue).sched) : Live(r)} : Stopped(r)}
<1>0. TypeInv /\ TypeInv' /\ pc = "update" /\ queue \in Seq(Batch) /\ queue # <<>>
  BY TypeUpdateFromOutput DEF SchedInv, UpdateFromOutput, TypeInv, EngineTypes
<1>1. F \in SUBSET Req /\ FreeRequests(F)
      /\ \A r \in F : status[r] \notin {"unknown", "finished"}
  BY DEF UpdateFromOutput, Scheduled, Live
<1>2. \A r \in Req : r \in F <=> Stopped(r)
  BY DEF Stopped, Delivers
<1> HIDE DEF F
<1>3. /\ RunningInv'
      /\ \A r \in Req : /\ r \in F => status'[r] = "finished" /\ sent'[r] = 0
                        /\ r \notin F => status'[r] = status[r] /\ sent'[r] = sent[r]
  BY <1>1, SchedFree
<1>4. LengthInv'
  <2> SUFFICES ASSUME NEW r \in Req
               PROVE  /\ NumTokens(r)' <= MaxModelLen
                      /\ status'[r] # "finished" => NumTokens(r)' < MaxModelLen
                      /\ sent'[r] <= NumTokens(r)'
    BY DEF LengthInv
  <2>1. /\ NumTokens(r)' <= MaxModelLen
        /\ status[r] # "finished" /\ ~Stopped(r) => NumTokens(r)' < MaxModelLen
    BY Delivery
  <2>2. PICK t \in Seq(Token) : out'[r] = out[r] \o t
    BY Delivery
  <2>3. /\ Prompt[r] \in Nat /\ out[r] \in Seq(Token) /\ sent[r] \in Nat
        /\ sent[r] <= Prompt[r] + Len(out[r])
    BY <1>0, NextTypes, ConstantTypes DEF SchedInv, LengthInv, NumTokens
  <2>4. sent[r] <= NumTokens(r)' /\ NumTokens(r)' >= 0
    BY <2>2, <2>3 DEF NumTokens
  <2> QED
    BY <1>2, <1>3, <2>1, <2>4
<1>5. /\ UNCHANGED cur /\ cur = NoCall
  BY <1>0 DEF UpdateFromOutput, SchedInv, CallInv
<1>6. CallInv'
  BY <1>5, NothingScheduled DEF CallInv
<1>7. /\ DOMAIN queue' = 1..(Len(queue) - 1) /\ DOMAIN queue = 1..Len(queue)
      /\ Len(queue) \in Nat
      /\ \A i \in DOMAIN queue' : queue'[i] = queue[i+1]
  BY <1>0 DEF UpdateFromOutput
<1>8. \A i \in DOMAIN queue' : i + 1 \in DOMAIN queue
  BY <1>7
<1>9. FreshInv'
  <2>1. ASSUME NEW r \in Req, status'[r] \in {"unknown", "waiting"}
        PROVE  out'[r] = <<>> /\ sent'[r] = 0
    <3>1. status[r] = status'[r] /\ sent'[r] = sent[r]
      BY <1>3, <2>1
    <3>2. out'[r] = out[r]
      BY <2>1, <3>1, Delivery
    <3> QED
      BY <2>1, <3>1, <3>2 DEF SchedInv, FreshInv
  <2>2. ASSUME NEW i \in DOMAIN queue', NEW r \in Scheduled(queue'[i].sched)
        PROVE  status'[r] \notin {"unknown", "waiting"}
    <3>1. r \in Req /\ r \in Scheduled(queue[i+1].sched)
      BY <1>7, <2>2 DEF Scheduled
    <3>2. status[r] \notin {"unknown", "waiting"}
      BY <1>8, <3>1 DEF SchedInv, FreshInv
    <3> QED
      BY <1>3, <3>1, <3>2
  <2> QED
    BY <2>1, <2>2 DEF FreshInv, Scheduled
<1>10. NoDraftOnlyStep'
  BY <1>7, <1>8 DEF SchedInv, NoDraftOnlyStep, Scheduled
<1> QED
  BY <1>0, <1>3, <1>4, <1>6, <1>9, <1>10 DEF SchedInv

LEMMA SchedUpdateDrafts ==
    ASSUME SchedInv, UpdateDrafts PROVE SchedInv'
<1>0. TypeInv /\ pc = "draft" /\ draftFuts # <<>> /\ draftFuts \in Seq(DraftSet)
  BY DEF SchedInv, UpdateDrafts, TypeInv, EngineTypes
<1>1. RankTypes' /\ CounterTypes'
  BY <1>0, SameRanks, SameCounters DEF UpdateDrafts
<1>2. RequestTypes'
  <2> DEFINE d == Head(draftFuts)
  <2>1. d \in DraftSet
    BY <1>0
  <2>2. PICK S \in SUBSET Req : d \in [S -> [n : 0..NumSpec, base : Nat]]
    BY <2>1 DEF DraftSet
  <2>3. \A r \in DOMAIN d : d[r].n \in 0..NumSpec
    BY <2>2
  <2> HIDE DEF d
  <2>4. spec' = [r \in Req |-> IF r \in DOMAIN d /\ Live(r)
                               THEN IF chunk[r] THEN 0 ELSE d[r].n
                               ELSE spec[r]]
    BY DEF UpdateDrafts, d
  <2>5. spec' \in [Req -> 0..NumSpec]
    BY <1>0, <2>3, <2>4, ConstantTypes DEF TypeInv, RequestTypes
  <2> QED
    BY <1>0, <2>5 DEF UpdateDrafts, TypeInv, RequestTypes, queueVars
<1>3. EngineTypes'
  <2>1. draftFuts' \in Seq(DraftSet)
    BY <1>0 DEF UpdateDrafts
  <2> QED
    BY <1>0, <2>1 DEF UpdateDrafts, TypeInv, EngineTypes
<1>4. CallInv'
  BY NothingScheduled DEF UpdateDrafts, SchedInv, CallInv
<1>5. SchedRest'
  BY <1>4, SchedSame DEF UpdateDrafts, queueVars
<1> QED
  BY <1>1, <1>2, <1>3, <1>5 DEF SchedInv, SchedRest, TypeInv

-----------------------------------------------------------------------------
\* The message a rank handles.
LEMMA Handled ==
    ASSUME TypeInv, NEW k \in Rank, rpc[k] # <<>>
    PROVE  LET b == Head(rpc[k]).batch IN
           /\ rpc[k] \in Seq(Messages) /\ Head(rpc[k]) = rpc[k][1]
           /\ b \in Batch /\ b.fin \subseteq Req
           /\ Scheduled(b.sched) \subseteq Req
           /\ \A r \in Req : b.sched[r] \in Entry
<1>1. rpc[k] \in Seq(Messages)
  BY DEF TypeInv, RankTypes
<1>2. Head(rpc[k]) \in Messages /\ Head(rpc[k]) = rpc[k][1]
  BY <1>1
<1>3. Head(rpc[k]).batch \in Batch
  BY <1>2 DEF Messages
<1> QED
  BY <1>1, <1>2, <1>3 DEF Batch, Sched, Scheduled

LEMMA HistType ==
    ASSUME TypeInv, NEW k \in Rank, NEW r \in Req, NEW e \in Entry
    PROVE  NextHist(k, r, e) \in Seq(Token)
<1>1. /\ hist[k][r] \in Seq(Token) /\ Len(hist[k][r]) \in Nat
      /\ e.ids \in Seq(Token) /\ Len(e.ids) \in Nat /\ e.nout \in Nat
      /\ End(e) \in Int
  BY DEF TypeInv, RankTypes, Entry, End
<1>2. Unseen(k, r, e) \in Seq(Token)
  <2> DEFINE dup == Max(0, Prompt[r] + Len(hist[k][r]) - (End(e) - Len(e.ids)))
  <2>0. Prompt[r] \in Nat
    BY ConstantTypes
  <2>1. dup \in Nat
    <3>1. Prompt[r] + Len(hist[k][r]) - (End(e) - Len(e.ids)) \in Int
      BY <1>1, <2>0, SMTT(30)
    <3> QED
      BY <3>1, MinMax
  <2> HIDE DEF dup
  <2>2. SubSeq(e.ids, dup + 1, Len(e.ids)) \in Seq(Token)
    BY <1>1, <2>1, SubSeqType
  <2> QED
    BY <2>2 DEF Unseen, dup
<1>3. SubSeq(hist[k][r], 1, Min(e.nout, Len(hist[k][r]))) \in Seq(Token)
  <2>1. Min(e.nout, Len(hist[k][r])) \in Int
        /\ Min(e.nout, Len(hist[k][r])) <= Len(hist[k][r])
    BY <1>1 DEF Min
  <2> QED
    BY <1>1, <2>1, SubSeqType
<1> QED
  BY <1>1, <1>2, <1>3 DEF NextHist

LEMMA TypeUpdateStates ==
    ASSUME TypeInv, NEW k \in Rank, rpc[k] # <<>>,
           NEW gen \in [Req -> Seq(Token)],
           UpdateStates(k, Head(rpc[k]).batch, gen)
    PROVE  /\ known' \in [Rank -> SUBSET Req]
           /\ inBatch' \in [Rank -> SUBSET Req]
           /\ hist' \in [Rank -> [Req -> Seq(Token)]]
<1> DEFINE b == Head(rpc[k]).batch
           S == Scheduled(b.sched)
<1>1. /\ b.fin \subseteq Req /\ S \subseteq Req
      /\ \A r \in Req : b.sched[r] \in Entry
  BY Handled
<1> HIDE DEF b, S
<1>2. /\ known' = [known EXCEPT ![k] = (@ \ b.fin) \cup S]
      /\ inBatch' = [inBatch EXCEPT ![k] = S]
      /\ hist' = [hist EXCEPT ![k] = [r \in Req |->
                   IF r \in S THEN NextHist(k, r, b.sched[r]) \o gen[r]
                   ELSE IF r \in b.fin THEN <<>> ELSE hist[k][r]]]
  BY DEF UpdateStates, b, S
<1>3. known' \in [Rank -> SUBSET Req] /\ inBatch' \in [Rank -> SUBSET Req]
  BY <1>1, <1>2 DEF TypeInv, RankTypes
<1>4. ASSUME NEW r \in Req
      PROVE  (IF r \in S THEN NextHist(k, r, b.sched[r]) \o gen[r]
              ELSE IF r \in b.fin THEN <<>> ELSE hist[k][r]) \in Seq(Token)
  <2>1. NextHist(k, r, b.sched[r]) \in Seq(Token) /\ gen[r] \in Seq(Token)
    BY <1>1, HistType
  <2>2. hist[k][r] \in Seq(Token)
    BY DEF TypeInv, RankTypes
  <2> QED
    BY <2>1, <2>2
<1>5. hist' \in [Rank -> [Req -> Seq(Token)]]
  BY <1>2, <1>4 DEF TypeInv, RankTypes
<1> QED
  BY <1>3, <1>5

LEMMA TypeRankExecute ==
    ASSUME TypeInv, NEW k \in Rank, RankExecute(k) PROVE TypeInv'
<1>1. RequestTypes' /\ CounterTypes' /\ EngineTypes'
  BY SameRequests, SameCounters, SameEngine DEF RankExecute, reqVars, queueVars
<1>2. rpc[k] # <<>> /\ rpc[k] \in Seq(Messages)
  BY Handled DEF RankExecute, AtExec
<1>3. rpc' \in [Rank -> Seq(Messages)]
  BY <1>2 DEF RankExecute, PassOn, TypeInv, RankTypes
<1>4. [r \in Req |-> <<>>] \in [Req -> Seq(Token)]
  OBVIOUS
<1>5. /\ known' \in [Rank -> SUBSET Req]
      /\ inBatch' \in [Rank -> SUBSET Req]
      /\ hist' \in [Rank -> [Req -> Seq(Token)]]
  BY <1>2, <1>4, TypeUpdateStates DEF RankExecute
<1>6. RankTypes'
  BY <1>3, <1>5 DEF RankExecute, TypeInv, RankTypes
<1> QED
  BY <1>1, <1>6 DEF TypeInv

\* The last rank's step.
LEMMA TypeRankSample ==
    ASSUME TypeInv, NEW gen \in [Req -> Generated], NEW d \in [Req -> 0..NumSpec],
           AtExec(PP), RankSample(gen, d)
    PROVE  TypeInv'
<1> DEFINE b == Head(rpc[PP]).batch
           S == Scheduled(b.sched)
<1>0. PP \in Rank
  BY ConstantTypes DEF Rank
<1>1. RequestTypes' /\ CounterTypes'
  BY SameRequests, SameCounters DEF RankSample, reqVars, queueVars
<1>2. gen \in [Req -> Seq(Token)]
  <2>1. ASSUME NEW x \in Generated PROVE x \in Seq(Token)
    <3>1. PICK m \in 0..(NumSpec + 1) : x \in [1..m -> Token]
      BY DEF Generated
    <3> QED
      BY <3>1, ConstantTypes, SeqDef
  <2> QED
    BY <2>1
<1>3. rpc[PP] # <<>> /\ rpc[PP] \in Seq(Messages) /\ S \subseteq Req
  BY <1>0, Handled DEF AtExec
<1>4. rpc' \in [Rank -> Seq(Messages)]
  BY <1>0, <1>3 DEF RankSample, PassOn, TypeInv, RankTypes
<1>5. /\ known' \in [Rank -> SUBSET Req]
      /\ inBatch' \in [Rank -> SUBSET Req]
      /\ hist' \in [Rank -> [Req -> Seq(Token)]]
  BY <1>0, <1>2, <1>3, TypeUpdateStates DEF RankSample
<1>6. proposed' \in DraftSet
  <2>1. CASE S = {}
    BY <2>1 DEF RankSample, TypeInv, RankTypes
  <2>2. CASE S # {}
    <3>1. proposed' = [r \in S |-> [n |-> d[r], base |-> Len(hist'[PP][r])]]
      BY <2>2 DEF RankSample
    <3>2. \A r \in S : d[r] \in 0..NumSpec /\ Len(hist'[PP][r]) \in Nat
      BY <1>0, <1>3, <1>5
    <3> HIDE DEF S
    <3>3. proposed' \in [S -> [n : 0..NumSpec, base : Nat]]
      BY <3>1, <3>2
    <3> QED
      BY <1>3, <3>3 DEF DraftSet
  <2> QED
    BY <2>1, <2>2
<1>7. RankTypes'
  BY <1>4, <1>5, <1>6 DEF RankTypes
<1>8. EngineTypes'
  <2>1. results' \in Seq([Req -> Seq(Token)]) /\ results' # <<>>
    <3>1. results \in Seq([Req -> Seq(Token)]) /\ results' = Append(results, gen)
      BY DEF RankSample, TypeInv, EngineTypes
    <3> QED
      BY <1>2, <3>1
  <2> QED
    BY <2>1 DEF RankSample, TypeInv, EngineTypes, engVars
<1> QED
  BY <1>1, <1>7, <1>8 DEF TypeInv

LEMMA TypeTakeDrafts ==
    ASSUME TypeInv, RankTakeDrafts PROVE TypeInv'
<1>0. PP \in Rank
  BY ConstantTypes DEF Rank
<1>1. RequestTypes' /\ CounterTypes'
  BY SameRequests, SameCounters DEF RankTakeDrafts, reqVars, queueVars
<1>2. rpc[PP] # <<>> /\ rpc[PP] \in Seq(Messages)
  BY <1>0, Handled DEF RankTakeDrafts
<1>3. RankTypes'
  BY <1>0, <1>2 DEF RankTakeDrafts, TypeInv, RankTypes, rankVars
<1>4. [r \in DOMAIN proposed \cap inBatch[PP] |-> proposed[r]] \in DraftSet
  <2>1. PICK S \in SUBSET Req : proposed \in [S -> [n : 0..NumSpec, base : Nat]]
    BY DEF TypeInv, RankTypes, DraftSet
  <2> DEFINE U == DOMAIN proposed \cap inBatch[PP]
  <2>2. U \in SUBSET Req /\ \A r \in U : proposed[r] \in [n : 0..NumSpec, base : Nat]
    BY <2>1
  <2> HIDE DEF U
  <2>3. [r \in U |-> proposed[r]] \in [U -> [n : 0..NumSpec, base : Nat]]
    BY <2>2
  <2> QED
    BY <2>2, <2>3 DEF DraftSet, U
<1>5. EngineTypes'
  BY <1>4 DEF RankTakeDrafts, TypeInv, EngineTypes
<1> QED
  BY <1>1, <1>3, <1>5 DEF TypeInv

LEMMA SchedRanks ==
    ASSUME SchedInv, Ranks PROVE SchedInv'
<1>1. ASSUME NEW k \in Rank, RankExecute(k) PROVE SchedInv'
  <2>1. TypeInv'
    BY <1>1, TypeRankExecute DEF SchedInv
  <2>2. UNCHANGED <<status, out, sent, running, queue, pc, cur>>
    BY <1>1 DEF RankExecute, reqVars, queueVars, engVars
  <2> QED
    BY <2>1, <2>2, SchedSame, CallSame DEF SchedInv, SchedRest
<1>2. ASSUME NEW gen \in [Req -> Generated], NEW d \in [Req -> 0..NumSpec],
             AtExec(PP), RankSample(gen, d)
      PROVE  SchedInv'
  <2>1. TypeInv'
    BY <1>2, TypeRankSample DEF SchedInv
  <2>2. UNCHANGED <<status, out, sent, running, queue, pc, cur>>
    BY <1>2 DEF RankSample, reqVars, queueVars, engVars
  <2> QED
    BY <2>1, <2>2, SchedSame, CallSame DEF SchedInv, SchedRest
<1>3. CASE RankTakeDrafts
  <2>1. TypeInv'
    BY <1>3, TypeTakeDrafts DEF SchedInv
  <2>2. UNCHANGED <<status, out, sent, running, queue, pc, cur>>
    BY <1>3 DEF RankTakeDrafts, reqVars, queueVars
  <2> QED
    BY <2>1, <2>2, SchedSame, CallSame DEF SchedInv, SchedRest
<1> QED
  BY <1>1, <1>2, <1>3 DEF Ranks, LastRank

LEMMA SchedStutter ==
    ASSUME SchedInv, UNCHANGED vars PROVE SchedInv'
<1>1. UNCHANGED <<reqVars, queueVars, engVars, results, rpc, rankVars>>
  BY DEF vars
<1>2. RequestTypes' /\ CounterTypes' /\ EngineTypes' /\ RankTypes'
  BY <1>1, SameRequests, SameCounters, SameEngine, SameRanks
     DEF SchedInv, reqVars, queueVars
<1>3. UNCHANGED <<status, out, sent, running, queue, pc, cur>>
  BY <1>1 DEF reqVars, queueVars, engVars
<1> QED
  BY <1>2, <1>3, SchedSame, CallSame DEF SchedInv, SchedRest, TypeInv

LEMMA SchedNext == SchedInv /\ [Next]_vars => SchedInv'
<1> SUFFICES ASSUME SchedInv, [Next]_vars PROVE SchedInv'
  OBVIOUS
<1>1. CASE Schedule
  BY <1>1, SchedStartStep, SchedEndRunning, SchedEndWaiting, SchedIssue,
     SchedSkipRunning, SchedScheduleRunning, SchedSkipWaiting, SchedAdmit,
     SchedPreemptLast DEF Schedule
<1>2. CASE Process
  BY <1>2, SchedAwaitResult, SchedUpdateFromOutput, SchedUpdateDrafts DEF Process
<1>3. CASE Ranks
  BY <1>3, SchedRanks
<1>4. CASE Clients
  BY <1>4, SchedReset, SchedAddRequest, SchedAbort DEF Clients
<1>5. CASE UNCHANGED vars
  BY <1>5, SchedStutter
<1> QED
  BY <1>1, <1>2, <1>3, <1>4, <1>5 DEF Next

\* schedule() never issues a step of drafts only, whatever is in flight: what
\* the guard before NumNew, the cap at max_model_len and the stop check in
\* update_from_output together guarantee.
THEOREM NeverDraftsOnly == Spec => []NoDraftOnlyStep
<1>1. Init => SchedInv
  BY SchedInit
<1>2. SchedInv /\ [Next]_vars => SchedInv'
  BY SchedNext
<1>3. SchedInv => NoDraftOnlyStep
  BY DEF SchedInv
<1> QED
  BY <1>1, <1>2, <1>3, PTL DEF Spec
-----------------------------------------------------------------------------
(***************************************************************************)
(* What the ranks before the last one compute on is what the scheduler     *)
(* delivered.  The messages a rank has not handled form a chain: each      *)
(* entry of a request begins where the one before it ends, the first where *)
(* the rank's copy ends, and the last ends where the scheduler will begin  *)
(* the next.                                                               *)
(***************************************************************************)
To(e) == Max(e.from, End(e))
At(q, i, r) == q[i].batch.sched[r]
Has(q, i, r) == At(q, i, r).kind # "none"

\* An entry as it travels.
EntryOK(r, e) ==
    /\ e.k < e.n
    /\ Prompt[r] <= e.from
    /\ To(e) <= NumTokens(r)
    /\ e.kind # "new" =>
         e.ids = SubSeq(out[r], e.from - Prompt[r] + 1, End(e) - Prompt[r])
    /\ e.k > 0 => e.from <= End(e)
    /\ e.kind = "new" => e.from = Prompt[r] /\ End(e) <= Prompt[r]

\* The entries of r in q are consecutive, from position a on.
Chain(q, r, a) ==
    /\ \A i \in 1..Len(q) :
          Has(q, i, r) /\ (\A j \in 1..(i-1) : ~Has(q, j, r)) =>
             At(q, i, r).from = a
    /\ \A i, j \in 1..Len(q) :
          /\ i < j /\ Has(q, i, r) /\ Has(q, j, r)
          /\ \A l \in (i+1)..(j-1) : ~Has(q, l, r)
          => At(q, j, r).from = To(At(q, i, r))

\* They end at position z; if there are none, that is where they begin.
ChainEnd(q, r, a, z) ==
    /\ \A i \in 1..Len(q) :
          Has(q, i, r) /\ (\A j \in (i+1)..Len(q) : ~Has(q, j, r)) =>
             To(At(q, i, r)) = z
    /\ (\A i \in 1..Len(q) : ~Has(q, i, r)) => a = z

Sent(r) == Max(sent[r], Prompt[r])
Seen(k, r) == Prompt[r] + Len(hist[k][r])

\* A request is announced as finished once, after its last entry.
FinishInv ==
    /\ \A r \in finishedIds : status[r] = "finished"
    /\ \A k \in Rank : \A i \in 1..Len(rpc[k]) : \A r \in rpc[k][i].batch.fin :
          /\ status[r] = "finished"
          /\ \A j \in i..Len(rpc[k]) : ~Has(rpc[k], j, r)

ChainAt(k, r) ==
    /\ \A i \in 1..Len(rpc[k]) : Has(rpc[k], i, r) => EntryOK(r, At(rpc[k], i, r))
    /\ Chain(rpc[k], r, Seen(k, r))
    /\ status[r] # "finished" => ChainEnd(rpc[k], r, Seen(k, r), Sent(r))

\* A rank's copy is a prefix of the delivered output.
CopyAt(k, r) ==
    /\ Len(hist[k][r]) <= Len(out[r])
    /\ hist[k][r] = SubSeq(out[r], 1, Len(hist[k][r]))

\* What the last step read lies within the delivered output.
ReadAt(k) ==
    \A r \in DOMAIN inputs[k] :
        LET x == inputs[k][r] IN
        /\ r \in Req /\ x.lo \in Int /\ x.end \in Int
        /\ Prompt[r] <= x.lo /\ x.end <= NumTokens(r)
        /\ InputAgrees(k, r)

ChainInv == \A k \in Rank \ {PP}, r \in Req : ChainAt(k, r)
CopyInv  == \A k \in Rank \ {PP}, r \in Req : CopyAt(k, r)
ReadInv  == \A k \in Rank \ {PP} : ReadAt(k)

\* The row of the persistent batch is the copy, on every rank.
RowInv ==
    /\ row \in [Rank -> [Req -> Seq(Token)]]
    /\ inputs = [k \in Rank |-> inputs[k]]
    /\ \A k \in Rank, r \in Req :
          row[k][r] = IF r \in inBatch[k] THEN hist[k][r] ELSE <<>>

RankInv == FinishInv /\ ChainInv /\ CopyInv /\ RowInv /\ ReadInv
-----------------------------------------------------------------------------
(***************************************************************************)
(* Chains                                                                  *)
(***************************************************************************)
LEMMA TailEntries ==
    ASSUME NEW q \in Seq(Messages), q # <<>>, NEW r \in Req
    PROVE  /\ Tail(q) \in Seq(Messages)
           /\ Len(q) \in Nat /\ Len(q) >= 1 /\ Len(Tail(q)) = Len(q) - 1
           /\ \A i \in 1..(Len(q) - 1) :
                 /\ i + 1 \in 1..Len(q)
                 /\ Tail(q)[i] = q[i+1]
                 /\ At(Tail(q), i, r) = At(q, i+1, r)
                 /\ Has(Tail(q), i, r) <=> Has(q, i+1, r)
BY DEF At, Has

LEMMA ChainTail ==
    ASSUME NEW q \in Seq(Messages), q # <<>>, NEW r \in Req, NEW a, Chain(q, r, a)
    PROVE  Chain(Tail(q), r, IF Has(q, 1, r) THEN To(At(q, 1, r)) ELSE a)
<1> DEFINE t == Tail(q)
<1>0. /\ Len(q) \in Nat /\ Len(q) >= 1 /\ Len(t) = Len(q) - 1
      /\ \A i \in 1..(Len(q) - 1) : /\ i + 1 \in 1..Len(q)
                                    /\ At(t, i, r) = At(q, i+1, r)
                                    /\ Has(t, i, r) <=> Has(q, i+1, r)
  BY TailEntries
<1> HIDE DEF t
<1>1. ASSUME NEW i \in 1..Len(t), Has(t, i, r), \A j \in 1..(i-1) : ~Has(t, j, r)
      PROVE  At(t, i, r).from = IF Has(q, 1, r) THEN To(At(q, 1, r)) ELSE a
  <2>1. /\ i + 1 \in 1..Len(q) /\ Has(q, i+1, r) /\ At(t, i, r) = At(q, i+1, r)
        /\ 1 \in 1..Len(q) /\ 1 < i + 1
    BY <1>0, <1>1
  <2>2. \A l \in 2..i : ~Has(q, l, r)
    <3> TAKE l \in 2..i
    <3>1. l - 1 \in 1..(i-1) /\ l - 1 \in 1..(Len(q) - 1) /\ (l - 1) + 1 = l
      BY <1>0
    <3> QED
      BY <1>0, <1>1, <3>1
  <2>3. CASE Has(q, 1, r)
    <3>1. \A l \in (1+1)..((i+1)-1) : ~Has(q, l, r)
      BY <2>2
    <3> QED
      BY <2>1, <2>3, <3>1 DEF Chain
  <2>4. CASE ~Has(q, 1, r)
    <3>1. \A j \in 1..((i+1)-1) : ~Has(q, j, r)
      BY <2>2, <2>4
    <3> QED
      BY <2>1, <2>4, <3>1 DEF Chain
  <2> QED
    BY <2>3, <2>4
<1>2. ASSUME NEW i \in 1..Len(t), NEW j \in 1..Len(t), i < j, Has(t, i, r),
             Has(t, j, r), \A l \in (i+1)..(j-1) : ~Has(t, l, r)
      PROVE  At(t, j, r).from = To(At(t, i, r))
  <2>1. /\ i + 1 \in 1..Len(q) /\ Has(q, i+1, r) /\ At(t, i, r) = At(q, i+1, r)
        /\ j + 1 \in 1..Len(q) /\ Has(q, j+1, r) /\ At(t, j, r) = At(q, j+1, r)
        /\ i + 1 < j + 1
    BY <1>0, <1>2
  <2>2. \A l \in ((i+1)+1)..((j+1)-1) : ~Has(q, l, r)
    <3> TAKE l \in ((i+1)+1)..((j+1)-1)
    <3>1. /\ l - 1 \in (i+1)..(j-1) /\ l - 1 \in 1..(Len(q) - 1)
          /\ (l - 1) + 1 = l
      BY <1>0
    <3> QED
      BY <1>0, <1>2, <3>1
  <2> QED
    BY <2>1, <2>2 DEF Chain
<1>3. Chain(t, r, IF Has(q, 1, r) THEN To(At(q, 1, r)) ELSE a)
  BY <1>1, <1>2 DEF Chain
<1> QED
  BY <1>3 DEF t

LEMMA ChainEndTail ==
    ASSUME NEW q \in Seq(Messages), q # <<>>, NEW r \in Req, NEW a, NEW z,
           ChainEnd(q, r, a, z)
    PROVE  ChainEnd(Tail(q), r, IF Has(q, 1, r) THEN To(At(q, 1, r)) ELSE a, z)
<1> DEFINE t == Tail(q)
<1>0. /\ Len(q) \in Nat /\ Len(q) >= 1 /\ Len(t) = Len(q) - 1
      /\ \A i \in 1..(Len(q) - 1) : /\ i + 1 \in 1..Len(q)
                                    /\ At(t, i, r) = At(q, i+1, r)
                                    /\ Has(t, i, r) <=> Has(q, i+1, r)
  BY TailEntries
<1> HIDE DEF t
<1>1. \A l \in 2..Len(q) : Has(q, l, r) <=> Has(t, l-1, r)
  <2> TAKE l \in 2..Len(q)
  <2>1. l - 1 \in 1..(Len(q) - 1) /\ (l - 1) + 1 = l
    BY <1>0
  <2> QED
    BY <1>0, <2>1
<1>2. ASSUME NEW i \in 1..Len(t), Has(t, i, r),
             \A j \in (i+1)..Len(t) : ~Has(t, j, r)
      PROVE  To(At(t, i, r)) = z
  <2>1. \A l \in ((i+1)+1)..Len(q) : ~Has(q, l, r)
    <3> TAKE l \in ((i+1)+1)..Len(q)
    <3>1. l \in 2..Len(q) /\ l - 1 \in (i+1)..Len(t)
      BY <1>0
    <3> QED
      BY <1>1, <1>2, <3>1
  <2> QED
    BY <1>0, <1>2, <2>1 DEF ChainEnd
<1>3. ASSUME \A i \in 1..Len(t) : ~Has(t, i, r)
      PROVE  (IF Has(q, 1, r) THEN To(At(q, 1, r)) ELSE a) = z
  <2>1. \A l \in 2..Len(q) : ~Has(q, l, r)
    <3> TAKE l \in 2..Len(q)
    <3>1. l - 1 \in 1..Len(t)
      BY <1>0
    <3> QED
      BY <1>1, <1>3, <3>1
  <2>2. CASE Has(q, 1, r)
    <3>1. 1 \in 1..Len(q) /\ \A l \in (1+1)..Len(q) : ~Has(q, l, r)
      BY <1>0, <2>1
    <3> QED
      BY <2>2, <3>1 DEF ChainEnd
  <2>3. CASE ~Has(q, 1, r)
    <3>1. \A l \in 1..Len(q) : ~Has(q, l, r)
      BY <1>0, <2>1, <2>3
    <3> QED
      BY <2>3, <3>1 DEF ChainEnd
  <2> QED
    BY <2>2, <2>3
<1>4. ChainEnd(t, r, IF Has(q, 1, r) THEN To(At(q, 1, r)) ELSE a, z)
  BY <1>2, <1>3 DEF ChainEnd
<1> QED
  BY <1>4 DEF t

LEMMA AppendEntries ==
    ASSUME NEW q \in Seq(Messages), NEW m \in Messages, NEW r \in Req
    PROVE  /\ Len(q) \in Nat /\ Len(Append(q, m)) = Len(q) + 1
           /\ \A i \in 1..Len(q) :
                 /\ i \in 1..Len(Append(q, m))
                 /\ Append(q, m)[i] = q[i]
                 /\ At(Append(q, m), i, r) = At(q, i, r)
                 /\ Has(Append(q, m), i, r) <=> Has(q, i, r)
           /\ Append(q, m)[Len(q) + 1] = m
           /\ At(Append(q, m), Len(q) + 1, r) = m.batch.sched[r]
           /\ Has(Append(q, m), Len(q) + 1, r) <=> m.batch.sched[r].kind # "none"
BY DEF At, Has

\* A message without an entry of r changes nothing for r.
LEMMA ChainAppendOther ==
    ASSUME NEW q \in Seq(Messages), NEW m \in Messages, NEW r \in Req, NEW a,
           m.batch.sched[r].kind = "none"
    PROVE  /\ Chain(q, r, a) => Chain(Append(q, m), r, a)
           /\ \A z : ChainEnd(q, r, a, z) => ChainEnd(Append(q, m), r, a, z)
<1> DEFINE t == Append(q, m)
<1>0. /\ Len(q) \in Nat /\ Len(t) = Len(q) + 1
      /\ \A i \in 1..Len(q) : /\ i \in 1..Len(t)
                              /\ At(t, i, r) = At(q, i, r)
                              /\ Has(t, i, r) <=> Has(q, i, r)
      /\ ~Has(t, Len(q) + 1, r)
  BY AppendEntries
<1> HIDE DEF t
<1>1. \A i \in 1..Len(t) : Has(t, i, r) => i \in 1..Len(q)
  BY <1>0
<1>2. ASSUME Chain(q, r, a) PROVE Chain(t, r, a)
  <2>1. ASSUME NEW i \in 1..Len(t), Has(t, i, r), \A j \in 1..(i-1) : ~Has(t, j, r)
        PROVE  At(t, i, r).from = a
    <3>1. i \in 1..Len(q) /\ Has(q, i, r) /\ \A j \in 1..(i-1) : ~Has(q, j, r)
      BY <1>0, <1>1, <2>1
    <3> QED
      BY <1>0, <1>2, <3>1 DEF Chain
  <2>2. ASSUME NEW i \in 1..Len(t), NEW j \in 1..Len(t), i < j, Has(t, i, r),
               Has(t, j, r), \A l \in (i+1)..(j-1) : ~Has(t, l, r)
        PROVE  At(t, j, r).from = To(At(t, i, r))
    <3>1. /\ i \in 1..Len(q) /\ Has(q, i, r) /\ j \in 1..Len(q) /\ Has(q, j, r)
          /\ \A l \in (i+1)..(j-1) : ~Has(q, l, r)
      BY <1>0, <1>1, <2>2
    <3> QED
      BY <1>0, <1>2, <2>2, <3>1 DEF Chain
  <2> QED
    BY <2>1, <2>2 DEF Chain
<1>3. ASSUME NEW z, ChainEnd(q, r, a, z) PROVE ChainEnd(t, r, a, z)
  <2>1. ASSUME NEW i \in 1..Len(t), Has(t, i, r),
               \A j \in (i+1)..Len(t) : ~Has(t, j, r)
        PROVE  To(At(t, i, r)) = z
    <3>1. i \in 1..Len(q) /\ Has(q, i, r) /\ \A j \in (i+1)..Len(q) : ~Has(q, j, r)
      BY <1>0, <1>1, <2>1
    <3> QED
      BY <1>0, <1>3, <3>1 DEF ChainEnd
  <2>2. ASSUME \A i \in 1..Len(t) : ~Has(t, i, r) PROVE a = z
    BY <1>0, <1>3, <2>2 DEF ChainEnd
  <2> QED
    BY <2>1, <2>2 DEF ChainEnd
<1> QED
  BY <1>2, <1>3 DEF t

\* A message with an entry of r that begins where the chain ends.
LEMMA ChainAppend ==
    ASSUME NEW q \in Seq(Messages), NEW m \in Messages, NEW r \in Req, NEW a, NEW z,
           Chain(q, r, a), ChainEnd(q, r, a, z),
           m.batch.sched[r].kind # "none", m.batch.sched[r].from = z
    PROVE  /\ Chain(Append(q, m), r, a)
           /\ ChainEnd(Append(q, m), r, a, To(m.batch.sched[r]))
<1> DEFINE t == Append(q, m)
           e == m.batch.sched[r]
<1>0. /\ Len(q) \in Nat /\ Len(t) = Len(q) + 1
      /\ \A i \in 1..Len(q) : /\ i \in 1..Len(t)
                              /\ At(t, i, r) = At(q, i, r)
                              /\ Has(t, i, r) <=> Has(q, i, r)
      /\ Has(t, Len(q) + 1, r) /\ At(t, Len(q) + 1, r) = e
  BY AppendEntries
<1>1. e.from = z
  OBVIOUS
<1> HIDE DEF t, e
<1>2. \A i \in 1..Len(t) : i \in 1..Len(q) \/ i = Len(q) + 1
  BY <1>0
<1>3. ASSUME NEW i \in 1..Len(t), Has(t, i, r), \A j \in 1..(i-1) : ~Has(t, j, r)
      PROVE  At(t, i, r).from = a
  <2>1. CASE i \in 1..Len(q)
    <3>1. Has(q, i, r) /\ \A j \in 1..(i-1) : ~Has(q, j, r)
      BY <1>0, <1>3, <2>1
    <3> QED
      BY <1>0, <2>1, <3>1 DEF Chain
  <2>2. CASE i = Len(q) + 1
    <3>1. \A j \in 1..Len(q) : ~Has(q, j, r)
      BY <1>0, <1>3, <2>2
    <3>2. a = z
      BY <3>1 DEF ChainEnd
    <3> QED
      BY <1>0, <1>1, <2>2, <3>2
  <2> QED
    BY <1>2, <2>1, <2>2
<1>4. ASSUME NEW i \in 1..Len(t), NEW j \in 1..Len(t), i < j, Has(t, i, r),
             Has(t, j, r), \A l \in (i+1)..(j-1) : ~Has(t, l, r)
      PROVE  At(t, j, r).from = To(At(t, i, r))
  <2>1. CASE j \in 1..Len(q)
    <3>1. /\ i \in 1..Len(q) /\ Has(q, i, r) /\ Has(q, j, r)
          /\ \A l \in (i+1)..(j-1) : ~Has(q, l, r)
      BY <1>0, <1>4, <2>1
    <3> QED
      BY <1>0, <1>4, <2>1, <3>1 DEF Chain
  <2>2. CASE j = Len(q) + 1
    <3>1. /\ i \in 1..Len(q) /\ Has(q, i, r)
          /\ \A l \in (i+1)..Len(q) : ~Has(q, l, r)
      BY <1>0, <1>4, <2>2
    <3>2. To(At(q, i, r)) = z
      BY <3>1 DEF ChainEnd
    <3> QED
      BY <1>0, <1>1, <2>2, <3>1, <3>2
  <2> QED
    BY <1>2, <2>1, <2>2
<1>5. Chain(t, r, a)
  BY <1>3, <1>4 DEF Chain
<1>6. ASSUME NEW i \in 1..Len(t), Has(t, i, r),
             \A j \in (i+1)..Len(t) : ~Has(t, j, r)
      PROVE  To(At(t, i, r)) = To(e)
  <2>1. i = Len(q) + 1
    BY <1>0, <1>2, <1>6
  <2> QED
    BY <1>0, <2>1
<1>7. ChainEnd(t, r, a, To(e))
  <2>1. Len(q) + 1 \in 1..Len(t)
    BY <1>0
  <2> QED
    BY <1>0, <1>6, <2>1 DEF ChainEnd
<1> QED
  BY <1>5, <1>7 DEF t, e

-----------------------------------------------------------------------------
(***************************************************************************)
(* Steps that leave the ranks alone: output only grows, and what is        *)
(* finished stays finished.                                                *)
(***************************************************************************)
LEMMA EntryGrows ==
    ASSUME TypeInv, NEW r \in Req, NEW e \in Entry, EntryOK(r, e),
           NEW t \in Seq(Token), out'[r] = out[r] \o t
    PROVE  EntryOK(r, e)'
<1>1. /\ out[r] \in Seq(Token) /\ Len(out[r]) \in Nat /\ Len(t) \in Nat
      /\ Prompt[r] \in Nat /\ e.from \in Nat /\ End(e) \in Int
      /\ Len(out'[r]) = Len(out[r]) + Len(t)
  BY NextTypes, ConstantTypes DEF Entry, End
<1>2. /\ Prompt[r] <= e.from /\ e.from <= To(e) /\ End(e) <= To(e)
      /\ To(e) <= Prompt[r] + Len(out[r]) /\ To(e) \in Int
  BY <1>1 DEF EntryOK, To, Max, NumTokens
<1>3. SubSeq(out'[r], e.from - Prompt[r] + 1, End(e) - Prompt[r])
        = SubSeq(out[r], e.from - Prompt[r] + 1, End(e) - Prompt[r])
  <2>1. /\ e.from - Prompt[r] + 1 \in Int /\ End(e) - Prompt[r] \in Int
        /\ 1 <= e.from - Prompt[r] + 1 /\ End(e) - Prompt[r] <= Len(out[r])
    BY <1>1, <1>2, SMTT(30)
  <2>2. SubSeq(out[r] \o t, e.from - Prompt[r] + 1, End(e) - Prompt[r])
          = SubSeq(out[r], e.from - Prompt[r] + 1, End(e) - Prompt[r])
    <3> DEFINE a == e.from - Prompt[r] + 1
               b == End(e) - Prompt[r]
    <3>1. a \in Int /\ b \in Int /\ 1 <= a /\ b <= Len(out[r])
      BY <2>1
    <3> HIDE DEF a, b
    <3>2. SubSeq(out[r] \o t, a, b) = SubSeq(out[r], a, b)
      BY <1>1, <3>1, SubSeqConcat
    <3> QED
      BY <3>2 DEF a, b
  <2> QED
    BY <2>2
<1>4. To(e) <= NumTokens(r)'
  BY <1>1, <1>2 DEF NumTokens
<1> QED
  BY <1>3, <1>4 DEF EntryOK, To, End

LEMMA RankGrows ==
    ASSUME SchedInv, RankInv, UNCHANGED <<rpc, rankVars>>,
           \A r \in Req :
              /\ \E t \in Seq(Token) : out'[r] = out[r] \o t
              /\ status[r] = "finished" => status'[r] = "finished"
              /\ status'[r] # "finished" => sent'[r] = sent[r],
           finishedIds' \subseteq Req,
           \A r \in finishedIds' : status'[r] = "finished"
    PROVE  RankInv'
<1>0. TypeInv /\ UNCHANGED <<rpc, hist, inBatch, row, inputs>>
  BY DEF SchedInv, rankVars
<1>1. FinishInv'
  <2>1. ASSUME NEW k \in Rank, NEW i \in 1..Len(rpc[k]), NEW r \in rpc[k][i].batch.fin
        PROVE  status'[r] = "finished" /\ \A j \in i..Len(rpc[k]) : ~Has(rpc[k], j, r)
    <3>1. status[r] = "finished" /\ \A j \in i..Len(rpc[k]) : ~Has(rpc[k], j, r)
      BY DEF RankInv, FinishInv
    <3>2. r \in Req
      <4>1. rpc[k] \in Seq(Messages)
        BY <1>0 DEF TypeInv, RankTypes
      <4>2. rpc[k][i] \in Messages
        BY <4>1
      <4> QED
        BY <4>2 DEF Messages, Batch
    <3> QED
      BY <3>1, <3>2
  <2> QED
    BY <1>0, <2>1 DEF FinishInv, Has, At
<1>2. ChainInv'
  <2>0. SUFFICES ASSUME NEW k \in Rank \ {PP}, NEW r \in Req
                 PROVE  /\ (\A i \in 1..Len(rpc[k]) :
                              Has(rpc[k], i, r) => EntryOK(r, At(rpc[k], i, r)))'
                        /\ Chain(rpc[k], r, Seen(k, r))'
                        /\ status'[r] # "finished" =>
                             ChainEnd(rpc[k], r, Seen(k, r), Sent(r))'
    BY DEF ChainInv, ChainAt
  <2>1. ASSUME NEW i \in 1..Len(rpc[k]), Has(rpc[k], i, r)
        PROVE  EntryOK(r, At(rpc[k], i, r))'
    <3>1. At(rpc[k], i, r) \in Entry
      <4>1. rpc[k] \in Seq(Messages)
        BY <1>0 DEF TypeInv, RankTypes
      <4>2. rpc[k][i] \in Messages
        BY <4>1
      <4> QED
        BY <4>2 DEF At, Messages, Batch, Sched
    <3>2. EntryOK(r, At(rpc[k], i, r))
      BY <2>1 DEF RankInv, ChainInv, ChainAt
    <3>3. PICK e \in Entry : e = At(rpc[k], i, r) /\ EntryOK(r, e)
      BY <3>1, <3>2
    <3>4. PICK t \in Seq(Token) : out'[r] = out[r] \o t
      OBVIOUS
    <3>5. EntryOK(r, e)'
      BY <1>0, <3>3, <3>4, EntryGrows
    <3>6. At(rpc[k], i, r)' = e
      BY <1>0, <3>3 DEF At
    <3> QED
      BY <3>5, <3>6 DEF EntryOK, To, End
  <2>2. Chain(rpc[k], r, Seen(k, r))'
    <3>1. Chain(rpc[k], r, Seen(k, r))
      BY DEF RankInv, ChainInv, ChainAt
    <3>2. Seen(k, r)' = Seen(k, r) /\ UNCHANGED rpc
      BY <1>0 DEF Seen
    <3> QED
      BY <3>1, <3>2
  <2>3. ASSUME status'[r] # "finished"
        PROVE  ChainEnd(rpc[k], r, Seen(k, r), Sent(r))'
    <3>1. status[r] # "finished" /\ sent'[r] = sent[r]
      BY <2>3
    <3>2. Sent(r)' = Sent(r) /\ Seen(k, r)' = Seen(k, r) /\ UNCHANGED rpc
      BY <1>0, <3>1 DEF Sent, Seen
    <3>3. ChainEnd(rpc[k], r, Seen(k, r), Sent(r))
      BY <3>1 DEF RankInv, ChainInv, ChainAt
    <3> QED
      BY <3>2, <3>3
  <2>4. (\A i \in 1..Len(rpc[k]) : Has(rpc[k], i, r) => EntryOK(r, At(rpc[k], i, r)))'
    BY <1>0, <2>1 DEF Has, At
  <2> QED
    BY <2>2, <2>3, <2>4
<1>3. CopyInv'
  <2> SUFFICES ASSUME NEW k \in Rank \ {PP}, NEW r \in Req
               PROVE  /\ Len(hist[k][r]) <= Len(out'[r])
                      /\ hist[k][r] = SubSeq(out'[r], 1, Len(hist[k][r]))
    BY <1>0 DEF CopyInv, CopyAt
  <2>1. PICK t \in Seq(Token) : out'[r] = out[r] \o t
    OBVIOUS
  <2>2. /\ out[r] \in Seq(Token) /\ hist[k][r] \in Seq(Token)
        /\ Len(hist[k][r]) \in Nat /\ Len(out[r]) \in Nat /\ Len(t) \in Nat
        /\ Len(out'[r]) = Len(out[r]) + Len(t)
    BY <1>0, <2>1, NextTypes DEF TypeInv, RankTypes
  <2>3. /\ Len(hist[k][r]) <= Len(out[r])
        /\ hist[k][r] = SubSeq(out[r], 1, Len(hist[k][r]))
    BY DEF RankInv, CopyInv, CopyAt
  <2>4. SubSeq(out[r] \o t, 1, Len(hist[k][r])) = SubSeq(out[r], 1, Len(hist[k][r]))
    BY <2>2, <2>3, SubSeqConcat
  <2> QED
    BY <2>1, <2>2, <2>3, <2>4, SMTT(30)
<1>4. RowInv'
  BY <1>0 DEF RankInv, RowInv
<1>5. ReadInv'
  <2> SUFFICES ASSUME NEW k \in Rank \ {PP}, NEW r \in DOMAIN inputs[k]
               PROVE  LET x == inputs[k][r] IN
                      /\ r \in Req /\ x.lo \in Int /\ x.end \in Int
                      /\ Prompt[r] <= x.lo /\ x.end <= NumTokens(r)'
                      /\ InputAgrees(k, r)'
    BY <1>0 DEF ReadInv, ReadAt
  <2> DEFINE x == inputs[k][r]
  <2>1. /\ r \in Req /\ x.lo \in Int /\ x.end \in Int
        /\ Prompt[r] <= x.lo /\ x.end <= NumTokens(r)
        /\ InputAgrees(k, r)
    BY DEF RankInv, ReadInv, ReadAt
  <2>2. PICK t \in Seq(Token) : out'[r] = out[r] \o t
    BY <2>1
  <2>3. /\ out[r] \in Seq(Token) /\ Len(out[r]) \in Nat /\ Len(t) \in Nat
        /\ Len(out'[r]) = Len(out[r]) + Len(t) /\ Prompt[r] \in Nat
    BY <1>0, <2>1, <2>2, NextTypes, ConstantTypes
  <2>4. x.end <= NumTokens(r)'
    BY <2>1, <2>3 DEF NumTokens
  <2>5. /\ x.lo - Prompt[r] + 1 \in Int /\ x.end - Prompt[r] \in Int
        /\ 1 <= x.lo - Prompt[r] + 1 /\ x.end - Prompt[r] <= Len(out[r])
    BY <2>1, <2>3, SMTT(30) DEF NumTokens
  <2>6. SubSeq(out'[r], x.lo - Prompt[r] + 1, x.end - Prompt[r])
          = SubSeq(out[r], x.lo - Prompt[r] + 1, x.end - Prompt[r])
    <3> DEFINE a == x.lo - Prompt[r] + 1
               b == x.end - Prompt[r]
    <3>1. a \in Int /\ b \in Int /\ 1 <= a /\ b <= Len(out[r])
      BY <2>5
    <3> HIDE DEF a, b
    <3>2. SubSeq(out[r] \o t, a, b) = SubSeq(out[r], a, b)
      BY <2>2, <2>3, <3>1, SubSeqConcat
    <3> QED
      BY <2>2, <3>2 DEF a, b
  <2>7. InputAgrees(k, r)'
    BY <1>0, <2>1, <2>6 DEF InputAgrees
  <2> QED
    BY <2>1, <2>4, <2>7
<1> QED
  BY <1>1, <1>2, <1>3, <1>4, <1>5 DEF RankInv
-----------------------------------------------------------------------------
(***************************************************************************)
(* execute_model on a rank before the last                                 *)
(***************************************************************************)
\* Rank k handles an entry of r that is next in the chain.
Next1(k, r, e) ==
    /\ e.kind # "none"
    /\ EntryOK(r, e)
    /\ e.from = Seen(k, r)

LEMMA ExecFacts ==
    ASSUME TypeInv, CopyInv, NEW k \in Rank \ {PP}, NEW r \in Req, NEW e \in Entry,
           Next1(k, r, e)
    PROVE  /\ hist[k][r] \in Seq(Token) /\ Len(hist[k][r]) = e.from - Prompt[r]
           /\ hist[k][r] = SubSeq(out[r], 1, e.from - Prompt[r])
           /\ out[r] \in Seq(Token) /\ Len(out[r]) \in Nat /\ Prompt[r] \in Nat
           /\ e.from \in Nat /\ End(e) \in Int /\ e.start \in Int
           /\ e.n \in Int /\ e.k \in Nat /\ e.start < End(e)
           /\ Prompt[r] <= e.from /\ e.from <= To(e) /\ End(e) <= To(e)
           /\ To(e) \in Nat /\ To(e) - Prompt[r] <= Len(out[r])
           /\ To(e) = IF e.from < End(e) THEN End(e) ELSE e.from
           /\ e.kind # "new" =>
                e.ids = SubSeq(out[r], e.from - Prompt[r] + 1, End(e) - Prompt[r])
           /\ e.kind = "new" => e.from = Prompt[r] /\ End(e) <= Prompt[r]
           /\ e.k > 0 => e.from <= End(e)
<1>1. /\ hist[k][r] \in Seq(Token) /\ Len(hist[k][r]) \in Nat
      /\ out[r] \in Seq(Token) /\ Len(out[r]) \in Nat /\ Prompt[r] \in Nat
  BY NextTypes, ConstantTypes DEF TypeInv, RankTypes
<1>2. e.from \in Nat /\ e.start \in Int /\ e.n \in Int /\ e.k \in Nat
  BY DEF Entry
<1>3. End(e) \in Int /\ End(e) = e.start + e.n - e.k
  BY <1>2 DEF End
<1>4. e.from = Prompt[r] + Len(hist[k][r])
  BY DEF Next1, Seen
<1>5. To(e) = IF e.from < End(e) THEN End(e) ELSE e.from
  BY DEF To, Max
<1>6. /\ e.k < e.n /\ Prompt[r] <= e.from /\ To(e) <= Prompt[r] + Len(out[r])
      /\ e.kind # "new" =>
           e.ids = SubSeq(out[r], e.from - Prompt[r] + 1, End(e) - Prompt[r])
      /\ e.k > 0 => e.from <= End(e)
      /\ e.kind = "new" => e.from = Prompt[r] /\ End(e) <= Prompt[r]
  BY DEF Next1, EntryOK, NumTokens
<1>7. hist[k][r] = SubSeq(out[r], 1, Len(hist[k][r]))
  BY DEF CopyInv, CopyAt
<1>8. Len(hist[k][r]) = e.from - Prompt[r]
  BY <1>1, <1>2, <1>4
<1>9. hist[k][r] = SubSeq(out[r], 1, e.from - Prompt[r])
  BY <1>7, <1>8
<1>10. /\ e.start < End(e) /\ e.from <= To(e) /\ End(e) <= To(e) /\ To(e) \in Nat
       /\ To(e) - Prompt[r] <= Len(out[r])
  <2>1. e.k < e.n /\ Prompt[r] <= e.from /\ To(e) <= Prompt[r] + Len(out[r])
    BY <1>6
  <2>2. e.start < End(e)
    BY <1>2, <1>3, <2>1
  <2>3. e.from <= To(e) /\ End(e) <= To(e) /\ To(e) \in Nat
    BY <1>2, <1>3, <1>5
  <2>4. To(e) - Prompt[r] <= Len(out[r])
    BY <1>1, <2>1, <2>3
  <2> QED
    BY <2>2, <2>3, <2>4
<1> QED
  BY <1>1, <1>2, <1>3, <1>5, <1>6, <1>8, <1>9, <1>10

LEMMA SubSeqWhole ==
    ASSUME NEW S, NEW s \in Seq(S), Len(s) > 0
    PROVE  SubSeq(s, 1, Len(s)) = s /\ s # <<>>
OBVIOUS

LEMMA SubSeqNothing ==
    ASSUME NEW d \in Nat
    PROVE  SubSeq(<<>>, d + 1, Len(<<>>)) = <<>>
OBVIOUS

\* A copy of the first tokens of o, and a message with those from position from
\* to position end: what the receiver takes from the message completes the copy.
LEMMA Receive ==
    ASSUME NEW o \in Seq(Token), NEW P \in Nat, NEW from \in Nat, NEW end \in Int,
           P <= from, Max(from, end) - P <= Len(o)
    PROVE  LET h   == SubSeq(o, 1, from - P)
               ids == SubSeq(o, from - P + 1, end - P)
               u   == SubSeq(ids, Max(0, P + Len(h) - (end - Len(ids))) + 1, Len(ids))
           IN
           /\ h \o u = SubSeq(o, 1, Max(from, end) - P)
           /\ Len(SubSeq(o, 1, Max(from, end) - P)) = Max(from, end) - P
           /\ u = <<>> => end <= from
<1> SUFFICES ASSUME NEW h, h = SubSeq(o, 1, from - P),
                    NEW ids, ids = SubSeq(o, from - P + 1, end - P),
                    NEW u, u = SubSeq(ids, Max(0, P + Len(h) - (end - Len(ids))) + 1,
                                      Len(ids))
             PROVE  /\ h \o u = SubSeq(o, 1, Max(from, end) - P)
                    /\ Len(SubSeq(o, 1, Max(from, end) - P)) = Max(from, end) - P
                    /\ u = <<>> => end <= from
  BY Zenon
<1> DEFINE f == from - P
           to == Max(from, end)
<1>0. h = SubSeq(o, 1, f) /\ ids = SubSeq(o, f + 1, end - P)
  OBVIOUS
<1>1. /\ f \in Nat /\ f <= Len(o) /\ to \in Nat /\ to - P \in Nat
      /\ to - P <= Len(o) /\ from <= to /\ end <= to /\ to \in {from, end}
      /\ P + f = from
  BY DEF Max
<1> HIDE DEF f, to
<1>2. h \in Seq(Token) /\ Len(h) = f
  BY <1>0, <1>1, SubSeqType
<1>3. Len(SubSeq(o, 1, to - P)) = to - P
  BY <1>1, SubSeqType
<1>4. CASE from < end
  <2>1. ids \in Seq(Token) /\ Len(ids) = end - from /\ to = end
    BY <1>0, <1>1, <1>4, SubSeqType
  <2>2. Max(0, P + Len(h) - (end - Len(ids))) = 0
    BY <1>1, <1>2, <2>1 DEF Max
  <2>3. u = SubSeq(ids, 1, Len(ids))
    <3>1. u = SubSeq(ids, Max(0, P + Len(h) - (end - Len(ids))) + 1, Len(ids))
      OBVIOUS
    <3>2. 0 + 1 = 1
      OBVIOUS
    <3> QED
      BY <2>2, <3>1, <3>2, Zenon
  <2>4. u = ids /\ ids # <<>>
    <3>1. Len(ids) > 0
      BY <1>4, <2>1
    <3> QED
      BY <2>1, <2>3, <3>1, SubSeqWhole
  <2>5. h \o ids = SubSeq(o, 1, end - P)
    <3>1. /\ 1 \in 1..(Len(o) + 1) /\ f \in (1-1)..Len(o) /\ end - P \in f..Len(o)
      BY <1>1, <1>4, <2>1
    <3> QED
      BY <1>0, <3>1, ConcatAdjacentSubSeq
  <2> QED
    BY <1>3, <2>1, <2>4, <2>5 DEF to
<1>5. CASE end <= from
  <2>1. ids = <<>> /\ to = from
    <3>1. end - P < f + 1 /\ end - P \in Int
      BY <1>1, <1>5
    <3>2. ids = <<>>
      BY <1>0, <1>1, <3>1
    <3> QED
      BY <1>1, <1>5, <3>2 DEF to, Max
  <2>2. Max(0, P + Len(h) - (end - Len(ids))) \in Nat
    BY <1>1, <1>2, <2>1 DEF Max
  <2>3. u = <<>>
    <3>1. u = SubSeq(ids, Max(0, P + Len(h) - (end - Len(ids))) + 1, Len(ids))
      OBVIOUS
    <3> QED
      BY <2>1, <2>2, <3>1, SubSeqNothing, Zenon
  <2>4. h \o u = SubSeq(o, 1, to - P)
    <3>1. h \o <<>> = h /\ to - P = f
      BY <1>1, <1>2, <2>1
    <3> QED
      BY <1>0, <2>3, <3>1
  <2> QED
    BY <1>3, <1>5, <2>4 DEF to
<1>6. from < end \/ end <= from
  OBVIOUS
<1> QED
  BY <1>4, <1>5, <1>6, Zenon

\* Nothing that was sent is a duplicate, and nothing is missing.
LEMMA ExecHist ==
    ASSUME TypeInv, CopyInv, NEW k \in Rank \ {PP}, NEW r \in Req, NEW e \in Entry,
           Next1(k, r, e)
    PROVE  /\ NextHist(k, r, e) = SubSeq(out[r], 1, To(e) - Prompt[r])
           /\ Len(NextHist(k, r, e)) = To(e) - Prompt[r]
           /\ e.kind # "new" => NextHist(k, r, e) = hist[k][r] \o Unseen(k, r, e)
           /\ Unseen(k, r, e) = <<>> /\ e.kind # "new" => e.start <= e.from
<1>0. /\ hist[k][r] \in Seq(Token) /\ Len(hist[k][r]) = e.from - Prompt[r]
      /\ hist[k][r] = SubSeq(out[r], 1, e.from - Prompt[r])
      /\ out[r] \in Seq(Token) /\ Prompt[r] \in Nat
      /\ e.from \in Nat /\ End(e) \in Int /\ e.start \in Int
      /\ e.start < End(e)
      /\ Prompt[r] <= e.from /\ To(e) - Prompt[r] <= Len(out[r])
      /\ e.kind # "new" =>
           e.ids = SubSeq(out[r], e.from - Prompt[r] + 1, End(e) - Prompt[r])
      /\ e.kind = "new" => e.from = Prompt[r] /\ End(e) <= Prompt[r]
  BY ExecFacts
<1>1. k < PP
  BY ConstantTypes DEF Rank
<1>2. To(e) = Max(e.from, End(e))
  BY DEF To
<1>3. ASSUME e.kind # "new"
      PROVE  /\ hist[k][r] \o Unseen(k, r, e) = SubSeq(out[r], 1, To(e) - Prompt[r])
             /\ Len(SubSeq(out[r], 1, To(e) - Prompt[r])) = To(e) - Prompt[r]
             /\ Unseen(k, r, e) = <<>> => End(e) <= e.from
  <2>1. Unseen(k, r, e) =
          SubSeq(e.ids, Max(0, Prompt[r] + Len(hist[k][r]) - (End(e) - Len(e.ids))) + 1,
                 Len(e.ids))
    BY DEF Unseen
  <2>2. Max(e.from, End(e)) - Prompt[r] <= Len(out[r])
    BY <1>0, <1>2
  <2>3. /\ hist[k][r] \o Unseen(k, r, e)
             = SubSeq(out[r], 1, Max(e.from, End(e)) - Prompt[r])
        /\ Len(SubSeq(out[r], 1, Max(e.from, End(e)) - Prompt[r]))
             = Max(e.from, End(e)) - Prompt[r]
        /\ Unseen(k, r, e) = <<>> => End(e) <= e.from
    <3> DEFINE o == out[r]
               P == Prompt[r]
               from == e.from
               end == End(e)
               h == SubSeq(o, 1, from - P)
               ids == SubSeq(o, from - P + 1, end - P)
               u == SubSeq(ids, Max(0, P + Len(h) - (end - Len(ids))) + 1, Len(ids))
    <3>1. /\ o \in Seq(Token) /\ P \in Nat /\ from \in Nat /\ end \in Int
          /\ P <= from /\ Max(from, end) - P <= Len(o)
      BY <1>0, <2>2
    <3>2. h = hist[k][r] /\ ids = e.ids
      BY <1>0, <1>3
    <3>3. u = Unseen(k, r, e)
      BY <2>1, <3>2, Zenon
    <3> HIDE DEF o, P, from, end
    <3>4. /\ h \o u = SubSeq(o, 1, Max(from, end) - P)
          /\ Len(SubSeq(o, 1, Max(from, end) - P)) = Max(from, end) - P
          /\ u = <<>> => end <= from
      BY <3>1, Receive, Zenon
    <3> HIDE DEF h, ids, u
    <3> QED
      BY <3>2, <3>3, <3>4, Zenon DEF o, P, from, end
  <2> QED
    BY <1>2, <2>3, Zenon
<1>4. CASE e.kind = "new"
  <2>1. NextHist(k, r, e) = <<>>
    BY <1>4 DEF NextHist
  <2>2. To(e) - Prompt[r] = 0
    BY <1>0, <1>2, <1>4 DEF Max
  <2>3. SubSeq(out[r], 1, 0) = <<>>
    BY <1>0
  <2> QED
    BY <1>4, <2>1, <2>2, <2>3
<1>5. CASE e.kind # "new"
  <2>1. NextHist(k, r, e) = hist[k][r] \o Unseen(k, r, e)
    BY <1>1, <1>5 DEF NextHist
  <2>2. Unseen(k, r, e) = <<>> => e.start <= e.from
    <3>1. e.start \in Int /\ End(e) \in Int /\ e.from \in Nat /\ e.start < End(e)
      BY <1>0
    <3> QED
      BY <1>3, <1>5, <3>1
  <2> QED
    BY <1>3, <1>5, <2>1, <2>2
<1> QED
  BY <1>4, <1>5

\* Whether the row is rebuilt or extended, it is the copy; no slot nobody wrote
\* becomes part of it.
LEMMA ExecRow ==
    ASSUME TypeInv, CopyInv, RowInv, NEW k \in Rank \ {PP}, NEW r \in Req,
           NEW e \in Entry, Next1(k, r, e), NEW kept \in SUBSET inBatch[k],
           r \in kept => e.kind = "cached"
    PROVE  NextRow(k, r, e, kept) = NextHist(k, r, e)
<1>1. CASE r \notin kept
  BY <1>1 DEF NextRow
<1>2. CASE r \in kept
  <2>1. row[k][r] = hist[k][r] /\ e.kind # "new" /\ k # PP
    BY <1>2 DEF RowInv
  <2>2. NextHist(k, r, e) = hist[k][r] \o Unseen(k, r, e)
    BY <2>1, ExecHist
  <2>3. CASE Unseen(k, r, e) # <<>>
    BY <1>2, <2>1, <2>2, <2>3 DEF NextRow
  <2>4. CASE Unseen(k, r, e) = <<>>
    <3>1. e.start <= e.from
      BY <2>1, <2>4, ExecHist
    <3>2. /\ Len(hist[k][r]) = e.from - Prompt[r] /\ hist[k][r] \in Seq(Token)
          /\ e.from \in Nat /\ e.start \in Int /\ Prompt[r] \in Nat
      BY ExecFacts
    <3>3. Max(0, e.start - Prompt[r] - Len(row[k][r])) = 0
      BY <2>1, <3>1, <3>2 DEF Max
    <3>4. [i \in 1..Max(0, e.start - Prompt[r] - Len(row[k][r])) |-> Garbage] = <<>>
      BY <3>3
    <3>5. NextRow(k, r, e, kept) = row[k][r] \o <<>>
      BY <1>2, <2>1, <2>4, <3>4 DEF NextRow
    <3> QED
      BY <2>1, <2>2, <2>4, <3>5
  <2> QED
    BY <2>3, <2>4
<1> QED
  BY <1>1, <1>2

LEMMA ExecRead ==
    ASSUME TypeInv, CopyInv, NEW k \in Rank \ {PP}, NEW r \in Req, NEW e \in Entry,
           Next1(k, r, e)
    PROVE  LET x == Read(r, e, NextHist(k, r, e)) IN
           /\ x.lo \in Int /\ x.end \in Int
           /\ Prompt[r] <= x.lo /\ x.end <= NumTokens(r)
           /\ x.toks = SubSeq(out[r], x.lo - Prompt[r] + 1, x.end - Prompt[r])
           /\ x.drafts \subseteq {x.end}
<1> DEFINE P == Prompt[r]
           o == out[r]
           lo == Max(e.start, P)
           end == End(e)
           w == NextHist(k, r, e)
           x == Read(r, e, w)
<1>1. /\ o \in Seq(Token) /\ Len(o) \in Nat /\ P \in Nat
      /\ e.from \in Nat /\ end \in Int /\ e.start \in Int /\ e.k \in Nat
      /\ e.from <= To(e) /\ end <= To(e) /\ To(e) \in Nat /\ To(e) - P <= Len(o)
      /\ To(e) = IF e.from < end THEN end ELSE e.from
      /\ e.k > 0 => e.from <= end
  BY ExecFacts
<1>2. w = SubSeq(o, 1, To(e) - P) /\ Len(w) = To(e) - P
  BY ExecHist
<1>3. /\ x.lo = lo /\ x.end = end
      /\ x.toks = [i \in 1..Max(0, end - lo) |->
                     IF lo - P + i <= Len(w) THEN w[lo - P + i] ELSE Garbage]
      /\ x.drafts = IF e.k = 0 THEN {} ELSE {P + Len(w)}
  BY DEF Read
<1>4. lo \in Int /\ P <= lo
  BY <1>1 DEF Max
<1>5. end <= NumTokens(r)
  BY <1>1 DEF NumTokens
<1> HIDE DEF w, x, lo, end, o, P
<1>6. \A i \in 1..Len(w) : w[i] = o[i]
  <2>1. \A i \in 1..(To(e) - P) : SubSeq(o, 1, To(e) - P)[i] = o[i]
    BY <1>1
  <2> QED
    BY <1>2, <2>1
<1>7. Max(0, end - lo) = IF lo < end THEN end - lo ELSE 0
  BY <1>1, <1>4 DEF Max
<1> DEFINE t == SubSeq(o, lo - P + 1, end - P)
<1>8. /\ t \in Seq(Token) /\ Len(t) = Max(0, end - lo)
      /\ \A i \in 1..Max(0, end - lo) : t[i] = o[lo - P + i]
  <2>1. /\ lo - P + 1 \in Int /\ end - P \in Int /\ 1 <= lo - P + 1
        /\ end - P <= Len(o)
    BY <1>1, <1>4
  <2>2. /\ t \in Seq(Token)
        /\ Len(t) = IF lo - P + 1 <= end - P THEN (end - P) - (lo - P + 1) + 1 ELSE 0
        /\ \A i \in 1..((end - P) - (lo - P + 1) + 1) : t[i] = o[(lo - P + 1) + i - 1]
    <3> DEFINE a == lo - P + 1
               b == end - P
    <3>1. a \in Int /\ b \in Int /\ 1 <= a /\ b <= Len(o) /\ o \in Seq(Token)
      BY <1>1, <2>1
    <3> HIDE DEF a, b
    <3>2. /\ SubSeq(o, a, b) \in Seq(Token)
          /\ Len(SubSeq(o, a, b)) = IF a <= b THEN b - a + 1 ELSE 0
          /\ \A i \in 1..(b - a + 1) : SubSeq(o, a, b)[i] = o[a + i - 1]
      BY <3>1, SubSeqType
    <3> QED
      BY <3>2, Zenon DEF a, b
  <2> HIDE DEF t
  <2> QED
    BY <1>1, <1>4, <1>7, <2>2
<1> HIDE DEF t
<1>9. \A i \in 1..Max(0, end - lo) : x.toks[i] = t[i]
  <2> TAKE i \in 1..Max(0, end - lo)
  <2>1. lo - P + i \in 1..Len(w)
    BY <1>1, <1>2, <1>4, <1>7
  <2> QED
    BY <1>3, <1>6, <1>8, <2>1
<1>10. x.toks = t
  <2>1. t = [i \in 1..Len(t) |-> t[i]]
    BY <1>8
  <2> QED
    BY <1>3, <1>8, <1>9, <2>1
<1>11. x.drafts \subseteq {end}
  BY <1>1, <1>2, <1>3
<1> QED
  BY <1>3, <1>4, <1>5, <1>1, <1>10, <1>11 DEF x, w, t, lo, end, o, P
-----------------------------------------------------------------------------
(***************************************************************************)
(* A rank handles a message                                                *)
(***************************************************************************)
LEMMA FinishTail ==
    ASSUME TypeInv, FinishInv, NEW k \in Rank, rpc[k] # <<>>,
           rpc' = [rpc EXCEPT ![k] = Tail(@)], UNCHANGED <<status, finishedIds>>
    PROVE  FinishInv'
<1>1. rpc \in [Rank -> Seq(Messages)] /\ rpc[k] \in Seq(Messages)
  BY DEF TypeInv, RankTypes
<1>2. rpc'[k] = Tail(rpc[k]) /\ \A j \in Rank \ {k} : rpc'[j] = rpc[j]
  BY <1>1
<1>3. ASSUME NEW j \in Rank, NEW i \in 1..Len(rpc'[j]), NEW r \in rpc'[j][i].batch.fin
      PROVE  /\ status[r] = "finished"
             /\ \A l \in i..Len(rpc'[j]) : ~Has(rpc'[j], l, r)
  <2>1. CASE j # k
    BY <1>2, <1>3, <2>1 DEF FinishInv
  <2>2. CASE j = k
    <3> DEFINE q == rpc[k]
               t == Tail(q)
    <3>1. /\ Len(q) \in Nat /\ Len(t) = Len(q) - 1
          /\ \A l \in 1..Len(t) : l + 1 \in 1..Len(q) /\ t[l] = q[l+1]
      BY <1>1
    <3>2. i \in 1..Len(t) /\ r \in t[i].batch.fin /\ rpc'[j] = t
      BY <1>2, <1>3, <2>2
    <3> HIDE DEF t
    <3>3. r \in q[i+1].batch.fin /\ i + 1 \in 1..Len(q)
      BY <3>1, <3>2
    <3>4. status[r] = "finished" /\ \A l \in (i+1)..Len(q) : ~Has(q, l, r)
      BY <3>3 DEF FinishInv
    <3>5. ASSUME NEW l \in i..Len(t) PROVE ~Has(t, l, r)
      <4>1. l \in 1..Len(t) /\ l + 1 \in (i+1)..Len(q)
        BY <3>1, <3>2
      <4>2. t[l] = q[l+1] /\ ~Has(q, l+1, r)
        BY <3>1, <3>4, <4>1
      <4> QED
        BY <4>2 DEF Has, At
    <3> QED
      BY <3>2, <3>4, <3>5
  <2> QED
    BY <2>1, <2>2
<1> QED
  BY <1>3 DEF FinishInv

\* What concerns a rank that does not step.
LEMMA SameRank ==
    ASSUME RankInv, NEW j \in Rank \ {PP}, UNCHANGED <<status, out, sent>>,
           rpc'[j] = rpc[j], hist'[j] = hist[j], inputs'[j] = inputs[j]
    PROVE  /\ \A r \in Req : ChainAt(j, r)' /\ CopyAt(j, r)'
           /\ ReadAt(j)'
<1>1. ASSUME NEW r \in Req PROVE ChainAt(j, r)' /\ CopyAt(j, r)'
  <2>1. ChainAt(j, r) /\ CopyAt(j, r)
    BY DEF RankInv, ChainInv, CopyInv
  <2>2. Seen(j, r)' = Seen(j, r) /\ Sent(r)' = Sent(r)
    BY DEF Seen, Sent
  <2>3. Chain(rpc[j], r, Seen(j, r))'
    BY <2>1, <2>2 DEF ChainAt
  <2>4. (status[r] # "finished" => ChainEnd(rpc[j], r, Seen(j, r), Sent(r)))'
    BY <2>1, <2>2 DEF ChainAt
  <2>5. ASSUME NEW i \in 1..Len(rpc[j]), Has(rpc[j], i, r)
        PROVE  EntryOK(r, At(rpc[j], i, r))'
    BY <2>1, <2>5 DEF ChainAt, EntryOK, NumTokens
  <2> QED
    BY <2>1, <2>3, <2>4, <2>5 DEF ChainAt, CopyAt
<1>2. ReadAt(j)'
  BY DEF RankInv, ReadInv, ReadAt, InputAgrees, NumTokens
<1> QED
  BY <1>1, <1>2

\* What execute_model does to the copy of r on rank k.
LEMMA ExecCopy ==
    ASSUME SchedInv, RankInv, NEW k \in Rank \ {PP}, RankExecute(k), NEW r \in Req
    PROVE  LET e == At(rpc[k], 1, r)
               fin == r \in Head(rpc[k]).batch.fin
           IN
           /\ e \in Entry
           /\ Has(rpc[k], 1, r) => Next1(k, r, e) /\ hist'[k][r] = NextHist(k, r, e)
           /\ ~Has(rpc[k], 1, r) /\ fin => hist'[k][r] = <<>>
           /\ ~Has(rpc[k], 1, r) /\ ~fin => hist'[k][r] = hist[k][r]
<1> DEFINE q == rpc[k]
           b == Head(q).batch
           e == At(q, 1, r)
<1>0. TypeInv /\ rpc[k] # <<>> /\ hist \in [Rank -> [Req -> Seq(Token)]]
  BY DEF SchedInv, TypeInv, RankTypes, RankExecute, AtExec
<1>1. /\ q \in Seq(Messages) /\ Head(q) = q[1] /\ b.sched[r] \in Entry
  BY <1>0, Handled
<1>2. e = b.sched[r] /\ (Has(q, 1, r) <=> r \in Scheduled(b.sched))
  BY <1>1 DEF At, Has, Scheduled
<1>3. hist'[k][r] = IF r \in Scheduled(b.sched) THEN NextHist(k, r, e) \o <<>>
                    ELSE IF r \in b.fin THEN <<>> ELSE hist[k][r]
  BY <1>0, <1>2 DEF RankExecute, UpdateStates
<1>4. ASSUME Has(q, 1, r) PROVE Next1(k, r, e)
  <2>1. 1 \in 1..Len(q)
    BY <1>0, <1>1
  <2>2. ChainAt(k, r)
    BY DEF RankInv, ChainInv
  <2>3. EntryOK(r, e)
    BY <1>4, <2>1, <2>2 DEF ChainAt
  <2>4. e.from = Seen(k, r)
    <3>1. \A j \in 1..(1-1) : ~Has(q, j, r)
      OBVIOUS
    <3> QED
      BY <1>4, <2>1, <2>2, <3>1 DEF ChainAt, Chain
  <2> QED
    BY <1>4, <2>3, <2>4 DEF Next1, Has
<1>5. NextHist(k, r, e) \o <<>> = NextHist(k, r, e)
  BY <1>0, <1>1, <1>2, HistType
<1> QED
  BY <1>1, <1>2, <1>3, <1>4, <1>5

LEMMA ExecChain ==
    ASSUME SchedInv, RankInv, NEW k \in Rank \ {PP}, RankExecute(k), NEW r \in Req
    PROVE  ChainAt(k, r)' /\ CopyAt(k, r)'
<1> DEFINE q == rpc[k]
           e == At(q, 1, r)
           fin == r \in Head(q).batch.fin
<1>0. /\ TypeInv /\ CopyInv /\ q # <<>> /\ q \in Seq(Messages) /\ rpc'[k] = Tail(q)
      /\ UNCHANGED <<status, out, sent>>
  BY DEF SchedInv, RankInv, TypeInv, RankTypes, RankExecute, AtExec, PassOn, reqVars
<1>1. /\ e \in Entry
      /\ Has(q, 1, r) => Next1(k, r, e) /\ hist'[k][r] = NextHist(k, r, e)
      /\ ~Has(q, 1, r) /\ fin => hist'[k][r] = <<>>
      /\ ~Has(q, 1, r) /\ ~fin => hist'[k][r] = hist[k][r]
  BY ExecCopy
<1>2. ChainAt(k, r) /\ CopyAt(k, r)
  BY DEF RankInv, ChainInv, CopyInv
<1>3. /\ Prompt[r] \in Nat /\ Len(out[r]) \in Nat /\ out[r] \in Seq(Token)
  BY <1>0, ConstantTypes, NextTypes
<1>4. \A i \in 1..Len(rpc'[k]) :
         Has(rpc'[k], i, r) => EntryOK(r, At(rpc'[k], i, r))
  <2>1. \A i \in 1..(Len(q) - 1) : /\ i + 1 \in 1..Len(q)
                                   /\ At(Tail(q), i, r) = At(q, i+1, r)
                                   /\ Has(Tail(q), i, r) <=> Has(q, i+1, r)
    BY <1>0, TailEntries
  <2>2. Len(Tail(q)) = Len(q) - 1
    BY <1>0, TailEntries
  <2> QED
    BY <1>0, <1>2, <2>1, <2>2 DEF ChainAt
<1>5. (\A i \in 1..Len(rpc[k]) : Has(rpc[k], i, r) => EntryOK(r, At(rpc[k], i, r)))'
  BY <1>0, <1>4 DEF EntryOK, NumTokens
<1> DEFINE a == IF Has(q, 1, r) THEN To(e) ELSE Seen(k, r)
<1>6. Chain(Tail(q), r, a)
  BY <1>0, <1>2, ChainTail DEF ChainAt
<1>7. status[r] # "finished" => ChainEnd(Tail(q), r, a, Sent(r))
  BY <1>0, <1>2, ChainEndTail DEF ChainAt
<1>8. Sent(r)' = Sent(r)
  BY <1>0 DEF Sent
<1>9. CASE Has(q, 1, r)
  <2>1. /\ NextHist(k, r, e) = SubSeq(out[r], 1, To(e) - Prompt[r])
        /\ Len(NextHist(k, r, e)) = To(e) - Prompt[r]
    BY <1>0, <1>1, <1>9, ExecHist
  <2>2. To(e) \in Nat /\ To(e) - Prompt[r] <= Len(out[r])
    BY <1>0, <1>1, <1>9, ExecFacts
  <2>3. Seen(k, r)' = a
    BY <1>1, <1>3, <1>9, <2>1, <2>2 DEF Seen
  <2>4. CopyAt(k, r)'
    BY <1>0, <1>1, <1>9, <2>1, <2>2 DEF CopyAt
  <2> HIDE DEF a
  <2>5. ChainAt(k, r)'
    BY <1>0, <1>5, <1>6, <1>7, <1>8, <2>3 DEF ChainAt
  <2> QED
    BY <2>4, <2>5
<1>10. CASE ~Has(q, 1, r) /\ fin
  <2>1. /\ status[r] = "finished" /\ \A j \in 1..Len(q) : ~Has(q, j, r)
    <3>1. 1 \in 1..Len(q) /\ Head(q) = q[1]
      BY <1>0
    <3> QED
      BY <1>10, <3>1 DEF RankInv, FinishInv
  <2>2. \A j \in 1..Len(Tail(q)) : ~Has(Tail(q), j, r)
    BY <1>0, <2>1, TailEntries
  <2>3. Chain(rpc[k], r, Seen(k, r))'
    BY <1>0, <2>2 DEF Chain
  <2>4. ChainAt(k, r)'
    BY <1>0, <1>5, <2>1, <2>3 DEF ChainAt
  <2>5. CopyAt(k, r)'
    <3>1. hist'[k][r] = <<>> /\ SubSeq(out[r], 1, 0) = <<>>
      BY <1>1, <1>3, <1>10
    <3> QED
      BY <1>0, <1>3, <3>1 DEF CopyAt
  <2> QED
    BY <2>4, <2>5
<1>11. CASE ~Has(q, 1, r) /\ ~fin
  <2>1. Seen(k, r)' = a /\ hist'[k][r] = hist[k][r]
    BY <1>1, <1>11 DEF Seen
  <2> HIDE DEF a
  <2>2. ChainAt(k, r)'
    BY <1>0, <1>5, <1>6, <1>7, <1>8, <2>1 DEF ChainAt
  <2>3. CopyAt(k, r)'
    BY <1>0, <1>2, <2>1 DEF CopyAt
  <2> QED
    BY <2>2, <2>3
<1> QED
  BY <1>9, <1>10, <1>11

LEMMA ExecRowRead ==
    ASSUME SchedInv, RankInv, NEW k \in Rank \ {PP}, RankExecute(k)
    PROVE  RowInv' /\ ReadAt(k)'
<1> DEFINE b == Head(rpc[k]).batch
           S == Scheduled(b.sched)
           kept == Kept(k, b)
<1>0. /\ TypeInv /\ CopyInv /\ RowInv /\ rpc[k] # <<>>
      /\ UNCHANGED <<status, out, sent>>
  BY DEF SchedInv, RankInv, RankExecute, AtExec, reqVars
<1>1. /\ rpc[k] \in Seq(Messages) /\ Head(rpc[k]) = rpc[k][1]
      /\ S \subseteq Req /\ \A r \in Req : b.sched[r] \in Entry
  BY <1>0, Handled
<1>2. kept \in SUBSET inBatch[k] /\ \A r \in kept : b.sched[r].kind = "cached"
  BY DEF Kept
<1>3. ASSUME NEW r \in S
      PROVE  /\ r \in Req /\ Next1(k, r, b.sched[r])
             /\ hist'[k][r] = NextHist(k, r, b.sched[r])
             /\ NextRow(k, r, b.sched[r], kept) = NextHist(k, r, b.sched[r])
             /\ NextHist(k, r, b.sched[r]) \in Seq(Token)
  <2>1. r \in Req /\ b.sched[r] = At(rpc[k], 1, r) /\ Has(rpc[k], 1, r)
    BY <1>1, <1>3 DEF At, Has, Scheduled
  <2>2. Next1(k, r, b.sched[r]) /\ hist'[k][r] = NextHist(k, r, b.sched[r])
    BY <2>1, ExecCopy
  <2>3. NextRow(k, r, b.sched[r], kept) = NextHist(k, r, b.sched[r])
    BY <1>0, <1>1, <1>2, <2>1, <2>2, ExecRow
  <2>4. NextHist(k, r, b.sched[r]) \in Seq(Token)
    BY <1>0, <1>1, <2>1, HistType
  <2> QED
    BY <2>1, <2>2, <2>3, <2>4
<1> HIDE DEF b, S, kept
<1>4. /\ inBatch' = [inBatch EXCEPT ![k] = S]
      /\ hist' = [hist EXCEPT ![k] = hist'[k]]
      /\ row' = [row EXCEPT ![k] = [r \in Req |->
                   IF r \in S THEN NextRow(k, r, b.sched[r], kept) \o <<>>
                   ELSE <<>>]]
      /\ inputs' = [inputs EXCEPT ![k] = [r \in S |->
                      Read(r, b.sched[r], NextRow(k, r, b.sched[r], kept))]]
  BY <1>0 DEF RankExecute, UpdateStates, TypeInv, RankTypes, b, S, kept
<1>5. RowInv'
  <2> DEFINE w == [r \in Req |-> IF r \in S THEN NextRow(k, r, b.sched[r], kept) \o <<>>
                                 ELSE <<>>]
  <2>1. ASSUME NEW r \in Req
        PROVE  w[r] = (IF r \in S THEN hist'[k][r] ELSE <<>>) /\ w[r] \in Seq(Token)
    BY <1>3
  <2>2. w \in [Req -> Seq(Token)]
    BY <2>1
  <2> HIDE DEF w
  <2>3. row' = [row EXCEPT ![k] = w]
    BY <1>4 DEF w
  <2>4. row' \in [Rank -> [Req -> Seq(Token)]]
    BY <1>0, <2>2, <2>3 DEF RowInv
  <2>5. inputs' = [j \in Rank |-> inputs'[j]]
    BY <1>0, <1>4 DEF RowInv
  <2>6. ASSUME NEW j \in Rank, NEW r \in Req
        PROVE  row'[j][r] = IF r \in inBatch'[j] THEN hist'[j][r] ELSE <<>>
    <3>1. CASE j = k
      <4>1. row'[k] = w /\ inBatch'[k] = S
        BY <1>0, <1>4, <2>3 DEF RowInv, TypeInv, RankTypes
      <4> QED
        BY <2>1, <3>1, <4>1
    <3>2. CASE j # k
      <4>1. row'[j] = row[j] /\ inBatch'[j] = inBatch[j] /\ hist'[j] = hist[j]
        BY <1>0, <1>4, <2>3, <3>2 DEF RowInv, TypeInv, RankTypes
      <4> QED
        BY <1>0, <4>1 DEF RowInv
    <3> QED
      BY <3>1, <3>2
  <2> QED
    BY <2>4, <2>5, <2>6 DEF RowInv
<1>6. ReadAt(k)'
  <2>1. inputs'[k] = [r \in S |-> Read(r, b.sched[r], NextRow(k, r, b.sched[r], kept))]
    BY <1>0, <1>4 DEF RowInv
  <2>2. DOMAIN inputs'[k] = S
    BY <2>1
  <2>3. ASSUME NEW r \in S
        PROVE  LET x == inputs'[k][r] IN
               /\ r \in Req /\ x.lo \in Int /\ x.end \in Int
               /\ Prompt[r] <= x.lo /\ x.end <= NumTokens(r)
               /\ x.toks = SubSeq(out[r], x.lo - Prompt[r] + 1, x.end - Prompt[r])
               /\ x.drafts \subseteq {x.end}
    <3>1. inputs'[k][r] = Read(r, b.sched[r], NextHist(k, r, b.sched[r]))
      BY <1>3, <2>1
    <3>2. r \in Req /\ Next1(k, r, b.sched[r]) /\ b.sched[r] \in Entry
      BY <1>1, <1>3 DEF b
    <3> QED
      BY <1>0, <3>1, <3>2, ExecRead
  <2>4. \A r \in Req : NumTokens(r)' = NumTokens(r)
    BY <1>0 DEF NumTokens
  <2> QED
    BY <1>0, <2>2, <2>3, <2>4 DEF ReadAt, InputAgrees
<1> QED
  BY <1>5, <1>6

LEMMA RankExecuteInv ==
    ASSUME SchedInv, RankInv, NEW k \in Rank, RankExecute(k) PROVE RankInv'
<1>0. /\ k \in Rank \ {PP} /\ TypeInv /\ rpc[k] # <<>>
      /\ rpc' = [rpc EXCEPT ![k] = Tail(@)] /\ UNCHANGED <<status, finishedIds, out, sent>>
  BY ConstantTypes DEF SchedInv, RankExecute, AtExec, PassOn, Rank, reqVars, queueVars
<1>1. FinishInv'
  BY <1>0, FinishTail DEF RankInv
<1>2. ASSUME NEW j \in Rank \ {PP}
      PROVE  /\ \A r \in Req : ChainAt(j, r)' /\ CopyAt(j, r)'
             /\ ReadAt(j)'
  <2>1. CASE j = k
    BY <1>0, <2>1, ExecChain, ExecRowRead
  <2>2. CASE j # k
    <3>1. rpc'[j] = rpc[j] /\ hist'[j] = hist[j] /\ inputs'[j] = inputs[j]
      BY <2>2 DEF RankExecute, PassOn, UpdateStates, SchedInv, TypeInv, RankTypes,
                  RankInv, RowInv
    <3> QED
      BY <1>0, <3>1, SameRank
  <2> QED
    BY <2>1, <2>2
<1>3. RowInv'
  BY <1>0, ExecRowRead
<1> QED
  BY <1>1, <1>2, <1>3 DEF RankInv, ChainInv, CopyInv, ReadInv
-----------------------------------------------------------------------------
(***************************************************************************)
(* The last rank                                                           *)
(***************************************************************************)
LEMMA SubSeqUpTo ==
    ASSUME NEW s \in Seq(Token), NEW n \in Nat
    PROVE  SubSeq(s, 1, Min(n, Len(s))) = IF n < Len(s) THEN SubSeq(s, 1, n) ELSE s
<1>1. CASE n < Len(s)
  BY <1>1 DEF Min
<1>2. CASE ~(n < Len(s))
  <2>1. SubSeq(s, 1, Len(s)) = s
    OBVIOUS
  <2> QED
    BY <1>2, <2>1 DEF Min
<1> QED
  BY <1>1, <1>2

\* The last rank cuts its row where it cuts its copy.
LEMMA SampleRow ==
    ASSUME TypeInv, RowInv, NEW r \in Req, NEW e \in Entry,
           NEW kept \in SUBSET inBatch[PP], r \in kept => e.kind = "cached"
    PROVE  NextRow(PP, r, e, kept) = NextHist(PP, r, e)
<1>0. PP \in Rank
  BY ConstantTypes DEF Rank
<1>1. CASE r \notin kept
  BY <1>1 DEF NextRow
<1>2. CASE r \in kept
  <2>1. row[PP][r] = hist[PP][r] /\ e.kind # "new" /\ ~(PP < PP)
    BY <1>0, <1>2, ConstantTypes DEF RowInv
  <2>2. hist[PP][r] \in Seq(Token) /\ e.nout \in Nat
    BY <1>0 DEF TypeInv, RankTypes, Entry
  <2>3. NextHist(PP, r, e) = SubSeq(hist[PP][r], 1, Min(e.nout, Len(hist[PP][r])))
    BY <2>1 DEF NextHist
  <2>4. NextRow(PP, r, e, kept) = IF e.nout < Len(hist[PP][r])
                                  THEN SubSeq(hist[PP][r], 1, e.nout)
                                  ELSE hist[PP][r]
    BY <1>2, <2>1 DEF NextRow
  <2> QED
    BY <2>2, <2>3, <2>4, SubSeqUpTo
<1> QED
  BY <1>1, <1>2

LEMMA RankSampleInv ==
    ASSUME SchedInv, RankInv, NEW gen \in [Req -> Generated], NEW d,
           AtExec(PP), RankSample(gen, d)
    PROVE  RankInv'
<1> DEFINE b == Head(rpc[PP]).batch
           S == Scheduled(b.sched)
           kept == Kept(PP, b)
<1>0. /\ TypeInv /\ RowInv /\ PP \in Rank /\ rpc[PP] # <<>>
      /\ rpc' = [rpc EXCEPT ![PP] = Tail(@)]
      /\ UNCHANGED <<status, finishedIds, out, sent>>
  BY ConstantTypes
     DEF SchedInv, RankInv, Rank, AtExec, RankSample, PassOn, reqVars, queueVars
<1>1. FinishInv'
  BY <1>0, FinishTail DEF RankInv
<1>2. ASSUME NEW j \in Rank \ {PP}
      PROVE  /\ \A r \in Req : ChainAt(j, r)' /\ CopyAt(j, r)'
             /\ ReadAt(j)'
  <2>1. rpc'[j] = rpc[j] /\ hist'[j] = hist[j] /\ inputs'[j] = inputs[j]
    BY DEF RankSample, PassOn, UpdateStates, SchedInv, TypeInv, RankTypes,
           RankInv, RowInv
  <2> QED
    BY <1>0, <2>1, SameRank
<1>3. S \subseteq Req /\ \A r \in Req : b.sched[r] \in Entry
  BY <1>0, Handled
<1>4. kept \in SUBSET inBatch[PP] /\ \A r \in kept : b.sched[r].kind = "cached"
  BY DEF Kept
<1>5. \A r \in Req : gen[r] \in Seq(Token)
  <2>1. ASSUME NEW x \in Generated PROVE x \in Seq(Token)
    <3>1. PICK m \in 0..(NumSpec + 1) : x \in [1..m -> Token]
      BY DEF Generated
    <3> QED
      BY <3>1, ConstantTypes, SeqDef
  <2> QED
    BY <2>1
<1>6. ASSUME NEW r \in S
      PROVE  /\ NextRow(PP, r, b.sched[r], kept) = NextHist(PP, r, b.sched[r])
             /\ NextHist(PP, r, b.sched[r]) \o gen[r] \in Seq(Token)
  <2>1. r \in Req /\ b.sched[r] \in Entry
    BY <1>3
  <2>2. NextHist(PP, r, b.sched[r]) \in Seq(Token) /\ gen[r] \in Seq(Token)
    BY <1>0, <1>5, <2>1, HistType
  <2>3. NextRow(PP, r, b.sched[r], kept) = NextHist(PP, r, b.sched[r])
    BY <1>0, <1>4, <2>1, SampleRow
  <2> QED
    BY <2>2, <2>3
<1> HIDE DEF b, S, kept
<1>7. /\ inBatch' = [inBatch EXCEPT ![PP] = S]
      /\ hist' = [hist EXCEPT ![PP] = [r \in Req |->
                   IF r \in S THEN NextHist(PP, r, b.sched[r]) \o gen[r]
                   ELSE IF r \in b.fin THEN <<>> ELSE hist[PP][r]]]
      /\ row' = [row EXCEPT ![PP] = [r \in Req |->
                   IF r \in S THEN NextRow(PP, r, b.sched[r], kept) \o gen[r]
                   ELSE <<>>]]
      /\ inputs' = [inputs EXCEPT ![PP] = inputs'[PP]]
  BY <1>0 DEF RankSample, UpdateStates, RowInv, b, S, kept
<1>8. RowInv'
  <2> DEFINE w == [r \in Req |-> IF r \in S THEN NextRow(PP, r, b.sched[r], kept) \o gen[r]
                                 ELSE <<>>]
  <2>1. ASSUME NEW r \in Req
        PROVE  w[r] = (IF r \in S THEN hist'[PP][r] ELSE <<>>) /\ w[r] \in Seq(Token)
    BY <1>0, <1>6, <1>7 DEF TypeInv, RankTypes
  <2>2. w \in [Req -> Seq(Token)]
    BY <2>1
  <2> HIDE DEF w
  <2>3. row' = [row EXCEPT ![PP] = w]
    BY <1>7 DEF w
  <2>4. row' \in [Rank -> [Req -> Seq(Token)]]
    BY <1>0, <2>2, <2>3 DEF RowInv
  <2>5. inputs' = [j \in Rank |-> inputs'[j]]
    BY <1>0, <1>7 DEF RowInv
  <2>6. ASSUME NEW j \in Rank, NEW r \in Req
        PROVE  row'[j][r] = IF r \in inBatch'[j] THEN hist'[j][r] ELSE <<>>
    <3>1. CASE j = PP
      <4>1. row'[PP] = w /\ inBatch'[PP] = S
        BY <1>0, <1>7, <2>3 DEF RowInv, TypeInv, RankTypes
      <4> QED
        BY <2>1, <3>1, <4>1
    <3>2. CASE j # PP
      <4>1. row'[j] = row[j] /\ inBatch'[j] = inBatch[j] /\ hist'[j] = hist[j]
        BY <1>0, <1>7, <2>3, <3>2 DEF RowInv, TypeInv, RankTypes
      <4> QED
        BY <1>0, <4>1 DEF RowInv
    <3> QED
      BY <3>1, <3>2
  <2> QED
    BY <2>4, <2>5, <2>6 DEF RowInv
<1> QED
  BY <1>1, <1>2, <1>8 DEF RankInv, ChainInv, CopyInv, ReadInv

LEMMA RankTakeDraftsInv ==
    ASSUME SchedInv, RankInv, RankTakeDrafts PROVE RankInv'
<1>0. /\ TypeInv /\ PP \in Rank /\ rpc[PP] # <<>>
      /\ rpc' = [rpc EXCEPT ![PP] = Tail(@)]
      /\ UNCHANGED <<status, finishedIds, out, sent, hist, inBatch, row, inputs>>
  BY ConstantTypes DEF SchedInv, Rank, RankTakeDrafts, reqVars, queueVars, rankVars
<1>1. FinishInv'
  BY <1>0, FinishTail DEF RankInv
<1>2. ASSUME NEW j \in Rank \ {PP}
      PROVE  /\ \A r \in Req : ChainAt(j, r)' /\ CopyAt(j, r)'
             /\ ReadAt(j)'
  <2>1. rpc'[j] = rpc[j]
    BY <1>0 DEF TypeInv, RankTypes
  <2> QED
    BY <1>0, <2>1, SameRank
<1>3. RowInv'
  BY <1>0 DEF RankInv, RowInv
<1> QED
  BY <1>1, <1>2, <1>3 DEF RankInv, ChainInv, CopyInv, ReadInv
-----------------------------------------------------------------------------
(***************************************************************************)
(* A batch is issued                                                       *)
(***************************************************************************)
LEMMA ShortConcat ==
    ASSUME NEW S, NEW m \in S, NEW d \in S, NEW q \in Seq(S)
    PROVE  /\ <<m>> \o <<>> = <<m>>
           /\ \A i \in 1..Len(<<m>> \o <<d>>) : (<<m>> \o <<d>>)[i] \in {m, d}
           /\ q \o <<m>> = Append(q, m)
<1>1. <<m>> \in Seq(S) /\ <<d>> \in Seq(S)
  OBVIOUS
<1>2. <<m>> \o <<>> = <<m>>
  BY <1>1
<1>3. \A i \in 1..Len(<<m>> \o <<d>>) : (<<m>> \o <<d>>)[i] \in {m, d}
  BY <1>1
<1>4. q \o <<m>> = Append(q, m)
  OBVIOUS
<1> QED
  BY <1>2, <1>3, <1>4

\* The messages added to a rank's queue carry the batch, or none.
LEMMA CallsAppended ==
    ASSUME NEW q \in Seq(Messages), NEW j, NEW b \in Batch
    PROVE  LET t == q \o Calls(j, b) IN
           /\ Len(q) \in Nat /\ Len(t) \in Nat
           /\ \A i \in 1..Len(t) : \/ i \in 1..Len(q) /\ t[i] = q[i]
                                   \/ i > Len(q) /\ t[i].batch \in {b, NoBatch}
           /\ j # PP => t = Append(q, [op |-> "exec", batch |-> b])
<1> DEFINE m == [op |-> "exec", batch |-> b]
           d == [op |-> "draft", batch |-> NoBatch]
           c == Calls(j, b)
           t == q \o c
<1>1. c = <<m>> \o IF j = PP /\ b.fetch THEN <<d>> ELSE <<>>
  BY DEF Calls
<1>2. m \in Messages /\ d \in Messages /\ m.batch = b /\ d.batch = NoBatch
  BY ConstantSched DEF Messages
<1>3. c \in Seq(Messages) /\ (j # PP => c = <<m>>)
  BY CallsType
<1> HIDE DEF m, d, c
<1>4. \A i \in 1..Len(c) : c[i].batch \in {b, NoBatch}
  <2>1. CASE j = PP /\ b.fetch
    <3>1. \A i \in 1..Len(c) : c[i] \in {m, d}
      BY <1>1, <1>2, <2>1, ShortConcat
    <3> QED
      BY <1>2, <3>1
  <2>2. CASE ~(j = PP /\ b.fetch)
    <3>1. c = <<m>>
      BY <1>1, <1>2, <2>2, ShortConcat
    <3> QED
      BY <1>2, <3>1
  <2> QED
    BY <2>1, <2>2
<1>5. /\ Len(q) \in Nat /\ Len(c) \in Nat /\ Len(t) = Len(q) + Len(c)
      /\ \A i \in 1..Len(t) : t[i] = IF i <= Len(q) THEN q[i] ELSE c[i - Len(q)]
  BY <1>3
<1>6. \A i \in 1..Len(t) : \/ i \in 1..Len(q) /\ t[i] = q[i]
                           \/ i > Len(q) /\ t[i].batch \in {b, NoBatch}
  <2> HIDE DEF t
  <2> TAKE i \in 1..Len(t)
  <2>1. CASE i <= Len(q)
    BY <1>5, <2>1
  <2>2. CASE i > Len(q)
    <3>1. i - Len(q) \in 1..Len(c) /\ t[i] = c[i - Len(q)]
      BY <1>5, <2>2
    <3> QED
      BY <1>4, <2>2, <3>1
  <2> QED
    BY <1>5, <2>1, <2>2
<1>7. j # PP => t = Append(q, m)
  BY <1>2, <1>3, ShortConcat
<1> QED
  BY <1>5, <1>6, <1>7 DEF t, c, m

\* An entry as it is sent: it begins at what was sent before, and afterwards it
\* is where the next one begins.
LEMMA IssuedEntry ==
    ASSUME SchedInv, Issue, NEW r \in Req, Output[r].kind # "none"
    PROVE  /\ EntryOK(r, Output[r])
           /\ Output[r].from = Sent(r)
           /\ Sent(r)' = To(Output[r])
           /\ status[r] \in {"running", "preempted"}
<1> DEFINE o == Output[r]
           e == cur.batch[r]
<1>0. TypeInv
  BY DEF SchedInv
<1>1. /\ o \in Entry /\ e \in Entry /\ o.kind = e.kind
      /\ o.start = e.start /\ o.n = e.n /\ o.k = e.k
      /\ o.from = IF e.kind = "new" THEN Prompt[r] ELSE Max(sent[r], Prompt[r])
      /\ e.kind # "new" => o.ids = SubSeq(out[r], o.from - Prompt[r] + 1,
                                          End(e) - Prompt[r])
  BY <1>0, OutputFields, NextTypes
<1>2. r \in Scheduled(cur.batch)
  BY <1>1 DEF Scheduled
<1>3. /\ PlanOK(r, e) /\ status[r] \in {"running", "preempted"}
  BY <1>2 DEF SchedInv, CallInv
<1>4. /\ sent[r] \in Nat /\ Prompt[r] \in Nat /\ NumTokens(r) \in Nat
      /\ Prompt[r] <= NumTokens(r) /\ sent[r] <= NumTokens(r)
      /\ Len(out[r]) \in Nat /\ NumTokens(r) = Prompt[r] + Len(out[r])
  BY <1>0, NextTypes, ConstantTypes DEF SchedInv, LengthInv, NumTokens
<1>5. End(o) = End(e) /\ End(e) \in Int /\ o.k \in Nat /\ o.n \in Int /\ o.from \in Nat
  <2> HIDE DEF o, e
  <2>1. /\ o.k \in Nat /\ o.n \in Int /\ o.from \in Nat
        /\ e.k \in Nat /\ e.n \in Int /\ e.start \in Int
    BY <1>1 DEF Entry
  <2> QED
    BY <1>1, <2>1 DEF End
<1>6. /\ o.k < o.n /\ End(o) <= NumTokens(r) /\ (o.k > 0 => End(o) = NumTokens(r))
      /\ o.kind = "new" => out[r] = <<>> /\ sent[r] = 0
  BY <1>1, <1>3, <1>5 DEF PlanOK
<1>7. Prompt[r] <= o.from /\ o.from <= NumTokens(r) /\ o.from = Sent(r)
  BY <1>1, <1>4, <1>6 DEF Sent, Max
<1>8. sent'[r] = IF e.kind # "new" THEN Max(Max(sent[r], Prompt[r]), End(e)) ELSE sent[r]
  BY <1>2 DEF Issue
<1>9. o.kind = "new" => o.from = Prompt[r] /\ End(o) <= Prompt[r]
  BY <1>1, <1>4, <1>6
<1> HIDE DEF o, e
<1>10. Sent(r)' = To(o)
  <2>1. CASE o.kind = "new"
    BY <1>1, <1>4, <1>5, <1>6, <1>8, <1>9, <2>1 DEF Sent, To, Max
  <2>2. CASE o.kind # "new"
    BY <1>1, <1>4, <1>5, <1>8, <2>2 DEF Sent, To, Max
  <2> QED
    BY <2>1, <2>2
<1>11. EntryOK(r, o)
  <2>1. To(o) <= NumTokens(r)
    BY <1>6, <1>7 DEF To, Max
  <2>2. o.k > 0 => o.from <= End(o)
    BY <1>6, <1>7
  <2>3. o.kind # "new" =>
          o.ids = SubSeq(out[r], o.from - Prompt[r] + 1, End(o) - Prompt[r])
    BY <1>1, <1>5
  <2> QED
    BY <1>6, <1>7, <1>9, <2>1, <2>2, <2>3 DEF EntryOK
<1> QED
  BY <1>3, <1>7, <1>10, <1>11 DEF o

LEMMA RankIssueInv ==
    ASSUME SchedInv, RankInv, Issue PROVE RankInv'
<1>0. /\ TypeInv /\ rpc \in [Rank -> Seq(Messages)]
      /\ UNCHANGED <<status, out, hist, inBatch, row, inputs>> /\ finishedIds' = {}
  BY DEF SchedInv, TypeInv, RankTypes, Issue, rankVars
<1>1. PICK b \in Batch : IssuedBatch(b)
  BY IssueBatch
<1>2. \A j \in Rank : rpc[j] \in Seq(Messages) /\ rpc'[j] = rpc[j] \o Calls(j, b)
  BY <1>0, <1>1 DEF IssuedBatch
<1>3. b.sched = Output /\ b.fin = finishedIds
  BY <1>1 DEF IssuedBatch
<1>4. finishedIds \subseteq Req /\ \A r \in finishedIds : status[r] = "finished"
  BY <1>0 DEF RankInv, FinishInv, TypeInv, RequestTypes
<1>5. ASSUME NEW x \in {b, NoBatch}
      PROVE  /\ \A r \in x.fin : r \in finishedIds
             /\ \A r \in Req : status[r] = "finished" => x.sched[r].kind = "none"
  <2>1. CASE x = NoBatch
    BY <2>1 DEF NoBatch, EmptySched, NoEntry, Planned
  <2>2. CASE x = b
    <3>1. \A r \in Req : Output[r].kind # "none" => status[r] # "finished"
      BY IssuedEntry
    <3> QED
      BY <1>3, <2>2, <3>1
  <2> QED
    BY <2>1, <2>2
<1>6. FinishInv'
  <2>1. ASSUME NEW k \in Rank, NEW i \in 1..Len(rpc'[k]), NEW r \in rpc'[k][i].batch.fin
        PROVE  /\ status[r] = "finished"
               /\ \A l \in i..Len(rpc'[k]) : ~Has(rpc'[k], l, r)
    <3> DEFINE q == rpc[k]
               t == rpc'[k]
    <3>1. /\ Len(q) \in Nat /\ Len(t) \in Nat
          /\ \A l \in 1..Len(t) : \/ l \in 1..Len(q) /\ t[l] = q[l]
                                  \/ l > Len(q) /\ t[l].batch \in {b, NoBatch}
      <4>1. q \in Seq(Messages) /\ t = q \o Calls(k, b)
        BY <1>2
      <4> HIDE DEF q, t
      <4> QED
        BY <4>1, CallsAppended
    <3> HIDE DEF t
    <3>2. i \in 1..Len(t) /\ r \in t[i].batch.fin
      BY <2>1 DEF t
    <3>3. /\ status[r] = "finished" /\ r \in Req
          /\ \A l \in i..Len(q) : ~Has(q, l, r)
      <4>1. CASE i \in 1..Len(q) /\ t[i] = q[i]
        <5>1. r \in Req
          <6>1. q \in Seq(Messages)
            BY <1>2
          <6>2. q[i] \in Messages
            BY <4>1, <6>1
          <6> QED
            BY <3>2, <4>1, <6>2 DEF Messages, Batch
        <5> QED
          BY <3>2, <4>1, <5>1 DEF RankInv, FinishInv
      <4>2. CASE i > Len(q) /\ t[i].batch \in {b, NoBatch}
        <5>1. r \in finishedIds
          BY <1>5, <3>2, <4>2
        <5> QED
          BY <1>4, <3>1, <4>2, <5>1
      <4> QED
        BY <3>1, <3>2, <4>1, <4>2
    <3>4. ASSUME NEW l \in i..Len(t) PROVE ~Has(t, l, r)
      <4>1. l \in 1..Len(t)
        BY <3>1, <3>2
      <4>2. CASE l \in 1..Len(q) /\ t[l] = q[l]
        <5>1. l \in i..Len(q)
          BY <3>1, <4>2
        <5> QED
          BY <3>3, <4>2, <5>1 DEF Has, At
      <4>3. CASE t[l].batch \in {b, NoBatch}
        BY <1>5, <3>3, <4>3 DEF Has, At
      <4> QED
        BY <3>1, <4>1, <4>2, <4>3
    <3> QED
      BY <3>3, <3>4 DEF t
  <2> QED
    BY <1>0, <2>1 DEF FinishInv
<1>7. ASSUME NEW k \in Rank \ {PP}, NEW r \in Req PROVE ChainAt(k, r)'
  <2> DEFINE q == rpc[k]
             m == [op |-> "exec", batch |-> b]
  <2>1. /\ q \in Seq(Messages) /\ m \in Messages /\ rpc'[k] = Append(q, m)
        /\ m.batch.sched[r] = Output[r]
    BY <1>2, <1>3, CallsAppended DEF Messages
  <2> HIDE DEF m
  <2>2. ChainAt(k, r) /\ Seen(k, r)' = Seen(k, r)
    BY <1>0 DEF RankInv, ChainInv, Seen
  <2>3. /\ Len(q) \in Nat /\ Len(Append(q, m)) = Len(q) + 1
        /\ \A i \in 1..Len(q) : /\ At(Append(q, m), i, r) = At(q, i, r)
                                /\ Has(Append(q, m), i, r) <=> Has(q, i, r)
        /\ At(Append(q, m), Len(q) + 1, r) = Output[r]
        /\ Has(Append(q, m), Len(q) + 1, r) <=> Output[r].kind # "none"
    BY <2>1, AppendEntries
  <2>4. Output[r].kind # "none" => EntryOK(r, Output[r])
    BY IssuedEntry
  <2>5. \A i \in 1..Len(rpc'[k]) : Has(rpc'[k], i, r) => EntryOK(r, At(rpc'[k], i, r))
    <3> TAKE i \in 1..Len(rpc'[k])
    <3>1. CASE i \in 1..Len(q)
      BY <2>1, <2>2, <2>3, <3>1 DEF ChainAt
    <3>2. CASE i = Len(q) + 1
      BY <2>1, <2>3, <2>4, <3>2
    <3> QED
      BY <2>1, <2>3, <3>1, <3>2
  <2>6. (\A i \in 1..Len(rpc[k]) : Has(rpc[k], i, r) => EntryOK(r, At(rpc[k], i, r)))'
    BY <1>0, <2>5 DEF EntryOK, NumTokens
  <2>7. CASE Output[r].kind = "none"
    <3>1. Sent(r)' = Sent(r)
      <4>1. cur.batch[r].kind = "none"
        BY <2>7, OutputFields
      <4>2. sent'[r] = sent[r]
        BY <4>1 DEF Issue, Scheduled
      <4> QED
        BY <4>2 DEF Sent
    <3>2. /\ Chain(Append(q, m), r, Seen(k, r))
          /\ status[r] # "finished" => ChainEnd(Append(q, m), r, Seen(k, r), Sent(r))
      BY <2>1, <2>2, <2>7, ChainAppendOther DEF ChainAt
    <3> QED
      BY <1>0, <2>1, <2>2, <2>6, <3>1, <3>2 DEF ChainAt
  <2>8. CASE Output[r].kind # "none"
    <3>1. /\ Output[r].from = Sent(r) /\ Sent(r)' = To(Output[r])
          /\ status[r] # "finished"
      BY <2>8, IssuedEntry
    <3>2. /\ Chain(Append(q, m), r, Seen(k, r))
          /\ ChainEnd(Append(q, m), r, Seen(k, r), To(Output[r]))
      BY <2>1, <2>2, <2>8, <3>1, ChainAppend DEF ChainAt
    <3> QED
      BY <1>0, <2>1, <2>2, <2>6, <3>1, <3>2 DEF ChainAt
  <2> QED
    BY <2>7, <2>8
<1>8. CopyInv' /\ RowInv' /\ ReadInv'
  BY <1>0 DEF RankInv, CopyInv, CopyAt, RowInv, ReadInv, ReadAt, InputAgrees, NumTokens
<1> QED
  BY <1>6, <1>7, <1>8 DEF RankInv, ChainInv
-----------------------------------------------------------------------------
(***************************************************************************)
(* The other actions leave the ranks alone                                 *)
(***************************************************************************)
LEMMA RankStill ==
    ASSUME SchedInv, RankInv, UNCHANGED <<rpc, rankVars, out, sent, finishedIds>>,
           \A r \in Req : status[r] = "finished" => status'[r] = "finished"
    PROVE  RankInv'
<1>0. TypeInv /\ \A r \in Req : out[r] \in Seq(Token)
  BY NextTypes DEF SchedInv
<1>1. ASSUME NEW r \in Req PROVE \E t \in Seq(Token) : out'[r] = out[r] \o t
  <2>1. out'[r] = out[r] \o <<>> /\ <<>> \in Seq(Token)
    BY <1>0
  <2> QED
    BY <2>1
<1>2. finishedIds' \subseteq Req /\ \A r \in finishedIds' : status'[r] = "finished"
  BY <1>0 DEF TypeInv, RequestTypes, RankInv, FinishInv
<1> QED
  BY <1>1, <1>2, RankGrows

\* Preemption is for running requests.
LEMMA PreemptedNotFinished ==
    ASSUME SchedInv, NEW s, Preempt(s, FALSE) \/ Preempt(s, TRUE),
           \A r \in SeqSet(s) : status[r] = "running"
    PROVE  \A r \in Req : status[r] = "finished" => status'[r] = "finished"
BY DEF Preempt

LEMMA RankClients ==
    ASSUME SchedInv, RankInv, Clients PROVE RankInv'
<1>1. CASE ResetPrefixCache
  <2>1. \A r \in SeqSet(running) : status[r] = "running"
    BY DEF SchedInv, RunningInv, SeqSet
  <2>2. \A r \in Req : status[r] = "finished" => status'[r] = "finished"
    BY <1>1, <2>1, PreemptedNotFinished DEF ResetPrefixCache
  <2> QED
    BY <1>1, <2>2, RankStill DEF ResetPrefixCache
<1>2. ASSUME NEW r \in Req, AddRequest(r) PROVE RankInv'
  <2>1. \A q \in Req : status[q] = "finished" => status'[q] = "finished"
    BY <1>2 DEF AddRequest, SchedInv, TypeInv, RequestTypes
  <2> QED
    BY <1>2, <2>1, RankStill DEF AddRequest
<1>3. ASSUME NEW r \in Req, Abort(r) PROVE RankInv'
  <2>0. TypeInv /\ UNCHANGED <<out, rpc, rankVars>> /\ finishedIds' = finishedIds \cup {r}
    BY <1>3 DEF SchedInv, Abort, FreeRequests
  <2>1. \A q \in Req : /\ q \in {r} => status'[q] = "finished" /\ sent'[q] = 0
                       /\ q \notin {r} => status'[q] = status[q] /\ sent'[q] = sent[q]
    BY <1>3, SchedFree DEF Abort, Live
  <2>2. ASSUME NEW q \in Req PROVE \E t \in Seq(Token) : out'[q] = out[q] \o t
    <3>1. out'[q] = out[q] \o <<>> /\ <<>> \in Seq(Token)
      BY <2>0, NextTypes
    <3> QED
      BY <3>1
  <2>3. finishedIds' \subseteq Req /\ \A q \in finishedIds' : status'[q] = "finished"
    BY <2>0, <2>1 DEF TypeInv, RequestTypes, RankInv, FinishInv
  <2> QED
    BY <2>0, <2>1, <2>2, <2>3, RankGrows
<1> QED
  BY <1>1, <1>2, <1>3 DEF Clients

LEMMA RankProcess ==
    ASSUME SchedInv, RankInv, Process PROVE RankInv'
<1>1. CASE AwaitResult
  BY <1>1, RankStill DEF AwaitResult, reqVars, queueVars
<1>2. CASE UpdateDrafts
  BY <1>2, RankStill DEF UpdateDrafts, queueVars
<1>3. CASE UpdateFromOutput
  <2> DEFINE F == {r \in {r \in Scheduled(Head(queue).sched) : Live(r)} : Stopped(r)}
  <2>1. /\ F \in SUBSET Req /\ FreeRequests(F)
        /\ \A r \in F : status[r] \notin {"unknown", "finished"}
    BY <1>3 DEF UpdateFromOutput, Scheduled, Live
  <2> HIDE DEF F
  <2>2. \A r \in Req : /\ r \in F => status'[r] = "finished" /\ sent'[r] = 0
                       /\ r \notin F => status'[r] = status[r] /\ sent'[r] = sent[r]
    BY <2>1, SchedFree
  <2>3. \A r \in Req : \E t \in Seq(Token) : out'[r] = out[r] \o t
    BY <1>3, Delivery
  <2>4. finishedIds' = finishedIds \cup F /\ UNCHANGED <<rpc, rankVars>>
    BY <1>3, <2>1 DEF UpdateFromOutput, FreeRequests
  <2>5. finishedIds' \subseteq Req /\ \A r \in finishedIds' : status'[r] = "finished"
    BY <2>1, <2>2, <2>4
       DEF SchedInv, TypeInv, RequestTypes, RankInv, FinishInv
  <2> QED
    BY <2>2, <2>3, <2>4, <2>5, RankGrows
<1> QED
  BY <1>1, <1>2, <1>3 DEF Process

LEMMA RankSchedule ==
    ASSUME SchedInv, RankInv, Schedule PROVE RankInv'
<1>1. CASE StartStep \/ EndRunning \/ EndWaiting
  BY <1>1, RankStill DEF StartStep, EndRunning, EndWaiting, reqVars, queueVars
<1>2. CASE Issue
  BY <1>2, RankIssueInv
<1>3. ASSUME NEW r \in Req, SkipRunning(r) \/ ScheduleRunning(r) \/ SkipWaiting(r)
      PROVE  RankInv'
  BY <1>3, RankStill DEF SkipRunning, ScheduleRunning, SkipWaiting, reqVars, queueVars
<1>4. ASSUME NEW r \in Req, Admit(r) PROVE RankInv'
  <2>1. status[r] # "finished"
    BY <1>4 DEF Admit
  <2>2. \A q \in Req : status[q] = "finished" => status'[q] = "finished"
    BY <1>4, <2>1 DEF Admit, SchedInv, TypeInv, RequestTypes
  <2> QED
    BY <1>4, <2>2, RankStill DEF Admit
<1>5. ASSUME NEW r \in Req, NEW victim \in Req, PreemptLast(r, victim) PROVE RankInv'
  <2>1. running \in Seq(Req) /\ running # <<>> /\ victim = running[Len(running)]
    <3>1. running \in Seq(Req) /\ cur.idx \in Nat \ {0} /\ cur.idx <= Len(running)
      BY <1>5 DEF PreemptLast, Schedulable, AtRunning, SchedInv, TypeInv,
                  RequestTypes, EngineTypes, Call
    <3> QED
      BY <1>5, <3>1 DEF PreemptLast
  <2>2. Len(running) \in DOMAIN running
    BY <2>1
  <2>3. status[victim] = "running"
    BY <2>1, <2>2 DEF SchedInv, RunningInv
  <2>4. \A q \in SeqSet(<<victim>>) : status[q] = "running"
    BY <2>3 DEF SeqSet
  <2>5. \A q \in Req : status[q] = "finished" => status'[q] = "finished"
    BY <1>5, <2>4, PreemptedNotFinished DEF PreemptLast
  <2> QED
    BY <1>5, <2>5, RankStill DEF PreemptLast
<1> QED
  BY <1>1, <1>2, <1>3, <1>4, <1>5 DEF Schedule

LEMMA RankInit == Init => RankInv
<1> SUFFICES ASSUME Init PROVE RankInv
  OBVIOUS
<1>1. FinishInv
  BY DEF Init, FinishInv
<1>2. ASSUME NEW k \in Rank \ {PP}, NEW r \in Req PROVE ChainAt(k, r) /\ CopyAt(k, r)
  <2>1. rpc[k] = <<>> /\ hist[k][r] = <<>> /\ out[r] = <<>> /\ sent[r] = 0
    BY DEF Init
  <2>2. Seen(k, r) = Sent(r)
    BY <2>1, ConstantTypes DEF Seen, Sent, Max
  <2> QED
    BY <2>1, <2>2 DEF ChainAt, CopyAt, Chain, ChainEnd
<1>3. RowInv
  BY DEF Init, RowInv
<1>4. ReadInv
  BY DEF Init, ReadInv, ReadAt
<1> QED
  BY <1>1, <1>2, <1>3, <1>4 DEF RankInv, ChainInv, CopyInv

LEMMA RankNext == SchedInv /\ RankInv /\ [Next]_vars => RankInv'
<1> SUFFICES ASSUME SchedInv, RankInv, [Next]_vars PROVE RankInv'
  OBVIOUS
<1>1. CASE Schedule
  BY <1>1, RankSchedule
<1>2. CASE Process
  BY <1>2, RankProcess
<1>3. CASE Ranks
  BY <1>3, RankExecuteInv, RankSampleInv, RankTakeDraftsInv DEF Ranks, LastRank
<1>4. CASE Clients
  BY <1>4, RankClients
<1>5. CASE UNCHANGED vars
  BY <1>5, RankStill DEF vars, reqVars, queueVars
<1> QED
  BY <1>1, <1>2, <1>3, <1>4, <1>5 DEF Next

LEMMA Invariants == Spec => [](SchedInv /\ RankInv)
<1>1. Init => SchedInv /\ RankInv
  BY SchedInit, RankInit
<1>2. SchedInv /\ RankInv /\ [Next]_vars => (SchedInv /\ RankInv)'
  BY SchedNext, RankNext
<1> QED
  BY <1>1, <1>2, PTL DEF Spec

\* For any number of ranks, requests and tokens, what a rank before the last
\* reads from its persistent batch is the delivered output: the incremental
\* new_token_ids of _make_cached_request_data and the duplicate filter of
\* _update_states lose, repeat and misplace nothing.
THEOREM ReceiversComputeOnDelivered == Spec => []ReceiversAgree
<1>1. SchedInv /\ RankInv => ReceiversAgree
  BY DEF RankInv, ReadInv, ReadAt, ReceiversAgree
<1> QED
  BY <1>1, Invariants, PTL

\* Every variable keeps its type: no action of the engine thread or of a rank puts
\* a value into a request, a queue or a message that the others cannot take.
THEOREM TypesHold == Spec => []TypeOK
<1>1. ASSUME NEW d \in DraftSet PROVE IsDrafts(d)
  <2>1. PICK S \in SUBSET Req : d \in [S -> [n : 0..NumSpec, base : Nat]]
    BY DEF DraftSet
  <2> QED
    BY <2>1 DEF IsDrafts
<1>2. ASSUME SchedInv, RankInv PROVE TypeOK
  <2>1. /\ {waiting, skipped, running} \subseteq Seq(Req)
        /\ \A i \in DOMAIN draftFuts : IsDrafts(draftFuts[i])
        /\ IsDrafts(proposed)
    <3>1. draftFuts \in Seq(DraftSet) /\ proposed \in DraftSet
      BY <1>2 DEF SchedInv, TypeInv, EngineTypes, RankTypes
    <3>2. \A i \in DOMAIN draftFuts : draftFuts[i] \in DraftSet
      BY <3>1
    <3>3. {waiting, skipped, running} \subseteq Seq(Req)
      BY <1>2 DEF SchedInv, TypeInv, RequestTypes
    <3> QED
      BY <1>1, <3>1, <3>2, <3>3
  <2>2. row \in [Rank -> [Req -> Seq(Token \cup {Garbage})]]
    <3>1. row \in [Rank -> [Req -> Seq(Token)]]
      BY <1>2 DEF RankInv, RowInv
    <3>2. \A s \in Seq(Token) : s \in Seq(Token \cup {Garbage})
      OBVIOUS
    <3> QED
      BY <3>1, <3>2
  <2>3. RequestTypes /\ CounterTypes /\ EngineTypes /\ RankTypes
    BY <1>2 DEF SchedInv, TypeInv
  <2> QED
    BY <2>1, <2>2, <2>3
       DEF TypeOK, RequestTypes, CounterTypes, EngineTypes, RankTypes
<1> QED
  BY <1>2, Invariants, PTL
-----------------------------------------------------------------------------
(***************************************************************************)
(* PPEngine implements Generation: whatever is drafted, rejected,          *)
(* preempted and dropped, a client receives one text that only grows and   *)
(* ends at its first stop.                                                 *)
(***************************************************************************)
\* How a request looks to its client.
Phase(st) == CASE st = "unknown"  -> "new"
               [] st = "finished" -> "closed"
               [] OTHER           -> "open"

LEMMA StateOf ==
    ASSUME NEW r \in Req
    PROVE  /\ [q \in Req |-> CASE status[q] = "unknown"  -> "new"
                               [] status[q] = "finished" -> "closed"
                               [] OTHER                  -> "open"][r] = Phase(status[r])
           /\ [q \in Req |-> CASE status[q] = "unknown"  -> "new"
                               [] status[q] = "finished" -> "closed"
                               [] OTHER                  -> "open"]'[r] = Phase(status'[r])
BY DEF Phase

\* Neither the text nor the phase of a request changes.
LEMMA PromiseStay ==
    ASSUME NEW r \in Req, out'[r] = out[r], Phase(status'[r]) = Phase(status[r])
    PROVE  Promise!Stay(r)
BY StateOf DEF Promise!Stay

LEMMA PromiseSubmit ==
    ASSUME NEW r \in Req, out'[r] = out[r], status[r] = "unknown", status'[r] = "waiting"
    PROVE  Promise!Submit(r)
BY StateOf DEF Promise!Submit, Phase

LEMMA PromiseCancel ==
    ASSUME NEW r \in Req, out'[r] = out[r], Live(r), status'[r] = "finished"
    PROVE  Promise!Cancel(r)
BY StateOf DEF Promise!Cancel, Phase, Live

LEMMA ConcatType ==
    ASSUME NEW S, NEW s \in Seq(S), NEW t \in Seq(S)
    PROVE  /\ s \o t \in Seq(S) /\ Len(s \o t) = Len(s) + Len(t)
           /\ Len(s) \in Nat /\ Len(t) \in Nat
           /\ \A j \in 1..Len(s) : (s \o t)[j] = s[j]
           /\ \A j \in 1..Len(t) : (s \o t)[Len(s) + j] = t[j]
OBVIOUS

\* The text after m tokens of an output that is appended to it.
LEMMA ConcatPrefix ==
    ASSUME NEW S, NEW s \in Seq(S), NEW t \in Seq(S), NEW i \in 1..Len(t),
           NEW v \in Seq(S), v = SubSeq(t, 1, i)
    PROVE  /\ SubSeq(s \o t, 1, Len(s) + i) = s \o v
           /\ (s \o t)[Len(s) + i] = t[i]
<1> DEFINE u == s \o t
           w == s \o v
           m == Len(s) + i
           x == SubSeq(u, 1, m)
<1>1. /\ u \in Seq(S) /\ Len(u) = Len(s) + Len(t) /\ Len(s) \in Nat /\ Len(t) \in Nat
      /\ \A j \in 1..Len(s) : u[j] = s[j]
      /\ \A j \in 1..Len(t) : u[Len(s) + j] = t[j]
  BY ConcatType
<1>2. /\ Len(v) = i
      /\ \A j \in 1..i : v[j] = t[j]
  BY <1>1, SubSeqType
<1>3. /\ w \in Seq(S) /\ Len(w) = Len(s) + Len(v)
      /\ \A j \in 1..Len(s) : w[j] = s[j]
      /\ \A j \in 1..Len(v) : w[Len(s) + j] = v[j]
  BY ConcatType
<1> HIDE DEF u, w
<1>4. m \in Nat /\ m <= Len(u) /\ m >= 1
  BY <1>1
<1> HIDE DEF m
<1>5. x \in Seq(S) /\ Len(x) = m /\ \A j \in 1..m : x[j] = u[j]
  BY <1>1, <1>4, SubSeqType
<1> HIDE DEF x
<1>6. ASSUME NEW j \in 1..m PROVE x[j] = w[j]
  <2>1. CASE j <= Len(s)
    BY <1>1, <1>3, <1>4, <1>5, <2>1
  <2>2. CASE j > Len(s)
    <3> DEFINE l == j - Len(s)
    <3>1. l \in 1..i /\ l \in 1..Len(t) /\ j = Len(s) + l
      BY <1>1, <1>4, <2>2 DEF m
    <3> HIDE DEF l
    <3>2. u[j] = t[l] /\ w[j] = v[l] /\ v[l] = t[l]
      BY <1>1, <1>2, <1>3, <3>1
    <3> QED
      BY <1>5, <3>2
  <2> QED
    BY <1>1, <1>4, <2>1, <2>2
<1>7. Len(w) = m
  BY <1>2, <1>3 DEF m
<1>8. x = w
  BY <1>3, <1>4, <1>5, <1>6, <1>7, SeqEqual
<1> QED
  BY <1>1, <1>8 DEF u, w, x, m

LEMMA PrefixOfPrefix ==
    ASSUME NEW S, NEW g \in Seq(S), NEW n \in 1..Len(g), NEW i \in 1..n
    PROVE  /\ SubSeq(SubSeq(g, 1, n), 1, i) = SubSeq(g, 1, i)
           /\ SubSeq(g, 1, n) \in Seq(S) /\ Len(SubSeq(g, 1, n)) = n
           /\ SubSeq(g, 1, i)[i] = g[i]
           /\ i \in 1..Len(g)
<1> DEFINE u == SubSeq(g, 1, n)
           v == SubSeq(g, 1, i)
<1>0. Len(g) \in Nat /\ i \in 1..Len(g)
  OBVIOUS
<1>1. u \in Seq(S) /\ Len(u) = n /\ \A j \in 1..n : u[j] = g[j]
  BY <1>0, SubSeqType
<1>2. v \in Seq(S) /\ Len(v) = i /\ \A j \in 1..i : v[j] = g[j]
  BY <1>0, SubSeqType
<1> HIDE DEF u, v
<1>3. /\ SubSeq(u, 1, i) \in Seq(S) /\ Len(SubSeq(u, 1, i)) = i
      /\ \A j \in 1..i : SubSeq(u, 1, i)[j] = u[j]
  BY <1>1, SubSeqType
<1>4. \A j \in 1..i : SubSeq(u, 1, i)[j] = v[j]
  BY <1>1, <1>2, <1>3
<1>5. SubSeq(u, 1, i) = v
  BY <1>2, <1>3, <1>4, SeqEqual
<1> QED
  BY <1>0, <1>1, <1>2, <1>5 DEF u, v

\* _update_request_with_output delivers tokens up to the first stop: the one at
\* which check_stop says so is the last, and none before it does.
LEMMA TrimmedEnds ==
    ASSUME NEW r \in Req, NEW g \in Seq(Token), g # <<>>
    PROVE  \E n \in 1..Len(g) :
              /\ Trimmed(r, g) = SubSeq(g, 1, n)
              /\ \A i \in 1..(n-1) : ~StopsAt(r, g, i)
              /\ Stops(r, g) <=> StopsAt(r, g, n)
<1>0. DOMAIN g = 1..Len(g) /\ Len(g) \in Nat /\ Len(g) > 0
  OBVIOUS
<1>1. CASE ~Stops(r, g)
  <2>1. Trimmed(r, g) = SubSeq(g, 1, Len(g))
    BY <1>1 DEF Trimmed
  <2>2. \A i \in 1..Len(g) : ~StopsAt(r, g, i)
    BY <1>0, <1>1 DEF Stops
  <2>3. Len(g) \in 1..Len(g) /\ \A i \in 1..(Len(g) - 1) : i \in 1..Len(g)
    BY <1>0
  <2>4. /\ \A i \in 1..(Len(g) - 1) : ~StopsAt(r, g, i)
        /\ Stops(r, g) <=> StopsAt(r, g, Len(g))
    BY <1>1, <2>2, <2>3
  <2> QED
    BY <2>1, <2>3, <2>4
<1>2. CASE Stops(r, g)
  <2> DEFINE T == {i \in DOMAIN g : StopsAt(r, g, i)}
             First(i) == StopsAt(r, g, i) /\ \A j \in 1..(i-1) : ~StopsAt(r, g, j)
  <2>1. T \in SUBSET Nat /\ T # {}
    BY <1>0, <1>2 DEF Stops
  <2>2. PICK i \in T : \A j \in T : i <= j
    BY <2>1, NatMin
  <2>3. i \in DOMAIN g /\ First(i)
    BY <1>0, <2>1, <2>2
  <2> DEFINE c == CHOOSE x \in DOMAIN g : First(x)
  <2>4. c \in DOMAIN g /\ First(c)
    BY <2>3
  <2>5. Trimmed(r, g) = SubSeq(g, 1, c)
    BY <1>2 DEF Trimmed
  <2> HIDE DEF c
  <2> QED
    BY <1>0, <1>2, <2>4, <2>5
<1> QED
  BY <1>1, <1>2

\* The length limits of check_stop are those of the promise.
LEMMA EndedAt ==
    ASSUME TypeInv, NEW r \in Req, NEW g \in Seq(Token), NEW i \in 1..Len(g)
    PROVE  Promise!Ended(r, out[r] \o SubSeq(g, 1, i)) <=> StopsAt(r, g, i)
<1> DEFINE t == out[r] \o SubSeq(g, 1, i)
           lim == Min(MaxTokens[r], MaxModelLen - Prompt[r])
<1>0. /\ out[r] \in Seq(Token) /\ Len(out[r]) \in Nat /\ Prompt[r] \in Nat
      /\ MaxModelLen \in Nat /\ MaxTokens[r] \in Nat /\ Len(g) \in Nat
  BY NextTypes, ConstantTypes, ConstantsAssumption
<1>1. /\ SubSeq(g, 1, i) \in Seq(Token) /\ Len(SubSeq(g, 1, i)) = i
      /\ SubSeq(g, 1, i)[i] = g[i]
  BY <1>0, SubSeqType
<1>2. t \in Seq(Token) /\ Len(t) = Len(out[r]) + i /\ t[Len(t)] = g[i] /\ t # <<>>
  BY <1>0, <1>1
<1>3. /\ lim \in Int
      /\ \A x \in Int : x >= lim <=> x >= MaxTokens[r] \/ x >= MaxModelLen - Prompt[r]
  BY <1>0 DEF Min
<1> HIDE DEF t, lim
<1>4. Promise!Ended(r, t) <=> t[Len(t)] \in StopTokens \/ Len(t) >= lim
  BY <1>2 DEF Promise!Ended, lim
<1>5. NumTokens(r) + i >= MaxModelLen <=> Len(out[r]) + i >= MaxModelLen - Prompt[r]
  BY <1>0 DEF NumTokens
<1>6. Len(out[r]) + i \in Int
  BY <1>0
<1>7. Len(t) >= lim <=> Len(out[r]) + i >= MaxTokens[r] \/ NumTokens(r) + i >= MaxModelLen
  BY <1>2, <1>3, <1>5, <1>6
<1> QED
  BY <1>2, <1>4, <1>7 DEF t, StopsAt

\* Output that counts is emitted: the text o becomes w.
LEMMA PromiseEmit ==
    ASSUME TypeInv, NEW r \in Req, NEW g \in Seq(Token), g # <<>>, Live(r),
           out'[r] = out[r] \o Trimmed(r, g),
           status'[r] = IF Stops(r, g) THEN "finished" ELSE status[r]
    PROVE  Promise!Emit(r)
<1>1. PICK n \in 1..Len(g) :
              /\ Trimmed(r, g) = SubSeq(g, 1, n)
              /\ \A i \in 1..(n-1) : ~StopsAt(r, g, i)
              /\ Stops(r, g) <=> StopsAt(r, g, n)
  BY TrimmedEnds
<1>2. out[r] \in Seq(Token) /\ SubSeq(g, 1, n) \in Seq(Token)
  BY NextTypes, SubSeqType
<1>3. out'[r] = out[r] \o SubSeq(g, 1, n)
  BY <1>1
<1>4. /\ Len(out'[r]) > Len(out[r]) /\ SubSeq(out'[r], 1, Len(out[r])) = out[r]
      /\ \A m \in (Len(out[r]) + 1)..Len(out'[r]) :
            /\ out'[r][m] \in Token
            /\ Promise!Ended(r, SubSeq(out'[r], 1, m)) => m = Len(out'[r])
  <2>1. PICK o, t, w : o = out[r] /\ t = SubSeq(g, 1, n) /\ w = out'[r]
    OBVIOUS
  <2>2. o \in Seq(Token) /\ t \in Seq(Token) /\ w = o \o t
    BY <1>2, <1>3, <2>1
  <2>3. /\ w \in Seq(Token) /\ Len(w) = Len(o) + Len(t)
        /\ Len(o) \in Nat /\ Len(g) \in Nat /\ n \in Nat /\ n \in 1..n
    BY <2>2, ConcatType
  <2>4. Len(t) = n
    BY <2>1, <2>3, PrefixOfPrefix
  <2>5. SubSeq(w, 1, Len(o)) = o
    <3>1. SubSeq(o, 1, Len(o)) = o
      BY <2>2
    <3> QED
      BY <2>2, <2>3, <3>1, SubSeqConcat
  <2>6. ASSUME NEW m \in (Len(o) + 1)..Len(w)
        PROVE  w[m] \in Token /\ (Promise!Ended(r, SubSeq(w, 1, m)) => m = Len(w))
    <3> DEFINE i == m - Len(o)
    <3>1. i \in 1..n /\ i \in 1..Len(t) /\ m = Len(o) + i
      BY <2>3, <2>4
    <3> HIDE DEF i
    <3>2. SubSeq(t, 1, i) = SubSeq(g, 1, i) /\ i \in 1..Len(g)
      BY <2>1, <3>1, PrefixOfPrefix
    <3>3. SubSeq(t, 1, i) \in Seq(Token)
      BY <2>2, <2>3, <3>1, SubSeqType
    <3>4. SubSeq(w, 1, m) = o \o SubSeq(g, 1, i) /\ w[m] = t[i]
      BY <2>2, <3>1, <3>2, <3>3, ConcatPrefix
    <3>5. Promise!Ended(r, SubSeq(w, 1, m)) <=> StopsAt(r, g, i)
      BY <2>1, <3>2, <3>4, EndedAt
    <3>6. StopsAt(r, g, i) => i = n
      <4>1. i # n => i \in 1..(n-1)
        BY <3>1
      <4> QED
        BY <1>1, <4>1
    <3>7. w[m] \in Token
      BY <2>2, <3>1, <3>4
    <3> QED
      BY <2>3, <2>4, <3>1, <3>5, <3>6, <3>7
  <2> QED
    BY <2>1, <2>3, <2>4, <2>5, <2>6
<1>5. Promise!Ended(r, out'[r]) <=> Stops(r, g)
  BY <1>1, <1>3, EndedAt
<1>6. /\ Phase(status[r]) = "open"
      /\ Phase(status'[r]) = IF Promise!Ended(r, out'[r]) THEN "closed" ELSE "open"
  BY <1>5 DEF Phase, Live
<1> QED
  BY <1>4, <1>6, StateOf DEF Promise!Emit

-----------------------------------------------------------------------------
(***************************************************************************)
(* The steps of the engine                                                 *)
(***************************************************************************)
\* A step that delivers nothing, adds nothing and finishes nothing.
LEMMA AllStay ==
    ASSUME UNCHANGED out, \A r \in Req : Phase(status'[r]) = Phase(status[r])
    PROVE  Promise!Next
BY PromiseStay DEF Promise!Next

LEMMA PromiseAddRequest ==
    ASSUME SchedInv, NEW r \in Req, AddRequest(r) PROVE Promise!Next
<1>1. /\ UNCHANGED out /\ status[r] = "unknown" /\ status'[r] = "waiting"
      /\ \A q \in Req \ {r} : status'[q] = status[q]
  BY DEF AddRequest, SchedInv, TypeInv, RequestTypes
<1>2. Promise!Submit(r)
  BY <1>1, PromiseSubmit
<1>3. \A q \in Req \ {r} : Promise!Stay(q)
  BY <1>1, PromiseStay
<1> QED
  BY <1>2, <1>3 DEF Promise!Next

LEMMA PromiseAbort ==
    ASSUME SchedInv, NEW r \in Req, Abort(r) PROVE Promise!Next
<1>1. /\ UNCHANGED out /\ Live(r) /\ status'[r] = "finished"
      /\ \A q \in Req \ {r} : status'[q] = status[q]
  BY DEF Abort, FreeRequests, Forget
<1>2. Promise!Cancel(r)
  BY <1>1, PromiseCancel
<1>3. \A q \in Req \ {r} : Promise!Stay(q)
  BY <1>1, PromiseStay
<1> QED
  BY <1>2, <1>3 DEF Promise!Next

\* Preempting requests of the running queue.
LEMMA PromisePreempt ==
    ASSUME NEW s, NEW drop, Preempt(s, drop), UNCHANGED out,
           \A r \in SeqSet(s) : status[r] = "running"
    PROVE  Promise!Next
BY AllStay DEF Preempt, Phase

LEMMA PromiseReset ==
    ASSUME SchedInv, ResetPrefixCache PROVE Promise!Next
<1>1. \A r \in SeqSet(running) : status[r] = "running"
  BY DEF SchedInv, RunningInv, SeqSet
<1> QED
  BY <1>1, PromisePreempt DEF ResetPrefixCache

LEMMA PromisePreemptLast ==
    ASSUME SchedInv, NEW r \in Req, NEW victim \in Req, PreemptLast(r, victim)
    PROVE  Promise!Next
<1>0. TypeInv /\ running \in Seq(Req)
  BY DEF SchedInv, TypeInv, RequestTypes
<1>1. cur.idx \in Nat \ {0} /\ cur.idx <= Len(running)
  BY <1>0, NextTypes DEF PreemptLast, Schedulable, AtRunning, Call
<1>2. Len(running) \in DOMAIN running
  BY <1>0, <1>1
<1>3. \A q \in SeqSet(<<victim>>) : status[q] = "running"
  BY <1>2 DEF SeqSet, SchedInv, RunningInv, PreemptLast
<1> QED
  BY <1>3, PromisePreempt DEF PreemptLast

LEMMA PromiseAdmit ==
    ASSUME SchedInv, NEW r \in Req, Admit(r) PROVE Promise!Next
<1>1. /\ UNCHANGED out /\ status[r] \in {"waiting", "preempted"}
      /\ status' = [status EXCEPT ![r] = "running"]
      /\ status \in [Req -> {"unknown", "waiting", "running", "preempted",
                             "finished"}]
  BY DEF Admit, SchedInv, TypeInv, RequestTypes
<1>2. \A q \in Req : Phase(status'[q]) = Phase(status[q])
  BY <1>1 DEF Phase
<1> QED
  BY <1>1, <1>2, AllStay

\* A model output delivers to several requests at once.
LEMMA PromiseUpdateFromOutput ==
    ASSUME SchedInv, UpdateFromOutput PROVE Promise!Next
<1> DEFINE F == {r \in {r \in Scheduled(Head(queue).sched) : Live(r)} : Stopped(r)}
<1>0. TypeInv /\ pc = "update"
  BY DEF SchedInv, UpdateFromOutput
<1>1. FreeRequests(F)
  BY DEF UpdateFromOutput
<1>2. \A r \in Req : r \in F <=> Stopped(r)
  BY DEF Stopped, Delivers
<1> HIDE DEF F
<1>3. \A r \in Req : status'[r] = IF Stopped(r) THEN "finished" ELSE status[r]
  BY <1>1, <1>2 DEF FreeRequests, Forget
<1>4. ASSUME NEW r \in Req
      PROVE  Promise!Stay(r) \/ Promise!Emit(r)
  <2> DEFINE g == Head(results)[r]
             D == r \in Scheduled(Head(queue).sched) /\ Live(r) /\ Delivers(r)
  <2>1. g \in Seq(Token) /\ out[r] \in Seq(Token)
    BY <1>0, Processed, NextTypes
  <2>2. out'[r] = IF D THEN out[r] \o Trimmed(r, g) ELSE out[r]
    BY DEF UpdateFromOutput
  <2>3. D <=> Delivers(r)
    BY DEF Delivers
  <2>4. CASE Delivers(r) /\ g # <<>>
    <3>1. Live(r) /\ (Stopped(r) <=> Stops(r, g))
      BY <2>4 DEF Delivers, Stopped
    <3>2. status'[r] = IF Stops(r, g) THEN "finished" ELSE status[r]
      BY <1>3, <3>1
    <3>3. out'[r] = out[r] \o Trimmed(r, g)
      BY <2>2, <2>3, <2>4
    <3> HIDE DEF g
    <3> QED
      BY <1>0, <2>1, <2>4, <3>1, <3>2, <3>3, PromiseEmit
  <2>5. CASE ~(Delivers(r) /\ g # <<>>)
    <3>1. g = <<>> => ~Stops(r, g) /\ Trimmed(r, g) = <<>>
      BY DEF Stops, Trimmed
    <3>2. ~Stopped(r)
      BY <2>5, <3>1 DEF Stopped
    <3> HIDE DEF g
    <3>3. out[r] \o <<>> = out[r]
      BY <2>1
    <3>4. out'[r] = out[r]
      BY <2>2, <2>3, <2>5, <3>1, <3>3
    <3> QED
      BY <1>3, <3>2, <3>4, PromiseStay
  <2> QED
    BY <2>4, <2>5
<1> QED
  BY <1>4 DEF Promise!Next

\* Every step of the engine is a step of the promise or leaves it alone.
LEMMA PromiseStep ==
    ASSUME SchedInv, [Next]_vars PROVE Promise!Next
<1>1. ASSUME UNCHANGED <<status, out>> PROVE Promise!Next
  BY <1>1, AllStay
<1>2. CASE UNCHANGED vars
  BY <1>1, <1>2 DEF vars, reqVars
<1>3. CASE Schedule
  <2>1. CASE StartStep
    BY <1>1, <2>1 DEF StartStep, reqVars
  <2>2. CASE EndRunning
    BY <1>1, <2>2 DEF EndRunning, reqVars
  <2>3. CASE EndWaiting
    BY <1>1, <2>3 DEF EndWaiting, reqVars
  <2>4. CASE Issue
    BY <1>1, <2>4 DEF Issue
  <2>5. ASSUME NEW r \in Req, SkipRunning(r) PROVE Promise!Next
    BY <1>1, <2>5 DEF SkipRunning, reqVars
  <2>6. ASSUME NEW r \in Req, ScheduleRunning(r) PROVE Promise!Next
    BY <1>1, <2>6 DEF ScheduleRunning
  <2>7. ASSUME NEW r \in Req, SkipWaiting(r) PROVE Promise!Next
    BY <1>1, <2>7 DEF SkipWaiting, reqVars
  <2> QED
    BY <1>3, <2>1, <2>2, <2>3, <2>4, <2>5, <2>6, <2>7, PromiseAdmit,
       PromisePreemptLast DEF Schedule
<1>4. CASE Process
  BY <1>1, <1>4, PromiseUpdateFromOutput
     DEF Process, AwaitResult, UpdateDrafts, reqVars
<1>5. CASE Ranks
  <2>1. ASSUME NEW k \in Rank, RankExecute(k) PROVE Promise!Next
    BY <1>1, <2>1 DEF RankExecute, reqVars
  <2>2. ASSUME NEW gen, NEW d, RankSample(gen, d) PROVE Promise!Next
    BY <1>1, <2>2 DEF RankSample, reqVars
  <2>3. CASE RankTakeDrafts
    BY <1>1, <2>3 DEF RankTakeDrafts, reqVars
  <2> QED
    BY <1>5, <2>1, <2>2, <2>3 DEF Ranks, LastRank
<1>6. CASE Clients
  BY <1>6, PromiseAddRequest, PromiseAbort, PromiseReset DEF Clients
<1> QED
  BY <1>2, <1>3, <1>4, <1>5, <1>6 DEF Next

LEMMA PromiseInit == Init => Promise!Init
<1> SUFFICES ASSUME Init PROVE Promise!Init
  OBVIOUS
<1>1. out = [r \in Req |-> <<>>] /\ \A r \in Req : status[r] = "unknown"
  BY DEF Init
<1> QED
  BY <1>1 DEF Promise!Init

\* Every behaviour of the pipelined, speculating, preempting engine is one of
\* Generation: the text of a request only grows, by tokens of the vocabulary,
\* ends exactly at its first stop, and is not touched after that.
THEOREM Implements == Spec => KeepsPromise
<1>1. SchedInv /\ [Next]_vars => SchedInv'
  BY SchedNext
<1>2. SchedInv /\ [Next]_vars => [Promise!Next]_(Promise!gvars)
  BY PromiseStep
<1> QED
  BY <1>1, <1>2, SchedInit, PromiseInit, PTL DEF Spec, KeepsPromise, Promise!Spec

-----------------------------------------------------------------------------
(***************************************************************************)
(* Queues as sets                                                          *)
(***************************************************************************)
LEMMA SetAppend ==
    ASSUME NEW A, NEW s \in Seq(A), NEW x \in A
    PROVE  /\ SeqSet(Append(s, x)) = SeqSet(s) \cup {x}
           /\ Distinct(s) /\ x \notin SeqSet(s) => Distinct(Append(s, x))
<1>1. /\ Len(s) \in Nat /\ DOMAIN s = 1..Len(s)
      /\ DOMAIN Append(s, x) = 1..(Len(s) + 1)
      /\ \A i \in 1..Len(s) : Append(s, x)[i] = s[i]
      /\ Append(s, x)[Len(s) + 1] = x
  OBVIOUS
<1>2. SeqSet(Append(s, x)) = SeqSet(s) \cup {x}
  <2>1. \A y : y \in SeqSet(Append(s, x)) => y \in SeqSet(s) \cup {x}
    BY <1>1 DEF SeqSet
  <2>2. \A y : y \in SeqSet(s) => y \in SeqSet(Append(s, x))
    BY <1>1 DEF SeqSet
  <2>3. x \in SeqSet(Append(s, x))
    <3>1. Len(s) + 1 \in DOMAIN Append(s, x)
      BY <1>1
    <3> QED
      BY <1>1, <3>1 DEF SeqSet
  <2> QED
    BY <2>1, <2>2, <2>3
<1>3. Distinct(s) /\ x \notin SeqSet(s) => Distinct(Append(s, x))
  BY <1>1 DEF Distinct, SeqSet
<1> QED
  BY <1>2, <1>3

LEMMA SetTail ==
    ASSUME NEW A, NEW s \in Seq(A), s # <<>>
    PROVE  /\ Tail(s) \in Seq(A) /\ Head(s) \in A
           /\ SeqSet(s) = SeqSet(Tail(s)) \cup {Head(s)}
           /\ Distinct(s) => Distinct(Tail(s)) /\ Head(s) \notin SeqSet(Tail(s))
<1>1. /\ Len(s) \in Nat /\ Len(s) > 0 /\ DOMAIN s = 1..Len(s)
      /\ DOMAIN Tail(s) = 1..(Len(s) - 1) /\ Tail(s) \in Seq(A)
      /\ \A i \in 1..(Len(s) - 1) : Tail(s)[i] = s[i+1]
      /\ Head(s) = s[1] /\ s[1] \in A
  OBVIOUS
<1> DEFINE t == Tail(s)
           h == Head(s)
<1> HIDE DEF t, h
<1>2. /\ DOMAIN t = 1..(Len(s) - 1) /\ h = s[1]
      /\ \A i \in 1..(Len(s) - 1) : t[i] = s[i+1]
  BY <1>1 DEF t, h
<1>3. SeqSet(s) = SeqSet(t) \cup {h}
  <2>1. ASSUME NEW y \in SeqSet(s) PROVE y \in SeqSet(t) \cup {h}
    <3>1. PICK i \in 1..Len(s) : y = s[i]
      BY <1>1 DEF SeqSet
    <3>2. CASE i = 1
      BY <1>2, <3>1, <3>2
    <3>3. CASE i # 1
      <4>1. i - 1 \in DOMAIN t /\ t[i-1] = s[i]
        BY <1>1, <1>2, <3>3
      <4> QED
        BY <3>1, <4>1 DEF SeqSet
    <3> QED
      BY <3>2, <3>3
  <2>2. ASSUME NEW y \in SeqSet(t) PROVE y \in SeqSet(s)
    <3>1. PICK i \in 1..(Len(s) - 1) : y = t[i]
      BY <1>2 DEF SeqSet
    <3>2. i + 1 \in DOMAIN s /\ y = s[i+1]
      BY <1>1, <1>2, <3>1
    <3> QED
      BY <3>2 DEF SeqSet
  <2>3. h \in SeqSet(s)
    <3>1. 1 \in DOMAIN s
      BY <1>1
    <3> QED
      BY <1>2, <3>1 DEF SeqSet
  <2> QED
    BY <2>1, <2>2, <2>3
<1>4. ASSUME Distinct(s) PROVE Distinct(t) /\ h \notin SeqSet(t)
  <2>1. \A i \in DOMAIN t : i + 1 \in DOMAIN s /\ t[i] = s[i+1] /\ i + 1 # 1
    BY <1>1, <1>2
  <2>2. 1 \in DOMAIN s
    BY <1>1
  <2>3. h \notin SeqSet(t)
    BY <1>2, <1>4, <2>1, <2>2 DEF Distinct, SeqSet
  <2>4. ASSUME NEW i \in DOMAIN t, NEW j \in DOMAIN t, t[i] = t[j] PROVE i = j
    <3>1. i + 1 = j + 1
      BY <1>4, <2>1, <2>4 DEF Distinct
    <3> QED
      BY <1>2, <3>1
  <2> QED
    BY <2>3, <2>4 DEF Distinct
<1> QED
  BY <1>1, <1>3, <1>4 DEF t, h

LEMMA SetConcat ==
    ASSUME NEW A, NEW s \in Seq(A), NEW t \in Seq(A)
    PROVE  /\ s \o t \in Seq(A)
           /\ SeqSet(s \o t) = SeqSet(s) \cup SeqSet(t)
           /\ Distinct(s) /\ Distinct(t) /\ SeqSet(s) \cap SeqSet(t) = {}
                => Distinct(s \o t)
<1> DEFINE u == s \o t
<1>1. /\ u \in Seq(A) /\ DOMAIN u = 1..(Len(s) + Len(t))
      /\ Len(s) \in Nat /\ DOMAIN s = 1..Len(s)
      /\ Len(t) \in Nat /\ DOMAIN t = 1..Len(t)
      /\ \A i \in 1..Len(s) : u[i] = s[i]
      /\ \A i \in 1..Len(t) : u[Len(s) + i] = t[i]
  OBVIOUS
<1> HIDE DEF u
<1>2. ASSUME NEW i \in DOMAIN u
      PROVE  \/ i \in DOMAIN s /\ u[i] = s[i]
             \/ \E j \in DOMAIN t : i = Len(s) + j /\ u[i] = t[j]
  <2>1. CASE i <= Len(s)
    BY <1>1, <2>1
  <2>2. CASE i > Len(s)
    <3>1. i - Len(s) \in DOMAIN t /\ i = Len(s) + (i - Len(s))
      BY <1>1, <2>2
    <3> QED
      BY <1>1, <3>1
  <2> QED
    BY <1>1, <2>1, <2>2
<1>3. /\ \A i \in DOMAIN s : i \in DOMAIN u /\ u[i] = s[i]
      /\ \A j \in DOMAIN t : Len(s) + j \in DOMAIN u /\ u[Len(s) + j] = t[j]
  BY <1>1
<1>4. SeqSet(u) = SeqSet(s) \cup SeqSet(t)
  <2>1. \A y \in SeqSet(u) : y \in SeqSet(s) \cup SeqSet(t)
    BY <1>2 DEF SeqSet
  <2>2. \A y \in SeqSet(s) : y \in SeqSet(u)
    BY <1>3 DEF SeqSet
  <2>3. \A y \in SeqSet(t) : y \in SeqSet(u)
    BY <1>3 DEF SeqSet
  <2> QED
    BY <2>1, <2>2, <2>3
<1>5. ASSUME Distinct(s), Distinct(t), SeqSet(s) \cap SeqSet(t) = {}
      PROVE  Distinct(u)
  <2>1. \A i \in DOMAIN s, j \in DOMAIN t : s[i] # t[j]
    BY <1>5 DEF SeqSet
  <2> SUFFICES ASSUME NEW i \in DOMAIN u, NEW j \in DOMAIN u, u[i] = u[j]
               PROVE  i = j
    BY DEF Distinct
  <2> QED
    BY <1>2, <1>5, <2>1 DEF Distinct
<1> QED
  BY <1>1, <1>4, <1>5 DEF u

\* All but the last.
LEMMA SetFront ==
    ASSUME NEW A, NEW s \in Seq(A), s # <<>>
    PROVE  LET f == SubSeq(s, 1, Len(s) - 1)
               l == s[Len(s)]
           IN  /\ SeqSet(s) = SeqSet(f) \cup {l}
               /\ Distinct(s) => l \notin SeqSet(f)
<1> DEFINE f == SubSeq(s, 1, Len(s) - 1)
           l == s[Len(s)]
<1>1. /\ Len(s) \in Nat /\ Len(s) > 0 /\ DOMAIN s = 1..Len(s)
      /\ DOMAIN f = 1..(Len(s) - 1)
      /\ \A i \in 1..(Len(s) - 1) : f[i] = s[i]
  OBVIOUS
<1> HIDE DEF f
<1>2. /\ \A i \in DOMAIN s : i = Len(s) \/ (i \in DOMAIN f /\ f[i] = s[i])
      /\ \A i \in DOMAIN f : i \in DOMAIN s /\ f[i] = s[i] /\ i # Len(s)
      /\ Len(s) \in DOMAIN s
  BY <1>1
<1>3. SeqSet(s) = SeqSet(f) \cup {l}
  <2>1. \A y \in SeqSet(s) : y \in SeqSet(f) \cup {l}
    BY <1>2 DEF SeqSet
  <2>2. \A y \in SeqSet(f) : y \in SeqSet(s)
    BY <1>2 DEF SeqSet
  <2>3. l \in SeqSet(s)
    BY <1>2 DEF SeqSet
  <2> QED
    BY <2>1, <2>2, <2>3
<1>4. Distinct(s) => l \notin SeqSet(f)
  BY <1>2 DEF Distinct, SeqSet
<1> QED
  BY <1>3, <1>4 DEF f

\* Removing requests from a queue removes no other.
LEMMA WithoutSet ==
    ASSUME NEW A, NEW s \in Seq(A), NEW S
    PROVE  SeqSet(Without(s, S)) = SeqSet(s) \ S
<1>1. PICK g : /\ g = [i \in 0..Len(s) |-> WithoutStep(s, S, g, i)]
               /\ Without(s, S) = g[Len(s)]
  <2>0. Len(s) \in Nat
    OBVIOUS
  <2>1. \E h : h = [i \in 0..Len(s) |-> WithoutStep(s, S, h, i)]
    BY <2>0, WithoutExists, Zenon
  <2> DEFINE g == CHOOSE h : h = [i \in 0..Len(s) |-> WithoutStep(s, S, h, i)]
  <2>2. g = [i \in 0..Len(s) |-> WithoutStep(s, S, g, i)]
    BY <2>1
  <2>3. Without(s, S) = g[Len(s)]
    BY DEF Without, WithoutStep
  <2> QED
    BY <2>2, <2>3
<1>0. Len(s) \in Nat /\ DOMAIN s = 1..Len(s) /\ \A i \in 1..Len(s) : s[i] \in A
  OBVIOUS
<1> DEFINE P(i) == /\ g[i] \in Seq(A)
                   /\ \A b \in 1..i : s[b] \notin S => s[b] \in SeqSet(g[i])
           T == {i \in 0..Len(s) : ~P(i)}
<1>2. P(0)
  BY <1>0, <1>1 DEF WithoutStep
<1>3. ASSUME NEW i \in 1..Len(s), P(i-1) PROVE P(i)
  <2>1. g[i] = WithoutStep(s, S, g, i) /\ i - 1 \in Nat /\ i # 0
    BY <1>1
  <2>2. \A b \in 1..i : b = i \/ b \in 1..(i-1)
    OBVIOUS
  <2>3. CASE s[i] \in S
    <3>1. g[i] = g[i-1]
      BY <2>1, <2>3 DEF WithoutStep
    <3> QED
      BY <1>3, <2>2, <2>3, <3>1
  <2>4. CASE s[i] \notin S
    <3>1. g[i] = Append(g[i-1], s[i]) /\ s[i] \in A
      BY <1>0, <2>1, <2>4 DEF WithoutStep
    <3>2. SeqSet(g[i]) = SeqSet(g[i-1]) \cup {s[i]} /\ g[i] \in Seq(A)
      BY <1>3, <3>1, SetAppend
    <3> QED
      BY <1>3, <2>2, <3>2
  <2> QED
    BY <2>3, <2>4
<1>4. T = {}
  <2> SUFFICES ASSUME T # {} PROVE FALSE
    OBVIOUS
  <2> HIDE DEF P
  <2>0. T \in SUBSET Nat
    OBVIOUS
  <2>1. PICK i \in T : \A y \in T : i <= y
    BY <2>0, NatMin
  <2>2. i # 0
    BY <1>2, <2>1
  <2>3. i \in 1..Len(s) /\ i - 1 \in 0..Len(s)
    BY <1>0, <2>1, <2>2
  <2>4. i - 1 \notin T
    BY <2>1, <2>3
  <2> QED
    BY <1>3, <2>1, <2>3, <2>4
<1>5. P(Len(s))
  BY <1>0, <1>4
<1>6. \A y \in SeqSet(s) \ S : y \in SeqSet(Without(s, S))
  BY <1>0, <1>1, <1>5 DEF SeqSet
<1>7. \A y \in SeqSet(Without(s, S)) : y \in SeqSet(s) \ S
  BY WithoutType DEF SeqSet
<1> QED
  BY <1>6, <1>7

\* A queue without repetitions is as long as the set of its members.
LEMMA DistinctLen ==
    ASSUME NEW A, NEW s \in Seq(A), Distinct(s)
    PROVE  Len(s) = Cardinality(SeqSet(s))
<1>1. Len(s) \in Nat /\ DOMAIN s = 1..Len(s) /\ s = [i \in 1..Len(s) |-> s[i]]
  OBVIOUS
<1>2. s \in Bijection(1..Len(s), SeqSet(s))
  <2>1. s \in [1..Len(s) -> SeqSet(s)]
    BY <1>1 DEF SeqSet
  <2>2. \A a, b \in 1..Len(s) : s[a] = s[b] => a = b
    BY <1>1 DEF Distinct
  <2>3. \A y \in SeqSet(s) : \E i \in 1..Len(s) : s[i] = y
    BY <1>1 DEF SeqSet
  <2> QED
    BY <1>1, <2>1, <2>2, <2>3 DEF Bijection, Injection, Surjection, IsInjective
<1>3. IsFiniteSet(1..Len(s)) /\ Cardinality(1..Len(s)) = Len(s)
  <2>1. /\ IsFiniteSet(1..Len(s))
        /\ Cardinality(1..Len(s)) = IF 1 > Len(s) THEN 0 ELSE Len(s) - 1 + 1
    <3>1. 1 \in Int /\ Len(s) \in Int
      BY <1>1
    <3> QED
      BY <3>1, FS_Interval, Zenon
  <2> QED
    BY <1>1, <2>1
<1>4. ExistsBijection(1..Len(s), SeqSet(s))
  BY <1>2 DEF ExistsBijection
<1> QED
  BY <1>3, <1>4, FS_Bijection
-----------------------------------------------------------------------------
(***************************************************************************)
(* Sums.  The model adds with the community modules' fold over a set, the  *)
(* solution of a recursion that takes an arbitrary member out of the set   *)
(* at a time; what follows are the facts that make it a sum.               *)
(***************************************************************************)
SumStep(f, g, s) ==
    IF s = {} THEN 0
    ELSE LET x == CHOOSE y \in s : TRUE IN f[x] + g[s \ {x}]

Sums(f, S, g) == g = [s \in SUBSET S |-> SumStep(f, g, s)]

Total(f, S) ==
    LET iter[s \in SUBSET S] ==
            IF s = {} THEN 0
            ELSE LET x == CHOOSE y \in s : TRUE IN f[x] + iter[s \ {x}]
    IN iter[S]

\* A chosen member leaves a smaller set.
LEMMA LeaveOne ==
    ASSUME NEW s, IsFiniteSet(s), s # {}
    PROVE  LET x == CHOOSE y \in s : TRUE IN
           /\ x \in s /\ IsFiniteSet(s \ {x})
           /\ Cardinality(s) \in Nat /\ Cardinality(s \ {x}) = Cardinality(s) - 1
<1> DEFINE x == CHOOSE y \in s : TRUE
<1>1. x \in s
  OBVIOUS
<1> HIDE DEF x
<1>2. IsFiniteSet(s \ {x}) /\ Cardinality(s \ {x}) = Cardinality(s) - 1 /\ Cardinality(s) \in Nat
  BY <1>1, FS_RemoveElement, FS_CardinalityType
<1> QED
  BY <1>1, <1>2 DEF x

\* The fold's recursion has a solution.
LEMMA SumsExist ==
    ASSUME NEW f, NEW S, IsFiniteSet(S)
    PROVE  \E g : Sums(f, S, g)
<1> DEFINE UpTo(n, g) == g = [s \in SUBSET S |-> IF Cardinality(s) > n THEN 0
                                                 ELSE SumStep(f, g, s)]
           T == {n \in 0..Cardinality(S) : ~\E g : UpTo(n, g)}
<1>0. /\ \A s \in SUBSET S : IsFiniteSet(s) /\ Cardinality(s) \in Nat
                             /\ Cardinality(s) <= Cardinality(S)
      /\ Cardinality(S) \in Nat
      /\ \A s \in SUBSET S : Cardinality(s) = 0 => s = {}
  BY FS_Subset, FS_CardinalityType, FS_EmptySet
<1>1. \E g : UpTo(0, g)
  <2> DEFINE g == [s \in SUBSET S |-> 0]
  <2>1. \A s \in SUBSET S : 0 = IF Cardinality(s) > 0 THEN 0 ELSE SumStep(f, g, s)
    BY <1>0 DEF SumStep
  <2>2. UpTo(0, g)
    BY <2>1
  <2> HIDE DEF g
  <2> QED
    BY <2>2
<1>2. ASSUME NEW n \in Nat, NEW g, UpTo(n, g) PROVE \E h : UpTo(n + 1, h)
  <2> DEFINE h == [s \in SUBSET S |-> IF Cardinality(s) = n + 1 THEN SumStep(f, g, s)
                                      ELSE g[s]]
  <2>1. ASSUME NEW s \in SUBSET S
        PROVE  h[s] = IF Cardinality(s) > n + 1 THEN 0 ELSE SumStep(f, h, s)
    <3>1. Cardinality(s) \in Nat /\ IsFiniteSet(s)
      BY <1>0
    <3>2. CASE Cardinality(s) > n + 1
      <4>1. h[s] = g[s] /\ Cardinality(s) > n
        BY <3>1, <3>2
      <4>2. g[s] = 0
        BY <1>2, <4>1
      <4> QED
        BY <3>2, <4>1, <4>2
    <3>3. CASE s = {}
      <4>1. Cardinality(s) = 0
        BY <3>3, FS_EmptySet
      <4>2. h[s] = g[s] /\ SumStep(f, h, s) = 0 /\ SumStep(f, g, s) = 0
        BY <3>3, <4>1 DEF SumStep
      <4>3. g[s] = SumStep(f, g, s)
        BY <1>2, <4>1
      <4> QED
        BY <4>1, <4>2, <4>3
    <3>4. CASE Cardinality(s) <= n + 1 /\ s # {}
      <4> DEFINE x == CHOOSE y \in s : TRUE
                 t == s \ {x}
      <4>1. t \in SUBSET S /\ Cardinality(t) = Cardinality(s) - 1
        BY <3>1, <3>4, LeaveOne
      <4>2. SumStep(f, h, s) = f[x] + h[t] /\ SumStep(f, g, s) = f[x] + g[t]
        BY <3>4 DEF SumStep
      <4>3. h[t] = g[t]
        BY <3>1, <3>4, <4>1
      <4>4. Cardinality(s) <= n => g[s] = SumStep(f, g, s)
        BY <1>2, <3>1
      <4>5. h[s] = SumStep(f, g, s)
        BY <3>1, <3>4, <4>4
      <4> QED
        BY <3>1, <3>4, <4>2, <4>3, <4>5
    <3> QED
      BY <3>1, <3>2, <3>3, <3>4
  <2>2. UpTo(n + 1, h)
    <3>1. h = [s \in SUBSET S |-> h[s]]
      OBVIOUS
    <3> HIDE DEF h
    <3> QED
      BY <2>1, <3>1
  <2> HIDE DEF h, UpTo
  <2> QED
    BY <2>2
<1>3. T = {}
  <2> SUFFICES ASSUME T # {} PROVE FALSE
    OBVIOUS
  <2> HIDE DEF UpTo
  <2>0. T \in SUBSET Nat
    BY <1>0
  <2>1. PICK n \in T : \A y \in T : n <= y
    BY <2>0, NatMin
  <2>2. n # 0
    BY <1>1, <2>1
  <2>3. n - 1 \in 0..Cardinality(S) /\ n - 1 \in Nat /\ (n - 1) + 1 = n
    BY <1>0, <2>1, <2>2
  <2>4. n - 1 \notin T
    BY <2>1, <2>3
  <2>5. PICK g : UpTo(n - 1, g)
    BY <2>3, <2>4
  <2> QED
    BY <1>2, <2>1, <2>3, <2>5
<1>4. PICK g : UpTo(Cardinality(S), g)
  <2> HIDE DEF UpTo
  <2> QED
    BY <1>0, <1>3
<1>5. \A s \in SUBSET S : ~(Cardinality(s) > Cardinality(S))
  BY <1>0
<1>6. Sums(f, S, g)
  BY <1>4, <1>5 DEF Sums
<1> QED
  BY <1>6

\* It depends only on the members that are added.
LEMMA SumsAgree ==
    ASSUME NEW f, NEW S, IsFiniteSet(S), NEW g, Sums(f, S, g),
           NEW e, NEW T, NEW h, Sums(e, T, h),
           NEW U, U \subseteq S, U \subseteq T, \A x \in U : f[x] = e[x]
    PROVE  g[U] = h[U]
<1> DEFINE N == {n \in Nat : \E s \in SUBSET U : Cardinality(s) = n /\ g[s] # h[s]}
<1>0. IsFiniteSet(U) /\ \A s \in SUBSET U : IsFiniteSet(s) /\ Cardinality(s) \in Nat
                                         /\ s \in SUBSET S /\ s \in SUBSET T
  BY FS_Subset, FS_CardinalityType
<1>1. N = {}
  <2> SUFFICES ASSUME N # {} PROVE FALSE
    OBVIOUS
  <2>1. PICK n \in N : \A y \in N : n <= y
    BY NatMin
  <2>2. PICK s \in SUBSET U : Cardinality(s) = n /\ g[s] # h[s]
    BY <2>1
  <2>3. g[s] = SumStep(f, g, s) /\ h[s] = SumStep(e, h, s)
    BY <1>0 DEF Sums
  <2>4. s # {}
    BY <2>2, <2>3 DEF SumStep
  <2> DEFINE x == CHOOSE y \in s : TRUE
             t == s \ {x}
  <2>5. x \in s /\ t \in SUBSET U /\ Cardinality(t) = n - 1 /\ n - 1 \in Nat
    <3>1. x \in s /\ Cardinality(t) = n - 1
      BY <1>0, <2>2, <2>4, LeaveOne
    <3>2. t \in SUBSET U
      OBVIOUS
    <3>3. Cardinality(t) \in Nat
      BY <1>0, <3>2
    <3> QED
      BY <3>1, <3>2, <3>3
  <2>6. g[s] = f[x] + g[t] /\ h[s] = e[x] + h[t]
    BY <2>3, <2>4 DEF SumStep
  <2>7. f[x] = e[x]
    BY <2>5
  <2> HIDE DEF x, t
  <2>8. g[t] # h[t]
    BY <2>2, <2>6, <2>7
  <2>9. n - 1 \in N
    BY <2>5, <2>8
  <2> QED
    BY <2>1, <2>5, <2>9
<1>2. U \in SUBSET U /\ Cardinality(U) \in Nat
  BY <1>0
<1> QED
  BY <1>1, <1>2

LEMMA TotalIs ==
    ASSUME NEW f, NEW S, IsFiniteSet(S)
    PROVE  \E g : Sums(f, S, g) /\ Total(f, S) = g[S]
<1> DEFINE g == CHOOSE h : Sums(f, S, h)
<1>1. \E h : Sums(f, S, h)
  BY SumsExist
<1>2. Sums(f, S, g)
  BY <1>1
<1>3. Total(f, S) = g[S]
  BY Zenon DEF Total, Sums, SumStep
<1> QED
  BY <1>2, <1>3

LEMMA TotalEqual ==
    ASSUME NEW f, NEW e, NEW S, IsFiniteSet(S), \A x \in S : f[x] = e[x]
    PROVE  Total(f, S) = Total(e, S)
<1>1. PICK g : Sums(f, S, g) /\ Total(f, S) = g[S]
  BY TotalIs
<1>2. PICK h : Sums(e, S, h) /\ Total(e, S) = h[S]
  BY TotalIs
<1>3. g[S] = h[S]
  BY <1>1, <1>2, SumsAgree
<1> QED
  BY <1>1, <1>2, <1>3

LEMMA TotalEmpty == ASSUME NEW f PROVE Total(f, {}) = 0
<1>1. IsFiniteSet({})
  BY FS_EmptySet
<1>2. PICK g : Sums(f, {}, g) /\ Total(f, {}) = g[{}]
  BY <1>1, TotalIs
<1> QED
  BY <1>2 DEF Sums, SumStep

LEMMA TotalSome ==
    ASSUME NEW f, NEW S, IsFiniteSet(S), S # {}
    PROVE  \E x \in S : Total(f, S) = f[x] + Total(f, S \ {x})
<1>1. PICK g : Sums(f, S, g) /\ Total(f, S) = g[S]
  BY TotalIs
<1> DEFINE x == CHOOSE y \in S : TRUE
           t == S \ {x}
<1>2. g[S] = f[x] + g[t]
  BY <1>1 DEF Sums, SumStep
<1>3. IsFiniteSet(t) /\ x \in S
  BY LeaveOne
<1>4. t \subseteq S
  OBVIOUS
<1> HIDE DEF x
<1>5. PICK h : Sums(f, t, h) /\ Total(f, t) = h[t]
  BY <1>3, TotalIs
<1>6. g[t] = h[t]
  <2>1. PICK u : u = t
    OBVIOUS
  <2>2. u \subseteq S /\ Sums(f, u, h)
    BY <1>4, <1>5, <2>1
  <2>3. g[u] = h[u]
    BY <1>1, <2>2, SumsAgree
  <2> QED
    BY <2>1, <2>3
<1> QED
  BY <1>1, <1>2, <1>3, <1>5, <1>6

LEMMA TotalType ==
    ASSUME NEW f, NEW S, IsFiniteSet(S), \A x \in S : f[x] \in Int
    PROVE  Total(f, S) \in Int
<1> DEFINE N == {n \in Nat : \E s \in SUBSET S : Cardinality(s) = n /\ Total(f, s) \notin Int}
<1>0. \A s \in SUBSET S : IsFiniteSet(s) /\ Cardinality(s) \in Nat
  BY FS_Subset, FS_CardinalityType
<1>1. N = {}
  <2> SUFFICES ASSUME N # {} PROVE FALSE
    OBVIOUS
  <2>1. PICK n \in N : \A y \in N : n <= y
    BY NatMin
  <2>2. PICK s \in SUBSET S : Cardinality(s) = n /\ Total(f, s) \notin Int
    BY <2>1
  <2>3. s # {}
    BY <2>2, TotalEmpty
  <2>4. PICK x \in s : Total(f, s) = f[x] + Total(f, s \ {x})
    BY <1>0, <2>3, TotalSome
  <2>5. s \ {x} \in SUBSET S /\ Cardinality(s \ {x}) = n - 1
    BY <1>0, <2>2, <2>4, FS_RemoveElement
  <2>6. Cardinality(s \ {x}) \in Nat
    BY <1>0, <2>5
  <2>7. Total(f, s \ {x}) \in Int
    BY <2>1, <2>5, <2>6
  <2>8. f[x] \in Int
    BY <2>4
  <2> QED
    BY <2>2, <2>4, <2>7, <2>8
<1>2. S \in SUBSET S
  OBVIOUS
<1> QED
  BY <1>0, <1>1, <1>2

\* Any member may be taken out first.
LEMMA TotalRemove ==
    ASSUME NEW f, NEW S, IsFiniteSet(S), \A x \in S : f[x] \in Int, NEW z \in S
    PROVE  Total(f, S) = f[z] + Total(f, S \ {z})
<1> DEFINE Bad(s) == \E w \in s : Total(f, s) # f[w] + Total(f, s \ {w})
           N == {n \in Nat : \E s \in SUBSET S : Cardinality(s) = n /\ Bad(s)}
<1>0. \A s \in SUBSET S : IsFiniteSet(s) /\ Cardinality(s) \in Nat /\ Total(f, s) \in Int
  <2>1. \A s \in SUBSET S : IsFiniteSet(s) /\ Cardinality(s) \in Nat
    BY FS_Subset, FS_CardinalityType
  <2> QED
    BY <2>1, TotalType
<1>1. N = {}
  <2> SUFFICES ASSUME N # {} PROVE FALSE
    OBVIOUS
  <2> HIDE DEF Bad
  <2>1. PICK n \in N : \A y \in N : n <= y
    BY NatMin
  <2>2. PICK s \in SUBSET S : Cardinality(s) = n /\ Bad(s)
    BY <2>1
  <2>3. PICK w \in s : Total(f, s) # f[w] + Total(f, s \ {w})
    BY <2>2 DEF Bad
  <2>4. PICK x \in s : Total(f, s) = f[x] + Total(f, s \ {x})
    BY <1>0, <2>3, TotalSome
  <2>5. w # x
    BY <2>3, <2>4
  <2> DEFINE t == s \ {x}
             u == s \ {w}
             v == (s \ {x}) \ {w}
  <2>6. /\ t \in SUBSET S /\ Cardinality(t) = n - 1 /\ w \in t
        /\ u \in SUBSET S /\ Cardinality(u) = n - 1 /\ x \in u
        /\ t \ {w} = v /\ u \ {x} = v /\ v \in SUBSET S
    BY <1>0, <2>2, <2>3, <2>4, <2>5, FS_RemoveElement
  <2> HIDE DEF t, u, v
  <2>7. Cardinality(t) \in Nat
    BY <1>0, <2>6
  <2>8. ~Bad(t) /\ ~Bad(u)
    BY <2>1, <2>6, <2>7
  <2>9. Total(f, t) = f[w] + Total(f, v) /\ Total(f, u) = f[x] + Total(f, v)
    BY <2>6, <2>8 DEF Bad
  <2>10. Total(f, s) = f[x] + Total(f, t) /\ Total(f, s) # f[w] + Total(f, u)
    BY <2>3, <2>4 DEF t, u
  <2>11. Total(f, v) \in Int /\ f[w] \in Int /\ f[x] \in Int
    BY <1>0, <2>3, <2>4, <2>6
  <2> QED
    BY <2>9, <2>10, <2>11
<1>2. S \in SUBSET S
  OBVIOUS
<1> QED
  BY <1>0, <1>1, <1>2

\* Setting the members of F to nothing takes their total away.
LEMMA TotalClear ==
    ASSUME NEW f, NEW e, NEW S, IsFiniteSet(S), NEW F \in SUBSET S,
           \A x \in S : f[x] \in Int,
           \A x \in S : e[x] = IF x \in F THEN 0 ELSE f[x]
    PROVE  Total(f, S) = Total(f, F) + Total(e, S)
<1> DEFINE Cleared(G) == [x \in S |-> IF x \in G THEN 0 ELSE f[x]]
           Bad(G) == Total(f, S) # Total(f, G) + Total(Cleared(G), S)
           N == {n \in Nat : \E G \in SUBSET S : Cardinality(G) = n /\ Bad(G)}
<1>0. \A s \in SUBSET S : IsFiniteSet(s) /\ Cardinality(s) \in Nat /\ Total(f, s) \in Int
  <2>1. \A s \in SUBSET S : IsFiniteSet(s) /\ Cardinality(s) \in Nat
    BY FS_Subset, FS_CardinalityType
  <2> QED
    BY <2>1, TotalType
<1>1. N = {}
  <2> SUFFICES ASSUME N # {} PROVE FALSE
    OBVIOUS
  <2> HIDE DEF Bad
  <2>1. PICK n \in N : \A y \in N : n <= y
    BY NatMin
  <2>2. PICK G \in SUBSET S : Cardinality(G) = n /\ Bad(G)
    BY <2>1
  <2>3. CASE G = {}
    <3>1. PICK c : c = Cleared({})
      OBVIOUS
    <3>2. \A x \in S : f[x] = c[x]
      BY <3>1
    <3>3. Total(f, S) = Total(c, S)
      BY <3>2, TotalEqual
    <3>4. Total(f, S) = Total(f, {}) + Total(c, S)
      BY <1>0, <3>3, TotalEmpty
    <3> QED
      BY <2>2, <2>3, <3>1, <3>4 DEF Bad
  <2>4. ASSUME NEW z \in G PROVE FALSE
    <3>1. PICK H : H = G \ {z}
      OBVIOUS
    <3>2. H \in SUBSET S /\ Cardinality(H) = n - 1 /\ Cardinality(H) \in Nat
      BY <1>0, <2>2, <3>1, FS_RemoveElement
    <3>3. PICK c, d : c = Cleared(G) /\ d = Cleared(H)
      OBVIOUS
    <3>4. Total(f, S) = Total(f, H) + Total(d, S)
      BY <2>1, <3>2, <3>3 DEF Bad
    <3>5. \A x \in G : f[x] \in Int
      OBVIOUS
    <3>6. Total(f, G) = f[z] + Total(f, H)
      BY <1>0, <3>1, <3>5, TotalRemove
    <3>7. /\ \A x \in S : c[x] \in Int /\ d[x] \in Int
          /\ c[z] = 0 /\ d[z] = f[z] /\ z \in S
          /\ \A x \in S \ {z} : c[x] = d[x]
      BY <3>1, <3>3
    <3>8. PICK R : R = S \ {z}
      OBVIOUS
    <3>9. Total(c, S) = 0 + Total(c, R) /\ Total(d, S) = f[z] + Total(d, R)
      BY <3>7, <3>8, TotalRemove
    <3>10. IsFiniteSet(R) /\ (\A x \in R : c[x] = d[x] /\ c[x] \in Int)
      BY <1>0, <3>7, <3>8
    <3>11. Total(c, R) = Total(d, R) /\ Total(c, R) \in Int
      BY <3>10, TotalEqual, TotalType
    <3>12. Total(f, S) = Total(f, G) + Total(c, S)
      BY <1>0, <3>2, <3>4, <3>6, <3>7, <3>9, <3>11
    <3> QED
      BY <2>2, <3>3, <3>12 DEF Bad
  <2> QED
    BY <2>3, <2>4
<1>2. Total(f, S) = Total(f, F) + Total(Cleared(F), S)
  BY <1>0, <1>1
<1>3. PICK c : c = Cleared(F)
  OBVIOUS
<1>4. \A x \in S : c[x] = e[x]
  BY <1>3
<1>5. Total(c, S) = Total(e, S)
  BY <1>4, TotalEqual
<1> QED
  BY <1>2, <1>3, <1>5

\* Sums of the first members of a sequence of numbers.
LEMMA TotalNext ==
    ASSUME NEW f, NEW j \in Nat \ {0}, \A i \in 1..j : f[i] \in Int
    PROVE  Total(f, 1..j) = f[j] + Total(f, 1..(j-1))
<1>1. PICK S : S = 1..j
  OBVIOUS
<1>2. IsFiniteSet(S) /\ j \in S /\ \A i \in S : f[i] \in Int
  <2>1. 1 \in Int /\ j \in Int
    OBVIOUS
  <2>2. IsFiniteSet(1..j)
    BY <2>1, FS_Interval, Zenon
  <2> QED
    BY <1>1, <2>2
<1>3. S \ {j} = 1..(j-1)
  BY <1>1
<1> QED
  BY <1>1, <1>2, <1>3, TotalRemove

LEMMA TotalFirst ==
    ASSUME NEW f, NEW j \in Nat, \A i \in 1..j : f[i] \in Int
    PROVE  Total(f, 1..j) \in Int /\ (j = 0 => Total(f, 1..j) = 0)
<1>1. 1 \in Int /\ j \in Int
  OBVIOUS
<1>2. IsFiniteSet(1..j)
  BY <1>1, FS_Interval, Zenon
<1>3. j = 0 => 1..j = {}
  OBVIOUS
<1> QED
  BY <1>2, <1>3, TotalType, TotalEmpty

Shifted(f, e, m) == /\ \A i \in 1..(m+1) : f[i] \in Int
                    /\ \A i \in 1..m : e[i] = f[i+1]

LEMMA TotalShift ==
    ASSUME NEW f, NEW e, NEW m \in Nat, Shifted(f, e, m), NEW h \in 0..m,
           NEW z, z = h + 1
    PROVE  Total(f, 1..z) = f[1] + Total(e, 1..h)
<1> USE DEF Shifted
<1> DEFINE T == {j \in 0..m : Total(f, 1..(j+1)) # f[1] + Total(e, 1..j)}
<1> SUFFICES ASSUME T # {} PROVE FALSE
  OBVIOUS
<1>1. PICK j \in T : \A y \in T : j <= y
  <2>1. T \in SUBSET Nat
    OBVIOUS
  <2> QED
    BY <2>1, NatMin
<1>2. /\ j \in Nat /\ j + 1 \in Nat \ {0} /\ (j + 1) - 1 = j
      /\ \A i \in 1..(j+1) : f[i] \in Int
  OBVIOUS
<1>3. Total(f, 1..(j+1)) = f[j+1] + Total(f, 1..j)
  BY <1>2, TotalNext
<1>4. Total(f, 1..j) \in Int /\ (j = 0 => Total(f, 1..j) = 0)
  BY <1>2, TotalFirst
<1>5. \A i \in 1..j : e[i] \in Int /\ i + 1 \in 1..(m+1) /\ e[i] = f[i+1]
  OBVIOUS
<1>6. Total(e, 1..j) \in Int /\ (j = 0 => Total(e, 1..j) = 0)
  BY <1>2, <1>5, TotalFirst
<1>7. j # 0
  BY <1>1, <1>2, <1>3, <1>4, <1>6
<1>8. j \in Nat \ {0} /\ j - 1 \in 0..m /\ (j-1) + 1 = j /\ j \in 1..m /\ 1 \in 1..(m+1)
  BY <1>7
<1>9. Total(e, 1..j) = e[j] + Total(e, 1..(j-1))
  BY <1>5, <1>8, TotalNext
<1>10. Total(f, 1..j) = f[1] + Total(e, 1..(j-1))
  BY <1>1, <1>8
<1>11. Total(e, 1..(j-1)) \in Int
  BY <1>5, <1>8, TotalFirst
<1> QED
  BY <1>1, <1>2, <1>3, <1>5, <1>8, <1>9, <1>10, <1>11

\* The tokens of r in the batches of q, and how many the first j have.
Counts(q, r) == [i \in DOMAIN q |-> q[i].sched[r].n]
First(q, r, j) == LET Part(i) == q[i].sched[r].n IN FSE!MapThenSumSet(Part, 1..j)

LEMMA FirstIs ==
    ASSUME NEW q \in Seq(Batch), NEW r \in Req, NEW j \in 0..Len(q)
    PROVE  First(q, r, j) = Total(Counts(q, r), 1..j)
<1> DEFINE Fix(g) == g = [s \in SUBSET (1..j) |->
                            IF s = {} THEN 0
                            ELSE LET x == CHOOSE y \in s : TRUE
                                 IN  q[x].sched[r].n + g[s \ {x}]]
<1>0. PICK c, J : c = Counts(q, r) /\ J = 1..j
  OBVIOUS
<1>1. IsFiniteSet(J) /\ J \subseteq DOMAIN q
  <2>1. 1 \in Int /\ j \in Int /\ Len(q) \in Nat /\ DOMAIN q = 1..Len(q)
    OBVIOUS
  <2>2. IsFiniteSet(1..j)
    BY <2>1, FS_Interval, Zenon
  <2> QED
    BY <1>0, <2>1, <2>2
<1>2. ASSUME NEW g PROVE Sums(c, J, g) <=> Fix(g)
  <2>1. ASSUME NEW s \in SUBSET J
        PROVE  SumStep(c, g, s) = IF s = {} THEN 0
                                  ELSE LET x == CHOOSE y \in s : TRUE
                                       IN  q[x].sched[r].n + g[s \ {x}]
    <3>1. CASE s = {}
      BY <3>1 DEF SumStep
    <3>2. CASE s # {}
      <4>1. (CHOOSE y \in s : TRUE) \in DOMAIN q
        BY <1>1, <3>2
      <4>2. PICK x : x = CHOOSE y \in s : TRUE
        OBVIOUS
      <4>3. c[x] = q[x].sched[r].n
        BY <1>0, <4>1, <4>2 DEF Counts
      <4> QED
        BY <3>2, <4>2, <4>3 DEF SumStep
    <3> QED
      BY <3>1, <3>2
  <2> QED
    BY <1>0, <2>1 DEF Sums
<1>3. \E g : Fix(g)
  <2> HIDE DEF Fix
  <2> QED
    BY <1>1, <1>2, SumsExist
<1>4. PICK g : g = CHOOSE h : Fix(h)
  OBVIOUS
<1>5. Fix(g)
  <2> HIDE DEF Fix
  <2> QED
    BY <1>3, <1>4
<1>6. First(q, r, j) = (CHOOSE h : Fix(h))[1..j]
  BY Zenon DEF First, FSE!MapThenSumSet, FSE!MapThenFoldSet
<1> HIDE DEF Fix
<1>7. Sums(c, J, g)
  BY <1>2, <1>5
<1>8. PICK h : Sums(c, J, h) /\ Total(c, J) = h[J]
  BY <1>1, TotalIs
<1>9. g[J] = h[J]
  BY <1>1, <1>7, <1>8, SumsAgree
<1> QED
  BY <1>0, <1>4, <1>6, <1>8, <1>9

LEMMA CountTypes ==
    ASSUME NEW q \in Seq(Batch), NEW r \in Req
    PROVE  /\ Len(q) \in Nat
           /\ \A i \in 1..Len(q) : Counts(q, r)[i] = q[i].sched[r].n
                                   /\ Counts(q, r)[i] \in Int
<1>1. Len(q) \in Nat /\ DOMAIN q = 1..Len(q) /\ \A i \in 1..Len(q) : q[i] \in Batch
  OBVIOUS
<1>2. \A i \in 1..Len(q) : q[i].sched[r].n \in Int
  BY <1>1 DEF Batch, Sched, Entry
<1> QED
  BY <1>1, <1>2 DEF Counts

LEMMA FirstType ==
    ASSUME NEW q \in Seq(Batch), NEW r \in Req
    PROVE  /\ First(q, r, 0) = 0
           /\ \A j \in 0..Len(q) : First(q, r, j) \in Int
<1>1. PICK c : c = Counts(q, r)
  OBVIOUS
<1>2. Len(q) \in Nat /\ \A i \in 1..Len(q) : c[i] \in Int
  BY <1>1, CountTypes
<1>3. \A j \in 0..Len(q) : Total(c, 1..j) \in Int /\ (j = 0 => Total(c, 1..j) = 0)
  <2> TAKE j \in 0..Len(q)
  <2>1. j \in Nat /\ \A i \in 1..j : c[i] \in Int
    BY <1>2
  <2> QED
    BY <2>1, TotalFirst
<1>4. 0 \in 0..Len(q)
  BY <1>2
<1> QED
  BY <1>1, <1>3, <1>4, FirstIs

\* One more batch at the end.
LEMMA FirstAppend ==
    ASSUME NEW q \in Seq(Batch), NEW b \in Batch, NEW r \in Req
    PROVE  /\ \A j \in 0..Len(q) : First(Append(q, b), r, j) = First(q, r, j)
           /\ First(Append(q, b), r, Len(q) + 1) = First(q, r, Len(q)) + b.sched[r].n
<1>1. PICK t : t = Append(q, b)
  OBVIOUS
<1>2. PICK c, d : c = Counts(q, r) /\ d = Counts(t, r)
  OBVIOUS
<1>3. /\ t \in Seq(Batch) /\ Len(t) = Len(q) + 1 /\ Len(q) \in Nat
      /\ \A i \in 1..Len(q) : t[i] = q[i]
      /\ t[Len(q) + 1] = b
  BY <1>1
<1>4. /\ \A i \in 1..Len(q) : d[i] = c[i] /\ d[i] \in Int
      /\ d[Len(q) + 1] = b.sched[r].n
      /\ \A i \in 1..(Len(q) + 1) : d[i] \in Int
  <2>1. \A i \in 1..Len(q) : c[i] = q[i].sched[r].n
    BY <1>2, CountTypes
  <2>2. \A i \in 1..(Len(q) + 1) : d[i] = t[i].sched[r].n /\ d[i] \in Int
    BY <1>2, <1>3, CountTypes
  <2> QED
    BY <1>3, <2>1, <2>2, SMTT(30)
<1>5. \A j \in 0..Len(q) : Total(d, 1..j) = Total(c, 1..j) /\ Total(d, 1..j) \in Int
  <2> TAKE j \in 0..Len(q)
  <2>1. PICK J : J = 1..j
    OBVIOUS
  <2>2. 1 \in Int /\ j \in Int
    OBVIOUS
  <2>3. IsFiniteSet(J)
    BY <2>1, <2>2, FS_Interval, Zenon
  <2>4. \A i \in J : d[i] = c[i] /\ d[i] \in Int
    BY <1>3, <1>4, <2>1
  <2> QED
    BY <2>1, <2>3, <2>4, TotalEqual, TotalType
<1>6. Len(q) + 1 \in Nat \ {0} /\ (Len(q) + 1) - 1 = Len(q)
  BY <1>3
<1>7. Total(d, 1..(Len(q)+1)) = d[Len(q)+1] + Total(d, 1..Len(q))
  BY <1>4, <1>6, TotalNext
<1>8. \A j \in 0..Len(q) : First(t, r, j) = Total(d, 1..j) /\ First(q, r, j) = Total(c, 1..j)
  BY <1>2, <1>3, FirstIs
<1>9. First(t, r, Len(q) + 1) = Total(d, 1..(Len(q)+1))
  BY <1>2, <1>3, FirstIs
<1>10. Len(q) \in 0..Len(q) /\ b.sched[r].n \in Int
  BY <1>3, <1>4
<1> QED
  BY <1>1, <1>4, <1>5, <1>7, <1>8, <1>9, <1>10

\* The oldest batch is gone.
LEMMA FirstTail ==
    ASSUME NEW q \in Seq(Batch), q # <<>>, NEW r \in Req
    PROVE  \A j \in 1..Len(q) :
              First(Tail(q), r, j - 1) = First(q, r, j) - Head(q).sched[r].n
<1>1. PICK t, m : t = Tail(q) /\ m = Len(q) - 1
  OBVIOUS
<1>2. PICK c, d : c = Counts(q, r) /\ d = Counts(t, r)
  OBVIOUS
<1>3. /\ t \in Seq(Batch) /\ Len(t) = m /\ Len(q) = m + 1 /\ m \in Nat
      /\ \A i \in 1..m : t[i] = q[i+1]
      /\ Head(q) = q[1]
  BY <1>1
<1>4. /\ \A i \in 1..m : d[i] = c[i+1] /\ d[i] \in Int
      /\ \A i \in 1..(m+1) : c[i] \in Int
      /\ c[1] = Head(q).sched[r].n
  <2>1. \A i \in 1..(m+1) : c[i] = q[i].sched[r].n /\ c[i] \in Int
    BY <1>2, <1>3, CountTypes
  <2>2. \A i \in 1..m : d[i] = t[i].sched[r].n
    BY <1>2, <1>3, CountTypes
  <2>3. 1 \in 1..(m+1) /\ \A i \in 1..m : i + 1 \in 1..(m+1)
    BY <1>3
  <2>4. \A i \in 1..m : d[i] = c[i+1] /\ d[i] \in Int
    <3> TAKE i \in 1..m
    <3>1. i + 1 \in 1..(m+1) /\ t[i] = q[i+1]
      BY <1>3, <2>3
    <3> QED
      BY <2>1, <2>2, <3>1
  <2> QED
    BY <1>3, <2>1, <2>3, <2>4
<1>5. \A j \in 0..m : Total(c, 1..(j+1)) = c[1] + Total(d, 1..j)
  <2>1. m \in Nat /\ Shifted(c, d, m)
    BY <1>3, <1>4 DEF Shifted
  <2> TAKE j \in 0..m
  <2>2. PICK z : z = j + 1
    OBVIOUS
  <2>3. Total(c, 1..z) = c[1] + Total(d, 1..j)
    BY <2>1, <2>2, TotalShift
  <2> QED
    BY <2>2, <2>3
<1>6. TAKE j \in 1..Len(q)
<1>7. j - 1 \in 0..m /\ j \in 0..Len(q) /\ (j-1) + 1 = j /\ 1 \in 1..(m+1)
  BY <1>3
<1>8. Total(c, 1..j) = c[1] + Total(d, 1..(j-1))
  BY <1>5, <1>7
<1>9. First(t, r, j - 1) = Total(d, 1..(j-1)) /\ First(q, r, j) = Total(c, 1..j)
  BY <1>2, <1>3, <1>7, FirstIs
<1>10. First(t, r, j-1) \in Int /\ c[1] \in Int
  BY <1>3, <1>4, <1>7, FirstType
<1> QED
  BY <1>1, <1>4, <1>8, <1>9, <1>10

-----------------------------------------------------------------------------
(***************************************************************************)
(* Every live request is queued once                                       *)
(***************************************************************************)
\* The queues of requests that wait hold the requests of S, each once.
Parked(w, s, k, S) ==
    /\ w \in Seq(Req) /\ s \in Seq(Req) /\ k \in Seq(Req)
    /\ Distinct(w) /\ Distinct(s) /\ Distinct(k)
    /\ SeqSet(w) \cap SeqSet(s) = {}
    /\ SeqSet(w) \cap SeqSet(k) = {}
    /\ SeqSet(s) \cap SeqSet(k) = {}
    /\ SeqSet(w) \cup SeqSet(s) \cup SeqSet(k) = S

Idle == {r \in Req : status[r] \in {"waiting", "preempted"}}

QueueInv ==
    /\ SeqSet(running) = {r \in Req : status[r] = "running"}
    /\ Parked(waiting, skipped, cur.skip, Idle)
    /\ pc # "waiting" => cur.skip = <<>>

LEMMA NoMembers == SeqSet(<<>>) = {} /\ Distinct(<<>>)
BY DEF SeqSet, Distinct

LEMMA ParkAppend ==
    ASSUME NEW w, NEW s, NEW k, NEW S, Parked(w, s, k, S), NEW x \in Req, x \notin S
    PROVE  Parked(Append(w, x), s, k, S \cup {x})
<1>1. w \in Seq(Req) /\ Append(w, x) \in Seq(Req) /\ Distinct(w) /\ x \notin SeqSet(w)
  BY DEF Parked
<1>2. SeqSet(Append(w, x)) = SeqSet(w) \cup {x} /\ Distinct(Append(w, x))
  BY <1>1, SetAppend
<1> QED
  BY <1>1, <1>2 DEF Parked

LEMMA ParkPrepend ==
    ASSUME NEW w, NEW s, NEW k, NEW S, Parked(w, s, k, S),
           NEW q \in Seq(Req), Distinct(q), SeqSet(q) \cap S = {}
    PROVE  Parked(q \o w, s, k, S \cup SeqSet(q))
<1>1. w \in Seq(Req) /\ Distinct(w) /\ SeqSet(q) \cap SeqSet(w) = {}
  BY DEF Parked
<1>2. /\ SeqSet(q \o w) = SeqSet(q) \cup SeqSet(w) /\ Distinct(q \o w)
      /\ q \o w \in Seq(Req)
  BY <1>1, SetConcat
<1> QED
  BY <1>2 DEF Parked

LEMMA ParkWithout ==
    ASSUME NEW w, NEW s, NEW S, NEW F, Parked(w, s, <<>>, S)
    PROVE  Parked(Without(w, F), Without(s, F), <<>>, S \ F)
<1>1. w \in Seq(Req) /\ s \in Seq(Req) /\ Distinct(w) /\ Distinct(s)
  BY DEF Parked
<1>2. /\ Without(w, F) \in Seq(Req) /\ Distinct(Without(w, F))
      /\ SeqSet(Without(w, F)) = SeqSet(w) \ F
  BY <1>1, WithoutType, WithoutSet
<1>3. /\ Without(s, F) \in Seq(Req) /\ Distinct(Without(s, F))
      /\ SeqSet(Without(s, F)) = SeqSet(s) \ F
  BY <1>1, WithoutType, WithoutSet
<1> QED
  BY <1>2, <1>3, NoMembers DEF Parked

LEMMA ParkPop ==
    ASSUME NEW k, NEW S, Parked(waiting, skipped, k, S), NEW r \in Req, AtWaiting(r),
           PopWaiting
    PROVE  /\ r \in S /\ r \notin SeqSet(k)
           /\ Parked(waiting', skipped', k, S \ {r})
<1>1. CASE skipped # <<>>
  <2>1. skipped' = Tail(skipped) /\ waiting' = waiting /\ r = Head(skipped)
    BY <1>1 DEF PopWaiting, AtWaiting
  <2>2. /\ Tail(skipped) \in Seq(Req) /\ SeqSet(skipped) = SeqSet(Tail(skipped)) \cup {r}
        /\ Distinct(Tail(skipped)) /\ r \notin SeqSet(Tail(skipped))
    BY <1>1, <2>1, SetTail DEF Parked
  <2> DEFINE t == Tail(skipped)
  <2>3. /\ t \in Seq(Req) /\ SeqSet(skipped) = SeqSet(t) \cup {r}
        /\ Distinct(t) /\ r \notin SeqSet(t) /\ skipped' = t
    BY <2>1, <2>2
  <2> HIDE DEF t
  <2> QED
    BY <2>1, <2>3 DEF Parked
<1>2. CASE skipped = <<>>
  <2>1. skipped' = skipped /\ waiting' = Tail(waiting) /\ r = Head(waiting) /\ waiting # <<>>
    BY <1>2 DEF PopWaiting, AtWaiting
  <2> DEFINE t == Tail(waiting)
  <2>2. /\ Tail(waiting) \in Seq(Req) /\ SeqSet(waiting) = SeqSet(Tail(waiting)) \cup {r}
        /\ Distinct(Tail(waiting)) /\ r \notin SeqSet(Tail(waiting))
    BY <2>1, SetTail DEF Parked
  <2>3. /\ t \in Seq(Req) /\ SeqSet(waiting) = SeqSet(t) \cup {r}
        /\ Distinct(t) /\ r \notin SeqSet(t) /\ waiting' = t
    BY <2>1, <2>2
  <2> HIDE DEF t
  <2> QED
    BY <2>1, <2>3 DEF Parked
<1> QED
  BY <1>1, <1>2

LEMMA ParkSkip ==
    ASSUME NEW w, NEW s, NEW k, NEW S, NEW r \in Req, r \notin S, Parked(w, s, k, S)
    PROVE  Parked(w, s, Append(k, r), S \cup {r})
<1>1. k \in Seq(Req) /\ Append(k, r) \in Seq(Req) /\ Distinct(k) /\ r \notin SeqSet(k)
  BY DEF Parked
<1>2. SeqSet(Append(k, r)) = SeqSet(k) \cup {r} /\ Distinct(Append(k, r))
  BY <1>1, SetAppend
<1> QED
  BY <1>1, <1>2 DEF Parked

LEMMA ParkRequeue ==
    ASSUME NEW w, NEW s, NEW k, NEW S, Parked(w, s, k, S)
    PROVE  Parked(w, k \o s, <<>>, S)
<1>1. /\ k \in Seq(Req) /\ s \in Seq(Req) /\ Distinct(k) /\ Distinct(s)
      /\ SeqSet(k) \cap SeqSet(s) = {}
  BY DEF Parked
<1>2. /\ SeqSet(k \o s) = SeqSet(k) \cup SeqSet(s) /\ Distinct(k \o s)
      /\ k \o s \in Seq(Req)
  BY <1>1, SetConcat
<1> QED
  BY <1>2, NoMembers DEF Parked

LEMMA QueueInit == Init => QueueInv
<1> SUFFICES ASSUME Init PROVE QueueInv
  OBVIOUS
<1>1. /\ waiting = <<>> /\ skipped = <<>> /\ running = <<>> /\ cur.skip = <<>>
      /\ \A r \in Req : status[r] = "unknown"
  BY DEF Init, NoCall
<1>2. Idle = {} /\ {r \in Req : status[r] = "running"} = {}
  BY <1>1 DEF Idle
<1> QED
  BY <1>1, <1>2, NoMembers DEF QueueInv, Parked

LEMMA QueueSame ==
    ASSUME QueueInv, UNCHANGED <<status, running, waiting, skipped>>,
           cur'.skip = cur.skip, pc' # "waiting" => cur.skip = <<>>
    PROVE  QueueInv'
<1>1. Idle' = Idle /\ SeqSet(running)' = SeqSet(running)
  BY DEF Idle, SeqSet
<1>2. Parked(waiting', skipped', cur'.skip, Idle')
  BY <1>1 DEF QueueInv
<1> QED
  BY <1>1, <1>2 DEF QueueInv

LEMMA QueueAddRequest ==
    ASSUME SchedInv, QueueInv, NEW r \in Req, AddRequest(r) PROVE QueueInv'
<1>1. /\ status' = [status EXCEPT ![r] = "waiting"] /\ status[r] = "unknown"
      /\ waiting' = Append(waiting, r)
      /\ UNCHANGED <<running, skipped, pc, cur>>
      /\ status \in [Req -> {"unknown", "waiting", "running", "preempted",
                             "finished"}]
  BY DEF AddRequest, engVars, SchedInv, TypeInv, RequestTypes
<1>2. r \notin Idle /\ Idle' = Idle \cup {r}
      /\ {q \in Req : status'[q] = "running"} = {q \in Req : status[q] = "running"}
  BY <1>1 DEF Idle
<1>3. Parked(waiting', skipped, cur.skip, Idle \cup {r})
  BY <1>1, <1>2, ParkAppend DEF QueueInv
<1>4. Parked(waiting', skipped', cur'.skip, Idle')
  BY <1>1, <1>2, <1>3
<1>5. SeqSet(running)' = SeqSet(running)
  BY <1>1 DEF SeqSet
<1> QED
  BY <1>1, <1>2, <1>4, <1>5 DEF QueueInv

\* Freeing requests while no call of schedule() is under way.
LEMMA QueueFree ==
    ASSUME SchedInv, QueueInv, NEW F \in SUBSET Req, FreeRequests(F), pc # "waiting",
           UNCHANGED cur
    PROVE  QueueInv'
<1>1. \A r \in Req : status'[r] = IF r \in F THEN "finished" ELSE status[r]
  BY DEF FreeRequests, Forget
<1>2. /\ Idle' = Idle \ F
      /\ {q \in Req : status'[q] = "running"} = {q \in Req : status[q] = "running"} \ F
  BY <1>1 DEF Idle
<1>3. /\ running' = Without(running, F) /\ running \in Seq(Req)
      /\ waiting' = Without(waiting, F) /\ skipped' = Without(skipped, F)
      /\ cur.skip = <<>> /\ cur'.skip = <<>>
  BY DEF FreeRequests, SchedInv, TypeInv, RequestTypes, QueueInv
<1>4. SeqSet(running') = SeqSet(running) \ F
  BY <1>3, WithoutSet
<1>5. Parked(waiting', skipped', cur'.skip, Idle')
  BY <1>2, <1>3, ParkWithout DEF QueueInv
<1>6. SeqSet(running)' = SeqSet(running')
  BY DEF SeqSet
<1> QED
  BY <1>2, <1>3, <1>4, <1>5, <1>6 DEF QueueInv

LEMMA QueueAbort ==
    ASSUME SchedInv, QueueInv, NEW r \in Req, Abort(r) PROVE QueueInv'
BY QueueFree DEF Abort, engVars

LEMMA QueueUpdateFromOutput ==
    ASSUME SchedInv, QueueInv, UpdateFromOutput PROVE QueueInv'
<1> DEFINE F == {r \in {r \in Scheduled(Head(queue).sched) : Live(r)} : Stopped(r)}
<1>1. F \in SUBSET Req /\ FreeRequests(F) /\ pc = "update" /\ UNCHANGED cur
  BY DEF UpdateFromOutput, Scheduled
<1> HIDE DEF F
<1> QED
  BY <1>1, QueueFree

\* Preempting the requests of s, which leaves those of q running.
LEMMA QueuePreempt ==
    ASSUME SchedInv, QueueInv, NEW s \in Seq(Req), NEW drop, Preempt(s, drop), Distinct(s),
           SeqSet(s) \cup SeqSet(running') = SeqSet(running),
           SeqSet(s) \cap SeqSet(running') = {},
           UNCHANGED skipped, cur'.skip = cur.skip, pc # "waiting", pc' # "waiting"
    PROVE  QueueInv'
<1>1. /\ \A r \in Req : status'[r] = IF r \in SeqSet(s) THEN "preempted" ELSE status[r]
      /\ waiting' = s \o waiting /\ SeqSet(s) \subseteq Req
  BY DEF Preempt, SeqSet
<1>2. SeqSet(s) \subseteq {r \in Req : status[r] = "running"}
  BY DEF QueueInv
<1>3. /\ Idle' = Idle \cup SeqSet(s) /\ SeqSet(s) \cap Idle = {}
      /\ {r \in Req : status'[r] = "running"}
            = {r \in Req : status[r] = "running"} \ SeqSet(s)
  BY <1>1, <1>2 DEF Idle
<1>4. Parked(waiting', skipped', cur'.skip, Idle')
  BY <1>1, <1>3, ParkPrepend DEF QueueInv
<1>5. SeqSet(running') = {r \in Req : status'[r] = "running"}
  BY <1>3 DEF QueueInv
<1>6. SeqSet(running)' = SeqSet(running')
  BY DEF SeqSet
<1> QED
  BY <1>4, <1>5, <1>6 DEF QueueInv

LEMMA QueueReset ==
    ASSUME SchedInv, QueueInv, ResetPrefixCache PROVE QueueInv'
<1>1. /\ running \in Seq(Req) /\ Distinct(running) /\ running' = <<>>
      /\ pc = "top" /\ UNCHANGED <<skipped, pc, cur>> /\ Preempt(running, TRUE)
  BY DEF ResetPrefixCache, SchedInv, RunningInv, TypeInv, RequestTypes
<1>2. SeqSet(running') = {}
  BY <1>1, NoMembers
<1> QED
  BY <1>1, <1>2, QueuePreempt

LEMMA QueuePreemptLast ==
    ASSUME SchedInv, QueueInv, NEW r \in Req, NEW victim \in Req, PreemptLast(r, victim)
    PROVE  QueueInv'
<1>0. TypeInv /\ running \in Seq(Req) /\ Distinct(running)
  BY DEF SchedInv, RunningInv, TypeInv, RequestTypes
<1>1. /\ running # <<>> /\ victim = running[Len(running)]
      /\ running' = SubSeq(running, 1, Len(running) - 1)
      /\ pc = "running" /\ pc' \in {"running", "issue"}
      /\ UNCHANGED skipped /\ Preempt(<<victim>>, FALSE)
  <2>1. cur.idx \in Nat \ {0} /\ cur.idx <= Len(running)
    BY <1>0, NextTypes DEF PreemptLast, Schedulable, AtRunning, Call
  <2>2. running # <<>>
    BY <1>0, <2>1
  <2>3. /\ victim = running[Len(running)]
        /\ running' = SubSeq(running, 1, Len(running) - 1)
        /\ Preempt(<<victim>>, FALSE)
    BY DEF PreemptLast
  <2>4. pc = "running" /\ UNCHANGED skipped /\ pc' \in {"running", "issue"}
    BY DEF PreemptLast, Schedulable, AtRunning
  <2> QED
    BY <2>2, <2>3, <2>4
<1>2. SeqSet(<<victim>>) = {victim} /\ Distinct(<<victim>>) /\ <<victim>> \in Seq(Req)
  BY DEF SeqSet, Distinct
<1>3. /\ SeqSet(running) = SeqSet(running') \cup {victim}
      /\ victim \notin SeqSet(running')
  BY <1>0, <1>1, SetFront
<1>4. cur'.skip = cur.skip
  BY <1>0, NextTypes DEF PreemptLast, Call
<1>5. /\ SeqSet(<<victim>>) \cup SeqSet(running') = SeqSet(running)
      /\ SeqSet(<<victim>>) \cap SeqSet(running') = {}
      /\ pc # "waiting" /\ pc' # "waiting"
  BY <1>1, <1>2, <1>3
<1> QED
  BY <1>1, <1>2, <1>4, <1>5, QueuePreempt

LEMMA QueueAdmit ==
    ASSUME SchedInv, QueueInv, NEW r \in Req, Admit(r) PROVE QueueInv'
<1>0. TypeInv /\ running \in Seq(Req) /\ cur \in Call
  BY NextTypes DEF SchedInv, TypeInv, RequestTypes
<1>1. /\ AtWaiting(r) /\ PopWaiting /\ running' = Append(running, r)
      /\ status' = [status EXCEPT ![r] = "running"]
      /\ status \in [Req -> {"unknown", "waiting", "running", "preempted",
                             "finished"}]
      /\ UNCHANGED pc /\ pc = "waiting"
  BY DEF Admit, CanAdmit, AtWaiting, SchedInv, TypeInv, RequestTypes
<1>2. cur'.skip = cur.skip
  BY <1>0 DEF Admit, Call
<1>3. r \in Idle /\ Parked(waiting', skipped', cur.skip, Idle \ {r})
  BY <1>1, ParkPop DEF QueueInv
<1>4. /\ Idle' = Idle \ {r}
      /\ {q \in Req : status'[q] = "running"}
            = {q \in Req : status[q] = "running"} \cup {r}
  BY <1>1 DEF Idle
<1>5. SeqSet(running') = SeqSet(running) \cup {r}
  BY <1>0, <1>1, SetAppend
<1>6. SeqSet(running)' = SeqSet(running')
  BY DEF SeqSet
<1> QED
  BY <1>1, <1>2, <1>3, <1>4, <1>5, <1>6 DEF QueueInv

LEMMA QueueSkipWaiting ==
    ASSUME SchedInv, QueueInv, NEW r \in Req, SkipWaiting(r) PROVE QueueInv'
<1>0. TypeInv /\ cur \in Call
  BY NextTypes DEF SchedInv
<1>1. /\ AtWaiting(r) /\ PopWaiting /\ UNCHANGED <<running, status, pc>>
      /\ pc = "waiting"
  BY DEF SkipWaiting, AtWaiting, reqVars
<1>2. cur'.skip = Append(cur.skip, r)
  BY <1>0 DEF SkipWaiting, Call
<1>3. /\ r \in Idle /\ Parked(waiting', skipped', cur.skip, Idle \ {r})
  BY <1>1, ParkPop DEF QueueInv
<1>4. (Idle \ {r}) \cup {r} = Idle /\ r \notin Idle \ {r} /\ Idle' = Idle
  BY <1>1, <1>3 DEF Idle
<1>5. Parked(waiting', skipped', cur'.skip, Idle)
  BY <1>2, <1>3, <1>4, ParkSkip
<1>6. SeqSet(running)' = SeqSet(running)
  BY <1>1 DEF SeqSet
<1> QED
  BY <1>1, <1>4, <1>5, <1>6 DEF QueueInv

LEMMA QueueEndWaiting ==
    ASSUME SchedInv, QueueInv, EndWaiting PROVE QueueInv'
<1>0. TypeInv /\ cur \in Call
  BY DEF SchedInv, TypeInv, EngineTypes
<1>1. /\ UNCHANGED <<running, status, waiting>> /\ skipped' = cur.skip \o skipped
  BY DEF EndWaiting, reqVars, Requeued
<1>2. cur'.skip = <<>>
  BY <1>0 DEF EndWaiting, Call
<1>3. Parked(waiting', skipped', cur'.skip, Idle)
  BY <1>1, <1>2, ParkRequeue DEF QueueInv
<1>4. Idle' = Idle /\ SeqSet(running)' = SeqSet(running)
  BY <1>1 DEF Idle, SeqSet
<1> QED
  BY <1>1, <1>2, <1>3, <1>4 DEF QueueInv

LEMMA QueueNext == SchedInv /\ QueueInv /\ [Next]_vars => QueueInv'
<1> SUFFICES ASSUME SchedInv, QueueInv, [Next]_vars PROVE QueueInv'
  OBVIOUS
<1>0. cur \in Call /\ NoCall.skip = <<>>
  BY DEF SchedInv, TypeInv, EngineTypes, NoCall
<1>1. ASSUME UNCHANGED <<reqVars, queueVars, pc, cur>> PROVE QueueInv'
  BY <1>1, QueueSame DEF reqVars, queueVars, QueueInv
<1>2. CASE UNCHANGED vars
  BY <1>1, <1>2 DEF vars, engVars
<1>3. CASE Schedule
  <2>1. CASE StartStep
    <3>1. cur'.skip = cur.skip /\ cur.skip = <<>>
      <4>1. cur.skip = <<>>
        BY <2>1 DEF StartStep, QueueInv
      <4>2. [NoCall EXCEPT !.budget = MaxBatched, !.cap = SpreadCap].skip = <<>>
        BY DEF NoCall
      <4> QED
        BY <2>1, <4>1, <4>2 DEF StartStep
    <3> QED
      BY <2>1, <3>1, QueueSame DEF StartStep, reqVars, queueVars
  <2>2. CASE EndRunning
    BY <2>2, QueueSame DEF EndRunning, reqVars, queueVars, QueueInv
  <2>3. CASE EndWaiting
    BY <2>3, QueueEndWaiting
  <2>4. CASE Issue
    <3>1. cur.skip = <<>> /\ cur'.skip = <<>> /\ pc' # "waiting"
      BY <1>0, <2>4 DEF Issue, QueueInv
    <3> QED
      BY <2>4, <3>1, QueueSame DEF Issue
  <2>5. ASSUME NEW r \in Req, SkipRunning(r) PROVE QueueInv'
    <3>1. cur'.skip = cur.skip
      BY <1>0, <2>5 DEF SkipRunning, Call
    <3> QED
      BY <2>5, <3>1, QueueSame DEF SkipRunning, reqVars, queueVars, QueueInv
  <2>6. ASSUME NEW r \in Req, ScheduleRunning(r) PROVE QueueInv'
    <3>1. cur'.skip = cur.skip
      BY <1>0, <2>6 DEF ScheduleRunning, Call
    <3> QED
      BY <2>6, <3>1, QueueSame DEF ScheduleRunning, QueueInv
  <2> QED
    BY <1>3, <2>1, <2>2, <2>3, <2>4, <2>5, <2>6, QueueSkipWaiting, QueueAdmit,
       QueuePreemptLast DEF Schedule
<1>4. CASE Process
  <2>1. CASE AwaitResult
    BY <2>1, QueueSame DEF AwaitResult, reqVars, queueVars, QueueInv
  <2>2. CASE UpdateDrafts
    BY <2>2, QueueSame DEF UpdateDrafts, queueVars, QueueInv
  <2> QED
    BY <1>4, <2>1, <2>2, QueueUpdateFromOutput DEF Process
<1>5. CASE Ranks
  BY <1>1, <1>5 DEF Ranks, LastRank, RankExecute, RankSample, RankTakeDrafts, engVars
<1>6. CASE Clients
  BY <1>6, QueueAddRequest, QueueAbort, QueueReset DEF Clients
<1> QED
  BY <1>2, <1>3, <1>4, <1>5, <1>6 DEF Next

\* Every live request is in exactly one of the scheduler's queues, the one its
\* status names, whatever is skipped, preempted, resumed, reset and aborted in
\* between: none is lost, and none can be scheduled twice.
THEOREM LiveIsQueuedOnce == Spec => []QueuedOnce
<1>1. ASSUME SchedInv, QueueInv PROVE QueuedOnce
  <2> DEFINE two == running \o waiting
             three == two \o skipped
             all == three \o cur.skip
  <2>1. /\ running \in Seq(Req) /\ Distinct(running)
        /\ Parked(waiting, skipped, cur.skip, Idle)
        /\ SeqSet(running) \cap Idle = {}
        /\ SeqSet(running) \cup Idle = {r \in Req : Live(r)}
    BY <1>1 DEF SchedInv, RunningInv, TypeInv, RequestTypes, QueueInv, Idle, Live
  <2>2. /\ two \in Seq(Req) /\ Distinct(two)
        /\ SeqSet(two) = SeqSet(running) \cup SeqSet(waiting)
    BY <2>1, SetConcat DEF Parked
  <2> HIDE DEF two
  <2>3. /\ three \in Seq(Req) /\ Distinct(three)
        /\ SeqSet(three) = SeqSet(two) \cup SeqSet(skipped)
    BY <2>1, <2>2, SetConcat DEF Parked
  <2> HIDE DEF three
  <2>4. /\ all \in Seq(Req) /\ Distinct(all)
        /\ SeqSet(all) = SeqSet(three) \cup SeqSet(cur.skip)
    BY <2>1, <2>2, <2>3, SetConcat DEF Parked
  <2>5. SeqSet(all) = {r \in Req : Live(r)}
    BY <2>1, <2>2, <2>3, <2>4 DEF Parked
  <2>6. all = running \o waiting \o skipped \o cur.skip
    BY DEF two, three
  <2> HIDE DEF all
  <2>7. Len(all) = Cardinality(SeqSet(all))
    BY <2>4, DistinctLen
  <2> QED
    BY <1>1, <2>5, <2>6, <2>7 DEF QueuedOnce, QueueInv
<1>2. SchedInv /\ QueueInv /\ [Next]_vars => (SchedInv /\ QueueInv)'
  BY SchedNext, QueueNext
<1> QED
  BY <1>1, <1>2, SchedInit, QueueInit, PTL DEF Spec
-----------------------------------------------------------------------------
(***************************************************************************)
(* Tokens in flight.  A request's counter is the sum over the batch queue, *)
(* and its stale share the sum over the oldest batches: both are updated   *)
(* by one batch at a time, at either end of the queue.                     *)
(***************************************************************************)
\* A batch counts nothing for a request that is not in it.
EmptyCounts(q) ==
    \A i \in 1..Len(q), r \in Req : q[i].sched[r].kind = "none" => q[i].sched[r].n = 0

Oldest(q, r, f, s) ==
    /\ f = First(q, r, Len(q))
    /\ \E j \in 0..Len(q) : s = First(q, r, j)

FlowInv ==
    /\ EmptyCounts(queue)
    /\ \A r \in Req : status[r] = "unknown" => inFlight[r] = 0 /\ stale[r] = 0
    /\ \A r \in Req : Live(r) => Oldest(queue, r, inFlight[r], stale[r])

\* What a request without an entry has in flight.
LEMMA FirstNone ==
    ASSUME NEW q \in Seq(Batch), NEW r \in Req, EmptyCounts(q),
           \A i \in 1..Len(q) : q[i].sched[r].kind = "none"
    PROVE  \A j \in 0..Len(q) : First(q, r, j) = 0
<1> TAKE j \in 0..Len(q)
<1>1. PICK c, J : c = Counts(q, r) /\ J = 1..j
  OBVIOUS
<1>2. Len(q) \in Nat /\ \A i \in 1..Len(q) : c[i] = 0
  BY <1>1, CountTypes DEF EmptyCounts
<1>3. 1 \in Int /\ j \in Int
  OBVIOUS
<1>4. IsFiniteSet(J)
  BY <1>1, <1>3, FS_Interval, Zenon
<1>5. J \in SUBSET J /\ \A i \in J : c[i] = 0 /\ c[i] \in Int
  BY <1>1, <1>2
<1>6. Total(c, J) = Total(c, J) + Total(c, J) /\ Total(c, J) \in Int
  <2>1. \A i \in J : c[i] = IF i \in J THEN 0 ELSE c[i]
    BY <1>5
  <2> QED
    BY <1>4, <1>5, <2>1, TotalClear, TotalType
<1> QED
  BY <1>1, <1>6, FirstIs

LEMMA FirstNext ==
    ASSUME NEW q \in Seq(Batch), NEW r \in Req, NEW j \in 1..Len(q)
    PROVE  First(q, r, j) = q[j].sched[r].n + First(q, r, j - 1)
<1>1. PICK c : c = Counts(q, r)
  OBVIOUS
<1>2. Len(q) \in Nat /\ \A i \in 1..Len(q) : c[i] = q[i].sched[r].n /\ c[i] \in Int
  BY <1>1, CountTypes
<1>3. j \in Nat \ {0} /\ j \in 0..Len(q) /\ j - 1 \in 0..Len(q)
      /\ \A i \in 1..j : c[i] \in Int
  BY <1>2
<1>4. Total(c, 1..j) = c[j] + Total(c, 1..(j-1))
  BY <1>3, TotalNext
<1> QED
  BY <1>1, <1>2, <1>3, <1>4, FirstIs

\* Every batch adds to what is in flight.
LEMMA FirstNat ==
    ASSUME NEW q \in Seq(Batch), NEW r \in Req,
           \A i \in 1..Len(q) : q[i].sched[r].n >= 0
    PROVE  \A j \in 0..Len(q) : First(q, r, j) >= 0
<1> DEFINE T == {j \in 0..Len(q) : ~(First(q, r, j) >= 0)}
<1> SUFFICES ASSUME T # {} PROVE FALSE
  OBVIOUS
<1>0. Len(q) \in Nat /\ T \in SUBSET Nat
  OBVIOUS
<1>1. PICK j \in T : \A y \in T : j <= y
  BY <1>0, NatMin
<1>2. First(q, r, 0) = 0 /\ \A i \in 0..Len(q) : First(q, r, i) \in Int
  BY FirstType
<1>3. j # 0
  BY <1>1, <1>2
<1>4. j \in 1..Len(q) /\ j - 1 \in 0..Len(q) /\ j - 1 < j
  BY <1>0, <1>1, <1>3
<1>5. First(q, r, j - 1) >= 0 /\ First(q, r, j - 1) \in Int
  BY <1>1, <1>2, <1>4
<1>6. First(q, r, j) = q[j].sched[r].n + First(q, r, j - 1)
  BY <1>4, FirstNext
<1>7. q[j].sched[r].n \in Int
  BY <1>4, CountTypes
<1> QED
  BY <1>1, <1>4, <1>5, <1>6, <1>7

LEMMA FlowInit == Init => FlowInv
<1> SUFFICES ASSUME Init PROVE FlowInv
  OBVIOUS
<1>1. queue = <<>> /\ Len(queue) = 0
  BY DEF Init
<1>2. EmptyCounts(queue)
  BY <1>1 DEF EmptyCounts
<1>3. \A r \in Req : status[r] = "unknown" /\ inFlight[r] = 0 /\ stale[r] = 0
  BY DEF Init
<1> QED
  BY <1>2, <1>3 DEF FlowInv, Live

LEMMA FlowSame ==
    ASSUME FlowInv, UNCHANGED <<inFlight, stale, queue>>,
           \A r \in Req : /\ Live(r)' => Live(r)
                          /\ status'[r] = "unknown" => status[r] = "unknown"
    PROVE  FlowInv'
BY DEF FlowInv

LEMMA FlowAddRequest ==
    ASSUME SchedInv, FlowInv, NEW r \in Req, AddRequest(r) PROVE FlowInv'
<1>1. /\ status' = [status EXCEPT ![r] = "waiting"] /\ status[r] = "unknown"
      /\ UNCHANGED <<inFlight, stale, queue>>
      /\ status \in [Req -> {"unknown", "waiting", "running", "preempted",
                             "finished"}]
      /\ queue \in Seq(Batch)
  BY DEF AddRequest, engVars, SchedInv, TypeInv, RequestTypes, EngineTypes
<1>2. \A i \in 1..Len(queue) : queue[i].sched[r].kind = "none"
  BY <1>1 DEF SchedInv, FreshInv, Scheduled
<1>3. \A j \in 0..Len(queue) : First(queue, r, j) = 0
  BY <1>1, <1>2, FirstNone DEF FlowInv
<1>4. 0 \in 0..Len(queue) /\ Len(queue) \in 0..Len(queue)
  BY <1>1
<1>5. Oldest(queue, r, inFlight[r], stale[r])
  BY <1>1, <1>3, <1>4 DEF FlowInv, Oldest
<1>6. \A q \in Req : Live(q)' => q = r \/ Live(q)
  BY <1>1 DEF Live
<1>7. \A q \in Req : status'[q] = "unknown" => status[q] = "unknown"
  BY <1>1
<1> QED
  BY <1>1, <1>5, <1>6, <1>7 DEF FlowInv

LEMMA FlowAbort ==
    ASSUME SchedInv, FlowInv, NEW r \in Req, Abort(r) PROVE FlowInv'
<1>1. /\ \A q \in Req : /\ q = r => status'[q] = "finished"
                        /\ q # r => status'[q] = status[q] /\ inFlight'[q] = inFlight[q]
                                    /\ stale'[q] = stale[q]
      /\ UNCHANGED queue
  BY DEF Abort, FreeRequests, Forget, engVars
<1>2. \A q \in Req : Live(q)' => q # r /\ Live(q)
  BY <1>1 DEF Live
<1> QED
  BY <1>1, <1>2 DEF FlowInv

\* All of what a preempted request has in flight is stale.
LEMMA FlowPreempt ==
    ASSUME SchedInv, FlowInv, NEW s \in Seq(Req), NEW drop, Preempt(s, drop),
           \A r \in SeqSet(s) : status[r] = "running", UNCHANGED <<inFlight, queue>>
    PROVE  FlowInv'
<1>1. /\ \A r \in Req : /\ r \in SeqSet(s) => /\ status'[r] = "preempted"
                                              /\ stale'[r] = inFlight[r]
                        /\ r \notin SeqSet(s) => /\ status'[r] = status[r]
                                                 /\ stale'[r] = stale[r]
  BY DEF Preempt
<1>2. queue \in Seq(Batch) /\ Len(queue) \in Nat /\ Len(queue) \in 0..Len(queue)
  BY DEF SchedInv, TypeInv, EngineTypes
<1>3. ASSUME NEW r \in Req, Live(r)' PROVE Oldest(queue, r, inFlight[r], stale'[r])
  <2>1. Live(r)
    BY <1>1, <1>3 DEF Live
  <2>2. Oldest(queue, r, inFlight[r], stale[r])
    BY <2>1 DEF FlowInv
  <2> QED
    BY <1>1, <1>2, <2>2 DEF Oldest
<1>4. \A r \in Req : status'[r] = "unknown" => status[r] = "unknown" /\ stale'[r] = stale[r]
  BY <1>1
<1> QED
  BY <1>3, <1>4 DEF FlowInv

LEMMA FlowIssue ==
    ASSUME SchedInv, FlowInv, Issue PROVE FlowInv'
<1>0. TypeInv /\ queue \in Seq(Batch) /\ Len(queue) \in Nat
  BY DEF SchedInv, TypeInv, EngineTypes
<1>1. PICK b \in Batch : IssuedBatch(b)
  BY IssueBatch
<1>2. b.sched = Output /\ queue' = Append(queue, b)
  BY <1>1 DEF IssuedBatch
<1>3. ASSUME NEW r \in Req
      PROVE  /\ b.sched[r].kind = "none" => b.sched[r].n = 0
             /\ inFlight'[r] = inFlight[r] + b.sched[r].n
             /\ b.sched[r].kind # "none" => status[r] # "unknown"
             /\ b.sched[r].n \in Int /\ inFlight[r] \in Int
  <2>1. /\ Output[r] \in Entry /\ Output[r].kind = cur.batch[r].kind
        /\ Output[r].kind # "none" => Output[r].n = cur.batch[r].n
    BY OutputFields
  <2>2. Output[r].kind = "none" => Output[r].n = 0
    <3>1. cur.batch[r].kind = "none" => Output[r] = NoEntry
      BY DEF Output
    <3>2. NoEntry.n = 0
      BY DEF NoEntry, Planned
    <3> QED
      BY <2>1, <3>1, <3>2
  <2>3. inFlight'[r] = IF cur.batch[r].kind # "none" THEN inFlight[r] + cur.batch[r].n
                       ELSE inFlight[r]
    BY DEF Issue, Scheduled
  <2>4. inFlight[r] \in Int /\ Output[r].n \in Int
    BY <1>0, <2>1 DEF TypeInv, CounterTypes, Entry
  <2>5. cur.batch[r].kind # "none" => status[r] # "unknown"
    BY DEF SchedInv, CallInv, Scheduled
  <2> QED
    BY <1>2, <2>1, <2>2, <2>3, <2>4, <2>5
<1>4. EmptyCounts(queue')
  <2>1. /\ Len(queue') = Len(queue) + 1
        /\ \A i \in 1..Len(queue) : queue'[i] = queue[i]
        /\ queue'[Len(queue) + 1] = b
    BY <1>0, <1>2
  <2> QED
    BY <1>0, <1>3, <2>1 DEF FlowInv, EmptyCounts
<1>5. UNCHANGED <<status, stale>>
  BY DEF Issue
<1>6. ASSUME NEW r \in Req, Live(r) PROVE Oldest(queue', r, inFlight'[r], stale[r])
  <2>1. /\ inFlight[r] = First(queue, r, Len(queue))
        /\ \E j \in 0..Len(queue) : stale[r] = First(queue, r, j)
    BY <1>6 DEF FlowInv, Oldest
  <2>2. Len(queue') = Len(queue) + 1 /\ \A j \in 0..Len(queue) : j \in 0..Len(queue')
    BY <1>0, <1>2
  <2>3. /\ First(queue', r, Len(queue')) = First(queue, r, Len(queue)) + b.sched[r].n
        /\ \A j \in 0..Len(queue) : First(queue', r, j) = First(queue, r, j)
    BY <1>0, <1>2, <2>2, FirstAppend
  <2> QED
    BY <1>3, <2>1, <2>2, <2>3 DEF Oldest
<1>7. ASSUME NEW r \in Req, status[r] = "unknown" PROVE inFlight'[r] = 0
  <2>1. b.sched[r].n = 0 /\ inFlight[r] = 0
    BY <1>3, <1>7 DEF FlowInv
  <2> QED
    BY <1>3, <2>1
<1> QED
  BY <1>4, <1>5, <1>6, <1>7 DEF FlowInv, Live

LEMMA FlowUpdateFromOutput ==
    ASSUME SchedInv, FlowInv, UpdateFromOutput PROVE FlowInv'
<1>0. /\ TypeInv /\ queue \in Seq(Batch) /\ queue # <<>> /\ queue' = Tail(queue)
      /\ pc = "update"
  BY DEF SchedInv, UpdateFromOutput, TypeInv, EngineTypes
<1>1. /\ Len(queue) \in Nat /\ Len(queue) >= 1 /\ Len(queue') = Len(queue) - 1
      /\ \A i \in 1..Len(queue') : queue'[i] = queue[i+1] /\ i + 1 \in 1..Len(queue)
      /\ Head(queue) = queue[1] /\ 1 \in 1..Len(queue)
  BY <1>0
<1>2. EmptyCounts(queue')
  BY <1>1 DEF FlowInv, EmptyCounts
<1>3. ASSUME NEW r \in Req
      PROVE  LET n == Head(queue).sched[r].n IN
             /\ Live(r)' => Live(r) /\ inFlight'[r] = inFlight[r] - n
                            /\ stale'[r] = IF stale[r] > 0 THEN stale[r] - n ELSE stale[r]
             /\ status'[r] = "unknown" => /\ status[r] = "unknown"
                                          /\ inFlight'[r] = 0 /\ stale'[r] = 0
  <2> DEFINE n == Head(queue).sched[r].n
             F == {q \in {q \in Scheduled(Head(queue).sched) : Live(q)} : Stopped(q)}
             in == r \in Scheduled(Head(queue).sched)
  <2>1. /\ status'[r] = IF r \in F THEN "finished" ELSE status[r]
        /\ inFlight'[r] = IF r \in F THEN 0 ELSE IF in /\ Live(r) THEN inFlight[r] - n
                                                ELSE inFlight[r]
        /\ stale'[r] = IF r \in F THEN 0
                       ELSE IF in /\ Live(r) /\ stale[r] > 0 THEN stale[r] - n ELSE stale[r]
    BY DEF UpdateFromOutput, FreeRequests, Forget
  <2>2. ~in => n = 0
    BY <1>1 DEF Scheduled, FlowInv, EmptyCounts
  <2>3. inFlight[r] \in Int /\ stale[r] \in Int
    BY <1>0 DEF TypeInv, CounterTypes
  <2>4. status[r] = "unknown" => ~Live(r) /\ inFlight[r] = 0 /\ stale[r] = 0
    BY DEF Live, FlowInv
  <2>5. Live(r)' <=> status'[r] \notin {"unknown", "finished"}
    BY DEF Live
  <2>6. Live(r) <=> status[r] \notin {"unknown", "finished"}
    BY DEF Live
  <2> HIDE DEF F, n, in
  <2>7. Live(r)' => Live(r) /\ inFlight'[r] = inFlight[r] - n
                    /\ stale'[r] = IF stale[r] > 0 THEN stale[r] - n ELSE stale[r]
    BY <2>1, <2>2, <2>3, <2>5, <2>6
  <2>8. status'[r] = "unknown" => /\ status[r] = "unknown"
                                  /\ inFlight'[r] = 0 /\ stale'[r] = 0
    BY <2>1, <2>4
  <2> QED
    BY <2>7, <2>8 DEF n
<1>4. ASSUME NEW r \in Req, Live(r)' PROVE Oldest(queue', r, inFlight'[r], stale'[r])
  <2>1. PICK n : n = Head(queue).sched[r].n
    OBVIOUS
  <2>2. PICK j \in 0..Len(queue) : stale[r] = First(queue, r, j)
    BY <1>3, <1>4 DEF FlowInv, Oldest
  <2>3. inFlight[r] = First(queue, r, Len(queue))
    BY <1>3, <1>4 DEF FlowInv, Oldest
  <2>4. \A l \in 1..Len(queue) : First(queue', r, l - 1) = First(queue, r, l) - n
    BY <1>0, <2>1, FirstTail
  <2>5. inFlight'[r] = First(queue', r, Len(queue'))
    BY <1>1, <1>3, <1>4, <2>1, <2>3, <2>4
  <2>6. First(queue, r, 0) = 0 /\ First(queue', r, 0) = 0
    <3>1. queue' \in Seq(Batch)
      BY <1>0
    <3> QED
      BY <1>0, <3>1, FirstType
  <2>7. CASE stale[r] > 0
    <3>1. j # 0
      BY <2>2, <2>6, <2>7
    <3>2. j \in 1..Len(queue) /\ j - 1 \in 0..Len(queue')
      BY <1>1, <3>1
    <3>3. stale'[r] = First(queue', r, j - 1)
      BY <1>3, <1>4, <2>1, <2>2, <2>4, <2>7, <3>2
    <3> QED
      BY <2>5, <3>2, <3>3 DEF Oldest
  <2>8. CASE stale[r] = 0
    <3>1. stale'[r] = 0 /\ 0 \in 0..Len(queue')
      BY <1>1, <1>3, <1>4, <2>8
    <3> QED
      BY <2>5, <2>6, <3>1 DEF Oldest
  <2>9. stale[r] >= 0 /\ stale[r] \in Int
    <3>1. ASSUME NEW i \in 1..Len(queue) PROVE queue[i].sched[r].n >= 0
      <4>0. queue[i] \in Batch
        BY <1>0
      <4>1. queue[i].sched[r] \in Entry
        BY <4>0 DEF Batch, Sched
      <4>2. queue[i].sched[r].k \in Nat /\ queue[i].sched[r].n \in Int
        BY <4>1 DEF Entry
      <4>3. queue[i].sched[r].kind # "none" => queue[i].sched[r].k < queue[i].sched[r].n
        BY <1>0 DEF SchedInv, NoDraftOnlyStep, Scheduled
      <4> QED
        BY <4>2, <4>3 DEF FlowInv, EmptyCounts
    <3> QED
      BY <1>0, <2>2, <3>1, FirstNat, FirstType
  <2> QED
    BY <2>7, <2>8, <2>9
<1>5. \A r \in Req : status'[r] = "unknown" => inFlight'[r] = 0 /\ stale'[r] = 0
  BY <1>3
<1> QED
  BY <1>2, <1>4, <1>5 DEF FlowInv

LEMMA FlowNext == SchedInv /\ FlowInv /\ [Next]_vars => FlowInv'
<1> SUFFICES ASSUME SchedInv, FlowInv, [Next]_vars PROVE FlowInv'
  OBVIOUS
<1>0. TypeInv /\ running \in Seq(Req)
  BY DEF SchedInv, TypeInv, RequestTypes
<1>1. ASSUME UNCHANGED <<inFlight, stale, queue, status>> PROVE FlowInv'
  BY <1>1, FlowSame DEF Live
<1>2. CASE UNCHANGED vars
  BY <1>1, <1>2 DEF vars, engVars, reqVars
<1>3. CASE Schedule
  <2>1. CASE StartStep \/ EndRunning \/ EndWaiting
    BY <1>1, <2>1 DEF StartStep, EndRunning, EndWaiting, reqVars
  <2>2. ASSUME NEW r \in Req, SkipRunning(r) \/ ScheduleRunning(r) \/ SkipWaiting(r)
        PROVE  FlowInv'
    BY <1>1, <2>2 DEF SkipRunning, ScheduleRunning, SkipWaiting, reqVars
  <2>3. ASSUME NEW r \in Req, Admit(r) PROVE FlowInv'
    <3>1. /\ status' = [status EXCEPT ![r] = "running"]
          /\ status[r] \in {"waiting", "preempted"}
          /\ UNCHANGED <<inFlight, stale, queue>>
          /\ status \in [Req -> {"unknown", "waiting", "running", "preempted",
                                 "finished"}]
      BY <1>0, <2>3 DEF Admit, TypeInv, RequestTypes
    <3>2. \A q \in Req : /\ Live(q)' => Live(q)
                         /\ status'[q] = "unknown" => status[q] = "unknown"
      BY <3>1 DEF Live
    <3> QED
      BY <3>1, <3>2, FlowSame
  <2>4. ASSUME NEW r \in Req, NEW victim \in Req, PreemptLast(r, victim) PROVE FlowInv'
    <3>1. running # <<>> /\ victim = running[Len(running)]
      <4>1. cur.idx \in Nat \ {0} /\ cur.idx <= Len(running)
        BY <1>0, <2>4, NextTypes DEF PreemptLast, Schedulable, AtRunning, Call
      <4> QED
        BY <1>0, <2>4, <4>1 DEF PreemptLast
    <3>2. SeqSet(<<victim>>) = {victim} /\ <<victim>> \in Seq(Req)
          /\ status[victim] = "running"
      BY <1>0, <3>1 DEF SeqSet, SchedInv, RunningInv
    <3>3. Preempt(<<victim>>, FALSE) /\ UNCHANGED <<inFlight, queue>>
      BY <2>4 DEF PreemptLast
    <3> QED
      BY <3>2, <3>3, FlowPreempt
  <2> QED
    BY <1>3, <2>1, <2>2, <2>3, <2>4, FlowIssue DEF Schedule
<1>4. CASE Process
  BY <1>1, <1>4, FlowUpdateFromOutput DEF Process, AwaitResult, UpdateDrafts, reqVars
<1>5. CASE Ranks
  BY <1>1, <1>5 DEF Ranks, LastRank, RankExecute, RankSample, RankTakeDrafts, engVars,
                    reqVars
<1>6. CASE Clients
  <2>1. CASE ResetPrefixCache
    <3>1. \A r \in SeqSet(running) : status[r] = "running"
      BY DEF SchedInv, RunningInv, SeqSet
    <3>2. Preempt(running, TRUE) /\ UNCHANGED <<inFlight, queue>>
      BY <2>1 DEF ResetPrefixCache
    <3> QED
      BY <1>0, <3>1, <3>2, FlowPreempt
  <2> QED
    BY <1>6, <2>1, FlowAddRequest, FlowAbort DEF Clients
<1> QED
  BY <1>2, <1>3, <1>4, <1>5, <1>6 DEF Next

\* num_in_flight_tokens is the sum over the batches in flight and the stale share
\* of it that of the oldest batches, so that draining it batch by batch ends
\* exactly at 0 (what update_from_output asserts) and never eats into a fresh
\* output, for every interleaving of preemptions, resets, aborts and results.
THEOREM StaleDrainsOldest == Spec => []StaleIsOldest
<1>1. FlowInv => StaleIsOldest
  <2> SUFFICES ASSUME FlowInv, NEW r \in Req, Live(r)
               PROVE  /\ inFlight[r] = InFirst(r, Len(queue))
                      /\ \E j \in 0..Len(queue) : stale[r] = InFirst(r, j)
    BY DEF StaleIsOldest
  <2>1. \A j : InFirst(r, j) = First(queue, r, j)
    BY DEF InFirst, First
  <2> QED
    BY <2>1 DEF FlowInv, Oldest
<1>2. SchedInv /\ FlowInv /\ [Next]_vars => (SchedInv /\ FlowInv)'
  BY SchedNext, FlowNext
<1> QED
  BY <1>1, <1>2, SchedInit, FlowInit, PTL DEF Spec
-----------------------------------------------------------------------------
(***************************************************************************)
(* The last rank answers in order.  Its RPC queue holds the batches that   *)
(* have no result yet, each as an exec and, if its drafts are fetched, a   *)
(* draft message right behind it; p[i] is where the i-th of them is.  A    *)
(* draft message may be left over in front of them (l = 2).                *)
(***************************************************************************)
Places(p, l, m, q, R) ==
    LET N == Len(q) - R IN
    /\ p \in [1..(N + 1) -> Nat]
    /\ p[1] = l
    /\ l = 2 => m # <<>> /\ m[1].op = "draft"
    /\ \A i \in 1..N :
          /\ p[i] \in 1..Len(m) /\ m[p[i]].op = "exec" /\ m[p[i]].batch = q[R + i]
          /\ q[R + i].fetch => p[i] + 1 \in 1..Len(m) /\ m[p[i] + 1].op = "draft"
          /\ p[i + 1] = p[i] + (IF q[R + i].fetch THEN 2 ELSE 1)
    /\ p[N + 1] = Len(m) + 1

Aligned(l, m, q, R) == l \in {1, 2} /\ \E p : Places(p, l, m, q, R)

LEMMA AlignExec ==
    ASSUME NEW m \in Seq(Messages), NEW q \in Seq(Batch), NEW R \in 0..Len(q), NEW l,
           Aligned(l, m, q, R), m # <<>>, Head(m).op = "exec"
    PROVE  /\ R + 1 \in 1..Len(q) /\ Head(m).batch = q[R + 1] /\ l = 1
           /\ Aligned(IF q[R + 1].fetch THEN 2 ELSE 1, Tail(m), q, R + 1)
<1>1. PICK p : Places(p, l, m, q, R)
  BY DEF Aligned
<1> DEFINE N == Len(q) - R
<1>2. /\ Len(q) \in Nat /\ R \in Nat /\ N \in Nat /\ Len(m) \in Nat /\ Len(m) >= 1
      /\ Head(m) = m[1] /\ 1 \in 1..Len(m)
  OBVIOUS
<1>3. l = 1
  <2>1. m[1].op # "draft"
    BY <1>2
  <2> QED
    BY <1>1, <2>1 DEF Places, Aligned
<1>4. N # 0
  <2>1. N = 0 => p[1] = Len(m) + 1
    BY <1>1, <1>2 DEF Places
  <2> QED
    BY <1>1, <1>2, <1>3, <2>1 DEF Places
<1>5. R + 1 \in 1..Len(q) /\ 1 \in 1..N
  BY <1>2, <1>4
<1>6. Head(m).batch = q[R + 1]
  BY <1>1, <1>2, <1>3, <1>5 DEF Places
<1> DEFINE t == Tail(m)
           z == [i \in 1..N |-> p[i + 1] - 1]
           e == IF q[R + 1].fetch THEN 2 ELSE 1
<1>7. /\ Len(t) = Len(m) - 1 /\ \A i \in 1..(Len(m) - 1) : t[i] = m[i + 1]
      /\ Len(q) - (R + 1) = N - 1 /\ (N - 1) + 1 = N
  BY <1>2
<1>8. /\ p \in [1..(N + 1) -> Nat] /\ p[1] = 1 /\ p[N + 1] = Len(m) + 1
      /\ p[2] = 1 + e /\ e \in {1, 2}
      /\ e = 2 => 2 \in 1..Len(m) /\ m[2].op = "draft"
      /\ \A i \in 1..N : p[i] \in 1..Len(m) /\ p[i + 1] >= p[i] + 1
  <2>1. p \in [1..(N + 1) -> Nat] /\ p[1] = 1 /\ p[N + 1] = Len(m) + 1
    BY <1>1, <1>3 DEF Places
  <2>2. /\ p[1 + 1] = p[1] + e
        /\ q[R + 1].fetch => p[1] + 1 \in 1..Len(m) /\ m[p[1] + 1].op = "draft"
    BY <1>1, <1>5 DEF Places
  <2>3. p[2] = 1 + e /\ e \in {1, 2} /\ (e = 2 => 2 \in 1..Len(m) /\ m[2].op = "draft")
    BY <2>1, <2>2
  <2>4. ASSUME NEW i \in 1..N
        PROVE  p[i] \in 1..Len(m) /\ p[i + 1] >= p[i] + 1
    <3>1. p[i] \in 1..Len(m) /\ p[i + 1] = p[i] + (IF q[R + i].fetch THEN 2 ELSE 1)
      BY <1>1, <2>4 DEF Places
    <3> QED
      BY <1>2, <3>1
  <2> QED
    BY <2>1, <2>3, <2>4
<1>9. ASSUME NEW i \in 1..(N - 1)
      PROVE  /\ z[i] \in 1..Len(t) /\ t[z[i]].op = "exec" /\ t[z[i]].batch = q[R + 1 + i]
             /\ q[R + 1 + i].fetch => z[i] + 1 \in 1..Len(t) /\ t[z[i] + 1].op = "draft"
             /\ z[i + 1] = z[i] + (IF q[R + 1 + i].fetch THEN 2 ELSE 1)
  <2>1. /\ i \in 1..N /\ i + 1 \in 1..N /\ i + 1 \in 1..(N + 1) /\ (i + 1) + 1 \in 1..(N + 1)
        /\ R + (i + 1) = R + 1 + i
    BY <1>2
  <2>2. PICK u : u = p[i + 1]
    OBVIOUS
  <2>3. /\ u \in 1..Len(m) /\ m[u].op = "exec" /\ m[u].batch = q[R + 1 + i]
        /\ q[R + 1 + i].fetch => u + 1 \in 1..Len(m) /\ m[u + 1].op = "draft"
        /\ p[(i + 1) + 1] = u + (IF q[R + 1 + i].fetch THEN 2 ELSE 1)
    BY <1>1, <2>1, <2>2 DEF Places
  <2>4. u >= 2 /\ u \in Nat
    <3>1. p[i] \in 1..Len(m) /\ u >= p[i] + 1
      BY <1>8, <2>1, <2>2
    <3>2. p[i] \in Int /\ p[i] >= 1 /\ u \in Int /\ u >= 1
      BY <1>2, <2>3, <3>1
    <3> QED
      BY <3>1, <3>2
  <2>5. z[i] = u - 1 /\ z[i + 1] = p[(i + 1) + 1] - 1
    BY <2>1, <2>2
  <2>6. u - 1 \in 1..Len(t) /\ t[u - 1] = m[u]
    BY <1>2, <1>7, <2>3, <2>4
  <2>7. q[R + 1 + i].fetch => (u - 1) + 1 \in 1..Len(t) /\ t[(u - 1) + 1] = m[u + 1]
    BY <1>2, <1>7, <2>3, <2>4
  <2>8. z[i + 1] = z[i] + (IF q[R + 1 + i].fetch THEN 2 ELSE 1)
    BY <2>3, <2>4, <2>5
  <2> QED
    BY <2>3, <2>5, <2>6, <2>7, <2>8
<1>10. z \in [1..N -> Nat] /\ z[1] = e /\ z[N] = Len(t) + 1
  <2>1. \A i \in 1..N : p[i + 1] - 1 \in Nat
    <3> TAKE i \in 1..N
    <3>0. i \in 1..(N + 1) /\ i + 1 \in 1..(N + 1)
      BY <1>2
    <3>1. p[i] \in Nat /\ p[i + 1] \in Nat /\ p[i + 1] >= p[i] + 1
      BY <1>8, <3>0
    <3> QED
      BY <3>1
  <2>2. z \in [1..N -> Nat]
    BY <2>1
  <2>3. z[1] = p[2] - 1
    BY <1>5
  <2>4. z[N] = p[N + 1] - 1
    BY <1>2, <1>4
  <2> QED
    BY <1>2, <1>7, <1>8, <2>2, <2>3, <2>4
<1>11. e = 2 => t # <<>> /\ t[1].op = "draft"
  <2>1. e = 2 => 1 \in 1..(Len(m) - 1)
    BY <1>2, <1>8
  <2>2. e = 2 => t[1] = m[2] /\ Len(t) # 0
    BY <1>2, <1>7, <2>1
  <2> QED
    BY <1>8, <2>2
<1> HIDE DEF z, t, e
<1>12. Places(z, e, t, q, R + 1)
  BY <1>7, <1>9, <1>10, <1>11 DEF Places
<1>13. Aligned(e, t, q, R + 1)
  BY <1>8, <1>12 DEF Aligned
<1> QED
  BY <1>3, <1>5, <1>6, <1>13 DEF t, e

LEMMA AlignDraft ==
    ASSUME NEW m \in Seq(Messages), NEW q \in Seq(Batch), NEW R \in 0..Len(q), NEW l,
           Aligned(l, m, q, R), m # <<>>, Head(m).op = "draft"
    PROVE  l = 2 /\ Aligned(1, Tail(m), q, R)
<1>1. PICK p : Places(p, l, m, q, R)
  BY DEF Aligned
<1> DEFINE N == Len(q) - R
<1>2. /\ Len(q) \in Nat /\ R \in Nat /\ N \in Nat /\ Len(m) \in Nat /\ Len(m) >= 1
      /\ Head(m) = m[1] /\ 1 \in 1..Len(m)
  OBVIOUS
<1>3. l = 2
  <2>1. CASE N = 0
    <3>1. p[1] = Len(m) + 1
      BY <1>1, <1>2, <2>1 DEF Places
    <3> QED
      BY <1>1, <1>2, <3>1 DEF Places, Aligned
  <2>2. CASE N # 0
    <3>1. 1 \in 1..N
      BY <1>2, <2>2
    <3>2. m[p[1]].op = "exec"
      BY <1>1, <3>1 DEF Places
    <3> QED
      BY <1>1, <1>2, <3>2 DEF Places, Aligned
  <2> QED
    BY <2>1, <2>2
<1> DEFINE t == Tail(m)
           z == [i \in 1..(N + 1) |-> p[i] - 1]
<1>7. Len(t) = Len(m) - 1 /\ \A i \in 1..(Len(m) - 1) : t[i] = m[i + 1]
  BY <1>2
<1>8. /\ p \in [1..(N + 1) -> Nat] /\ p[1] = 2 /\ p[N + 1] = Len(m) + 1
      /\ \A i \in 1..N : p[i] \in 1..Len(m) /\ p[i + 1] >= p[i] + 1
  <2>1. /\ p \in [1..(N + 1) -> Nat] /\ p[1] = 2 /\ p[N + 1] = Len(m) + 1
        /\ \A i \in 1..N : p[i] \in 1..Len(m)
    BY <1>1, <1>3 DEF Places
  <2>2. ASSUME NEW i \in 1..N PROVE p[i + 1] >= p[i] + 1
    <3>1. p[i] \in Nat /\ p[i + 1] = p[i] + (IF q[R + i].fetch THEN 2 ELSE 1)
      BY <1>1, <1>2, <2>1 DEF Places
    <3> QED
      BY <3>1
  <2> QED
    BY <2>1, <2>2
<1>9. \A i \in 1..(N + 1) : p[i] >= 2
  <2> DEFINE T == {i \in 1..(N + 1) : ~(p[i] >= 2)}
  <2> SUFFICES ASSUME T # {} PROVE FALSE
    OBVIOUS
  <2>0. T \in SUBSET Nat
    OBVIOUS
  <2>1. PICK i \in T : \A y \in T : i <= y
    BY <2>0, NatMin
  <2>2. i # 1
    BY <1>8, <2>1
  <2>3. i - 1 \in 1..N /\ i - 1 \in 1..(N + 1) /\ (i - 1) + 1 = i
    BY <1>2, <2>1, <2>2
  <2>4. p[i - 1] >= 2
    BY <2>1, <2>3
  <2>5. p[i] \in Nat /\ p[i - 1] \in Nat /\ p[i] >= p[i - 1] + 1
    BY <1>8, <2>1, <2>3
  <2> QED
    BY <2>1, <2>4, <2>5
<1>10. ASSUME NEW i \in 1..N
      PROVE  /\ z[i] \in 1..Len(t) /\ t[z[i]].op = "exec" /\ t[z[i]].batch = q[R + i]
             /\ q[R + i].fetch => z[i] + 1 \in 1..Len(t) /\ t[z[i] + 1].op = "draft"
             /\ z[i + 1] = z[i] + (IF q[R + i].fetch THEN 2 ELSE 1)
  <2>1. i \in 1..(N + 1) /\ i + 1 \in 1..(N + 1)
    BY <1>2
  <2>2. PICK u : u = p[i]
    OBVIOUS
  <2>3. /\ u \in 1..Len(m) /\ m[u].op = "exec" /\ m[u].batch = q[R + i]
        /\ q[R + i].fetch => u + 1 \in 1..Len(m) /\ m[u + 1].op = "draft"
        /\ p[i + 1] = u + (IF q[R + i].fetch THEN 2 ELSE 1)
    BY <1>1, <2>2 DEF Places
  <2>4. u >= 2 /\ u \in Nat
    <3>1. u >= 2
      BY <1>9, <2>1, <2>2
    <3>2. u \in Nat
      BY <1>2, <2>3
    <3> QED
      BY <3>1, <3>2
  <2>5. z[i] = u - 1 /\ z[i + 1] = p[i + 1] - 1
    BY <2>1, <2>2
  <2>6. u - 1 \in 1..Len(t) /\ t[u - 1] = m[u]
    BY <1>2, <1>7, <2>3, <2>4
  <2>7. q[R + i].fetch => (u - 1) + 1 \in 1..Len(t) /\ t[(u - 1) + 1] = m[u + 1]
    BY <1>2, <1>7, <2>3, <2>4
  <2>8. z[i + 1] = z[i] + (IF q[R + i].fetch THEN 2 ELSE 1)
    <3>1. PICK x : x = IF q[R + i].fetch THEN 2 ELSE 1
      OBVIOUS
    <3>2. x \in Nat /\ p[i + 1] = u + x
      BY <2>3, <3>1
    <3>3. (u + x) - 1 = (u - 1) + x
      BY <2>4, <3>2
    <3> QED
      BY <2>5, <3>1, <3>2, <3>3
  <2> QED
    BY <2>3, <2>5, <2>6, <2>7, <2>8
<1>11. z \in [1..(N + 1) -> Nat] /\ z[1] = 1 /\ z[N + 1] = Len(t) + 1
  <2>1. \A i \in 1..(N + 1) : p[i] - 1 \in Nat
    <3> TAKE i \in 1..(N + 1)
    <3>1. p[i] \in Nat /\ p[i] >= 2
      BY <1>8, <1>9
    <3> QED
      BY <3>1
  <2>2. z \in [1..(N + 1) -> Nat]
    BY <2>1
  <2>3. z[1] = p[1] - 1 /\ z[N + 1] = p[N + 1] - 1
    BY <1>2
  <2> QED
    BY <1>2, <1>7, <1>8, <2>2, <2>3
<1> HIDE DEF z, t
<1>12. Places(z, 1, t, q, R)
  BY <1>10, <1>11 DEF Places
<1>13. Aligned(1, t, q, R)
  BY <1>12 DEF Aligned
<1> QED
  BY <1>3, <1>13 DEF t

LEMMA AlignPop ==
    ASSUME NEW m \in Seq(Messages), NEW q \in Seq(Batch), NEW R \in 1..Len(q), NEW l,
           Aligned(l, m, q, R)
    PROVE  Aligned(l, m, Tail(q), R - 1)
<1>1. PICK p : Places(p, l, m, q, R)
  BY DEF Aligned
<1>2. /\ Len(q) \in Nat /\ Len(Tail(q)) = Len(q) - 1
      /\ \A i \in 1..(Len(q) - 1) : Tail(q)[i] = q[i + 1]
  OBVIOUS
<1>3. Len(Tail(q)) - (R - 1) = Len(q) - R
  BY <1>2
<1>4. \A i \in 1..(Len(q) - R) : Tail(q)[(R - 1) + i] = q[R + i]
  <2> TAKE i \in 1..(Len(q) - R)
  <2>1. (R - 1) + i \in 1..(Len(q) - 1) /\ ((R - 1) + i) + 1 = R + i
    BY <1>2
  <2> QED
    BY <1>2, <2>1
<1>5. PICK t : t = Tail(q)
  OBVIOUS
<1>6. Places(p, l, m, t, R - 1)
  BY <1>1, <1>3, <1>4, <1>5 DEF Places
<1> QED
  BY <1>5, <1>6 DEF Aligned

\* A batch is issued to the last rank.
LEMMA LastCalls ==
    ASSUME NEW m \in Seq(Messages), NEW b \in Batch
    PROVE  LET t == m \o Calls(PP, b)
               e == IF b.fetch THEN 2 ELSE 1 IN
           /\ t \in Seq(Messages) /\ Len(t) = Len(m) + e
           /\ \A i \in 1..Len(m) : t[i] = m[i]
           /\ t[Len(m) + 1].op = "exec" /\ t[Len(m) + 1].batch = b
           /\ b.fetch => t[Len(m) + 2].op = "draft"
<1>1. /\ [op |-> "exec", batch |-> b] \in Messages
      /\ [op |-> "draft", batch |-> NoBatch] \in Messages
  BY ConstantSched DEF Messages
<1>2. PICK x, d : x = [op |-> "exec", batch |-> b] /\ d = [op |-> "draft", batch |-> NoBatch]
  OBVIOUS
<1>3. /\ x \in Messages /\ d \in Messages /\ x.op = "exec" /\ x.batch = b
      /\ d.op = "draft"
  BY <1>1, <1>2
<1>4. CASE b.fetch
  <2>1. Calls(PP, b) = <<x>> \o <<d>>
    BY <1>2, <1>4 DEF Calls
  <2>2. PICK c : c = <<x>> \o <<d>>
    OBVIOUS
  <2>3. c \in Seq(Messages) /\ Len(c) = 2 /\ c[1] = x /\ c[2] = d
    BY <1>3, <2>2
  <2>4. LET t == m \o c IN
        /\ t \in Seq(Messages) /\ Len(t) = Len(m) + 2
        /\ \A i \in 1..Len(m) : t[i] = m[i]
        /\ t[Len(m) + 1] = x /\ t[Len(m) + 2] = d
    <3>1. PICK t : t = m \o c
      OBVIOUS
    <3>2. /\ m \o c \in Seq(Messages)
          /\ Len(m \o c) = Len(m) + Len(c)
          /\ \A i \in 1..(Len(m) + Len(c)) :
                (m \o c)[i] = IF i <= Len(m) THEN m[i] ELSE c[i - Len(m)]
      BY <2>3, ConcatProperties, Zenon
    <3>3. Len(m) \in Nat
      OBVIOUS
    <3>4. /\ t \in Seq(Messages) /\ Len(t) = Len(m) + 2
          /\ \A i \in 1..(Len(m) + 2) : t[i] = IF i <= Len(m) THEN m[i] ELSE c[i - Len(m)]
      BY <2>3, <3>1, <3>2
    <3>5. /\ \A i \in 1..Len(m) : t[i] = m[i]
          /\ t[Len(m) + 1] = c[1] /\ t[Len(m) + 2] = c[2]
      BY <3>3, <3>4
    <3> QED
      BY <2>3, <3>1, <3>4, <3>5
  <2> QED
    BY <1>3, <1>4, <2>1, <2>2, <2>4
<1>5. CASE ~b.fetch
  <2>1. Calls(PP, b) = <<x>> \o <<>>
    BY <1>2, <1>5 DEF Calls
  <2>2. m \o Calls(PP, b) = Append(m, x)
    BY <1>3, <2>1
  <2>3. PICK t : t = Append(m, x)
    OBVIOUS
  <2>4. /\ t \in Seq(Messages) /\ Len(t) = Len(m) + 1
        /\ \A i \in 1..Len(m) : t[i] = m[i]
        /\ t[Len(m) + 1] = x
    BY <1>3, <2>3
  <2> QED
    BY <1>3, <1>5, <2>2, <2>3, <2>4
<1> QED
  BY <1>4, <1>5

LEMMA AlignIssue ==
    ASSUME NEW m \in Seq(Messages), NEW q \in Seq(Batch), NEW R \in 0..Len(q), NEW l,
           Aligned(l, m, q, R), NEW b \in Batch
    PROVE  Aligned(l, m \o Calls(PP, b), Append(q, b), R)
<1>1. PICK p : Places(p, l, m, q, R)
  BY DEF Aligned
<1>2. PICK t, s, N, e : /\ t = m \o Calls(PP, b) /\ s = Append(q, b) /\ N = Len(q) - R
                        /\ e = IF b.fetch THEN 2 ELSE 1
  OBVIOUS
<1>3. /\ t \in Seq(Messages) /\ Len(t) = Len(m) + e /\ e \in {1, 2}
      /\ \A i \in 1..Len(m) : t[i] = m[i]
      /\ t[Len(m) + 1].op = "exec" /\ t[Len(m) + 1].batch = b
      /\ b.fetch => t[Len(m) + 2].op = "draft"
  BY <1>2, LastCalls
<1>4. /\ Len(q) \in Nat /\ R \in Nat /\ N \in Nat /\ Len(m) \in Nat
      /\ Len(s) = Len(q) + 1 /\ Len(s) - R = N + 1 /\ R + (N + 1) = Len(q) + 1
      /\ \A i \in 1..Len(q) : s[i] = q[i]
      /\ s[Len(q) + 1] = b
  BY <1>2
<1>5. /\ p \in [1..(N + 1) -> Nat] /\ p[1] = l /\ p[N + 1] = Len(m) + 1
      /\ l = 2 => m # <<>> /\ m[1].op = "draft"
      /\ \A i \in 1..N :
          /\ p[i] \in 1..Len(m) /\ m[p[i]].op = "exec" /\ m[p[i]].batch = q[R + i]
          /\ q[R + i].fetch => p[i] + 1 \in 1..Len(m) /\ m[p[i] + 1].op = "draft"
          /\ p[i + 1] = p[i] + (IF q[R + i].fetch THEN 2 ELSE 1)
  BY <1>1, <1>2 DEF Places
<1>6. PICK z : z = [i \in 1..(N + 2) |-> IF i = N + 2 THEN Len(t) + 1 ELSE p[i]]
  OBVIOUS
<1>7. \A i \in 1..(N + 1) : z[i] = p[i] /\ i \in 1..(N + 2)
  BY <1>4, <1>6
<1>8. z \in [1..((N + 1) + 1) -> Nat] /\ z[1] = l /\ z[(N + 1) + 1] = Len(t) + 1
  BY <1>3, <1>4, <1>5, <1>6, SMTT(30)
<1>9. l = 2 => t # <<>> /\ t[1].op = "draft"
  <2>1. m # <<>> => 1 \in 1..Len(m)
    BY <1>4
  <2>2. m # <<>> => t[1] = m[1] /\ Len(t) > 0
    BY <1>3, <1>4, <2>1
  <2> QED
    BY <1>3, <1>5, <2>2
<1>10. ASSUME NEW i \in 1..(N + 1)
      PROVE  /\ z[i] \in 1..Len(t) /\ t[z[i]].op = "exec" /\ t[z[i]].batch = s[R + i]
             /\ s[R + i].fetch => z[i] + 1 \in 1..Len(t) /\ t[z[i] + 1].op = "draft"
             /\ z[i + 1] = z[i] + (IF s[R + i].fetch THEN 2 ELSE 1)
  <2>1. CASE i \in 1..N
    <3>1. R + i \in 1..Len(q) /\ s[R + i] = q[R + i] /\ i + 1 \in 1..(N + 1)
      BY <1>2, <1>4, <2>1
    <3>2. z[i] = p[i] /\ z[i + 1] = p[i + 1]
      BY <1>7, <3>1
    <3>3. PICK u : u = p[i]
      OBVIOUS
    <3>4. u \in 1..Len(m) /\ t[u] = m[u] /\ u \in 1..Len(t)
      <4>1. u \in 1..Len(m)
        BY <1>5, <2>1, <3>3
      <4>2. Len(t) \in Nat /\ Len(m) <= Len(t)
        BY <1>3, <1>4
      <4> QED
        BY <1>3, <1>4, <4>1, <4>2
    <3>5. q[R + i].fetch => u + 1 \in 1..Len(m) /\ u + 1 \in 1..Len(t) /\ t[u + 1] = m[u + 1]
      <4>1. q[R + i].fetch => u + 1 \in 1..Len(m)
        BY <1>5, <2>1, <3>3
      <4>2. u + 1 \in 1..Len(m) => u + 1 \in 1..Len(t) /\ t[u + 1] = m[u + 1]
        BY <1>3, <1>4
      <4> QED
        BY <4>1, <4>2
    <3> QED
      BY <1>5, <2>1, <3>1, <3>2, <3>3, <3>4, <3>5, SMTT(30)
  <2>2. CASE i = N + 1
    <3>1. s[R + i] = b /\ z[i] = Len(m) + 1 /\ z[i + 1] = Len(m) + e + 1
      BY <1>3, <1>4, <1>5, <1>6, <1>7, <2>2
    <3>2. Len(m) + 1 \in 1..Len(t) /\ (e = 2 => (Len(m) + 1) + 1 \in 1..Len(t))
          /\ (Len(m) + 1) + 1 = Len(m) + 2
      BY <1>3, <1>4
    <3>3. t[z[i]].op = "exec" /\ t[z[i]].batch = s[R + i] /\ z[i] \in 1..Len(t)
      BY <1>3, <3>1, <3>2
    <3>4. b.fetch => e = 2 /\ t[(Len(m) + 1) + 1].op = "draft"
      BY <1>2, <1>3, <3>2
    <3>5. s[R + i].fetch => z[i] + 1 \in 1..Len(t) /\ t[z[i] + 1].op = "draft"
      BY <3>1, <3>2, <3>4
    <3>6. z[i + 1] = z[i] + e /\ e = IF s[R + i].fetch THEN 2 ELSE 1
      BY <1>2, <1>3, <1>4, <3>1
    <3> QED
      BY <3>3, <3>5, <3>6
  <2> QED
    BY <1>4, <2>1, <2>2
<1>11. Places(z, l, t, s, R)
  BY <1>4, <1>8, <1>9, <1>10 DEF Places
<1> QED
  BY <1>2, <1>11 DEF Aligned
\* A result answers its batch: nothing for a request that is not in it, and at
\* most a token after each draft.
ResultInv ==
    \A i \in 1..Len(results), r \in Req :
        LET e == queue[i].sched[r]
            g == results[i][r]
        IN  /\ e.kind = "none" => g = <<>>
            /\ g # <<>> => Len(g) <= (IF e.kind = "cached" THEN e.k + 1 ELSE 1)

AlignInv ==
    /\ Len(results) <= Len(queue)
    /\ \E l : Aligned(l, rpc[PP], queue, Len(results))
    /\ ResultInv

LEMMA AlignInit == Init => AlignInv
<1> SUFFICES ASSUME Init PROVE AlignInv
  OBVIOUS
<1>1. PP \in Rank
  BY ConstantTypes DEF Rank
<1>2. queue = <<>> /\ results = <<>> /\ rpc[PP] = <<>> /\ Len(queue) = 0 /\ Len(results) = 0
  BY <1>1 DEF Init
<1>3. PICK p, q : p = [i \in 1..1 |-> 1] /\ q = <<>>
  OBVIOUS
<1>4. Places(p, 1, q, q, 0)
  <2>1. Len(q) = 0 /\ 1..0 = {} /\ p \in [1..1 -> Nat] /\ p[1] = 1
    BY <1>3
  <2> QED
    BY <2>1 DEF Places
<1>5. Aligned(1, rpc[PP], queue, Len(results))
  BY <1>2, <1>3, <1>4 DEF Aligned
<1>6. ResultInv
  BY <1>2 DEF ResultInv
<1> QED
  BY <1>2, <1>5, <1>6 DEF AlignInv

LEMMA AlignSame ==
    ASSUME AlignInv, UNCHANGED <<queue, results>>, rpc'[PP] = rpc[PP]
    PROVE  AlignInv'
BY DEF AlignInv, ResultInv

LEMMA SampleType ==
    ASSUME NEW gen \in [Req -> Generated]
    PROVE  gen \in [Req -> Seq(Token)]
<1>1. ASSUME NEW x \in Generated PROVE x \in Seq(Token)
  <2>1. PICK m \in 0..(NumSpec + 1) : x \in [1..m -> Token]
    BY DEF Generated
  <2> QED
    BY <2>1, ConstantTypes, SeqDef
<1> QED
  BY <1>1

\* What the sampler may answer for a batch.
LEMMA SampleBound ==
    ASSUME TypeInv, NEW gen \in [Req -> Generated], MaySample(gen), rpc[PP] # <<>>,
           NEW r \in Req
    PROVE  LET e == Head(rpc[PP]).batch.sched[r] IN
           /\ e.kind = "none" => gen[r] = <<>>
           /\ gen[r] # <<>> => Len(gen[r]) <= (IF e.kind = "cached" THEN e.k + 1 ELSE 1)
           /\ gen[r] # <<>> => e.start + e.n >= Prompt[r] + Len(NextHist(PP, r, e))
           /\ e.kind # "none" /\ gen[r] = <<>> =>
                 e.start + e.n < Prompt[r] + Len(NextHist(PP, r, e))
<1>0. PP \in Rank
  BY ConstantTypes DEF Rank
<1> DEFINE b == Head(rpc[PP]).batch
           e == b.sched[r]
           c == IF e.kind = "cached" THEN e.k + 1 ELSE 1
           h == Prompt[r] + Len(NextHist(PP, r, e))
<1>1. e \in Entry
  <2>1. \A q \in Req : b.sched[q] \in Entry
    BY <1>0, Handled
  <2> QED
    BY <2>1
<1>2. c \in Nat /\ e.start \in Int /\ e.n \in Int
  <2> HIDE DEF e
  <2> QED
    BY <1>1 DEF Entry
<1>3. h \in Int
  <2>1. NextHist(PP, r, e) \in Seq(Token)
    BY <1>0, <1>1, HistType
  <2> QED
    BY <2>1, ConstantTypes
<1>4. CASE e.kind = "none"
  <2>1. gen[r] \in {<<>>}
    BY <1>4 DEF MaySample, Scheduled
  <2> QED
    BY <1>4, <2>1
<1>5. CASE e.kind # "none" /\ e.start + e.n < h
  <2>1. gen[r] \in Samples(r, e)
    BY <1>5 DEF MaySample, Scheduled
  <2>2. gen[r] = <<>>
    BY <1>5, <2>1 DEF Samples
  <2> QED
    BY <1>5, <2>2
<1>6. CASE e.kind # "none" /\ ~(e.start + e.n < h)
  <2>1. gen[r] \in Samples(r, e)
    BY <1>6 DEF MaySample, Scheduled
  <2>2. PICK m \in 1..c : gen[r] \in [1..m -> Token]
    BY <1>6, <2>1 DEF Samples
  <2>3. Len(gen[r]) = m /\ m \in Nat /\ m >= 1 /\ m <= c
    BY <1>2, <2>2
  <2>4. gen[r] # <<>>
    <3>1. Len(<<>>) = 0
      OBVIOUS
    <3> QED
      BY <2>3, <3>1
  <2>5. e.start + e.n >= h
    BY <1>2, <1>3, <1>6, SMTT(30)
  <2> QED
    BY <1>6, <2>3, <2>4, <2>5
<1> QED
  BY <1>4, <1>5, <1>6

LEMMA AlignSample ==
    ASSUME SchedInv, AlignInv, NEW gen \in [Req -> Generated],
           NEW d \in [Req -> 0..NumSpec], AtExec(PP), MaySample(gen), RankSample(gen, d)
    PROVE  /\ AlignInv'
           /\ Len(results) + 1 \in 1..Len(queue)
           /\ Head(rpc[PP]).batch = queue[Len(results) + 1]
           /\ results' = Append(results, gen) /\ UNCHANGED queue
           /\ Aligned(1, rpc[PP], queue, Len(results))
           /\ Aligned(IF queue[Len(results) + 1].fetch THEN 2 ELSE 1, rpc'[PP], queue,
                      Len(results) + 1)
<1>0. TypeInv /\ PP \in Rank
  BY ConstantTypes DEF SchedInv, Rank
<1>1. /\ rpc[PP] \in Seq(Messages) /\ queue \in Seq(Batch)
      /\ results \in Seq([Req -> Seq(Token)]) /\ rpc \in [Rank -> Seq(Messages)]
      /\ rpc[PP] # <<>> /\ Head(rpc[PP]).op = "exec"
  BY <1>0 DEF TypeInv, RankTypes, EngineTypes, AtExec
<1>2. PICK m, R : m = rpc[PP] /\ R = Len(results)
  OBVIOUS
<1>3. R \in 0..Len(queue) /\ m \in Seq(Messages) /\ m # <<>> /\ Head(m).op = "exec"
  BY <1>1, <1>2 DEF AlignInv
<1>4. PICK l : Aligned(l, m, queue, R)
  BY <1>2 DEF AlignInv
<1>5. /\ R + 1 \in 1..Len(queue) /\ Head(m).batch = queue[R + 1] /\ l = 1
      /\ Aligned(IF queue[R + 1].fetch THEN 2 ELSE 1, Tail(m), queue, R + 1)
  BY <1>1, <1>3, <1>4, AlignExec
<1>6. results' = Append(results, gen) /\ UNCHANGED queue /\ rpc'[PP] = Tail(m)
  BY <1>0, <1>1, <1>2 DEF RankSample, PassOn, engVars
<1>7. /\ Len(results') = R + 1 /\ results'[R + 1] = gen
      /\ \A i \in 1..R : results'[i] = results[i]
  <2>1. gen \in [Req -> Seq(Token)]
    BY SampleType
  <2> QED
    BY <1>1, <1>2, <1>6, <2>1
<1>8. ResultInv'
  <2> SUFFICES ASSUME NEW i \in 1..Len(results'), NEW r \in Req
               PROVE  LET e == queue[i].sched[r]
                          g == results'[i][r]
                      IN  /\ e.kind = "none" => g = <<>>
                          /\ g # <<>> => Len(g) <= (IF e.kind = "cached" THEN e.k + 1 ELSE 1)
    BY <1>6 DEF ResultInv
  <2>1. CASE i \in 1..R
    BY <1>2, <1>7, <2>1 DEF AlignInv, ResultInv
  <2>2. CASE i = R + 1
    <3>1. results'[i][r] = gen[r] /\ queue[i].sched[r] = Head(rpc[PP]).batch.sched[r]
      BY <1>2, <1>5, <1>7, <2>2
    <3> QED
      BY <1>0, <1>1, <3>1, SampleBound
  <2> QED
    BY <1>3, <1>7, <2>1, <2>2
<1>9. AlignInv'
  <2>1. Len(results') <= Len(queue') /\ Aligned(IF queue[R + 1].fetch THEN 2 ELSE 1, rpc'[PP], queue', Len(results'))
    BY <1>1, <1>5, <1>6, <1>7
  <2> QED
    BY <1>8, <2>1 DEF AlignInv
<1> QED
  BY <1>2, <1>4, <1>5, <1>6, <1>9

LEMMA AlignTakeDrafts ==
    ASSUME SchedInv, AlignInv, RankTakeDrafts
    PROVE  /\ AlignInv' /\ UNCHANGED <<queue, results>>
           /\ Aligned(2, rpc[PP], queue, Len(results))
           /\ Aligned(1, rpc'[PP], queue, Len(results))
<1>0. TypeInv /\ PP \in Rank
  BY ConstantTypes DEF SchedInv, Rank
<1>1. /\ rpc[PP] \in Seq(Messages) /\ queue \in Seq(Batch) /\ rpc \in [Rank -> Seq(Messages)]
      /\ rpc[PP] # <<>> /\ Head(rpc[PP]).op = "draft" /\ UNCHANGED <<queue, results>>
      /\ results \in Seq([Req -> Seq(Token)]) /\ rpc'[PP] = Tail(rpc[PP])
  BY <1>0 DEF RankTakeDrafts, TypeInv, RankTypes, EngineTypes
<1>2. Len(results) \in 0..Len(queue)
  BY <1>1 DEF AlignInv
<1>3. PICK l : Aligned(l, rpc[PP], queue, Len(results))
  BY DEF AlignInv
<1>4. l = 2 /\ Aligned(1, Tail(rpc[PP]), queue, Len(results))
  BY <1>1, <1>2, <1>3, AlignDraft
<1>5. AlignInv'
  <2>1. Len(results') <= Len(queue') /\ Aligned(1, rpc'[PP], queue', Len(results'))
    BY <1>1, <1>2, <1>4
  <2>2. ResultInv'
    BY <1>1 DEF AlignInv, ResultInv
  <2> QED
    BY <2>1, <2>2 DEF AlignInv
<1> QED
  BY <1>1, <1>3, <1>4, <1>5

LEMMA AlignIssued ==
    ASSUME SchedInv, AlignInv, Issue
    PROVE  AlignInv' /\ \A l : Aligned(l, rpc[PP], queue, Len(results))
                               => Aligned(l, rpc'[PP], queue', Len(results'))
<1>0. TypeInv /\ PP \in Rank
  BY ConstantTypes DEF SchedInv, Rank
<1>1. PICK b \in Batch : IssuedBatch(b)
  BY IssueBatch
<1>2. /\ rpc[PP] \in Seq(Messages) /\ queue \in Seq(Batch)
      /\ results \in Seq([Req -> Seq(Token)]) /\ UNCHANGED results
      /\ rpc'[PP] = rpc[PP] \o Calls(PP, b) /\ queue' = Append(queue, b)
  BY <1>0, <1>1 DEF Issue, IssuedBatch, TypeInv, RankTypes, EngineTypes
<1>3. Len(results) \in 0..Len(queue) /\ Len(results') <= Len(queue')
  BY <1>2 DEF AlignInv
<1>4. ASSUME NEW l, Aligned(l, rpc[PP], queue, Len(results))
      PROVE  Aligned(l, rpc'[PP], queue', Len(results'))
  BY <1>2, <1>3, <1>4, AlignIssue
<1>5. \A i \in 1..Len(results) : queue'[i] = queue[i]
  BY <1>2, <1>3
<1>6. ResultInv'
  BY <1>2, <1>5 DEF AlignInv, ResultInv
<1> QED
  BY <1>3, <1>4, <1>6 DEF AlignInv

LEMMA AlignUpdate ==
    ASSUME SchedInv, AlignInv, UpdateFromOutput
    PROVE  AlignInv' /\ \A l : Aligned(l, rpc[PP], queue, Len(results))
                               => Aligned(l, rpc'[PP], queue', Len(results'))
<1>0. TypeInv /\ PP \in Rank
  BY ConstantTypes DEF SchedInv, Rank
<1>2. /\ rpc[PP] \in Seq(Messages) /\ queue \in Seq(Batch) /\ queue # <<>>
      /\ results \in Seq([Req -> Seq(Token)]) /\ results # <<>>
      /\ results' = Tail(results) /\ queue' = Tail(queue) /\ UNCHANGED rpc
  BY <1>0 DEF UpdateFromOutput, TypeInv, RankTypes, EngineTypes
<1>3. /\ Len(results) \in 1..Len(queue) /\ Len(results') <= Len(queue')
      /\ Len(results') = Len(results) - 1
      /\ \A i \in 1..Len(results') : /\ queue'[i] = queue[i + 1]
                                     /\ results'[i] = results[i + 1]
                                     /\ i + 1 \in 1..Len(results)
  BY <1>2 DEF AlignInv
<1>4. ASSUME NEW l, Aligned(l, rpc[PP], queue, Len(results))
      PROVE  Aligned(l, rpc'[PP], queue', Len(results'))
  BY <1>2, <1>3, <1>4, AlignPop
<1>6. ResultInv'
  <2> SUFFICES ASSUME NEW i \in 1..Len(results'), NEW r \in Req, NEW e, NEW g,
                      e = queue[i + 1].sched[r], g = results[i + 1][r]
               PROVE  /\ e.kind = "none" => g = <<>>
                      /\ g # <<>> => Len(g) <= (IF e.kind = "cached" THEN e.k + 1 ELSE 1)
    BY <1>3 DEF ResultInv
  <2>1. i + 1 \in 1..Len(results) /\ ResultInv
    BY <1>3 DEF AlignInv
  <2> QED
    BY <2>1 DEF ResultInv
<1> QED
  BY <1>3, <1>4, <1>6 DEF AlignInv

LEMMA AlignNext == SchedInv /\ AlignInv /\ [Next]_vars => AlignInv'
<1> SUFFICES ASSUME SchedInv, AlignInv, [Next]_vars PROVE AlignInv'
  OBVIOUS
<1>0. TypeInv /\ PP \in Rank /\ rpc \in [Rank -> Seq(Messages)]
  BY ConstantTypes DEF SchedInv, Rank, TypeInv, RankTypes
<1>1. ASSUME UNCHANGED <<queue, results, rpc>> PROVE AlignInv'
  BY <1>1, AlignSame
<1>2. CASE UNCHANGED vars
  BY <1>1, <1>2 DEF vars, engVars
<1>3. CASE Schedule
  BY <1>1, <1>3, AlignIssued, ZenonT(30)
     DEF Schedule, StartStep, EndRunning, EndWaiting, SkipRunning, ScheduleRunning,
         SkipWaiting, Admit, PreemptLast
<1>4. CASE Process
  BY <1>1, <1>4, AlignUpdate DEF Process, AwaitResult, UpdateDrafts
<1>5. CASE Ranks
  <2>1. ASSUME NEW k \in Rank, RankExecute(k) PROVE AlignInv'
    <3>1. k # PP /\ UNCHANGED <<queue, results>>
      BY <2>1, ConstantTypes DEF RankExecute, engVars, Rank
    <3>2. rpc'[PP] = rpc[PP]
      BY <1>0, <2>1, <3>1 DEF RankExecute, PassOn
    <3> QED
      BY <3>1, <3>2, AlignSame
  <2> QED
    BY <1>5, <2>1, AlignSample, AlignTakeDrafts DEF Ranks, LastRank
<1>6. CASE Clients
  BY <1>1, <1>6 DEF Clients, ResetPrefixCache, AddRequest, Abort, engVars
<1> QED
  BY <1>2, <1>3, <1>4, <1>5, <1>6 DEF Next
-----------------------------------------------------------------------------
(***************************************************************************)
(* KV blocks.  While a step is scheduled, the blocks taken for it already  *)
(* cover the positions that its end will add to num_computed_tokens; what  *)
(* was scheduled is not preempted again in the same call, because it sits  *)
(* before the position the loop is at and the victim is the last request.  *)
(***************************************************************************)
BlocksInv ==
    /\ blocks \in [Req -> Int] /\ free \in Int
    /\ free + Total(blocks, Req) = NumBlocks
    /\ \A r \in Req : /\ status[r] # "running" => blocks[r] = 0
                      /\ computed[r] <= blocks[r] * BlockSize

PlacedInv ==
    \A r \in Scheduled(cur.batch) :
        /\ status[r] = "running"
        /\ cur.batch[r].start = computed[r]
        /\ computed[r] + cur.batch[r].n <= blocks[r] * BlockSize
        /\ pc = "running" => \E i \in 1..Len(running) : i < cur.idx /\ running[i] = r

LEMMA ReqFinite == IsFiniteSet(Req) /\ Req \in SUBSET Req
BY ConstantsAssumption

\* Blocks for n tokens hold any m <= n tokens that the model can hold, and so do
\* more blocks.
LEMMA BlocksSuffice ==
    ASSUME NEW n \in Int, NEW m \in Int, m <= n, m <= MaxModelLen
    PROVE  /\ BlocksFor(n) \in Int
           /\ \A c \in Int : c >= BlocksFor(n) => m <= c * BlockSize
<1>1. BlockSize \in Nat /\ BlockSize > 0 /\ MaxModelLen \in Nat
  BY ConstantsAssumption
<1>2. \A a \in Int : a \div BlockSize \in Int /\ a < (a \div BlockSize) * BlockSize + BlockSize
  BY <1>1
<1>3. PICK x : x = Min(n, MaxModelLen)
  OBVIOUS
<1>4. x \in Int /\ m <= x
  BY <1>1, <1>3 DEF Min
<1>5. PICK a : a = x + BlockSize - 1
  OBVIOUS
<1>6. a \in Int /\ BlocksFor(n) = a \div BlockSize
  BY <1>1, <1>3, <1>4, <1>5 DEF BlocksFor
<1>7. PICK d : d = a \div BlockSize
  OBVIOUS
<1>8. d \in Int /\ a < d * BlockSize + BlockSize
  BY <1>2, <1>6, <1>7
<1>9. d * BlockSize \in Int
  BY <1>1, <1>8
<1>10. m <= d * BlockSize
  BY <1>1, <1>4, <1>5, <1>8, <1>9
<1>11. ASSUME NEW c \in Int, c >= d PROVE m <= c * BlockSize
  <2>1. c * BlockSize \in Int /\ c * BlockSize >= d * BlockSize
    BY <1>1, <1>8, <1>11
  <2> QED
    BY <1>9, <1>10, <2>1
<1> QED
  BY <1>6, <1>7, <1>8, <1>11

\* A request's blocks change by d.
LEMMA BlocksAdd ==
    ASSUME NEW f \in [Req -> Int], NEW r \in Req, NEW v \in Int,
           NEW e, e = [f EXCEPT ![r] = v]
    PROVE  e \in [Req -> Int] /\ Total(e, Req) = Total(f, Req) - f[r] + v
                              /\ Total(f, Req) \in Int
<1>1. PICK S : S = Req \ {r}
  OBVIOUS
<1>2. /\ e \in [Req -> Int] /\ e[r] = v /\ f[r] \in Int
      /\ (\A x \in Req : f[x] \in Int /\ e[x] \in Int)
      /\ \A x \in S : e[x] = f[x]
  BY <1>1
<1>3. IsFiniteSet(S)
  <2>1. S \in SUBSET Req
    BY <1>1
  <2> QED
    BY <2>1, ReqFinite, FS_Subset
<1>4. Total(e, Req) = v + Total(e, S) /\ Total(f, Req) = f[r] + Total(f, S)
  <2>1. \A x \in Req : e[x] \in Int
    BY <1>2
  <2>2. Total(e, Req) = e[r] + Total(e, Req \ {r})
    BY <2>1, ReqFinite, TotalRemove
  <2>3. \A x \in Req : f[x] \in Int
    BY <1>2
  <2>4. Total(f, Req) = f[r] + Total(f, Req \ {r})
    BY <2>3, ReqFinite, TotalRemove
  <2> QED
    BY <1>1, <1>2, <2>2, <2>4
<1>5. Total(e, S) = Total(f, S)
  <2>1. PICK g, h : g = e /\ h = f
    OBVIOUS
  <2>2. \A x \in S : g[x] = h[x]
    BY <1>2, <2>1
  <2>3. Total(g, S) = Total(h, S)
    BY <1>3, <2>2, TotalEqual
  <2> QED
    BY <2>1, <2>3
<1>6. Total(f, S) \in Int
  <2>1. \A x \in S : f[x] \in Int
    BY <1>1, <1>2
  <2> QED
    BY <1>3, <2>1, TotalType
<1> QED
  BY <1>1, <1>2, <1>4, <1>5, <1>6

LEMMA BlocksOfIs == \A S : BlocksOf(S) = Total(blocks, S)
BY DEF BlocksOf, Total, FSE!MapThenSumSet, FSE!MapThenFoldSet

LEMMA BlocksInit == Init => BlocksInv /\ PlacedInv
<1> SUFFICES ASSUME Init PROVE BlocksInv /\ PlacedInv
  OBVIOUS
<1>1. /\ blocks = [r \in Req |-> 0] /\ free = NumBlocks /\ computed = [r \in Req |-> 0]
      /\ cur = NoCall /\ NumBlocks \in Nat /\ BlockSize \in Nat
  BY ConstantsAssumption DEF Init
<1>2. \A r \in Req : blocks[r] = 0 /\ computed[r] = 0
  BY <1>1
<1>3. Total(blocks, Req) = 0
  <2>1. \A x \in Req : blocks[x] \in Int /\ blocks[x] = IF x \in Req THEN 0 ELSE blocks[x]
    BY <1>2
  <2>2. Total(blocks, Req) = Total(blocks, Req) + Total(blocks, Req)
    BY <2>1, ReqFinite, TotalClear
  <2>3. Total(blocks, Req) \in Int
    <3>1. \A x \in Req : blocks[x] \in Int
      BY <2>1
    <3> QED
      BY <3>1, ReqFinite, TotalType
  <2>4. PICK t : t = Total(blocks, Req)
    OBVIOUS
  <2>5. t \in Int /\ t = t + t
    BY <2>2, <2>3, <2>4
  <2>6. t = 0
    BY <2>5
  <2> QED
    BY <2>4, <2>6
<1>4. BlocksInv
  BY <1>1, <1>2, <1>3 DEF BlocksInv
<1>5. PlacedInv
  BY <1>1, NothingScheduled DEF PlacedInv
<1> QED
  BY <1>4, <1>5

LEMMA BlocksSame ==
    ASSUME BlocksInv, UNCHANGED <<blocks, free, computed>>,
           \A r \in Req : status'[r] = status[r] \/ blocks[r] = 0
    PROVE  BlocksInv'
BY DEF BlocksInv

LEMMA PlacedSame ==
    ASSUME TypeInv, PlacedInv, UNCHANGED <<blocks, computed, status, running>>,
           cur'.batch = cur.batch,
           pc' = "running" => pc = "running" /\ cur'.idx >= cur.idx /\ cur'.idx \in Int
    PROVE  PlacedInv'
<1>1. cur.idx \in Int /\ Len(running) \in Nat
  <2>1. cur \in Call /\ running \in Seq(Req)
    BY DEF TypeInv, RequestTypes, EngineTypes
  <2> QED
    BY <2>1 DEF Call
<1>2. Scheduled(cur'.batch) = Scheduled(cur.batch)
  OBVIOUS
<1>3. ASSUME NEW r \in Scheduled(cur.batch)
      PROVE  /\ status'[r] = "running" /\ cur'.batch[r].start = computed'[r]
             /\ computed'[r] + cur'.batch[r].n <= blocks'[r] * BlockSize
             /\ pc' = "running" => \E i \in 1..Len(running') : i < cur'.idx /\ running'[i] = r
  BY <1>1 DEF PlacedInv
<1> QED
  BY <1>2, <1>3 DEF PlacedInv

LEMMA PlacedNone ==
    ASSUME cur' = NoCall \/ cur'.batch = EmptySched
    PROVE  PlacedInv'
BY NothingScheduled DEF PlacedInv

\* Freeing requests between two calls.
LEMMA BlocksFree ==
    ASSUME BlocksInv, NEW F \in SUBSET Req, FreeRequests(F), TypeInv,
           \A r \in Req : /\ r \in F => computed'[r] = 0
                          /\ r \notin F => computed'[r] <= computed[r]
                                           /\ computed'[r] \in Int
    PROVE  BlocksInv'
<1>0. /\ blocks \in [Req -> Int] /\ free \in Int /\ BlockSize \in Nat /\ NumBlocks \in Nat
      /\ free + Total(blocks, Req) = NumBlocks
      /\ computed \in [Req -> Int]
  BY ConstantsAssumption DEF BlocksInv, TypeInv, CounterTypes
<1>1. /\ blocks' \in [Req -> Int]
      /\ \A r \in Req : blocks'[r] = IF r \in F THEN 0 ELSE blocks[r]
      /\ \A r \in Req : status'[r] = IF r \in F THEN "finished" ELSE status[r]
      /\ free' = free + Total(blocks, F)
  BY <1>0, BlocksOfIs DEF FreeRequests, Forget
<1>2. Total(blocks, Req) = Total(blocks, F) + Total(blocks', Req)
  BY <1>0, <1>1, ReqFinite, TotalClear
<1>3. Total(blocks, F) \in Int /\ Total(blocks', Req) \in Int
  <2>1. (\A r \in F : blocks[r] \in Int) /\ \A r \in Req : blocks'[r] \in Int
    BY <1>0, <1>1
  <2>2. IsFiniteSet(F)
    BY ReqFinite, FS_Subset
  <2> QED
    BY <2>1, <2>2, ReqFinite, TotalType
<1>4. free' + Total(blocks', Req) = NumBlocks /\ free' \in Int
  BY <1>0, <1>1, <1>2, <1>3
<1>5. ASSUME NEW r \in Req
      PROVE  /\ status'[r] # "running" => blocks'[r] = 0
             /\ computed'[r] <= blocks'[r] * BlockSize
  <2>1. CASE r \in F
    BY <1>0, <1>1, <2>1
  <2>2. CASE r \notin F
    <3>1. /\ status[r] # "running" => blocks[r] = 0
          /\ computed[r] <= blocks[r] * BlockSize
      BY DEF BlocksInv
    <3>2. PICK x : x = blocks[r] * BlockSize
      OBVIOUS
    <3>3. x \in Int /\ computed[r] \in Int
      BY <1>0, <3>2
    <3> QED
      BY <1>1, <2>2, <3>1, <3>2, <3>3
  <2> QED
    BY <2>1, <2>2
<1> QED
  BY <1>1, <1>4, <1>5 DEF BlocksInv

LEMMA BlocksPreempt ==
    ASSUME BlocksInv, TypeInv, NEW s \in Seq(Req), NEW drop, Preempt(s, drop),
           free' = free + Total(blocks, SeqSet(s))
    PROVE  BlocksInv'
<1> DEFINE F == SeqSet(s)
<1>0. /\ blocks \in [Req -> Int] /\ free \in Int /\ BlockSize \in Nat /\ NumBlocks \in Nat
      /\ free + Total(blocks, Req) = NumBlocks /\ F \in SUBSET Req
  <2>1. F \in SUBSET Req
    BY DEF SeqSet
  <2> HIDE DEF F
  <2> QED
    BY <2>1, ConstantsAssumption DEF BlocksInv
<1>1. /\ blocks' \in [Req -> Int]
      /\ \A r \in Req : blocks'[r] = IF r \in F THEN 0 ELSE blocks[r]
      /\ \A r \in Req : status'[r] = IF r \in F THEN "preempted" ELSE status[r]
      /\ \A r \in Req : computed'[r] = IF r \in F THEN 0 ELSE computed[r]
  BY <1>0 DEF Preempt
<1> HIDE DEF F
<1>2. Total(blocks, Req) = Total(blocks, F) + Total(blocks', Req)
  <2>1. PICK G \in SUBSET Req : G = F
    BY <1>0
  <2>2. /\ \A r \in Req : blocks[r] \in Int
        /\ \A r \in Req : blocks'[r] = IF r \in G THEN 0 ELSE blocks[r]
    BY <1>0, <1>1, <2>1
  <2>3. Total(blocks, Req) = Total(blocks, G) + Total(blocks', Req)
    BY <2>2, ReqFinite, TotalClear
  <2> QED
    BY <2>1, <2>3
<1>3. Total(blocks, F) \in Int /\ Total(blocks', Req) \in Int
  <2>0. PICK G : G = F
    OBVIOUS
  <2>1. (\A r \in G : blocks[r] \in Int) /\ \A r \in Req : blocks'[r] \in Int
    BY <1>0, <1>1, <2>0
  <2>2. IsFiniteSet(G)
    BY <1>0, <2>0, ReqFinite, FS_Subset
  <2> QED
    BY <2>0, <2>1, <2>2, ReqFinite, TotalType
<1>4. free' + Total(blocks', Req) = NumBlocks /\ free' \in Int
  BY <1>0, <1>1, <1>2, <1>3 DEF F
<1> QED
  BY <1>0, <1>1, <1>4 DEF BlocksInv

LEMMA BlocksScheduleRunning ==
    ASSUME SchedInv, BlocksInv, PlacedInv, NEW r \in Req, ScheduleRunning(r)
    PROVE  BlocksInv' /\ PlacedInv'
<1> DEFINE n == NumNew(r)
           k == SpecScheduled(r, n)
           b == NewBlocks(r, n)
           v == blocks[r] + b
           e == Planned("cached", computed[r], n, k)
<1>0. TypeInv /\ cur \in Call /\ running \in Seq(Req)
  BY DEF SchedInv, TypeInv, RequestTypes, EngineTypes
<1>1. /\ free' = free - b /\ blocks' = [blocks EXCEPT ![r] = v]
      /\ UNCHANGED <<status, computed, running, pc>> /\ pc = "running"
      /\ cur'.batch = [cur.batch EXCEPT ![r] = e] /\ cur'.idx = cur.idx + 1
      /\ running[cur.idx] = r /\ cur.idx <= Len(running)
  BY <1>0 DEF ScheduleRunning, Schedulable, AtRunning, Call
<1>2. status[r] = "running" /\ n \in Int /\ k \in Nat
  BY <1>0, RunningPlanOK, ScheduleCounts DEF ScheduleRunning
<1>3. /\ computed[r] \in Int /\ Lookahead \in Nat /\ MaxModelLen \in Nat
      /\ computed[r] + n <= MaxModelLen
  <2>1. /\ NumTokens(r) \in Nat /\ computed[r] \in Int /\ spec[r] \in Nat
        /\ cur.budget \in Int
    BY <1>0, NextTypes
  <2>2. Lookahead \in Nat /\ MaxModelLen \in Nat
    BY ConstantTypes, ConstantsAssumption
  <2> QED
    BY <1>2, <2>1, <2>2 DEF NumNew, Min
<1>4. /\ blocks \in [Req -> Int] /\ free \in Int /\ free + Total(blocks, Req) = NumBlocks
      /\ NumBlocks \in Nat /\ BlockSize \in Nat
  BY ConstantsAssumption DEF BlocksInv
<1>5. /\ b \in Int /\ b >= 0 /\ v \in Int
      /\ computed[r] + n <= v * BlockSize
  <2>1. PICK a : a = computed[r] + n + Lookahead
    OBVIOUS
  <2>2. PICK m : m = computed[r] + n
    OBVIOUS
  <2>3. a \in Int /\ m \in Int /\ m <= a /\ m <= MaxModelLen
    BY <1>2, <1>3, <2>1, <2>2
  <2>4. /\ BlocksFor(a) \in Int
        /\ \A c \in Int : c >= BlocksFor(a) => m <= c * BlockSize
    BY <2>3, BlocksSuffice
  <2>5. b \in Int /\ b >= 0 /\ b >= BlocksFor(a) - blocks[r]
    BY <1>4, <2>1, <2>4 DEF NewBlocks, Max
  <2>6. v \in Int /\ v >= BlocksFor(a)
    BY <1>4, <2>4, <2>5
  <2> QED
    BY <2>2, <2>4, <2>5, <2>6
<1> HIDE DEF b, n, k
<1>6. /\ blocks' \in [Req -> Int] /\ Total(blocks', Req) = Total(blocks, Req) - blocks[r] + v
      /\ Total(blocks, Req) \in Int
  <2>1. PICK w \in Int : w = v
    BY <1>5
  <2>2. blocks' = [blocks EXCEPT ![r] = w]
    BY <1>1, <2>1
  <2>3. blocks' \in [Req -> Int] /\ Total(blocks', Req) = Total(blocks, Req) - blocks[r] + w
                                /\ Total(blocks, Req) \in Int
    <3>1. PICK g \in [Req -> Int] : g = blocks
      BY <1>4
    <3>2. PICK x : x = [g EXCEPT ![r] = w]
      OBVIOUS
    <3>3. x \in [Req -> Int] /\ Total(x, Req) = Total(g, Req) - g[r] + w
                            /\ Total(g, Req) \in Int
      <4>1. r \in Req /\ g \in [Req -> Int] /\ w \in Int
        BY <2>1, <3>1
      <4> QED
        BY <3>2, <4>1, BlocksAdd, ZenonT(30)
    <3>4. x = blocks'
      BY <2>2, <3>1, <3>2
    <3> QED
      BY <3>1, <3>3, <3>4
  <2> QED
    BY <2>1, <2>3
<1>7. free' + Total(blocks', Req) = NumBlocks /\ free' \in Int
  BY <1>1, <1>4, <1>5, <1>6
<1>8. /\ blocks'[r] = v /\ \A q \in Req \ {r} : blocks'[q] = blocks[q]
  BY <1>1, <1>4
<1>9. PlanOK(r, e)
  BY RunningPlanOK DEF ScheduleRunning, n, k
<1>10. e.start = computed[r] /\ e.n = n /\ e.k = k /\ e.kind = "cached"
  BY DEF Planned
<1> HIDE DEF e, v
<1>11. n > 0 /\ computed'[r] <= blocks'[r] * BlockSize
  <2>1. v * BlockSize \in Int
    BY <1>4, <1>5
  <2>2. n > 0
    BY <1>2, <1>9, <1>10 DEF PlanOK
  <2> QED
    BY <1>1, <1>2, <1>3, <1>5, <1>8, <2>1, <2>2
<1>12. BlocksInv'
  <2>1. ASSUME NEW q \in Req
        PROVE  /\ status'[q] # "running" => blocks'[q] = 0
               /\ computed'[q] <= blocks'[q] * BlockSize
    BY <1>1, <1>2, <1>8, <1>11 DEF BlocksInv
  <2> QED
    BY <1>6, <1>7, <2>1 DEF BlocksInv
<1>13. PlacedInv'
  <2>1. cur.batch \in [Req -> Entry] /\ cur.idx \in Nat \ {0}
    BY <1>0 DEF Call, Sched
  <2>2. /\ cur'.batch[r] = e /\ \A q \in Req \ {r} : cur'.batch[q] = cur.batch[q]
    BY <1>1, <2>1
  <2>3. ASSUME NEW q \in Scheduled(cur'.batch)
        PROVE  /\ status'[q] = "running"
               /\ cur'.batch[q].start = computed'[q]
               /\ computed'[q] + cur'.batch[q].n <= blocks'[q] * BlockSize
               /\ \E i \in 1..Len(running') : i < cur'.idx /\ running'[i] = q
    <3>1. CASE q = r
      BY <1>0, <1>1, <1>2, <1>5, <1>8, <1>10, <2>1, <2>2, <3>1
    <3>2. CASE q # r
      <4>1. q \in Req \ {r} /\ q \in Scheduled(cur.batch)
        BY <2>2, <3>2 DEF Scheduled
      <4>2. PICK i \in 1..Len(running) : i < cur.idx /\ running[i] = q
        BY <1>1, <4>1 DEF PlacedInv
      <4> QED
        BY <1>0, <1>1, <1>8, <2>1, <2>2, <4>1, <4>2 DEF PlacedInv
    <3> QED
      BY <3>1, <3>2
  <2> QED
    BY <2>3 DEF PlacedInv
<1> QED
  BY <1>12, <1>13

LEMMA BlocksAdmit ==
    ASSUME SchedInv, BlocksInv, PlacedInv, NEW r \in Req, Admit(r)
    PROVE  BlocksInv' /\ PlacedInv'
<1> DEFINE n == AdmitTokens(r)
           b == BlocksFor(n + Lookahead)
<1>0. TypeInv /\ cur \in Call /\ cur.batch \in [Req -> Entry]
      /\ status \in [Req -> {"unknown", "waiting", "running", "preempted", "finished"}]
      /\ computed \in [Req -> Int]
  BY DEF SchedInv, TypeInv, RequestTypes, CounterTypes, EngineTypes, Call, Sched
<1>1. PICK kind \in {"new", "resumed"}, k \in {0, NumSpec} :
        /\ cur' = [cur EXCEPT !.budget = @ - n, !.batch[r] = Planned(kind, 0, n, k)]
        /\ status[r] \in {"waiting", "preempted"}
  BY DEF Admit
<1>2. /\ free' = free - b /\ blocks' = [blocks EXCEPT ![r] = b]
      /\ computed' = [computed EXCEPT ![r] = 0]
      /\ status' = [status EXCEPT ![r] = "running"]
      /\ pc = "waiting" /\ UNCHANGED pc
  BY DEF Admit, CanAdmit, AtWaiting
<1>3. PICK e : e = Planned(kind, 0, n, k)
  OBVIOUS
<1>4. /\ cur'.batch = [cur.batch EXCEPT ![r] = e]
      /\ e.start = 0 /\ e.n = n
  BY <1>0, <1>1, <1>3 DEF Call, Planned
<1>5. n \in Int /\ n <= MaxModelLen /\ n >= 0
  <2>1. /\ NumTokens(r) \in Nat /\ cur.budget \in Int /\ cur.budget > 0
        /\ NumTokens(r) <= MaxModelLen
    BY <1>0, NextTypes DEF SchedInv, LengthInv, Admit, CanAdmit, AtWaiting
  <2> QED
    BY <2>1, ConstantTypes DEF AdmitTokens, Padded, Min
<1>6. /\ blocks \in [Req -> Int] /\ free \in Int /\ free + Total(blocks, Req) = NumBlocks
      /\ NumBlocks \in Nat /\ BlockSize \in Nat /\ blocks[r] = 0
  BY <1>1, ConstantsAssumption DEF BlocksInv
<1> HIDE DEF n
<1>7. b \in Int /\ n <= b * BlockSize
  <2>1. PICK a : a = n + Lookahead
    OBVIOUS
  <2>2. a \in Int /\ n <= a
    BY <1>5, <2>1, ConstantsAssumption
  <2>3. /\ BlocksFor(a) \in Int
        /\ \A c \in Int : c >= BlocksFor(a) => n <= c * BlockSize
    BY <1>5, <2>2, BlocksSuffice
  <2> QED
    BY <2>1, <2>3
<1> HIDE DEF b
<1>8. /\ blocks' \in [Req -> Int] /\ Total(blocks', Req) = Total(blocks, Req) - blocks[r] + b
      /\ Total(blocks, Req) \in Int
  <2>1. PICK w \in Int : w = b
    BY <1>7
  <2>2. blocks' = [blocks EXCEPT ![r] = w]
    BY <1>2, <2>1
  <2>3. blocks' \in [Req -> Int] /\ Total(blocks', Req) = Total(blocks, Req) - blocks[r] + w
                                /\ Total(blocks, Req) \in Int
    <3>1. PICK g \in [Req -> Int] : g = blocks
      BY <1>6
    <3>2. PICK x : x = [g EXCEPT ![r] = w]
      OBVIOUS
    <3>3. x \in [Req -> Int] /\ Total(x, Req) = Total(g, Req) - g[r] + w
                            /\ Total(g, Req) \in Int
      <4>1. r \in Req /\ g \in [Req -> Int] /\ w \in Int
        BY <2>1, <3>1
      <4> QED
        BY <3>2, <4>1, BlocksAdd, ZenonT(30)
    <3>4. x = blocks'
      BY <2>2, <3>1, <3>2
    <3> QED
      BY <3>1, <3>3, <3>4
  <2> QED
    BY <2>1, <2>3
<1>9. free' + Total(blocks', Req) = NumBlocks /\ free' \in Int
  BY <1>2, <1>6, <1>7, <1>8
<1>10. /\ blocks'[r] = b /\ computed'[r] = 0 /\ status'[r] = "running"
       /\ \A q \in Req \ {r} : /\ blocks'[q] = blocks[q] /\ computed'[q] = computed[q]
                                /\ status'[q] = status[q]
  BY <1>0, <1>2, <1>6
<1>11. BlocksInv'
  <2>1. ASSUME NEW q \in Req
        PROVE  /\ status'[q] # "running" => blocks'[q] = 0
               /\ computed'[q] <= blocks'[q] * BlockSize
    <3>1. b * BlockSize \in Int
      BY <1>6, <1>7
    <3>2. 0 <= b * BlockSize
      BY <1>5, <1>7, <3>1
    <3>3. CASE q = r
      BY <1>10, <3>2, <3>3
    <3>4. CASE q # r
      BY <1>10, <3>4 DEF BlocksInv
    <3> QED
      BY <3>3, <3>4
  <2> QED
    BY <1>8, <1>9, <2>1 DEF BlocksInv
<1>12. PlacedInv'
  <2>1. /\ cur'.batch[r] = e /\ \A q \in Req \ {r} : cur'.batch[q] = cur.batch[q]
    BY <1>0, <1>4
  <2>2. ASSUME NEW q \in Scheduled(cur'.batch)
        PROVE  /\ status'[q] = "running"
               /\ cur'.batch[q].start = computed'[q]
               /\ computed'[q] + cur'.batch[q].n <= blocks'[q] * BlockSize
    <3>1. CASE q = r
      BY <1>4, <1>5, <1>7, <1>10, <2>1, <3>1
    <3>2. CASE q # r
      <4>1. q \in Req \ {r} /\ q \in Scheduled(cur.batch)
        BY <2>1, <3>2 DEF Scheduled
      <4> QED
        BY <1>10, <2>1, <4>1 DEF PlacedInv
    <3> QED
      BY <3>1, <3>2
  <2>3. pc' # "running"
    BY <1>2
  <2> QED
    BY <2>2, <2>3 DEF PlacedInv
<1> QED
  BY <1>11, <1>12

LEMMA TotalOne ==
    ASSUME NEW f \in [Req -> Int], NEW z \in Req
    PROVE  Total(f, {z}) = f[z]
<1>1. PICK S : S = {z}
  OBVIOUS
<1>2. IsFiniteSet(S) /\ z \in S /\ (\A x \in S : f[x] \in Int) /\ S \ {z} = {}
  <2>1. IsFiniteSet({z})
    BY FS_Singleton
  <2> QED
    BY <1>1, <2>1
<1>3. Total(f, S) = f[z] + Total(f, S \ {z})
  BY <1>2, TotalRemove
<1>4. Total(f, S \ {z}) = 0
  BY <1>2, TotalEmpty
<1> QED
  BY <1>1, <1>2, <1>3, <1>4

LEMMA BlocksPreemptLast ==
    ASSUME SchedInv, BlocksInv, PlacedInv, NEW r \in Req, NEW victim \in Req,
           PreemptLast(r, victim)
    PROVE  BlocksInv' /\ PlacedInv'
<1>0. TypeInv /\ running \in Seq(Req) /\ cur \in Call
  BY DEF SchedInv, TypeInv, RequestTypes, EngineTypes
<1>1. /\ cur.idx \in Nat \ {0} /\ cur.idx <= Len(running) /\ Len(running) \in Nat
      /\ victim = running[Len(running)] /\ pc = "running"
      /\ running' = SubSeq(running, 1, Len(running) - 1)
      /\ cur'.batch = cur.batch /\ cur'.idx = cur.idx
      /\ Preempt(<<victim>>, FALSE) /\ free' = free + blocks[victim]
  <2>1. /\ cur.idx <= Len(running) /\ victim = running[Len(running)] /\ pc = "running"
        /\ running' = SubSeq(running, 1, Len(running) - 1)
        /\ cur' = [cur EXCEPT !.preempted = TRUE]
        /\ Preempt(<<victim>>, FALSE) /\ free' = free + blocks[victim]
    BY Zenon DEF PreemptLast, Schedulable, AtRunning
  <2>2. cur'.batch = cur.batch /\ cur'.idx = cur.idx /\ cur.idx \in Nat \ {0}
    BY <1>0, <2>1 DEF Call
  <2>3. Len(running) \in Nat
    BY <1>0
  <2> QED
    BY <2>1, <2>2, <2>3, Zenon
<1>2. PICK s : s = <<victim>>
  OBVIOUS
<1>3. s \in Seq(Req) /\ SeqSet(s) = {victim}
  BY <1>2 DEF SeqSet
<1>4. BlocksInv'
  <2>1. blocks \in [Req -> Int]
    BY DEF BlocksInv
  <2>2. Total(blocks, SeqSet(s)) = blocks[victim]
    BY <1>3, <2>1, TotalOne
  <2>3. Preempt(s, FALSE) /\ free' = free + Total(blocks, SeqSet(s))
    BY <1>1, <1>2, <2>2
  <2> QED
    BY <1>0, <1>3, <2>3, BlocksPreempt
<1>5. PlacedInv'
  <2>1. ASSUME NEW q \in Scheduled(cur.batch)
        PROVE  /\ status'[q] = "running"
               /\ cur'.batch[q].start = computed'[q]
               /\ computed'[q] + cur'.batch[q].n <= blocks'[q] * BlockSize
               /\ \E i \in 1..Len(running') : i < cur'.idx /\ running'[i] = q
    <3>1. PICK i \in 1..Len(running) : i < cur.idx /\ running[i] = q
      BY <1>1 DEF PlacedInv
    <3>2. /\ i \in 1..(Len(running) - 1) /\ i # Len(running)
          /\ Len(running') = Len(running) - 1 /\ running'[i] = running[i]
      BY <1>0, <1>1, <3>1
    <3>3. q # victim /\ q \in Req
      <4>1. DOMAIN running = 1..Len(running) /\ Len(running) \in 1..Len(running)
        BY <1>0, <1>1
      <4> QED
        BY <1>1, <3>1, <3>2, <4>1 DEF SchedInv, RunningInv, Distinct, Scheduled
    <3>4. status'[q] = status[q] /\ computed'[q] = computed[q] /\ blocks'[q] = blocks[q]
      BY <1>1, <1>2, <1>3, <3>3 DEF Preempt
    <3> QED
      BY <1>1, <3>1, <3>2, <3>4 DEF PlacedInv
  <2> QED
    BY <1>1, <2>1 DEF PlacedInv
<1> QED
  BY <1>4, <1>5

LEMMA BlocksReset ==
    ASSUME SchedInv, BlocksInv, ResetPrefixCache
    PROVE  BlocksInv' /\ PlacedInv'
<1>1. TypeInv /\ running \in Seq(Req)
  BY DEF SchedInv, TypeInv, RequestTypes
<1>2. BlocksInv'
  BY <1>1, BlocksPreempt, BlocksOfIs DEF ResetPrefixCache
<1>3. cur' = NoCall
  BY DEF ResetPrefixCache, SchedInv, CallInv
<1> QED
  BY <1>2, <1>3, PlacedNone

LEMMA BlocksAbort ==
    ASSUME SchedInv, BlocksInv, NEW r \in Req, Abort(r)
    PROVE  BlocksInv' /\ PlacedInv'
<1>1. TypeInv /\ computed \in [Req -> Int] /\ {r} \in SUBSET Req
  BY DEF SchedInv, TypeInv, CounterTypes
<1>2. FreeRequests({r}) /\ cur' = NoCall
  BY DEF Abort, SchedInv, CallInv, engVars
<1>3. \A q \in Req : /\ q \in {r} => computed'[q] = 0
                     /\ q \notin {r} => computed'[q] = computed[q]
  BY DEF Abort, Forget
<1>4. \A q \in Req : q \notin {r} => computed'[q] <= computed[q] /\ computed'[q] \in Int
  BY <1>1, <1>3
<1>5. BlocksInv'
  <2>1. PICK F \in SUBSET Req : F = {r}
    BY <1>1
  <2> QED
    BY <1>1, <1>2, <1>3, <1>4, <2>1, BlocksFree
<1> QED
  BY <1>2, <1>5, PlacedNone

LEMMA BlocksIssue ==
    ASSUME SchedInv, BlocksInv, PlacedInv, Issue
    PROVE  BlocksInv' /\ PlacedInv'
<1>1. /\ UNCHANGED <<blocks, free, status>> /\ cur' = NoCall
      /\ \A r \in Req : computed'[r] = IF r \in Scheduled(cur.batch)
                                       THEN computed[r] + cur.batch[r].n ELSE computed[r]
  BY DEF Issue
<1>2. BlocksInv'
  BY <1>1 DEF BlocksInv, PlacedInv
<1> QED
  BY <1>1, <1>2, PlacedNone

LEMMA BlocksUpdate ==
    ASSUME SchedInv, AlignInv, BlocksInv, UpdateFromOutput
    PROVE  BlocksInv' /\ PlacedInv'
<1> DEFINE S == {r \in Scheduled(Head(queue).sched) : Live(r)}
           F == {r \in S : Stopped(r)}
<1>0. TypeInv /\ pc = "update" /\ results # <<>> /\ queue \in Seq(Batch)
      /\ results \in Seq([Req -> Seq(Token)]) /\ computed \in [Req -> Int]
  BY DEF SchedInv, UpdateFromOutput, TypeInv, EngineTypes, CounterTypes
<1>1. F \in SUBSET Req /\ FreeRequests(F) /\ cur' = NoCall
  BY <1>0 DEF UpdateFromOutput, Scheduled, SchedInv, CallInv
<1>2. \A r \in Req : computed'[r] = IF r \in F THEN 0
                                    ELSE IF r \in S /\ Delivers(r) /\ stale[r] = 0
                                            /\ computed[r] > 0
                                    THEN computed[r] - Rejected(r) ELSE computed[r]
  BY DEF UpdateFromOutput, Forget
<1>3. ASSUME NEW r \in Req PROVE Rejected(r) \in Int /\ Rejected(r) >= 0
  <2>1. /\ queue # <<>> /\ Head(queue).sched[r] \in Entry
        /\ Head(results)[r] \in Seq(Token) /\ Rejected(r) \in Int
    BY <1>0, Processed
  <2>2. PICK e, g : e = Head(queue).sched[r] /\ g = Head(results)[r]
    OBVIOUS
  <2>3. /\ Head(queue) = queue[1] /\ Head(results) = results[1]
        /\ 1 \in 1..Len(results)
    BY <1>0, <2>1
  <2>4. g # <<>> => Len(g) <= (IF e.kind = "cached" THEN e.k + 1 ELSE 1)
    BY <2>2, <2>3 DEF AlignInv, ResultInv
  <2>5. e.k \in Nat /\ Len(g) \in Nat
    BY <2>1, <2>2 DEF Entry
  <2>6. Rejected(r) = IF e.k > 0 /\ g # <<>> THEN e.k - (Len(g) - 1) ELSE 0
    BY <2>2 DEF Rejected
  <2> QED
    BY <2>1, <2>4, <2>5, <2>6
<1> HIDE DEF F, S
<1>4. \A r \in Req : /\ r \in F => computed'[r] = 0
                     /\ r \notin F => computed'[r] <= computed[r] /\ computed'[r] \in Int
  BY <1>0, <1>2, <1>3
<1>5. BlocksInv'
  <2>1. PICK G \in SUBSET Req : G = F
    BY <1>1
  <2> QED
    BY <1>0, <1>1, <1>4, <2>1, BlocksFree
<1> QED
  BY <1>1, <1>5, PlacedNone

LEMMA BlocksNext ==
    SchedInv /\ AlignInv /\ BlocksInv /\ PlacedInv /\ [Next]_vars
        => BlocksInv' /\ PlacedInv'
<1> SUFFICES ASSUME SchedInv, AlignInv, BlocksInv, PlacedInv, [Next]_vars
             PROVE  BlocksInv' /\ PlacedInv'
  OBVIOUS
<1>0. TypeInv /\ cur \in Call /\ cur.idx \in Nat
  BY DEF SchedInv, TypeInv, EngineTypes, Call
<1>1. ASSUME UNCHANGED <<reqVars, queueVars>>, cur'.batch = cur.batch,
             pc' = "running" => pc = "running" /\ cur'.idx >= cur.idx /\ cur'.idx \in Int
      PROVE  BlocksInv' /\ PlacedInv'
  BY <1>0, <1>1, BlocksSame, PlacedSame DEF reqVars, queueVars
<1>2. ASSUME UNCHANGED <<reqVars, queueVars, pc, cur>> PROVE BlocksInv' /\ PlacedInv'
  BY <1>0, <1>1, <1>2
<1>3. CASE UNCHANGED vars
  BY <1>2, <1>3 DEF vars, engVars
<1>4. CASE Schedule
  <2>1. CASE StartStep
    <3>1. UNCHANGED <<reqVars, queueVars>> /\ cur = NoCall
      BY <2>1 DEF StartStep, SchedInv, CallInv
    <3>2. cur'.batch = EmptySched
      BY <2>1, <3>1, NothingScheduled DEF StartStep, NoCall
    <3> QED
      BY <3>1, <3>2, BlocksSame, PlacedNone DEF reqVars, queueVars
  <2>2. CASE EndRunning \/ EndWaiting
    <3>1. UNCHANGED <<status, blocks, computed, running, free>> /\ cur'.batch = cur.batch
          /\ pc' # "running"
      BY <1>0, <2>2 DEF EndRunning, EndWaiting, reqVars, queueVars, Call
    <3> QED
      BY <1>0, <3>1, BlocksSame, PlacedSame
  <2>3. ASSUME NEW r \in Req, SkipRunning(r) \/ SkipWaiting(r)
        PROVE  BlocksInv' /\ PlacedInv'
    <3>1. UNCHANGED <<status, blocks, computed, running, free, pc>> /\ cur'.batch = cur.batch
          /\ cur'.idx \in {cur.idx, cur.idx + 1}
      BY <1>0, <2>3 DEF SkipRunning, SkipWaiting, reqVars, queueVars, Call
    <3> QED
      BY <1>0, <3>1, BlocksSame, PlacedSame
  <2> QED
    BY <1>4, <2>1, <2>2, <2>3, BlocksScheduleRunning, BlocksAdmit, BlocksPreemptLast,
       BlocksIssue DEF Schedule
<1>5. CASE Process
  <2>1. CASE AwaitResult
    BY <1>1, <2>1 DEF AwaitResult
  <2>2. CASE UpdateDrafts
    <3>1. UNCHANGED <<status, blocks, computed, running, free>> /\ cur'.batch = cur.batch
          /\ pc' # "running"
      BY <2>2 DEF UpdateDrafts, queueVars
    <3> QED
      BY <1>0, <3>1, BlocksSame, PlacedSame
  <2> QED
    BY <1>5, <2>1, <2>2, BlocksUpdate DEF Process
<1>6. CASE Ranks
  BY <1>2, <1>6 DEF Ranks, LastRank, RankExecute, RankSample, RankTakeDrafts, engVars
<1>7. CASE Clients
  <2>1. ASSUME NEW r \in Req, AddRequest(r) PROVE BlocksInv' /\ PlacedInv'
    <3>1. /\ UNCHANGED <<blocks, free, computed, cur>> /\ cur = NoCall
          /\ status' = [status EXCEPT ![r] = "waiting"] /\ status[r] = "unknown"
          /\ status \in [Req -> {"unknown", "waiting", "running", "preempted",
                                 "finished"}]
      BY <1>0, <2>1 DEF AddRequest, engVars, SchedInv, CallInv, TypeInv, RequestTypes
    <3>2. \A q \in Req : status'[q] = status[q] \/ blocks[q] = 0
      BY <3>1 DEF BlocksInv
    <3> QED
      BY <3>1, <3>2, BlocksSame, PlacedNone
  <2> QED
    BY <1>7, <2>1, BlocksReset, BlocksAbort DEF Clients
<1> QED
  BY <1>3, <1>4, <1>5, <1>6, <1>7 DEF Next

\* Blocks of the pool are neither lost nor handed out twice, only running requests
\* hold any, and they cover every position that is computed or in flight, whatever
\* was preempted, aborted or reset, and whatever share of the drafts was rejected.
THEOREM BlocksAccounted == Spec => []BlocksReserved
<1>1. Init => SchedInv /\ AlignInv /\ BlocksInv /\ PlacedInv
  BY SchedInit, AlignInit, BlocksInit
<1>2. SchedInv /\ AlignInv /\ BlocksInv /\ PlacedInv /\ [Next]_vars
        => SchedInv' /\ AlignInv' /\ BlocksInv' /\ PlacedInv'
  BY SchedNext, AlignNext, BlocksNext
<1>3. BlocksInv => BlocksReserved
  BY BlocksOfIs DEF BlocksInv, BlocksReserved
<1> QED
  BY <1>1, <1>2, <1>3, PTL DEF Spec
=============================================================================
