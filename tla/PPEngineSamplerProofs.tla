----------------------- MODULE PPEngineSamplerProofs -----------------------
(***************************************************************************)
(* Theorems about what the ranks know of the requests they are sent, about *)
(* the last rank, which keeps its own copy of what it sampled, about what  *)
(* is delivered to clients, and about the drafts that come back.           *)
(***************************************************************************)
EXTENDS PPEngineProofs

-----------------------------------------------------------------------------
(***************************************************************************)
(* Which requests a rank knows.  The first entry of a request that a rank  *)
(* has not heard of is a new one and no other entry is; a request that was *)
(* admitted is known to a rank or on its way to it.                        *)
(***************************************************************************)
\* The entries of r in q, for a rank that knows the requests in K.
Marked(q, r, K) ==
    \A i \in 1..Len(q) : Has(q, i, r) =>
        (At(q, i, r).kind = "new" <=> r \notin K /\ \A j \in 1..(i-1) : ~Has(q, j, r))

Reached(q, r, K) == r \in K \/ \E i \in 1..Len(q) : Has(q, i, r)

\* r is to be announced to the ranks, or has been.
Unannounced(r) == status[r] \in {"unknown", "waiting"} \/ cur.batch[r].kind = "new"
Announced(r) == status[r] \in {"running", "preempted"} /\ cur.batch[r].kind # "new"

KnowAt(k, r) ==
    /\ Marked(rpc[k], r, known[k])
    /\ Unannounced(r) => ~Reached(rpc[k], r, known[k])
    /\ Announced(r) => Reached(rpc[k], r, known[k])

KnowInv ==
    /\ \A k \in Rank : \A i \in 1..Len(rpc[k]) :
          rpc[k][i].op = "draft" => rpc[k][i].batch = NoBatch
    /\ \A k \in Rank, r \in Req : KnowAt(k, r)

LEMMA NoBatchEntries ==
    \A r \in Req : NoBatch.sched[r].kind = "none" /\ r \notin NoBatch.fin
BY DEF NoBatch, EmptySched, NoEntry, Planned

LEMMA KnowInit == Init => KnowInv
<1> SUFFICES ASSUME Init PROVE KnowInv
  OBVIOUS
<1>1. \A k \in Rank : rpc[k] = <<>> /\ known[k] = {}
  BY DEF Init
<1>2. \A r \in Req : status[r] = "unknown"
  BY DEF Init
<1> QED
  BY <1>1, <1>2 DEF KnowInv, KnowAt, Marked, Reached, Announced

\* A step of the engine that sends nothing.
LEMMA KnowSame ==
    ASSUME KnowInv, UNCHANGED <<rpc, known>>,
           \A r \in Req : /\ Unannounced(r)' => Unannounced(r)
                          /\ Announced(r)' => Announced(r)
    PROVE  KnowInv'
<1>1. ASSUME NEW k \in Rank, NEW r \in Req PROVE KnowAt(k, r)'
  <2>1. KnowAt(k, r)
    BY DEF KnowInv
  <2> QED
    BY <2>1 DEF KnowAt
<1> QED
  BY <1>1 DEF KnowInv

LEMMA KnowTail ==
    ASSUME NEW q \in Seq(Messages), q # <<>>, NEW r \in Req, NEW K, NEW L,
           Marked(q, r, K)
    PROVE  /\ Has(q, 1, r) /\ r \in L => Marked(Tail(q), r, L)
           /\ ~Has(q, 1, r) /\ (r \in L <=> r \in K) =>
                 Marked(Tail(q), r, L) /\ (Reached(Tail(q), r, L) <=> Reached(q, r, K))
<1> DEFINE t == Tail(q)
<1>0. /\ Len(q) \in Nat /\ Len(q) >= 1 /\ Len(t) = Len(q) - 1
      /\ \A i \in 1..(Len(q) - 1) : /\ i + 1 \in 1..Len(q)
                                    /\ At(t, i, r) = At(q, i+1, r)
                                    /\ Has(t, i, r) <=> Has(q, i+1, r)
  BY TailEntries
<1> HIDE DEF t
<1>1. ASSUME Has(q, 1, r), r \in L PROVE Marked(t, r, L)
  <2> SUFFICES ASSUME NEW i \in 1..Len(t), Has(t, i, r)
               PROVE  At(t, i, r).kind # "new"
    BY <1>1 DEF Marked
  <2>1. /\ i + 1 \in 1..Len(q) /\ Has(q, i + 1, r) /\ At(t, i, r) = At(q, i + 1, r)
        /\ 1 \in 1..((i + 1) - 1)
    BY <1>0
  <2> QED
    BY <1>1, <2>1 DEF Marked
<1>2. ASSUME ~Has(q, 1, r), r \in L <=> r \in K PROVE Marked(t, r, L)
  <2> SUFFICES ASSUME NEW i \in 1..Len(t), Has(t, i, r)
               PROVE  At(t, i, r).kind = "new" <=>
                         r \notin K /\ \A j \in 1..(i - 1) : ~Has(t, j, r)
    BY <1>2 DEF Marked
  <2>1. /\ i + 1 \in 1..Len(q) /\ Has(q, i + 1, r) /\ At(t, i, r) = At(q, i + 1, r)
    BY <1>0
  <2>2. (\A j \in 1..(i - 1) : ~Has(t, j, r)) <=> \A j \in 1..((i + 1) - 1) : ~Has(q, j, r)
    <3>1. ASSUME \A j \in 1..(i - 1) : ~Has(t, j, r), NEW j \in 1..((i + 1) - 1)
          PROVE  ~Has(q, j, r)
      <4>1. CASE j = 1
        BY <1>2, <4>1
      <4>2. CASE j # 1
        <5>1. j - 1 \in 1..(i - 1) /\ j - 1 \in 1..(Len(q) - 1) /\ (j - 1) + 1 = j
          BY <1>0, <4>2
        <5> QED
          BY <1>0, <3>1, <5>1
      <4> QED
        BY <4>1, <4>2
    <3>2. ASSUME \A j \in 1..((i + 1) - 1) : ~Has(q, j, r), NEW j \in 1..(i - 1)
          PROVE  ~Has(t, j, r)
      <4>1. j + 1 \in 1..((i + 1) - 1) /\ j \in 1..(Len(q) - 1)
        BY <1>0
      <4> QED
        BY <1>0, <3>2, <4>1
    <3> QED
      BY <3>1, <3>2
  <2> QED
    BY <2>1, <2>2 DEF Marked
<1>3. ASSUME ~Has(q, 1, r), r \in L <=> r \in K
      PROVE  Reached(t, r, L) <=> Reached(q, r, K)
  <2>1. ASSUME NEW i \in 1..Len(t), Has(t, i, r) PROVE \E j \in 1..Len(q) : Has(q, j, r)
    BY <1>0, <2>1
  <2>2. ASSUME NEW j \in 1..Len(q), Has(q, j, r) PROVE \E i \in 1..Len(t) : Has(t, i, r)
    <3>1. j # 1
      BY <1>3, <2>2
    <3>2. j - 1 \in 1..Len(t) /\ (j - 1) + 1 = j /\ j - 1 \in 1..(Len(q) - 1)
      BY <1>0, <3>1
    <3> QED
      BY <1>0, <2>2, <3>2
  <2> QED
    BY <1>3, <2>1, <2>2 DEF Reached
<1> QED
  BY <1>1, <1>2, <1>3 DEF t

\* A rank handles its oldest message.
LEMMA KnowExec ==
    ASSUME SchedInv, FinishInv, KnowInv, NEW k \in Rank, rpc[k] # <<>>,
           rpc' = [rpc EXCEPT ![k] = Tail(@)], UNCHANGED <<status, cur>>,
           known' = [known EXCEPT ![k] = (@ \ Head(rpc[k]).batch.fin)
                                          \cup Scheduled(Head(rpc[k]).batch.sched)]
    PROVE  KnowInv'
<1>0. /\ TypeInv /\ rpc \in [Rank -> Seq(Messages)] /\ known \in [Rank -> SUBSET Req]
  BY DEF SchedInv, TypeInv, RankTypes
<1> DEFINE q == rpc[k]
           b == Head(q).batch
<1>1. /\ q \in Seq(Messages) /\ rpc'[k] = Tail(q) /\ Head(q) = q[1]
      /\ known'[k] = (known[k] \ b.fin) \cup Scheduled(b.sched)
      /\ \A j \in Rank \ {k} : rpc'[j] = rpc[j] /\ known'[j] = known[j]
  BY <1>0
<1>2. Len(q) \in Nat /\ 1 \in 1..Len(q) /\ Len(Tail(q)) = Len(q) - 1
      /\ \A i \in 1..(Len(q) - 1) : Tail(q)[i] = q[i + 1]
  BY <1>1
<1>3. ASSUME NEW r \in Req PROVE KnowAt(k, r)'
  <2>1. KnowAt(k, r)
    BY DEF KnowInv
  <2>2. PICK K, L : K = known[k] /\ L = known'[k]
    OBVIOUS
  <2>4. /\ Marked(q, r, K) /\ (Unannounced(r) => ~Reached(q, r, K))
        /\ (Announced(r) => Reached(q, r, K))
    BY <2>1, <2>2 DEF KnowAt
  <2>5. /\ Has(q, 1, r) <=> r \in Scheduled(b.sched)
        /\ Has(q, 1, r) => r \in L
        /\ ~Has(q, 1, r) /\ r \notin b.fin => (r \in L <=> r \in K)
    BY <1>1, <2>2 DEF Has, At, Scheduled
  <2>6. SUFFICES /\ Marked(Tail(q), r, L)
                 /\ Unannounced(r) => ~Reached(Tail(q), r, L)
                 /\ Announced(r) => Reached(Tail(q), r, L)
    BY <1>1, <2>2 DEF KnowAt, Unannounced, Announced
  <2>7. CASE Has(q, 1, r)
    <3>1. Reached(q, r, K) /\ Reached(Tail(q), r, L)
      BY <1>2, <2>5, <2>7 DEF Reached
    <3>2. Marked(Tail(q), r, L)
      BY <1>1, <2>4, <2>5, <2>7, KnowTail
    <3> QED
      BY <2>4, <3>1, <3>2
  <2>8. CASE ~Has(q, 1, r) /\ r \notin b.fin
    <3>1. Marked(Tail(q), r, L) /\ (Reached(Tail(q), r, L) <=> Reached(q, r, K))
      BY <1>1, <2>4, <2>5, <2>8, KnowTail
    <3> QED
      BY <2>4, <3>1
  <2>9. CASE ~Has(q, 1, r) /\ r \in b.fin
    <3>1. status[r] = "finished" /\ \A j \in 1..Len(q) : ~Has(q, j, r)
      BY <1>1, <1>2, <2>9 DEF FinishInv
    <3>2. cur.batch[r].kind # "new"
      <4>1. status[r] \notin {"running", "preempted"}
        BY <3>1
      <4> QED
        BY <4>1 DEF SchedInv, CallInv, Scheduled
    <3>3. \A i \in 1..Len(Tail(q)) : ~Has(Tail(q), i, r)
      BY <1>1, <1>2, <3>1, TailEntries
    <3> QED
      BY <3>1, <3>2, <3>3 DEF Marked, Unannounced, Announced
  <2> QED
    BY <2>7, <2>8, <2>9
<1>4. ASSUME NEW j \in Rank \ {k}, NEW r \in Req PROVE KnowAt(j, r)'
  <2>1. KnowAt(j, r)
    BY DEF KnowInv
  <2> QED
    BY <1>1, <2>1 DEF KnowAt, Unannounced, Announced
<1>5. ASSUME NEW j \in Rank, NEW i \in 1..Len(rpc'[j]), rpc'[j][i].op = "draft"
      PROVE  rpc'[j][i].batch = NoBatch
  <2>1. CASE j = k
    <3>0. Len(rpc'[j]) = Len(q) - 1 /\ rpc'[j] = Tail(q)
      BY <1>1, <1>2, <2>1
    <3>1. i \in 1..(Len(q) - 1)
      BY <3>0
    <3>2. i + 1 \in 1..Len(q) /\ rpc'[j][i] = q[i + 1]
      <4>1. PICK t, p : t = Tail(q) /\ p = q
        OBVIOUS
      <4>2. Len(p) \in Nat /\ t[i] = p[i + 1]
        BY <1>2, <3>1, <4>1
      <4>3. i + 1 \in 1..Len(p)
        <5>1. i \in 1..(Len(p) - 1)
          BY <3>1, <4>1
        <5> QED
          BY <4>2, <5>1
      <4> QED
        BY <3>0, <4>1, <4>2, <4>3, Zenon
    <3> QED
      BY <1>5, <3>2 DEF KnowInv
  <2>2. CASE j # k
    BY <1>1, <1>5, <2>2 DEF KnowInv
  <2> QED
    BY <2>1, <2>2
<1> QED
  BY <1>3, <1>4, <1>5 DEF KnowInv

\* The messages of a batch, one after the other.
LEMMA CallsAre ==
    ASSUME NEW q \in Seq(Messages), NEW j, NEW b \in Batch
    PROVE  LET m == [op |-> "exec", batch |-> b]
               d == [op |-> "draft", batch |-> NoBatch] IN
           /\ m \in Messages /\ d \in Messages /\ Append(q, m) \in Seq(Messages)
           /\ q \o Calls(j, b) = IF j = PP /\ b.fetch THEN Append(Append(q, m), d)
                                 ELSE Append(q, m)
<1>1. PICK m, d : /\ m = [op |-> "exec", batch |-> b]
                  /\ d = [op |-> "draft", batch |-> NoBatch]
  OBVIOUS
<1>2. m \in Messages /\ d \in Messages
  BY <1>1, ConstantSched DEF Messages
<1>3. Calls(j, b) = <<m>> \o (IF j = PP /\ b.fetch THEN <<d>> ELSE <<>>)
  BY <1>1 DEF Calls
<1>4. q \o <<m>> = Append(q, m) /\ Append(q, m) \in Seq(Messages)
  BY <1>2
<1>5. CASE j = PP /\ b.fetch
  <2>1. q \o Calls(j, b) = q \o (<<m>> \o <<d>>)
    BY <1>3, <1>5
  <2>2. q \o (<<m>> \o <<d>>) = Append(Append(q, m), d)
    BY <1>2
  <2> QED
    BY <1>1, <1>2, <1>4, <1>5, <2>1, <2>2
<1>6. CASE ~(j = PP /\ b.fetch)
  <2>1. q \o Calls(j, b) = q \o (<<m>> \o <<>>)
    BY <1>3, <1>6
  <2>2. <<m>> \o <<>> = <<m>>
    BY <1>2
  <2> QED
    BY <1>1, <1>2, <1>4, <1>6, <2>1, <2>2
<1> QED
  BY <1>5, <1>6

LEMMA KnowAppend ==
    ASSUME NEW q \in Seq(Messages), NEW m \in Messages, NEW r \in Req, NEW K,
           Marked(q, r, K),
           m.batch.sched[r].kind # "none" =>
               (m.batch.sched[r].kind = "new" <=> ~Reached(q, r, K))
    PROVE  /\ Marked(Append(q, m), r, K)
           /\ Reached(Append(q, m), r, K) <=>
                 Reached(q, r, K) \/ m.batch.sched[r].kind # "none"
<1>1. PICK t : t = Append(q, m)
  OBVIOUS
<1>2. /\ Len(q) \in Nat /\ Len(t) = Len(q) + 1
      /\ \A i \in 1..Len(q) : /\ i \in 1..Len(t) /\ At(t, i, r) = At(q, i, r)
                              /\ Has(t, i, r) <=> Has(q, i, r)
      /\ At(t, Len(q) + 1, r) = m.batch.sched[r]
      /\ Has(t, Len(q) + 1, r) <=> m.batch.sched[r].kind # "none"
  BY <1>1, AppendEntries
<1>3. ASSUME NEW i \in 1..Len(t), Has(t, i, r)
      PROVE  At(t, i, r).kind = "new" <=> r \notin K /\ \A j \in 1..(i-1) : ~Has(t, j, r)
  <2>1. CASE i \in 1..Len(q)
    <3>1. \A j \in 1..(i-1) : j \in 1..Len(q)
      BY <1>2, <2>1
    <3> QED
      BY <1>2, <1>3, <2>1, <3>1 DEF Marked
  <2>2. CASE i = Len(q) + 1
    <3>1. 1..(i-1) = 1..Len(q)
      BY <1>2, <2>2
    <3>2. Reached(q, r, K) <=> ~(r \notin K /\ \A j \in 1..(i-1) : ~Has(t, j, r))
      BY <1>2, <3>1 DEF Reached
    <3> QED
      BY <1>2, <1>3, <2>2, <3>2
  <2> QED
    BY <1>2, <2>1, <2>2
<1>4. Reached(t, r, K) <=> Reached(q, r, K) \/ m.batch.sched[r].kind # "none"
  <2>1. ASSUME NEW i \in 1..Len(t), Has(t, i, r)
        PROVE  Reached(q, r, K) \/ m.batch.sched[r].kind # "none"
    BY <1>2, <2>1 DEF Reached
  <2>2. ASSUME m.batch.sched[r].kind # "none" PROVE Reached(t, r, K)
    <3>1. Len(q) + 1 \in 1..Len(t)
      BY <1>2
    <3> QED
      BY <1>2, <2>2, <3>1 DEF Reached
  <2>3. ASSUME Reached(q, r, K) PROVE Reached(t, r, K)
    BY <1>2, <2>3 DEF Reached
  <2> QED
    BY <2>1, <2>2, <2>3 DEF Reached
<1> QED
  BY <1>1, <1>3, <1>4 DEF Marked

LEMMA KnowIssue ==
    ASSUME SchedInv, KnowInv, Issue PROVE KnowInv'
<1>0. TypeInv /\ rpc \in [Rank -> Seq(Messages)] /\ UNCHANGED <<status, known>>
      /\ cur' = NoCall
  BY DEF SchedInv, TypeInv, RankTypes, Issue, rankVars
<1>1. PICK b \in Batch : IssuedBatch(b)
  BY IssueBatch
<1>2. PICK m, d : /\ m = [op |-> "exec", batch |-> b]
                  /\ d = [op |-> "draft", batch |-> NoBatch]
  OBVIOUS
<1>3. ASSUME NEW k \in Rank
      PROVE  /\ rpc[k] \in Seq(Messages) /\ m \in Messages /\ d \in Messages
             /\ Append(rpc[k], m) \in Seq(Messages)
             /\ rpc'[k] \in {Append(rpc[k], m), Append(Append(rpc[k], m), d)}
  <2>1. rpc'[k] = rpc[k] \o Calls(k, b) /\ rpc[k] \in Seq(Messages)
    BY <1>0, <1>1 DEF IssuedBatch
  <2>2. PICK q \in Seq(Messages) : q = rpc[k]
    BY <2>1
  <2>3. /\ m \in Messages /\ d \in Messages /\ Append(q, m) \in Seq(Messages)
        /\ q \o Calls(k, b) \in {Append(q, m), Append(Append(q, m), d)}
    BY <1>2, CallsAre
  <2> QED
    BY <2>1, <2>2, <2>3
<1>4. ASSUME NEW k \in Rank, NEW i \in 1..Len(rpc'[k]), rpc'[k][i].op = "draft"
      PROVE  rpc'[k][i].batch = NoBatch
  <2>1. PICK q, u, v : q = rpc[k] /\ u = Append(q, m) /\ v = Append(u, d)
    OBVIOUS
  <2>2. q \in Seq(Messages) /\ u \in Seq(Messages) /\ m \in Messages /\ d \in Messages
        /\ rpc'[k] \in {u, v}
    BY <1>3, <2>1
  <2>3. /\ Len(q) \in Nat /\ Len(u) = Len(q) + 1 /\ u[Len(q) + 1] = m
        /\ \A x \in 1..Len(q) : u[x] = q[x]
    BY <2>1, <2>2
  <2>4. /\ Len(v) = Len(u) + 1 /\ v[Len(u) + 1] = d
        /\ \A x \in 1..Len(u) : v[x] = u[x]
    BY <2>1, <2>2, <2>3
  <2>5. m.op = "exec" /\ d.batch = NoBatch
    BY <1>2
  <2>6. CASE i \in 1..Len(q)
    <3>1. rpc'[k][i] = q[i]
      BY <2>2, <2>3, <2>4, <2>6
    <3> QED
      BY <1>4, <2>1, <2>6, <3>1 DEF KnowInv
  <2>7. CASE i = Len(q) + 1
    <3>1. rpc'[k][i] = m
      BY <2>2, <2>3, <2>4, <2>7
    <3> QED
      BY <1>4, <2>5, <3>1
  <2>8. CASE i \notin 1..Len(q) /\ i # Len(q) + 1
    <3>1. i = Len(u) + 1 /\ rpc'[k] = v
      BY <2>2, <2>3, <2>4, <2>8
    <3> QED
      BY <2>4, <2>5, <3>1
  <2> QED
    BY <2>6, <2>7, <2>8
<1>5. ASSUME NEW k \in Rank, NEW r \in Req PROVE KnowAt(k, r)'
  <2>1. PICK q, u, v, K : q = rpc[k] /\ u = Append(q, m) /\ v = Append(u, d) /\ K = known[k]
    OBVIOUS
  <2>2. q \in Seq(Messages) /\ u \in Seq(Messages) /\ m \in Messages /\ d \in Messages
        /\ rpc'[k] \in {u, v}
    BY <1>3, <2>1
  <2>3. /\ Marked(q, r, K) /\ (Unannounced(r) => ~Reached(q, r, K))
        /\ (Announced(r) => Reached(q, r, K))
    BY <2>1 DEF KnowInv, KnowAt
  <2>4. PICK kind : kind = m.batch.sched[r].kind
    OBVIOUS
  <2>5. kind = cur.batch[r].kind /\ kind = Output[r].kind
    BY <1>1, <1>2, <2>4, OutputFields DEF IssuedBatch
  <2>6. kind # "none" => status[r] \in {"running", "preempted"}
    BY <2>5 DEF SchedInv, CallInv, Scheduled
  <2>7. kind # "none" => (kind = "new" <=> ~Reached(q, r, K))
    BY <2>3, <2>5, <2>6 DEF Unannounced, Announced
  <2>8. Marked(u, r, K) /\ (Reached(u, r, K) <=> Reached(q, r, K) \/ kind # "none")
    BY <2>1, <2>2, <2>3, <2>4, <2>7, KnowAppend
  <2>9. d.batch.sched[r].kind = "none"
    BY <1>2, NoBatchEntries
  <2>10. Marked(v, r, K) /\ (Reached(v, r, K) <=> Reached(u, r, K))
    BY <2>1, <2>2, <2>8, <2>9, KnowAppend
  <2>11. cur'.batch[r].kind = "none"
    BY <1>0 DEF NoCall, EmptySched, NoEntry, Planned
  <2>12. Unannounced(r)' => status[r] \in {"unknown", "waiting"}
    BY <1>0, <2>11 DEF Unannounced
  <2>13. Announced(r)' => status[r] \in {"running", "preempted"}
    BY <1>0 DEF Announced
  <2>14. /\ Unannounced(r)' => ~Reached(q, r, K) /\ kind = "none"
         /\ Announced(r)' => Reached(q, r, K) \/ kind # "none"
    BY <2>3, <2>5, <2>6, <2>12, <2>13 DEF Unannounced, Announced
  <2>15. PICK t : t = rpc'[k]
    OBVIOUS
  <2>16. Marked(t, r, K) /\ (Reached(t, r, K) <=> Reached(q, r, K) \/ kind # "none")
    BY <2>2, <2>8, <2>10, <2>15
  <2>17. known'[k] = K
    BY <1>0, <2>1
  <2> QED
    BY <2>14, <2>15, <2>16, <2>17 DEF KnowAt
<1> QED
  BY <1>4, <1>5 DEF KnowInv

\* A request the running loop is at has no entry in the batch yet, nor has one
\* that is not running.
LEMMA NotPlaced ==
    ASSUME SchedInv, PlacedInv, NEW r \in Req, AtRunning(r) \/ status[r] # "running"
    PROVE  cur.batch[r].kind = "none"
<1>1. running \in Seq(Req) /\ cur.idx \in Nat
  <2>1. cur \in Call /\ running \in Seq(Req)
    BY DEF SchedInv, TypeInv, RequestTypes, EngineTypes
  <2> QED
    BY <2>1 DEF Call
<1>2. SUFFICES ASSUME r \in Scheduled(cur.batch) PROVE FALSE
  BY DEF Scheduled
<1>3. AtRunning(r)
  BY <1>2 DEF PlacedInv
<1>4. PICK i \in 1..Len(running) : i < cur.idx /\ running[i] = r
  BY <1>2, <1>3 DEF PlacedInv, AtRunning
<1>5. /\ cur.idx \in DOMAIN running /\ i \in DOMAIN running /\ running[cur.idx] = r
      /\ i # cur.idx
  BY <1>1, <1>3, <1>4 DEF AtRunning
<1> QED
  BY <1>4, <1>5 DEF SchedInv, RunningInv, Distinct

LEMMA KnowSchedule ==
    ASSUME SchedInv, PlacedInv, KnowInv, Schedule PROVE KnowInv'
<1>0. TypeInv /\ cur \in Call /\ cur.batch \in [Req -> Entry]
      /\ status \in [Req -> {"unknown", "waiting", "running", "preempted", "finished"}]
  BY DEF SchedInv, TypeInv, RequestTypes, EngineTypes, Call, Sched
<1>1. ASSUME UNCHANGED <<rpc, known, status>>, cur'.batch = cur.batch PROVE KnowInv'
  BY <1>1, KnowSame DEF Unannounced, Announced
<1>2. CASE StartStep
  <2>1. UNCHANGED <<rpc, known, status>> /\ cur'.batch = cur.batch
    BY <1>0, <1>2 DEF StartStep, NoCall, reqVars, rankVars, SchedInv, CallInv
  <2> QED
    BY <1>1, <2>1
<1>3. CASE EndRunning \/ EndWaiting
  <2>1. UNCHANGED <<rpc, known, status>> /\ cur'.batch = cur.batch
    BY <1>0, <1>3 DEF EndRunning, EndWaiting, reqVars, rankVars, Call
  <2> QED
    BY <1>1, <2>1
<1>4. ASSUME NEW r \in Req, SkipRunning(r) \/ SkipWaiting(r) PROVE KnowInv'
  <2>1. UNCHANGED <<rpc, known, status>> /\ cur'.batch = cur.batch
    BY <1>0, <1>4 DEF SkipRunning, SkipWaiting, reqVars, rankVars, Call
  <2> QED
    BY <1>1, <2>1
<1>5. ASSUME NEW r \in Req, ScheduleRunning(r) PROVE KnowInv'
  <2>1. PICK e : e = Planned("cached", computed[r], NumNew(r),
                             SpecScheduled(r, NumNew(r)))
    OBVIOUS
  <2>2. /\ UNCHANGED <<rpc, known, status>> /\ cur'.batch = [cur.batch EXCEPT ![r] = e]
        /\ e.kind = "cached"
    BY <1>0, <1>5, <2>1 DEF ScheduleRunning, rankVars, Call, Planned
  <2>3. cur.batch[r].kind = "none"
    BY <1>5, NotPlaced DEF ScheduleRunning, Schedulable
  <2>4. cur'.batch[r] = e /\ \A q \in Req \ {r} : cur'.batch[q] = cur.batch[q]
    BY <1>0, <2>2
  <2>5. ASSUME NEW q \in Req
        PROVE  /\ Unannounced(q)' => Unannounced(q)
               /\ Announced(q)' => Announced(q)
    <3>1. cur'.batch[q].kind = "new" <=> cur.batch[q].kind = "new"
      BY <2>2, <2>3, <2>4
    <3> QED
      BY <2>2, <3>1 DEF Unannounced, Announced
  <2> QED
    BY <2>2, <2>5, KnowSame
<1>6. ASSUME NEW r \in Req, Admit(r) PROVE KnowInv'
  <2>1. PICK kind \in {"new", "resumed"}, k \in {0, NumSpec} :
          /\ cur' = [cur EXCEPT !.budget = @ - AdmitTokens(r),
                                !.batch[r] = Planned(kind, 0, AdmitTokens(r), k)]
          /\ kind = "new" <=> status[r] = "waiting"
          /\ status[r] \in {"waiting", "preempted"}
    BY <1>6 DEF Admit
  <2>2. PICK e : e = Planned(kind, 0, AdmitTokens(r), k)
    OBVIOUS
  <2>3. /\ UNCHANGED <<rpc, known>> /\ cur'.batch = [cur.batch EXCEPT ![r] = e]
        /\ e.kind = kind /\ status' = [status EXCEPT ![r] = "running"]
    BY <1>0, <1>6, <2>1, <2>2 DEF Admit, rankVars, Call, Planned
  <2>4. cur.batch[r].kind = "none"
    BY <2>1, NotPlaced
  <2>5. /\ cur'.batch[r] = e /\ status'[r] = "running"
        /\ \A q \in Req \ {r} : cur'.batch[q] = cur.batch[q] /\ status'[q] = status[q]
    BY <1>0, <2>3
  <2>6. ASSUME NEW q \in Req
        PROVE  /\ Unannounced(q)' => Unannounced(q)
               /\ Announced(q)' => Announced(q)
    BY <2>1, <2>3, <2>4, <2>5 DEF Unannounced, Announced
  <2> QED
    BY <2>3, <2>6, KnowSame
<1>7. ASSUME NEW r \in Req, NEW victim \in Req, PreemptLast(r, victim) PROVE KnowInv'
  <2>1. UNCHANGED <<rpc, known>> /\ cur'.batch = cur.batch
    BY <1>0, <1>7 DEF PreemptLast, rankVars, Call
  <2>2. running \in Seq(Req) /\ cur.idx \in Nat \ {0}
    BY <1>0 DEF TypeInv, RequestTypes, Call
  <2>3. Len(running) \in DOMAIN running /\ victim = running[Len(running)]
    BY <1>7, <2>2 DEF PreemptLast, Schedulable, AtRunning
  <2>4. status[victim] = "running" /\ SeqSet(<<victim>>) = {victim}
    BY <2>3 DEF SchedInv, RunningInv, SeqSet
  <2>5. \A q \in Req : status'[q] = IF q = victim THEN "preempted" ELSE status[q]
    BY <1>7, <2>4 DEF PreemptLast, Preempt
  <2> QED
    BY <2>1, <2>4, <2>5, KnowSame DEF Unannounced, Announced
<1> QED
  BY <1>2, <1>3, <1>4, <1>5, <1>6, <1>7, KnowIssue DEF Schedule

LEMMA KnowNext ==
    SchedInv /\ RankInv /\ PlacedInv /\ KnowInv /\ [Next]_vars => KnowInv'
<1> SUFFICES ASSUME SchedInv, RankInv, PlacedInv, KnowInv, [Next]_vars PROVE KnowInv'
  OBVIOUS
<1>0. TypeInv /\ FinishInv /\ PP \in Rank
      /\ rpc \in [Rank -> Seq(Messages)] /\ known \in [Rank -> SUBSET Req]
      /\ status \in [Req -> {"unknown", "waiting", "running", "preempted", "finished"}]
  <2>1. PP \in Rank
    BY ConstantTypes DEF Rank
  <2> QED
    BY <2>1 DEF SchedInv, RankInv, TypeInv, RequestTypes, RankTypes
<1>1. ASSUME UNCHANGED <<rpc, known, status, cur>> PROVE KnowInv'
  BY <1>1, KnowSame DEF Unannounced, Announced
<1>2. CASE UNCHANGED vars
  BY <1>1, <1>2 DEF vars, engVars, rankVars, reqVars
<1>3. CASE Process
  <2>1. CASE UpdateFromOutput
    <3>1. UNCHANGED <<rpc, known, cur>>
          /\ \A r \in Req : status'[r] \in {status[r], "finished"}
      BY <2>1 DEF UpdateFromOutput, FreeRequests, Forget, rankVars
    <3>2. cur = NoCall
      BY <2>1 DEF UpdateFromOutput, SchedInv, CallInv
    <3>3. \A r \in Req : cur.batch[r].kind = "none"
      BY <3>2 DEF NoCall, EmptySched, NoEntry, Planned
    <3> QED
      BY <3>1, <3>3, KnowSame DEF Unannounced, Announced
  <2> QED
    BY <1>1, <1>3, <2>1 DEF Process, AwaitResult, UpdateDrafts, reqVars, rankVars
<1>4. CASE Ranks
  <2>1. ASSUME NEW k \in Rank, RankExecute(k) PROVE KnowInv'
    <3>1. /\ rpc[k] # <<>> /\ rpc' = [rpc EXCEPT ![k] = Tail(@)] /\ UNCHANGED <<status, cur>>
          /\ known' = [known EXCEPT ![k] = (@ \ Head(rpc[k]).batch.fin)
                                           \cup Scheduled(Head(rpc[k]).batch.sched)]
      BY <2>1 DEF RankExecute, AtExec, PassOn, UpdateStates, reqVars, engVars
    <3> QED
      BY <1>0, <3>1, KnowExec
  <2>2. ASSUME NEW gen, NEW d, AtExec(PP), RankSample(gen, d) PROVE KnowInv'
    <3>1. /\ rpc[PP] # <<>> /\ rpc' = [rpc EXCEPT ![PP] = Tail(@)]
          /\ UNCHANGED <<status, cur>>
          /\ known' = [known EXCEPT ![PP] = (@ \ Head(rpc[PP]).batch.fin)
                                           \cup Scheduled(Head(rpc[PP]).batch.sched)]
      BY <2>2 DEF RankSample, AtExec, PassOn, UpdateStates, reqVars, engVars
    <3> QED
      BY <1>0, <3>1, KnowExec
  <2>3. CASE RankTakeDrafts
    <3>1. /\ rpc[PP] # <<>> /\ rpc' = [rpc EXCEPT ![PP] = Tail(@)]
          /\ UNCHANGED <<status, cur, known>> /\ Head(rpc[PP]).op = "draft"
      BY <2>3 DEF RankTakeDrafts, reqVars, rankVars
    <3>2. Head(rpc[PP]) = rpc[PP][1] /\ 1 \in 1..Len(rpc[PP])
      BY <1>0, <3>1
    <3>3. Head(rpc[PP]).batch = NoBatch
      BY <1>0, <3>1, <3>2 DEF KnowInv
    <3>4. Scheduled(NoBatch.sched) = {} /\ NoBatch.fin = {}
      BY NothingScheduled DEF NoBatch
    <3>5. known' = [known EXCEPT ![PP] = (@ \ Head(rpc[PP]).batch.fin)
                                         \cup Scheduled(Head(rpc[PP]).batch.sched)]
      BY <1>0, <3>1, <3>3, <3>4
    <3> QED
      BY <1>0, <3>1, <3>5, KnowExec
  <2> QED
    BY <1>4, <2>1, <2>2, <2>3 DEF Ranks, LastRank
<1>5. CASE Clients
  <2>1. CASE ResetPrefixCache
    <3>1. UNCHANGED <<rpc, known, cur>> /\ \A r \in SeqSet(running) : status[r] = "running"
      BY <2>1 DEF ResetPrefixCache, rankVars, SchedInv, RunningInv, SeqSet
    <3>2. \A r \in Req : status'[r] = IF r \in SeqSet(running) THEN "preempted" ELSE status[r]
      BY <2>1 DEF ResetPrefixCache, Preempt
    <3> QED
      BY <3>1, <3>2, KnowSame DEF Unannounced, Announced
  <2>2. ASSUME NEW r \in Req, AddRequest(r) PROVE KnowInv'
    <3>1. /\ UNCHANGED <<rpc, known, cur>> /\ status[r] = "unknown"
          /\ status' = [status EXCEPT ![r] = "waiting"]
      BY <2>2 DEF AddRequest, rankVars, engVars
    <3>2. \A q \in Req : status'[q] = IF q = r THEN "waiting" ELSE status[q]
      BY <1>0, <3>1
    <3> QED
      BY <3>1, <3>2, KnowSame DEF Unannounced, Announced
  <2>3. ASSUME NEW r \in Req, Abort(r) PROVE KnowInv'
    <3>1. UNCHANGED <<rpc, known, cur>>
          /\ \A q \in Req : status'[q] \in {status[q], "finished"}
      BY <2>3 DEF Abort, FreeRequests, Forget, rankVars, engVars
    <3>2. cur = NoCall
      BY <2>3 DEF Abort, SchedInv, CallInv
    <3>3. \A q \in Req : cur.batch[q].kind = "none"
      BY <3>2 DEF NoCall, EmptySched, NoEntry, Planned
    <3> QED
      BY <3>1, <3>3, KnowSame DEF Unannounced, Announced
  <2> QED
    BY <1>5, <2>1, <2>2, <2>3 DEF Clients
<1> QED
  BY <1>2, <1>3, <1>4, <1>5, KnowSchedule DEF Next

\* What the theorems below start from.
EngineInv == SchedInv /\ RankInv /\ AlignInv /\ BlocksInv /\ PlacedInv /\ KnowInv

LEMMA EngineInitially == Init => EngineInv
BY SchedInit, RankInit, AlignInit, BlocksInit, KnowInit DEF EngineInv

LEMMA EngineNext == EngineInv /\ [Next]_vars => EngineInv'
BY SchedNext, RankNext, AlignNext, BlocksNext, KnowNext DEF EngineInv

\* A rank that is told to continue a request has its cached state and one that is
\* told of a new one has none, on every rank and however far it lags behind: the
\* lookup of self.requests in _update_states never fails, and never finds the
\* state of an earlier life of the request.
THEOREM RanksAreTold == Spec => []RanksKnow
<1>1. EngineInv => RanksKnow
  <2> SUFFICES ASSUME EngineInv, NEW k \in Rank, rpc[k] # <<>>,
                      NEW r \in Scheduled(Head(rpc[k]).batch.sched)
               PROVE  Head(rpc[k]).batch.sched[r].kind = "new" <=> r \notin known[k]
    BY DEF RanksKnow
  <2>1. rpc[k] \in Seq(Messages) /\ r \in Req
    BY DEF EngineInv, SchedInv, TypeInv, RankTypes, Scheduled
  <2>2. Head(rpc[k]) = rpc[k][1] /\ 1 \in 1..Len(rpc[k])
    BY <2>1
  <2>3. Has(rpc[k], 1, r) /\ At(rpc[k], 1, r) = Head(rpc[k]).batch.sched[r]
    BY <2>2 DEF Has, At, Scheduled
  <2>4. Marked(rpc[k], r, known[k])
    BY <2>1 DEF EngineInv, KnowInv, KnowAt
  <2>5. \A j \in 1..(1-1) : ~Has(rpc[k], j, r)
    OBVIOUS
  <2> QED
    BY <2>2, <2>3, <2>4, <2>5 DEF Marked
<1> QED
  BY <1>1, EngineInitially, EngineNext, PTL DEF Spec
-----------------------------------------------------------------------------
(***************************************************************************)
(* The last rank.  Of the steps in flight for a request, those up to the   *)
(* j-th batch are stale; output that is to be dropped is dropped exactly   *)
(* from them.  Of the others only the last one reaches the end of the      *)
(* request's tokens and samples, and while it is in flight no further step *)
(* is scheduled.  So every step in flight was scheduled with the output    *)
(* that is delivered now, and the last rank's copy is that output,         *)
(* followed by what its latest step sampled.                               *)
(***************************************************************************)
InQ(i, r) == queue[i].sched[r].kind # "none"

PlanInv == \A r \in Req : cur.batch[r].nout = 0

\* An entry in flight.
FlightAt(i, r) ==
    LET e == queue[i].sched[r] IN
    /\ e.nout = Len(out[r])
    /\ e.kind = "new" => e.nout = 0
    /\ End(e) <= Prompt[r] + e.nout
    /\ e.k > 0 => End(e) = Prompt[r] + e.nout
    /\ i <= Len(results) /\ results[i][r] # <<>> => End(e) = Prompt[r] + e.nout

FlightInv == \A i \in 1..Len(queue), r \in Req : InQ(i, r) => FlightAt(i, r)

\* The entry that samples is the last one, and no further one can be scheduled.
LastAt(i, r) ==
    End(queue[i].sched[r]) = NumTokens(r) =>
        /\ \A l \in (i+1)..Len(queue) : ~InQ(l, r)
        /\ status[r] = "running" => computed[r] >= NumTokens(r)

Line(r, j) ==
    /\ stale[r] = First(queue, r, j)
    /\ status[r] = "preempted" => j = Len(queue)
    /\ status[r] = "running" /\ ~dropStale[r] => j = 0
    /\ \A i \in 1..Len(queue) :
          InQ(i, r) /\ (i > j \/ ~dropStale[r]) => LastAt(i, r)

LineInv == \A r \in Req : Live(r) => \E j \in 0..Len(queue) : Line(r, j)

\* Entries that the last rank has not executed.
Waits(r) == \E i \in (Len(results)+1)..Len(queue) : InQ(i, r)

PrefixAt(r) == /\ Len(out[r]) <= Len(hist[PP][r])
               /\ out[r] = SubSeq(hist[PP][r], 1, Len(out[r]))

SampledAt(i, r) ==
    InQ(i, r) /\ (\A l \in (i+1)..Len(results) : ~InQ(l, r))
        => hist[PP][r] = out[r] \o results[i][r]

OwnInv ==
    /\ \A r \in Req : status[r] # "finished" \/ Waits(r) => PrefixAt(r)
    /\ \A r \in Req : Live(r) => \A i \in 1..Len(results) : SampledAt(i, r)

SampleInv == PlanInv /\ FlightInv /\ LineInv /\ OwnInv

\* What a batch holds of a request is at most the sum over the batches.
LEMMA FirstPart ==
    ASSUME NEW q \in Seq(Batch), NEW r \in Req,
           \A i \in 1..Len(q) : q[i].sched[r].n >= 0,
           NEW j \in 0..Len(q), NEW i \in 1..j
    PROVE  First(q, r, j) >= q[i].sched[r].n
<1> DEFINE Bad(x) == x \in i..Len(q) /\ ~(First(q, r, x) >= q[i].sched[r].n)
           N == {x \in Nat : Bad(x)}
<1>0. Len(q) \in Nat /\ i \in 1..Len(q)
  OBVIOUS
<1>1. SUFFICES ASSUME N # {} PROVE FALSE
  <2>1. j \in Nat /\ j \in i..Len(q)
    BY <1>0
  <2> QED
    BY <1>1, <2>1
<1>2. PICK x \in N : \A y \in N : x <= y
  BY <1>1, NatMin
<1>3. x \in i..Len(q) /\ ~(First(q, r, x) >= q[i].sched[r].n) /\ x \in 1..Len(q)
  BY <1>0, <1>2
<1>4. First(q, r, x) = q[x].sched[r].n + First(q, r, x - 1)
  BY <1>3, FirstNext
<1>5. \A y \in 1..Len(q) : q[y].sched[r].n \in Int
  BY CountTypes
<1>6. x - 1 \in 0..Len(q)
  BY <1>0, <1>3
<1>7. First(q, r, x - 1) \in Int /\ First(q, r, x - 1) >= 0
  BY <1>6, FirstType, FirstNat
<1>8. q[x].sched[r].n >= 0 /\ q[x].sched[r].n \in Int /\ q[i].sched[r].n \in Int
  BY <1>0, <1>3, <1>5
<1>9. CASE x = i
  BY <1>3, <1>4, <1>7, <1>8, <1>9
<1>10. CASE x # i
  <2>1. x - 1 \in i..Len(q) /\ x - 1 \in Nat
    BY <1>0, <1>3, <1>10
  <2>2. First(q, r, x - 1) >= q[i].sched[r].n
    <3>1. x - 1 \notin N
      BY <1>2, <2>1
    <3> QED
      BY <2>1, <3>1
  <2> QED
    BY <1>3, <1>4, <1>7, <1>8, <2>2
<1> QED
  BY <1>9, <1>10

\* The entries of the batches in flight.
LEMMA InFlight ==
    ASSUME SchedInv, FlowInv
    PROVE  /\ queue \in Seq(Batch) /\ Len(queue) \in Nat
           /\ results \in Seq([Req -> Seq(Token)]) /\ Len(results) \in Nat
           /\ \A i \in 1..Len(queue), r \in Req :
                 /\ queue[i].sched[r] \in Entry
                 /\ queue[i].sched[r].n \in Int /\ queue[i].sched[r].n >= 0
                 /\ queue[i].sched[r].k \in Nat
                 /\ InQ(i, r) => queue[i].sched[r].n > 0
                                 /\ queue[i].sched[r].k < queue[i].sched[r].n
                 /\ ~InQ(i, r) => queue[i].sched[r].n = 0
                 /\ InQ(i, r) => status[r] \notin {"unknown", "waiting"}
<1>1. queue \in Seq(Batch) /\ results \in Seq([Req -> Seq(Token)])
  BY DEF SchedInv, TypeInv, EngineTypes
<1>2. Len(queue) \in Nat /\ Len(results) \in Nat /\ DOMAIN queue = 1..Len(queue)
  BY <1>1
<1>3. ASSUME NEW i \in 1..Len(queue), NEW r \in Req
      PROVE  /\ queue[i].sched[r] \in Entry
             /\ queue[i].sched[r].n \in Int /\ queue[i].sched[r].n >= 0
             /\ queue[i].sched[r].k \in Nat
             /\ InQ(i, r) => queue[i].sched[r].n > 0
                             /\ queue[i].sched[r].k < queue[i].sched[r].n
             /\ ~InQ(i, r) => queue[i].sched[r].n = 0
             /\ InQ(i, r) => status[r] \notin {"unknown", "waiting"}
  <2>1. queue[i] \in Batch
    BY <1>1
  <2>2. queue[i].sched[r] \in Entry
    BY <2>1 DEF Batch, Sched
  <2>3. queue[i].sched[r].n \in Int /\ queue[i].sched[r].k \in Nat
    BY <2>2 DEF Entry
  <2>4. InQ(i, r) => queue[i].sched[r].k < queue[i].sched[r].n
    BY <1>2 DEF SchedInv, NoDraftOnlyStep, InQ, Scheduled
  <2>5. ~InQ(i, r) => queue[i].sched[r].n = 0
    BY DEF FlowInv, EmptyCounts, InQ
  <2>6. InQ(i, r) => status[r] \notin {"unknown", "waiting"}
    BY <1>2 DEF SchedInv, FreshInv, InQ, Scheduled
  <2> QED
    BY <2>2, <2>3, <2>4, <2>5, <2>6
<1> QED
  BY <1>1, <1>2, <1>3

\* Nothing of r is in the first j batches if their sum is 0.
LEMMA NoneFirst ==
    ASSUME SchedInv, FlowInv, NEW r \in Req, NEW j \in 0..Len(queue),
           First(queue, r, j) <= 0
    PROVE  First(queue, r, j) = 0 /\ \A i \in 1..j : ~InQ(i, r)
<1>1. /\ queue \in Seq(Batch) /\ Len(queue) \in Nat
      /\ \A i \in 1..Len(queue) : queue[i].sched[r].n \in Int /\ queue[i].sched[r].n >= 0
      /\ \A i \in 1..Len(queue) : InQ(i, r) => queue[i].sched[r].n > 0
  BY InFlight
<1>2. First(queue, r, j) \in Int /\ First(queue, r, j) >= 0
  BY <1>1, FirstType, FirstNat
<1>3. ASSUME NEW i \in 1..j, InQ(i, r) PROVE FALSE
  <2>1. First(queue, r, j) >= queue[i].sched[r].n /\ i \in 1..Len(queue)
    BY <1>1, FirstPart
  <2> QED
    BY <1>1, <1>2, <1>3, <2>1
<1> QED
  BY <1>2, <1>3

LEMMA SampleInit == Init => SampleInv
<1> SUFFICES ASSUME Init PROVE SampleInv
  OBVIOUS
<1>1. /\ queue = <<>> /\ results = <<>> /\ cur = NoCall
      /\ \A r \in Req : status[r] = "unknown" /\ out[r] = <<>>
  BY DEF Init
<1>2. \A r \in Req : hist[PP][r] = <<>>
  <2>1. PP \in Rank
    BY ConstantTypes DEF Rank
  <2> QED
    BY <2>1 DEF Init
<1>3. PlanInv
  BY <1>1 DEF PlanInv, NoCall, EmptySched, NoEntry, Planned
<1>4. FlightInv /\ LineInv
  BY <1>1 DEF FlightInv, LineInv, Live
<1>5. OwnInv
  <2>1. \A r \in Req : PrefixAt(r)
    <3>1. SubSeq(<<>>, 0 + 1, Len(<<>>)) = <<>>
      BY SubSeqNothing
    <3>2. SubSeq(<<>>, 1, Len(<<>>)) = <<>> /\ Len(<<>>) <= Len(<<>>)
      BY <3>1
    <3> QED
      BY <1>1, <1>2, <3>2, Zenon DEF PrefixAt
  <2> QED
    BY <1>1, <2>1 DEF OwnInv, Live
<1> QED
  BY <1>3, <1>4, <1>5 DEF SampleInv

\* A step that neither sends nor returns anything, as far as the last rank's copy
\* is concerned.
LEMMA OwnSame ==
    ASSUME SchedInv, FlowInv, AlignInv, FlightInv, OwnInv, UNCHANGED <<queue, results, out>>,
           hist'[PP] = hist[PP],
           \A r \in Req : /\ status'[r] # "finished" => status[r] # "finished"
                          /\ Live(r)' => Live(r) \/ status[r] = "unknown"
    PROVE  FlightInv' /\ OwnInv'
<1>1. FlightInv'
  BY DEF FlightInv, FlightAt, InQ
<1>2. ASSUME NEW r \in Req, status'[r] # "finished" \/ Waits(r)' PROVE PrefixAt(r)'
  <2>1. status[r] # "finished" \/ Waits(r)
    BY <1>2 DEF Waits, InQ
  <2> QED
    BY <2>1 DEF OwnInv, PrefixAt
<1>3. ASSUME NEW r \in Req, Live(r)', NEW i \in 1..Len(results') PROVE SampledAt(i, r)'
  <2>1. CASE Live(r)
    BY <2>1 DEF OwnInv, SampledAt, InQ
  <2>2. CASE status[r] = "unknown"
    <3>1. i \in 1..Len(queue)
      BY InFlight DEF AlignInv
    <3> QED
      BY <2>2, <3>1, InFlight DEF SampledAt, InQ
  <2> QED
    BY <1>3, <2>1, <2>2
<1> QED
  BY <1>1, <1>2, <1>3 DEF OwnInv

LEMMA LineSame ==
    ASSUME LineInv, UNCHANGED <<queue, out>>,
           \A r \in Req : Live(r)' => /\ status'[r] = status[r] /\ stale'[r] = stale[r]
                                      /\ dropStale'[r] = dropStale[r]
                                      /\ computed'[r] = computed[r]
    PROVE  LineInv'
<1> SUFFICES ASSUME NEW r \in Req, Live(r)'
             PROVE  \E j \in 0..Len(queue') : Line(r, j)'
  BY DEF LineInv
<1>1. Live(r) /\ status'[r] = status[r] /\ stale'[r] = stale[r]
      /\ dropStale'[r] = dropStale[r] /\ computed'[r] = computed[r]
  BY DEF Live
<1>2. PICK j \in 0..Len(queue) : Line(r, j)
  BY <1>1 DEF LineInv
<1>3. \A i : LastAt(i, r)' <=> LastAt(i, r)
  BY <1>1 DEF LastAt, InQ, NumTokens
<1>4. Line(r, j)'
  BY <1>1, <1>2, <1>3 DEF Line, InQ
<1> QED
  BY <1>4

\* A request without entries in flight.
LEMMA LineNone ==
    ASSUME NEW r \in Req, \A i \in 1..Len(queue) : ~InQ(i, r), UNCHANGED queue,
           stale'[r] = 0, queue \in Seq(Batch), EmptyCounts(queue)
    PROVE  \E j \in 0..Len(queue') : Line(r, j)'
<1>1. Len(queue) \in Nat
  OBVIOUS
<1>2. \A j \in 0..Len(queue) : First(queue, r, j) = 0
  BY FirstNone DEF InQ
<1>3. \A i \in 1..Len(queue') : ~InQ(i, r)'
  BY DEF InQ
<1>4. CASE status'[r] = "preempted"
  <2>1. Len(queue') \in 0..Len(queue')
    BY <1>1
  <2>2. Line(r, Len(queue))'
    BY <1>2, <1>3, <1>4, <2>1 DEF Line
  <2> QED
    BY <2>1, <2>2
<1>5. CASE status'[r] # "preempted"
  <2>1. 0 \in 0..Len(queue')
    BY <1>1
  <2>2. Line(r, 0)'
    BY <1>2, <1>3, <1>5, <2>1 DEF Line
  <2> QED
    BY <2>1, <2>2
<1> QED
  BY <1>4, <1>5

LEMMA LineAddRequest ==
    ASSUME SchedInv, FlowInv, LineInv, NEW r \in Req, AddRequest(r) PROVE LineInv'
<1>1. /\ status' = [status EXCEPT ![r] = "waiting"] /\ status[r] = "unknown"
      /\ UNCHANGED <<stale, dropStale, computed, queue, out>>
      /\ status \in [Req -> {"unknown", "waiting", "running", "preempted", "finished"}]
  BY DEF AddRequest, engVars, SchedInv, TypeInv, RequestTypes
<1>2. ASSUME NEW q \in Req, Live(q)' PROVE \E j \in 0..Len(queue') : Line(q, j)'
  <2>1. CASE q = r
    <3>1. \A i \in 1..Len(queue) : ~InQ(i, r)
      BY <1>1, InFlight
    <3>2. stale'[r] = 0 /\ EmptyCounts(queue) /\ queue \in Seq(Batch)
      BY <1>1, InFlight DEF FlowInv
    <3> QED
      BY <1>1, <2>1, <3>1, <3>2, LineNone
  <2>2. CASE q # r
    <3>1. status'[q] = status[q] /\ Live(q)
      BY <1>1, <1>2, <2>2 DEF Live
    <3>2. PICK j \in 0..Len(queue) : Line(q, j)
      BY <3>1 DEF LineInv
    <3>3. Line(q, j)'
      BY <1>1, <3>1, <3>2 DEF Line, LastAt, InQ, NumTokens
    <3> QED
      BY <1>1, <3>3
  <2> QED
    BY <2>1, <2>2
<1> QED
  BY <1>2 DEF LineInv

LEMMA LinePreempt ==
    ASSUME SchedInv, FlowInv, LineInv, NEW s \in Seq(Req), NEW drop, Preempt(s, drop),
           \A r \in SeqSet(s) : status[r] = "running", UNCHANGED <<queue, out, inFlight>>
    PROVE  LineInv'
<1> SUFFICES ASSUME NEW r \in Req, Live(r)'
             PROVE  \E j \in 0..Len(queue') : Line(r, j)'
  BY DEF LineInv
<1>0. queue \in Seq(Batch) /\ Len(queue) \in Nat
  BY InFlight
<1>1. CASE r \notin SeqSet(s)
  <2>1. /\ status'[r] = status[r] /\ computed'[r] = computed[r] /\ stale'[r] = stale[r]
        /\ dropStale'[r] = dropStale[r] /\ Live(r)
    BY <1>1 DEF Preempt, Live
  <2>2. PICK j \in 0..Len(queue) : Line(r, j)
    BY <2>1 DEF LineInv
  <2>3. Line(r, j)'
    BY <2>1, <2>2 DEF Line, LastAt, InQ, NumTokens
  <2> QED
    BY <2>3
<1>2. CASE r \in SeqSet(s)
  <2>1. /\ status'[r] = "preempted" /\ stale'[r] = inFlight[r] /\ status[r] = "running"
        /\ dropStale'[r] = (drop \/ (dropStale[r] /\ stale[r] > 0))
    BY <1>2 DEF Preempt
  <2>2. Live(r)
    BY <2>1 DEF Live
  <2>3. PICK j \in 0..Len(queue) : Line(r, j)
    BY <2>2 DEF LineInv
  <2>4. stale'[r] = First(queue, r, Len(queue))
    BY <2>1, <2>2 DEF FlowInv, Oldest
  <2>5. ASSUME NEW i \in 1..Len(queue), InQ(i, r), i > Len(queue) \/ ~dropStale'[r]
        PROVE  LastAt(i, r)'
    <3>1. ~dropStale[r] \/ ~(stale[r] > 0)
      <4>1. ~(i > Len(queue))
        BY <1>0
      <4>2. ~dropStale'[r]
        BY <2>5, <4>1
      <4> QED
        BY <2>1, <4>2, Zenon
    <3>2. i > j \/ ~dropStale[r]
      <4>1. CASE ~dropStale[r]
        BY <4>1
      <4>2. CASE ~(stale[r] > 0)
        <5>1. stale[r] = First(queue, r, j)
          BY <2>3 DEF Line
        <5>2. First(queue, r, j) <= 0
          <6>1. First(queue, r, j) \in Int
            BY <1>0, FirstType
          <6> QED
            BY <4>2, <5>1, <6>1
        <5>3. \A l \in 1..j : ~InQ(l, r)
          BY <5>2, NoneFirst
        <5> QED
          BY <1>0, <2>5, <5>3
      <4> QED
        BY <3>1, <4>1, <4>2
    <3>3. LastAt(i, r)
      BY <2>3, <2>5, <3>2 DEF Line
    <3> QED
      BY <2>1, <3>3 DEF LastAt, InQ, NumTokens
  <2>6. Line(r, Len(queue))'
    <3>1. Len(queue') = Len(queue)
      OBVIOUS
    <3> QED
      BY <2>1, <2>4, <2>5 DEF Line, InQ
  <2>7. Len(queue) \in 0..Len(queue')
    BY <1>0
  <2>8. PICK z : z = Len(queue)
    OBVIOUS
  <2>9. Line(r, z)' /\ z \in 0..Len(queue')
    BY <2>6, <2>7, <2>8
  <2> QED
    BY <2>9
<1> QED
  BY <1>1, <1>2

LEMMA LineAdmit ==
    ASSUME SchedInv, FlowInv, LineInv, NEW r \in Req, Admit(r) PROVE LineInv'
<1>0. /\ queue \in Seq(Batch) /\ Len(queue) \in Nat /\ EmptyCounts(queue)
      /\ status \in [Req -> {"unknown", "waiting", "running", "preempted", "finished"}]
      /\ computed \in [Req -> Int] /\ stale \in [Req -> Int]
  BY InFlight DEF FlowInv, SchedInv, TypeInv, RequestTypes, CounterTypes
<1>1. /\ status' = [status EXCEPT ![r] = "running"]
      /\ computed' = [computed EXCEPT ![r] = 0]
      /\ UNCHANGED <<stale, dropStale, queue, out>>
      /\ status[r] \in {"waiting", "preempted"}
      /\ ~AwaitsStale(r)
  BY DEF Admit, CanAdmit
<1>2. ASSUME NEW q \in Req, Live(q)' PROVE \E j \in 0..Len(queue') : Line(q, j)'
  <2>1. CASE q = r
    <3>1. Live(r)
      BY <1>1 DEF Live
    <3>2. PICK j \in 0..Len(queue) : Line(r, j)
      BY <3>1 DEF LineInv
    <3>3. stale[r] = First(queue, r, j) /\ (status[r] = "preempted" => j = Len(queue))
      BY <3>2 DEF Line
    <3>4. CASE \A i \in 1..Len(queue) : ~InQ(i, r)
      <4>1. stale'[r] = 0
        <5>1. First(queue, r, j) = 0
          BY <1>0, <3>4, FirstNone DEF InQ
        <5> QED
          BY <1>1, <3>3, <5>1
      <4> QED
        BY <1>0, <1>1, <2>1, <3>4, <4>1, LineNone
    <3>5. CASE \E i \in 1..Len(queue) : InQ(i, r)
      <4>1. status[r] = "preempted" /\ j = Len(queue)
        <5>1. status[r] # "waiting"
          BY <3>5, InFlight
        <5> QED
          BY <1>1, <3>3, <5>1
      <4>2. dropStale[r]
        <5>1. SUFFICES ASSUME ~(stale[r] > 0) PROVE FALSE
          BY <1>1 DEF AwaitsStale
        <5>2. First(queue, r, j) <= 0
          BY <1>0, <3>3, <5>1
        <5> QED
          BY <3>5, <4>1, <5>2, NoneFirst
      <4>3. status'[r] = "running"
        BY <1>0, <1>1
      <4>4. \A i \in 1..Len(queue) : ~(i > j)
        BY <1>0, <4>1
      <4>5. Line(r, j)'
        BY <1>1, <3>3, <4>2, <4>3, <4>4 DEF Line, InQ
      <4> QED
        BY <1>1, <2>1, <4>5
    <3> QED
      BY <3>4, <3>5
  <2>2. CASE q # r
    <3>1. status'[q] = status[q] /\ Live(q) /\ computed'[q] = computed[q]
      BY <1>0, <1>1, <1>2, <2>2 DEF Live
    <3>2. PICK j \in 0..Len(queue) : Line(q, j)
      BY <3>1 DEF LineInv
    <3>3. Line(q, j)'
      BY <1>1, <3>1, <3>2 DEF Line, LastAt, InQ, NumTokens
    <3> QED
      BY <1>1, <3>3
  <2> QED
    BY <2>1, <2>2
<1> QED
  BY <1>2 DEF LineInv

\* What schedule() has planned, until Issue fills in the output.
LEMMA PlanNext ==
    ASSUME SchedInv, PlanInv, [Next]_vars PROVE PlanInv'
<1>0. cur \in Call /\ cur.batch \in [Req -> Entry]
  <2>1. cur \in Call
    BY DEF SchedInv, TypeInv, EngineTypes
  <2> QED
    BY <2>1 DEF Call, Sched
<1>1. CASE cur'.batch = cur.batch
  BY <1>1 DEF PlanInv
<1>2. CASE cur' = NoCall \/ cur'.batch = EmptySched
  <2>1. \A r \in Req : EmptySched[r].nout = 0 /\ NoCall.batch = EmptySched
    BY DEF NoCall, EmptySched, NoEntry, Planned
  <2> QED
    BY <1>2, <2>1 DEF PlanInv
<1>3. ASSUME NEW r \in Req, NEW kind, NEW s, NEW n, NEW k,
             cur'.batch = [cur.batch EXCEPT ![r] = Planned(kind, s, n, k)]
      PROVE  PlanInv'
  <2>1. Planned(kind, s, n, k).nout = 0
    BY DEF Planned
  <2> QED
    BY <1>0, <1>3, <2>1 DEF PlanInv
<1>4. CASE Process \/ Ranks \/ Clients \/ UNCHANGED vars
  <2>1. UNCHANGED cur
    BY <1>4 DEF Process, Ranks, Clients, AwaitResult, UpdateFromOutput, UpdateDrafts,
               RankExecute, LastRank, RankSample, RankTakeDrafts, ResetPrefixCache,
               AddRequest, Abort, engVars, vars
  <2> QED
    BY <1>1, <2>1
<1>5. CASE Schedule
  <2>1. CASE StartStep
    <3>1. UNCHANGED cur \/ cur'.batch = NoCall.batch
      BY <2>1 DEF StartStep, NoCall
    <3> QED
      BY <1>1, <1>2, <3>1, NothingScheduled
  <2>2. CASE EndRunning
    BY <1>1, <2>2 DEF EndRunning
  <2>3. CASE EndWaiting
    BY <1>0, <1>1, <2>3 DEF EndWaiting, Call
  <2>4. CASE Issue
    BY <1>2, <2>4 DEF Issue
  <2>5. ASSUME NEW r \in Req, SkipRunning(r) \/ SkipWaiting(r) PROVE PlanInv'
    <3>1. cur'.batch = cur.batch
      BY <1>0, <2>5 DEF SkipRunning, SkipWaiting, Call
    <3> QED
      BY <1>1, <3>1
  <2>6. ASSUME NEW r \in Req, ScheduleRunning(r) PROVE PlanInv'
    <3>1. cur'.batch = [cur.batch EXCEPT ![r] = Planned("cached", computed[r], NumNew(r),
                                                   SpecScheduled(r, NumNew(r)))]
      BY <1>0, <2>6 DEF ScheduleRunning, Call
    <3> QED
      BY <1>3, <3>1
  <2>7. ASSUME NEW r \in Req, Admit(r) PROVE PlanInv'
    <3>1. PICK kind \in {"new", "resumed"}, k \in {0, NumSpec} :
            cur' = [cur EXCEPT !.budget = @ - AdmitTokens(r),
                               !.batch[r] = Planned(kind, 0, AdmitTokens(r), k)]
      BY <2>7 DEF Admit
    <3>2. cur'.batch = [cur.batch EXCEPT ![r] = Planned(kind, 0, AdmitTokens(r), k)]
      BY <1>0, <3>1 DEF Call
    <3> QED
      BY <1>3, <3>2
  <2>8. ASSUME NEW r \in Req, NEW v \in Req, PreemptLast(r, v) PROVE PlanInv'
    <3>1. cur'.batch = cur.batch
      BY <1>0, <2>8 DEF PreemptLast, Call
    <3> QED
      BY <1>1, <3>1
  <2> QED
    BY <1>5, <2>1, <2>2, <2>3, <2>4, <2>5, <2>6, <2>7, <2>8 DEF Schedule
<1> QED
  BY <1>4, <1>5 DEF Next

\* The batch that is issued takes every scheduled request one step on.
LEMMA IssueSteps ==
    ASSUME SchedInv, PlacedInv, PlanInv, Issue, NEW r \in Req, NEW o, o = Output[r]
    PROVE  /\ o \in Entry /\ o.start \in Int /\ o.n \in Int /\ o.k \in Nat
           /\ o.kind = "none" => computed'[r] = computed[r]
           /\ o.kind # "none" =>
                 /\ status[r] = "running" /\ computed'[r] = computed[r] + o.n
                 /\ o.start = computed[r] /\ o.k < o.n
                 /\ o.nout = Len(out[r]) /\ (o.kind = "new" => o.nout = 0)
                 /\ End(o) <= NumTokens(r) /\ (o.k > 0 => End(o) = NumTokens(r))
<1>1. PICK e : e = cur.batch[r]
  OBVIOUS
<1>2. /\ o \in Entry /\ o.kind = e.kind
      /\ o.kind # "none" => o.start = e.start /\ o.n = e.n /\ o.k = e.k
  BY <1>1, OutputFields
<1>3. o.start \in Int /\ o.n \in Int /\ o.k \in Nat
  BY <1>2 DEF Entry
<1>4. o.kind = "none" => computed'[r] = computed[r]
  BY <1>1, <1>2 DEF Issue, Scheduled
<1>5. ASSUME o.kind # "none"
      PROVE  /\ status[r] = "running" /\ computed'[r] = computed[r] + o.n
             /\ o.start = computed[r] /\ o.k < o.n
             /\ End(o) <= NumTokens(r) /\ (o.k > 0 => End(o) = NumTokens(r))
             /\ e.kind = "new" => out[r] = <<>>
  <2>1. r \in Scheduled(cur.batch)
    BY <1>1, <1>2, <1>5 DEF Scheduled
  <2>2. computed'[r] = computed[r] + e.n
    BY <1>1, <2>1 DEF Issue
  <2>3. PlanOK(r, e)
    BY <1>1, <2>1 DEF SchedInv, CallInv
  <2>4. status[r] = "running" /\ e.start = computed[r]
    BY <1>1, <2>1 DEF PlacedInv
  <2> QED
    BY <1>2, <1>5, <2>2, <2>3, <2>4 DEF PlanOK, End
<1>6. ASSUME o.kind # "none" PROVE o.nout = Len(out[r]) /\ (o.kind = "new" => o.nout = 0)
  <2>1. e \in Entry /\ e.nout = 0
    <3>1. cur \in Call
      BY DEF SchedInv, TypeInv, EngineTypes
    <3>2. cur.batch \in [Req -> Entry]
      BY <3>1 DEF Call, Sched
    <3> QED
      BY <1>1, <3>2 DEF PlanInv
  <2>2. o = IF e.kind = "new" THEN NewEntry(r, e) ELSE CachedEntry(r, e)
    BY <1>1, <1>2, <1>6 DEF Output
  <2>3. CASE e.kind = "new"
    <3>1. o.nout = e.nout
      BY <2>1, <2>2, <2>3 DEF NewEntry, Entry
    <3>2. out[r] = <<>>
      BY <1>5, <1>6, <2>3
    <3> QED
      BY <2>1, <3>1, <3>2
  <2>4. CASE e.kind # "new"
    <3>1. o = CachedEntry(r, e)
      BY <2>2, <2>4
    <3>2. o.nout = Len(out[r])
      BY <2>1, <3>1 DEF CachedEntry, Entry
    <3> QED
      BY <1>2, <2>4, <3>2
  <2> QED
    BY <2>3, <2>4
<1> QED
  BY <1>2, <1>3, <1>4, <1>5, <1>6

LEMMA SampleIssue ==
    ASSUME SchedInv, FlowInv, AlignInv, PlacedInv, SampleInv, Issue
    PROVE  FlightInv' /\ LineInv' /\ OwnInv'
<1>0. /\ queue \in Seq(Batch) /\ Len(queue) \in Nat /\ Len(results) \in Nat
      /\ computed \in [Req -> Int] /\ out \in [Req -> Seq(Token)]
  BY InFlight DEF SchedInv, TypeInv, CounterTypes
<1>1. PICK b \in Batch : IssuedBatch(b)
  BY IssueBatch
<1>10. PICK m : m = Len(queue) + 1
  OBVIOUS
<1>2. /\ Len(queue') = m /\ queue'[m] = b /\ m \in Nat /\ m = Len(queue) + 1
      /\ \A i \in 1..Len(queue) : queue'[i] = queue[i]
  BY <1>0, <1>1, <1>10 DEF IssuedBatch
<1>3. /\ UNCHANGED <<status, out, stale, dropStale, results, hist>>
      /\ Len(results) <= Len(queue)
  BY DEF Issue, rankVars, AlignInv
<1>4. \A r \in Req :
        LET o == b.sched[r] IN
        /\ o.start \in Int /\ o.n \in Int /\ o.k \in Nat
        /\ o.kind = "none" => computed'[r] = computed[r]
        /\ o.kind # "none" =>
              /\ status[r] = "running" /\ computed'[r] = computed[r] + o.n
              /\ o.start = computed[r] /\ o.k < o.n
              /\ o.nout = Len(out[r]) /\ (o.kind = "new" => o.nout = 0)
              /\ End(o) <= NumTokens(r) /\ (o.k > 0 => End(o) = NumTokens(r))
  BY <1>1, IssueSteps DEF SampleInv, IssuedBatch
<1>5. \A i \in 1..Len(queue') : i \in 1..Len(queue) \/ i = m
  BY <1>0, <1>2
<1>6. /\ \A i \in 1..Len(queue), r \in Req : InQ(i, r)' <=> InQ(i, r)
      /\ \A r \in Req : InQ(m, r)' <=> b.sched[r].kind # "none"
  BY <1>2 DEF InQ
<1>7. FlightInv'
  <2> SUFFICES ASSUME NEW i \in 1..Len(queue'), NEW r \in Req, InQ(i, r)'
               PROVE  FlightAt(i, r)'
    BY DEF FlightInv
  <2>1. CASE i \in 1..Len(queue)
    <3>1. FlightAt(i, r)
      BY <1>6, <2>1 DEF SampleInv, FlightInv
    <3> QED
      BY <1>2, <1>3, <2>1, <3>1 DEF FlightAt
  <2>2. CASE i = m
    <3>1. ~(i <= Len(results))
      BY <1>0, <1>2, <1>3, <2>2
    <3>2. b.sched[r].kind # "none" /\ queue'[i] = b
      BY <1>2, <1>6, <2>2
    <3> QED
      BY <1>3, <1>4, <3>1, <3>2 DEF FlightAt, NumTokens
  <2> QED
    BY <1>5, <2>1, <2>2
<1>8. LineInv'
  <2> SUFFICES ASSUME NEW r \in Req, Live(r)'
               PROVE  \E j \in 0..Len(queue') : Line(r, j)'
    BY DEF LineInv
  <2>1. Live(r)
    BY <1>3 DEF Live
  <2>2. PICK j \in 0..Len(queue) : Line(r, j)
    BY <2>1 DEF SampleInv, LineInv
  <2>3. /\ \A x \in 0..Len(queue) : First(queue', r, x) = First(queue, r, x)
        /\ First(queue', r, Len(queue) + 1) = First(queue, r, Len(queue)) + b.sched[r].n
    BY <1>0, <1>1, FirstAppend DEF IssuedBatch
  <2>4. PICK o : o = b.sched[r]
    OBVIOUS
  <2>5. CASE o.kind = "none"
    <3>1. ASSUME NEW i \in 1..Len(queue), LastAt(i, r) PROVE LastAt(i, r)'
      <4>1. ASSUME NEW l \in (i+1)..Len(queue') PROVE l \in (i+1)..Len(queue) \/ l = m
        <5>1. l \in Int /\ i \in Int /\ i + 1 <= l /\ l <= m
          BY <1>2
        <5>2. PICK n \in Nat : n = Len(queue)
          BY <1>0
        <5>3. m = n + 1
          BY <1>2, <5>2
        <5>4. l \in (i+1)..n \/ l = m
          BY <5>1, <5>2, <5>3
        <5> QED
          BY <5>2, <5>4
      <4>2. \A l \in (i+1)..Len(queue) : l \in 1..Len(queue)
        BY <1>0
      <4>3. computed'[r] = computed[r]
        BY <1>4, <2>4, <2>5
      <4>4. (\A l \in (i+1)..Len(queue) : ~InQ(l, r)) => \A l \in (i+1)..Len(queue') : ~InQ(l, r)'
        BY <1>6, <2>4, <2>5, <4>1, <4>2
      <4> QED
        BY <1>2, <1>3, <3>1, <4>3, <4>4 DEF LastAt, NumTokens
    <3>2. ~InQ(m, r)'
      BY <1>6, <2>4, <2>5
    <3>3. CASE status[r] = "preempted"
      <4>1. b.sched[r].n = 0
        <5>1. EmptyCounts(queue')
          BY FlowIssue DEF FlowInv
        <5>2. Len(queue) + 1 \in 1..Len(queue')
          BY <1>0, <1>2
        <5> QED
          BY <1>2, <2>4, <2>5, <5>1, <5>2 DEF EmptyCounts
      <4>2. j = Len(queue)
        BY <2>2, <3>3 DEF Line
      <4>3. stale[r] = First(queue', r, Len(queue) + 1)
        <5>1. First(queue, r, Len(queue)) \in Int
          BY <1>0, FirstType
        <5> QED
          BY <2>2, <2>3, <4>1, <4>2, <5>1 DEF Line
      <4>4. PICK z : z = Len(queue) + 1
        OBVIOUS
      <4>5. \A i \in 1..Len(queue') : InQ(i, r)' /\ (i > z \/ ~dropStale[r]) => LastAt(i, r)'
        <5>1. \A i \in 1..Len(queue) : InQ(i, r) /\ (i > j \/ ~dropStale[r]) => LastAt(i, r)
          BY <2>2 DEF Line
        <5>2. \A i \in 1..Len(queue) : i > z => i > j
          BY <1>0, <4>2, <4>4
        <5> QED
          BY <1>5, <1>6, <3>1, <3>2, <5>1, <5>2
      <4>6. Line(r, z)'
        BY <1>2, <1>3, <3>3, <4>3, <4>4, <4>5 DEF Line
      <4>7. z \in 0..Len(queue')
        BY <1>0, <1>2, <4>4
      <4> QED
        BY <4>6, <4>7
    <3>4. CASE status[r] # "preempted"
      <4>1. stale[r] = First(queue', r, j) /\ j \in 0..Len(queue')
        BY <1>0, <1>2, <2>2, <2>3 DEF Line
      <4>2. \A i \in 1..Len(queue') : InQ(i, r)' /\ (i > j \/ ~dropStale[r]) => LastAt(i, r)'
        BY <1>5, <1>6, <2>2, <3>1, <3>2 DEF Line
      <4>3. Line(r, j)'
        BY <1>3, <2>2, <3>4, <4>1, <4>2 DEF Line
      <4> QED
        BY <4>1, <4>3
    <3> QED
      BY <3>3, <3>4
  <2>6. CASE o.kind # "none"
    <3>1. /\ status[r] = "running" /\ computed'[r] = computed[r] + o.n
          /\ o.start = computed[r] /\ o.k < o.n /\ End(o) <= NumTokens(r)
          /\ o.n \in Int /\ o.k \in Nat /\ computed[r] \in Int /\ NumTokens(r) \in Int
      <4>1. NumTokens(r) \in Int /\ computed[r] \in Int
        BY <1>0, ConstantTypes DEF NumTokens
      <4> QED
        BY <1>4, <2>4, <2>6, <4>1
    <3>2. ~(computed[r] >= NumTokens(r))
      BY <3>1 DEF End
    <3>3. ASSUME NEW i \in 1..Len(queue), LastAt(i, r) PROVE LastAt(i, r)'
      <4>1. End(queue[i].sched[r]) # NumTokens(r)
        BY <3>1, <3>2, <3>3 DEF LastAt
      <4> QED
        BY <1>2, <1>3, <4>1 DEF LastAt, NumTokens
    <3>4. LastAt(m, r)'
      <4>1. \A l \in (m+1)..Len(queue') : FALSE
        BY <1>0, <1>2
      <4>2. End(o) = NumTokens(r) => computed'[r] >= NumTokens(r)
        BY <3>1 DEF End
      <4> QED
        BY <1>2, <1>3, <2>4, <4>1, <4>2 DEF LastAt, NumTokens
    <3>5. stale[r] = First(queue', r, j) /\ j \in 0..Len(queue')
      BY <1>0, <1>2, <2>2, <2>3 DEF Line
    <3>6. \A i \in 1..Len(queue') : InQ(i, r)' /\ (i > j \/ ~dropStale[r]) => LastAt(i, r)'
      BY <1>5, <1>6, <2>2, <3>3, <3>4 DEF Line
    <3>7. Line(r, j)'
      BY <1>3, <2>2, <3>1, <3>5, <3>6 DEF Line
    <3> QED
      BY <3>5, <3>7
  <2> QED
    BY <2>5, <2>6
<1>9. OwnInv'
  <2>1. ASSUME NEW r \in Req, status'[r] # "finished" \/ Waits(r)' PROVE PrefixAt(r)'
    <3>1. status[r] # "finished" \/ Waits(r)
      <4>1. SUFFICES ASSUME Waits(r)', status[r] = "finished" PROVE Waits(r)
        BY <1>3, <2>1
      <4>2. PICK i \in (Len(results) + 1)..Len(queue') : InQ(i, r)'
        BY <1>3, <4>1 DEF Waits
      <4>3. i \in 1..Len(queue) \/ i = m
        BY <1>0, <1>2
      <4>4. i # m
        BY <1>4, <1>6, <4>1, <4>2
      <4>5. i \in (Len(results) + 1)..Len(queue) /\ InQ(i, r)
        BY <1>0, <1>6, <4>2, <4>3, <4>4
      <4> QED
        BY <4>5 DEF Waits
    <3>2. PrefixAt(r)
      BY <3>1 DEF SampleInv, OwnInv
    <3> QED
      BY <1>3, <3>2 DEF PrefixAt
  <2>2. ASSUME NEW r \in Req, Live(r)', NEW i \in 1..Len(results') PROVE SampledAt(i, r)'
    <3>1. SampledAt(i, r)
      BY <1>3, <2>2 DEF SampleInv, OwnInv, Live
    <3>2. i \in 1..Len(queue) /\ \A l \in (i+1)..Len(results) : l \in 1..Len(queue)
      BY <1>0, <1>3
    <3> QED
      BY <1>3, <1>6, <3>1, <3>2 DEF SampledAt
  <2> QED
    BY <2>1, <2>2 DEF OwnInv
<1> QED
  BY <1>7, <1>8, <1>9

LEMMA PrefixOf ==
    ASSUME NEW o \in Seq(Token), NEW g \in Seq(Token)
    PROVE  /\ o \o g \in Seq(Token) /\ Len(o \o g) = Len(o) + Len(g)
           /\ Len(o) <= Len(o \o g) /\ SubSeq(o \o g, 1, Len(o)) = o
           /\ Len(o) \in Nat /\ Len(g) \in Nat
<1>0. Len(o) \in Nat /\ Len(g) \in Nat
  OBVIOUS
<1>1. PICK s : s = o \o g
  OBVIOUS
<1>2. s \in Seq(Token) /\ Len(s) = Len(o) + Len(g) /\ \A i \in 1..Len(o) : s[i] = o[i]
  BY <1>1
<1>3. PICK n : n = Len(o)
  OBVIOUS
<1>4. /\ SubSeq(s, 1, n) \in Seq(Token) /\ Len(SubSeq(s, 1, n)) = n
      /\ \A i \in 1..n : SubSeq(s, 1, n)[i] = s[i]
  BY <1>0, <1>2, <1>3
<1>5. SubSeq(s, 1, n) = o
  BY <1>2, <1>3, <1>4
<1> QED
  BY <1>0, <1>1, <1>2, <1>3, <1>5

LEMMA NextIsOut ==
    ASSUME TypeInv, NEW r \in Req, NEW e \in Entry, PrefixAt(r), e.nout = Len(out[r]),
           e.kind = "new" => e.nout = 0
    PROVE  NextHist(PP, r, e) = out[r]
<1>0. /\ PP \in Rank /\ ~(PP < PP)
  BY ConstantTypes DEF Rank
<1>1. /\ hist[PP][r] \in Seq(Token) /\ out[r] \in Seq(Token)
      /\ Len(hist[PP][r]) \in Nat /\ Len(out[r]) \in Nat
  BY <1>0 DEF TypeInv, RankTypes, CounterTypes
<1>2. CASE e.kind = "new"
  <2>1. out[r] = <<>>
    BY <1>1, <1>2
  <2> QED
    BY <1>2, <2>1 DEF NextHist
<1>3. CASE e.kind # "new"
  <2>1. NextHist(PP, r, e) = SubSeq(hist[PP][r], 1, Min(e.nout, Len(hist[PP][r])))
    BY <1>0, <1>3 DEF NextHist
  <2>2. Min(e.nout, Len(hist[PP][r])) = Len(out[r])
    BY <1>1 DEF Min, PrefixAt
  <2> QED
    BY <2>1, <2>2 DEF PrefixAt
<1> QED
  BY <1>2, <1>3

\* The last rank executes the oldest batch without a result.
LEMMA SampleFacts ==
    ASSUME SchedInv, RankInv, AlignInv, SampleInv, NEW gen \in [Req -> Generated],
           NEW d \in [Req -> 0..NumSpec], AtExec(PP), MaySample(gen), RankSample(gen, d),
           NEW m, m = Len(results) + 1
    PROVE  /\ m \in 1..Len(queue) /\ m \in Nat /\ Len(queue) \in Nat
           /\ Head(rpc[PP]).batch = queue[m]
           /\ Len(results') = m /\ results'[m] = gen
           /\ \A i \in 1..Len(results) : results'[i] = results[i]
           /\ gen \in [Req -> Seq(Token)]
           /\ \A r \in Req :
                /\ queue[m].sched[r] \in Entry
                /\ InQ(m, r) => /\ NextHist(PP, r, queue[m].sched[r]) = out[r]
                                /\ hist'[PP][r] = out[r] \o gen[r]
                /\ ~InQ(m, r) => hist'[PP][r] = IF r \in queue[m].fin THEN <<>>
                                                ELSE hist[PP][r]
                /\ r \in queue[m].fin => /\ status[r] = "finished"
                                         /\ \A i \in m..Len(queue) : ~InQ(i, r)
<1>0. /\ TypeInv /\ PP \in Rank /\ rpc[PP] # <<>>
      /\ queue \in Seq(Batch) /\ Len(queue) \in Nat
      /\ results \in Seq([Req -> Seq(Token)]) /\ Len(results) \in Nat
      /\ hist \in [Rank -> [Req -> Seq(Token)]]
  <2>1. PP \in Rank /\ TypeInv
    BY ConstantTypes DEF Rank, SchedInv
  <2> QED
    BY <2>1 DEF TypeInv, EngineTypes, RankTypes, AtExec
<1>1. /\ m \in 1..Len(queue) /\ Head(rpc[PP]).batch = queue[m]
      /\ results' = Append(results, gen)
      /\ Aligned(1, rpc[PP], queue, Len(results))
  BY AlignSample
<1>2. gen \in [Req -> Seq(Token)]
  BY SampleType
<1>3. /\ Len(results') = m /\ results'[m] = gen
      /\ \A i \in 1..Len(results) : results'[i] = results[i]
  BY <1>0, <1>1, <1>2
<1>4. ASSUME NEW r \in Req, r \in queue[m].fin
      PROVE  status[r] = "finished" /\ \A i \in m..Len(queue) : ~InQ(i, r)
  <2>1. rpc[PP] \in Seq(Messages) /\ rpc[PP][1] = Head(rpc[PP]) /\ 1 \in 1..Len(rpc[PP])
        /\ Len(rpc[PP]) \in Nat
    <3>1. rpc[PP] \in Seq(Messages)
      BY <1>0 DEF TypeInv, RankTypes
    <3> QED
      BY <1>0, <3>1
  <2>2. status[r] = "finished" /\ \A j \in 1..Len(rpc[PP]) : ~Has(rpc[PP], j, r)
    BY <1>0, <1>1, <1>4, <2>1 DEF RankInv, FinishInv
  <2>3. ASSUME NEW i \in m..Len(queue), InQ(i, r) PROVE FALSE
    <3>1. PICK p, R : Places(p, 1, rpc[PP], queue, R) /\ R = Len(results)
      BY <1>1 DEF Aligned
    <3>2. i - R \in 1..(Len(queue) - R) /\ R + (i - R) = i
      BY <1>0, <1>1, <3>1
    <3>3. p[i - R] \in 1..Len(rpc[PP]) /\ rpc[PP][p[i - R]].batch = queue[R + (i - R)]
      BY <3>1, <3>2 DEF Places
    <3> QED
      BY <2>2, <2>3, <3>2, <3>3 DEF Has, At, InQ
  <2> QED
    BY <2>2, <2>3
<1>5. ASSUME NEW r \in Req
      PROVE  /\ queue[m].sched[r] \in Entry
             /\ InQ(m, r) => /\ NextHist(PP, r, queue[m].sched[r]) = out[r]
                             /\ hist'[PP][r] = out[r] \o gen[r]
             /\ ~InQ(m, r) => hist'[PP][r] = IF r \in queue[m].fin THEN <<>>
                                             ELSE hist[PP][r]
  <2>1. queue[m].sched[r] \in Entry
    BY <1>0, <1>1, Handled
  <2>2. hist'[PP][r] = IF InQ(m, r) THEN NextHist(PP, r, queue[m].sched[r]) \o gen[r]
                       ELSE IF r \in queue[m].fin THEN <<>> ELSE hist[PP][r]
    BY <1>0, <1>1 DEF RankSample, UpdateStates, Scheduled, InQ
  <2>3. ASSUME InQ(m, r) PROVE NextHist(PP, r, queue[m].sched[r]) = out[r]
    <3>1. FlightAt(m, r)
      BY <1>1, <2>3 DEF SampleInv, FlightInv
    <3>2. m \in (Len(results) + 1)..Len(queue)
      BY <1>0, <1>1
    <3>3. PrefixAt(r)
      BY <2>3, <3>2 DEF SampleInv, OwnInv, Waits
    <3> QED
      BY <1>0, <2>1, <3>1, <3>3, NextIsOut DEF FlightAt
  <2> QED
    BY <2>1, <2>2, <2>3
<1> QED
  BY <1>0, <1>1, <1>2, <1>3, <1>4, <1>5

LEMMA OwnSample ==
    ASSUME SchedInv, RankInv, AlignInv, SampleInv, NEW gen \in [Req -> Generated],
           NEW d \in [Req -> 0..NumSpec], AtExec(PP), MaySample(gen), RankSample(gen, d)
    PROVE  FlightInv' /\ OwnInv'
<1>0. UNCHANGED <<queue, out, status>>
  BY DEF RankSample, reqVars, engVars
<1>1. PICK m : m = Len(results) + 1
  OBVIOUS
<1>2. /\ m \in 1..Len(queue) /\ m \in Nat /\ Len(queue) \in Nat
      /\ Head(rpc[PP]).batch = queue[m]
      /\ Len(results') = m /\ results'[m] = gen
      /\ \A i \in 1..Len(results) : results'[i] = results[i]
      /\ gen \in [Req -> Seq(Token)]
  BY <1>1, SampleFacts
<1>3. \A r \in Req :
        /\ queue[m].sched[r] \in Entry
        /\ InQ(m, r) => /\ NextHist(PP, r, queue[m].sched[r]) = out[r]
                        /\ hist'[PP][r] = out[r] \o gen[r]
        /\ ~InQ(m, r) => hist'[PP][r] = IF r \in queue[m].fin THEN <<>>
                                        ELSE hist[PP][r]
        /\ r \in queue[m].fin => /\ status[r] = "finished"
                                 /\ \A i \in m..Len(queue) : ~InQ(i, r)
  BY <1>1, SampleFacts, ZenonT(30)
<1>4. /\ Len(results) \in Nat /\ TypeInv /\ out \in [Req -> Seq(Token)]
      /\ \A i, r : InQ(i, r)' <=> InQ(i, r)
  BY <1>0 DEF SchedInv, TypeInv, EngineTypes, CounterTypes, InQ
<1>5. FlightInv'
  <2> SUFFICES ASSUME NEW i \in 1..Len(queue), NEW r \in Req, InQ(i, r)
               PROVE  FlightAt(i, r)'
    BY <1>0, <1>4 DEF FlightInv
  <2>1. FlightAt(i, r)
    BY DEF SampleInv, FlightInv
  <2>2. CASE i \in 1..Len(results)
    <3>1. i <= Len(results) /\ results'[i] = results[i]
      BY <1>2, <1>4, <2>2
    <3> QED
      BY <1>0, <2>1, <3>1 DEF FlightAt
  <2>3. CASE i = m
    <3>1. PICK e : e = queue[m].sched[r]
      OBVIOUS
    <3>2. rpc[PP] # <<>>
      BY DEF AtExec
    <3>3. gen[r] # <<>> => e.start + e.n >= Prompt[r] + Len(NextHist(PP, r, e))
      BY <1>2, <1>4, <3>1, <3>2, SampleBound
    <3>4. e \in Entry /\ NextHist(PP, r, e) = out[r]
      BY <1>3, <2>3, <3>1
    <3>5. e.start \in Int /\ e.n \in Int /\ e.k \in Nat /\ Len(out[r]) \in Nat /\ Prompt[r] \in Nat
      BY <1>4, <3>4, ConstantTypes DEF Entry
    <3>6. gen[r] # <<>> => End(e) = Prompt[r] + e.nout
      <4>1. /\ e.nout = Len(out[r]) /\ End(e) <= Prompt[r] + e.nout
            /\ e.k > 0 => End(e) = Prompt[r] + e.nout
        BY <2>1, <2>3, <3>1 DEF FlightAt
      <4>2. CASE e.k > 0
        BY <4>1, <4>2
      <4>3. CASE e.k = 0
        <5>1. gen[r] # <<>> => e.start + e.n >= Prompt[r] + Len(out[r])
          BY <3>3, <3>4
        <5>2. End(e) = e.start + e.n
          BY <3>5, <4>3 DEF End
        <5>3. e.nout \in Nat /\ e.start + e.n \in Int
          BY <3>4, <3>5 DEF Entry
        <5> QED
          BY <3>5, <4>1, <5>1, <5>2, <5>3
      <4> QED
        BY <3>5, <4>2, <4>3
    <3> QED
      BY <1>0, <1>2, <2>1, <2>3, <3>1, <3>6 DEF FlightAt
  <2>4. CASE i > m
    <3>1. ~(i <= Len(results'))
      BY <1>2, <2>4
    <3> QED
      BY <1>0, <2>1, <3>1 DEF FlightAt
  <2> QED
    BY <1>1, <1>2, <1>4, <2>2, <2>3, <2>4
<1>6. ASSUME NEW r \in Req, status'[r] # "finished" \/ Waits(r)' PROVE PrefixAt(r)'
  <2>1. status[r] # "finished" \/ \E i \in (m+1)..Len(queue) : InQ(i, r)
    BY <1>0, <1>2, <1>4, <1>6 DEF Waits
  <2>2. r \notin queue[m].fin
    BY <1>2, <1>3, <2>1
  <2>3. PrefixAt(r)
    <3>1. \A i \in (m+1)..Len(queue) : i \in (Len(results)+1)..Len(queue)
      BY <1>1, <1>2, <1>4
    <3> QED
      BY <2>1, <3>1 DEF SampleInv, OwnInv, Waits
  <2>4. CASE InQ(m, r)
    <3>1. hist'[PP][r] = out[r] \o gen[r] /\ out[r] \in Seq(Token) /\ gen[r] \in Seq(Token)
      BY <1>2, <1>3, <1>4, <2>4
    <3> QED
      BY <1>0, <3>1, PrefixOf DEF PrefixAt
  <2>5. CASE ~InQ(m, r)
    <3>1. hist'[PP][r] = hist[PP][r]
      BY <1>3, <2>2, <2>5
    <3> QED
      BY <1>0, <2>3, <3>1 DEF PrefixAt
  <2> QED
    BY <2>4, <2>5
<1>7. ASSUME NEW r \in Req, Live(r)', NEW i \in 1..Len(results') PROVE SampledAt(i, r)'
  <2>1. Live(r) /\ r \notin queue[m].fin
    BY <1>0, <1>3, <1>7 DEF Live
  <2>2. CASE i = m
    BY <1>0, <1>2, <1>3, <1>4, <2>2 DEF SampledAt
  <2>3. CASE i # m
    <3>1. i \in 1..Len(results) /\ m \in (i+1)..Len(results')
      BY <1>1, <1>2, <1>4, <2>3
    <3>2. SampledAt(i, r)
      BY <2>1, <3>1 DEF SampleInv, OwnInv
    <3>3. \A l \in (i+1)..Len(results) : l \in (i+1)..Len(results')
      BY <1>1, <1>2, <1>4
    <3>4. CASE InQ(m, r)
      BY <1>4, <3>1, <3>4 DEF SampledAt
    <3>5. CASE ~InQ(m, r)
      <4>1. hist'[PP][r] = hist[PP][r] /\ results'[i] = results[i]
        BY <1>2, <1>3, <2>1, <3>1, <3>5
      <4> QED
        BY <1>0, <1>4, <3>2, <3>3, <4>1 DEF SampledAt
    <3> QED
      BY <3>4, <3>5
  <2> QED
    BY <2>2, <2>3
<1> QED
  BY <1>5, <1>6, <1>7 DEF OwnInv

\* What a step reads from a row that is the delivered output.
LEMMA SampleRead ==
    ASSUME TypeInv, NEW r \in Req, NEW e \in Entry, End(e) <= NumTokens(r),
           e.k > 0 => End(e) = NumTokens(r), NEW x, x = Read(r, e, out[r])
    PROVE  /\ x.lo \in Int /\ x.end \in Int
           /\ Prompt[r] <= x.lo /\ x.end <= NumTokens(r)
           /\ x.toks = SubSeq(out[r], x.lo - Prompt[r] + 1, x.end - Prompt[r])
           /\ x.drafts \subseteq {x.end}
<1>0. PICK P, o, lo, end : P = Prompt[r] /\ o = out[r] /\ lo = Max(e.start, P) /\ end = End(e)
  OBVIOUS
<1>1. /\ o \in Seq(Token) /\ Len(o) \in Nat /\ P \in Nat
      /\ e.start \in Int /\ e.n \in Int /\ e.k \in Nat
  BY <1>0, ConstantTypes DEF TypeInv, CounterTypes, Entry
<1>2. end \in Int /\ lo \in Int /\ P <= lo /\ end <= P + Len(o) /\ (e.k > 0 => end = P + Len(o))
  BY <1>0, <1>1 DEF End, Max, NumTokens
<1>3. /\ x.lo = lo /\ x.end = end
      /\ x.toks = [i \in 1..Max(0, end - lo) |->
                     IF lo - P + i <= Len(o) THEN o[lo - P + i] ELSE Garbage]
      /\ x.drafts = IF e.k = 0 THEN {} ELSE {P + Len(o)}
  BY <1>0 DEF Read
<1>4. PICK a, b, n : a = lo - P + 1 /\ b = end - P /\ n = Max(0, end - lo)
  OBVIOUS
<1>5. /\ a \in Int /\ b \in Int /\ 1 <= a /\ b <= Len(o) /\ n \in Nat
      /\ n = IF a <= b THEN b - a + 1 ELSE 0
  BY <1>1, <1>2, <1>4 DEF Max
<1>6. PICK t : t = SubSeq(o, a, b)
  OBVIOUS
<1>7. /\ t \in Seq(Token) /\ Len(t) = n
      /\ \A i \in 1..(b - a + 1) : t[i] = o[a + i - 1]
  BY <1>1, <1>5, <1>6, SubSeqType
<1>8. ASSUME NEW i \in 1..n PROVE x.toks[i] = t[i]
  <2>1. i \in 1..(b - a + 1) /\ lo - P + i <= Len(o) /\ a + i - 1 = lo - P + i
    BY <1>1, <1>2, <1>4, <1>5
  <2>2. t[i] = o[lo - P + i]
    BY <1>7, <2>1
  <2> QED
    BY <1>3, <1>4, <2>1, <2>2
<1>9. x.toks = t
  <2>1. t = [i \in 1..n |-> t[i]]
    BY <1>7
  <2> QED
    BY <1>3, <1>4, <1>8, <2>1
<1>10. x.drafts \subseteq {end}
  BY <1>1, <1>2, <1>3
<1> QED
  BY <1>0, <1>2, <1>3, <1>4, <1>6, <1>9, <1>10

LEMMA ReadSample ==
    ASSUME SchedInv, RankInv, AlignInv, SampleInv, NEW gen \in [Req -> Generated],
           NEW d \in [Req -> 0..NumSpec], AtExec(PP), MaySample(gen), RankSample(gen, d)
    PROVE  ReadAt(PP)'
<1>0. /\ UNCHANGED out /\ TypeInv /\ RowInv /\ PP \in Rank
      /\ inputs = [k \in Rank |-> inputs[k]]
  BY ConstantTypes DEF RankSample, reqVars, SchedInv, RankInv, RowInv, Rank
<1>1. PICK m : m = Len(results) + 1
  OBVIOUS
<1>2. PICK b : b = queue[m]
  OBVIOUS
<1>3. Head(rpc[PP]).batch = b /\ m \in 1..Len(queue)
  BY <1>1, <1>2, SampleFacts
<1>4. inputs'[PP] = [r \in Scheduled(b.sched) |->
                        Read(r, b.sched[r], NextRow(PP, r, b.sched[r], Kept(PP, b)))]
  BY <1>0, <1>3 DEF RankSample, UpdateStates
<1>5. ASSUME NEW r \in Scheduled(b.sched)
      PROVE  LET x == inputs'[PP][r] IN
             /\ r \in Req /\ x.lo \in Int /\ x.end \in Int
             /\ Prompt[r] <= x.lo /\ x.end <= NumTokens(r)
             /\ x.toks = SubSeq(out[r], x.lo - Prompt[r] + 1, x.end - Prompt[r])
             /\ x.drafts \subseteq {x.end}
  <2>1. r \in Req /\ InQ(m, r)
    BY <1>2 DEF Scheduled, InQ
  <2>2. PICK e : e = b.sched[r]
    OBVIOUS
  <2>3. e \in Entry /\ NextHist(PP, r, e) = out[r]
    BY <1>1, <1>2, <2>1, <2>2, SampleFacts
  <2>4. FlightAt(m, r)
    BY <1>3, <2>1 DEF SampleInv, FlightInv
  <2>5. End(e) <= NumTokens(r) /\ (e.k > 0 => End(e) = NumTokens(r))
    BY <1>2, <2>2, <2>4 DEF FlightAt, NumTokens
  <2>6. PICK kept : kept = Kept(PP, b)
    OBVIOUS
  <2>7. kept \in SUBSET inBatch[PP] /\ (r \in kept => e.kind = "cached")
    BY <2>2, <2>6 DEF Kept
  <2>8. NextRow(PP, r, e, kept) = out[r]
    BY <1>0, <2>1, <2>3, <2>7, SampleRow
  <2>9. PICK x : x = inputs'[PP][r]
    OBVIOUS
  <2>10. x = Read(r, e, out[r])
    BY <1>4, <2>2, <2>6, <2>8, <2>9
  <2>11. /\ x.lo \in Int /\ x.end \in Int
         /\ Prompt[r] <= x.lo /\ x.end <= NumTokens(r)
         /\ x.toks = SubSeq(out[r], x.lo - Prompt[r] + 1, x.end - Prompt[r])
         /\ x.drafts \subseteq {x.end}
    BY <1>0, <2>1, <2>3, <2>5, <2>10, SampleRead
  <2> QED
    BY <2>1, <2>9, <2>11
<1>6. DOMAIN inputs'[PP] = Scheduled(b.sched)
  BY <1>4
<1> QED
  BY <1>0, <1>5, <1>6 DEF ReadAt, InputAgrees, NumTokens

\* What was read stays right while the output grows.
LEMMA ReadGrows ==
    ASSUME TypeInv, ReadAt(PP), inputs'[PP] = inputs[PP],
           \A r \in Req : \E t \in Seq(Token) : out'[r] = out[r] \o t
    PROVE  ReadAt(PP)'
<1> SUFFICES ASSUME NEW r \in DOMAIN inputs[PP], NEW x, x = inputs[PP][r]
             PROVE  /\ r \in Req /\ x.lo \in Int /\ x.end \in Int
                    /\ Prompt[r] <= x.lo /\ x.end <= NumTokens(r)'
                    /\ x.toks = SubSeq(out'[r], x.lo - Prompt[r] + 1, x.end - Prompt[r])
                    /\ x.drafts \subseteq {x.end}
  BY DEF ReadAt, InputAgrees
<1>1. /\ r \in Req /\ x.lo \in Int /\ x.end \in Int
      /\ Prompt[r] <= x.lo /\ x.end <= NumTokens(r)
      /\ x.toks = SubSeq(out[r], x.lo - Prompt[r] + 1, x.end - Prompt[r])
      /\ x.drafts \subseteq {x.end}
  BY DEF ReadAt, InputAgrees
<1>2. PICK t \in Seq(Token) : out'[r] = out[r] \o t
  BY <1>1
<1>3. PICK o : o = out[r]
  OBVIOUS
<1>4. /\ o \in Seq(Token) /\ Len(o) \in Nat /\ Len(t) \in Nat
      /\ Len(o \o t) = Len(o) + Len(t) /\ Prompt[r] \in Nat
  <2>1. o \in Seq(Token) /\ Prompt[r] \in Nat
    BY <1>1, <1>3, ConstantTypes DEF TypeInv, CounterTypes
  <2> QED
    BY <2>1
<1>5. x.end <= NumTokens(r)'
  BY <1>1, <1>2, <1>3, <1>4 DEF NumTokens
<1>6. PICK a, b : a = x.lo - Prompt[r] + 1 /\ b = x.end - Prompt[r]
  OBVIOUS
<1>7. a \in Int /\ b \in Int /\ 1 <= a /\ b <= Len(o)
  <2>1. /\ x.lo \in Int /\ x.end \in Int /\ Prompt[r] <= x.lo
        /\ x.end <= Prompt[r] + Len(o)
    BY <1>1, <1>3 DEF NumTokens
  <2> QED
    BY <1>4, <1>6, <2>1, SMTT(30)
<1>8. SubSeq(o \o t, a, b) = SubSeq(o, a, b)
  BY <1>4, <1>7, SubSeqConcat
<1> QED
  BY <1>1, <1>2, <1>3, <1>5, <1>6, <1>8

LEMMA ReadNext ==
    ASSUME SchedInv, RankInv, AlignInv, SampleInv, ReadAt(PP), [Next]_vars
    PROVE  ReadAt(PP)'
<1>0. TypeInv /\ out \in [Req -> Seq(Token)] /\ PP \in Rank
  <2>1. TypeInv /\ PP \in Rank
    BY ConstantTypes DEF SchedInv, Rank
  <2> QED
    BY <2>1 DEF TypeInv, CounterTypes
<1>1. ASSUME UNCHANGED out, inputs'[PP] = inputs[PP] PROVE ReadAt(PP)'
  BY <1>1 DEF ReadAt, InputAgrees, NumTokens
<1>2. CASE Schedule \/ Clients \/ UNCHANGED vars \/ AwaitResult \/ UpdateDrafts \/ RankTakeDrafts
  <2>1. UNCHANGED <<out, inputs>>
    BY <1>2 DEF Schedule, StartStep, EndRunning, EndWaiting, Issue, SkipRunning,
        ScheduleRunning, SkipWaiting, Admit, PreemptLast, Clients, ResetPrefixCache,
        AddRequest, Abort, AwaitResult, UpdateDrafts, RankTakeDrafts, reqVars, rankVars, vars
  <2> QED
    BY <1>1, <2>1
<1>3. CASE UpdateFromOutput
  <2>1. inputs'[PP] = inputs[PP]
    BY <1>3 DEF UpdateFromOutput, rankVars
  <2>2. \A r \in Req : \E t \in Seq(Token) : out'[r] = out[r] \o t
    BY <1>3, Delivery
  <2> QED
    BY <1>0, <2>1, <2>2, ReadGrows
<1>4. ASSUME NEW k \in Rank, RankExecute(k) PROVE ReadAt(PP)'
  <2>1. UNCHANGED out /\ k < PP
    BY <1>4 DEF RankExecute, reqVars
  <2>2. k # PP
    BY <2>1, ConstantTypes
  <2>3. inputs'[PP] = inputs[PP]
    BY <1>0, <1>4, <2>2 DEF RankExecute, UpdateStates, RankInv, RowInv
  <2> QED
    BY <1>1, <2>1, <2>3
<1>5. CASE LastRank
  BY <1>2, <1>5, ReadSample DEF LastRank
<1> QED
  BY <1>2, <1>3, <1>4, <1>5 DEF Next, Process, Ranks

\* The batch that is processed.
LEMMA HeadFacts ==
    ASSUME SchedInv, AlignInv, pc = "update"
    PROVE  /\ queue \in Seq(Batch) /\ queue # <<>> /\ Len(queue) \in Nat /\ 1 \in 1..Len(queue)
           /\ results \in Seq([Req -> Seq(Token)]) /\ results # <<>> /\ Len(results) \in Nat
           /\ 1 \in 1..Len(results) /\ Len(results) <= Len(queue)
           /\ Head(queue) = queue[1] /\ Head(results) = results[1]
           /\ \A r \in Req : results[1][r] \in Seq(Token)
<1>1. /\ queue \in Seq(Batch) /\ queue # <<>>
      /\ results \in Seq([Req -> Seq(Token)]) /\ results # <<>>
      /\ Len(results) <= Len(queue)
  BY DEF SchedInv, TypeInv, EngineTypes, AlignInv
<1>2. /\ Len(queue) \in Nat /\ 1 \in 1..Len(queue) /\ Len(results) \in Nat
      /\ 1 \in 1..Len(results) /\ Head(queue) = queue[1] /\ Head(results) = results[1]
      /\ results[1] \in [Req -> Seq(Token)]
  BY <1>1
<1> QED
  BY <1>1, <1>2

\* Output that is delivered comes from the step at the end of the request's tokens,
\* the last one in flight, and the last rank's copy ends with it.
LEMMA Delivered ==
    ASSUME SchedInv, FlowInv, AlignInv, SampleInv, pc = "update",
           NEW r \in Req, Delivers(r), Head(results)[r] # <<>>
    PROVE  /\ End(Head(queue).sched[r]) = NumTokens(r)
           /\ \A l \in 2..Len(queue) : ~InQ(l, r)
           /\ hist[PP][r] = out[r] \o Head(results)[r]
<1>0. /\ Len(queue) \in Nat /\ 1 \in 1..Len(queue) /\ Len(results) \in Nat
      /\ 1 \in 1..Len(results) /\ Len(results) <= Len(queue)
      /\ Head(queue) = queue[1] /\ Head(results) = results[1]
  BY HeadFacts
<1>1. Live(r) /\ InQ(1, r) /\ ~(stale[r] > 0 /\ dropStale[r])
  BY <1>0 DEF Delivers, Scheduled, InQ
<1>2. FlightAt(1, r)
  BY <1>0, <1>1 DEF SampleInv, FlightInv
<1>3. End(queue[1].sched[r]) = NumTokens(r)
  BY <1>0, <1>2 DEF FlightAt, NumTokens
<1>4. PICK j \in 0..Len(queue) : Line(r, j)
  BY <1>1 DEF SampleInv, LineInv
<1>5. 1 > j \/ ~dropStale[r]
  <2>1. SUFFICES ASSUME ~(stale[r] > 0), ~(1 > j) PROVE FALSE
    BY <1>1
  <2>2. First(queue, r, j) <= 0
    <3>1. First(queue, r, j) = stale[r] /\ stale[r] \in Int
      BY <1>4 DEF Line, SchedInv, TypeInv, CounterTypes
    <3> QED
      BY <2>1, <3>1
  <2>3. 1 \in 1..j
    BY <1>0, <2>1
  <2> QED
    BY <1>1, <2>2, <2>3, NoneFirst
<1>6. LastAt(1, r)
  BY <1>0, <1>1, <1>4, <1>5 DEF Line
<1>7. \A l \in 2..Len(queue) : ~InQ(l, r)
  BY <1>3, <1>6 DEF LastAt
<1>8. SampledAt(1, r)
  BY <1>0, <1>1 DEF SampleInv, OwnInv
<1>9. \A l \in (1+1)..Len(results) : l \in 2..Len(queue)
  BY <1>0
<1>10. hist[PP][r] = out[r] \o results[1][r]
  BY <1>1, <1>7, <1>8, <1>9 DEF SampledAt
<1> QED
  BY <1>0, <1>3, <1>7, <1>10

LEMMA NothingTrimmed ==
    ASSUME NEW r, NEW g
    PROVE  /\ g = <<>> => Trimmed(r, g) = g
           /\ ~Stops(r, g) => Trimmed(r, g) = g
<1>1. ~Stops(r, <<>>)
  BY DEF Stops
<1> QED
  BY <1>1 DEF Trimmed

\* What processing an output does to one request.
LEMMA UpdateFacts ==
    ASSUME SchedInv, FlowInv, AlignInv, SampleInv, UpdateFromOutput, NEW r \in Req,
           NEW g, g = Head(results)[r]
    PROVE  /\ out'[r] = IF Delivers(r) THEN out[r] \o Trimmed(r, g) ELSE out[r]
           /\ ~Delivers(r) \/ g = <<>> => out'[r] = out[r]
           /\ status'[r] = IF Stopped(r) THEN "finished" ELSE status[r]
           /\ ~Stopped(r) => dropStale'[r] = dropStale[r]
           /\ Live(r)' => /\ Live(r) /\ ~Stopped(r)
                          /\ stale'[r] = IF stale[r] > 0
                                         THEN stale[r] - queue[1].sched[r].n ELSE stale[r]
                          /\ g = <<>> \/ ~Delivers(r) => computed'[r] = computed[r]
<1>0. /\ pc = "update" /\ Head(queue) = queue[1] /\ g = results[1][r] /\ g \in Seq(Token)
      /\ 1 \in 1..Len(queue) /\ out[r] \in Seq(Token) /\ computed[r] \in Int
      /\ stale[r] \in Int
  <2>1. pc = "update"
    BY DEF UpdateFromOutput
  <2>2. out[r] \in Seq(Token) /\ computed[r] \in Int /\ stale[r] \in Int
    BY DEF SchedInv, TypeInv, CounterTypes
  <2> QED
    BY <2>1, <2>2, HeadFacts
<1>1. out'[r] = IF Delivers(r) THEN out[r] \o Trimmed(r, g) ELSE out[r]
  <2>1. Delivers(r) => r \in Scheduled(Head(queue).sched) /\ Live(r)
    BY DEF Delivers
  <2>2. out'[r] = IF r \in {q \in Scheduled(Head(queue).sched) : Live(q)} /\ Delivers(r)
                  THEN out[r] \o Trimmed(r, g) ELSE out[r]
    BY DEF UpdateFromOutput
  <2> QED
    BY <2>1, <2>2
<1>2. ASSUME g = <<>> PROVE out[r] \o Trimmed(r, g) = out[r]
  <2>1. Trimmed(r, g) = <<>>
    BY <1>2, NothingTrimmed
  <2>2. out[r] \o <<>> = out[r]
    BY <1>0
  <2> QED
    BY <2>1, <2>2
<1> DEFINE F == {q \in {q \in Scheduled(Head(queue).sched) : Live(q)} : Stopped(q)}
           S == {q \in Scheduled(Head(queue).sched) : Live(q)}
<1>3. r \in F <=> Stopped(r)
  BY DEF Stopped, Delivers
<1>4. /\ status'[r] = IF r \in F THEN "finished" ELSE status[r]
      /\ dropStale'[r] = IF r \in F THEN FALSE ELSE dropStale[r]
      /\ stale'[r] = IF r \in F THEN 0
                     ELSE IF r \in S /\ stale[r] > 0 THEN stale[r] - Head(queue).sched[r].n
                     ELSE stale[r]
      /\ computed'[r] = IF r \in F THEN 0
                        ELSE IF r \in S /\ Delivers(r) /\ stale[r] = 0 /\ computed[r] > 0
                        THEN computed[r] - Rejected(r) ELSE computed[r]
  BY DEF UpdateFromOutput, FreeRequests, Forget
<1>5. r \in S <=> r \in Scheduled(Head(queue).sched) /\ Live(r)
  OBVIOUS
<1> HIDE DEF F, S
<1>6. ASSUME Live(r)'
      PROVE  /\ Live(r) /\ ~Stopped(r)
             /\ stale'[r] = IF stale[r] > 0 THEN stale[r] - queue[1].sched[r].n ELSE stale[r]
             /\ g = <<>> \/ ~Delivers(r) => computed'[r] = computed[r]
  <2>1. Live(r) /\ ~Stopped(r)
    BY <1>3, <1>4, <1>6 DEF Live
  <2>2. r \notin F
    BY <1>3, <2>1
  <2>3. r \notin S => queue[1].sched[r].n = 0
    BY <1>0, <1>5, <2>1 DEF Scheduled, FlowInv, EmptyCounts
  <2>4. stale'[r] = IF stale[r] > 0 THEN stale[r] - queue[1].sched[r].n ELSE stale[r]
    <3>1. CASE r \in S
      BY <1>0, <1>4, <2>2, <3>1
    <3>2. CASE r \notin S
      <4>1. stale'[r] = stale[r]
        BY <1>4, <2>2, <3>2
      <4> QED
        BY <1>0, <2>3, <3>2, <4>1
    <3> QED
      BY <3>1, <3>2
  <2>5. ASSUME g = <<>> \/ ~Delivers(r) PROVE computed'[r] = computed[r]
    <3>1. CASE ~Delivers(r)
      BY <1>4, <2>2, <3>1
    <3>2. CASE g = <<>>
      <4>1. Rejected(r) = 0
        BY <3>2 DEF Rejected
      <4> QED
        BY <1>0, <1>4, <2>2, <4>1
    <3> QED
      BY <2>5, <3>1, <3>2
  <2> QED
    BY <2>1, <2>4, <2>5
<1>7. status'[r] = IF Stopped(r) THEN "finished" ELSE status[r]
  BY <1>3, <1>4
<1>8. ~Stopped(r) => dropStale'[r] = dropStale[r]
  BY <1>3, <1>4
<1> QED
  BY <1>1, <1>2, <1>6, <1>7, <1>8

LEMMA SampleUpdate ==
    ASSUME SchedInv, FlowInv, AlignInv, SampleInv, UpdateFromOutput
    PROVE  FlightInv' /\ LineInv' /\ OwnInv'
<1>0. /\ queue \in Seq(Batch) /\ queue # <<>> /\ Len(queue) \in Nat /\ 1 \in 1..Len(queue)
      /\ results \in Seq([Req -> Seq(Token)]) /\ results # <<>> /\ Len(results) \in Nat
      /\ 1 \in 1..Len(results) /\ Len(results) <= Len(queue)
      /\ Head(queue) = queue[1] /\ Head(results) = results[1]
      /\ pc = "update" /\ queue' = Tail(queue) /\ results' = Tail(results) /\ UNCHANGED hist
  <2>1. pc = "update" /\ queue' = Tail(queue) /\ results' = Tail(results) /\ UNCHANGED hist
    BY DEF UpdateFromOutput, rankVars
  <2> QED
    BY <2>1, HeadFacts
<1>1. /\ Len(queue') = Len(queue) - 1 /\ Len(results') = Len(results) - 1
      /\ \A i \in 1..Len(queue') : i + 1 \in 2..Len(queue) /\ queue'[i] = queue[i + 1]
      /\ \A i \in 1..Len(results') : i + 1 \in 1..Len(results) /\ results'[i] = results[i + 1]
  BY <1>0
<1>2. \A i \in 1..Len(queue'), r \in Req : InQ(i, r)' <=> InQ(i + 1, r)
  BY <1>1 DEF InQ
<1>3. ASSUME NEW r \in Req, NEW i \in 2..Len(queue), InQ(i, r)
      PROVE  /\ out'[r] = out[r] /\ (Live(r)' => computed'[r] = computed[r])
             /\ ~Delivers(r) \/ results[1][r] = <<>>
  <2>1. ~Delivers(r) \/ results[1][r] = <<>>
    BY <1>0, <1>3, Delivered
  <2> QED
    BY <1>0, <2>1, UpdateFacts
<1>4. FlightInv'
  <2> SUFFICES ASSUME NEW i \in 1..Len(queue'), NEW r \in Req, InQ(i, r)'
               PROVE  FlightAt(i, r)'
    BY DEF FlightInv
  <2>1. i + 1 \in 2..Len(queue) /\ i + 1 \in 1..Len(queue) /\ InQ(i + 1, r)
        /\ queue'[i] = queue[i + 1]
    BY <1>0, <1>1, <1>2
  <2>2. FlightAt(i + 1, r) /\ out'[r] = out[r]
    BY <1>3, <2>1 DEF SampleInv, FlightInv
  <2>3. i <= Len(results') => i + 1 <= Len(results) /\ results'[i] = results[i + 1]
    BY <1>0, <1>1
  <2> QED
    BY <2>1, <2>2, <2>3 DEF FlightAt
<1>5. LineInv'
  <2> SUFFICES ASSUME NEW r \in Req, Live(r)'
               PROVE  \E j \in 0..Len(queue') : Line(r, j)'
    BY DEF LineInv
  <2>1. PICK n : n = queue[1].sched[r].n
    OBVIOUS
  <2>2. /\ Live(r) /\ status'[r] = status[r] /\ dropStale'[r] = dropStale[r]
        /\ stale'[r] = IF stale[r] > 0 THEN stale[r] - n ELSE stale[r]
    BY <2>1, UpdateFacts
  <2>3. PICK j \in 0..Len(queue) : Line(r, j)
    BY <2>2 DEF SampleInv, LineInv
  <2>4. stale[r] = First(queue, r, j) /\ First(queue, r, j) \in Int
    BY <1>0, <2>3, FirstType DEF Line
  <2>5. PICK z : z = IF j = 0 THEN 0 ELSE j - 1
    OBVIOUS
  <2>6. z \in 0..Len(queue')
    BY <1>0, <1>1, <2>5
  <2>7. stale'[r] = First(queue', r, z)
    <3>1. CASE j = 0
      <4>1. First(queue, r, 0) = 0 /\ First(queue', r, 0) = 0
        <5>1. queue' \in Seq(Batch)
          BY <1>0
        <5> QED
          BY <1>0, <5>1, FirstType
      <4> QED
        BY <2>2, <2>4, <2>5, <3>1, <4>1
    <3>2. CASE j # 0
      <4>1. j \in 1..Len(queue) /\ 1 \in 1..j
        BY <1>0, <3>2
      <4>2. First(queue', r, j - 1) = First(queue, r, j) - n
        BY <1>0, <2>1, <4>1, FirstTail
      <4>3. ~(stale[r] > 0) => n = 0 /\ stale[r] = 0
        <5>1. SUFFICES ASSUME ~(stale[r] > 0) PROVE n = 0 /\ stale[r] = 0
          OBVIOUS
        <5>2. First(queue, r, j) <= 0
          BY <2>4, <5>1
        <5>3. First(queue, r, j) = 0 /\ \A i \in 1..j : ~InQ(i, r)
          BY <5>2, NoneFirst
        <5>4. ~InQ(1, r)
          BY <4>1, <5>3
        <5> QED
          BY <1>0, <2>1, <2>4, <5>3, <5>4, InFlight
      <4>4. stale'[r] = stale[r] - n
        BY <2>2, <2>4, <4>3
      <4> QED
        BY <2>4, <2>5, <3>2, <4>2, <4>4
    <3> QED
      BY <3>1, <3>2
  <2>8. status[r] = "preempted" => z = Len(queue')
    <3>1. status[r] = "preempted" => j = Len(queue)
      BY <2>3 DEF Line
    <3>2. Len(queue) # 0
      BY <1>0
    <3> QED
      BY <1>0, <1>1, <2>5, <3>1, <3>2
  <2>9. status[r] = "running" /\ ~dropStale[r] => z = 0
    BY <2>3, <2>5 DEF Line
  <2>10. ASSUME NEW i \in 1..Len(queue'), InQ(i, r)', i > z \/ ~dropStale[r]
         PROVE  LastAt(i, r)'
    <3>1. /\ i + 1 \in 2..Len(queue) /\ i + 1 \in 1..Len(queue) /\ InQ(i + 1, r)
          /\ queue'[i] = queue[i + 1]
      BY <1>0, <1>1, <1>2, <2>10
    <3>2. i > z => i + 1 > j
      BY <1>0, <2>5
    <3>3. LastAt(i + 1, r)
      BY <2>3, <2>10, <3>1, <3>2 DEF Line
    <3>4. out'[r] = out[r] /\ computed'[r] = computed[r]
      BY <1>3, <3>1
    <3>5. (\A l \in (i + 1 + 1)..Len(queue) : ~InQ(l, r)) =>
              \A l \in (i + 1)..Len(queue') : ~InQ(l, r)'
      <4>1. ASSUME NEW l \in (i+1)..Len(queue')
            PROVE  l + 1 \in (i + 1 + 1)..Len(queue) /\ l \in 1..Len(queue')
        BY <1>0, <1>1
      <4> QED
        BY <1>2, <4>1
    <3> QED
      BY <2>2, <3>1, <3>3, <3>4, <3>5 DEF LastAt, NumTokens
  <2>11. Line(r, z)'
    BY <2>2, <2>7, <2>8, <2>9, <2>10 DEF Line
  <2> QED
    BY <2>6, <2>11
<1>6. OwnInv'
  <2>1. ASSUME NEW r \in Req, status'[r] # "finished" \/ Waits(r)' PROVE PrefixAt(r)'
    <3>1. Waits(r)' => \E i \in 2..Len(queue) : i \in (Len(results)+1)..Len(queue) /\ InQ(i, r)
      <4>1. SUFFICES ASSUME NEW i \in (Len(results')+1)..Len(queue'), InQ(i, r)'
                     PROVE  /\ i + 1 \in (Len(results)+1)..Len(queue)
                            /\ i + 1 \in 2..Len(queue) /\ InQ(i + 1, r)
        BY DEF Waits
      <4>2. i \in 1..Len(queue') /\ i + 1 \in (Len(results)+1)..Len(queue)
        BY <1>0, <1>1
      <4> QED
        BY <1>1, <1>2, <4>1, <4>2
    <3>2. PICK g : g = Head(results)[r]
      OBVIOUS
    <3>3. /\ out'[r] = IF Delivers(r) THEN out[r] \o Trimmed(r, g) ELSE out[r]
          /\ ~Delivers(r) \/ g = <<>> => out'[r] = out[r]
          /\ status'[r] = IF Stopped(r) THEN "finished" ELSE status[r]
      BY <3>2, UpdateFacts
    <3>4. CASE ~Delivers(r) \/ g = <<>>
      <4>1. out'[r] = out[r]
        BY <3>3, <3>4
      <4>2. status[r] # "finished" \/ Waits(r)
        BY <2>1, <3>1, <3>3 DEF Waits
      <4> QED
        BY <1>0, <4>1, <4>2 DEF SampleInv, OwnInv, PrefixAt
    <3>5. CASE Delivers(r) /\ g # <<>>
      <4>1. (\A l \in 2..Len(queue) : ~InQ(l, r)) /\ hist[PP][r] = out[r] \o g
        BY <1>0, <3>2, <3>5, Delivered
      <4>2. ~Stopped(r)
        BY <2>1, <3>1, <3>3, <4>1
      <4>3. Trimmed(r, g) = g
        BY <3>2, <3>5, <4>2, NothingTrimmed DEF Stopped
      <4>4. out'[r] = hist'[PP][r]
        BY <1>0, <3>3, <3>5, <4>1, <4>3
      <4>5. PICK h : h = hist'[PP][r]
        OBVIOUS
      <4>6. h \in Seq(Token)
        <5>1. PP \in Rank
          BY ConstantTypes DEF Rank
        <5> QED
          BY <1>0, <4>5, <5>1 DEF SchedInv, TypeInv, RankTypes
      <4>7. Len(h) <= Len(h) /\ h = SubSeq(h, 1, Len(h))
        BY <4>6
      <4> QED
        BY <4>4, <4>5, <4>7 DEF PrefixAt
    <3> QED
      BY <3>4, <3>5
  <2>2. ASSUME NEW r \in Req, Live(r)', NEW i \in 1..Len(results') PROVE SampledAt(i, r)'
    <3>1. SUFFICES ASSUME InQ(i, r)', \A l \in (i+1)..Len(results') : ~InQ(l, r)'
                   PROVE  hist'[PP][r] = out'[r] \o results'[i][r]
      BY DEF SampledAt
    <3>2. i \in 1..Len(queue') /\ i + 1 \in 2..Len(queue) /\ i + 1 \in 1..Len(results)
          /\ results'[i] = results[i + 1] /\ InQ(i + 1, r)
      BY <1>0, <1>1, <1>2, <3>1
    <3>3. Live(r) /\ out'[r] = out[r]
      BY <1>3, <2>2, <3>2, UpdateFacts
    <3>4. SampledAt(i + 1, r)
      BY <3>2, <3>3 DEF SampleInv, OwnInv
    <3>5. ASSUME NEW l \in (i + 1 + 1)..Len(results) PROVE ~InQ(l, r)
      <4>1. l - 1 \in (i+1)..Len(results') /\ l - 1 \in 1..Len(queue') /\ l - 1 + 1 = l
        BY <1>0, <1>1
      <4> QED
        BY <1>2, <3>1, <4>1
    <3> QED
      BY <1>0, <3>2, <3>3, <3>4, <3>5 DEF SampledAt
  <2> QED
    BY <2>1, <2>2 DEF OwnInv
<1> QED
  BY <1>4, <1>5, <1>6

LEMMA SampleSame ==
    ASSUME SchedInv, FlowInv, AlignInv, SampleInv,
           UNCHANGED <<queue, results, out, status, stale, dropStale, computed>>,
           hist'[PP] = hist[PP]
    PROVE  FlightInv' /\ LineInv' /\ OwnInv'
<1>1. \A r \in Req : /\ status'[r] # "finished" => status[r] # "finished"
                     /\ Live(r)' => Live(r) \/ status[r] = "unknown"
  BY DEF Live
<1>2. FlightInv' /\ OwnInv'
  BY <1>1, OwnSame DEF SampleInv
<1>3. LineInv'
  BY LineSame DEF SampleInv
<1> QED
  BY <1>2, <1>3

LEMMA SamplePreempt ==
    ASSUME SchedInv, FlowInv, AlignInv, SampleInv, NEW s \in Seq(Req), NEW drop,
           Preempt(s, drop), \A r \in SeqSet(s) : status[r] = "running",
           UNCHANGED <<queue, results, out, inFlight, hist>>
    PROVE  FlightInv' /\ LineInv' /\ OwnInv'
<1>1. \A r \in Req : /\ status'[r] # "finished" => status[r] # "finished"
                     /\ Live(r)' => Live(r) \/ status[r] = "unknown"
  BY DEF Preempt, Live
<1>2. FlightInv' /\ OwnInv'
  BY <1>1, OwnSame DEF SampleInv
<1>3. LineInv'
  BY LinePreempt DEF SampleInv
<1> QED
  BY <1>2, <1>3

LEMMA SampleClients ==
    ASSUME SchedInv, FlowInv, AlignInv, SampleInv, Clients
    PROVE  FlightInv' /\ LineInv' /\ OwnInv'
<1>0. status \in [Req -> {"unknown", "waiting", "running", "preempted", "finished"}]
      /\ running \in Seq(Req)
  BY DEF SchedInv, TypeInv, RequestTypes
<1>1. CASE ResetPrefixCache
  <2>1. /\ Preempt(running, TRUE) /\ UNCHANGED <<queue, results, out, inFlight, hist>>
        /\ \A r \in SeqSet(running) : status[r] = "running"
    BY <1>1 DEF ResetPrefixCache, rankVars, SchedInv, RunningInv, SeqSet
  <2> QED
    BY <1>0, <2>1, SamplePreempt
<1>2. ASSUME NEW r \in Req, AddRequest(r) PROVE FlightInv' /\ LineInv' /\ OwnInv'
  <2>1. /\ UNCHANGED <<queue, results, out, hist>> /\ status[r] = "unknown"
        /\ status' = [status EXCEPT ![r] = "waiting"]
    BY <1>2 DEF AddRequest, engVars, rankVars
  <2>2. \A q \in Req : /\ status'[q] # "finished" => status[q] # "finished"
                       /\ Live(q)' => Live(q) \/ status[q] = "unknown"
    BY <1>0, <2>1 DEF Live
  <2>3. FlightInv' /\ OwnInv'
    BY <2>1, <2>2, OwnSame DEF SampleInv
  <2>4. LineInv'
    BY <1>2, LineAddRequest DEF SampleInv
  <2> QED
    BY <2>3, <2>4
<1>3. ASSUME NEW r \in Req, Abort(r) PROVE FlightInv' /\ LineInv' /\ OwnInv'
  <2>1. UNCHANGED <<queue, results, out, hist>>
    BY <1>3 DEF Abort, engVars, rankVars
  <2>2. \A q \in Req :
          IF q = r THEN status'[q] = "finished"
          ELSE /\ status'[q] = status[q] /\ dropStale'[q] = dropStale[q]
               /\ computed'[q] = computed[q] /\ stale'[q] = stale[q]
    BY <1>3 DEF Abort, FreeRequests, Forget
  <2>3. \A q \in Req : /\ status'[q] # "finished" => status[q] # "finished"
                       /\ Live(q)' => Live(q) \/ status[q] = "unknown"
    BY <2>2 DEF Live
  <2>4. FlightInv' /\ OwnInv'
    BY <2>1, <2>3, OwnSame DEF SampleInv
  <2>5. \A q \in Req : Live(q)' => /\ status'[q] = status[q] /\ stale'[q] = stale[q]
                                   /\ dropStale'[q] = dropStale[q]
                                   /\ computed'[q] = computed[q]
    BY <2>2 DEF Live
  <2>6. LineInv'
    BY <2>1, <2>5, LineSame DEF SampleInv
  <2> QED
    BY <2>4, <2>6
<1> QED
  BY <1>1, <1>2, <1>3 DEF Clients

LEMMA SampleSchedule ==
    ASSUME SchedInv, FlowInv, AlignInv, PlacedInv, SampleInv, Schedule
    PROVE  FlightInv' /\ LineInv' /\ OwnInv'
<1>0. status \in [Req -> {"unknown", "waiting", "running", "preempted", "finished"}]
  BY DEF SchedInv, TypeInv, RequestTypes
<1>1. CASE StartStep \/ EndRunning \/ EndWaiting
           \/ \E r \in Req : SkipRunning(r) \/ SkipWaiting(r) \/ ScheduleRunning(r)
  <2>1. UNCHANGED <<queue, results, out, status, stale, dropStale, computed, hist>>
    BY <1>1 DEF StartStep, EndRunning, EndWaiting, SkipRunning, SkipWaiting,
               ScheduleRunning, reqVars, rankVars
  <2> QED
    BY <2>1, SampleSame
<1>2. CASE Issue
  BY <1>2, SampleIssue
<1>3. ASSUME NEW r \in Req, Admit(r) PROVE FlightInv' /\ LineInv' /\ OwnInv'
  <2>1. /\ UNCHANGED <<queue, results, out, hist>> /\ status[r] \in {"waiting", "preempted"}
        /\ status' = [status EXCEPT ![r] = "running"]
    BY <1>3 DEF Admit, rankVars
  <2>2. \A q \in Req : /\ status'[q] # "finished" => status[q] # "finished"
                       /\ Live(q)' => Live(q) \/ status[q] = "unknown"
    BY <1>0, <2>1 DEF Live
  <2>3. FlightInv' /\ OwnInv'
    BY <2>1, <2>2, OwnSame DEF SampleInv
  <2>4. LineInv'
    BY <1>3, LineAdmit DEF SampleInv
  <2> QED
    BY <2>3, <2>4
<1>4. ASSUME NEW r \in Req, NEW victim \in Req, PreemptLast(r, victim)
      PROVE  FlightInv' /\ LineInv' /\ OwnInv'
  <2>1. PICK s : s = <<victim>>
    OBVIOUS
  <2>2. /\ Preempt(s, FALSE) /\ UNCHANGED <<queue, results, out, inFlight, hist>>
        /\ victim = running[Len(running)] /\ AtRunning(r)
    BY <1>4, <2>1 DEF PreemptLast, rankVars, Schedulable
  <2>3. status[victim] = "running"
    <3>1. running \in Seq(Req) /\ cur.idx \in Nat /\ cur.idx > 0
      <4>1. cur \in Call /\ running \in Seq(Req)
        BY DEF SchedInv, TypeInv, RequestTypes, EngineTypes
      <4> QED
        BY <4>1 DEF Call
    <3>2. Len(running) \in DOMAIN running
      BY <2>2, <3>1 DEF AtRunning
    <3> QED
      BY <2>2, <3>2 DEF SchedInv, RunningInv
  <2>4. s \in Seq(Req) /\ \A q \in SeqSet(s) : status[q] = "running"
    BY <2>1, <2>3 DEF SeqSet
  <2> QED
    BY <2>2, <2>4, SamplePreempt
<1> QED
  BY <1>1, <1>2, <1>3, <1>4 DEF Schedule

LEMMA SampleNext ==
    ASSUME SchedInv, FlowInv, RankInv, AlignInv, PlacedInv, SampleInv, [Next]_vars
    PROVE  SampleInv'
<1>0. PP \in Rank /\ hist \in [Rank -> [Req -> Seq(Token)]]
  <2>1. PP \in Rank
    BY ConstantTypes DEF Rank
  <2> QED
    BY <2>1 DEF SchedInv, TypeInv, RankTypes
<1>1. PlanInv'
  BY PlanNext DEF SampleInv
<1>2. CASE UNCHANGED vars \/ AwaitResult \/ UpdateDrafts \/ RankTakeDrafts
  <2>1. UNCHANGED <<queue, results, out, status, stale, dropStale, computed, hist>>
    BY <1>2 DEF AwaitResult, UpdateDrafts, RankTakeDrafts, reqVars, rankVars, engVars, vars
  <2> QED
    BY <1>1, <2>1, SampleSame DEF SampleInv
<1>3. CASE UpdateFromOutput
  BY <1>1, <1>3, SampleUpdate DEF SampleInv
<1>4. ASSUME NEW k \in Rank, RankExecute(k) PROVE SampleInv'
  <2>1. UNCHANGED <<queue, results, out, status, stale, dropStale, computed>> /\ k < PP
    BY <1>4 DEF RankExecute, reqVars, engVars
  <2>2. k # PP
    BY <2>1, ConstantTypes
  <2>3. hist'[PP] = hist[PP]
    BY <1>0, <1>4, <2>2 DEF RankExecute, UpdateStates
  <2> QED
    BY <1>1, <2>1, <2>3, SampleSame DEF SampleInv
<1>5. ASSUME NEW gen \in [Req -> Generated], NEW d \in [Req -> 0..NumSpec],
             AtExec(PP), MaySample(gen), RankSample(gen, d)
      PROVE  SampleInv'
  <2>1. UNCHANGED <<queue, out, status, stale, dropStale, computed>>
    BY <1>5 DEF RankSample, reqVars, engVars
  <2>2. LineInv'
    BY <2>1, LineSame DEF SampleInv
  <2>3. FlightInv' /\ OwnInv'
    BY <1>5, OwnSample
  <2> QED
    BY <1>1, <2>2, <2>3 DEF SampleInv
<1>6. CASE Schedule
  BY <1>1, <1>6, SampleSchedule DEF SampleInv
<1>7. CASE Clients
  BY <1>1, <1>7, SampleClients DEF SampleInv
<1> QED
  BY <1>2, <1>3, <1>4, <1>5, <1>6, <1>7 DEF Next, Process, Ranks, LastRank

\* The invariant behind the theorems about the last rank.
LastInv == EngineInv /\ FlowInv /\ SampleInv /\ ReadAt(PP)

LEMMA LastInitially == Init => LastInv
<1> SUFFICES ASSUME Init PROVE LastInv
  OBVIOUS
<1>1. ReadAt(PP)
  <2>1. PP \in Rank
    BY ConstantTypes DEF Rank
  <2>2. DOMAIN inputs[PP] = {}
    BY <2>1 DEF Init
  <2> QED
    BY <2>2 DEF ReadAt
<1> QED
  BY <1>1, EngineInitially, FlowInit, SampleInit DEF LastInv

LEMMA LastNext == LastInv /\ [Next]_vars => LastInv'
BY EngineNext, FlowNext, SampleNext, ReadNext DEF LastInv, EngineInv

LEMMA LastHolds == Spec => []LastInv
BY LastInitially, LastNext, PTL DEF Spec

\* The last rank computes on the delivered tokens, although it appends what it
\* samples to its own copy and only the scheduler knows what was delivered: output
\* dropped after reset_prefix_cache is cut off by num_output_tokens before it is read.
THEOREM SamplerComputesOnDelivered == Spec => []SamplerAgrees
<1>1. LastInv => SamplerAgrees
  BY DEF LastInv, ReadAt, SamplerAgrees
<1> QED
  BY <1>1, LastHolds, PTL

\* Output that is delivered was sampled right after the request's last delivered
\* token: no position is delivered twice or skipped.
THEOREM DeliveryContinues == Spec => []DeliveredContinues
<1>1. LastInv => DeliveredContinues
  BY Delivered DEF LastInv, EngineInv, DeliveredContinues
<1> QED
  BY <1>1, LastHolds, PTL
-----------------------------------------------------------------------------
(***************************************************************************)
(* The deferred draft fetch.  The drafts of the sampled batches that are   *)
(* still in the queue lie in draftFuts, in order, and the youngest ones    *)
(* may still be with the last rank; w[i] counts the fetches of the first i *)
(* of these batches, one more if the engine waits for the drafts of the    *)
(* batch it has just processed.                                            *)
(***************************************************************************)
DraftAt(x) == IF x <= Len(draftFuts) THEN draftFuts[x] ELSE proposed

\* The last rank is about to answer a fetch.
Asked == rpc[PP] # <<>> /\ Head(rpc[PP]).op = "draft"

DraftFor(d, i) ==
    \A r \in DOMAIN d : /\ r \in Req /\ InQ(i, r)
                        /\ d[r].base = queue[i].sched[r].nout + Len(results[i][r])

DraftDone(d) == \A r \in DOMAIN d : Live(r) /\ ~dropStale[r] => d[r].base = Len(out[r])

Drafted(w) ==
    /\ w \in [0..Len(results) -> Nat]
    /\ w[0] = IF pc = "draft" THEN 1 ELSE 0
    /\ w[Len(results)] = Len(draftFuts) + IF Asked THEN 1 ELSE 0
    /\ \A i \in 1..Len(results) : w[i] = w[i-1] + IF queue[i].fetch THEN 1 ELSE 0
    /\ \A i, j \in 0..Len(results) : i <= j => w[i] <= w[j]
    /\ \A i \in 1..Len(results) : queue[i].fetch => DraftFor(DraftAt(w[i]), i)

FetchInv == \A i \in 1..Len(queue) : queue[i].fetch => \E r \in Req : InQ(i, r)

DraftInv == /\ FetchInv
            /\ \E w : Drafted(w)
            /\ pc = "draft" => DraftDone(DraftAt(1))

LEMMA AskedIs ==
    ASSUME NEW l, NEW m \in Seq(Messages), NEW q, NEW R \in Nat, NEW n \in Nat,
           n = Len(q), R <= n, Aligned(l, m, q, R)
    PROVE  l = 2 <=> m # <<>> /\ Head(m).op = "draft"
<1>1. PICK p : Places(p, l, m, q, R) /\ l \in {1, 2}
  BY DEF Aligned
<1>2. ASSUME l = 2 PROVE m # <<>> /\ Head(m).op = "draft"
  BY <1>1, <1>2 DEF Places
<1>3. ASSUME l = 1, m # <<>>, Head(m).op = "draft" PROVE FALSE
  <2>1. p[1] = 1 /\ p[n - R + 1] = Len(m) + 1 /\ Len(m) \in Nat /\ Len(m) > 0
        /\ Head(m) = m[1]
    BY <1>1, <1>3 DEF Places
  <2>2. n - R # 0
    BY <2>1
  <2>3. 1 \in 1..(n - R)
    BY <2>2
  <2>4. m[p[1]].op = "exec"
    BY <1>1, <2>3 DEF Places
  <2> QED
    BY <1>3, <2>1, <2>4
<1> QED
  BY <1>1, <1>2, <1>3

LEMMA DraftTypes ==
    ASSUME SchedInv, AlignInv
    PROVE  /\ PP \in Rank /\ rpc[PP] \in Seq(Messages)
           /\ queue \in Seq(Batch) /\ Len(queue) \in Nat
           /\ results \in Seq([Req -> Seq(Token)]) /\ Len(results) \in Nat
           /\ Len(results) <= Len(queue) /\ draftFuts \in Seq(DraftSet)
           /\ Len(draftFuts) \in Nat /\ proposed \in DraftSet
           /\ \A l : Aligned(l, rpc[PP], queue, Len(results)) => (l = 2 <=> Asked)
<1>1. PP \in Rank
  BY ConstantTypes DEF Rank
<1>2. /\ rpc[PP] \in Seq(Messages) /\ queue \in Seq(Batch)
      /\ results \in Seq([Req -> Seq(Token)]) /\ Len(results) <= Len(queue)
      /\ draftFuts \in Seq(DraftSet) /\ proposed \in DraftSet
  BY <1>1 DEF SchedInv, TypeInv, RankTypes, EngineTypes, AlignInv
<1>3. Len(queue) \in Nat /\ Len(results) \in Nat /\ Len(draftFuts) \in Nat
  BY <1>2
<1>4. ASSUME NEW l, Aligned(l, rpc[PP], queue, Len(results)) PROVE l = 2 <=> Asked
  BY <1>2, <1>3, <1>4, AskedIs DEF Asked
<1> QED
  BY <1>1, <1>2, <1>3, <1>4

LEMMA DraftInit == Init => DraftInv
<1> SUFFICES ASSUME Init PROVE DraftInv
  OBVIOUS
<1>1. queue = <<>> /\ results = <<>> /\ draftFuts = <<>> /\ pc = "top" /\ ~Asked
  <2>1. PP \in Rank
    BY ConstantTypes DEF Rank
  <2> QED
    BY <2>1 DEF Init, Asked
<1>2. PICK w : w = [i \in 0..0 |-> 0]
  OBVIOUS
<1>3. Len(results) = 0 /\ Len(queue) = 0 /\ Len(draftFuts) = 0
  BY <1>1
<1>4. w \in [0..0 -> Nat] /\ \A i \in 0..0 : w[i] = 0
  BY <1>2
<1>5. Drafted(w)
  BY <1>1, <1>3, <1>4 DEF Drafted
<1> QED
  BY <1>1, <1>3, <1>5 DEF DraftInv, FetchInv

LEMMA DraftSame ==
    ASSUME DraftInv, UNCHANGED <<queue, results, draftFuts, proposed>>, Asked' <=> Asked,
           pc' = "draft" <=> pc = "draft",
           pc = "draft" => UNCHANGED <<status, dropStale, out>>
    PROVE  DraftInv'
<1>1. FetchInv'
  BY DEF DraftInv, FetchInv, InQ
<1>2. PICK w : Drafted(w)
  BY DEF DraftInv
<1>3. \A x : DraftAt(x)' = DraftAt(x)
  BY DEF DraftAt
<1>4. Drafted(w)'
  <2>1. \A i : DraftFor(DraftAt(w[i]), i)' <=> DraftFor(DraftAt(w[i]), i)
    BY <1>3 DEF DraftFor, InQ
  <2> QED
    BY <1>2, <2>1 DEF Drafted
<1>5. pc' = "draft" => DraftDone(DraftAt(1))'
  BY <1>3 DEF DraftInv, DraftDone, Live
<1> QED
  BY <1>1, <1>4, <1>5 DEF DraftInv

LEMMA DraftIssue ==
    ASSUME SchedInv, AlignInv, DraftInv, Issue PROVE DraftInv'
<1>0. /\ PP \in Rank /\ queue \in Seq(Batch) /\ Len(queue) \in Nat /\ Len(results) \in Nat
      /\ Len(results) <= Len(queue)
  BY DraftTypes
<1>1. PICK b \in Batch : IssuedBatch(b)
  BY IssueBatch
<1>2. PICK m : m = Len(queue) + 1
  OBVIOUS
<1>3. /\ Len(queue') = m /\ queue'[m] = b /\ m \in Nat /\ m = Len(queue) + 1
      /\ \A i \in 1..Len(queue) : queue'[i] = queue[i]
  BY <1>0, <1>1, <1>2 DEF IssuedBatch
<1>4. /\ UNCHANGED <<results, draftFuts, proposed, status, dropStale, out>>
      /\ pc # "draft" /\ pc' # "draft"
  BY DEF Issue, rankVars
<1>5. FetchInv'
  <2> SUFFICES ASSUME NEW i \in 1..Len(queue'), queue'[i].fetch
               PROVE  \E r \in Req : InQ(i, r)'
    BY DEF FetchInv
  <2>1. CASE i = m
    <3>1. PICK c : /\ queue' = Append(queue, c)
                   /\ c.fetch => \E r \in Scheduled(cur.batch) : TRUE
      <4> DEFINE S == Scheduled(cur.batch)
                 done == [r \in Req |-> IF r \in S THEN computed[r] + cur.batch[r].n
                                        ELSE computed[r]]
                 fetch == NumSpec > 0 /\ \E r \in S : done[r] >= Prompt[r]
                 c == [sched |-> Output, fin |-> finishedIds, fetch |-> fetch]
      <4>1. queue' = Append(queue, c)
        BY DEF Issue
      <4>2. c.fetch = fetch
        OBVIOUS
      <4>3. fetch => \E r \in S : TRUE
        OBVIOUS
      <4> HIDE DEF c, fetch
      <4> QED
        BY <4>1, <4>2, <4>3
    <3>2. queue'[m].fetch => \E r \in Scheduled(cur.batch) : TRUE
      BY <1>0, <1>2, <3>1
    <3>3. PICK r \in Scheduled(cur.batch) : TRUE
      BY <2>1, <3>2
    <3>4. r \in Req /\ b.sched[r].kind # "none"
      <4>1. r \in Req /\ cur.batch[r].kind # "none"
        BY <3>3 DEF Scheduled
      <4>2. Output[r].kind = cur.batch[r].kind
        BY <4>1, OutputFields
      <4> QED
        BY <1>1, <4>1, <4>2 DEF IssuedBatch
    <3> QED
      BY <1>3, <2>1, <3>4 DEF InQ
  <2>2. CASE i # m
    <3>1. i \in 1..Len(queue) /\ queue'[i] = queue[i]
      BY <1>0, <1>3, <2>2
    <3>2. PICK r \in Req : InQ(i, r)
      BY <3>1 DEF DraftInv, FetchInv
    <3>3. InQ(i, r)'
      BY <3>1, <3>2 DEF InQ
    <3> QED
      BY <3>3
  <2> QED
    BY <2>1, <2>2
<1>6. PICK w : Drafted(w)
  BY DEF DraftInv
<1>7. Asked' <=> Asked
  <2>1. PICK l : Aligned(l, rpc[PP], queue, Len(results))
    BY DEF AlignInv
  <2>2. Aligned(l, rpc'[PP], queue', Len(results')) /\ AlignInv'
    BY <2>1, AlignIssued
  <2>3. l = 2 <=> Asked
    BY <2>1, DraftTypes
  <2>4. l = 2 <=> Asked'
    <3>1. SchedInv'
      BY SchedNext DEF Next, Schedule
    <3>2. rpc'[PP] \in Seq(Messages) /\ Len(queue') \in Nat /\ Len(results') \in Nat
          /\ Len(results') <= Len(queue')
      BY <1>0, <1>3, <1>4, <3>1 DEF SchedInv, TypeInv, RankTypes
    <3> QED
      BY <2>2, <3>2, AskedIs DEF Asked
  <2> QED
    BY <2>3, <2>4
<1>8. Drafted(w)'
  <2>1. \A i \in 1..Len(results) : queue'[i] = queue[i]
    BY <1>0, <1>3
  <2>2. \A x : DraftAt(x)' = DraftAt(x)
    BY <1>4 DEF DraftAt
  <2>3. \A i \in 1..Len(results) :
           DraftFor(DraftAt(w[i]), i)' <=> DraftFor(DraftAt(w[i]), i)
    BY <1>4, <2>1, <2>2 DEF DraftFor, InQ
  <2> QED
    BY <1>4, <1>6, <1>7, <2>1, <2>3 DEF Drafted
<1> QED
  BY <1>4, <1>5, <1>8 DEF DraftInv

LEMMA DraftSample ==
    ASSUME SchedInv, RankInv, AlignInv, SampleInv, DraftInv, NEW gen \in [Req -> Generated],
           NEW d \in [Req -> 0..NumSpec], AtExec(PP), MaySample(gen), RankSample(gen, d)
    PROVE  DraftInv'
<1>0. /\ PP \in Rank /\ Len(results) \in Nat /\ Len(draftFuts) \in Nat
      /\ UNCHANGED <<queue, draftFuts, status, dropStale, out, pc>> /\ TypeInv
      /\ out \in [Req -> Seq(Token)] /\ ~Asked
  <2>1. UNCHANGED <<queue, draftFuts, status, dropStale, out, pc>> /\ ~Asked
    BY DEF RankSample, reqVars, engVars, AtExec, Asked
  <2> QED
    BY <2>1, DraftTypes DEF SchedInv, TypeInv, CounterTypes
<1>1. PICK m : m = Len(results) + 1
  OBVIOUS
<1>2. /\ m \in 1..Len(queue) /\ m \in Nat /\ Len(queue) \in Nat
      /\ Head(rpc[PP]).batch = queue[m]
      /\ Len(results') = m /\ results'[m] = gen
      /\ \A i \in 1..Len(results) : results'[i] = results[i]
      /\ gen \in [Req -> Seq(Token)]
  BY <1>1, SampleFacts
<1>3. \A r \in Req : InQ(m, r) => hist'[PP][r] = out[r] \o gen[r]
  BY <1>1, SampleFacts
<1>4. FetchInv'
  BY <1>0 DEF DraftInv, FetchInv, InQ
<1>5. PICK w : Drafted(w)
  BY DEF DraftInv
<1>6. /\ w \in [0..Len(results) -> Nat] /\ w[Len(results)] = Len(draftFuts)
      /\ w[0] = IF pc = "draft" THEN 1 ELSE 0
      /\ \A i \in 1..Len(results) : w[i] = w[i-1] + IF queue[i].fetch THEN 1 ELSE 0
      /\ \A i, j \in 0..Len(results) : i <= j => w[i] <= w[j]
      /\ \A i \in 1..Len(results) : queue[i].fetch => DraftFor(DraftAt(w[i]), i)
  BY <1>0, <1>5 DEF Drafted
<1>7. \A i \in 0..Len(results) : w[i] \in Nat /\ w[i] <= Len(draftFuts)
  BY <1>0, <1>6
<1>8. Asked' <=> queue[m].fetch
  <2>1. PICK l : l = IF queue[m].fetch THEN 2 ELSE 1
    OBVIOUS
  <2>2. Aligned(l, rpc'[PP], queue, m)
    BY <1>1, <2>1, AlignSample
  <2>3. SchedInv'
    BY SchedNext DEF Next, Ranks, LastRank
  <2>4. rpc'[PP] \in Seq(Messages) /\ m <= Len(queue)
    BY <1>0, <1>2, <2>3 DEF SchedInv, TypeInv, RankTypes
  <2>5. l = 2 <=> Asked'
    BY <1>2, <2>2, <2>4, AskedIs DEF Asked
  <2> QED
    BY <2>1, <2>5
<1>9. PICK c : c \in {0, 1} /\ c = IF queue[m].fetch THEN 1 ELSE 0
  OBVIOUS
<1>10. PICK v : v = [i \in 0..m |-> IF i = m THEN Len(draftFuts) + c ELSE w[i]]
  OBVIOUS
<1>11. /\ v[m] = Len(draftFuts) + c /\ \A i \in 0..Len(results) : v[i] = w[i]
       /\ v \in [0..m -> Nat]
  BY <1>0, <1>1, <1>7, <1>9, <1>10
<1>12. \A i \in 0..m : i \in 0..Len(results) \/ i = m
  BY <1>0, <1>1
<1>13. \A i \in 1..m : v[i] = v[i-1] + IF queue[i].fetch THEN 1 ELSE 0
  <2> TAKE i \in 1..m
  <2>1. CASE i = m
    <3>1. i - 1 = Len(results) /\ Len(results) \in 0..Len(results)
      BY <1>0, <1>1, <2>1
    <3> QED
      BY <1>6, <1>9, <1>11, <2>1, <3>1
  <2>2. CASE i # m
    <3>1. i \in 1..Len(results) /\ i \in 0..Len(results) /\ i - 1 \in 0..Len(results)
      BY <1>0, <1>1, <2>2
    <3> QED
      BY <1>6, <1>11, <3>1
  <2> QED
    BY <2>1, <2>2
<1>14. \A i, j \in 0..m : i <= j => v[i] <= v[j]
  <2> SUFFICES ASSUME NEW i \in 0..m, NEW j \in 0..m, i <= j PROVE v[i] <= v[j]
    OBVIOUS
  <2>1. CASE j = m
    BY <1>0, <1>7, <1>9, <1>11, <1>12, <2>1
  <2>2. CASE j # m
    <3>1. i \in 0..Len(results) /\ j \in 0..Len(results)
      BY <1>0, <1>1, <2>2
    <3> QED
      BY <1>6, <1>11, <3>1
  <2> QED
    BY <2>1, <2>2
<1>15. ASSUME NEW i \in 1..m, queue[i].fetch PROVE DraftFor(DraftAt(v[i]), i)'
  <2>1. CASE i = m
    <3>1. ~(v[m] <= Len(draftFuts))
      BY <1>0, <1>9, <1>11, <1>15, <2>1
    <3>2. DraftAt(v[i])' = proposed'
      BY <1>0, <2>1, <3>1 DEF DraftAt
    <3>3. Scheduled(queue[m].sched) # {}
      BY <1>2, <1>15, <2>1 DEF DraftInv, FetchInv, InQ, Scheduled
    <3>4. proposed' = [r \in Scheduled(queue[m].sched) |->
                          [n |-> d[r], base |-> Len(hist'[PP][r])]]
      BY <1>2, <3>3 DEF RankSample
    <3>5. ASSUME NEW r \in Scheduled(queue[m].sched)
          PROVE  /\ r \in Req /\ InQ(m, r)
                 /\ proposed'[r].base = queue[m].sched[r].nout + Len(gen[r])
      <4>1. r \in Req /\ InQ(m, r)
        BY DEF Scheduled, InQ
      <4>2. FlightAt(m, r)
        BY <1>2, <4>1 DEF SampleInv, FlightInv
      <4>3. queue[m].sched[r].nout = Len(out[r])
        BY <4>2 DEF FlightAt
      <4>4. Len(out[r] \o gen[r]) = Len(out[r]) + Len(gen[r])
        BY <1>0, <1>2, <4>1, PrefixOf
      <4>5. proposed'[r].base = Len(hist'[PP][r])
        BY <3>4
      <4> QED
        BY <1>3, <4>1, <4>3, <4>4, <4>5
    <3>6. DOMAIN proposed' = Scheduled(queue[m].sched)
      BY <3>4
    <3> QED
      BY <1>0, <1>2, <2>1, <3>2, <3>5, <3>6 DEF DraftFor, InQ
  <2>2. CASE i # m
    <3>1. i \in 1..Len(results) /\ i \in 0..Len(results)
      BY <1>0, <1>1, <2>2
    <3>2. DraftAt(v[i])' = DraftAt(w[i])
      BY <1>0, <1>7, <1>11, <3>1 DEF DraftAt
    <3>3. DraftFor(DraftAt(w[i]), i) /\ results'[i] = results[i]
      BY <1>2, <1>6, <1>15, <3>1
    <3> QED
      BY <1>0, <3>2, <3>3 DEF DraftFor, InQ
  <2> QED
    BY <2>1, <2>2
<1>16. v[m] = Len(draftFuts) + IF Asked' THEN 1 ELSE 0
  BY <1>8, <1>9, <1>11
<1>17. v[0] = IF pc = "draft" THEN 1 ELSE 0
  BY <1>0, <1>6, <1>11
<1>18. Drafted(v)'
  BY <1>0, <1>2, <1>11, <1>13, <1>14, <1>15, <1>16, <1>17 DEF Drafted
<1>19. ASSUME pc = "draft" PROVE DraftDone(DraftAt(1))'
  <2>1. 1 <= Len(draftFuts)
    <3>1. w[0] = 1 /\ 0 \in 0..Len(results)
      BY <1>0, <1>6, <1>19
    <3> QED
      BY <1>7, <3>1
  <2>2. DraftAt(1)' = DraftAt(1)
    BY <1>0, <2>1 DEF DraftAt
  <2> QED
    BY <1>0, <1>19, <2>2 DEF DraftInv, DraftDone, Live
<1> QED
  BY <1>0, <1>4, <1>18, <1>19 DEF DraftInv

LEMMA DraftTake ==
    ASSUME SchedInv, AlignInv, DraftInv, RankTakeDrafts PROVE DraftInv'
<1>0. /\ PP \in Rank /\ Len(results) \in Nat /\ Len(draftFuts) \in Nat
      /\ draftFuts \in Seq(DraftSet)
      /\ UNCHANGED <<queue, results, proposed, status, dropStale, out, pc>> /\ Asked
      /\ draftFuts' = Append(draftFuts, [r \in DOMAIN proposed \cap inBatch[PP] |-> proposed[r]])
  <2>1. UNCHANGED <<queue, results, proposed, status, dropStale, out, pc>> /\ Asked
    BY DEF RankTakeDrafts, reqVars, rankVars, Asked
  <2>2. draftFuts' = Append(draftFuts, [r \in DOMAIN proposed \cap inBatch[PP] |-> proposed[r]])
    BY DEF RankTakeDrafts
  <2> QED
    BY <2>1, <2>2, DraftTypes
<1>1. PICK f : f = [r \in DOMAIN proposed \cap inBatch[PP] |-> proposed[r]]
  OBVIOUS
<1>2. DOMAIN f \subseteq DOMAIN proposed /\ \A r \in DOMAIN f : f[r] = proposed[r]
  BY <1>1
<1>3. PICK z : z = Len(draftFuts) + 1
  OBVIOUS
<1>4. /\ z \in Nat /\ Len(draftFuts') = z /\ draftFuts'[z] = f
      /\ \A x \in 1..Len(draftFuts) : draftFuts'[x] = draftFuts[x]
  BY <1>0, <1>1, <1>3
<1>5. ~Asked'
  <2>1. Aligned(1, rpc'[PP], queue, Len(results))
    BY AlignTakeDrafts
  <2>2. SchedInv'
    BY SchedNext DEF Next, Ranks, LastRank
  <2>3. /\ rpc'[PP] \in Seq(Messages) /\ Len(results) <= Len(queue) /\ Len(queue) \in Nat
    BY <1>0, <2>2, DraftTypes DEF SchedInv, TypeInv, RankTypes
  <2>4. 1 = 2 <=> Asked'
    BY <1>0, <2>1, <2>3, AskedIs DEF Asked
  <2> QED
    BY <2>4
<1>6. FetchInv'
  BY <1>0 DEF DraftInv, FetchInv, InQ
<1>7. PICK w : Drafted(w)
  BY DEF DraftInv
<1>8. /\ w \in [0..Len(results) -> Nat] /\ w[Len(results)] = z
      /\ \A i, j \in 0..Len(results) : i <= j => w[i] <= w[j]
      /\ \A i \in 1..Len(results) : queue[i].fetch => DraftFor(DraftAt(w[i]), i)
  BY <1>0, <1>3, <1>7 DEF Drafted
<1>9. ASSUME NEW x \in Nat, x <= z, x # 0
      PROVE  /\ DOMAIN DraftAt(x)' \subseteq DOMAIN DraftAt(x)
             /\ \A r \in DOMAIN DraftAt(x)' : DraftAt(x)'[r] = DraftAt(x)[r]
  <2>1. CASE x = z
    <3>1. DraftAt(x)' = f /\ DraftAt(x) = proposed
      BY <1>0, <1>3, <1>4, <2>1 DEF DraftAt
    <3> QED
      BY <1>2, <3>1
  <2>2. CASE x # z
    <3>1. x \in 1..Len(draftFuts) /\ x <= Len(draftFuts) /\ x <= Len(draftFuts')
      BY <1>0, <1>3, <1>4, <1>9, <2>2
    <3>2. DraftAt(x)' = DraftAt(x)
      BY <1>4, <3>1 DEF DraftAt
    <3> QED
      BY <3>2
  <2> QED
    BY <2>1, <2>2
<1>10. ASSUME NEW i \in 1..Len(results), queue[i].fetch PROVE DraftFor(DraftAt(w[i]), i)'
  <2>1. w[i] \in Nat /\ w[i] <= z /\ w[i] # 0
    <3>1. i \in 0..Len(results) /\ i - 1 \in 0..Len(results) /\ Len(results) \in 0..Len(results)
          /\ i <= Len(results)
      BY <1>0
    <3>2. w[i] = w[i-1] + 1 /\ w[i-1] \in Nat
      BY <1>7, <1>8, <1>10, <3>1 DEF Drafted
    <3> QED
      BY <1>8, <3>1, <3>2
  <2>2. PICK x : x = w[i]
    OBVIOUS
  <2>3. /\ DOMAIN DraftAt(x)' \subseteq DOMAIN DraftAt(x)
        /\ \A r \in DOMAIN DraftAt(x)' : DraftAt(x)'[r] = DraftAt(x)[r]
    BY <1>9, <2>1, <2>2
  <2>4. DraftFor(DraftAt(x), i)
    BY <1>8, <1>10, <2>2
  <2>5. DraftFor(DraftAt(x), i)'
    BY <1>0, <2>3, <2>4 DEF DraftFor, InQ
  <2> QED
    BY <2>2, <2>5
<1>11. Drafted(w)'
  BY <1>0, <1>4, <1>5, <1>7, <1>8, <1>10 DEF Drafted
<1>12. ASSUME pc = "draft" PROVE DraftDone(DraftAt(1))'
  <2>1. 1 \in Nat /\ 1 <= z /\ 1 # 0
    BY <1>0, <1>3
  <2>2. /\ DOMAIN DraftAt(1)' \subseteq DOMAIN DraftAt(1)
        /\ \A r \in DOMAIN DraftAt(1)' : DraftAt(1)'[r] = DraftAt(1)[r]
    BY <1>9, <2>1
  <2>3. DraftDone(DraftAt(1))
    BY <1>12 DEF DraftInv
  <2> QED
    BY <1>0, <2>2, <2>3 DEF DraftDone, Live
<1> QED
  BY <1>0, <1>6, <1>11, <1>12 DEF DraftInv

LEMMA DraftUpdate ==
    ASSUME SchedInv, FlowInv, AlignInv, SampleInv, DraftInv, UpdateFromOutput
    PROVE  DraftInv'
<1>0. /\ queue \in Seq(Batch) /\ queue # <<>> /\ Len(queue) \in Nat /\ 1 \in 1..Len(queue)
      /\ results \in Seq([Req -> Seq(Token)]) /\ results # <<>> /\ Len(results) \in Nat
      /\ 1 \in 1..Len(results) /\ Len(results) <= Len(queue)
      /\ Head(queue) = queue[1] /\ Head(results) = results[1]
      /\ pc = "update" /\ queue' = Tail(queue) /\ results' = Tail(results)
      /\ UNCHANGED <<draftFuts, proposed, rpc>>
      /\ pc' = (IF queue[1].fetch THEN "draft" ELSE "top")
  <2>1. pc = "update" /\ queue' = Tail(queue) /\ results' = Tail(results)
        /\ UNCHANGED <<draftFuts, proposed, rpc>>
        /\ pc' = (IF Head(queue).fetch THEN "draft" ELSE "top")
    BY DEF UpdateFromOutput, rankVars
  <2> QED
    BY <2>1, HeadFacts
<1>1. /\ Len(queue') = Len(queue) - 1 /\ Len(results') = Len(results) - 1
      /\ \A i \in 1..Len(queue') : i + 1 \in 1..Len(queue) /\ queue'[i] = queue[i + 1]
      /\ \A i \in 1..Len(results') : i + 1 \in 1..Len(results) /\ results'[i] = results[i + 1]
                                     /\ i \in 1..Len(queue')
      /\ \A i \in 0..Len(results') : i + 1 \in 0..Len(results)
  BY <1>0
<1>2. \A i \in 1..Len(queue'), r \in Req : InQ(i, r)' <=> InQ(i + 1, r)
  BY <1>1 DEF InQ
<1>3. FetchInv'
  BY <1>1, <1>2 DEF DraftInv, FetchInv
<1>4. PICK w : Drafted(w)
  BY DEF DraftInv
<1>5. /\ w \in [0..Len(results) -> Nat] /\ w[0] = 0
      /\ w[Len(results)] = Len(draftFuts) + IF Asked THEN 1 ELSE 0
      /\ \A i \in 1..Len(results) : w[i] = w[i-1] + IF queue[i].fetch THEN 1 ELSE 0
      /\ \A i, j \in 0..Len(results) : i <= j => w[i] <= w[j]
      /\ \A i \in 1..Len(results) : queue[i].fetch => DraftFor(DraftAt(w[i]), i)
  BY <1>0, <1>4 DEF Drafted
<1>6. PICK v : v = [i \in 0..Len(results') |-> w[i + 1]]
  OBVIOUS
<1>7. v \in [0..Len(results') -> Nat] /\ \A i \in 0..Len(results') : v[i] = w[i + 1]
  BY <1>1, <1>5, <1>6
<1>8. w[1] = IF queue[1].fetch THEN 1 ELSE 0
  <2>1. w[1] = w[1-1] + IF queue[1].fetch THEN 1 ELSE 0
    BY <1>0, <1>5
  <2> QED
    BY <1>5, <2>1
<1>9. v[0] = IF pc' = "draft" THEN 1 ELSE 0
  <2>1. 0 \in 0..Len(results') /\ 0 + 1 = 1
    BY <1>0, <1>1
  <2> QED
    BY <1>0, <1>7, <1>8, <2>1
<1>10. v[Len(results')] = Len(draftFuts) + IF Asked THEN 1 ELSE 0
  <2>1. Len(results') \in 0..Len(results') /\ Len(results') + 1 = Len(results)
    BY <1>0, <1>1
  <2> QED
    BY <1>5, <1>7, <2>1
<1>11. \A i \in 1..Len(results') : v[i] = v[i-1] + IF queue'[i].fetch THEN 1 ELSE 0
  <2> TAKE i \in 1..Len(results')
  <2>1. /\ i \in 0..Len(results') /\ i - 1 \in 0..Len(results') /\ i - 1 + 1 = i
        /\ i + 1 \in 1..Len(results) /\ i + 1 - 1 = i /\ queue'[i] = queue[i + 1]
    BY <1>0, <1>1
  <2>2. w[i + 1] = w[i + 1 - 1] + IF queue[i + 1].fetch THEN 1 ELSE 0
    BY <1>5, <2>1
  <2> QED
    BY <1>7, <2>1, <2>2
<1>12. \A i, j \in 0..Len(results') : i <= j => v[i] <= v[j]
  BY <1>1, <1>5, <1>7
<1>13. \A x : DraftAt(x)' = DraftAt(x)
  BY <1>0 DEF DraftAt
<1>14. ASSUME NEW i \in 1..Len(results'), queue'[i].fetch
       PROVE  DraftFor(DraftAt(v[i]), i)'
  <2>1. /\ i \in 0..Len(results') /\ i + 1 \in 1..Len(results) /\ i \in 1..Len(queue')
        /\ queue'[i] = queue[i + 1] /\ results'[i] = results[i + 1]
    BY <1>0, <1>1
  <2>2. PICK x : x = v[i]
    OBVIOUS
  <2>3. DraftFor(DraftAt(x), i + 1)
    BY <1>5, <1>7, <1>14, <2>1, <2>2
  <2>4. DraftFor(DraftAt(x), i)'
    BY <1>2, <1>13, <2>1, <2>3 DEF DraftFor
  <2> QED
    BY <2>2, <2>4
<1>15. Drafted(v)'
  <2>1. Asked' <=> Asked
    BY <1>0 DEF Asked
  <2> QED
    BY <1>0, <1>7, <1>9, <1>10, <1>11, <1>12, <1>14, <2>1 DEF Drafted
<1>16. ASSUME pc' = "draft" PROVE DraftDone(DraftAt(1))'
  <2>1. queue[1].fetch
    BY <1>0, <1>16
  <2>2. DraftFor(DraftAt(1), 1)
    BY <1>0, <1>5, <1>8, <2>1
  <2>3. PICK f : f = DraftAt(1)
    OBVIOUS
  <2>4. ASSUME NEW r \in DOMAIN f, Live(r)', ~dropStale'[r] PROVE f[r].base = Len(out'[r])
    <3>1. r \in Req /\ InQ(1, r) /\ f[r].base = queue[1].sched[r].nout + Len(results[1][r])
      BY <2>2, <2>3 DEF DraftFor
    <3>2. PICK g : g = Head(results)[r]
      OBVIOUS
    <3>3. /\ out'[r] = IF Delivers(r) THEN out[r] \o Trimmed(r, g) ELSE out[r]
          /\ Live(r) /\ ~Stopped(r) /\ dropStale'[r] = dropStale[r]
      BY <2>4, <3>1, <3>2, UpdateFacts
    <3>4. Delivers(r)
      BY <1>0, <2>4, <3>1, <3>3 DEF Delivers, Scheduled, InQ
    <3>5. Trimmed(r, g) = g
      BY <3>2, <3>3, <3>4, NothingTrimmed DEF Stopped
    <3>6. queue[1].sched[r].nout = Len(out[r])
      BY <1>0, <3>1 DEF SampleInv, FlightInv, FlightAt
    <3>7. out[r] \in Seq(Token) /\ g \in Seq(Token)
      BY <1>0, <3>1, <3>2, HeadFacts DEF SchedInv, TypeInv, CounterTypes
    <3>8. Len(out[r] \o g) = Len(out[r]) + Len(g)
      BY <3>7, PrefixOf
    <3> QED
      BY <1>0, <3>1, <3>2, <3>3, <3>4, <3>5, <3>6, <3>8
  <2> QED
    BY <1>13, <2>3, <2>4 DEF DraftDone
<1> QED
  BY <1>3, <1>15, <1>16 DEF DraftInv

LEMMA DraftTaken ==
    ASSUME SchedInv, AlignInv, DraftInv, UpdateDrafts PROVE DraftInv'
<1>0. /\ Len(results) \in Nat /\ draftFuts \in Seq(DraftSet) /\ Len(draftFuts) \in Nat
      /\ UNCHANGED <<queue, results, proposed, rpc>> /\ pc = "draft" /\ pc' = "top"
      /\ draftFuts # <<>> /\ draftFuts' = Tail(draftFuts)
  <2>1. UNCHANGED <<queue, results, proposed, rpc>> /\ pc = "draft" /\ pc' = "top"
        /\ draftFuts # <<>> /\ draftFuts' = Tail(draftFuts)
    BY DEF UpdateDrafts, rankVars
  <2> QED
    BY <2>1, DraftTypes
<1>1. /\ Len(draftFuts') = Len(draftFuts) - 1 /\ Len(draftFuts) > 0
      /\ \A x \in 1..Len(draftFuts') : draftFuts'[x] = draftFuts[x + 1]
  BY <1>0
<1>2. FetchInv'
  BY <1>0 DEF DraftInv, FetchInv, InQ
<1>3. PICK w : Drafted(w)
  BY DEF DraftInv
<1>4. /\ w \in [0..Len(results) -> Nat] /\ w[0] = 1
      /\ w[Len(results)] = Len(draftFuts) + IF Asked THEN 1 ELSE 0
      /\ \A i \in 1..Len(results) : w[i] = w[i-1] + IF queue[i].fetch THEN 1 ELSE 0
      /\ \A i, j \in 0..Len(results) : i <= j => w[i] <= w[j]
      /\ \A i \in 1..Len(results) : queue[i].fetch => DraftFor(DraftAt(w[i]), i)
  BY <1>0, <1>3 DEF Drafted
<1>5. \A i \in 0..Len(results) : w[i] \in Nat /\ w[i] >= 1
  <2> TAKE i \in 0..Len(results)
  <2>1. 0 \in 0..Len(results) /\ 0 <= i
    BY <1>0
  <2> QED
    BY <1>4, <2>1
<1>6. PICK v : v = [i \in 0..Len(results) |-> w[i] - 1]
  OBVIOUS
<1>7. v \in [0..Len(results) -> Nat] /\ \A i \in 0..Len(results) : v[i] = w[i] - 1
  BY <1>5, <1>6
<1>8. v[0] = 0
  <2>1. 0 \in 0..Len(results)
    BY <1>0
  <2> QED
    BY <1>4, <1>7, <2>1
<1>9. v[Len(results)] = Len(draftFuts') + IF Asked THEN 1 ELSE 0
  <2>1. Len(results) \in 0..Len(results)
    BY <1>0
  <2>2. PICK a \in {0, 1} : a = IF Asked THEN 1 ELSE 0
    OBVIOUS
  <2>3. w[Len(results)] = Len(draftFuts) + a /\ v[Len(results)] = w[Len(results)] - 1
    BY <1>4, <1>7, <2>1, <2>2
  <2>4. v[Len(results)] = Len(draftFuts') + a
    BY <1>0, <1>1, <2>3
  <2> QED
    BY <2>2, <2>4
<1>10. \A i \in 1..Len(results) : v[i] = v[i-1] + IF queue[i].fetch THEN 1 ELSE 0
  <2> TAKE i \in 1..Len(results)
  <2>1. i \in 0..Len(results) /\ i - 1 \in 0..Len(results)
    BY <1>0
  <2>2. w[i] \in Nat /\ w[i-1] \in Nat
    BY <1>5, <2>1
  <2>3. PICK a \in {0, 1} : a = IF queue[i].fetch THEN 1 ELSE 0
    OBVIOUS
  <2>4. w[i] = w[i-1] + a /\ v[i] = w[i] - 1 /\ v[i-1] = w[i-1] - 1
    BY <1>4, <1>7, <2>1, <2>3
  <2>5. v[i] = v[i-1] + a
    BY <2>2, <2>4
  <2> QED
    BY <2>3, <2>5
<1>11. \A i, j \in 0..Len(results) : i <= j => v[i] <= v[j]
  BY <1>4, <1>5, <1>7
<1>12. ASSUME NEW i \in 1..Len(results), queue[i].fetch PROVE DraftFor(DraftAt(v[i]), i)'
  <2>1. i \in 0..Len(results) /\ i - 1 \in 0..Len(results)
    BY <1>0
  <2>2. w[i-1] \in Nat /\ w[i-1] >= 1 /\ w[i] = w[i-1] + 1 /\ v[i] = w[i] - 1
    BY <1>4, <1>5, <1>7, <1>12, <2>1
  <2>3. PICK x, y : x = v[i] /\ y = w[i]
    OBVIOUS
  <2>4. x \in Nat /\ x >= 1 /\ y = x + 1
    BY <2>2, <2>3
  <2>5. DraftAt(x)' = DraftAt(y)
    <3>1. CASE y <= Len(draftFuts)
      <4>1. x <= Len(draftFuts') /\ x \in 1..Len(draftFuts')
        BY <1>0, <1>1, <2>4, <3>1
      <4>2. draftFuts'[x] = draftFuts[y]
        BY <1>1, <2>4, <4>1
      <4> QED
        BY <3>1, <4>1, <4>2 DEF DraftAt
    <3>2. CASE ~(y <= Len(draftFuts))
      <4>1. ~(x <= Len(draftFuts'))
        BY <1>0, <1>1, <2>4, <3>2
      <4> QED
        BY <1>0, <3>2, <4>1 DEF DraftAt
    <3> QED
      BY <3>1, <3>2
  <2>6. DraftFor(DraftAt(y), i)
    BY <1>4, <1>12, <2>3
  <2>7. DraftFor(DraftAt(x), i)'
    BY <1>0, <2>5, <2>6 DEF DraftFor, InQ
  <2> QED
    BY <2>3, <2>7
<1>13. Drafted(v)'
  <2>1. Asked' <=> Asked
    BY <1>0 DEF Asked
  <2> QED
    BY <1>0, <1>7, <1>8, <1>9, <1>10, <1>11, <1>12, <2>1 DEF Drafted
<1> QED
  BY <1>0, <1>2, <1>13 DEF DraftInv

LEMMA DraftNext ==
    ASSUME SchedInv, FlowInv, RankInv, AlignInv, SampleInv, DraftInv, [Next]_vars
    PROVE  DraftInv'
<1>0. PP \in Rank /\ rpc \in [Rank -> Seq(Messages)]
  <2>1. PP \in Rank
    BY ConstantTypes DEF Rank
  <2> QED
    BY <2>1 DEF SchedInv, TypeInv, RankTypes
<1>1. ASSUME UNCHANGED <<queue, results, draftFuts, proposed, rpc>>,
             pc' = "draft" <=> pc = "draft",
             pc = "draft" => UNCHANGED <<status, dropStale, out>>
      PROVE  DraftInv'
  <2>1. Asked' <=> Asked
    BY <1>1 DEF Asked
  <2> QED
    BY <1>1, <2>1, DraftSame
<1>2. CASE UNCHANGED vars \/ AwaitResult
  BY <1>1, <1>2 DEF AwaitResult, vars, reqVars, engVars, rankVars
<1>3. CASE StartStep \/ EndRunning \/ EndWaiting
  BY <1>1, <1>3 DEF StartStep, EndRunning, EndWaiting, reqVars, rankVars
<1>4. CASE \E r \in Req : \/ SkipRunning(r) \/ SkipWaiting(r) \/ ScheduleRunning(r)
                          \/ Admit(r) \/ \E victim \in Req : PreemptLast(r, victim)
  <2>1. /\ UNCHANGED <<queue, results, draftFuts, proposed, rpc>>
        /\ pc \in {"running", "waiting"} /\ pc' \in {"running", "waiting", "issue"}
    BY <1>4 DEF SkipRunning, SkipWaiting, ScheduleRunning, Admit, PreemptLast, CanAdmit,
               AtWaiting, AtRunning, Schedulable, rankVars
  <2> QED
    BY <1>1, <2>1
<1>5. CASE Issue
  BY <1>5, DraftIssue
<1>6. CASE UpdateFromOutput
  BY <1>6, DraftUpdate
<1>7. CASE UpdateDrafts
  BY <1>7, DraftTaken
<1>8. ASSUME NEW k \in Rank, RankExecute(k) PROVE DraftInv'
  <2>1. UNCHANGED <<queue, results, draftFuts, proposed, status, dropStale, out, pc>> /\ k < PP
    BY <1>8 DEF RankExecute, reqVars, engVars
  <2>2. k # PP
    BY <2>1, ConstantTypes
  <2>3. rpc'[PP] = rpc[PP]
    BY <1>0, <1>8, <2>2 DEF RankExecute, PassOn
  <2>4. Asked' <=> Asked
    BY <2>3 DEF Asked
  <2> QED
    BY <2>1, <2>4, DraftSame
<1>9. CASE LastRank
  BY <1>9, DraftSample, DraftTake DEF LastRank
<1>10. CASE Clients
  <2>1. /\ UNCHANGED <<queue, results, draftFuts, proposed, rpc, pc>> /\ pc \in {"top", "update"}
    BY <1>10 DEF Clients, ResetPrefixCache, AddRequest, Abort, engVars, rankVars
  <2> QED
    BY <1>1, <2>1
<1> QED
  BY <1>2, <1>3, <1>4, <1>5, <1>6, <1>7, <1>8, <1>9, <1>10
     DEF Next, Schedule, Process, Ranks

\* The drafts handed to a request continue its delivered output: the deferred fetch
\* returns those of the batch just processed, although the last rank has sampled
\* later batches in the meantime.
THEOREM DraftsFollowOutput == Spec => []DraftsContinueOutput
<1>1. Init => LastInv /\ DraftInv
  BY LastInitially, DraftInit
<1>2. LastInv /\ DraftInv /\ [Next]_vars => (LastInv /\ DraftInv)'
  BY LastNext, DraftNext DEF LastInv, EngineInv
<1>3. LastInv /\ DraftInv => DraftsContinueOutput
  <2> SUFFICES ASSUME LastInv, DraftInv, pc = "draft", draftFuts # <<>>
               PROVE  \A r \in DOMAIN Head(draftFuts) :
                         Live(r) /\ ~dropStale[r] => Head(draftFuts)[r].base = Len(out[r])
    BY DEF DraftsContinueOutput
  <2>1. draftFuts \in Seq(DraftSet)
    BY DEF LastInv, EngineInv, SchedInv, TypeInv, EngineTypes
  <2>2. 1 <= Len(draftFuts) /\ Head(draftFuts) = draftFuts[1]
    BY <2>1
  <2>3. DraftAt(1) = Head(draftFuts)
    BY <2>2 DEF DraftAt
  <2> QED
    BY <2>3 DEF DraftInv, DraftDone
<1> QED
  BY <1>1, <1>2, <1>3, PTL DEF Spec
=============================================================================
