-------------------------- MODULE TokenRingProofs --------------------------
(***************************************************************************)
(* The theorem about TokenRing, for any number of ranks, requests, slots   *)
(* and tokens.                                                             *)
(*                                                                         *)
(* The history issued numbers the scheduler's messages.  What a message    *)
(* says about a request continues the request's previous row or admits it  *)
(* anew (MessageOK), and what a rank holds is a function of the messages   *)
(* it has executed (RankOK): so no rank's state has to be compared with   *)
(* that of another.                                                        *)
(***************************************************************************)
EXTENDS TokenRing, SequenceTheorems, FiniteSetTheorems, WellFoundedInduction, TLAPS

-----------------------------------------------------------------------------
(***************************************************************************)
(* Messages                                                                *)
(***************************************************************************)
Token == Client \X Nat \X Nat
Text  == Seq(Token)
RowSet == [r : Client, q : 1 .. Budget, nc : Nat, base : Text, inc : Nat]
MessageSet == [rows : Seq(RowSet), new : Nat, fin : SUBSET Client, pre : SUBSET Client]

Distinct(s) == \A i, j \in DOMAIN s : s[i] = s[j] => i = j

\* The row of a request in a message.
Has(msg, r)   == \E j \in DOMAIN msg.rows : msg.rows[j].r = r
RowOf(msg, r) == msg.rows[CHOOSE j \in DOMAIN msg.rows : msg.rows[j].r = r]
Leaves(msg, r) == r \in msg.fin \cup msg.pre
NewIn(msg, r) == \E j \in DOMAIN msg.rows : j > Len(msg.rows) - msg.new /\ msg.rows[j].r = r

\* The position behind a row, and whether it yields a token.
End(x) == x.nc + x.q
Samples(x) == End(x) >= Len(x.base)
Needs(msg) == \E j \in DOMAIN msg.rows : Samples(msg.rows[j])

\* After p messages a request is held, and its last row is in message a.
Last(ms, r, a, p) ==
    /\ a \in 1 .. p /\ Has(ms[a], r)
    /\ \A c \in (a+1) .. p : ~Has(ms[c], r) /\ ~Leaves(ms[c], r)

Held(ms, p) == {r \in Client : \E a \in 1 .. p : Last(ms, r, a, p)}

RowsDistinct(msg) == \A i, j \in DOMAIN msg.rows : msg.rows[i].r = msg.rows[j].r => i = j

\* A new row is of a request that is not held.
NewRowOK(ms, m, r) ==
    LET y == RowOf(ms[m], r)
    IN  /\ y.nc = 0 /\ y.q <= Len(y.base)
        /\ \A a \in 1 .. m - 1 : Last(ms, r, a, m - 1) => Leaves(ms[m], r)
        /\ \A a \in 1 .. m - 1 : Has(ms[a], r) => RowOf(ms[a], r).inc < y.inc

\* Any other row continues the last one; behind a sampled token by one position and
\* not before the ring has brought the token.
Continues(x, y) ==
    /\ y.inc = x.inc /\ y.base = x.base /\ y.nc = End(x)
    /\ IF Samples(x) THEN y.q = 1 ELSE End(y) <= Len(y.base)

OldRowOK(ms, m, r) ==
    \E a \in 1 .. m - 1 :
        /\ Last(ms, r, a, m - 1) /\ ~Leaves(ms[m], r)
        /\ Continues(RowOf(ms[a], r), RowOf(ms[m], r))
        /\ Samples(RowOf(ms[a], r)) => a + Stages <= m

\* Rows of one admission share its text and go on; admissions are counted up.
Ordered(ms, r, a, b) ==
    /\ RowOf(ms[a], r).inc <= RowOf(ms[b], r).inc
    /\ RowOf(ms[a], r).inc = RowOf(ms[b], r).inc =>
         /\ RowOf(ms[a], r).base = RowOf(ms[b], r).base
         /\ End(RowOf(ms[a], r)) < End(RowOf(ms[b], r))

MessageOK(ms, m) ==
    /\ ms[m] \in MessageSet /\ RowsDistinct(ms[m]) /\ ms[m].new <= Len(ms[m].rows)
    /\ \A r \in Client : Has(ms[m], r) =>
          IF NewIn(ms[m], r) THEN NewRowOK(ms, m, r) ELSE OldRowOK(ms, m, r)
    /\ \A r \in Client : Has(ms[m], r) =>
          \A a \in 1 .. m - 1 : Has(ms[a], r) => Ordered(ms, r, a, m)
    /\ Cardinality(Held(ms, m)) <= Slots

History(ms) == ms \in Seq(MessageSet) /\ \A m \in DOMAIN ms : MessageOK(ms, m)

-----------------------------------------------------------------------------
(***************************************************************************)
(* The scheduler                                                           *)
(***************************************************************************)
RequestSet == [nc : Nat, ph : Int, flight : Nat, stale : Nat, drop : BOOLEAN, wait : Nat,
               inc : Nat, base : Text, out : Text, done : BOOLEAN]

\* The messages whose output the engine has processed.
Processed == Len(issued) - Len(batchQ)

Running(r) == r \in Elems(runningQ)

QueueInv ==
    /\ runningQ \in Seq(Client) /\ waitingQ \in Seq(Client)
    /\ Distinct(runningQ) /\ Distinct(waitingQ)
    /\ Elems(runningQ) \cap Elems(waitingQ) = {}
    /\ \A r \in Elems(runningQ) \cup Elems(waitingQ) : ~req[r].done
    /\ \A r \in Elems(waitingQ) : req[r].nc = 0 /\ req[r].ph = 0
    /\ Len(runningQ) <= Slots
    /\ finishedIds \subseteq Client /\ preemptedIds \subseteq Client
    /\ \A r \in finishedIds : req[r].done
    /\ \A r \in preemptedIds : ~Running(r)
    /\ \A r \in Client : r \in Held(issued, Len(issued)) =>
          Running(r) \/ r \in finishedIds \cup preemptedIds

(* A request q of client r, with the messages ms, the first p of them processed. *)

Total(q, r) == PromptLen[r] + Len(q.out) + q.ph

\* What the scheduler will say of a running request continues its last row.
FollowsRow(q, r, ms, p, a) ==
    LET x == RowOf(ms[a], r)
    IN  /\ Last(ms, r, a, Len(ms))
        /\ x.inc = q.inc /\ x.base = q.base /\ q.nc = End(x)
        /\ Total(q, r) = IF Samples(x) THEN End(x) + 1 ELSE Len(x.base)
        /\ Samples(x) => q.wait >= Stages - (Len(ms) - a)
        /\ ~Samples(x) \/ a <= p => q.ph = 0

\* Tokens of a request in a message, if its row was admitted before w.
Weight(msg, r, w) == IF Has(msg, r) /\ RowOf(msg, r).inc < w THEN RowOf(msg, r).q ELSE 0

Tallies(f, ms, r, w) ==
    /\ f \in [0 .. Len(ms) -> Nat] /\ f[0] = 0
    /\ \A c \in 1 .. Len(ms) : f[c] = f[c - 1] + Weight(ms[c], r, w)

\* Of those, n are in messages after the first p.
InFlight(ms, p, r, w, n) == \E f : Tallies(f, ms, r, w) /\ n = f[Len(ms)] - f[p]

\* Rows of earlier admissions are stale, for a request that waits all of them.
FlightOK(q, r, run, ms, p) ==
    /\ InFlight(ms, p, r, q.inc + 1, q.flight)
    /\ ~q.done => InFlight(ms, p, r, IF run THEN q.inc ELSE q.inc + 1, q.stale)

\* Without drop, a request's output in flight is all of its latest admission, and
\* it waits until all of it is delivered.
DropOK(q, r, run, ms, p) ==
    ~q.done /\ ~q.drop =>
        IF run THEN q.stale = 0
        ELSE \A c \in (p+1) .. Len(ms) : Has(ms[c], r) => RowOf(ms[c], r).inc = q.inc

\* A row whose token may yet be delivered.
Pays(q, r, msg) == Has(msg, r) /\ RowOf(msg, r).inc = q.inc /\ Samples(RowOf(msg, r))

\* The next token to be delivered is that of the next position.
PaysNext(q, r, run, ms, p) ==
    ~q.done /\ (run \/ ~q.drop) =>
        \A c \in (p+1) .. Len(ms) :
            Pays(q, r, ms[c]) /\ (\A d \in (p+1) .. (c-1) : ~Pays(q, r, ms[d])) =>
                End(RowOf(ms[c], r)) = PromptLen[r] + Len(q.out)

TextOK(q, r) ==
    \A k \in DOMAIN q.out :
        /\ q.out[k][1] = r /\ q.out[k][3] = PromptLen[r] + k - 1
        /\ PromptLen[r] + k > Len(q.base) => q.out[k][2] = q.inc

RequestOK(q, r, run, ms, p) ==
    /\ q \in RequestSet
    /\ \A c \in 1 .. Len(ms) : Has(ms[c], r) => RowOf(ms[c], r).inc <= q.inc
    /\ run => \E a \in 1 .. Len(ms) : FollowsRow(q, r, ms, p, a)
    /\ FlightOK(q, r, run, ms, p) /\ DropOK(q, r, run, ms, p) /\ PaysNext(q, r, run, ms, p)
    /\ TextOK(q, r)

RequestsInv ==
    /\ req \in [Client -> RequestSet]
    /\ \A r \in Client : RequestOK(req[r], r, Running(r), issued, Processed)

QueueSizes == batchQ \in Seq(MessageSet) /\ Len(batchQ) <= Len(issued)
Processing == Processed \in 0 .. Len(issued)

SchedInv == History(issued) /\ QueueInv /\ RequestsInv /\ Processing

-----------------------------------------------------------------------------
(***************************************************************************)
(* The ranks.  A rank i has executed p messages and finished with e of     *)
(* them; its tables are s.                                                 *)
(***************************************************************************)
Executed(i) == Len(issued) - Len(inbox[i])
Ended(i) == IF current[i] # Absent THEN Executed(i) - 1 ELSE Executed(i)

\* How many of the first m messages need their samples.
Sampled(ms, m) == Cardinality({a \in 1 .. m : Needs(ms[a])})

TableRow == [ids : Text, plen : Nat, nc : Nat, ncpu : Nat, last : Token \cup {Absent},
             who : (Client \X Nat) \cup {Absent}]
TableSet ==
    [index : [Client -> 0 .. Slots], spare : Seq(1 .. Slots), gen : [1 .. Slots -> Nat],
     tab : [1 .. Slots -> TableRow]]

\* Every slot has one owner or is spare.
SlotsOK(s) ==
    /\ Distinct(s.spare)
    /\ \A r \in Client : s.index[r] # 0 => s.index[r] \notin Elems(s.spare)
    /\ \A q, r \in Client : s.index[q] = s.index[r] /\ s.index[q] # 0 => q = r
    /\ \A x \in 1 .. Slots : x \in Elems(s.spare) \/ \E r \in Client : s.index[r] = x

\* Whether the token sampled for message a has reached the rank's tables: by the ring,
\* Stages messages later, or on the last rank when it is sampled.
Told(i, a, p, e) == IF i = Stages THEN a <= e ELSE a + Stages <= p

\* The positions computed for the row x of message a, and those the tables know.
Computed(x, a, e) == IF a <= e THEN End(x) ELSE x.nc
Known(x, told) == IF Samples(x) /\ told THEN End(x) + 1 ELSE Greater(Len(x.base), End(x))

\* A request's row in the tables, when its last row in the messages is x.
EntryOK(t, x, n, k) ==
    /\ t.who = <<x.r, x.inc>> /\ t.plen = Len(x.base) /\ t.nc = n
    /\ Len(t.ids) = k
    /\ \A c \in 0 .. k - 1 : t.ids[c + 1] = Due(x, c)
    /\ k > Len(x.base) => t.last = Due(x, k - 1)

HoldersOK(s, ms, p) == \A r \in Client : s.index[r] # 0 <=> r \in Held(ms, p)

TableOK(s, ms, p, e, i) ==
    /\ s \in TableSet /\ SlotsOK(s) /\ HoldersOK(s, ms, p)
    /\ \A r \in Client : \A a \in 1 .. p : Last(ms, r, a, p) =>
          EntryOK(s.tab[s.index[r]], RowOf(ms[a], r), Computed(RowOf(ms[a], r), a, e),
                  Known(RowOf(ms[a], r), Told(i, a, p, e)))

\* The batch between the two calls is that of the last message executed.
BatchRow == [of : RowSet, slot : 1 .. Slots, at : Nat, feed : Seq(Token \cup {Absent}), sample : BOOLEAN]

PreparedOK(b, row, s, i) ==
    /\ b.of = row /\ b.slot = s.index[row.r] /\ b.at = row.nc /\ (b.sample <=> Samples(row))
    /\ i = 1 => \A c \in 1 .. row.q : b.feed[c] = Due(row, row.nc + c - 1)

BatchOK(batch, s, ms, p, i) ==
    LET rows == SortBatch(ms[p].rows)
    IN  /\ p >= 1 /\ ms[p].rows # <<>>
        /\ batch \in Seq(BatchRow) /\ DOMAIN batch = DOMAIN rows
        /\ \A j \in DOMAIN rows : PreparedOK(batch[j], rows[j], s, i)

\* An entry of the ring: a slot counts as the request's until the request leaves.
LeftSince(ms, m, p, r) == \E c \in (m+1) .. p : Leaves(ms[c], r)

SlotKept(x, g, row, s, ms, p, m) ==
    IF LeftSince(ms, m, p, row.r) THEN g < s.gen[x] ELSE g = s.gen[x] /\ s.index[row.r] = x

EntrySet == [n : Nat, slots : Seq(1 .. Slots), need : Seq(BOOLEAN), gens : Seq(Nat), who : Seq(Client \X Nat)]

ReceptionOK(x, s, ms, p, m) ==
    LET rows == SortBatch(ms[m].rows)
    IN  /\ x.n = Sampled(ms, m)
        /\ DOMAIN x.slots = DOMAIN rows /\ DOMAIN x.need = DOMAIN rows
        /\ DOMAIN x.gens = DOMAIN rows /\ DOMAIN x.who = DOMAIN rows
        /\ \A j \in DOMAIN rows :
              /\ (x.need[j] <=> Samples(rows[j])) /\ x.who[j] = <<rows[j].r, rows[j].inc>>
              /\ SlotKept(x.slots[j], x.gens[j], rows[j], s, ms, p, m)

RingEntryOK(x, s, ms, p, e, m) ==
    IF m >= 1 /\ m <= e /\ Needs(ms[m]) THEN ReceptionOK(x, s, ms, p, m) ELSE x = Nothing

PendingOK(queue, n, s, ms, p, e) ==
    /\ queue \in Seq(EntrySet) /\ Len(queue) = Stages /\ n = Sampled(ms, e)
    /\ \A k \in 1 .. Stages : RingEntryOK(queue[k], s, ms, p, e, p - Stages + k)

InboxOK(i) ==
    /\ inbox[i] \in Seq(MessageSet) /\ Len(inbox[i]) <= Len(issued)
    /\ \A k \in DOMAIN inbox[i] : inbox[i][k] = issued[Executed(i) + k]

RankOK(i) ==
    /\ InboxOK(i)
    /\ TableOK(reqStates[i], issued, Executed(i), Ended(i), i)
    /\ current[i] # Absent => BatchOK(current[i], reqStates[i], issued, Executed(i), i)
    /\ i # Stages => PendingOK(pending[i], received[i], reqStates[i], issued, Executed(i), Ended(i))

\* What was sampled for a row.
TokenOf(x) == IF Samples(x) THEN Tok(x.r, x.inc, End(x)) ELSE Absent

SentOK(payloads, ms, e) ==
    /\ payloads \in Seq(Seq(Token \cup {Absent}))
    /\ Len(payloads) = Sampled(ms, e)
    /\ \A m \in 1 .. e : Needs(ms[m]) =>
          LET rows == SortBatch(ms[m].rows)
          IN  payloads[Sampled(ms, m)] = [j \in DOMAIN rows |-> TokenOf(rows[j])]

\* The engine's queue and the answers on their way to it.
AnswerOf(msg, r) ==
    IF Has(msg, r) /\ Samples(RowOf(msg, r)) THEN <<TokenOf(RowOf(msg, r))>> ELSE <<>>

AnswersOK(answers, ms, done, e) ==
    /\ answers \in Seq([Client -> Text]) /\ Len(answers) = e - done
    /\ \A k \in DOMAIN answers : \A r \in Client : answers[k][r] = AnswerOf(ms[done + k], r)

EngineInv ==
    /\ QueueSizes /\ \A k \in DOMAIN batchQ : batchQ[k] = issued[Processed + k]
    /\ AnswersOK(results, issued, Processed, Ended(Stages))

RingInv ==
    /\ SchedInv /\ EngineInv
    /\ DOMAIN reqStates = Stage /\ DOMAIN current = Stage /\ DOMAIN inbox = Stage
    /\ DOMAIN pending = 1 .. Stages - 1 /\ DOMAIN received = 1 .. Stages - 1
    /\ \A i \in Stage : RankOK(i)
    /\ SentOK(sent, issued, Ended(Stages))
-----------------------------------------------------------------------------
(***************************************************************************)
(* Numbers and sequences                                                   *)
(***************************************************************************)
\* A non-empty set of numbers has a least one.
LEMMA LeastNumber ==
    ASSUME NEW T \in SUBSET Nat, T # {}
    PROVE  \E x \in T : \A y \in T : x <= y
<1> DEFINE R == {p \in Nat \X Nat : p[1] < p[2]}
<1>1. IsWellFoundedOn(R, Nat)
  BY NatLessThanWellFounded DEF OpToRel
<1>2. PICK x \in T : \A y \in T : ~ (<<y, x>> \in R)
  BY <1>1, WFMin
<1>3. \A y \in T : ~(y < x)
  <2> TAKE y \in T
  <2>1. <<y, x>> \in Nat \X Nat
    OBVIOUS
  <2> QED
    BY <2>1, <1>2
<1> QED
  BY <1>3

\* Induction up to a number, over a set of the numbers for which a fact holds.
LEMMA Upwards ==
    ASSUME NEW n \in Nat, NEW T, 0 \in T, \A k \in 1 .. n : k - 1 \in T => k \in T
    PROVE  \A k \in 0 .. n : k \in T
<1> DEFINE F == {k \in 0 .. n : k \notin T}
<1> SUFFICES ASSUME F # {} PROVE FALSE
  OBVIOUS
<1>1. F \in SUBSET Nat
  OBVIOUS
<1>2. PICK k \in F : \A j \in F : k <= j
  BY <1>1, LeastNumber
<1>3. k \in 1 .. n /\ k - 1 \in 0 .. n /\ k - 1 \notin F
  BY <1>2
<1> QED
  BY <1>2, <1>3

\* The steps F[1], F[2], ..., F[n] can be taken one after the other.
StepsOver(F, n, X) == F \in [1 .. n -> [X -> X]]
RunOf(f, F, n, X, b) ==
    f \in [0 .. n -> X] /\ f[0] = b /\ \A k \in 1 .. n : f[k] = F[k][f[k - 1]]

LEMMA Iterated ==
    ASSUME NEW n \in Nat, NEW X, NEW b \in X, NEW F, StepsOver(F, n, X)
    PROVE  \E f : RunOf(f, F, n, X, b)
<1> DEFINE P(m) == \E f \in [0 .. m -> X] : f[0] = b /\ \A k \in 1 .. m : f[k] = F[k][f[k - 1]]
           T == {m \in 0 .. n : P(m)}
<1>0. F \in [1 .. n -> [X -> X]]
  BY DEF StepsOver
<1>1. P(0)
  <2> DEFINE f == [k \in 0 .. 0 |-> b]
  <2>1. f \in [0 .. 0 -> X] /\ f[0] = b /\ 1 .. 0 = {}
    OBVIOUS
  <2> QED
    BY <2>1
<1>2. ASSUME NEW m \in 1 .. n, P(m - 1) PROVE P(m)
  <2>1. PICK f \in [0 .. m - 1 -> X] : f[0] = b /\ \A k \in 1 .. m - 1 : f[k] = F[k][f[k - 1]]
    BY <1>2
  <2> DEFINE h == [k \in 0 .. m |-> IF k = m THEN F[m][f[m - 1]] ELSE f[k]]
  <2>2. F[m] \in [X -> X] /\ m - 1 \in 0 .. m - 1
    BY <1>0
  <2>3. h \in [0 .. m -> X]
    BY <2>2
  <2>4. \A k \in 0 .. m - 1 : h[k] = f[k]
    OBVIOUS
  <2>5. ASSUME NEW k \in 1 .. m PROVE h[k] = F[k][h[k - 1]]
    <3>1. k - 1 \in 0 .. m - 1 /\ h[k - 1] = f[k - 1]
      BY <2>4
    <3>2. CASE k = m
      BY <3>1, <3>2
    <3>3. CASE k # m
      <4>1. k \in 1 .. m - 1 /\ h[k] = f[k]
        BY <3>3, <2>4
      <4> QED
        BY <2>1, <3>1, <4>1
    <3> QED
      BY <3>2, <3>3
  <2>6. h[0] = b
    BY <2>1
  <2> QED
    BY <2>3, <2>5, <2>6
<1> HIDE DEF P
<1>3. \A k \in 1 .. n : k - 1 \in T => k \in T
  BY <1>2
<1>4. 0 \in T
  BY <1>1
<1>5. n \in T
  <2>1. \A k \in 0 .. n : k \in T
    BY <1>3, <1>4, Upwards
  <2> QED
    BY <2>1
<1> QED
  BY <1>5 DEF P, RunOf

LEMMA ElemsOf ==
    ASSUME NEW A, NEW s \in Seq(A)
    PROVE  /\ Elems(s) \subseteq A
           /\ \A x : x \in Elems(s) <=> \E i \in 1 .. Len(s) : s[i] = x
BY DEF Elems

LEMMA ElemsConcat ==
    ASSUME NEW A, NEW s \in Seq(A), NEW t \in Seq(A)
    PROVE  /\ s \o t \in Seq(A) /\ Len(s \o t) = Len(s) + Len(t)
           /\ \A i \in 1 .. Len(s) : (s \o t)[i] = s[i]
           /\ \A i \in 1 .. Len(t) : (s \o t)[Len(s) + i] = t[i]
           /\ Elems(s \o t) = Elems(s) \cup Elems(t)
<1>1. /\ s \o t \in Seq(A) /\ Len(s \o t) = Len(s) + Len(t)
      /\ \A i \in 1 .. Len(s) : (s \o t)[i] = s[i]
      /\ \A i \in 1 .. Len(t) : (s \o t)[Len(s) + i] = t[i]
  OBVIOUS
<1>2. ASSUME NEW x \in Elems(s \o t) PROVE x \in Elems(s) \cup Elems(t)
  <2>1. PICK i \in 1 .. Len(s \o t) : (s \o t)[i] = x
    BY <1>1, ElemsOf
  <2>2. CASE i <= Len(s)
    BY <1>1, <2>1, <2>2, ElemsOf
  <2>3. CASE i > Len(s)
    <3>1. i - Len(s) \in 1 .. Len(t) /\ t[i - Len(s)] = x
      <4>1. i - Len(s) \in 1 .. Len(t) /\ Len(s) + (i - Len(s)) = i
        BY <1>1, <2>3
      <4> QED
        BY <1>1, <2>1, <4>1
    <3> QED
      BY <3>1, ElemsOf
  <2> QED
    BY <1>1, <2>2, <2>3
<1>3. ASSUME NEW x \in Elems(s) PROVE x \in Elems(s \o t)
  <2>1. PICK i \in 1 .. Len(s) : s[i] = x
    BY ElemsOf
  <2>2. i \in 1 .. Len(s \o t) /\ (s \o t)[i] = x
    BY <1>1, <2>1
  <2> QED
    BY <1>1, <2>2, ElemsOf
<1>4. ASSUME NEW x \in Elems(t) PROVE x \in Elems(s \o t)
  <2>1. PICK i \in 1 .. Len(t) : t[i] = x
    BY ElemsOf
  <2>2. Len(s) + i \in 1 .. Len(s \o t) /\ (s \o t)[Len(s) + i] = x
    BY <1>1, <2>1
  <2> QED
    BY <1>1, <2>2, ElemsOf
<1> QED
  BY <1>1, <1>2, <1>3, <1>4

LEMMA DistinctConcat ==
    ASSUME NEW A, NEW s \in Seq(A), NEW t \in Seq(A), Distinct(s), Distinct(t),
           Elems(s) \cap Elems(t) = {}
    PROVE  Distinct(s \o t)
<1>1. s \o t \in Seq(A) /\ DOMAIN (s \o t) = 1 .. Len(s) + Len(t)
  BY ElemsConcat
<1>2. ASSUME NEW i \in 1 .. Len(s) + Len(t), NEW j \in 1 .. Len(s) + Len(t), i <= j,
             (s \o t)[i] = (s \o t)[j]
      PROVE  i = j
  <2>1. CASE j <= Len(s)
    BY <1>2, <2>1, ElemsConcat DEF Distinct
  <2>2. CASE i > Len(s)
    <3>1. /\ i - Len(s) \in 1 .. Len(t) /\ Len(s) + (i - Len(s)) = i
          /\ j - Len(s) \in 1 .. Len(t) /\ Len(s) + (j - Len(s)) = j
      BY <1>2, <2>2
    <3>2. t[i - Len(s)] = t[j - Len(s)]
      BY <1>2, <3>1, ElemsConcat
    <3>3. i - Len(s) = j - Len(s)
      BY <3>1, <3>2 DEF Distinct
    <3> QED
      BY <3>1, <3>3
  <2>3. CASE i <= Len(s) /\ j > Len(s)
    <3>1. j - Len(s) \in 1 .. Len(t) /\ Len(s) + (j - Len(s)) = j /\ i \in 1 .. Len(s)
      BY <2>3
    <3>2. s[i] = t[j - Len(s)]
      BY <1>2, <3>1, ElemsConcat
    <3> QED
      BY <3>1, <3>2, ElemsOf
  <2> QED
    BY <2>1, <2>2, <2>3
<1> QED
  BY <1>1, <1>2 DEF Distinct

LEMMA CutElems ==
    ASSUME NEW A, NEW s \in Seq(A), NEW m \in 0 .. Len(s)
    PROVE  LET k == SubSeq(s, 1, Len(s) - m)
               l == SubSeq(s, Len(s) - m + 1, Len(s))
           IN  /\ k \in Seq(A) /\ l \in Seq(A)
               /\ Len(k) = Len(s) - m /\ Len(l) = m
               /\ Elems(k) \cup Elems(l) = Elems(s)
               /\ Distinct(s) => Distinct(k) /\ Distinct(l) /\ Elems(k) \cap Elems(l) = {}
<1> DEFINE k == SubSeq(s, 1, Len(s) - m)
           l == SubSeq(s, Len(s) - m + 1, Len(s))
<1>1. /\ k \in Seq(A) /\ Len(k) = Len(s) - m
      /\ \A i \in 1 .. Len(s) - m : k[i] = s[i]
  OBVIOUS
<1>2. /\ l \in Seq(A) /\ Len(l) = m
      /\ \A i \in 1 .. m : l[i] = s[Len(s) - m + i]
  OBVIOUS
<1> HIDE DEF k, l
<1>3. \A x : x \in Elems(k) <=> \E i \in 1 .. Len(s) - m : s[i] = x
  <2>1. DOMAIN k = 1 .. Len(s) - m
    BY <1>1
  <2> QED
    BY <1>1, <2>1 DEF Elems
<1>4. \A x : x \in Elems(l) <=> \E i \in 1 .. m : s[Len(s) - m + i] = x
  <2>1. DOMAIN l = 1 .. m
    BY <1>2
  <2>2. \A x : x \in Elems(l) <=> \E i \in 1 .. m : l[i] = x
    BY <2>1 DEF Elems
  <2> QED
    BY ZenonT(80), <1>2, <2>2
<1>5. Elems(k) \cup Elems(l) = Elems(s)
  <2>1. ASSUME NEW x \in Elems(s) PROVE x \in Elems(k) \cup Elems(l)
    <3>1. PICK i \in 1 .. Len(s) : s[i] = x
      BY ElemsOf
    <3>2. CASE i <= Len(s) - m
      BY <3>1, <3>2, <1>3
    <3>3. CASE i > Len(s) - m
      <4>1. i - (Len(s) - m) \in 1 .. m /\ Len(s) - m + (i - (Len(s) - m)) = i
        BY <3>3
      <4> QED
        BY <3>1, <4>1, <1>4
    <3> QED
      BY <3>2, <3>3
  <2>2. \A x \in Elems(k) : x \in Elems(s)
    BY <1>3, ElemsOf
  <2>3. ASSUME NEW x \in Elems(l) PROVE x \in Elems(s)
    <3>1. PICK i \in 1 .. m : s[Len(s) - m + i] = x
      BY <1>4
    <3>2. Len(s) - m + i \in 1 .. Len(s)
      OBVIOUS
    <3> QED
      BY <3>1, <3>2, ElemsOf
  <2> QED
    BY <2>1, <2>2, <2>3
<1>6. ASSUME Distinct(s) PROVE Distinct(k) /\ Distinct(l) /\ Elems(k) \cap Elems(l) = {}
  <2>1. Distinct(k)
    BY <1>1, <1>6 DEF Distinct
  <2>2. Distinct(l)
    BY <1>2, <1>6 DEF Distinct
  <2>3. ASSUME NEW x \in Elems(k), x \in Elems(l) PROVE FALSE
    <3>1. PICK i \in 1 .. Len(s) - m : s[i] = x
      BY <1>3
    <3>2. PICK j \in 1 .. m : s[Len(s) - m + j] = x
      BY <1>4, <2>3
    <3>3. /\ i \in DOMAIN s /\ Len(s) - m + j \in DOMAIN s /\ i # Len(s) - m + j
      OBVIOUS
    <3> QED
      BY <1>6, <3>1, <3>2, <3>3 DEF Distinct
  <2> QED
    BY <2>1, <2>2, <2>3
<1> QED
  BY <1>1, <1>2, <1>5, <1>6 DEF k, l

\* A sequence of length n has at most n elements.
LEMMA FewElems ==
    ASSUME NEW A, NEW s \in Seq(A)
    PROVE  IsFiniteSet(Elems(s)) /\ Cardinality(Elems(s)) <= Len(s)
<1>1. s \in [1 .. Len(s) -> Elems(s)]
  BY DEF Elems
<1>2. s \in Surjection(1 .. Len(s), Elems(s))
  <2>1. DOMAIN s = 1 .. Len(s)
    OBVIOUS
  <2> QED
    BY <1>1, <2>1 DEF Surjection, Elems
<1>3. IsFiniteSet(1 .. Len(s)) /\ Cardinality(1 .. Len(s)) = Len(s)
  <2>1. Len(s) \in Nat /\ Len(s) \in Int /\ 1 \in Int
    OBVIOUS
  <2>2. IsFiniteSet(1 .. Len(s)) /\ Cardinality(1 .. Len(s)) = IF 1 > Len(s) THEN 0 ELSE Len(s) - 1 + 1
    BY <2>1, FS_Interval, Zenon
  <2>3. (IF 1 > Len(s) THEN 0 ELSE Len(s) - 1 + 1) = Len(s)
    BY <2>1
  <2> QED
    BY <2>2, <2>3
<1>4. IsFiniteSet(Elems(s)) /\ Cardinality(Elems(s)) <= Cardinality(1 .. Len(s))
  BY <1>2, <1>3, FS_Surjection
<1> QED
  BY <1>3, <1>4

LEMMA ElemsAppend ==
    ASSUME NEW A, NEW s \in Seq(A), NEW e \in A
    PROVE  /\ Append(s, e) \in Seq(A) /\ Len(Append(s, e)) = Len(s) + 1
           /\ \A i \in 1 .. Len(s) : Append(s, e)[i] = s[i]
           /\ Append(s, e)[Len(s) + 1] = e
           /\ Elems(Append(s, e)) = Elems(s) \cup {e}
           /\ Distinct(s) /\ e \notin Elems(s) => Distinct(Append(s, e))
<1> DEFINE t == Append(s, e)
<1>1. /\ t \in Seq(A) /\ Len(t) = Len(s) + 1 /\ t[Len(s) + 1] = e
      /\ \A i \in 1 .. Len(s) : t[i] = s[i]
  OBVIOUS
<1> HIDE DEF t
<1>2. \A i \in 1 .. Len(t) : i \in 1 .. Len(s) \/ i = Len(s) + 1
  BY <1>1
<1>3. Elems(t) = Elems(s) \cup {e}
  <2>1. \A x \in Elems(t) : x \in Elems(s) \cup {e}
    BY <1>1, <1>2, ElemsOf
  <2>2. \A x \in Elems(s) : x \in Elems(t)
    BY <1>1, ElemsOf
  <2>3. e \in Elems(t)
    BY <1>1, ElemsOf
  <2> QED
    BY <2>1, <2>2, <2>3
<1>4. ASSUME Distinct(s), e \notin Elems(s) PROVE Distinct(t)
  <2>1. \A i \in 1 .. Len(s) : s[i] # e
    BY <1>4, ElemsOf
  <2>2. \A i, j \in 1 .. Len(s) : s[i] = s[j] => i = j
    BY <1>4 DEF Distinct
  <2>3. DOMAIN t = 1 .. Len(t)
    BY <1>1
  <2> QED
    BY <1>1, <1>2, <2>1, <2>2, <2>3 DEF Distinct
<1> QED
  BY <1>1, <1>3, <1>4 DEF t

\* One step of the recursion that defines Without.
WithoutStep(s, S, g, i) ==
    IF i = 0 THEN <<>>
    ELSE IF s[i] \in S THEN g[i - 1] ELSE Append(g[i - 1], s[i])

LEMMA WithoutRec ==
    ASSUME NEW A, NEW s \in Seq(A), NEW S
    PROVE  \E g : /\ DOMAIN g = 0 .. Len(s) /\ g[0] = <<>> /\ Without(s, S) = g[Len(s)]
                  /\ \A i \in 1 .. Len(s) :
                        g[i] = IF s[i] \in S THEN g[i - 1] ELSE Append(g[i - 1], s[i])
<1> DEFINE F == [i \in 1 .. Len(s) |-> [x \in Seq(A) |-> IF s[i] \in S THEN x ELSE Append(x, s[i])]]
<1>1. F \in [1 .. Len(s) -> [Seq(A) -> Seq(A)]] /\ <<>> \in Seq(A) /\ Len(s) \in Nat
  <2>1. \A i \in 1 .. Len(s) : \A x \in Seq(A) : Append(x, s[i]) \in Seq(A)
    OBVIOUS
  <2> QED
    BY <2>1
<1> HIDE DEF F
<1>2. PICK f : RunOf(f, F, Len(s), Seq(A), <<>>)
  <2>1. StepsOver(F, Len(s), Seq(A))
    BY <1>1 DEF StepsOver
  <2> QED
    BY <1>1, <2>1, Iterated
<1>3. ASSUME NEW i \in 0 .. Len(s) PROVE f[i] = WithoutStep(s, S, f, i)
  <2>1. CASE i = 0
    BY <1>2, <2>1 DEF RunOf, WithoutStep
  <2>2. CASE i # 0
    <3>1. i \in 1 .. Len(s) /\ f[i - 1] \in Seq(A)
      BY <1>2, <2>2 DEF RunOf
    <3> QED
      BY <1>2, <2>2, <3>1 DEF RunOf, WithoutStep, F
  <2> QED
    BY <2>1, <2>2
<1>4. f = [i \in 0 .. Len(s) |-> WithoutStep(s, S, f, i)]
  BY <1>2, <1>3 DEF RunOf
<1> DEFINE g == CHOOSE h : h = [i \in 0 .. Len(s) |-> WithoutStep(s, S, h, i)]
<1>5. g = [i \in 0 .. Len(s) |-> WithoutStep(s, S, g, i)]
  BY <1>4
<1>6. Without(s, S) = g[Len(s)]
  BY DEF Without, WithoutStep
<1> HIDE DEF g
<1>7. DOMAIN g = 0 .. Len(s) /\ \A i \in 0 .. Len(s) : g[i] = WithoutStep(s, S, g, i)
  BY <1>5
<1>8. g[0] = <<>>
  BY <1>7, <1>1 DEF WithoutStep
<1>9. \A i \in 1 .. Len(s) : g[i] = IF s[i] \in S THEN g[i - 1] ELSE Append(g[i - 1], s[i])
  <2> TAKE i \in 1 .. Len(s)
  <2>1. i \in 0 .. Len(s) /\ i # 0
    OBVIOUS
  <2> QED
    BY <1>7, <2>1 DEF WithoutStep
<1> QED
  BY <1>6, <1>7, <1>8, <1>9

\* What is left are the members outside the set, none of them more often than before.
LEMMA WithoutElems ==
    ASSUME NEW A, NEW s \in Seq(A), NEW S
    PROVE  /\ Without(s, S) \in Seq(A)
           /\ Elems(Without(s, S)) = Elems(s) \ S
           /\ Distinct(s) => Distinct(Without(s, S))
           /\ Len(Without(s, S)) <= Len(s)
<1>1. PICK g : /\ DOMAIN g = 0 .. Len(s) /\ g[0] = <<>> /\ Without(s, S) = g[Len(s)]
               /\ \A i \in 1 .. Len(s) :
                     g[i] = IF s[i] \in S THEN g[i - 1] ELSE Append(g[i - 1], s[i])
  BY WithoutRec
<1> DEFINE First(i) == {s[j] : j \in 1 .. i}
           P(i) == /\ g[i] \in Seq(A) /\ Elems(g[i]) = First(i) \ S
                   /\ Distinct(s) => Distinct(g[i])
                   /\ Len(g[i]) <= i
           T == {i \in 0 .. Len(s) : P(i)}
<1>2. P(0)
  <2>1. First(0) = {}
    OBVIOUS
  <2>2. Elems(<<>>) = {} /\ Distinct(<<>>)
    BY DEF Elems, Distinct
  <2> QED
    BY <1>1, <2>1, <2>2
<1>3. ASSUME NEW i \in 1 .. Len(s), P(i - 1) PROVE P(i)
  <2>1. First(i) = First(i - 1) \cup {s[i]} /\ s[i] \in A
    OBVIOUS
  <2>2. CASE s[i] \in S
    BY <1>1, <1>3, <2>1, <2>2
  <2>3. CASE s[i] \notin S
    <3>1. g[i] = Append(g[i - 1], s[i])
      BY <1>1, <2>3
    <3>2. ASSUME Distinct(s) PROVE s[i] \notin Elems(g[i - 1])
      BY <1>3, <3>2 DEF Distinct
    <3>3. /\ g[i] \in Seq(A) /\ Elems(g[i]) = Elems(g[i - 1]) \cup {s[i]}
          /\ Len(g[i]) = Len(g[i - 1]) + 1
      BY <1>3, <2>1, <3>1, ElemsAppend
    <3>4. Distinct(s) => Distinct(g[i])
      BY <1>3, <2>1, <3>1, <3>2, ElemsAppend
    <3>5. Elems(g[i]) = First(i) \ S
      BY <1>3, <2>1, <2>3, <3>3
    <3> QED
      BY <1>3, <3>3, <3>4, <3>5
  <2> QED
    BY <2>2, <2>3
<1> HIDE DEF P
<1>4. Len(s) \in T
  <2>1. \A i \in 1 .. Len(s) : i - 1 \in T => i \in T
    BY <1>3
  <2>2. 0 \in T /\ Len(s) \in Nat
    BY <1>2
  <2>3. \A i \in 0 .. Len(s) : i \in T
    BY <2>1, <2>2, Upwards
  <2> QED
    BY <2>2, <2>3
<1>5. First(Len(s)) = Elems(s)
  BY DEF Elems
<1> QED
  BY <1>1, <1>4, <1>5 DEF P
-----------------------------------------------------------------------------
(***************************************************************************)
(* The loops of the scheduler                                              *)
(***************************************************************************)
LEMMA RingConstants ==
    /\ Stages \in Nat /\ Stages > 1 /\ NumClients \in Nat \ {0} /\ MaxOut \in Nat \ {0}
    /\ Slots \in Nat \ {0} /\ Budget \in Nat \ {0} /\ MaxDrops \in Nat
    /\ PromptLen \in [Client -> Nat \ {0}]
BY RingAssumption DEF Client

LEMMA AllTokens ==
    ASSUME req \in [Client -> RequestSet], NEW r \in Client
    PROVE  /\ AllTokenIds(r) \in Text
           /\ Len(AllTokenIds(r)) = PromptLen[r] + Len(req[r].out)
           /\ Len(AllTokenIds(r)) \in Nat \ {0}
           /\ Total(req[r], r) \in Int /\ NumNew(r) = Total(req[r], r) - req[r].nc
<1>1. req[r] \in RequestSet /\ req[r].out \in Text /\ req[r].ph \in Int /\ req[r].nc \in Nat
  BY DEF RequestSet
<1>2. PromptLen[r] \in Nat \ {0}
  BY RingConstants
<1>3. Prompt(r) \in Text /\ Len(Prompt(r)) = PromptLen[r]
  <2>1. \A p \in 1 .. PromptLen[r] : Tok(r, 0, p - 1) \in Token
    BY <1>2 DEF Tok, Token
  <2> QED
    BY <1>2, <2>1 DEF Prompt, Text
<1>4. AllTokenIds(r) \in Text /\ Len(AllTokenIds(r)) = Len(Prompt(r)) + Len(req[r].out)
  <2> DEFINE a == Prompt(r)
             b == req[r].out
  <2>1. a \in Seq(Token) /\ b \in Seq(Token)
    BY <1>1, <1>3 DEF Text
  <2> HIDE DEF a, b
  <2>2. a \o b \in Seq(Token) /\ Len(a \o b) = Len(a) + Len(b)
    BY <2>1, ElemsConcat
  <2> QED
    BY <2>2 DEF AllTokenIds, Text, a, b
<1>5. Len(req[r].out) \in Nat
  BY <1>1 DEF Text
<1>6. Len(AllTokenIds(r)) = PromptLen[r] + Len(req[r].out)
  BY <1>3, <1>4
<1>7. Total(req[r], r) \in Int
  BY <1>1, <1>2, <1>5 DEF Total
<1>8. NumNew(r) = Total(req[r], r) - req[r].nc
  BY <1>1, <1>2, <1>5, <1>6 DEF NumNew, Total
<1>9. Len(AllTokenIds(r)) \in Nat \ {0}
  BY <1>2, <1>5, <1>6
<1> QED
  BY <1>4, <1>6, <1>7, <1>8, <1>9

\* Rows for distinct requests of a set.
Chosen(rows, S) ==
    /\ rows \in Seq(Client \X (1 .. Budget))
    /\ \A i \in DOMAIN rows : rows[i][1] \in S
    /\ \A i, j \in DOMAIN rows : rows[i][1] = rows[j][1] => i = j

LEMMA ChooseOne ==
    ASSUME NEW rows, NEW S, Chosen(rows, S), NEW r \in Client, r \notin S, NEW n \in 1 .. Budget
    PROVE  /\ Chosen(Append(rows, <<r, n>>), S \cup {r})
           /\ DOMAIN Append(rows, <<r, n>>) = 1 .. Len(rows) + 1
           /\ Append(rows, <<r, n>>)[Len(rows) + 1] = <<r, n>>
           /\ \A i \in 1 .. Len(rows) : Append(rows, <<r, n>>)[i] = rows[i]
<1> DEFINE t == Append(rows, <<r, n>>)
<1>1. rows \in Seq(Client \X (1 .. Budget)) /\ <<r, n>> \in Client \X (1 .. Budget)
  BY DEF Chosen
<1>2. /\ t \in Seq(Client \X (1 .. Budget)) /\ Len(t) = Len(rows) + 1
      /\ t[Len(rows) + 1] = <<r, n>> /\ \A i \in 1 .. Len(rows) : t[i] = rows[i]
  BY <1>1, ElemsAppend
<1> HIDE DEF t
<1>3. DOMAIN t = 1 .. Len(rows) + 1 /\ DOMAIN rows = 1 .. Len(rows) /\ Len(rows) \in Nat
  BY <1>1, <1>2
<1>4. \A i \in DOMAIN t : t[i][1] \in S \cup {r}
  BY SMTT(40), <1>2, <1>3 DEF Chosen
<1>5. ASSUME NEW i \in DOMAIN t, NEW j \in DOMAIN t, t[i][1] = t[j][1] PROVE i = j
  <2>1. \A k \in DOMAIN rows : rows[k][1] # r
    BY DEF Chosen
  <2>2. CASE i \in DOMAIN rows /\ j \in DOMAIN rows
    BY <1>2, <1>3, <1>5, <2>2 DEF Chosen
  <2>3. CASE i \notin DOMAIN rows \/ j \notin DOMAIN rows
    BY <1>2, <1>3, <1>5, <2>1, <2>3
  <2> QED
    BY <2>2, <2>3
<1> QED
  BY <1>2, <1>3, <1>4, <1>5 DEF Chosen, t

LEMMA ChosenMore ==
    ASSUME NEW rows, NEW S, NEW U, Chosen(rows, S), S \subseteq U
    PROVE  Chosen(rows, U)
BY DEF Chosen

\* The members of a queue up to a place.
Before(queue, k) == {queue[j] : j \in 1 .. k}

LEMMA BeforeNext ==
    ASSUME NEW queue \in Seq(Client), NEW k \in 1 .. Len(queue)
    PROVE  /\ queue[k] \in Client
           /\ Before(queue, k) = Before(queue, k - 1) \cup {queue[k]}
           /\ Distinct(queue) => queue[k] \notin Before(queue, k - 1)
BY DEF Before, Distinct

LEMMA ScheduleRunningRec ==
    ASSUME req \in [Client -> RequestSet], NEW queue \in Seq(Client)
    PROVE  \E v : /\ DOMAIN v = 0 .. Len(queue) /\ v[0] = [rows |-> <<>>, budget |-> Budget]
                  /\ ScheduleRunning(queue) = v[Len(queue)]
                  /\ \A k \in 1 .. Len(queue) : v[k] = VisitRunning(v[k - 1], queue[k])
<1> DEFINE X == [rows : Seq(Client \X Nat), budget : Int]
           Step(v, k) == IF k = 0 THEN [rows |-> <<>>, budget |-> Budget]
                         ELSE VisitRunning(v[k - 1], queue[k])
           F == [k \in 1 .. Len(queue) |-> [x \in X |-> VisitRunning(x, queue[k])]]
           b == [rows |-> <<>>, budget |-> Budget]
<1>1. \A k \in 1 .. Len(queue) : \A x \in X : VisitRunning(x, queue[k]) \in X
  <2> TAKE k \in 1 .. Len(queue)
  <2> TAKE x \in X
  <2>1. queue[k] \in Client /\ NumNew(queue[k]) \in Int
    <3>1. queue[k] \in Client
      OBVIOUS
    <3>2. req[queue[k]].nc \in Nat
      BY <3>1 DEF RequestSet
    <3> QED
      BY SMTT(40), <3>1, <3>2, AllTokens
  <2> DEFINE n == Smaller(NumNew(queue[k]), x.budget)
  <2>2. x.rows \in Seq(Client \X Nat) /\ x.budget \in Int /\ n \in Int
    BY <2>1 DEF Smaller
  <2>3. CASE AtMaxTokens(queue[k]) \/ ~Eligible(queue[k]) \/ n <= 0
    BY <2>3 DEF VisitRunning
  <2>4. CASE ~(AtMaxTokens(queue[k]) \/ ~Eligible(queue[k]) \/ n <= 0)
    <3> HIDE DEF n
    <3>1. <<queue[k], n>> \in Client \X Nat
      BY <2>1, <2>2, <2>4
    <3>2. Append(x.rows, <<queue[k], n>>) \in Seq(Client \X Nat) /\ x.budget - n \in Int
      BY <2>2, <3>1, ElemsAppend
    <3>3. VisitRunning(x, queue[k]) = [rows |-> Append(x.rows, <<queue[k], n>>), budget |-> x.budget - n]
      BY <2>4 DEF VisitRunning, n
    <3> QED
      BY <3>2, <3>3
  <2> QED
    BY <2>3, <2>4
<1>2. StepsOver(F, Len(queue), X) /\ b \in X /\ Len(queue) \in Nat
  <2>1. <<>> \in Seq(Client \X Nat) /\ Budget \in Int
    BY RingConstants
  <2>2. F \in [1 .. Len(queue) -> [X -> X]]
    <3> HIDE DEF X
    <3> QED
      BY <1>1
  <2> QED
    BY <2>1, <2>2 DEF StepsOver
<1> HIDE DEF X, F, b
<1>3. PICK f : RunOf(f, F, Len(queue), X, b)
  BY <1>2, Iterated
<1>4. ASSUME NEW k \in 0 .. Len(queue) PROVE f[k] = Step(f, k)
  <2>1. CASE k = 0
    BY <1>3, <2>1 DEF RunOf, b
  <2>2. CASE k # 0
    <3>1. k \in 1 .. Len(queue) /\ f[k - 1] \in X
      BY <1>3, <2>2 DEF RunOf
    <3>2. f[k] = F[k][f[k - 1]]
      BY <1>3, <3>1 DEF RunOf
    <3>3. F[k][f[k - 1]] = VisitRunning(f[k - 1], queue[k])
      BY <3>1 DEF F
    <3> QED
      BY <2>2, <3>2, <3>3
  <2> QED
    BY <2>1, <2>2
<1>5. f = [k \in 0 .. Len(queue) |-> Step(f, k)]
  BY <1>3, <1>4 DEF RunOf
<1> DEFINE g == CHOOSE h : h = [k \in 0 .. Len(queue) |-> Step(h, k)]
<1>6. g = [k \in 0 .. Len(queue) |-> Step(g, k)]
  BY <1>5
<1>7. ScheduleRunning(queue) = g[Len(queue)]
  BY DEF ScheduleRunning
<1> HIDE DEF g
<1>8. DOMAIN g = 0 .. Len(queue) /\ \A k \in 0 .. Len(queue) : g[k] = Step(g, k)
  <2> HIDE DEF Step
  <2> QED
    BY <1>6
<1>9. g[0] = [rows |-> <<>>, budget |-> Budget]
  BY <1>2, <1>8
<1>10. \A k \in 1 .. Len(queue) : g[k] = VisitRunning(g[k - 1], queue[k])
  BY <1>8
<1> QED
  BY <1>7, <1>8, <1>9, <1>10

\* What the loop over the running requests schedules.
LEMMA RunningRows ==
    ASSUME req \in [Client -> RequestSet], NEW queue \in Seq(Client), Distinct(queue)
    PROVE  LET v == ScheduleRunning(queue)
           IN  /\ v.budget \in 0 .. Budget /\ Chosen(v.rows, Elems(queue))
               /\ \A i \in DOMAIN v.rows :
                     Eligible(v.rows[i][1]) /\ v.rows[i][2] <= NumNew(v.rows[i][1])
<1>1. PICK v : /\ DOMAIN v = 0 .. Len(queue) /\ v[0] = [rows |-> <<>>, budget |-> Budget]
               /\ ScheduleRunning(queue) = v[Len(queue)]
               /\ \A k \in 1 .. Len(queue) : v[k] = VisitRunning(v[k - 1], queue[k])
  BY ScheduleRunningRec
<1> DEFINE Good(w) == \A i \in DOMAIN w.rows :
                          Eligible(w.rows[i][1]) /\ w.rows[i][2] <= NumNew(w.rows[i][1])
           P(k) == v[k].budget \in 0 .. Budget /\ Chosen(v[k].rows, Before(queue, k)) /\ Good(v[k])
           T == {k \in 0 .. Len(queue) : P(k)}
<1>2. P(0)
  <2>1. v[0].rows = <<>> /\ v[0].budget = Budget
    BY <1>1
  <2> QED
    BY <2>1, RingConstants DEF Chosen
<1>3. ASSUME NEW k \in 1 .. Len(queue), P(k - 1) PROVE P(k)
  <2> DEFINE r == queue[k]
             w == v[k - 1]
             n == Smaller(NumNew(r), w.budget)
  <2>1. r \in Client /\ r \notin Before(queue, k - 1) /\ Before(queue, k) = Before(queue, k - 1) \cup {r}
    BY BeforeNext
  <2>2. v[k] = VisitRunning(w, r)
    BY <1>1
  <2>3. CASE AtMaxTokens(r) \/ ~Eligible(r) \/ n <= 0
    <3>1. v[k] = w
      BY <2>2, <2>3 DEF VisitRunning
    <3>2. Chosen(w.rows, Before(queue, k))
      BY <1>3, <2>1, ChosenMore
    <3> QED
      BY <1>3, <3>1, <3>2
  <2>4. CASE ~(AtMaxTokens(r) \/ ~Eligible(r) \/ n <= 0)
    <3>1. v[k] = [rows |-> Append(w.rows, <<r, n>>), budget |-> w.budget - n]
      BY <2>2, <2>4 DEF VisitRunning
    <3>2. NumNew(r) \in Int /\ w.budget \in 0 .. Budget /\ Budget \in Nat
      <4>1. req[r].nc \in Nat
        BY <2>1 DEF RequestSet
      <4>2. Total(req[r], r) \in Int /\ NumNew(r) = Total(req[r], r) - req[r].nc
        BY <2>1, AllTokens
      <4> HIDE DEF r
      <4> QED
        BY <1>3, <4>1, <4>2, RingConstants
    <3> HIDE DEF n, r, w
    <3>3. n \in 1 .. Budget /\ n <= NumNew(r) /\ n <= w.budget
      BY <2>4, <3>2 DEF Smaller, n
    <3>4. Chosen(w.rows, Before(queue, k - 1)) /\ Good(w)
      BY <1>3 DEF w
    <3>5. /\ Chosen(Append(w.rows, <<r, n>>), Before(queue, k - 1) \cup {r})
          /\ DOMAIN Append(w.rows, <<r, n>>) = 1 .. Len(w.rows) + 1
          /\ Append(w.rows, <<r, n>>)[Len(w.rows) + 1] = <<r, n>>
          /\ \A i \in 1 .. Len(w.rows) : Append(w.rows, <<r, n>>)[i] = w.rows[i]
      BY ZenonT(80), <2>1, <3>3, <3>4, ChooseOne
    <3>6. Good(v[k])
      <4>1. v[k].rows = Append(w.rows, <<r, n>>) /\ Eligible(r)
        BY <2>4, <3>1
      <4>2. w.rows \in Seq(Client \X (1 .. Budget)) /\ DOMAIN w.rows = 1 .. Len(w.rows)
        BY <3>4 DEF Chosen
      <4> SUFFICES ASSUME NEW i \in DOMAIN v[k].rows
                   PROVE  Eligible(v[k].rows[i][1]) /\ v[k].rows[i][2] <= NumNew(v[k].rows[i][1])
        OBVIOUS
      <4>3. CASE i = Len(w.rows) + 1
        BY <3>3, <3>5, <4>1, <4>3
      <4>4. CASE i # Len(w.rows) + 1
        <5>1. i \in DOMAIN w.rows /\ v[k].rows[i] = w.rows[i]
          BY <3>5, <4>1, <4>2, <4>4
        <5> QED
          BY <3>4, <5>1
      <4> QED
        BY <4>3, <4>4
    <3>7. v[k].budget \in 0 .. Budget /\ v[k].rows = Append(w.rows, <<r, n>>)
      <4>1. w.budget - n \in 0 .. Budget
        BY <3>2, <3>3
      <4> QED
        BY <3>1, <4>1
    <3> QED
      BY <2>1, <3>5, <3>6, <3>7
  <2> QED
    BY <2>3, <2>4
<1> HIDE DEF P
<1>4. Len(queue) \in T
  <2>1. \A k \in 1 .. Len(queue) : k - 1 \in T => k \in T
    BY <1>3
  <2>2. 0 \in T /\ Len(queue) \in Nat
    BY <1>2
  <2>3. \A k \in 0 .. Len(queue) : k \in T
    BY <2>1, <2>2, Upwards
  <2> QED
    BY <2>2, <2>3
<1>5. Before(queue, Len(queue)) = Elems(queue)
  BY DEF Before, Elems
<1> QED
  BY <1>1, <1>4, <1>5 DEF P

LEMMA ScheduleWaitingRec ==
    ASSUME req \in [Client -> RequestSet], waitingQ \in Seq(Client), NEW budget \in 0 .. Budget,
           Len(runningQ) \in 0 .. Slots
    PROVE  \E v : /\ DOMAIN v = 0 .. Len(waitingQ)
                  /\ v[0] = [rows |-> <<>>, budget |-> budget, room |-> Slots - Len(runningQ)]
                  /\ ScheduleWaiting(budget) = v[Len(waitingQ)]
                  /\ \A k \in 1 .. Len(waitingQ) : v[k] = VisitWaiting(v[k - 1], waitingQ[k])
<1> DEFINE X == [rows : Seq(Client \X Int), budget : Int, room : Int]
           b == [rows |-> <<>>, budget |-> budget, room |-> Slots - Len(runningQ)]
           Step(v, k) == IF k = 0 THEN [rows |-> <<>>, budget |-> budget, room |-> Slots - Len(runningQ)]
                         ELSE VisitWaiting(v[k - 1], waitingQ[k])
           F == [k \in 1 .. Len(waitingQ) |-> [x \in X |-> VisitWaiting(x, waitingQ[k])]]
<1>1. \A k \in 1 .. Len(waitingQ) : \A x \in X : VisitWaiting(x, waitingQ[k]) \in X
  <2> TAKE k \in 1 .. Len(waitingQ)
  <2> TAKE x \in X
  <2> DEFINE r == waitingQ[k]
             n == Smaller(Len(AllTokenIds(r)), x.budget)
  <2>1. r \in Client
    OBVIOUS
  <2>2. Len(AllTokenIds(r)) \in Nat
    BY <2>1, AllTokens
  <2>3. x.rows \in Seq(Client \X Int) /\ x.budget \in Int /\ x.room \in Int /\ n \in Int
    BY <2>2 DEF Smaller
  <2>4. CASE x.budget = 0 \/ x.room = 0 \/ ~MayResume(r)
    BY <2>4 DEF VisitWaiting
  <2>5. CASE ~(x.budget = 0 \/ x.room = 0 \/ ~MayResume(r))
    <3>1. VisitWaiting(x, r) =
            [rows |-> Append(x.rows, <<r, n>>), budget |-> x.budget - n, room |-> x.room - 1]
      BY <2>5 DEF VisitWaiting
    <3> HIDE DEF n
    <3>2. <<r, n>> \in Client \X Int
      BY <2>1, <2>3
    <3>3. /\ Append(x.rows, <<r, n>>) \in Seq(Client \X Int)
          /\ x.budget - n \in Int /\ x.room - 1 \in Int
      BY <2>3, <3>2, ElemsAppend
    <3> QED
      BY <3>1, <3>3
  <2> QED
    BY <2>4, <2>5
<1>2. StepsOver(F, Len(waitingQ), X) /\ b \in X /\ Len(waitingQ) \in Nat
  <2>1. <<>> \in Seq(Client \X Int) /\ budget \in Int /\ Slots - Len(runningQ) \in Int
    BY RingConstants
  <2>2. F \in [1 .. Len(waitingQ) -> [X -> X]]
    <3> HIDE DEF X
    <3> QED
      BY <1>1
  <2> QED
    BY <2>1, <2>2 DEF StepsOver
<1> HIDE DEF X, F, b
<1>3. PICK f : RunOf(f, F, Len(waitingQ), X, b)
  BY <1>2, Iterated
<1>4. ASSUME NEW k \in 0 .. Len(waitingQ) PROVE f[k] = Step(f, k)
  <2>1. CASE k = 0
    BY <1>3, <2>1 DEF RunOf, b
  <2>2. CASE k # 0
    <3>1. k \in 1 .. Len(waitingQ) /\ f[k - 1] \in X
      BY <1>3, <2>2 DEF RunOf
    <3>2. f[k] = F[k][f[k - 1]]
      BY <1>3, <3>1 DEF RunOf
    <3>3. F[k][f[k - 1]] = VisitWaiting(f[k - 1], waitingQ[k])
      BY <3>1 DEF F
    <3> QED
      BY <2>2, <3>2, <3>3
  <2> QED
    BY <2>1, <2>2
<1>5. f = [k \in 0 .. Len(waitingQ) |-> Step(f, k)]
  BY <1>3, <1>4 DEF RunOf
<1> DEFINE g == CHOOSE h : h = [k \in 0 .. Len(waitingQ) |-> Step(h, k)]
<1>6. g = [k \in 0 .. Len(waitingQ) |-> Step(g, k)]
  BY <1>5
<1>7. ScheduleWaiting(budget) = g[Len(waitingQ)]
  BY DEF ScheduleWaiting
<1> HIDE DEF g
<1>8. DOMAIN g = 0 .. Len(waitingQ) /\ \A k \in 0 .. Len(waitingQ) : g[k] = Step(g, k)
  <2> HIDE DEF Step
  <2> QED
    BY <1>6
<1>9. g[0] = [rows |-> <<>>, budget |-> budget, room |-> Slots - Len(runningQ)]
  BY <1>2, <1>8
<1>10. \A k \in 1 .. Len(waitingQ) : g[k] = VisitWaiting(g[k - 1], waitingQ[k])
  BY <1>8
<1> QED
  BY <1>7, <1>8, <1>9, <1>10

\* What the loop over the waiting requests schedules.
LEMMA WaitingRows ==
    ASSUME req \in [Client -> RequestSet], waitingQ \in Seq(Client), Distinct(waitingQ),
           NEW budget \in 0 .. Budget, Len(runningQ) \in 0 .. Slots
    PROVE  LET v == ScheduleWaiting(budget)
           IN  /\ Chosen(v.rows, Elems(waitingQ)) /\ Len(v.rows) <= Slots - Len(runningQ)
               /\ \A i \in DOMAIN v.rows :
                     MayResume(v.rows[i][1]) /\ v.rows[i][2] <= Len(AllTokenIds(v.rows[i][1]))
<1>1. PICK v : /\ DOMAIN v = 0 .. Len(waitingQ)
               /\ v[0] = [rows |-> <<>>, budget |-> budget, room |-> Slots - Len(runningQ)]
               /\ ScheduleWaiting(budget) = v[Len(waitingQ)]
               /\ \A k \in 1 .. Len(waitingQ) : v[k] = VisitWaiting(v[k - 1], waitingQ[k])
  BY ScheduleWaitingRec
<1> DEFINE Room == Slots - Len(runningQ)
           Good(w) == \A i \in DOMAIN w.rows :
                          MayResume(w.rows[i][1]) /\ w.rows[i][2] <= Len(AllTokenIds(w.rows[i][1]))
           P(k) == /\ v[k].budget \in 0 .. Budget /\ Chosen(v[k].rows, Before(waitingQ, k)) /\ Good(v[k])
                   /\ v[k].room \in 0 .. Room /\ Len(v[k].rows) + v[k].room = Room
           T == {k \in 0 .. Len(waitingQ) : P(k)}
<1>0. Room \in Nat /\ Budget \in Nat
  BY RingConstants
<1>2. P(0)
  <2>1. v[0].rows = <<>> /\ v[0].budget = budget /\ v[0].room = Room
    BY <1>1
  <2>2. Len(<<>>) + Room = Room /\ Room \in 0 .. Room
    BY <1>0
  <2> HIDE DEF Room
  <2> QED
    BY <2>1, <2>2, RingConstants DEF Chosen
<1> HIDE DEF Room
<1>3. ASSUME NEW k \in 1 .. Len(waitingQ), P(k - 1) PROVE P(k)
  <2> DEFINE r == waitingQ[k]
             w == v[k - 1]
             n == Smaller(Len(AllTokenIds(r)), w.budget)
  <2>1. /\ r \in Client /\ r \notin Before(waitingQ, k - 1)
        /\ Before(waitingQ, k) = Before(waitingQ, k - 1) \cup {r}
    BY BeforeNext
  <2>2. v[k] = VisitWaiting(w, r)
    BY <1>1
  <2>3. CASE w.budget = 0 \/ w.room = 0 \/ ~MayResume(r)
    <3>1. v[k] = w
      BY <2>2, <2>3 DEF VisitWaiting
    <3>2. Chosen(w.rows, Before(waitingQ, k))
      BY <1>3, <2>1, ChosenMore
    <3> QED
      BY <1>3, <3>1, <3>2
  <2>4. CASE ~(w.budget = 0 \/ w.room = 0 \/ ~MayResume(r))
    <3>1. v[k] = [rows |-> Append(w.rows, <<r, n>>), budget |-> w.budget - n, room |-> w.room - 1]
      BY <2>2, <2>4 DEF VisitWaiting
    <3>2. Len(AllTokenIds(r)) \in Nat \ {0} /\ w.budget \in 1 .. Budget /\ w.room \in 1 .. Room
      <4>1. Len(AllTokenIds(r)) \in Nat \ {0}
        BY <2>1, AllTokens
      <4>2. w.budget \in 0 .. Budget /\ w.room \in 0 .. Room
        BY <1>3
      <4> HIDE DEF r, w
      <4> QED
        BY <1>0, <2>4, <4>1, <4>2
    <3> HIDE DEF n, r, w
    <3>3. n \in 1 .. Budget /\ n <= Len(AllTokenIds(r)) /\ n <= w.budget
      BY <1>0, <3>2 DEF Smaller, n
    <3>4. Chosen(w.rows, Before(waitingQ, k - 1)) /\ Good(w) /\ Len(w.rows) + w.room = Room
      BY <1>3 DEF w
    <3>5. /\ Chosen(Append(w.rows, <<r, n>>), Before(waitingQ, k - 1) \cup {r})
          /\ DOMAIN Append(w.rows, <<r, n>>) = 1 .. Len(w.rows) + 1
          /\ Append(w.rows, <<r, n>>)[Len(w.rows) + 1] = <<r, n>>
          /\ \A i \in 1 .. Len(w.rows) : Append(w.rows, <<r, n>>)[i] = w.rows[i]
      BY ZenonT(80), <2>1, <3>3, <3>4, ChooseOne
    <3>6. Good(v[k])
      <4>1. v[k].rows = Append(w.rows, <<r, n>>) /\ MayResume(r)
        BY <2>4, <3>1
      <4>2. w.rows \in Seq(Client \X (1 .. Budget)) /\ DOMAIN w.rows = 1 .. Len(w.rows)
        BY <3>4 DEF Chosen
      <4> SUFFICES ASSUME NEW i \in DOMAIN v[k].rows
                   PROVE  MayResume(v[k].rows[i][1]) /\ v[k].rows[i][2] <= Len(AllTokenIds(v[k].rows[i][1]))
        OBVIOUS
      <4>3. CASE i = Len(w.rows) + 1
        BY <3>3, <3>5, <4>1, <4>3
      <4>4. CASE i # Len(w.rows) + 1
        <5>1. i \in DOMAIN w.rows /\ v[k].rows[i] = w.rows[i]
          BY <3>5, <4>1, <4>2, <4>4
        <5> QED
          BY <3>4, <5>1
      <4> QED
        BY <4>3, <4>4
    <3>7. v[k].budget \in 0 .. Budget /\ v[k].rows = Append(w.rows, <<r, n>>) /\ v[k].room = w.room - 1
      <4>1. w.budget - n \in 0 .. Budget
        BY <1>0, <3>2, <3>3
      <4> QED
        BY <3>1, <4>1
    <3>8. w.rows \in Seq(Client \X (1 .. Budget)) /\ Len(w.rows) \in Nat
      BY <3>4 DEF Chosen
    <3>9. Len(v[k].rows) = Len(w.rows) + 1
      BY <3>7, <3>8
    <3>10. w.room - 1 \in 0 .. Room /\ (Len(w.rows) + 1) + (w.room - 1) = Room
      BY SMTT(40), <1>0, <3>2, <3>4, <3>8
    <3> QED
      BY <2>1, <3>5, <3>6, <3>7, <3>9, <3>10
  <2> QED
    BY <2>3, <2>4
<1> HIDE DEF P
<1>4. Len(waitingQ) \in T
  <2>1. \A k \in 1 .. Len(waitingQ) : k - 1 \in T => k \in T
    BY <1>3
  <2>2. 0 \in T /\ Len(waitingQ) \in Nat
    BY <1>2
  <2>3. \A k \in 0 .. Len(waitingQ) : k \in T
    BY <2>1, <2>2, Upwards
  <2> QED
    BY <2>2, <2>3
<1>5. Before(waitingQ, Len(waitingQ)) = Elems(waitingQ)
  BY DEF Before, Elems
<1>6. P(Len(waitingQ))
  BY <1>4
<1>7. LET w == v[Len(waitingQ)]
      IN  Chosen(w.rows, Elems(waitingQ)) /\ Good(w) /\ w.room \in 0 .. Room /\ Len(w.rows) + w.room = Room
  BY <1>5, <1>6 DEF P
<1>8. Len(v[Len(waitingQ)].rows) <= Room
  <2>1. Len(v[Len(waitingQ)].rows) \in Nat
    BY <1>7 DEF Chosen
  <2> QED
    BY <1>0, <1>7, <2>1
<1> QED
  BY <1>1, <1>7, <1>8 DEF Room
-----------------------------------------------------------------------------
(***************************************************************************)
(* The order of a batch                                                    *)
(***************************************************************************)
LEMMA OfSizeElems ==
    ASSUME NEW rows \in Seq(RowSet), NEW n \in Nat
    PROVE  /\ OfSize(rows, n) \in Seq(RowSet)
           /\ Elems(OfSize(rows, n)) = {x \in Elems(rows) : x.q = n}
           /\ Distinct(rows) => Distinct(OfSize(rows, n))
<1> DEFINE S == {row \in Elems(rows) : row.q # n}
<1>1. /\ Without(rows, S) \in Seq(RowSet) /\ Elems(Without(rows, S)) = Elems(rows) \ S
      /\ Distinct(rows) => Distinct(Without(rows, S))
  BY WithoutElems
<1> QED
  BY <1>1 DEF OfSize

LEMMA SortElems ==
    ASSUME NEW rows \in Seq(RowSet)
    PROVE  /\ SortBatch(rows) \in Seq(RowSet) /\ Elems(SortBatch(rows)) = Elems(rows)
           /\ Distinct(rows) => Distinct(SortBatch(rows))
<1> DEFINE X == Seq(RowSet)
           Step(g, n) == IF n = 0 THEN <<>> ELSE g[n - 1] \o OfSize(rows, n)
           F == [n \in 1 .. Budget |-> [x \in X |-> x \o OfSize(rows, n)]]
<1>0. Budget \in Nat
  BY RingConstants
<1>1. \A n \in 1 .. Budget : \A x \in X : x \o OfSize(rows, n) \in X
  BY OfSizeElems, ElemsConcat
<1>2. StepsOver(F, Budget, X) /\ <<>> \in X
  <2>1. <<>> \in X
    OBVIOUS
  <2> HIDE DEF X
  <2> QED
    BY <1>1, <2>1 DEF StepsOver
<1> HIDE DEF X, F
<1>3. PICK f : RunOf(f, F, Budget, X, <<>>)
  BY <1>0, <1>2, Iterated
<1>4. ASSUME NEW n \in 0 .. Budget PROVE f[n] = Step(f, n)
  <2>1. CASE n = 0
    BY <1>3, <2>1 DEF RunOf
  <2>2. CASE n # 0
    <3>1. n \in 1 .. Budget /\ f[n - 1] \in X
      BY <1>0, <1>3, <2>2 DEF RunOf
    <3>2. f[n] = F[n][f[n - 1]]
      BY <1>3, <3>1 DEF RunOf
    <3>3. F[n][f[n - 1]] = f[n - 1] \o OfSize(rows, n)
      BY <3>1 DEF F
    <3> QED
      BY <2>2, <3>2, <3>3
  <2> QED
    BY <2>1, <2>2
<1>5. f = [n \in 0 .. Budget |-> Step(f, n)]
  BY <1>3, <1>4 DEF RunOf
<1> DEFINE g == CHOOSE h : h = [n \in 0 .. Budget |-> Step(h, n)]
<1>6. g = [n \in 0 .. Budget |-> Step(g, n)]
  BY <1>5
<1>7. SortBatch(rows) = g[Budget]
  BY DEF SortBatch
<1> HIDE DEF g
<1>8. \A n \in 0 .. Budget : g[n] = Step(g, n)
  <2> HIDE DEF Step
  <2> QED
    BY <1>6
<1> DEFINE UpTo(n) == {x \in Elems(rows) : x.q <= n}
           P(n) == g[n] \in Seq(RowSet) /\ Elems(g[n]) = UpTo(n) /\ (Distinct(rows) => Distinct(g[n]))
           T == {n \in 0 .. Budget : P(n)}
<1>9. \A x \in Elems(rows) : x.q \in 1 .. Budget
  <2>1. Elems(rows) \subseteq RowSet
    BY ElemsOf
  <2> QED
    BY <2>1 DEF RowSet
<1>10. P(0)
  <2>1. g[0] = <<>>
    <3>1. 0 \in 0 .. Budget
      BY <1>0
    <3> QED
      BY <1>8, <3>1, Zenon
  <2>2. Elems(<<>>) = {} /\ Distinct(<<>>)
    BY DEF Elems, Distinct
  <2>3. UpTo(0) = {}
    BY <1>9
  <2> QED
    BY <2>1, <2>2, <2>3
<1>11. ASSUME NEW n \in 1 .. Budget, P(n - 1) PROVE P(n)
  <2>1. g[n] = g[n - 1] \o OfSize(rows, n)
    <3>1. n \in 0 .. Budget /\ n # 0
      BY <1>0
    <3> QED
      BY <1>8, <3>1
  <2>2. /\ OfSize(rows, n) \in Seq(RowSet)
        /\ Elems(OfSize(rows, n)) = {x \in Elems(rows) : x.q = n}
        /\ Distinct(rows) => Distinct(OfSize(rows, n))
    <3>1. n \in Nat
      BY <1>0
    <3> QED
      BY <3>1, OfSizeElems
  <2>3. UpTo(n) = UpTo(n - 1) \cup {x \in Elems(rows) : x.q = n}
    BY <1>0, <1>9
  <2>4. UpTo(n - 1) \cap {x \in Elems(rows) : x.q = n} = {}
    BY <1>0, <1>9
  <2> HIDE DEF UpTo
  <2>5. /\ g[n] \in Seq(RowSet)
        /\ Elems(g[n]) = UpTo(n)
    BY <1>11, <2>1, <2>2, <2>3, ElemsConcat
  <2>6. Distinct(rows) => Distinct(g[n])
    BY <1>11, <2>1, <2>2, <2>4, DistinctConcat
  <2> QED
    BY <2>5, <2>6
<1> HIDE DEF P
<1>12. P(Budget)
  <2>1. \A n \in 1 .. Budget : n - 1 \in T => n \in T
    BY <1>11
  <2>2. 0 \in T
    BY <1>0, <1>10
  <2>3. \A n \in 0 .. Budget : n \in T
    BY <1>0, <2>1, <2>2, Upwards
  <2> QED
    BY <1>0, <2>3
<1>13. UpTo(Budget) = Elems(rows)
  BY <1>9
<1> QED
  BY <1>7, <1>12, <1>13 DEF P

-----------------------------------------------------------------------------
(***************************************************************************)
(* The messages and their rows                                             *)
(***************************************************************************)
LEMMA RowFacts ==
    ASSUME NEW msg \in MessageSet, NEW r, Has(msg, r)
    PROVE  /\ RowOf(msg, r) \in RowSet /\ RowOf(msg, r).r = r /\ r \in Client
           /\ \E j \in DOMAIN msg.rows : msg.rows[j] = RowOf(msg, r)
<1>1. PICK j \in DOMAIN msg.rows : msg.rows[j].r = r
  BY DEF Has
<1> DEFINE k == CHOOSE i \in DOMAIN msg.rows : msg.rows[i].r = r
<1>2. k \in DOMAIN msg.rows /\ msg.rows[k].r = r
  BY <1>1
<1> HIDE DEF k
<1>3. msg.rows[k] \in RowSet
  BY <1>2 DEF MessageSet
<1>4. RowOf(msg, r) = msg.rows[k]
  BY DEF RowOf, k
<1> QED
  BY <1>2, <1>3, <1>4 DEF RowSet

LEMMA RowNumbers ==
    ASSUME NEW x \in RowSet
    PROVE  /\ x.r \in Client /\ x.q \in 1 .. Budget /\ x.q \in Nat \ {0} /\ x.nc \in Nat
           /\ x.base \in Text /\ x.base \in Seq(Token) /\ Len(x.base) \in Nat
           /\ x.inc \in Nat /\ End(x) \in Nat \ {0} /\ End(x) = x.nc + x.q
           /\ Samples(x) <=> End(x) >= Len(x.base)
BY RingConstants DEF RowSet, End, Samples, Text

\* A message has one row for a request.
LEMMA RowIs ==
    ASSUME NEW msg \in MessageSet, RowsDistinct(msg), NEW j \in DOMAIN msg.rows
    PROVE  /\ Has(msg, msg.rows[j].r) /\ RowOf(msg, msg.rows[j].r) = msg.rows[j]
           /\ msg.rows[j] \in RowSet
<1>1. Has(msg, msg.rows[j].r)
  BY DEF Has
<1> DEFINE k == CHOOSE i \in DOMAIN msg.rows : msg.rows[i].r = msg.rows[j].r
<1>2. k \in DOMAIN msg.rows /\ msg.rows[k].r = msg.rows[j].r
  OBVIOUS
<1> HIDE DEF k
<1>3. k = j
  BY <1>2 DEF RowsDistinct
<1>4. RowOf(msg, msg.rows[j].r) = msg.rows[k]
  BY DEF RowOf, k
<1> QED
  BY <1>1, <1>3, <1>4 DEF MessageSet

\* The batch of a message holds its rows, each of them once.
LEMMA BatchRows ==
    ASSUME NEW msg \in MessageSet, RowsDistinct(msg)
    PROVE  LET b == SortBatch(msg.rows)
           IN  /\ b \in Seq(RowSet) /\ DOMAIN b = 1 .. Len(b)
               /\ \A j \in DOMAIN b : Has(msg, b[j].r) /\ RowOf(msg, b[j].r) = b[j]
               /\ \A r : Has(msg, r) => \E j \in DOMAIN b : b[j] = RowOf(msg, r) /\ b[j].r = r
               /\ \A i, j \in DOMAIN b : b[i].r = b[j].r => i = j
               /\ (\E j \in DOMAIN b : Samples(b[j])) <=> Needs(msg)
               /\ b = <<>> <=> msg.rows = <<>>
<1> DEFINE b == SortBatch(msg.rows)
<1>1. msg.rows \in Seq(RowSet)
  BY DEF MessageSet
<1>2. Distinct(msg.rows)
  BY DEF Distinct, RowsDistinct
<1>3. b \in Seq(RowSet) /\ Elems(b) = Elems(msg.rows) /\ Distinct(b)
  BY <1>1, <1>2, SortElems
<1> HIDE DEF b
<1>4. \A j \in DOMAIN b : \E k \in DOMAIN msg.rows : msg.rows[k] = b[j]
  BY <1>3 DEF Elems
<1>5. \A k \in DOMAIN msg.rows : \E j \in DOMAIN b : msg.rows[k] = b[j]
  BY <1>3 DEF Elems
<1>6. \A j \in DOMAIN b : Has(msg, b[j].r) /\ RowOf(msg, b[j].r) = b[j]
  BY <1>4, RowIs
<1>7. ASSUME NEW r, Has(msg, r) PROVE \E j \in DOMAIN b : b[j] = RowOf(msg, r) /\ b[j].r = r
  BY <1>5, <1>7, RowFacts
<1>8. \A i, j \in DOMAIN b : b[i].r = b[j].r => i = j
  BY <1>3, <1>6 DEF Distinct
<1>9. (\E j \in DOMAIN b : Samples(b[j])) <=> Needs(msg)
  BY <1>4, <1>5 DEF Needs
<1>10. b = <<>> <=> msg.rows = <<>>
  <2>1. DOMAIN b = {} <=> DOMAIN msg.rows = {}
    BY <1>4, <1>5
  <2> QED
    BY <1>1, <1>3, <2>1
<1>11. DOMAIN b = 1 .. Len(b)
  BY <1>3
<1> QED
  BY <1>3, <1>6, <1>7, <1>8, <1>9, <1>10, <1>11 DEF b

LEMMA LastUnique ==
    ASSUME NEW ms, NEW r, NEW p \in Nat, NEW a, NEW b, Last(ms, r, a, p), Last(ms, r, b, p)
    PROVE  a = b
<1>1. a \in 1 .. p /\ b \in 1 .. p
  BY DEF Last
<1>2. ~(a < b)
  <2> SUFFICES ASSUME a < b PROVE FALSE
    OBVIOUS
  <2>1. b \in (a+1) .. p
    BY <1>1
  <2> QED
    BY <2>1 DEF Last
<1>3. ~(b < a)
  <2> SUFFICES ASSUME b < a PROVE FALSE
    OBVIOUS
  <2>1. a \in (b+1) .. p
    BY <1>1
  <2> QED
    BY <2>1 DEF Last
<1> QED
  BY <1>1, <1>2, <1>3

LEMMA LastNext ==
    ASSUME NEW ms, NEW r, NEW p \in Nat, NEW a
    PROVE  Last(ms, r, a, p + 1) <=>
              \/ a = p + 1 /\ Has(ms[p + 1], r)
              \/ Last(ms, r, a, p) /\ ~Has(ms[p + 1], r) /\ ~Leaves(ms[p + 1], r)
<1>1. ASSUME Last(ms, r, a, p + 1)
      PROVE  \/ a = p + 1 /\ Has(ms[p + 1], r)
             \/ Last(ms, r, a, p) /\ ~Has(ms[p + 1], r) /\ ~Leaves(ms[p + 1], r)
  <2>1. CASE a = p + 1
    BY <1>1, <2>1 DEF Last
  <2>2. CASE a # p + 1
    <3>1. a \in 1 .. p /\ p + 1 \in (a+1) .. (p+1)
      BY <1>1, <2>2 DEF Last
    <3>2. \A c \in (a+1) .. p : c \in (a+1) .. (p+1)
      BY <3>1
    <3> QED
      BY <1>1, <3>1, <3>2 DEF Last
  <2> QED
    BY <2>1, <2>2
<1>2. ASSUME a = p + 1, Has(ms[p + 1], r) PROVE Last(ms, r, a, p + 1)
  BY <1>2 DEF Last
<1>3. ASSUME Last(ms, r, a, p), ~Has(ms[p + 1], r), ~Leaves(ms[p + 1], r)
      PROVE  Last(ms, r, a, p + 1)
  <2>1. a \in 1 .. p /\ a \in 1 .. p + 1
    BY <1>3 DEF Last
  <2>2. \A c \in (a+1) .. (p+1) : c \in (a+1) .. p \/ c = p + 1
    BY <2>1
  <2> QED
    BY <1>3, <2>1, <2>2 DEF Last
<1> QED
  BY <1>1, <1>2, <1>3

LEMMA HeldNext ==
    ASSUME NEW ms, NEW p \in Nat, NEW r \in Client
    PROVE  r \in Held(ms, p + 1) <=>
              Has(ms[p + 1], r) \/ (r \in Held(ms, p) /\ ~Leaves(ms[p + 1], r))
<1>1. ASSUME r \in Held(ms, p + 1)
      PROVE  Has(ms[p + 1], r) \/ (r \in Held(ms, p) /\ ~Leaves(ms[p + 1], r))
  <2>1. PICK a \in 1 .. p + 1 : Last(ms, r, a, p + 1)
    BY <1>1 DEF Held
  <2>2. \/ Has(ms[p + 1], r)
        \/ Last(ms, r, a, p) /\ ~Leaves(ms[p + 1], r)
    BY <2>1, LastNext
  <2>3. Last(ms, r, a, p) => r \in Held(ms, p)
    BY DEF Held, Last
  <2> QED
    BY <2>2, <2>3
<1>2. ASSUME Has(ms[p + 1], r) PROVE r \in Held(ms, p + 1)
  <2>1. Last(ms, r, p + 1, p + 1) /\ p + 1 \in 1 .. p + 1
    BY <1>2, LastNext
  <2> QED
    BY <2>1 DEF Held
<1>3. ASSUME ~Has(ms[p + 1], r), r \in Held(ms, p), ~Leaves(ms[p + 1], r)
      PROVE  r \in Held(ms, p + 1)
  <2>1. PICK a \in 1 .. p : Last(ms, r, a, p)
    BY <1>3 DEF Held
  <2>2. Last(ms, r, a, p + 1) /\ a \in 1 .. p + 1
    BY <1>3, <2>1, LastNext
  <2> QED
    BY <2>2 DEF Held
<1> QED
  BY <1>1, <1>2, <1>3

LEMMA HeldLast ==
    ASSUME NEW ms, NEW p, NEW r \in Client
    PROVE  r \in Held(ms, p) <=> \E a \in 1 .. p : Last(ms, r, a, p)
BY DEF Held

\* What is said of a prefix of the messages is not changed by later ones.
SamePrefix(ms, ns, p) == \A c \in 1 .. p : ms[c] = ns[c]

LEMMA PrefixLast ==
    ASSUME NEW ms, NEW ns, NEW p \in Nat, SamePrefix(ms, ns, p), NEW q \in 0 .. p
    PROVE  /\ \A r, a : Last(ns, r, a, q) <=> Last(ms, r, a, q)
           /\ Held(ns, q) = Held(ms, q) /\ Sampled(ns, q) = Sampled(ms, q)
<1>1. \A c \in 1 .. q : ms[c] = ns[c]
  BY DEF SamePrefix
<1>2. ASSUME NEW r, NEW a PROVE Last(ns, r, a, q) <=> Last(ms, r, a, q)
  <2>1. a \in 1 .. q => ns[a] = ms[a] /\ \A c \in (a+1) .. q : ns[c] = ms[c]
    BY <1>1
  <2> QED
    BY <2>1 DEF Last
<1>3. Held(ns, q) = Held(ms, q)
  BY <1>2 DEF Held
<1>4. {a \in 1 .. q : Needs(ns[a])} = {a \in 1 .. q : Needs(ms[a])}
  BY <1>1
<1> QED
  BY <1>2, <1>3, <1>4 DEF Sampled

LEMMA PrefixMessageOK ==
    ASSUME NEW ms, NEW ns, NEW p \in Nat, SamePrefix(ms, ns, p), NEW m \in 1 .. p,
           MessageOK(ms, m)
    PROVE  MessageOK(ns, m)
<1>1. /\ \A a \in 1 .. m : ns[a] = ms[a]
      /\ m - 1 \in 0 .. p /\ m \in 0 .. p /\ m \in 1 .. m
      /\ \A a \in 1 .. m - 1 : ns[a] = ms[a]
  BY DEF SamePrefix
<1>2. /\ \A r, a : Last(ns, r, a, m - 1) <=> Last(ms, r, a, m - 1)
      /\ Held(ns, m) = Held(ms, m)
  BY <1>1, PrefixLast
<1>3. ns[m] = ms[m]
  BY <1>1
<1>4. ASSUME NEW r \in Client, Has(ns[m], r)
      PROVE  IF NewIn(ns[m], r) THEN NewRowOK(ns, m, r) ELSE OldRowOK(ns, m, r)
  <2>1. IF NewIn(ms[m], r) THEN NewRowOK(ms, m, r) ELSE OldRowOK(ms, m, r)
    BY <1>3, <1>4 DEF MessageOK
  <2>2. NewRowOK(ms, m, r) => NewRowOK(ns, m, r)
    BY <1>1, <1>2, <1>3 DEF NewRowOK
  <2>3. OldRowOK(ms, m, r) => OldRowOK(ns, m, r)
    BY <1>1, <1>2, <1>3 DEF OldRowOK
  <2> QED
    BY <1>3, <2>1, <2>2, <2>3
<1>5. ASSUME NEW r \in Client, Has(ns[m], r), NEW a \in 1 .. m - 1, Has(ns[a], r)
      PROVE  Ordered(ns, r, a, m)
  <2>1. Ordered(ms, r, a, m)
    BY <1>1, <1>3, <1>5 DEF MessageOK
  <2> QED
    BY <1>1, <1>3, <2>1 DEF Ordered
<1> QED
  BY <1>2, <1>3, <1>4, <1>5 DEF MessageOK

LEMMA SampledNext ==
    ASSUME NEW ms, NEW p \in Nat
    PROVE  /\ Sampled(ms, p) \in Nat /\ Sampled(ms, 0) = 0
           /\ Sampled(ms, p + 1) = Sampled(ms, p) + (IF Needs(ms[p + 1]) THEN 1 ELSE 0)
<1> DEFINE S(m) == {a \in 1 .. m : Needs(ms[a])}
<1>1. IsFiniteSet(S(p))
  <2>1. IsFiniteSet(1 .. p)
    BY FS_Interval
  <2> QED
    BY <2>1, FS_Subset
<1>2. Sampled(ms, p) \in Nat
  BY <1>1, FS_CardinalityType DEF Sampled
<1>3. Sampled(ms, 0) = 0
  <2>1. S(0) = {}
    OBVIOUS
  <2> QED
    BY <2>1, FS_EmptySet DEF Sampled
<1>4. CASE Needs(ms[p + 1])
  <2>1. S(p + 1) = S(p) \cup {p + 1} /\ p + 1 \notin S(p)
    BY <1>4
  <2>2. Cardinality(S(p) \cup {p + 1}) = Cardinality(S(p)) + 1
    BY <1>1, <2>1, FS_AddElement
  <2> QED
    BY <1>2, <1>3, <1>4, <2>1, <2>2 DEF Sampled
<1>5. CASE ~Needs(ms[p + 1])
  <2>1. S(p + 1) = S(p)
    BY <1>5
  <2> QED
    BY <1>2, <1>3, <1>5, <2>1 DEF Sampled
<1> QED
  BY <1>4, <1>5

LEMMA SampledMono ==
    ASSUME NEW ms, NEW p \in Nat, NEW q \in Nat, p <= q
    PROVE  /\ Sampled(ms, p) <= Sampled(ms, q)
           /\ p < q /\ Needs(ms[q]) => Sampled(ms, p) < Sampled(ms, q)
<1> DEFINE S(m) == {a \in 1 .. m : Needs(ms[a])}
<1>0. ASSUME NEW m \in Nat PROVE IsFiniteSet(S(m)) /\ Cardinality(S(m)) \in Nat
  <2>1. IsFiniteSet(1 .. m)
    BY FS_Interval
  <2>2. S(m) \in SUBSET (1 .. m)
    OBVIOUS
  <2>3. IsFiniteSet(S(m))
    BY <2>1, <2>2, FS_Subset
  <2> QED
    BY <2>3, FS_CardinalityType
<1>1. S(p) \in SUBSET S(q)
  OBVIOUS
<1>2. ASSUME p < q, Needs(ms[q]) PROVE S(p) # S(q)
  <2>1. q \in S(q) /\ q \notin S(p)
    BY <1>2
  <2> QED
    BY <2>1
<1> HIDE DEF S
<1>3. Cardinality(S(p)) <= Cardinality(S(q)) /\ (Cardinality(S(q)) = Cardinality(S(p)) => S(q) = S(p))
  BY <1>0, <1>1, FS_Subset
<1> QED
  BY SMTT(40), <1>0, <1>2, <1>3 DEF Sampled, S

LEMMA HistoryAt ==
    ASSUME NEW ms, History(ms), NEW m \in 1 .. Len(ms)
    PROVE  /\ ms[m] \in MessageSet /\ MessageOK(ms, m) /\ RowsDistinct(ms[m])
           /\ ms[m].new \in 0 .. Len(ms[m].rows) /\ ms[m].rows \in Seq(RowSet)
           /\ Len(ms) \in Nat
<1>1. ms \in Seq(MessageSet) /\ m \in DOMAIN ms
  BY DEF History
<1>2. MessageOK(ms, m)
  BY <1>1 DEF History
<1> QED
  BY <1>1, <1>2 DEF MessageOK, MessageSet

LEMMA HistoryRow ==
    ASSUME NEW ms, History(ms), NEW m \in 1 .. Len(ms), NEW r, Has(ms[m], r)
    PROVE  /\ RowOf(ms[m], r) \in RowSet /\ RowOf(ms[m], r).r = r /\ r \in Client
           /\ End(RowOf(ms[m], r)) \in Nat \ {0} /\ RowOf(ms[m], r).inc \in Nat
           /\ RowOf(ms[m], r).q \in Nat \ {0} /\ RowOf(ms[m], r).nc \in Nat
           /\ Len(RowOf(ms[m], r).base) \in Nat
BY HistoryAt, RowFacts, RowNumbers

\* Rows of a request come in the order of their admissions and positions.
LEMMA InOrder ==
    ASSUME NEW ms, History(ms), NEW b \in 1 .. Len(ms), NEW a \in 1 .. b - 1, NEW r \in Client,
           Has(ms[a], r), Has(ms[b], r)
    PROVE  Ordered(ms, r, a, b)
BY HistoryAt DEF MessageOK

\* What a row continues.
LEMMA Preceding ==
    ASSUME NEW ms, History(ms), NEW m \in 1 .. Len(ms), NEW r \in Client, Has(ms[m], r),
           ~NewIn(ms[m], r)
    PROVE  \E a \in 1 .. m - 1 :
              /\ Last(ms, r, a, m - 1) /\ Has(ms[a], r) /\ ~Leaves(ms[m], r)
              /\ Continues(RowOf(ms[a], r), RowOf(ms[m], r))
              /\ Samples(RowOf(ms[a], r)) => a + Stages <= m
<1>1. OldRowOK(ms, m, r)
  BY HistoryAt DEF MessageOK
<1> QED
  BY <1>1 DEF OldRowOK, Last

\* A row is a piece of its text, or one position behind it.
LEMMA RowShape ==
    ASSUME NEW ms, History(ms), NEW m \in 1 .. Len(ms), NEW r \in Client, Has(ms[m], r)
    PROVE  LET y == RowOf(ms[m], r)
           IN  y.q = 1 \/ End(y) <= Len(y.base)
<1> DEFINE y == RowOf(ms[m], r)
<1>0. y.q \in Nat /\ y.nc \in Nat
  BY HistoryRow
<1>1. CASE NewIn(ms[m], r)
  <2>1. NewRowOK(ms, m, r)
    BY <1>1, HistoryAt DEF MessageOK
  <2>2. y.nc = 0 /\ y.q <= Len(y.base)
    BY <2>1 DEF NewRowOK
  <2> QED
    BY <1>0, <2>2 DEF End
<1>2. CASE ~NewIn(ms[m], r)
  <2>1. PICK a \in 1 .. m - 1 : Continues(RowOf(ms[a], r), RowOf(ms[m], r))
    BY <1>2, Preceding
  <2> QED
    BY <2>1 DEF Continues
<1> QED
  BY <1>1, <1>2

\* A request is not scheduled while its sampled token is in the ring.
LEMMA SampledIsLast ==
    ASSUME NEW ms, History(ms), NEW p \in 0 .. Len(ms), NEW a \in 1 .. p, NEW r \in Client,
           Has(ms[a], r), Samples(RowOf(ms[a], r)), \A c \in (a+1) .. p : ~Leaves(ms[c], r),
           p < a + Stages
    PROVE  Last(ms, r, a, p)
<1> DEFINE C == {c \in (a+1) .. p : Has(ms[c], r)}
<1>1. SUFFICES ASSUME C # {} PROVE FALSE
  BY DEF Last
<1>2. C \in SUBSET Nat /\ Len(ms) \in Nat
  BY DEF History
<1>3. PICK c \in C : \A d \in C : c <= d
  BY <1>1, <1>2, LeastNumber
<1>4. c \in (a+1) .. p /\ c \in 1 .. Len(ms) /\ c - 1 \in Nat /\ Has(ms[c], r)
  BY <1>2, <1>3
<1>5. Last(ms, r, a, c - 1)
  <2>1. ASSUME NEW d \in (a+1) .. (c-1) PROVE ~Has(ms[d], r) /\ ~Leaves(ms[d], r)
    BY <1>3, <1>4
  <2> QED
    BY <1>4, <2>1 DEF Last
<1>6. CASE NewIn(ms[c], r)
  <2>1. NewRowOK(ms, c, r)
    BY <1>4, <1>6, HistoryAt DEF MessageOK
  <2>2. Leaves(ms[c], r)
    BY <1>4, <1>5, <2>1 DEF NewRowOK
  <2> QED
    BY <1>4, <2>2
<1>7. CASE ~NewIn(ms[c], r)
  <2>1. PICK b \in 1 .. c - 1 : /\ Last(ms, r, b, c - 1)
                                /\ Samples(RowOf(ms[b], r)) => b + Stages <= c
    BY <1>4, <1>7, Preceding
  <2>2. b = a
    BY <1>4, <1>5, <2>1, LastUnique
  <2> QED
    BY <1>2, <1>4, <2>1, <2>2, RingConstants
<1> QED
  BY <1>6, <1>7

\* Of two sampled rows of one admission with no other between them the second is one
\* position further.
LEMMA NextSampled ==
    ASSUME NEW ms, History(ms), NEW c \in 1 .. Len(ms), NEW h \in 1 .. c - 1, NEW r \in Client,
           Has(ms[h], r), Has(ms[c], r), RowOf(ms[h], r).inc = RowOf(ms[c], r).inc,
           Samples(RowOf(ms[h], r)),
           \A d \in (h+1) .. (c-1) :
              ~(Has(ms[d], r) /\ RowOf(ms[d], r).inc = RowOf(ms[h], r).inc /\ Samples(RowOf(ms[d], r)))
    PROVE  End(RowOf(ms[c], r)) = End(RowOf(ms[h], r)) + 1
<1>0. Len(ms) \in Nat /\ h \in 1 .. Len(ms)
  BY DEF History
<1>1. ~NewIn(ms[c], r)
  <2> SUFFICES ASSUME NewIn(ms[c], r) PROVE FALSE
    OBVIOUS
  <2>1. NewRowOK(ms, c, r)
    BY HistoryAt DEF MessageOK
  <2>2. RowOf(ms[h], r).inc < RowOf(ms[c], r).inc
    BY <2>1 DEF NewRowOK
  <2>3. RowOf(ms[h], r).inc \in Nat
    BY <1>0, HistoryRow
  <2> QED
    BY <2>2, <2>3
<1>2. PICK a \in 1 .. c - 1 : /\ Last(ms, r, a, c - 1) /\ Has(ms[a], r)
                              /\ Continues(RowOf(ms[a], r), RowOf(ms[c], r))
  BY <1>1, Preceding
<1>3. a >= h
  <2> SUFFICES ASSUME a < h PROVE FALSE
    BY <1>0
  <2>1. h \in (a+1) .. (c-1)
    BY <1>0
  <2> QED
    BY <1>2, <2>1 DEF Last
<1>4. CASE a = h
  <2>1. RowOf(ms[c], r).q = 1 /\ RowOf(ms[c], r).nc = End(RowOf(ms[h], r))
    BY <1>2, <1>4 DEF Continues
  <2> QED
    BY <2>1 DEF End
<1>5. CASE a > h
  <2>1. a \in 1 .. Len(ms) /\ h \in 1 .. a - 1 /\ a \in (h+1) .. (c-1)
    BY <1>0, <1>5
  <2>2. Ordered(ms, r, h, a)
    BY <1>2, <2>1, InOrder
  <2>3. RowOf(ms[a], r).inc = RowOf(ms[h], r).inc
    BY <1>2 DEF Continues
  <2>4. /\ RowOf(ms[a], r).base = RowOf(ms[h], r).base
        /\ End(RowOf(ms[h], r)) < End(RowOf(ms[a], r))
    BY <2>2, <2>3 DEF Ordered
  <2>5. /\ End(RowOf(ms[h], r)) \in Nat /\ End(RowOf(ms[a], r)) \in Nat
        /\ Len(RowOf(ms[h], r).base) \in Nat
    BY <1>0, <1>2, <2>1, HistoryRow
  <2>6. Samples(RowOf(ms[a], r))
    BY <2>4, <2>5 DEF Samples
  <2> QED
    BY <1>2, <2>1, <2>3, <2>6
<1> QED
  BY <1>0, <1>3, <1>4, <1>5

LEMMA HistoryAppend ==
    ASSUME NEW ms, History(ms), NEW msg \in MessageSet,
           MessageOK(Append(ms, msg), Len(ms) + 1)
    PROVE  /\ History(Append(ms, msg)) /\ Len(Append(ms, msg)) = Len(ms) + 1
           /\ SamePrefix(ms, Append(ms, msg), Len(ms))
           /\ Append(ms, msg)[Len(ms) + 1] = msg
<1>1. ms \in Seq(MessageSet) /\ Len(ms) \in Nat
  BY DEF History
<1>2. /\ Append(ms, msg) \in Seq(MessageSet) /\ Len(Append(ms, msg)) = Len(ms) + 1
      /\ \A c \in 1 .. Len(ms) : Append(ms, msg)[c] = ms[c]
      /\ Append(ms, msg)[Len(ms) + 1] = msg
  BY <1>1, ElemsAppend
<1> DEFINE ns == Append(ms, msg)
<1> HIDE DEF ns
<1>3. SamePrefix(ms, ns, Len(ms))
  BY <1>2 DEF SamePrefix, ns
<1>4. ASSUME NEW m \in DOMAIN ns PROVE MessageOK(ns, m)
  <2>1. m \in 1 .. Len(ms) \/ m = Len(ms) + 1
    BY <1>1, <1>2 DEF ns
  <2>2. CASE m \in 1 .. Len(ms)
    <3>1. MessageOK(ms, m)
      BY <2>2, HistoryAt
    <3> QED
      BY <1>1, <1>3, <2>2, <3>1, PrefixMessageOK
  <2> QED
    BY <2>1, <2>2 DEF ns
<1> QED
  BY <1>2, <1>3, <1>4 DEF History, ns

-----------------------------------------------------------------------------
(***************************************************************************)
(* Tokens in flight                                                        *)
(***************************************************************************)
LEMMA WeightFacts ==
    ASSUME NEW ms, History(ms), NEW c \in 1 .. Len(ms), NEW r \in Client, NEW w
    PROVE  /\ Weight(ms[c], r, w) \in Nat
           /\ Weight(ms[c], r, w) = 0 <=> ~(Has(ms[c], r) /\ RowOf(ms[c], r).inc < w)
<1>1. Has(ms[c], r) => RowOf(ms[c], r).q \in Nat \ {0}
  BY HistoryRow
<1> QED
  BY <1>1 DEF Weight

LEMMA TallyStep ==
    ASSUME NEW ms, History(ms), NEW r \in Client, NEW w, NEW f, Tallies(f, ms, r, w)
    PROVE  /\ Len(ms) \in Nat
           /\ \A c \in 0 .. Len(ms) : f[c] \in Nat
           /\ \A c \in 1 .. Len(ms) : f[c] = f[c - 1] + Weight(ms[c], r, w)
           /\ \A c \in 1 .. Len(ms) : Weight(ms[c], r, w) \in Nat
<1>1. Len(ms) \in Nat
  BY DEF History
<1>2. f \in [0 .. Len(ms) -> Nat] /\ \A c \in 1 .. Len(ms) : f[c] = f[c - 1] + Weight(ms[c], r, w)
  BY DEF Tallies
<1>3. \A c \in 1 .. Len(ms) : Weight(ms[c], r, w) \in Nat
  BY WeightFacts
<1> QED
  BY <1>1, <1>2, <1>3

LEMMA TallyMono ==
    ASSUME NEW ms, History(ms), NEW r \in Client, NEW w, NEW f, Tallies(f, ms, r, w),
           NEW p \in 0 .. Len(ms)
    PROVE  /\ \A c \in p .. Len(ms) : f[p] <= f[c]
           /\ \A c \in p .. Len(ms) : f[c] <= f[Len(ms)]
           /\ f[p] = f[Len(ms)] <=> \A c \in (p+1) .. Len(ms) : Weight(ms[c], r, w) = 0
<1>0. /\ Len(ms) \in Nat
      /\ \A c \in 0 .. Len(ms) : f[c] \in Nat
      /\ \A c \in 1 .. Len(ms) : f[c] = f[c - 1] + Weight(ms[c], r, w)
      /\ \A c \in 1 .. Len(ms) : Weight(ms[c], r, w) \in Nat
  BY TallyStep
<1>1. ASSUME NEW a \in 0 .. Len(ms) PROVE \A c \in a .. Len(ms) : f[a] <= f[c]
  <2> DEFINE N == Len(ms) - a
             T == {k \in 0 .. N : f[a] <= f[a + k]}
  <2>0. N \in Nat /\ f[a] \in Nat
    BY <1>0
  <2>1. 0 \in T
    BY <1>0
  <2>2. ASSUME NEW k \in 1 .. N, k - 1 \in T PROVE k \in T
    <3>1. /\ a + k \in 1 .. Len(ms) /\ (a + k) - 1 = a + (k - 1)
          /\ a + k \in 0 .. Len(ms) /\ a + (k - 1) \in 0 .. Len(ms)
      BY <1>0
    <3>2. f[a + k] = f[a + (k - 1)] + Weight(ms[a + k], r, w)
      BY <1>0, <3>1
    <3>3. /\ f[a + k] \in Nat /\ f[a + (k - 1)] \in Nat
          /\ Weight(ms[a + k], r, w) \in Nat
      BY <1>0, <3>1
    <3>4. f[a] <= f[a + (k - 1)]
      BY <2>2
    <3>5. f[a] <= f[a + k]
      BY <2>0, <3>2, <3>3, <3>4
    <3> QED
      BY <2>0, <3>5
  <2> HIDE DEF T, N
  <2>3. \A k \in 0 .. N : k \in T
    BY <2>0, <2>1, <2>2, Upwards
  <2> TAKE c \in a .. Len(ms)
  <2>4. c - a \in 0 .. N /\ a + (c - a) = c
    BY <1>0 DEF N
  <2>5. c - a \in T
    BY <2>3, <2>4
  <2> QED
    BY <2>4, <2>5 DEF T
<1>2. \A c \in p .. Len(ms) : f[c] <= f[Len(ms)]
  <2> TAKE c \in p .. Len(ms)
  <2>1. c \in 0 .. Len(ms) /\ Len(ms) \in c .. Len(ms)
    BY <1>0
  <2> QED
    BY <1>1, <2>1
<1>3. ASSUME f[p] = f[Len(ms)], NEW c \in (p+1) .. Len(ms) PROVE Weight(ms[c], r, w) = 0
  <2>1. /\ c \in 1 .. Len(ms) /\ c - 1 \in p .. Len(ms) /\ c - 1 \in 0 .. Len(ms)
        /\ c \in p .. Len(ms) /\ Len(ms) \in 0 .. Len(ms) /\ c \in 0 .. Len(ms)
    BY <1>0
  <2>2. f[p] <= f[c - 1] /\ f[c] <= f[Len(ms)] /\ f[c] = f[c - 1] + Weight(ms[c], r, w)
    BY <1>0, <1>1, <1>2, <2>1
  <2> QED
    BY SMTT(40), <1>0, <1>3, <2>1, <2>2
<1>4. ASSUME \A c \in (p+1) .. Len(ms) : Weight(ms[c], r, w) = 0 PROVE f[p] = f[Len(ms)]
  <2> DEFINE N == Len(ms) - p
             T == {k \in 0 .. N : f[p] = f[p + k]}
  <2>0. N \in Nat /\ f[p] \in Nat
    BY <1>0
  <2>1. 0 \in T
    BY <1>0
  <2>2. ASSUME NEW k \in 1 .. N, k - 1 \in T PROVE k \in T
    <3>1. /\ p + k \in 1 .. Len(ms) /\ (p + k) - 1 = p + (k - 1) /\ p + k \in (p+1) .. Len(ms)
          /\ p + k \in 0 .. Len(ms) /\ p + (k - 1) \in 0 .. Len(ms)
      BY <1>0
    <3>2. f[p + k] = f[p + (k - 1)] + Weight(ms[p + k], r, w) /\ Weight(ms[p + k], r, w) = 0
      BY <1>0, <1>4, <3>1
    <3> QED
      BY <1>0, <2>0, <2>2, <3>1, <3>2
  <2> HIDE DEF T, N
  <2>3. \A k \in 0 .. N : k \in T
    BY <2>0, <2>1, <2>2, Upwards
  <2>4. N \in T /\ p + N = Len(ms)
    BY <1>0, <2>0, <2>3 DEF N
  <2> QED
    BY <2>4 DEF T
<1> QED
  BY <1>1, <1>2, <1>3, <1>4

LEMMA FlightNat ==
    ASSUME NEW ms, History(ms), NEW r \in Client, NEW w, NEW n, NEW p \in 0 .. Len(ms),
           InFlight(ms, p, r, w, n)
    PROVE  /\ n \in Nat
           /\ n = 0 <=> \A c \in (p+1) .. Len(ms) : ~(Has(ms[c], r) /\ RowOf(ms[c], r).inc < w)
<1>1. PICK f : Tallies(f, ms, r, w) /\ n = f[Len(ms)] - f[p]
  BY DEF InFlight
<1>2. /\ f[p] \in Nat /\ f[Len(ms)] \in Nat /\ Len(ms) \in Nat
  BY <1>1, TallyStep
<1>3. Len(ms) \in p .. Len(ms)
  BY <1>2
<1>4. f[p] <= f[Len(ms)]
  BY <1>1, <1>3, TallyMono
<1>5. f[p] = f[Len(ms)] <=> \A c \in (p+1) .. Len(ms) : Weight(ms[c], r, w) = 0
  BY <1>1, TallyMono
<1>6. \A c \in (p+1) .. Len(ms) :
         Weight(ms[c], r, w) = 0 <=> ~(Has(ms[c], r) /\ RowOf(ms[c], r).inc < w)
  BY <1>2, WeightFacts
<1> QED
  BY <1>1, <1>2, <1>4, <1>5, <1>6

LEMMA FlightAppend ==
    ASSUME NEW ms, History(ms), NEW r \in Client, NEW w, NEW n, NEW p \in 0 .. Len(ms),
           InFlight(ms, p, r, w, n), NEW msg \in MessageSet, History(Append(ms, msg))
    PROVE  InFlight(Append(ms, msg), p, r, w, n + Weight(msg, r, w))
<1>1. PICK f : Tallies(f, ms, r, w) /\ n = f[Len(ms)] - f[p]
  BY DEF InFlight
<1> DEFINE ns == Append(ms, msg)
           g == [c \in 0 .. Len(ms) + 1 |-> IF c = Len(ms) + 1 THEN f[Len(ms)] + Weight(msg, r, w) ELSE f[c]]
<1>2. /\ Len(ms) \in Nat
      /\ \A c \in 0 .. Len(ms) : f[c] \in Nat
      /\ \A c \in 1 .. Len(ms) : f[c] = f[c - 1] + Weight(ms[c], r, w)
      /\ f[0] = 0
  BY <1>1, TallyStep DEF Tallies
<1>3. /\ ns[Len(ms) + 1] = msg /\ Len(ns) = Len(ms) + 1
      /\ \A c \in 1 .. Len(ms) : ns[c] = ms[c]
  <2>1. ms \in Seq(MessageSet)
    BY DEF History
  <2> QED
    BY <2>1, ElemsAppend
<1>4. Weight(msg, r, w) \in Nat
  <2>1. Len(ms) + 1 \in 1 .. Len(ns)
    BY <1>2, <1>3
  <2>2. Weight(ns[Len(ms) + 1], r, w) \in Nat
    BY <2>1, WeightFacts
  <2> QED
    BY <1>3, <2>2
<1> HIDE DEF ns
<1>5. /\ g[Len(ms) + 1] = f[Len(ms)] + Weight(msg, r, w) /\ g[0] = 0
      /\ \A c \in 0 .. Len(ms) : g[c] = f[c]
      /\ g \in [0 .. Len(ms) + 1 -> Nat]
  BY <1>2, <1>4
<1> HIDE DEF g
<1>6. ASSUME NEW c \in 1 .. Len(ms) + 1 PROVE g[c] = g[c - 1] + Weight(ns[c], r, w)
  <2>1. CASE c = Len(ms) + 1
    <3>1. c - 1 = Len(ms) /\ Len(ms) \in 0 .. Len(ms)
      BY <1>2, <2>1
    <3> QED
      BY <1>3, <1>5, <2>1, <3>1
  <2>2. CASE c # Len(ms) + 1
    <3>0. Len(ms) \in Nat
      BY <1>2
    <3>1. c \in 1 .. Len(ms) /\ c \in 0 .. Len(ms) /\ c - 1 \in 0 .. Len(ms)
      BY <2>2, <3>0
    <3> QED
      BY <1>2, <1>3, <1>5, <3>1
  <2> QED
    BY <2>1, <2>2
<1>7. Tallies(g, ns, r, w)
  BY <1>3, <1>5, <1>6 DEF Tallies
<1>8. n + Weight(msg, r, w) = g[Len(ns)] - g[p]
  <2>1. f[p] \in Nat /\ f[Len(ms)] \in Nat
    BY <1>2
  <2> QED
    BY <1>1, <1>3, <1>4, <1>5, <2>1
<1> QED
  BY <1>7, <1>8 DEF InFlight, ns

LEMMA FlightPop ==
    ASSUME NEW ms, History(ms), NEW r \in Client, NEW w, NEW n, NEW p \in Nat, p < Len(ms),
           InFlight(ms, p, r, w, n)
    PROVE  /\ InFlight(ms, p + 1, r, w, n - Weight(ms[p + 1], r, w))
           /\ n - Weight(ms[p + 1], r, w) \in Nat
<1>1. PICK f : Tallies(f, ms, r, w) /\ n = f[Len(ms)] - f[p]
  BY DEF InFlight
<1>2. /\ Len(ms) \in Nat
      /\ \A c \in 0 .. Len(ms) : f[c] \in Nat
      /\ \A c \in 1 .. Len(ms) : f[c] = f[c - 1] + Weight(ms[c], r, w)
      /\ \A c \in 1 .. Len(ms) : Weight(ms[c], r, w) \in Nat
  BY <1>1, TallyStep
<1>3. /\ p + 1 \in 1 .. Len(ms) /\ (p + 1) - 1 = p /\ p \in 0 .. Len(ms)
      /\ Len(ms) \in 0 .. Len(ms) /\ p + 1 \in 0 .. Len(ms)
  BY <1>2
<1>4. f[p + 1] = f[p] + Weight(ms[p + 1], r, w) /\ Weight(ms[p + 1], r, w) \in Nat
  BY <1>2, <1>3
<1>5. f[p] \in Nat /\ f[p + 1] \in Nat /\ f[Len(ms)] \in Nat
  BY <1>2, <1>3
<1>6. n - Weight(ms[p + 1], r, w) = f[Len(ms)] - f[p + 1]
  BY <1>1, <1>4, <1>5
<1>7. InFlight(ms, p + 1, r, w, n - Weight(ms[p + 1], r, w))
  BY <1>1, <1>6 DEF InFlight
<1>8. n - Weight(ms[p + 1], r, w) \in Nat
  BY <1>3, <1>7, FlightNat
<1> QED
  BY <1>7, <1>8

\* The bound on the admissions may grow if no row is admitted that late.
LEMMA FlightMore ==
    ASSUME NEW ms, History(ms), NEW r \in Client, NEW w, NEW v, NEW n, NEW p,
           InFlight(ms, p, r, w, n),
           \A c \in 1 .. Len(ms) : Has(ms[c], r) => RowOf(ms[c], r).inc < w /\ RowOf(ms[c], r).inc < v
    PROVE  InFlight(ms, p, r, v, n)
<1>1. PICK f : Tallies(f, ms, r, w) /\ n = f[Len(ms)] - f[p]
  BY DEF InFlight
<1>2. \A c \in 1 .. Len(ms) : Weight(ms[c], r, v) = Weight(ms[c], r, w)
  BY DEF Weight
<1>3. Tallies(f, ms, r, v)
  BY <1>1, <1>2 DEF Tallies
<1> QED
  BY <1>1, <1>3 DEF InFlight

-----------------------------------------------------------------------------
(***************************************************************************)
(* What a step does to a request                                           *)
(***************************************************************************)
\* Two requests that differ at most in the step they wait for.
Alike(q, z) ==
    /\ z.nc = q.nc /\ z.ph = q.ph /\ z.flight = q.flight /\ z.stale = q.stale /\ z.drop = q.drop
    /\ z.inc = q.inc /\ z.base = q.base /\ z.out = q.out /\ z.done = q.done

\* A message without the request.
LEMMA RequestIdle ==
    ASSUME NEW ms, History(ms), NEW r \in Client, NEW run \in BOOLEAN, NEW p \in 0 .. Len(ms),
           NEW q, RequestOK(q, r, run, ms, p),
           NEW z \in RequestSet, Alike(q, z), run => z.wait >= q.wait - 1,
           NEW msg \in MessageSet, History(Append(ms, msg)), ~Has(msg, r), run => ~Leaves(msg, r)
    PROVE  RequestOK(z, r, run, Append(ms, msg), p)
<1> DEFINE ns == Append(ms, msg)
<1>1. /\ Len(ms) \in Nat /\ Len(ns) = Len(ms) + 1 /\ ns[Len(ms) + 1] = msg
      /\ \A c \in 1 .. Len(ms) : ns[c] = ms[c]
  <2>1. ms \in Seq(MessageSet)
    BY DEF History
  <2> QED
    BY <2>1, ElemsAppend
<1>2. q \in RequestSet
  BY DEF RequestOK
<1>3. \A c \in 1 .. Len(ns) : c \in 1 .. Len(ms) \/ c = Len(ms) + 1
  BY <1>1
<1>4. Weight(msg, r, q.inc) = 0 /\ Weight(msg, r, q.inc + 1) = 0
  BY DEF Weight
<1>5. \A n \in Nat : n + 0 = n
  OBVIOUS
<1>6. FlightOK(z, r, run, ns, p)
  <2>1. InFlight(ms, p, r, q.inc + 1, q.flight) /\ q.flight \in Nat /\ q.stale \in Nat
    BY <1>2 DEF RequestOK, FlightOK, RequestSet
  <2>2. InFlight(ns, p, r, q.inc + 1, q.flight + Weight(msg, r, q.inc + 1))
    BY <2>1, FlightAppend
  <2>3. ASSUME ~q.done PROVE InFlight(ns, p, r, IF run THEN q.inc ELSE q.inc + 1, q.stale)
    <3>1. InFlight(ms, p, r, IF run THEN q.inc ELSE q.inc + 1, q.stale)
      BY <2>3 DEF RequestOK, FlightOK
    <3>2. Weight(msg, r, IF run THEN q.inc ELSE q.inc + 1) = 0
      BY <1>4
    <3>3. InFlight(ns, p, r, IF run THEN q.inc ELSE q.inc + 1,
                   q.stale + Weight(msg, r, IF run THEN q.inc ELSE q.inc + 1))
      BY <3>1, FlightAppend
    <3> QED
      BY <1>5, <2>1, <3>2, <3>3
  <2> HIDE DEF ns
  <2>4. z.inc = q.inc /\ z.flight = q.flight /\ z.stale = q.stale /\ z.done = q.done
    BY DEF Alike
  <2>5. q.flight + Weight(msg, r, q.inc + 1) = q.flight
    BY <1>4, <1>5, <2>1
  <2> QED
    BY <2>2, <2>3, <2>4, <2>5 DEF FlightOK
<1> HIDE DEF ns
<1>7. \A c \in 1 .. Len(ns) : Has(ns[c], r) => c \in 1 .. Len(ms) /\ ns[c] = ms[c]
  BY <1>1, <1>3
<1>8. \A c \in 1 .. Len(ns) : Has(ns[c], r) => RowOf(ns[c], r).inc <= z.inc
  BY <1>7 DEF RequestOK, Alike
<1>9. ASSUME run PROVE \E a \in 1 .. Len(ns) : FollowsRow(z, r, ns, p, a)
  <2>1. PICK a \in 1 .. Len(ms) : FollowsRow(q, r, ms, p, a)
    BY <1>9 DEF RequestOK
  <2>2. Last(ms, r, a, Len(ms)) /\ Len(ms) \in 0 .. Len(ms) /\ SamePrefix(ms, ns, Len(ms))
    BY <1>1, <2>1 DEF FollowsRow, SamePrefix
  <2>3. Last(ns, r, a, Len(ms))
    BY <1>1, <2>2, PrefixLast
  <2>4. Last(ns, r, a, Len(ns))
    BY <1>1, <1>9, <2>3, LastNext
  <2>5. ns[a] = ms[a] /\ a \in 1 .. Len(ns)
    BY <1>1
  <2>6. z.wait \in Nat /\ q.wait \in Nat /\ Stages \in Nat
    BY <1>2, RingConstants DEF RequestSet
  <2>7. q.wait >= Stages - (Len(ms) - a) => z.wait >= Stages - (Len(ns) - a)
    BY <1>1, <1>9, <2>6
  <2>8. Total(z, r) = Total(q, r)
    BY DEF Total, Alike
  <2>9. z.inc = q.inc /\ z.base = q.base /\ z.nc = q.nc /\ z.ph = q.ph
    BY DEF Alike
  <2>10. FollowsRow(z, r, ns, p, a)
    BY <2>1, <2>4, <2>5, <2>7, <2>8, <2>9 DEF FollowsRow
  <2> QED
    BY <2>5, <2>10
<1>10. DropOK(z, r, run, ns, p)
  <2>1. DropOK(q, r, run, ms, p)
    BY DEF RequestOK
  <2>2. \A c \in (p+1) .. Len(ns) : Has(ns[c], r) => c \in (p+1) .. Len(ms) /\ ns[c] = ms[c]
    BY <1>1, <1>7
  <2> QED
    BY <2>1, <2>2 DEF DropOK, Alike
<1>11. PaysNext(z, r, run, ns, p)
  <2>1. PaysNext(q, r, run, ms, p)
    BY DEF RequestOK
  <2> SUFFICES ASSUME ~z.done, run \/ ~z.drop, NEW c \in (p+1) .. Len(ns), Pays(z, r, ns[c]),
                      \A d \in (p+1) .. (c-1) : ~Pays(z, r, ns[d])
               PROVE  End(RowOf(ns[c], r)) = PromptLen[r] + Len(z.out)
    BY DEF PaysNext
  <2>2. c \in 1 .. Len(ns) /\ Has(ns[c], r)
    BY <1>1 DEF Pays
  <2>3. c \in (p+1) .. Len(ms) /\ ns[c] = ms[c]
    BY <1>1, <1>7, <2>2
  <2>4. \A d \in (p+1) .. (c-1) : ns[d] = ms[d]
    BY <1>1, <2>3
  <2>5. Pays(q, r, ms[c]) /\ \A d \in (p+1) .. (c-1) : ~Pays(q, r, ms[d])
    BY <2>3, <2>4 DEF Pays, Alike
  <2> QED
    BY <2>1, <2>3, <2>5 DEF PaysNext, Alike
<1>12. TextOK(z, r)
  BY DEF RequestOK, TextOK, Alike
<1> QED
  BY <1>6, <1>8, <1>9, <1>10, <1>11, <1>12 DEF RequestOK, ns

\* All that is in flight of a running request is stale when it is preempted.
LEMMA RequestPreempted ==
    ASSUME NEW ms, History(ms), NEW r \in Client, NEW p \in 0 .. Len(ms),
           NEW q, RequestOK(q, r, TRUE, ms, p), NEW drop \in BOOLEAN,
           NEW z \in RequestSet,
           z.inc = q.inc, z.base = q.base, z.out = q.out, z.done = q.done,
           z.flight = q.flight, z.stale = q.flight, z.drop = (drop \/ (q.drop /\ q.stale > 0))
    PROVE  RequestOK(z, r, FALSE, ms, p)
<1>1. q \in RequestSet /\ Len(ms) \in Nat
  BY DEF RequestOK, History
<1>2. q.stale \in Nat /\ q.inc \in Nat /\ q.drop \in BOOLEAN
  BY <1>1 DEF RequestSet
<1>3. FlightOK(z, r, FALSE, ms, p)
  BY DEF RequestOK, FlightOK
<1>4. DropOK(z, r, FALSE, ms, p)
  <2> SUFFICES ASSUME ~z.done, ~z.drop, NEW c \in (p+1) .. Len(ms), Has(ms[c], r)
               PROVE  RowOf(ms[c], r).inc = z.inc
    BY DEF DropOK
  <2>1. q.stale = 0
    <3>1. ~q.drop => q.stale = 0
      BY DEF RequestOK, DropOK
    <3>2. ~drop /\ ~(q.drop /\ q.stale > 0)
      OBVIOUS
    <3> QED
      BY <1>2, <3>1, <3>2
  <2>2. InFlight(ms, p, r, q.inc, q.stale)
    BY DEF RequestOK, FlightOK
  <2>3. ~(RowOf(ms[c], r).inc < q.inc)
    BY <2>1, <2>2, FlightNat
  <2>4. c \in 1 .. Len(ms)
    BY <1>1
  <2>5. RowOf(ms[c], r).inc <= q.inc /\ RowOf(ms[c], r).inc \in Nat
    BY <2>4, HistoryRow DEF RequestOK
  <2> QED
    BY <1>2, <2>3, <2>5
<1>5. PaysNext(z, r, FALSE, ms, p)
  BY DEF RequestOK, PaysNext, Pays
<1>6. TextOK(z, r) /\ \A c \in 1 .. Len(ms) : Has(ms[c], r) => RowOf(ms[c], r).inc <= z.inc
  BY DEF RequestOK, TextOK
<1> QED
  BY <1>3, <1>4, <1>5, <1>6 DEF RequestOK

\* The client disconnects, or the request is otherwise done.
LEMMA RequestDone ==
    ASSUME NEW ms, History(ms), NEW r \in Client, NEW p \in 0 .. Len(ms), NEW run \in BOOLEAN,
           NEW q, RequestOK(q, r, run, ms, p), NEW z \in RequestSet, z.done,
           z.inc = q.inc, z.base = q.base, z.out = q.out, z.flight = q.flight
    PROVE  RequestOK(z, r, FALSE, ms, p)
<1>1. FlightOK(z, r, FALSE, ms, p)
  BY DEF RequestOK, FlightOK
<1>2. DropOK(z, r, FALSE, ms, p) /\ PaysNext(z, r, FALSE, ms, p)
  BY DEF DropOK, PaysNext
<1>3. TextOK(z, r) /\ \A c \in 1 .. Len(ms) : Has(ms[c], r) => RowOf(ms[c], r).inc <= z.inc
  BY DEF RequestOK, TextOK
<1> QED
  BY <1>1, <1>2, <1>3 DEF RequestOK

\* A row y that may follow the last row of a running request, in message a.
MayFollow(q, r, ms, p, a, y) ==
    /\ FollowsRow(q, r, ms, p, a) /\ Last(ms, r, a, Len(ms)) /\ Has(ms[a], r)
    /\ RowOf(ms[a], r) \in RowSet
    /\ Continues(RowOf(ms[a], r), y)
    /\ Total(q, r) \in Int /\ End(y) = q.nc + y.q /\ End(y) <= Total(q, r)
    /\ (Samples(y) <=> End(y) = Total(q, r))
    /\ (~Samples(y) => Total(q, r) = Len(q.base) /\ q.ph = 0)
    /\ (~Samples(RowOf(ms[a], r)) => q.ph = 0)

\* What is scheduled of a running request continues its last row.
LEMMA RunningRow ==
    ASSUME NEW ms, History(ms), NEW r \in Client, NEW p \in 0 .. Len(ms),
           NEW q, RequestOK(q, r, TRUE, ms, p),
           NEW y \in RowSet, y.inc = q.inc, y.base = q.base, y.nc = q.nc, y.q <= Total(q, r) - q.nc
    PROVE  \E a \in 1 .. Len(ms) : MayFollow(q, r, ms, p, a, y)
<1>1. PICK a \in 1 .. Len(ms) : FollowsRow(q, r, ms, p, a)
  BY DEF RequestOK
<1> DEFINE x == RowOf(ms[a], r)
<1>2. Last(ms, r, a, Len(ms)) /\ Has(ms[a], r)
  BY <1>1 DEF FollowsRow, Last
<1>3. x \in RowSet
  BY <1>2, HistoryRow
<1>4. /\ x.inc = q.inc /\ x.base = q.base /\ q.nc = End(x)
      /\ Total(q, r) = (IF Samples(x) THEN End(x) + 1 ELSE Len(x.base))
      /\ ~Samples(x) => q.ph = 0
  BY <1>1 DEF FollowsRow
<1> HIDE DEF x
<1>5. /\ End(x) \in Nat /\ Len(x.base) \in Nat /\ (Samples(x) <=> End(x) >= Len(x.base))
  BY <1>3, RowNumbers
<1>6. /\ y.q \in Nat \ {0} /\ End(y) = y.nc + y.q /\ (Samples(y) <=> End(y) >= Len(y.base))
      /\ y.nc \in Nat
  BY RowNumbers
<1>7. Total(q, r) \in Int
  BY <1>4, <1>5
<1>8. CASE Samples(x)
  <2>1. Total(q, r) = End(x) + 1 /\ y.q = 1
    BY <1>4, <1>5, <1>6, <1>8
  <2>2. End(y) = End(x) + 1 /\ Samples(y)
    BY <1>4, <1>5, <1>6, <1>8, <2>1
  <2>3. Continues(x, y)
    BY <1>4, <1>8, <2>1 DEF Continues
  <2>4. End(y) = q.nc + y.q /\ End(y) = Total(q, r)
    BY <1>4, <1>6, <2>1, <2>2
  <2>5. End(y) <= Total(q, r)
    BY <1>7, <2>4
  <2> QED
    BY <1>1, <1>2, <1>3, <1>7, <1>8, <2>2, <2>3, <2>4, <2>5 DEF MayFollow, x
<1>9. CASE ~Samples(x)
  <2>1. Total(q, r) = Len(y.base) /\ q.ph = 0
    BY <1>4, <1>9
  <2>2. End(y) <= Len(y.base) /\ End(y) = q.nc + y.q
    BY <1>4, <1>5, <1>6, <2>1
  <2>3. Continues(x, y)
    BY <1>4, <1>9, <2>2 DEF Continues
  <2>6. Total(q, r) = Len(q.base) /\ End(y) <= Total(q, r)
    BY <2>1, <2>2
  <2>4. Len(y.base) \in Nat /\ End(y) \in Nat
    BY RowNumbers
  <2>5. Samples(y) <=> End(y) = Total(q, r)
    BY <1>6, <2>1, <2>2, <2>4
  <2> QED
    BY <1>1, <1>2, <1>3, <1>7, <2>1, <2>2, <2>3, <2>5, <2>6 DEF MayFollow, x
<1> QED
  BY <1>8, <1>9

\* _update_after_schedule of a running request.
LEMMA RequestContinues ==
    ASSUME NEW ms, History(ms), NEW r \in Client, NEW p \in 0 .. Len(ms),
           NEW q, RequestOK(q, r, TRUE, ms, p),
           NEW msg \in MessageSet, History(Append(ms, msg)), Has(msg, r),
           RowOf(msg, r).inc = q.inc, RowOf(msg, r).base = q.base, RowOf(msg, r).nc = q.nc,
           RowOf(msg, r).q <= Total(q, r) - q.nc,
           NEW z \in RequestSet,
           z.nc = q.nc + RowOf(msg, r).q, z.flight = q.flight + RowOf(msg, r).q,
           z.stale = q.stale, z.drop = q.drop, z.inc = q.inc, z.base = q.base, z.out = q.out,
           z.done = q.done,
           z.ph = (IF z.nc < Total(q, r) THEN q.ph ELSE q.ph + 1),
           z.nc < Total(q, r) \/ z.wait = Stages
    PROVE  RequestOK(z, r, TRUE, Append(ms, msg), p)
<1> DEFINE ns == Append(ms, msg)
           y == RowOf(msg, r)
<1>1. /\ Len(ms) \in Nat /\ Len(ns) = Len(ms) + 1 /\ ns[Len(ms) + 1] = msg
      /\ \A c \in 1 .. Len(ms) : ns[c] = ms[c]
  <2>1. ms \in Seq(MessageSet)
    BY DEF History
  <2> QED
    BY <2>1, ElemsAppend
<1>2. q \in RequestSet
  BY DEF RequestOK
<1>3. y \in RowSet
  BY RowFacts
<1>4a. PICK a \in 1 .. Len(ms) : MayFollow(q, r, ms, p, a, y)
  BY <1>3, RunningRow
<1>4. /\ FollowsRow(q, r, ms, p, a) /\ Last(ms, r, a, Len(ms)) /\ Has(ms[a], r)
      /\ RowOf(ms[a], r) \in RowSet
      /\ Continues(RowOf(ms[a], r), y)
      /\ Total(q, r) \in Int /\ End(y) = q.nc + y.q /\ End(y) <= Total(q, r)
      /\ (Samples(y) <=> End(y) = Total(q, r))
      /\ (~Samples(y) => Total(q, r) = Len(q.base) /\ q.ph = 0)
      /\ (~Samples(RowOf(ms[a], r)) => q.ph = 0)
  BY <1>4a DEF MayFollow
<1>5. /\ q.nc \in Nat /\ q.ph \in Int /\ q.flight \in Nat /\ q.stale \in Nat /\ q.inc \in Nat
      /\ Len(q.out) \in Nat
  BY <1>2 DEF RequestSet, Text
<1>6. y.q \in Nat \ {0} /\ End(y) \in Nat
  BY <1>3, RowNumbers
<1>7. PromptLen[r] \in Nat /\ Stages \in Nat
  BY RingConstants
<1> HIDE DEF y, ns
<1>8. z.nc = End(y) /\ (z.nc < Total(q, r) <=> ~Samples(y))
  BY <1>4, <1>6 DEF y
<1>9. FollowsRow(z, r, ns, p, Len(ms) + 1)
  <2>1. RowOf(ns[Len(ms) + 1], r) = y
    BY <1>1 DEF y
  <2>2. Last(ns, r, Len(ms) + 1, Len(ns))
    BY <1>1, LastNext
  <2>3. CASE Samples(y)
    <3>1. z.ph = q.ph + 1 /\ z.wait = Stages
      BY <1>4, <1>8, <2>3
    <3>2. Total(z, r) = End(y) + 1
      BY SMTT(40), <1>4, <1>5, <1>7, <2>3, <3>1 DEF Total
    <3>3. z.wait >= Stages - (Len(ns) - (Len(ms) + 1)) /\ ~(Len(ms) + 1 <= p)
      BY <1>1, <1>7, <3>1
    <3> QED
      BY <1>8, <2>1, <2>2, <2>3, <3>2, <3>3 DEF FollowsRow, y
  <2>4. CASE ~Samples(y)
    <3>1. z.ph = q.ph /\ q.ph = 0 /\ Total(q, r) = Len(q.base)
      BY <1>4, <1>8, <2>4
    <3>2. Total(z, r) = Len(y.base)
      BY <3>1 DEF Total, y
    <3> QED
      BY <1>8, <2>1, <2>2, <2>4, <3>1, <3>2 DEF FollowsRow, y
  <2> QED
    BY <2>3, <2>4
<1>10. FlightOK(z, r, TRUE, ns, p)
  <2>1. Weight(msg, r, q.inc) = 0 /\ Weight(msg, r, q.inc + 1) = y.q
    BY <1>5 DEF Weight, y
  <2>2. InFlight(ns, p, r, q.inc + 1, q.flight + y.q)
    BY <2>1, FlightAppend DEF RequestOK, FlightOK, ns
  <2>3. ASSUME ~q.done PROVE InFlight(ns, p, r, q.inc, q.stale)
    <3>1. InFlight(ns, p, r, q.inc, q.stale + Weight(msg, r, q.inc))
      BY <2>3, FlightAppend DEF RequestOK, FlightOK, ns
    <3>2. q.stale + Weight(msg, r, q.inc) = q.stale
      BY <1>5, <2>1
    <3> QED
      BY <3>1, <3>2
  <2> QED
    BY <2>2, <2>3 DEF FlightOK, y
<1>11. ASSUME NEW c \in 1 .. Len(ns) PROVE Has(ns[c], r) => RowOf(ns[c], r).inc <= z.inc
  <2>1. c \in 1 .. Len(ms) \/ c = Len(ms) + 1
    BY <1>1
  <2> QED
    BY <1>1, <1>5, <2>1 DEF RequestOK
<1>12. DropOK(z, r, TRUE, ns, p)
  BY DEF RequestOK, DropOK
<1>13. PaysNext(z, r, TRUE, ns, p)
  <2> SUFFICES ASSUME ~z.done, NEW c \in (p+1) .. Len(ns), Pays(z, r, ns[c]),
                      \A d \in (p+1) .. (c-1) : ~Pays(z, r, ns[d])
               PROVE  End(RowOf(ns[c], r)) = PromptLen[r] + Len(z.out)
    BY DEF PaysNext
  <2>1. \A d : Pays(z, r, ns[d]) <=> Pays(q, r, ns[d])
    BY DEF Pays
  <2>2. CASE c \in 1 .. Len(ms)
    <3>1. \A d \in (p+1) .. (c-1) : ns[d] = ms[d]
      BY <1>1, <2>2
    <3>2. Pays(q, r, ms[c]) /\ \A d \in (p+1) .. (c-1) : ~Pays(q, r, ms[d])
      BY <1>1, <2>1, <2>2, <3>1
    <3>3. PaysNext(q, r, TRUE, ms, p) /\ c \in (p+1) .. Len(ms) /\ ~q.done
      <4>1. PaysNext(q, r, TRUE, ms, p)
        BY DEF RequestOK
      <4>2. c \in (p+1) .. Len(ms)
        BY <1>1, <2>2
      <4> QED
        BY <4>1, <4>2
    <3>4. ns[c] = ms[c]
      BY <1>1, <2>2
    <3> QED
      BY <3>2, <3>3, <3>4 DEF PaysNext
  <2>3. CASE c = Len(ms) + 1
    <3>1. ns[c] = msg /\ Samples(y)
      BY <1>1, <2>3 DEF Pays, y
    <3>2. q.ph = 0
      <4>1. CASE Samples(RowOf(ms[a], r)) /\ a \in (p+1) .. Len(ms)
        <5>1. Pays(q, r, ms[a])
          BY <1>4, <4>1 DEF FollowsRow, Pays
        <5>2. a \in (p+1) .. (c-1) /\ ns[a] = ms[a]
          BY <1>1, <2>3, <4>1
        <5> QED
          BY <2>1, <5>1, <5>2
      <4>2. CASE Samples(RowOf(ms[a], r)) /\ a <= p
        BY <1>4, <4>2 DEF FollowsRow
      <4> QED
        BY <1>1, <1>4, <4>1, <4>2
    <3>3. End(y) = PromptLen[r] + Len(q.out)
      BY <1>4, <1>5, <1>7, <3>1, <3>2 DEF Total
    <3> QED
      BY <3>1, <3>3 DEF y
  <2> QED
    BY <1>1, <2>2, <2>3
<1>14. TextOK(z, r)
  BY DEF RequestOK, TextOK
<1>15. Len(ms) + 1 \in 1 .. Len(ns)
  BY <1>1
<1> QED
  BY <1>9, <1>10, <1>11, <1>12, <1>13, <1>14, <1>15 DEF RequestOK, ns

\* _update_after_schedule of a request that is admitted from the waiting queue, with
\* all its tokens as text.
LEMMA RequestAdmitted ==
    ASSUME NEW ms, History(ms), NEW r \in Client, NEW p \in 0 .. Len(ms),
           NEW q, RequestOK(q, r, FALSE, ms, p), ~q.done, q.ph = 0, q.stale = 0 \/ q.drop,
           NEW msg \in MessageSet, History(Append(ms, msg)), Has(msg, r),
           RowOf(msg, r).inc = q.inc + 1, RowOf(msg, r).nc = 0,
           Len(RowOf(msg, r).base) = PromptLen[r] + Len(q.out),
           RowOf(msg, r).q <= Len(RowOf(msg, r).base),
           NEW z \in RequestSet,
           z.nc = RowOf(msg, r).q, z.flight = q.flight + RowOf(msg, r).q,
           z.stale = q.stale, z.drop = q.drop, z.inc = q.inc + 1, z.base = RowOf(msg, r).base,
           z.out = q.out, z.done = q.done,
           z.ph = (IF z.nc < Len(RowOf(msg, r).base) THEN 0 ELSE 1),
           z.nc < Len(RowOf(msg, r).base) \/ z.wait = Stages
    PROVE  RequestOK(z, r, TRUE, Append(ms, msg), p)
<1> DEFINE ns == Append(ms, msg)
           y == RowOf(msg, r)
<1>1. /\ Len(ms) \in Nat /\ Len(ns) = Len(ms) + 1 /\ ns[Len(ms) + 1] = msg
      /\ \A c \in 1 .. Len(ms) : ns[c] = ms[c]
  <2>1. ms \in Seq(MessageSet)
    BY DEF History
  <2> QED
    BY <2>1, ElemsAppend
<1>2. q \in RequestSet
  BY DEF RequestOK
<1>3. y \in RowSet
  BY RowFacts
<1>5. /\ q.flight \in Nat /\ q.stale \in Nat /\ q.inc \in Nat /\ Len(q.out) \in Nat
  BY <1>2 DEF RequestSet, Text
<1>6. /\ y.q \in Nat \ {0} /\ End(y) = y.nc + y.q /\ Len(y.base) \in Nat
      /\ (Samples(y) <=> End(y) >= Len(y.base))
  BY <1>3, RowNumbers
<1>7. PromptLen[r] \in Nat /\ Stages \in Nat
  BY RingConstants
<1>8. /\ End(y) = y.q /\ z.nc = End(y) /\ (Samples(y) <=> End(y) = Len(y.base))
      /\ (Samples(y) <=> ~(z.nc < Len(y.base)))
  BY <1>6
<1>20. \A c \in 1 .. Len(ms) : Has(ms[c], r) => RowOf(ms[c], r).inc <= q.inc /\ RowOf(ms[c], r).inc \in Nat
  BY HistoryRow DEF RequestOK
<1>21. \A c \in 1 .. Len(ms) : Has(ms[c], r) => RowOf(ms[c], r).inc < q.inc + 1 /\ RowOf(ms[c], r).inc < q.inc + 2
  BY <1>5, <1>20
<1>22. ~ q.done /\ z.inc = q.inc + 1 /\ z.base = y.base /\ y.inc = q.inc + 1
  OBVIOUS
<1> HIDE DEF y, ns
<1>9. FollowsRow(z, r, ns, p, Len(ms) + 1)
  <2>1. RowOf(ns[Len(ms) + 1], r) = y
    BY <1>1 DEF y
  <2>2. Last(ns, r, Len(ms) + 1, Len(ns))
    BY <1>1, LastNext
  <2>3. CASE Samples(y)
    <3>1. z.ph = 1 /\ z.wait = Stages
      BY <1>8, <2>3 DEF y
    <3>2. Total(z, r) = End(y) + 1
      BY <1>5, <1>7, <1>8, <2>3, <3>1 DEF Total, y
    <3>3. z.wait >= Stages - (Len(ns) - (Len(ms) + 1)) /\ ~(Len(ms) + 1 <= p)
      BY <1>1, <1>7, <3>1
    <3> QED
      BY <1>8, <1>22, <2>1, <2>2, <2>3, <3>2, <3>3 DEF FollowsRow
  <2>4. CASE ~Samples(y)
    <3>1. z.ph = 0
      BY <1>8, <2>4 DEF y
    <3>2. Total(z, r) = Len(y.base)
      BY <1>5, <1>7, <3>1 DEF Total, y
    <3> QED
      BY <1>8, <1>22, <2>1, <2>2, <2>4, <3>1, <3>2 DEF FollowsRow
  <2> QED
    BY <2>3, <2>4
<1>10. FlightOK(z, r, TRUE, ns, p)
  <2>1. Weight(msg, r, q.inc + 2) = y.q /\ Weight(msg, r, q.inc + 1) = 0
    BY <1>5, <1>22 DEF Weight, y
  <2>2. InFlight(ms, p, r, q.inc + 1, q.flight) /\ InFlight(ms, p, r, q.inc + 1, q.stale)
    BY DEF RequestOK, FlightOK
  <2>3. InFlight(ms, p, r, q.inc + 2, q.flight)
    BY <1>21, <2>2, FlightMore
  <2>4. InFlight(ns, p, r, q.inc + 2, q.flight + y.q)
    BY <2>1, <2>3, FlightAppend DEF ns
  <2>5. InFlight(ns, p, r, q.inc + 1, q.stale + 0)
    BY <2>1, <2>2, FlightAppend DEF ns
  <2>6. q.stale + 0 = q.stale /\ z.inc + 1 = q.inc + 2 /\ z.stale = q.stale
    BY <1>5
  <2>7. z.flight = q.flight + y.q
    BY DEF y
  <2> QED
    BY <1>22, <2>4, <2>5, <2>6, <2>7 DEF FlightOK
<1>11. ASSUME NEW c \in 1 .. Len(ns) PROVE Has(ns[c], r) => RowOf(ns[c], r).inc <= z.inc
  <2>1. c \in 1 .. Len(ms) \/ c = Len(ms) + 1
    BY <1>1
  <2>2. CASE c \in 1 .. Len(ms)
    BY <1>1, <1>5, <1>20, <1>22, <2>2
  <2>3. CASE c = Len(ms) + 1
    BY <1>1, <1>5, <1>22, <2>3 DEF y
  <2> QED
    BY <2>1, <2>2, <2>3
<1>12. DropOK(z, r, TRUE, ns, p)
  BY DEF DropOK
<1>13. PaysNext(z, r, TRUE, ns, p)
  <2> SUFFICES ASSUME ~z.done, NEW c \in (p+1) .. Len(ns), Pays(z, r, ns[c])
               PROVE  End(RowOf(ns[c], r)) = PromptLen[r] + Len(z.out)
    BY DEF PaysNext
  <2>1. c = Len(ms) + 1
    <3> SUFFICES ASSUME c \in 1 .. Len(ms) PROVE FALSE
      BY <1>1
    <3>1. Has(ms[c], r) /\ RowOf(ms[c], r).inc = q.inc + 1
      BY <1>1, <1>22 DEF Pays
    <3> QED
      BY <1>5, <1>20, <3>1
  <2>2. Samples(y)
    BY <1>1, <2>1 DEF Pays, y
  <2> QED
    BY <1>1, <1>8, <2>1, <2>2 DEF y
<1>14. TextOK(z, r)
  <2>1. TextOK(q, r) /\ Len(y.base) = PromptLen[r] + Len(q.out)
    BY DEF RequestOK, y
  <2>2. \A k \in DOMAIN q.out : k \in 1 .. Len(q.out)
    <3>1. q.out \in Seq(Token)
      BY <1>2 DEF RequestSet, Text
    <3>2. DOMAIN q.out = 1 .. Len(q.out)
      BY <3>1
    <3> QED
      BY <3>2
  <2>3. \A k \in DOMAIN q.out : ~(PromptLen[r] + k > Len(y.base))
    BY <1>5, <1>7, <2>1, <2>2
  <2> QED
    BY <1>22, <2>1, <2>3 DEF TextOK
<1>15. Len(ms) + 1 \in 1 .. Len(ns)
  BY <1>1
<1> QED
  BY <1>9, <1>10, <1>11, <1>12, <1>13, <1>14, <1>15 DEF RequestOK, ns

\* The output of a message without the request is processed.
LEMMA RequestPassed ==
    ASSUME NEW ms, History(ms), NEW r \in Client, NEW run \in BOOLEAN, NEW p \in Nat, p < Len(ms),
           NEW q, RequestOK(q, r, run, ms, p), ~Has(ms[p + 1], r)
    PROVE  RequestOK(q, r, run, ms, p + 1)
<1>1. Len(ms) \in Nat /\ q \in RequestSet /\ p \in 0 .. Len(ms)
  BY DEF History, RequestOK
<1>2. q.flight \in Nat /\ q.stale \in Nat
  BY <1>1 DEF RequestSet
<1>3. \A w : Weight(ms[p + 1], r, w) = 0
  BY DEF Weight
<1>4. \A n \in Nat : n - 0 = n
  OBVIOUS
<1>5. \A w : \A n \in Nat : InFlight(ms, p, r, w, n) => InFlight(ms, p + 1, r, w, n)
  <2> TAKE w
  <2> TAKE n \in Nat
  <2> HAVE InFlight(ms, p, r, w, n)
  <2>1. InFlight(ms, p + 1, r, w, n - Weight(ms[p + 1], r, w))
    BY FlightPop
  <2>2. n - Weight(ms[p + 1], r, w) = n
    BY <1>3, <1>4
  <2> QED
    BY <2>1, <2>2
<1>6. FlightOK(q, r, run, ms, p + 1)
  BY <1>2, <1>5 DEF RequestOK, FlightOK
<1>7. run => \E a \in 1 .. Len(ms) : FollowsRow(q, r, ms, p + 1, a)
  <2> HAVE run
  <2>1. PICK a \in 1 .. Len(ms) : FollowsRow(q, r, ms, p, a)
    BY DEF RequestOK
  <2>2. a # p + 1
    BY <2>1 DEF FollowsRow, Last
  <2>3. a <= p + 1 => a <= p
    BY <2>2
  <2>4. FollowsRow(q, r, ms, p + 1, a)
    BY <2>1, <2>3 DEF FollowsRow
  <2> QED
    BY <2>4
<1>8. \A c \in (p+1+1) .. Len(ms) : c \in (p+1) .. Len(ms)
  BY <1>1
<1>9. DropOK(q, r, run, ms, p + 1)
  BY <1>8 DEF RequestOK, DropOK
<1>10. PaysNext(q, r, run, ms, p + 1)
  <2> SUFFICES ASSUME ~q.done, run \/ ~q.drop, NEW c \in (p+1+1) .. Len(ms), Pays(q, r, ms[c]),
                      \A d \in (p+1+1) .. (c-1) : ~Pays(q, r, ms[d])
               PROVE  End(RowOf(ms[c], r)) = PromptLen[r] + Len(q.out)
    BY DEF PaysNext
  <2>1. \A d \in (p+1) .. (c-1) : d = p + 1 \/ d \in (p+1+1) .. (c-1)
    BY <1>1
  <2>2. \A d \in (p+1) .. (c-1) : ~Pays(q, r, ms[d])
    BY <2>1 DEF Pays
  <2>3. PaysNext(q, r, run, ms, p)
    BY DEF RequestOK
  <2> QED
    BY <1>8, <2>2, <2>3 DEF PaysNext
<1> QED
  BY <1>6, <1>7, <1>9, <1>10 DEF RequestOK

\* The output of a message with a row of the request, which yields toks.
Delivers(q, x) == ~q.done /\ ~(q.stale > 0 /\ q.drop) /\ Samples(x)

\* What is delivered is of the admission the request is in, and the next of its text.
LEMMA DeliveryFacts ==
    ASSUME NEW ms, History(ms), NEW r \in Client, NEW run \in BOOLEAN, NEW p \in Nat, p < Len(ms),
           NEW q, RequestOK(q, r, run, ms, p), Has(ms[p + 1], r), ~q.done
    PROVE  LET x == RowOf(ms[p + 1], r)
           IN  /\ run /\ x.inc >= q.inc => q.stale = 0
               /\ Delivers(q, x) => /\ x.inc = q.inc /\ (run \/ ~q.drop)
                                    /\ End(x) = PromptLen[r] + Len(q.out)
                                    /\ (run => q.stale = 0) /\ (~run => q.stale > 0)
               /\ (run \/ ~q.drop) /\ Pays(q, r, ms[p + 1]) => Delivers(q, x)
<1> DEFINE x == RowOf(ms[p + 1], r)
<1>1. /\ Len(ms) \in Nat /\ q \in RequestSet /\ p \in 0 .. Len(ms)
      /\ p + 1 \in 1 .. Len(ms) /\ p + 1 \in (p+1) .. Len(ms)
  BY DEF History, RequestOK
<1>2. q.stale \in Nat /\ q.inc \in Nat /\ q.drop \in BOOLEAN
  BY <1>1 DEF RequestSet
<1>3. x.inc \in Nat /\ x.inc <= q.inc
  BY <1>1, HistoryRow DEF RequestOK
<1>4. ASSUME run, x.inc >= q.inc PROVE q.stale = 0
  <2>1. InFlight(ms, p, r, q.inc, q.stale)
    BY <1>4 DEF RequestOK, FlightOK
  <2>2. ASSUME NEW c \in (p+1) .. Len(ms), Has(ms[c], r) PROVE ~(RowOf(ms[c], r).inc < q.inc)
    <3>1. CASE c = p + 1
      BY <1>2, <1>3, <1>4, <3>1
    <3>2. CASE c # p + 1
      <4>1. c \in 1 .. Len(ms) /\ p + 1 \in 1 .. c - 1
        BY <1>1, <3>2
      <4>2. Ordered(ms, r, p + 1, c)
        BY <2>2, <4>1, InOrder
      <4>3. x.inc <= RowOf(ms[c], r).inc /\ RowOf(ms[c], r).inc \in Nat
        BY <2>2, <4>1, <4>2, HistoryRow DEF Ordered
      <4> QED
        BY <1>2, <1>3, <1>4, <4>3
    <3> QED
      BY <3>1, <3>2
  <2> QED
    BY <1>1, <2>1, <2>2, FlightNat
<1>5. ASSUME q.stale = 0, run PROVE x.inc = q.inc
  <2>1. InFlight(ms, p, r, q.inc, q.stale)
    BY <1>5 DEF RequestOK, FlightOK
  <2>2. ~(x.inc < q.inc)
    BY <1>1, <1>5, <2>1, FlightNat
  <2> QED
    BY <1>2, <1>3, <2>2
<1>6. ASSUME ~run PROVE q.stale > 0
  <2>1. InFlight(ms, p, r, q.inc + 1, q.stale)
    BY <1>6 DEF RequestOK, FlightOK
  <2>2. x.inc < q.inc + 1
    BY <1>2, <1>3
  <2>3. q.stale # 0
    BY <1>1, <2>1, <2>2, FlightNat
  <2> QED
    BY <1>2, <2>3
<1> HIDE DEF x
<1>7. DropOK(q, r, run, ms, p) /\ PaysNext(q, r, run, ms, p)
  BY DEF RequestOK
<1>8. ASSUME Delivers(q, x)
      PROVE  /\ x.inc = q.inc /\ (run \/ ~q.drop)
             /\ End(x) = PromptLen[r] + Len(q.out)
             /\ (run => q.stale = 0) /\ (~run => q.stale > 0)
  <2>1. ~(q.stale > 0 /\ q.drop) /\ Samples(x)
    BY <1>8 DEF Delivers
  <2>2. run => q.stale = 0
    BY <1>2, <1>7, <2>1 DEF DropOK
  <2>3. ~run => ~q.drop
    BY <1>6, <2>1
  <2>4. x.inc = q.inc
    <3>1. CASE run
      BY <1>5, <2>2, <3>1
    <3>2. CASE ~run
      BY <1>1, <1>7, <2>3, <3>2 DEF DropOK, x
    <3> QED
      BY <3>1, <3>2
  <2>5. Pays(q, r, ms[p + 1])
    BY <2>1, <2>4 DEF Pays, x
  <2>6. \A d \in (p+1) .. (p+1) - 1 : ~Pays(q, r, ms[d])
    BY <1>1
  <2>7. End(x) = PromptLen[r] + Len(q.out)
    BY <1>1, <1>7, <2>3, <2>5, <2>6 DEF PaysNext, x
  <2> QED
    BY <1>6, <2>2, <2>3, <2>4, <2>7
<1>9. ASSUME run \/ ~q.drop, Pays(q, r, ms[p + 1]) PROVE Delivers(q, x)
  <2>1. Samples(x) /\ x.inc = q.inc
    BY <1>9 DEF Pays, x
  <2>2. run => q.stale = 0
    BY <1>2, <1>3, <1>4, <2>1
  <2> QED
    BY <1>2, <1>9, <2>1, <2>2 DEF Delivers
<1> QED
  BY <1>4, <1>8, <1>9 DEF x

LEMMA RequestDelivered ==
    ASSUME NEW ms, History(ms), NEW r \in Client, NEW run \in BOOLEAN, NEW p \in Nat, p < Len(ms),
           NEW q, RequestOK(q, r, run, ms, p), Has(ms[p + 1], r), NEW stop \in BOOLEAN,
           NEW z, z = Delivered(q, RowOf(ms[p + 1], r).q, AnswerOf(ms[p + 1], r), stop)
    PROVE  /\ RequestOK(z, r, run /\ ~z.done, ms, p + 1)
           /\ z.nc = q.nc /\ (~run => z.ph = q.ph) /\ (q.done => z.done)
<1> DEFINE x == RowOf(ms[p + 1], r)
           del == Delivers(q, x)
<1>1. /\ Len(ms) \in Nat /\ q \in RequestSet /\ p \in 0 .. Len(ms)
      /\ p + 1 \in 1 .. Len(ms) /\ p + 1 \in (p+1) .. Len(ms) /\ p + 1 \in 0 .. Len(ms)
  BY DEF History, RequestOK
<1>2. /\ q.stale \in Nat /\ q.inc \in Nat /\ q.drop \in BOOLEAN /\ q.flight \in Nat
      /\ q.ph \in Int /\ q.nc \in Nat /\ q.wait \in Nat /\ q.done \in BOOLEAN
      /\ q.out \in Text /\ q.base \in Text
  BY <1>1 DEF RequestSet
<1>3. /\ x.inc \in Nat /\ x.inc <= q.inc /\ x.q \in Nat \ {0} /\ x \in RowSet /\ x.r = r
      /\ End(x) \in Nat
  BY <1>1, HistoryRow DEF RequestOK
<1>4. AnswerOf(ms[p + 1], r) = (IF Samples(x) THEN <<TokenOf(x)>> ELSE <<>>)
  BY DEF AnswerOf
<1>5. Samples(x) => TokenOf(x) = <<r, x.inc, End(x)>> /\ TokenOf(x) \in Token
  BY <1>3 DEF TokenOf, Tok, Token
<1> HIDE DEF x
<1>6. <<TokenOf(x)>> # <<>>
  OBVIOUS
<1>8. InFlight(ms, p + 1, r, q.inc + 1, q.flight - x.q) /\ q.flight - x.q \in Nat
  <2>1. InFlight(ms, p, r, q.inc + 1, q.flight)
    BY DEF RequestOK, FlightOK
  <2>2. Weight(ms[p + 1], r, q.inc + 1) = x.q
    BY <1>2, <1>3 DEF Weight, x
  <2> QED
    BY <2>1, <2>2, FlightPop
<1>7. /\ z.inc = q.inc /\ z.base = q.base /\ z.nc = q.nc /\ z.drop = q.drop /\ z.wait = q.wait
      /\ z.flight = q.flight - x.q /\ z.stale = Greater(0, q.stale - x.q)
      /\ ~del => z.out = q.out /\ z.ph = q.ph /\ z.done = q.done
      /\ del => /\ z.out = Append(q.out, TokenOf(x))
                /\ z.ph = (IF q.stale > 0 THEN q.ph ELSE q.ph - 1)
                /\ z.done \in BOOLEAN
      /\ z \in RequestSet
  <2> DEFINE dr == [q EXCEPT !.flight = @ - x.q, !.stale = Greater(0, @ - x.q)]
             toks == AnswerOf(ms[p + 1], r)
  <2>1. /\ dr.inc = q.inc /\ dr.base = q.base /\ dr.nc = q.nc /\ dr.drop = q.drop /\ dr.wait = q.wait
        /\ dr.flight = q.flight - x.q /\ dr.stale = Greater(0, q.stale - x.q)
        /\ dr.out = q.out /\ dr.ph = q.ph /\ dr.done = q.done /\ DOMAIN dr = DOMAIN q
        /\ DOMAIN dr = {"nc", "ph", "flight", "stale", "drop", "wait", "inc", "base", "out", "done"}
    BY <1>1 DEF RequestSet
  <2>5. dr \in RequestSet
    <3>1. Greater(0, q.stale - x.q) \in Nat
      BY <1>2, <1>3 DEF Greater
    <3> QED
      BY <1>1, <1>8, <3>1 DEF RequestSet
  <2> HIDE DEF dr
  <2>2. z = IF q.done \/ (q.stale > 0 /\ q.drop) \/ toks = <<>> THEN dr
            ELSE [dr EXCEPT !.out = @ \o toks,
                             !.ph = IF q.stale > 0 THEN @ ELSE @ - 1,
                             !.done = Len(q.out) + 1 >= MaxOut \/ stop]
    BY DEF Delivered, dr, x
  <2>3. CASE ~del
    <3>1. q.done \/ (q.stale > 0 /\ q.drop) \/ toks = <<>>
      BY <1>4, <2>3 DEF Delivers
    <3> QED
      BY <2>1, <2>2, <2>3, <2>5, <3>1
  <2>4. CASE del
    <3>1. ~(q.done \/ (q.stale > 0 /\ q.drop) \/ toks = <<>>) /\ toks = <<TokenOf(x)>>
      BY <1>4, <1>6, <2>4 DEF Delivers
    <3>2. z = [dr EXCEPT !.out = @ \o toks,
                             !.ph = IF q.stale > 0 THEN @ ELSE @ - 1,
                             !.done = Len(q.out) + 1 >= MaxOut \/ stop]
      BY <2>2, <3>1
    <3>3. q.out \o toks = Append(q.out, TokenOf(x))
      <4>1. q.out \in Seq(Token) /\ TokenOf(x) \in Token
        BY <1>2, <1>5, <2>4 DEF Delivers, Text
      <4> QED
        BY <3>1, <4>1, AppendIsConcat
    <3>4. (Len(q.out) + 1 >= MaxOut \/ stop) \in BOOLEAN
      OBVIOUS
    <3>5. (IF q.stale > 0 THEN q.ph ELSE q.ph - 1) \in Int /\ Append(q.out, TokenOf(x)) \in Text
      <4>1. q.out \in Seq(Token) /\ TokenOf(x) \in Token
        BY <1>2, <1>5, <2>4 DEF Delivers, Text
      <4> QED
        BY <1>2, <4>1 DEF Text
    <3>6. z = [dr EXCEPT !.out = Append(q.out, TokenOf(x)),
                         !.ph = IF q.stale > 0 THEN q.ph ELSE q.ph - 1,
                         !.done = Len(q.out) + 1 >= MaxOut \/ stop]
      BY <2>1, <3>2, <3>3
    <3>7. z \in RequestSet
      BY <2>5, <3>4, <3>5, <3>6 DEF RequestSet
    <3>8. /\ z.inc = dr.inc /\ z.base = dr.base /\ z.nc = dr.nc /\ z.drop = dr.drop /\ z.wait = dr.wait
          /\ z.flight = dr.flight /\ z.stale = dr.stale /\ z.out = Append(q.out, TokenOf(x))
          /\ z.ph = (IF q.stale > 0 THEN q.ph ELSE q.ph - 1) /\ z.done \in BOOLEAN
      BY <2>1, <3>4, <3>6
    <3> QED
      BY <2>1, <2>4, <3>7, <3>8
  <2> QED
    BY <2>3, <2>4
<1> HIDE DEF del
<1>9. ASSUME ~q.done
      PROVE  /\ run /\ x.inc >= q.inc => q.stale = 0
             /\ del => /\ x.inc = q.inc /\ (run \/ ~q.drop)
                       /\ End(x) = PromptLen[r] + Len(q.out)
                       /\ (run => q.stale = 0) /\ (~run => q.stale > 0)
             /\ (run \/ ~q.drop) /\ Pays(q, r, ms[p + 1]) => del
  BY <1>9, DeliveryFacts DEF x, del
<1>10. /\ del => ~q.done /\ Samples(x)
       /\ ~z.done => ~q.done
       /\ q.done => z.done
  BY <1>7 DEF del, Delivers
<1>11. Len(q.out) \in Nat /\ (del => Len(z.out) = Len(q.out) + 1) /\ PromptLen[r] \in Nat
  BY <1>2, <1>5, <1>7, <1>10, RingConstants DEF Text
<1>12. FlightOK(z, r, run /\ ~z.done, ms, p + 1)
  <2> DEFINE w == IF run THEN q.inc ELSE q.inc + 1
  <2>1. ASSUME ~z.done PROVE InFlight(ms, p + 1, r, w, z.stale)
    <3>1. InFlight(ms, p, r, w, q.stale)
      BY <1>10, <2>1 DEF RequestOK, FlightOK
    <3>2. /\ InFlight(ms, p + 1, r, w, q.stale - Weight(ms[p + 1], r, w))
          /\ q.stale - Weight(ms[p + 1], r, w) \in Nat
      BY <3>1, FlightPop
    <3>3. CASE x.inc < w
      <4>1. Weight(ms[p + 1], r, w) = x.q
        BY <3>3 DEF Weight, x
      <4>2. z.stale = q.stale - x.q
        BY <1>2, <1>3, <1>7, <3>2, <4>1 DEF Greater
      <4> QED
        BY <3>2, <4>1, <4>2
    <3>4. CASE ~(x.inc < w)
      <4>1. Weight(ms[p + 1], r, w) = 0
        BY <3>4 DEF Weight, x
      <4>2. run /\ x.inc >= q.inc
        BY <1>2, <1>3, <3>4
      <4>3. q.stale = 0
        BY <1>9, <1>10, <2>1, <4>2
      <4>4. z.stale = 0 /\ q.stale - Weight(ms[p + 1], r, w) = 0
        BY <1>3, <1>7, <4>1, <4>3 DEF Greater
      <4> QED
        BY <3>2, <4>4
    <3> QED
      BY <3>3, <3>4
  <2> QED
    BY <1>7, <1>8, <2>1 DEF FlightOK
<1>13. TextOK(z, r)
  <2>1. TextOK(q, r)
    BY DEF RequestOK
  <2>2. CASE ~del
    BY <1>7, <2>1, <2>2 DEF TextOK
  <2>3. CASE del
    <3> DEFINE tok == <<r, q.inc, PromptLen[r] + Len(q.out)>>
               n == Len(q.out)
    <3>1. z.out = Append(q.out, tok) /\ q.out \in Seq(Token) /\ tok \in Token
      BY <1>2, <1>5, <1>7, <1>9, <1>10, <2>3 DEF Text
    <3>2. tok[1] = r /\ tok[2] = q.inc /\ tok[3] = PromptLen[r] + n
      OBVIOUS
    <3>3. n \in Nat /\ PromptLen[r] \in Nat /\ z.inc = q.inc /\ z.base = q.base
      BY <1>7, <1>11
    <3> HIDE DEF tok
    <3>4. /\ DOMAIN z.out = 1 .. n + 1 /\ DOMAIN q.out = 1 .. n
          /\ \A k \in 1 .. n : z.out[k] = q.out[k]
          /\ z.out[n + 1] = tok
      BY <3>1
    <3> HIDE DEF n
    <3>5. ASSUME NEW k \in DOMAIN z.out
          PROVE  /\ z.out[k][1] = r /\ z.out[k][3] = PromptLen[r] + k - 1
                 /\ PromptLen[r] + k > Len(z.base) => z.out[k][2] = z.inc
      <4>1. CASE k \in 1 .. n
        <5>1. k \in DOMAIN q.out /\ z.out[k] = q.out[k]
          BY <3>4, <4>1
        <5>2. /\ q.out[k][1] = r /\ q.out[k][3] = PromptLen[r] + k - 1
              /\ PromptLen[r] + k > Len(q.base) => q.out[k][2] = q.inc
          BY <2>1, <5>1 DEF TextOK
        <5> QED
          BY <3>3, <5>1, <5>2
      <4>2. CASE k = n + 1
        <5>1. z.out[k] = tok
          BY <3>4, <4>2
        <5>2. PromptLen[r] + k - 1 = PromptLen[r] + n
          BY <3>3, <4>2
        <5> QED
          BY <3>2, <3>3, <5>1, <5>2
      <4> QED
        BY <3>3, <3>4, <4>1, <4>2
    <3> QED
      BY <3>5 DEF TextOK
  <2> QED
    BY <2>2, <2>3
<1>14. ASSUME run, ~z.done PROVE \E a \in 1 .. Len(ms) : FollowsRow(z, r, ms, p + 1, a)
  <2>1. PICK a \in 1 .. Len(ms) : FollowsRow(q, r, ms, p, a)
    BY <1>14 DEF RequestOK
  <2> DEFINE y == RowOf(ms[a], r)
  <2>2. /\ Last(ms, r, a, Len(ms)) /\ y.inc = q.inc /\ y.base = q.base /\ q.nc = End(y)
        /\ Total(q, r) = (IF Samples(y) THEN End(y) + 1 ELSE Len(y.base))
        /\ Samples(y) => q.wait >= Stages - (Len(ms) - a)
        /\ ~Samples(y) \/ a <= p => q.ph = 0
    BY <2>1 DEF FollowsRow
  <2>3. ~q.done /\ Has(ms[a], r)
    BY <1>10, <1>14, <2>2 DEF Last
  <2>4. Total(z, r) = Total(q, r)
    <3>1. CASE ~del
      BY <1>7, <3>1 DEF Total
    <3>2. CASE del
      <4>1. q.stale = 0
        BY <1>9, <1>14, <2>3, <3>2
      <4>2. z.ph = q.ph - 1 /\ Len(z.out) = Len(q.out) + 1
        BY <1>7, <1>11, <3>2, <4>1
      <4>3. q.ph \in Int /\ Len(q.out) \in Nat /\ PromptLen[r] \in Nat
        BY <1>2, <1>11
      <4> QED
        BY <4>2, <4>3 DEF Total
    <3> QED
      BY <3>1, <3>2
  <2>5. a >= p + 1
    <3>1. SUFFICES ASSUME a < p + 1 PROVE FALSE
      BY <1>1
    <3>2. p + 1 \in (a+1) .. Len(ms)
      BY <1>1, <3>1
    <3> QED
      BY <2>2, <3>2 DEF Last
  <2>6. ASSUME ~Samples(y) PROVE ~del
    <3> SUFFICES ASSUME del PROVE FALSE
      OBVIOUS
    <3>1. Samples(x) /\ x.inc = y.inc
      BY <1>9, <1>10, <2>2, <2>3
    <3>2. a # p + 1
      BY <2>6, <3>1 DEF x
    <3>3. p + 1 \in 1 .. a - 1
      BY <1>1, <2>5, <3>2
    <3>4. Ordered(ms, r, p + 1, a)
      BY <2>3, <3>3, InOrder
    <3>5. x.base = y.base /\ End(x) < End(y)
      BY <3>1, <3>4 DEF Ordered, x
    <3>6. End(y) \in Nat /\ Len(x.base) \in Nat
      BY <1>3, <2>3, HistoryRow, RowNumbers
    <3>7. End(y) >= Len(y.base)
      BY <1>3, <3>1, <3>5, <3>6 DEF Samples
    <3> QED
      BY <2>6, <3>7 DEF Samples
  <2>7. ASSUME Samples(y), a = p + 1 PROVE z.ph = 0
    <3>1. y = x
      BY <2>7 DEF x
    <3>2. Pays(q, r, ms[p + 1])
      BY <2>2, <2>7, <3>1 DEF Pays, x
    <3>3. del
      BY <1>9, <1>14, <2>3, <3>2
    <3>4. End(x) = PromptLen[r] + Len(q.out) /\ q.stale = 0
      BY <1>9, <1>14, <2>3, <3>3
    <3> HIDE DEF y
    <3>5. PromptLen[r] + Len(q.out) + q.ph = End(x) + 1
      BY <2>2, <2>7, <3>1 DEF Total
    <3>6. z.ph = q.ph - 1
      BY <1>7, <3>3, <3>4
    <3>7. q.ph = 1
      BY <1>2, <1>3, <1>11, <3>4, <3>5
    <3> QED
      BY <3>6, <3>7
  <2>8. ~Samples(y) \/ a <= p + 1 => z.ph = 0
    BY <1>1, <1>7, <2>2, <2>5, <2>6, <2>7
  <2>9. FollowsRow(z, r, ms, p + 1, a)
    BY <1>7, <2>2, <2>4, <2>8 DEF FollowsRow
  <2> QED
    BY <2>9
<1>15. \A c \in (p+1+1) .. Len(ms) : c \in (p+1) .. Len(ms)
  BY <1>1
<1>16. DropOK(z, r, run /\ ~z.done, ms, p + 1)
  <2> SUFFICES ASSUME ~z.done, ~z.drop
               PROVE  IF run THEN z.stale = 0
                      ELSE \A c \in (p+1+1) .. Len(ms) : Has(ms[c], r) => RowOf(ms[c], r).inc = z.inc
    BY DEF DropOK
  <2>1. IF run THEN q.stale = 0
        ELSE \A c \in (p+1) .. Len(ms) : Has(ms[c], r) => RowOf(ms[c], r).inc = q.inc
    BY <1>7, <1>10 DEF RequestOK, DropOK
  <2>2. CASE run
    BY <1>3, <1>7, <2>1, <2>2 DEF Greater
  <2>3. CASE ~run
    BY <1>7, <1>15, <2>1, <2>3
  <2> QED
    BY <2>2, <2>3
<1>17. PaysNext(z, r, run /\ ~z.done, ms, p + 1)
  <2> SUFFICES ASSUME ~z.done, run \/ ~z.drop, NEW c \in (p+1+1) .. Len(ms), Pays(z, r, ms[c]),
                      \A d \in (p+1+1) .. (c-1) : ~Pays(z, r, ms[d])
               PROVE  End(RowOf(ms[c], r)) = PromptLen[r] + Len(z.out)
    BY DEF PaysNext
  <2>1. ~q.done /\ (run \/ ~q.drop)
    BY <1>7, <1>10
  <2>2. Pays(q, r, ms[c]) /\ \A d \in (p+1+1) .. (c-1) : ~Pays(q, r, ms[d])
    BY <1>7 DEF Pays
  <2>3. CASE Pays(q, r, ms[p + 1])
    <3>1. del /\ End(x) = PromptLen[r] + Len(q.out)
      BY <1>9, <2>1, <2>3
    <3>2. p + 1 \in 1 .. c - 1 /\ c \in 1 .. Len(ms)
      BY <1>1
    <3>3. /\ Has(ms[c], r) /\ RowOf(ms[p + 1], r).inc = RowOf(ms[c], r).inc
          /\ Samples(RowOf(ms[p + 1], r))
          /\ \A d \in (p+1+1) .. (c-1) :
                ~(Has(ms[d], r) /\ RowOf(ms[d], r).inc = RowOf(ms[p + 1], r).inc /\ Samples(RowOf(ms[d], r)))
      BY <2>2, <2>3 DEF Pays
    <3>4. End(RowOf(ms[c], r)) = End(x) + 1
      BY <3>2, <3>3, NextSampled DEF x
    <3> QED
      BY <1>11, <3>1, <3>4
  <2>4. CASE ~Pays(q, r, ms[p + 1])
    <3>1. ~del
      BY <1>9, <1>10, <2>1, <2>4 DEF Pays, x
    <3>2. \A d \in (p+1) .. (c-1) : d = p + 1 \/ d \in (p+1+1) .. (c-1)
      BY <1>1
    <3>3. \A d \in (p+1) .. (c-1) : ~Pays(q, r, ms[d])
      BY <2>2, <2>4, <3>2
    <3>4. PaysNext(q, r, run, ms, p) /\ c \in (p+1) .. Len(ms)
      BY <1>15 DEF RequestOK
    <3>5. End(RowOf(ms[c], r)) = PromptLen[r] + Len(q.out)
      BY <2>1, <2>2, <3>3, <3>4 DEF PaysNext
    <3> QED
      BY <1>7, <3>1, <3>5
  <2> QED
    BY <2>3, <2>4
<1>18. \A c \in 1 .. Len(ms) : Has(ms[c], r) => RowOf(ms[c], r).inc <= z.inc
  BY <1>7 DEF RequestOK
<1>19. RequestOK(z, r, run /\ ~z.done, ms, p + 1)
  BY <1>7, <1>12, <1>13, <1>14, <1>16, <1>17, <1>18 DEF RequestOK
<1>20. ~run => z.ph = q.ph
  BY <1>7, <1>9, <1>10
<1> QED
  BY <1>7, <1>10, <1>19, <1>20

-----------------------------------------------------------------------------
(***************************************************************************)
(* The scheduler's step                                                    *)
(***************************************************************************)
\* Requests that keep their blocks, and requests that lose them.
LEMMA StepQueues ==
    ASSUME QueueInv, NEW m \in 0 .. Len(runningQ)
    PROVE  /\ Kept(m) \in Seq(Client) /\ Lost(m) \in Seq(Client)
           /\ Len(Kept(m)) = Len(runningQ) - m
           /\ Elems(Kept(m)) \cup Elems(Lost(m)) = Elems(runningQ)
           /\ Elems(Kept(m)) \cap Elems(Lost(m)) = {}
           /\ Distinct(Kept(m)) /\ Distinct(Lost(m))
BY CutElems DEF QueueInv, Kept, Lost

LEMMA StepNewRows ==
    ASSUME QueueInv, RequestsInv, NEW m \in 0 .. Len(runningQ)
    PROVE  /\ Chosen(NewRows(m), Elems(waitingQ))
           /\ Len(NewRows(m)) + Len(Kept(m)) <= Slots
           /\ \A i \in DOMAIN NewRows(m) :
                 MayResume(NewRows(m)[i][1]) /\ NewRows(m)[i][2] <= Len(AllTokenIds(NewRows(m)[i][1]))
<1>1. Len(Kept(m)) = Len(runningQ) - m /\ Kept(m) \in Seq(Client) /\ Distinct(Kept(m))
  BY StepQueues
<1>2. Len(runningQ) \in 0 .. Slots /\ waitingQ \in Seq(Client) /\ Distinct(waitingQ)
  BY RingConstants DEF QueueInv
<1>3. req \in [Client -> RequestSet] /\ Slots \in Nat
  BY RingConstants DEF RequestsInv
<1>4. CASE m # 0
  <2>1. NewRows(m) = <<>>
    BY <1>4 DEF NewRows
  <2> QED
    BY <1>1, <1>2, <1>3, <2>1 DEF Chosen
<1>5. CASE m = 0
  <2>1. ScheduleRunning(Kept(m)).budget \in 0 .. Budget
    BY <1>1, <1>3, RunningRows
  <2>2. NewRows(m) = ScheduleWaiting(ScheduleRunning(Kept(m)).budget).rows
    BY <1>5 DEF NewRows
  <2>3. /\ Chosen(NewRows(m), Elems(waitingQ)) /\ Len(NewRows(m)) <= Slots - Len(runningQ)
        /\ \A i \in DOMAIN NewRows(m) :
              MayResume(NewRows(m)[i][1]) /\ NewRows(m)[i][2] <= Len(AllTokenIds(NewRows(m)[i][1]))
    BY <1>2, <1>3, <2>1, <2>2, WaitingRows
  <2>4. Len(NewRows(m)) \in Nat
    BY <2>3 DEF Chosen
  <2> QED
    BY <1>1, <1>2, <1>3, <1>5, <2>3, <2>4
<1> QED
  BY <1>4, <1>5

\* The rows of the requests that run, and then of those that are admitted.
OldRowOf(m, i, r, n) ==
    /\ i <= Len(OldRows(m)) /\ r \in Elems(Kept(m)) /\ r \notin Admitted(m)
    /\ Eligible(r) /\ n <= NumNew(r)
NewRowOf(m, i, r, n) ==
    /\ i > Len(OldRows(m)) /\ r \in Admitted(m) /\ r \in Elems(waitingQ)
    /\ MayResume(r) /\ n <= Len(AllTokenIds(r))

LEMMA StepChosen ==
    ASSUME QueueInv, RequestsInv, NEW m \in 0 .. Len(runningQ)
    PROVE  /\ StepRows(m) \in Seq(Client \X (1 .. Budget))
           /\ Len(StepRows(m)) = Len(OldRows(m)) + Len(NewRows(m))
           /\ Len(OldRows(m)) \in Nat /\ Len(NewRows(m)) \in Nat
           /\ \A i \in DOMAIN StepRows(m) :
                 \/ OldRowOf(m, i, StepRows(m)[i][1], StepRows(m)[i][2])
                 \/ NewRowOf(m, i, StepRows(m)[i][1], StepRows(m)[i][2])
           /\ \A i, j \in DOMAIN StepRows(m) : StepRows(m)[i][1] = StepRows(m)[j][1] => i = j
           /\ \A r \in Admitted(m) : r \in Elems(waitingQ) /\ \E i \in DOMAIN StepRows(m) : StepRows(m)[i][1] = r
<1> DEFINE A == Client \X (1 .. Budget)
           O == OldRows(m)
           N == NewRows(m)
           S == StepRows(m)
<1>1. /\ Chosen(O, Elems(Kept(m)))
      /\ \A i \in DOMAIN O : Eligible(O[i][1]) /\ O[i][2] <= NumNew(O[i][1])
  <2>1. Kept(m) \in Seq(Client) /\ Distinct(Kept(m)) /\ req \in [Client -> RequestSet]
    BY StepQueues DEF RequestsInv
  <2> QED
    BY <2>1, RunningRows DEF OldRows
<1>2. /\ Chosen(N, Elems(waitingQ))
      /\ \A i \in DOMAIN N : MayResume(N[i][1]) /\ N[i][2] <= Len(AllTokenIds(N[i][1]))
  BY StepNewRows
<1>3. Elems(Kept(m)) \cap Elems(waitingQ) = {}
  BY StepQueues DEF QueueInv
<1>4. Admitted(m) = {N[i][1] : i \in DOMAIN N}
  BY DEF Admitted
<1>5. S = O \o N
  BY DEF StepRows
<1> HIDE DEF O, N, S
<1>6. O \in Seq(A) /\ N \in Seq(A)
  BY <1>1, <1>2 DEF Chosen
<1>7. /\ S \in Seq(A) /\ Len(S) = Len(O) + Len(N)
      /\ \A i \in 1 .. Len(O) : S[i] = O[i]
      /\ \A i \in 1 .. Len(N) : S[Len(O) + i] = N[i]
  BY <1>5, <1>6, ElemsConcat
<1>8. DOMAIN S = 1 .. Len(O) + Len(N) /\ DOMAIN O = 1 .. Len(O) /\ DOMAIN N = 1 .. Len(N)
      /\ Len(O) \in Nat /\ Len(N) \in Nat
  BY <1>6, <1>7
<1>9. ASSUME NEW i \in 1 .. Len(O) PROVE OldRowOf(m, i, S[i][1], S[i][2])
  <2>1. S[i] = O[i] /\ O[i][1] \in Elems(Kept(m)) /\ Eligible(O[i][1]) /\ O[i][2] <= NumNew(O[i][1])
    BY <1>1, <1>7, <1>8 DEF Chosen
  <2>2. O[i][1] \notin Admitted(m)
    BY <1>2, <1>3, <1>4, <2>1 DEF Chosen
  <2> QED
    BY <1>8, <2>1, <2>2 DEF OldRowOf, O
<1>10. ASSUME NEW i \in 1 .. Len(O) + Len(N), i > Len(O)
       PROVE  NewRowOf(m, i, S[i][1], S[i][2]) /\ i - Len(O) \in 1 .. Len(N) /\ S[i] = N[i - Len(O)]
  <2>1. i - Len(O) \in 1 .. Len(N) /\ Len(O) + (i - Len(O)) = i
    BY <1>8, <1>10
  <2>2. S[i] = N[i - Len(O)]
    BY <1>7, <2>1
  <2>3. /\ N[i - Len(O)][1] \in Elems(waitingQ) /\ N[i - Len(O)][1] \in Admitted(m)
        /\ MayResume(N[i - Len(O)][1]) /\ N[i - Len(O)][2] <= Len(AllTokenIds(N[i - Len(O)][1]))
    BY <1>2, <1>4, <1>8, <2>1 DEF Chosen
  <2> QED
    BY <1>10, <2>1, <2>2, <2>3 DEF NewRowOf, O
<1>11. ASSUME NEW i \in DOMAIN S
       PROVE  OldRowOf(m, i, S[i][1], S[i][2]) \/ NewRowOf(m, i, S[i][1], S[i][2])
  <2>1. CASE i <= Len(O)
    BY <1>8, <1>9, <2>1
  <2>2. CASE i > Len(O)
    BY <1>8, <1>10, <2>2
  <2> QED
    BY <1>8, <2>1, <2>2
<1>12. ASSUME NEW i \in DOMAIN S, NEW j \in DOMAIN S, S[i][1] = S[j][1] PROVE i = j
  <2>1. CASE i <= Len(O) /\ j <= Len(O)
    BY <1>1, <1>7, <1>8, <1>12, <2>1 DEF Chosen
  <2>2. CASE i > Len(O) /\ j > Len(O)
    <3>1. /\ i - Len(O) \in DOMAIN N /\ j - Len(O) \in DOMAIN N
          /\ N[i - Len(O)][1] = N[j - Len(O)][1]
      BY <1>8, <1>10, <1>12, <2>2
    <3>2. i - Len(O) = j - Len(O)
      BY <1>2, <3>1 DEF Chosen
    <3> QED
      BY <1>8, <3>2
  <2>3. CASE i <= Len(O) /\ j > Len(O)
    BY <1>8, <1>9, <1>10, <1>12, <2>3 DEF OldRowOf, NewRowOf
  <2>4. CASE i > Len(O) /\ j <= Len(O)
    BY <1>8, <1>9, <1>10, <1>12, <2>4 DEF OldRowOf, NewRowOf
  <2> QED
    BY <1>8, <2>1, <2>2, <2>3, <2>4
<1>13. ASSUME NEW r \in Admitted(m)
       PROVE  r \in Elems(waitingQ) /\ \E i \in DOMAIN S : S[i][1] = r
  <2>1. PICK i \in DOMAIN N : N[i][1] = r
    BY <1>4
  <2>2. Len(O) + i \in DOMAIN S /\ S[Len(O) + i] = N[i]
    BY SMTT(40), <1>7, <1>8, <2>1
  <2> QED
    BY <1>2, <2>1, <2>2 DEF Chosen
<1> QED
  BY <1>7, <1>8, <1>11, <1>12, <1>13 DEF O, N, S

\* The message of a step has a row for every request it schedules.
RunningRowOf(m, r, y) ==
    /\ r \notin Admitted(m) /\ r \in Elems(Kept(m)) /\ Eligible(r)
    /\ y.inc = req[r].inc /\ y.base = req[r].base /\ y.q <= NumNew(r)
AdmittedRowOf(m, r, y) ==
    /\ r \in Admitted(m) /\ r \in Elems(waitingQ) /\ MayResume(r)
    /\ y.inc = req[r].inc + 1 /\ y.base = AllTokenIds(r) /\ y.q <= Len(AllTokenIds(r))

LEMMA MessageRows ==
    ASSUME QueueInv, RequestsInv, NEW m \in 0 .. Len(runningQ)
    PROVE  /\ Message(m) \in MessageSet /\ RowsDistinct(Message(m))
           /\ Message(m).new <= Len(Message(m).rows)
           /\ \A r : Leaves(Message(m), r) <=> r \in finishedIds \cup preemptedIds \cup Elems(Lost(m))
           /\ \A r \in Client : Has(Message(m), r) <=> \E i \in DOMAIN StepRows(m) : StepRows(m)[i][1] = r
           /\ \A r \in Client : Has(Message(m), r) =>
                 /\ RowOf(Message(m), r).nc = req[r].nc
                 /\ NewIn(Message(m), r) => AdmittedRowOf(m, r, RowOf(Message(m), r))
                 /\ ~NewIn(Message(m), r) => RunningRowOf(m, r, RowOf(Message(m), r))
                 /\ RowOf(Message(m), r).q =
                       StepRows(m)[CHOOSE i \in DOMAIN StepRows(m) : StepRows(m)[i][1] = r][2]
<1> DEFINE msg == Message(m)
           S == StepRows(m)
           rows == [i \in DOMAIN S |-> Row(S[i][1], S[i][2], S[i][1] \in Admitted(m))]
<1>1. /\ S \in Seq(Client \X (1 .. Budget))
      /\ Len(S) = Len(OldRows(m)) + Len(NewRows(m))
      /\ Len(OldRows(m)) \in Nat /\ Len(NewRows(m)) \in Nat
      /\ \A i \in DOMAIN S : OldRowOf(m, i, S[i][1], S[i][2]) \/ NewRowOf(m, i, S[i][1], S[i][2])
      /\ \A i, j \in DOMAIN S : S[i][1] = S[j][1] => i = j
      /\ \A r \in Admitted(m) : r \in Elems(waitingQ) /\ \E i \in DOMAIN S : S[i][1] = r
  BY StepChosen
<1>2. /\ msg = [rows |-> rows, new |-> Len(NewRows(m)), fin |-> finishedIds,
                pre |-> preemptedIds \cup Elems(Lost(m))]
  BY DEF Message
<1> HIDE DEF msg, S
<1>3. DOMAIN S = 1 .. Len(S) /\ \A i \in DOMAIN S : S[i][1] \in Client /\ S[i][2] \in 1 .. Budget
  BY <1>1
<1>4. req \in [Client -> RequestSet]
  BY DEF RequestsInv
<1>5. ASSUME NEW r \in Client, NEW n \in 1 .. Budget
      PROVE  LET y == Row(r, n, r \in Admitted(m))
             IN  /\ y \in RowSet /\ y.r = r /\ y.q = n /\ y.nc = req[r].nc
                 /\ y.base = (IF r \in Admitted(m) THEN AllTokenIds(r) ELSE req[r].base)
                 /\ y.inc = (IF r \in Admitted(m) THEN req[r].inc + 1 ELSE req[r].inc)
  <2>1. req[r].nc \in Nat /\ req[r].base \in Text /\ req[r].inc \in Nat
    BY <1>4 DEF RequestSet
  <2>2. AllTokenIds(r) \in Text
    BY <1>4, AllTokens
  <2>3. CASE r \in Admitted(m)
    BY <2>1, <2>2, <2>3 DEF Row, RowSet
  <2>4. CASE r \notin Admitted(m)
    BY <2>1, <2>2, <2>4 DEF Row, RowSet
  <2> QED
    BY <2>3, <2>4
<1>6. \A i \in DOMAIN S : rows[i] \in RowSet /\ rows[i].r = S[i][1] /\ rows[i].q = S[i][2]
  <2> TAKE i \in DOMAIN S
  <2>1. rows[i] = Row(S[i][1], S[i][2], S[i][1] \in Admitted(m))
    OBVIOUS
  <2> HIDE DEF rows
  <2> QED
    BY <1>3, <1>5, <2>1
<1>7. rows \in Seq(RowSet) /\ Len(rows) = Len(S) /\ DOMAIN rows = DOMAIN S
  <2>1. Len(S) \in Nat
    BY <1>1
  <2>2. rows \in [1 .. Len(S) -> RowSet]
    BY <1>3, <1>6
  <2>3. rows \in Seq(RowSet)
    BY <2>1, <2>2
  <2> HIDE DEF rows
  <2> QED
    BY <1>3, <2>1, <2>2, <2>3
<1>8. Elems(Lost(m)) \subseteq Client /\ finishedIds \subseteq Client /\ preemptedIds \subseteq Client
  <2>1. Lost(m) \in Seq(Client)
    BY StepQueues
  <2> QED
    BY <2>1, ElemsOf DEF QueueInv
<1>9. /\ msg \in MessageSet /\ msg.rows = rows /\ msg.new = Len(NewRows(m))
      /\ \A r : Leaves(msg, r) <=> r \in finishedIds \cup preemptedIds \cup Elems(Lost(m))
  <2> HIDE DEF rows
  <2> QED
    BY <1>1, <1>2, <1>7, <1>8 DEF MessageSet, Leaves
<1>10. msg.new <= Len(msg.rows)
  BY <1>1, <1>7, <1>9
<1>11. RowsDistinct(msg)
  BY <1>1, <1>6, <1>7, <1>9 DEF RowsDistinct
<1>12. \A r \in Client : Has(msg, r) <=> \E i \in DOMAIN S : S[i][1] = r
  BY <1>6, <1>7, <1>9 DEF Has
<1>13. ASSUME NEW r \in Client, Has(msg, r)
       PROVE  /\ RowOf(msg, r).nc = req[r].nc
              /\ NewIn(msg, r) => AdmittedRowOf(m, r, RowOf(msg, r))
              /\ ~NewIn(msg, r) => RunningRowOf(m, r, RowOf(msg, r))
              /\ RowOf(msg, r).q = S[CHOOSE i \in DOMAIN S : S[i][1] = r][2]
  <2> DEFINE k == CHOOSE i \in DOMAIN S : S[i][1] = r
  <2>1. k \in DOMAIN S /\ S[k][1] = r
    BY <1>12, <1>13
  <2> HIDE DEF k
  <2>2. RowOf(msg, r) = rows[k]
    <3>1. k \in DOMAIN msg.rows /\ msg.rows[k].r = r /\ msg.rows[k] = rows[k]
      BY <1>6, <1>7, <1>9, <2>1
    <3> QED
      BY <1>9, <1>11, <3>1, RowIs
  <2>3. rows[k] = Row(r, S[k][2], r \in Admitted(m)) /\ S[k][2] \in 1 .. Budget
    BY <1>3, <2>1
  <2> HIDE DEF rows
  <2>4. NewIn(msg, r) <=> k > Len(OldRows(m))
    <3>1. Len(msg.rows) - msg.new = Len(OldRows(m)) /\ DOMAIN msg.rows = DOMAIN S
      BY <1>1, <1>7, <1>9
    <3>2. \A j \in DOMAIN S : msg.rows[j].r = r <=> j = k
      BY <1>1, <1>6, <1>9, <2>1
    <3> QED
      BY <2>1, <3>1, <3>2 DEF NewIn
  <2>5. RowOf(msg, r).nc = req[r].nc /\ RowOf(msg, r).q = S[k][2]
    BY <1>5, <2>2, <2>3
  <2>6. OldRowOf(m, k, r, S[k][2]) \/ NewRowOf(m, k, r, S[k][2])
    BY <1>1, <2>1
  <2>7. ASSUME NewIn(msg, r) PROVE AdmittedRowOf(m, r, RowOf(msg, r))
    <3>1. NewRowOf(m, k, r, S[k][2])
      BY <1>1, <1>3, <2>1, <2>4, <2>6, <2>7 DEF OldRowOf
    <3>2. r \in Admitted(m)
      BY <3>1 DEF NewRowOf
    <3>3. RowOf(msg, r).base = AllTokenIds(r) /\ RowOf(msg, r).inc = req[r].inc + 1
      BY <1>5, <2>2, <2>3, <3>2
    <3> QED
      BY <2>5, <3>1, <3>3 DEF NewRowOf, AdmittedRowOf
  <2>8. ASSUME ~NewIn(msg, r) PROVE RunningRowOf(m, r, RowOf(msg, r))
    <3>1. OldRowOf(m, k, r, S[k][2])
      BY <1>1, <1>3, <2>1, <2>4, <2>6, <2>8 DEF NewRowOf
    <3>2. r \notin Admitted(m)
      BY <3>1 DEF OldRowOf
    <3>3. RowOf(msg, r).base = req[r].base /\ RowOf(msg, r).inc = req[r].inc
      BY <1>5, <2>2, <2>3, <3>2
    <3> QED
      BY <2>5, <3>1, <3>3 DEF OldRowOf, RunningRowOf
  <2> QED
    BY <2>5, <2>7, <2>8 DEF k
<1> QED
  BY <1>9, <1>10, <1>11, <1>12, <1>13 DEF msg, S

\* The queues after a step.
StepRunning(m) == Kept(m) \o [i \in DOMAIN NewRows(m) |-> NewRows(m)[i][1]]
StepWaiting(m) == Lost(m) \o Without(waitingQ, Admitted(m))

LEMMA StepQueuesAfter ==
    ASSUME QueueInv, RequestsInv, NEW m \in 0 .. Len(runningQ)
    PROVE  /\ StepRunning(m) \in Seq(Client) /\ StepWaiting(m) \in Seq(Client)
           /\ Distinct(StepRunning(m)) /\ Distinct(StepWaiting(m))
           /\ Elems(StepRunning(m)) = Elems(Kept(m)) \cup Admitted(m)
           /\ Elems(StepWaiting(m)) = Elems(Lost(m)) \cup (Elems(waitingQ) \ Admitted(m))
           /\ Len(StepRunning(m)) <= Slots
<1> DEFINE N == NewRows(m)
           t == [i \in DOMAIN N |-> N[i][1]]
           K == Kept(m)
           L == Lost(m)
           W == Without(waitingQ, Admitted(m))
<1>1. /\ K \in Seq(Client) /\ L \in Seq(Client) /\ Distinct(K) /\ Distinct(L)
      /\ Elems(K) \cup Elems(L) = Elems(runningQ)
  BY StepQueues
<1>2. Chosen(N, Elems(waitingQ)) /\ Len(N) + Len(K) <= Slots
  BY StepNewRows
<1>3. Admitted(m) = {N[i][1] : i \in DOMAIN N}
  BY DEF Admitted
<1> HIDE DEF N, K, L
<1>4. t \in Seq(Client) /\ Len(t) = Len(N) /\ Elems(t) = Admitted(m) /\ Distinct(t)
  <2>1. N \in Seq(Client \X (1 .. Budget))
    BY <1>2 DEF Chosen
  <2>2. DOMAIN N = 1 .. Len(N) /\ Len(N) \in Nat /\ \A i \in DOMAIN N : N[i][1] \in Client
    BY <2>1
  <2>3. t \in [1 .. Len(N) -> Client]
    BY <2>2
  <2>4. t \in Seq(Client)
    BY <2>2, <2>3
  <2>5. Len(t) = Len(N) /\ DOMAIN t = DOMAIN N
    BY <2>2, <2>4
  <2>6. Elems(t) = Admitted(m)
    BY <1>3, <2>5 DEF Elems
  <2>7. Distinct(t)
    BY <1>2, <2>5 DEF Distinct, Chosen
  <2> QED
    BY <2>4, <2>5, <2>6, <2>7
<1>5. Admitted(m) \subseteq Elems(waitingQ)
  BY <1>2, <1>3 DEF Chosen
<1>6. /\ waitingQ \in Seq(Client) /\ Distinct(waitingQ)
      /\ Elems(runningQ) \cap Elems(waitingQ) = {}
  BY DEF QueueInv
<1>7. W \in Seq(Client) /\ Elems(W) = Elems(waitingQ) \ Admitted(m) /\ Distinct(W)
  BY <1>6, WithoutElems
<1> HIDE DEF t, W
<1>8. /\ K \o t \in Seq(Client) /\ Len(K \o t) = Len(K) + Len(t)
      /\ Elems(K \o t) = Elems(K) \cup Elems(t)
  <2>1. K \in Seq(Client) /\ t \in Seq(Client)
    BY <1>1, <1>4
  <2> QED
    BY SMTT(40), <2>1, ElemsConcat
<1>9. Distinct(K \o t)
  BY <1>1, <1>4, <1>5, <1>6, DistinctConcat
<1>10. /\ L \o W \in Seq(Client)
       /\ Elems(L \o W) = Elems(L) \cup Elems(W)
  BY <1>1, <1>7, ElemsConcat
<1>11. Distinct(L \o W)
  BY <1>1, <1>6, <1>7, DistinctConcat
<1>12. Len(K \o t) <= Slots
  <2>1. Len(K) \in Nat /\ Len(N) \in Nat /\ Slots \in Nat
    BY <1>1, <1>2, RingConstants DEF Chosen
  <2> QED
    BY <1>2, <1>4, <1>8, <2>1
<1>13. StepRunning(m) = K \o t /\ StepWaiting(m) = L \o W
  BY DEF StepRunning, StepWaiting, K, L, t, W, N
<1> QED
  BY <1>4, <1>7, <1>8, <1>9, <1>10, <1>11, <1>12, <1>13 DEF K, L

\* A request in the message runs afterwards.
LEMMA ScheduledRun ==
    ASSUME QueueInv, RequestsInv, NEW m \in 0 .. Len(runningQ), NEW r \in Client
    PROVE  /\ Has(Message(m), r) => r \in Elems(Kept(m)) \cup Admitted(m)
           /\ r \in Admitted(m) => Has(Message(m), r) /\ r \in Elems(waitingQ) /\ ~Running(r)
           /\ r \in Elems(Kept(m)) => Running(r) /\ r \notin Elems(Lost(m)) /\ ~Leaves(Message(m), r)
           /\ r \in Elems(Lost(m)) => Running(r) /\ ~Has(Message(m), r)
           /\ Running(r) => r \in Elems(Kept(m)) \cup Elems(Lost(m))
           /\ r \in Held(issued, Len(issued)) => r \in Elems(Kept(m)) \/ Leaves(Message(m), r)
<1>1. /\ Elems(Kept(m)) \cup Elems(Lost(m)) = Elems(runningQ)
      /\ Elems(Kept(m)) \cap Elems(Lost(m)) = {}
  BY StepQueues
<1>2. /\ Elems(runningQ) \cap Elems(waitingQ) = {}
      /\ \A q \in finishedIds : req[q].done
      /\ \A q \in preemptedIds : ~Running(q)
      /\ \A q \in Elems(runningQ) : ~req[q].done
      /\ r \in Held(issued, Len(issued)) => Running(r) \/ r \in finishedIds \cup preemptedIds
  BY DEF QueueInv
<1>3. /\ \A q : Leaves(Message(m), q) <=> q \in finishedIds \cup preemptedIds \cup Elems(Lost(m))
      /\ Has(Message(m), r) <=> \E i \in DOMAIN StepRows(m) : StepRows(m)[i][1] = r
      /\ Has(Message(m), r) => /\ NewIn(Message(m), r) => AdmittedRowOf(m, r, RowOf(Message(m), r))
                               /\ ~NewIn(Message(m), r) => RunningRowOf(m, r, RowOf(Message(m), r))
  BY MessageRows
<1>4. Has(Message(m), r) => r \in Elems(Kept(m)) \cup Admitted(m)
  BY <1>3 DEF AdmittedRowOf, RunningRowOf
<1>5. r \in Admitted(m) => Has(Message(m), r) /\ r \in Elems(waitingQ)
  BY <1>3, StepChosen
<1> QED
  BY <1>1, <1>2, <1>3, <1>4, <1>5 DEF Running

\* Its message continues the history.
LEMMA ScheduledMessage ==
    ASSUME SchedInv, NEW m \in 0 .. Len(runningQ)
    PROVE  Message(m) \in MessageSet /\ History(Append(issued, Message(m)))
<1> DEFINE msg == Message(m)
           ns == Append(issued, msg)
           M == Len(issued)
<1>0. QueueInv /\ RequestsInv /\ History(issued) /\ Processed \in 0 .. M
  BY DEF SchedInv, Processing
<1>1. /\ msg \in MessageSet /\ RowsDistinct(msg) /\ msg.new <= Len(msg.rows)
      /\ \A r \in Client : Has(msg, r) =>
            /\ RowOf(msg, r).nc = req[r].nc
            /\ NewIn(msg, r) => AdmittedRowOf(m, r, RowOf(msg, r))
            /\ ~NewIn(msg, r) => RunningRowOf(m, r, RowOf(msg, r))
  BY <1>0, MessageRows
<1> HIDE DEF msg
<1>2. /\ M \in Nat /\ ns[M + 1] = msg /\ \A c \in 1 .. M : ns[c] = issued[c]
      /\ (M + 1) - 1 = M
  <2>1. issued \in Seq(MessageSet) /\ M \in Nat
    BY <1>0 DEF History
  <2> QED
    BY <1>1, <2>1, ElemsAppend
<1> HIDE DEF ns
<1>3. SamePrefix(issued, ns, M)
  BY <1>2 DEF SamePrefix
<1>4. /\ \A r, a : Last(ns, r, a, M) <=> Last(issued, r, a, M)
      /\ Held(ns, M) = Held(issued, M)
  BY <1>2, <1>3, PrefixLast
<1>5. ASSUME NEW r \in Client
      PROVE  /\ RequestOK(req[r], r, Running(r), issued, Processed)
             /\ req[r].inc \in Nat /\ req[r].nc \in Nat /\ req[r].wait \in Nat
  BY <1>0 DEF RequestsInv, RequestSet
<1>6. ASSUME NEW r \in Client, Has(msg, r), NewIn(msg, r) PROVE NewRowOK(ns, M + 1, r)
  <2> DEFINE y == RowOf(msg, r)
  <2>1. AdmittedRowOf(m, r, y) /\ y.nc = req[r].nc
    BY <1>1, <1>6
  <2>2. req[r].nc = 0
    BY <1>0, <2>1 DEF AdmittedRowOf, QueueInv
  <2>3. y.q <= Len(y.base) /\ y.inc = req[r].inc + 1 /\ y.nc = 0
    BY <2>1, <2>2 DEF AdmittedRowOf
  <2>4. ASSUME NEW a \in 1 .. M, Last(ns, r, a, M) PROVE Leaves(msg, r)
    <3>1. r \in Held(issued, M)
      BY <1>4, <2>4 DEF Held
    <3>2. ~Running(r)
      BY <1>0, <2>1, ScheduledRun DEF AdmittedRowOf
    <3> QED
      BY <1>0, <3>1, <3>2, ScheduledRun DEF msg
  <2>5. ASSUME NEW a \in 1 .. M, Has(ns[a], r) PROVE RowOf(ns[a], r).inc < y.inc
    <3>1. RowOf(ns[a], r).inc <= req[r].inc
      BY <1>2, <1>5, <2>5 DEF RequestOK
    <3>2. RowOf(ns[a], r).inc \in Nat
      BY <1>0, <1>2, <2>5, HistoryRow
    <3> QED
      BY <1>5, <2>3, <3>1, <3>2
  <2> QED
    BY <1>2, <2>3, <2>4, <2>5 DEF NewRowOK
<1>7. ASSUME NEW r \in Client, Has(msg, r), ~NewIn(msg, r)
      PROVE  \E a \in 1 .. M : /\ MayFollow(req[r], r, issued, Processed, a, RowOf(msg, r))
                               /\ RowOf(msg, r).inc = req[r].inc /\ RowOf(msg, r).base = req[r].base
                               /\ RowOf(msg, r).nc = req[r].nc
                               /\ Eligible(r) /\ ~Leaves(msg, r)
  <2> DEFINE y == RowOf(msg, r)
  <2>1. RunningRowOf(m, r, y) /\ y.nc = req[r].nc
    BY <1>1, <1>7
  <2>2. y.inc = req[r].inc /\ y.base = req[r].base /\ y.q <= NumNew(r) /\ Eligible(r) /\ r \in Elems(Kept(m))
    BY <2>1 DEF RunningRowOf
  <2>3. NumNew(r) = Total(req[r], r) - req[r].nc
    BY <1>0, AllTokens DEF RequestsInv
  <2>4. y \in RowSet
    BY <1>1, <1>7, RowFacts
  <2>5. Running(r) /\ ~Leaves(msg, r)
    BY <1>0, <2>2, ScheduledRun DEF msg
  <2> HIDE DEF y
  <2>6. RequestOK(req[r], r, TRUE, issued, Processed)
    BY <1>5, <2>5
  <2>7. \E a \in 1 .. M : MayFollow(req[r], r, issued, Processed, a, y)
    BY <1>0, <2>1, <2>2, <2>3, <2>4, <2>6, RunningRow
  <2> QED
    BY <2>1, <2>2, <2>5, <2>7 DEF y
<1>8. ASSUME NEW r \in Client, Has(msg, r), ~NewIn(msg, r) PROVE OldRowOK(ns, M + 1, r)
  <2>1. PICK a \in 1 .. M : MayFollow(req[r], r, issued, Processed, a, RowOf(msg, r)) /\ Eligible(r) /\ ~Leaves(msg, r)
    BY <1>7, <1>8
  <2>2. /\ Last(issued, r, a, M) /\ Continues(RowOf(issued[a], r), RowOf(msg, r))
        /\ Samples(RowOf(issued[a], r)) => req[r].wait >= Stages - (M - a)
    BY <2>1 DEF MayFollow, FollowsRow
  <2>3. Samples(RowOf(issued[a], r)) => a + Stages <= M + 1
    BY SMTT(40), <1>2, <1>5, <2>1, <2>2, RingConstants DEF Eligible
  <2> QED
    BY <1>2, <1>4, <2>1, <2>2, <2>3 DEF OldRowOK
<1>9. ASSUME NEW r \in Client, Has(msg, r), NEW a \in 1 .. M, Has(ns[a], r)
      PROVE  Ordered(ns, r, a, M + 1)
  <2> DEFINE y == RowOf(msg, r)
             x == RowOf(issued[a], r)
  <2>1. Has(issued[a], r) /\ RowOf(ns[a], r) = x /\ RowOf(ns[M + 1], r) = y
    BY <1>2, <1>9
  <2>2. x.inc <= req[r].inc /\ x.inc \in Nat
    BY <1>0, <1>5, <2>1, HistoryRow DEF RequestOK
  <2>3. CASE NewIn(msg, r)
    <3>1. y.inc = req[r].inc + 1
      BY <1>1, <1>9, <2>3 DEF AdmittedRowOf
    <3> QED
      BY <1>5, <2>1, <2>2, <3>1 DEF Ordered
  <2>4. CASE ~NewIn(msg, r)
    <3>1. PICK c \in 1 .. M : /\ MayFollow(req[r], r, issued, Processed, c, y)
                              /\ y.inc = req[r].inc
      BY <1>7, <1>9, <2>4
    <3> DEFINE z == RowOf(issued[c], r)
    <3>2. /\ Last(issued, r, c, M) /\ Has(issued[c], r) /\ z \in RowSet
          /\ Continues(z, y)
      BY <3>1 DEF MayFollow
    <3>3. y.inc = z.inc /\ y.base = z.base /\ y.nc = End(z)
      BY <3>2 DEF Continues
    <3>4. y \in RowSet
      BY <1>1, <1>9, RowFacts
    <3>5. End(z) \in Nat /\ End(y) \in Nat /\ End(z) < End(y)
      BY <3>2, <3>3, <3>4, RowNumbers
    <3>6. CASE a = c
      BY <2>1, <2>2, <3>1, <3>3, <3>5, <3>6 DEF Ordered
    <3>7. CASE a # c
      <4>1. a < c
        BY <1>2, <2>1, <3>2, <3>7 DEF Last
      <4>2. a \in 1 .. c - 1
        BY <1>2, <4>1
      <4>3. Ordered(issued, r, a, c)
        BY <1>0, <2>1, <3>2, <4>2, InOrder
      <4>4. x.inc = z.inc => x.base = z.base /\ End(x) < End(z)
        BY <4>3 DEF Ordered
      <4>5. End(x) \in Nat
        BY <1>0, <2>1, HistoryRow
      <4>6. x.inc <= y.inc
        BY <2>2, <3>1
      <4> HIDE DEF x, y, z
      <4>7. x.inc = y.inc => x.base = y.base /\ End(x) < End(y)
        BY <3>3, <3>5, <4>4, <4>5
      <4> QED
        BY <2>1, <4>6, <4>7 DEF Ordered
    <3> QED
      BY <3>6, <3>7
  <2> QED
    BY <2>3, <2>4
<1>10. Cardinality(Held(ns, M + 1)) <= Slots
  <2>1. /\ StepRunning(m) \in Seq(Client) /\ Len(StepRunning(m)) <= Slots
        /\ Elems(StepRunning(m)) = Elems(Kept(m)) \cup Admitted(m)
    BY <1>0, StepQueuesAfter
  <2>2. ASSUME NEW r \in Held(ns, M + 1) PROVE r \in Elems(StepRunning(m))
    <3>1. r \in Client
      BY <2>2 DEF Held
    <3>2. Has(msg, r) \/ (r \in Held(issued, M) /\ ~Leaves(msg, r))
      BY <1>2, <1>4, <2>2, <3>1, HeldNext
    <3> QED
      BY <1>0, <2>1, <3>1, <3>2, ScheduledRun DEF msg
  <2>3. /\ IsFiniteSet(Elems(StepRunning(m))) /\ Cardinality(Elems(StepRunning(m))) <= Len(StepRunning(m))
    BY <2>1, FewElems
  <2>4. Held(ns, M + 1) \in SUBSET Elems(StepRunning(m))
    BY <2>2
  <2>5. /\ IsFiniteSet(Held(ns, M + 1))
        /\ Cardinality(Held(ns, M + 1)) <= Cardinality(Elems(StepRunning(m)))
    BY <2>3, <2>4, FS_Subset
  <2>6. /\ Cardinality(Held(ns, M + 1)) \in Nat /\ Cardinality(Elems(StepRunning(m))) \in Nat
        /\ Len(StepRunning(m)) \in Nat /\ Slots \in Nat
    BY <2>1, <2>3, <2>5, FS_CardinalityType, RingConstants
  <2> QED
    BY <2>1, <2>3, <2>5, <2>6
<1>11. MessageOK(ns, M + 1)
  BY <1>1, <1>2, <1>6, <1>8, <1>9, <1>10 DEF MessageOK
<1>12. History(ns)
  BY <1>0, <1>1, <1>11, HistoryAppend DEF ns
<1> QED
  BY <1>1, <1>12 DEF msg, ns

\* What it does to a request.

LEMMA ScheduledRequest ==
    ASSUME SchedInv, NEW m \in 0 .. Len(runningQ), NEW r \in Client
    PROVE  /\ AfterStep(m, r) \in RequestSet
           /\ RequestOK(AfterStep(m, r), r, r \in Elems(StepRunning(m)), Append(issued, Message(m)), Processed)
           /\ AfterStep(m, r).done = req[r].done
           /\ r \in Elems(Lost(m)) => AfterStep(m, r).nc = 0 /\ AfterStep(m, r).ph = 0
           /\ r \notin Elems(Lost(m)) /\ ~Has(Message(m), r) =>
                 AfterStep(m, r).nc = req[r].nc /\ AfterStep(m, r).ph = req[r].ph
<1> DEFINE msg == Message(m)
           ns == Append(issued, msg)
           q == req[r]
           z == AfterStep(m, r)
           y == RowOf(msg, r)
           sched == \E i \in DOMAIN StepRows(m) : StepRows(m)[i][1] = r
           n == StepRows(m)[CHOOSE i \in DOMAIN StepRows(m) : StepRows(m)[i][1] = r][2]
<1>0. QueueInv /\ RequestsInv /\ History(issued) /\ Processed \in 0 .. Len(issued)
  BY DEF SchedInv, Processing
<1>1. /\ msg \in MessageSet
      /\ Has(msg, r) <=> sched
      /\ Has(msg, r) => /\ y.nc = q.nc /\ y.q = n
                        /\ NewIn(msg, r) => AdmittedRowOf(m, r, y)
                        /\ ~NewIn(msg, r) => RunningRowOf(m, r, y)
  BY <1>0, MessageRows
<1>2. History(ns)
  BY ScheduledMessage
<1>3. z = LET t == IF r \in Admitted(m) THEN Resume(Tick(q), r) ELSE Tick(q)
          IN  IF sched THEN AfterSchedule(t, r, n)
              ELSE IF r \in Elems(Lost(m)) THEN Preempted(t, FALSE) ELSE t
  BY DEF AfterStep
<1>4. /\ RequestOK(q, r, Running(r), issued, Processed) /\ q \in RequestSet
      /\ AllTokenIds(r) \in Text /\ Len(AllTokenIds(r)) = PromptLen[r] + Len(q.out)
      /\ NumNew(r) = Total(q, r) - q.nc
  BY <1>0, AllTokens DEF RequestsInv
<1>5. /\ q.nc \in Nat /\ q.ph \in Int /\ q.flight \in Nat /\ q.stale \in Nat /\ q.drop \in BOOLEAN
      /\ q.wait \in Nat /\ q.inc \in Nat /\ q.base \in Text /\ q.out \in Text /\ q.done \in BOOLEAN
  BY <1>4 DEF RequestSet
<1>6. Elems(StepRunning(m)) = Elems(Kept(m)) \cup Admitted(m)
  BY <1>0, StepQueuesAfter
<1>7. /\ Has(msg, r) => r \in Elems(Kept(m)) \cup Admitted(m)
      /\ r \in Admitted(m) => Has(msg, r) /\ r \in Elems(waitingQ) /\ ~Running(r)
      /\ r \in Elems(Kept(m)) => Running(r) /\ r \notin Elems(Lost(m)) /\ ~Leaves(msg, r)
      /\ r \in Elems(Lost(m)) => Running(r) /\ ~Has(msg, r)
      /\ Running(r) => r \in Elems(Kept(m)) \cup Elems(Lost(m))
  BY <1>0, ScheduledRun
<1>8. Has(msg, r) => y \in RowSet /\ y.q \in Nat \ {0}
  BY <1>1, RowFacts, RowNumbers
<1>9. /\ Tick(q) \in RequestSet /\ Alike(q, Tick(q)) /\ Tick(q).wait = Greater(0, q.wait - 1)
      /\ Tick(q).wait \in Nat /\ Tick(q).wait >= q.wait - 1
  <2>1. Greater(0, q.wait - 1) \in Nat /\ Greater(0, q.wait - 1) >= q.wait - 1
    BY <1>5 DEF Greater
  <2>2. Tick(q) \in RequestSet /\ Alike(q, Tick(q)) /\ Tick(q).wait = Greater(0, q.wait - 1)
    BY <1>4, <2>1 DEF Tick, RequestSet, Alike
  <2> QED
    BY <2>1, <2>2
<1> DEFINE tk == Tick(q)
           run == r \in Elems(StepRunning(m))
<1> HIDE DEF tk, n, sched, y, ns, msg
<1>10. \A s \in BOOLEAN : s = TRUE \/ s = FALSE
  OBVIOUS
<1>11. CASE Has(msg, r) /\ ~NewIn(msg, r)
  <2>1. r \notin Admitted(m) /\ r \in Elems(Kept(m)) /\ y.inc = q.inc /\ y.base = q.base
        /\ y.q <= Total(q, r) - q.nc /\ y.nc = q.nc /\ y.q = n
    BY <1>1, <1>4, <1>11 DEF RunningRowOf
  <2>2. z = AfterSchedule(tk, r, y.q)
    BY <1>1, <1>3, <1>11, <2>1 DEF tk
  <2>3. PromptLen[r] + Len(tk.out) + tk.ph = Total(q, r)
    BY <1>9 DEF tk, Alike, Total
  <2>4. LET chunk == tk.nc + y.q < Total(q, r)
        IN  z = [tk EXCEPT !.nc = tk.nc + y.q, !.flight = @ + y.q,
                           !.ph = IF chunk THEN @ ELSE @ + 1, !.wait = IF chunk THEN @ ELSE Stages]
    BY <2>2, <2>3 DEF AfterSchedule
  <2>5. tk \in RequestSet /\ Alike(q, tk)
    BY <1>9 DEF tk
  <2>6. Stages \in Nat
    BY RingConstants
  <2> HIDE DEF z
  <2>7. /\ z \in RequestSet /\ z.nc = q.nc + y.q /\ z.flight = q.flight + y.q
        /\ z.stale = q.stale /\ z.drop = q.drop /\ z.inc = q.inc /\ z.base = q.base
        /\ z.out = q.out /\ z.done = q.done
        /\ z.ph = (IF z.nc < Total(q, r) THEN q.ph ELSE q.ph + 1)
        /\ z.nc < Total(q, r) \/ z.wait = Stages
    <3> DEFINE c == tk.nc + y.q < Total(q, r)
               h == IF c THEN tk.ph ELSE tk.ph + 1
               w == IF c THEN tk.wait ELSE Stages
    <3>1. /\ tk.nc = q.nc /\ tk.flight = q.flight /\ tk.ph = q.ph /\ tk.stale = q.stale /\ tk.drop = q.drop
          /\ tk.inc = q.inc /\ tk.base = q.base /\ tk.out = q.out /\ tk.done = q.done /\ tk.wait \in Nat
      BY <1>9 DEF tk, Alike
    <3>2. z = [tk EXCEPT !.nc = tk.nc + y.q, !.flight = tk.flight + y.q, !.ph = h, !.wait = w]
      BY <2>4, <2>5 DEF RequestSet
    <3>3. tk.nc + y.q \in Nat /\ tk.flight + y.q \in Nat /\ h \in Int /\ w \in Nat
      <4>1. y.q \in Nat /\ tk.nc \in Nat /\ tk.flight \in Nat /\ tk.ph \in Int
        BY <1>5, <1>8, <1>11, <3>1
      <4> HIDE DEF c
      <4> QED
        BY SMTT(40), <2>6, <3>1, <4>1
    <3>4. h = (IF q.nc + y.q < Total(q, r) THEN q.ph ELSE q.ph + 1) /\ (q.nc + y.q < Total(q, r) \/ w = Stages)
      BY <3>1
    <3> HIDE DEF h, w
    <3> QED
      BY <2>5, <3>1, <3>2, <3>3, <3>4 DEF RequestSet
  <2>8. Running(r) /\ run /\ r \notin Elems(Lost(m))
    BY <1>6, <1>7, <2>1
  <2>9. RequestOK(q, r, TRUE, issued, Processed)
    BY <1>4, <2>8
  <2>10. RequestOK(z, r, TRUE, ns, Processed)
    BY <1>0, <1>1, <1>2, <1>11, <2>1, <2>7, <2>9, RequestContinues DEF y, ns
  <2> QED
    BY <1>11, <2>7, <2>8, <2>10 DEF z, ns, msg
<1>12. CASE Has(msg, r) /\ NewIn(msg, r)
  <2>1. /\ r \in Admitted(m) /\ r \in Elems(waitingQ) /\ MayResume(r)
        /\ y.inc = q.inc + 1 /\ y.base = AllTokenIds(r) /\ y.q <= Len(AllTokenIds(r)) /\ y.nc = q.nc /\ y.q = n
    BY <1>1, <1>12 DEF AdmittedRowOf
  <2>2. z = AfterSchedule(Resume(tk, r), r, y.q)
    BY <1>1, <1>3, <1>12, <2>1 DEF tk
  <2>3. q.nc = 0 /\ q.ph = 0 /\ ~q.done /\ (q.stale = 0 \/ q.drop) /\ ~Running(r)
    BY <1>0, <1>7, <2>1 DEF QueueInv, MayResume
  <2>4. tk \in RequestSet /\ Alike(q, tk) /\ tk.wait \in Nat /\ Stages \in Nat
    BY <1>9, RingConstants DEF tk
  <2> DEFINE B == AllTokenIds(r)
             c == y.q < Len(B)
             h == IF c THEN 0 ELSE 1
             w == IF c THEN tk.wait ELSE Stages
  <2>5. Resume(tk, r) = [tk EXCEPT !.base = B, !.inc = q.inc + 1]
    BY <2>4 DEF Resume, Alike, RequestSet
  <2> DEFINE s == Resume(tk, r)
  <2>6. /\ s \in RequestSet /\ s.base = B /\ s.inc = q.inc + 1 /\ s.nc = 0 /\ s.ph = 0 /\ s.flight = q.flight
        /\ s.stale = q.stale /\ s.drop = q.drop /\ s.out = q.out /\ s.done = q.done /\ s.wait = tk.wait
    <3>1. B \in Text /\ q.inc + 1 \in Nat
      BY <1>4, <1>5
    <3> QED
      BY <2>3, <2>4, <2>5, <3>1 DEF Alike, RequestSet
  <2>7. PromptLen[r] + Len(s.out) + s.ph = Len(B) /\ s.nc + y.q = y.q /\ Len(B) \in Nat
    <3>1. PromptLen[r] \in Nat /\ Len(q.out) \in Nat /\ y.q \in Nat
      BY <1>5, <1>8, <1>12, RingConstants DEF Text
    <3> QED
      BY <1>4, <2>6, <3>1
  <2> HIDE DEF s, B, z
  <2>8. z = [s EXCEPT !.nc = y.q, !.flight = @ + y.q, !.ph = IF c THEN @ ELSE @ + 1,
                      !.wait = IF c THEN @ ELSE Stages]
    BY <2>2, <2>7 DEF AfterSchedule, s
  <2>9. z = [s EXCEPT !.nc = y.q, !.flight = q.flight + y.q, !.ph = h, !.wait = w]
    BY <2>6, <2>8 DEF RequestSet
  <2>10. y.q \in Nat /\ q.flight + y.q \in Nat /\ h \in Int /\ w \in Nat /\ (c \/ w = Stages)
    BY SMTT(40), <1>5, <1>8, <1>12, <2>4
  <2>11. /\ z \in RequestSet /\ z.nc = y.q /\ z.flight = q.flight + y.q
         /\ z.stale = q.stale /\ z.drop = q.drop /\ z.inc = q.inc + 1 /\ z.base = B
         /\ z.out = q.out /\ z.done = q.done /\ z.ph = h /\ z.wait = w
    <3> HIDE DEF h, w, c
    <3> QED
      BY <2>6, <2>9, <2>10 DEF RequestSet
  <2>12. /\ z.ph = (IF z.nc < Len(y.base) THEN 0 ELSE 1) /\ (z.nc < Len(y.base) \/ z.wait = Stages)
         /\ z.base = y.base /\ y.nc = 0 /\ Len(y.base) = PromptLen[r] + Len(q.out) /\ y.q <= Len(y.base)
    BY <1>4, <2>1, <2>3, <2>10, <2>11 DEF B
  <2>13. RequestOK(q, r, FALSE, issued, Processed)
    <3> DEFINE R == Running(r)
    <3>1. R \in BOOLEAN /\ ~R
      BY <2>3 DEF Running
    <3>2. RequestOK(q, r, R, issued, Processed)
      BY <1>4
    <3> HIDE DEF R
    <3>3. R = FALSE
      BY <3>1
    <3> QED
      BY <3>2, <3>3
  <2>14. RequestOK(z, r, TRUE, ns, Processed)
    BY <1>0, <1>1, <1>2, <1>12, <2>1, <2>3, <2>11, <2>12, <2>13, RequestAdmitted DEF y, ns
  <2>15. run /\ r \notin Elems(Lost(m))
    BY <1>6, <1>7, <1>12, <2>1
  <2> QED
    BY <1>12, <2>11, <2>14, <2>15 DEF z, ns, msg
<1>13. CASE ~Has(msg, r) /\ r \in Elems(Lost(m))
  <2>1. r \notin Admitted(m) /\ r \notin Elems(Kept(m)) /\ Running(r) /\ ~run
    BY <1>6, <1>7, <1>13
  <2>2. z = Preempted(tk, FALSE)
    BY <1>1, <1>3, <1>13, <2>1 DEF tk
  <2>3. tk \in RequestSet /\ Alike(q, tk)
    BY <1>9 DEF tk
  <2> HIDE DEF z
  <2> DEFINE d == q.drop /\ q.stale > 0
  <2>4. z = [tk EXCEPT !.nc = 0, !.ph = 0, !.drop = d, !.stale = q.flight]
    BY <2>2, <2>3 DEF Preempted, Alike, RequestSet
  <2>5. d \in BOOLEAN /\ d = (q.drop /\ q.stale > 0)
    OBVIOUS
  <2> HIDE DEF d
  <2>6. /\ z \in RequestSet /\ z.nc = 0 /\ z.ph = 0 /\ z.drop = d /\ z.stale = q.flight
        /\ z.flight = q.flight /\ z.inc = q.inc /\ z.base = q.base /\ z.out = q.out /\ z.done = q.done
    <3>1. d \in BOOLEAN
      BY <2>5
    <3>2. /\ z \in RequestSet /\ z.nc = 0 /\ z.ph = 0 /\ z.drop = d /\ z.stale = q.flight
          /\ z.flight = tk.flight /\ z.inc = tk.inc /\ z.base = tk.base /\ z.out = tk.out /\ z.done = tk.done
      <4>1. tk \in RequestSet /\ q.flight \in Nat /\ 0 \in Nat /\ 0 \in Int
        BY <1>5, <2>3
      <4>2. /\ z.nc = 0 /\ z.ph = 0 /\ z.drop = d /\ z.stale = q.flight
            /\ z.flight = tk.flight /\ z.inc = tk.inc /\ z.base = tk.base /\ z.out = tk.out /\ z.done = tk.done
        BY <2>4, <4>1 DEF RequestSet
      <4>3. z \in RequestSet
        BY <2>4, <3>1, <4>1 DEF RequestSet
      <4> QED
        BY <4>2, <4>3
    <3> QED
      BY <2>3, <3>2 DEF Alike
  <2>7. RequestOK(q, r, TRUE, issued, Processed) /\ FALSE \in BOOLEAN
        /\ z.drop = (FALSE \/ (q.drop /\ q.stale > 0))
    BY <1>4, <2>1, <2>5, <2>6
  <2>8. RequestOK(z, r, FALSE, issued, Processed)
    BY <1>0, <2>6, <2>7, RequestPreempted
  <2>9. Alike(z, z)
    BY DEF Alike
  <2>10. RequestOK(z, r, FALSE, ns, Processed)
    BY <1>0, <1>1, <1>2, <1>13, <2>6, <2>7, <2>8, <2>9, RequestIdle DEF ns
  <2>11. run \in BOOLEAN /\ ~run
    BY <2>1
  <2>12. RequestOK(z, r, run, ns, Processed)
    <3> HIDE DEF run
    <3>1. run = FALSE
      BY <2>11
    <3> QED
      BY <2>10, <3>1
  <2> QED
    BY <1>13, <2>6, <2>12 DEF z, ns, msg
<1>14. CASE ~Has(msg, r) /\ r \notin Elems(Lost(m))
  <2>1. r \notin Admitted(m) /\ (run <=> Running(r)) /\ (run => ~Leaves(msg, r))
    BY <1>6, <1>7, <1>14
  <2>2. z = tk
    BY <1>1, <1>3, <1>14, <2>1 DEF tk
  <2>3. tk \in RequestSet /\ Alike(q, tk) /\ tk.wait >= q.wait - 1
    BY <1>9 DEF tk
  <2> DEFINE R == Running(r)
  <2>4. R \in BOOLEAN
    BY DEF Running
  <2> HIDE DEF R, z
  <2>5. RequestOK(q, r, R, issued, Processed) /\ (R => ~Leaves(msg, r))
    BY <1>4, <2>1 DEF R
  <2>6. RequestOK(z, r, R, ns, Processed)
    BY <1>0, <1>1, <1>2, <1>14, <2>2, <2>3, <2>4, <2>5, RequestIdle DEF ns
  <2>7. run = R
    BY <2>1, <2>4 DEF R
  <2>8. z \in RequestSet /\ z.done = q.done /\ z.nc = q.nc /\ z.ph = q.ph
    BY <2>2, <2>3 DEF Alike
  <2> QED
    BY <1>14, <2>6, <2>7, <2>8 DEF z, ns, msg
<1> QED
  BY <1>11, <1>12, <1>13, <1>14

-----------------------------------------------------------------------------
(***************************************************************************)
(* The scheduler's actions                                                 *)
(***************************************************************************)
LEMMA ProcessedNumbers ==
    ASSUME QueueSizes, History(issued)
    PROVE  /\ Len(issued) \in Nat /\ Len(batchQ) \in Nat /\ Processed \in 0 .. Len(issued)
           /\ Processed + Len(batchQ) = Len(issued)
BY DEF QueueSizes, History, Processed

LEMMA ScheduleStep ==
    ASSUME SchedInv, QueueSizes, Schedule
    PROVE  SchedInv'
<1>1. PICK m \in 0 .. Len(runningQ) :
         /\ req' = [r \in Client |-> AfterStep(m, r)]
         /\ runningQ' = StepRunning(m)
         /\ waitingQ' = StepWaiting(m)
         /\ batchQ' = Append(batchQ, Message(m))
         /\ issued' = Append(issued, Message(m))
  BY DEF Schedule, StepRunning, StepWaiting
<1>2. finishedIds' = {} /\ preemptedIds' = {}
  BY DEF Schedule
<1>0. QueueInv /\ RequestsInv /\ History(issued)
  BY DEF SchedInv
<1> DEFINE msg == Message(m)
           M == Len(issued)
<1>3. msg \in MessageSet /\ History(Append(issued, msg))
  BY ScheduledMessage
<1>4. History(issued')
  BY <1>1, <1>3
<1> HIDE DEF msg
<1>5. /\ Len(issued') = M + 1 /\ M \in Nat /\ issued'[M + 1] = msg
      /\ \A c \in 1 .. M : issued'[c] = issued[c]
  <2>1. issued \in Seq(MessageSet)
    BY <1>0 DEF History
  <2>2. issued' = Append(issued, msg)
    BY <1>1 DEF msg
  <2> QED
    BY <1>3, <2>1, <2>2, ElemsAppend
<1>6. Processed' = Processed /\ Processed \in 0 .. Len(issued')
  <2>1. Len(batchQ') = Len(batchQ) + 1
    BY <1>1, <1>3, ElemsAppend DEF QueueSizes, msg
  <2>2. /\ Len(batchQ) \in Nat /\ Processed \in 0 .. M
    BY <1>0, ProcessedNumbers
  <2> QED
    BY <1>5, <2>1, <2>2 DEF Processed
<1>7. Processing'
  BY <1>6 DEF Processing
<1>8. ASSUME NEW r \in Client
      PROVE  /\ req'[r] = AfterStep(m, r) /\ req'[r] \in RequestSet
             /\ RequestOK(req'[r], r, r \in Elems(runningQ'), issued', Processed')
             /\ req'[r].done = req[r].done
             /\ r \in Elems(Lost(m)) => req'[r].nc = 0 /\ req'[r].ph = 0
             /\ r \notin Elems(Lost(m)) /\ ~Has(msg, r) => req'[r].nc = req[r].nc /\ req'[r].ph = req[r].ph
  <2>1. req'[r] = AfterStep(m, r)
    BY <1>1
  <2>2. RequestOK(AfterStep(m, r), r, r \in Elems(StepRunning(m)), Append(issued, Message(m)), Processed)
    BY ScheduledRequest
  <2>3. RequestOK(req'[r], r, r \in Elems(runningQ'), issued', Processed')
    BY <1>1, <1>6, <2>1, <2>2
  <2>4. /\ AfterStep(m, r) \in RequestSet /\ AfterStep(m, r).done = req[r].done
        /\ r \in Elems(Lost(m)) => AfterStep(m, r).nc = 0 /\ AfterStep(m, r).ph = 0
        /\ r \notin Elems(Lost(m)) /\ ~Has(Message(m), r) =>
              AfterStep(m, r).nc = req[r].nc /\ AfterStep(m, r).ph = req[r].ph
    BY ScheduledRequest
  <2> QED
    BY <2>1, <2>3, <2>4 DEF msg
<1>9. RequestsInv'
  <2>1. req' \in [Client -> RequestSet]
    BY <1>1, <1>8
  <2> QED
    BY <1>8, <2>1 DEF RequestsInv, Running
<1>10. /\ StepRunning(m) \in Seq(Client) /\ StepWaiting(m) \in Seq(Client)
       /\ Distinct(StepRunning(m)) /\ Distinct(StepWaiting(m))
       /\ Elems(StepRunning(m)) = Elems(Kept(m)) \cup Admitted(m)
       /\ Elems(StepWaiting(m)) = Elems(Lost(m)) \cup (Elems(waitingQ) \ Admitted(m))
       /\ Len(StepRunning(m)) <= Slots
  BY <1>0, StepQueuesAfter
<1>11. ASSUME NEW r \in Client
       PROVE  /\ Has(msg, r) => r \in Elems(Kept(m)) \cup Admitted(m)
              /\ r \in Admitted(m) => Has(msg, r) /\ r \in Elems(waitingQ) /\ ~Running(r)
              /\ r \in Elems(Kept(m)) => Running(r) /\ r \notin Elems(Lost(m)) /\ ~Leaves(msg, r)
              /\ r \in Elems(Lost(m)) => Running(r) /\ ~Has(msg, r)
              /\ Running(r) => r \in Elems(Kept(m)) \cup Elems(Lost(m))
              /\ r \in Held(issued, Len(issued)) => r \in Elems(Kept(m)) \/ Leaves(msg, r)
  BY <1>0, ScheduledRun DEF msg
<1>12. /\ Elems(runningQ) \cap Elems(waitingQ) = {}
       /\ Elems(runningQ) \subseteq Client /\ Elems(waitingQ) \subseteq Client
       /\ Elems(StepRunning(m)) \subseteq Client /\ Elems(StepWaiting(m)) \subseteq Client
  BY <1>0, <1>10, ElemsOf DEF QueueInv
<1>13. Elems(runningQ') \cap Elems(waitingQ') = {}
  BY <1>1, <1>10, <1>11, <1>12 DEF Running
<1>14. ASSUME NEW r \in Elems(runningQ') \cup Elems(waitingQ') PROVE ~req'[r].done
  <2>1. r \in Client /\ r \in Elems(runningQ) \cup Elems(waitingQ)
    BY <1>1, <1>10, <1>11, <1>12, <1>14 DEF Running
  <2> QED
    BY <1>0, <1>8, <2>1 DEF QueueInv
<1>15. ASSUME NEW r \in Elems(waitingQ') PROVE req'[r].nc = 0 /\ req'[r].ph = 0
  <2>1. r \in Client /\ (r \in Elems(Lost(m)) \/ (r \in Elems(waitingQ) /\ r \notin Admitted(m)))
    BY <1>1, <1>10, <1>12
  <2>2. CASE r \in Elems(Lost(m))
    BY <1>8, <2>1, <2>2
  <2>3. CASE r \notin Elems(Lost(m))
    <3>1. r \in Elems(waitingQ) /\ ~Has(msg, r)
      BY <1>11, <1>12, <2>1, <2>3 DEF Running
    <3>2. req[r].nc = 0 /\ req[r].ph = 0
      BY <1>0, <3>1 DEF QueueInv
    <3> QED
      BY <1>8, <2>1, <2>3, <3>1, <3>2
  <2> QED
    BY <2>2, <2>3
<1>16. ASSUME NEW r \in Client, r \in Held(issued', Len(issued')) PROVE r \in Elems(runningQ')
  <2>1. r \in Held(issued', M + 1)
    BY <1>5, <1>16
  <2>2. Has(msg, r) \/ (r \in Held(issued', M) /\ ~Leaves(msg, r))
    BY <1>5, <2>1, HeldNext
  <2>3. Held(issued', M) = Held(issued, M)
    <3>1. SamePrefix(issued, issued', M) /\ M \in 0 .. M
      BY <1>5 DEF SamePrefix
    <3> QED
      BY <1>5, <3>1, PrefixLast
  <2> QED
    BY <1>1, <1>10, <1>11, <2>2, <2>3
<1>17. QueueInv'
  BY <1>1, <1>2, <1>10, <1>13, <1>14, <1>15, <1>16 DEF QueueInv, Running
<1> QED
  BY <1>4, <1>7, <1>9, <1>17 DEF SchedInv

LEMMA AbortStep ==
    ASSUME SchedInv, NEW s \in Client, AbortRequest(s)
    PROVE  SchedInv'
<1>1. /\ ~req[s].done /\ req' = [req EXCEPT ![s].done = TRUE]
      /\ runningQ' = Without(runningQ, {s}) /\ waitingQ' = Without(waitingQ, {s})
      /\ finishedIds' = finishedIds \cup {s}
      /\ preemptedIds' = preemptedIds /\ batchQ' = batchQ /\ issued' = issued
  BY DEF AbortRequest, rankVars
<1>0. QueueInv /\ RequestsInv /\ History(issued) /\ Processed \in 0 .. Len(issued)
  BY DEF SchedInv, Processing
<1>2. Processed' = Processed /\ Processing' /\ History(issued')
  BY <1>0, <1>1 DEF Processed, Processing
<1>3. /\ runningQ \in Seq(Client) /\ waitingQ \in Seq(Client)
      /\ Distinct(runningQ) /\ Distinct(waitingQ)
  BY <1>0 DEF QueueInv
<1>4. /\ runningQ' \in Seq(Client) /\ Elems(runningQ') = Elems(runningQ) \ {s}
      /\ Distinct(runningQ') /\ Len(runningQ') <= Len(runningQ)
  BY <1>1, <1>3, WithoutElems
<1>5. /\ waitingQ' \in Seq(Client) /\ Elems(waitingQ') = Elems(waitingQ) \ {s} /\ Distinct(waitingQ')
  BY <1>1, <1>3, WithoutElems
<1>6. req \in [Client -> RequestSet] /\ \A r \in Client : RequestOK(req[r], r, Running(r), issued, Processed)
  BY <1>0 DEF RequestsInv
<1>7. /\ req' \in [Client -> RequestSet] /\ \A r \in Client : r # s => req'[r] = req[r]
      /\ req'[s].done /\ req'[s].inc = req[s].inc /\ req'[s].base = req[s].base
      /\ req'[s].out = req[s].out /\ req'[s].flight = req[s].flight
      /\ req'[s].nc = req[s].nc /\ req'[s].ph = req[s].ph
  BY <1>1, <1>6 DEF RequestSet
<1>8. ASSUME NEW r \in Client PROVE RequestOK(req'[r], r, r \in Elems(runningQ'), issued', Processed')
  <2> DEFINE R == r \in Elems(runningQ)
             Q == r \in Elems(runningQ')
  <2>1. RequestOK(req[r], r, R, issued, Processed) /\ R \in BOOLEAN /\ Q \in BOOLEAN
    BY <1>6 DEF Running
  <2>2. CASE r = s
    <3>1. ~Q
      BY <1>4, <2>2
    <3> HIDE DEF R, Q
    <3>2. Q = FALSE
      BY <2>1, <3>1
    <3>3. req'[s] \in RequestSet
      BY <1>7
    <3>4. RequestOK(req'[s], s, FALSE, issued, Processed)
      BY <1>0, <1>7, <2>1, <2>2, <3>3, RequestDone
    <3> QED
      BY <1>1, <1>2, <2>2, <3>2, <3>4 DEF Q
  <2>3. CASE r # s
    <3>1. Q <=> R
      BY <1>4, <2>3
    <3> HIDE DEF R, Q
    <3>2. Q = R
      BY <2>1, <3>1
    <3>3. RequestOK(req'[r], r, Q, issued', Processed')
      BY <1>1, <1>2, <1>7, <2>1, <2>3, <3>2
    <3> QED
      BY <3>3 DEF Q
  <2> QED
    BY <2>2, <2>3
<1>9. RequestsInv'
  BY <1>7, <1>8 DEF RequestsInv, Running
<1>10. QueueInv'
  <2>1. Len(runningQ') <= Slots
    BY <1>0, <1>3, <1>4, RingConstants DEF QueueInv
  <2>2. Elems(runningQ') \cap Elems(waitingQ') = {}
    BY <1>0, <1>4, <1>5 DEF QueueInv
  <2>3. Elems(runningQ) \subseteq Client /\ Elems(waitingQ) \subseteq Client
    BY <1>3, ElemsOf
  <2>4. \A r \in Elems(runningQ') \cup Elems(waitingQ') : ~req'[r].done
    BY <1>0, <1>4, <1>5, <1>7, <2>3 DEF QueueInv
  <2>5. \A r \in Elems(waitingQ') : req'[r].nc = 0 /\ req'[r].ph = 0
    BY <1>0, <1>5, <1>7, <2>3 DEF QueueInv
  <2>6. finishedIds' \subseteq Client /\ \A r \in finishedIds' : req'[r].done
    BY <1>0, <1>1, <1>7 DEF QueueInv
  <2>7. preemptedIds' \subseteq Client /\ \A r \in preemptedIds' : r \notin Elems(runningQ')
    BY <1>0, <1>1, <1>4 DEF QueueInv, Running
  <2>8. \A r \in Client : r \in Held(issued', Len(issued')) =>
           r \in Elems(runningQ') \/ r \in finishedIds' \cup preemptedIds'
    BY <1>0, <1>1, <1>4 DEF QueueInv, Running
  <2> QED
    BY <1>4, <1>5, <2>1, <2>2, <2>4, <2>5, <2>6, <2>7, <2>8 DEF QueueInv, Running
<1> QED
  BY <1>2, <1>9, <1>10 DEF SchedInv

LEMMA ResetStep ==
    ASSUME SchedInv, ResetRunning
    PROVE  SchedInv'
<1>1. /\ req' = [r \in Client |-> IF r \in Elems(runningQ) THEN Preempted(req[r], TRUE) ELSE req[r]]
      /\ waitingQ' = runningQ \o waitingQ /\ runningQ' = <<>>
      /\ preemptedIds' = preemptedIds \cup Elems(runningQ)
      /\ finishedIds' = finishedIds /\ batchQ' = batchQ /\ issued' = issued
  BY DEF ResetRunning, rankVars
<1>0. QueueInv /\ RequestsInv /\ History(issued) /\ Processed \in 0 .. Len(issued)
  BY DEF SchedInv, Processing
<1>2. Processed' = Processed /\ Processing' /\ History(issued')
  BY <1>0, <1>1 DEF Processed, Processing
<1>3. /\ runningQ \in Seq(Client) /\ waitingQ \in Seq(Client)
      /\ Distinct(runningQ) /\ Distinct(waitingQ)
      /\ Elems(runningQ) \cap Elems(waitingQ) = {}
  BY <1>0 DEF QueueInv
<1>4. /\ waitingQ' \in Seq(Client) /\ Elems(waitingQ') = Elems(runningQ) \cup Elems(waitingQ)
      /\ Distinct(waitingQ')
  BY <1>1, <1>3, ElemsConcat, DistinctConcat
<1>5. runningQ' \in Seq(Client) /\ Elems(runningQ') = {} /\ Distinct(runningQ') /\ Len(runningQ') = 0
  BY <1>1 DEF Elems, Distinct
<1>6. req \in [Client -> RequestSet] /\ \A r \in Client : RequestOK(req[r], r, Running(r), issued, Processed)
  BY <1>0 DEF RequestsInv
<1>7. ASSUME NEW r \in Client
      PROVE  /\ req'[r] \in RequestSet /\ req'[r].done = req[r].done
             /\ r \in Elems(runningQ) => req'[r].nc = 0 /\ req'[r].ph = 0
             /\ r \notin Elems(runningQ) => req'[r] = req[r]
             /\ RequestOK(req'[r], r, FALSE, issued, Processed)
  <2> DEFINE q == req[r]
             z == req'[r]
             R == r \in Elems(runningQ)
             d == TRUE \/ (q.drop /\ q.stale > 0)
  <2>1. RequestOK(q, r, R, issued, Processed) /\ R \in BOOLEAN /\ q \in RequestSet
    BY <1>6 DEF Running
  <2>2. z = IF R THEN Preempted(q, TRUE) ELSE q
    BY <1>1
  <2>3. d \in BOOLEAN /\ TRUE \in BOOLEAN
    OBVIOUS
  <2>4. CASE R
    <3>1. z = [q EXCEPT !.nc = 0, !.ph = 0, !.drop = d, !.stale = q.flight]
      BY <2>2, <2>4 DEF Preempted
    <3>2. q.flight \in Nat /\ 0 \in Nat /\ 0 \in Int
      BY <2>1 DEF RequestSet
    <3>3. d = (TRUE \/ (q.drop /\ q.stale > 0))
      OBVIOUS
    <3> HIDE DEF q, z, d
    <3>4. /\ z.nc = 0 /\ z.ph = 0 /\ z.drop = d /\ z.stale = q.flight
          /\ z.flight = q.flight /\ z.inc = q.inc /\ z.base = q.base /\ z.out = q.out /\ z.done = q.done
      BY <2>1, <3>1 DEF RequestSet
    <3>5. z \in RequestSet
      BY <2>1, <2>3, <3>1, <3>2 DEF RequestSet
    <3>6. RequestOK(q, r, TRUE, issued, Processed)
      BY <2>1, <2>4
    <3>7. z.drop = (TRUE \/ (q.drop /\ q.stale > 0))
      BY <3>3, <3>4
    <3>8. RequestOK(z, r, FALSE, issued, Processed)
      BY <1>0, <2>3, <3>4, <3>5, <3>6, <3>7, RequestPreempted
    <3> QED
      BY <2>4, <3>4, <3>5, <3>8 DEF z, q
  <2>5. CASE ~R
    <3>1. z = q
      BY <2>2, <2>5
    <3> HIDE DEF R
    <3>2. R = FALSE
      BY <2>1, <2>5
    <3> QED
      BY <2>1, <2>5, <3>1, <3>2 DEF R
  <2> QED
    BY <2>4, <2>5
<1>8. ASSUME NEW r \in Client PROVE RequestOK(req'[r], r, r \in Elems(runningQ'), issued', Processed')
  <2> DEFINE Q == r \in Elems(runningQ')
  <2>1. Q \in BOOLEAN /\ ~Q
    BY <1>5
  <2> HIDE DEF Q
  <2>2. Q = FALSE
    BY <2>1
  <2>3. RequestOK(req'[r], r, Q, issued', Processed')
    BY <1>1, <1>2, <1>7, <2>2
  <2> QED
    BY <2>3 DEF Q
<1>9. RequestsInv'
  <2>1. req' \in [Client -> RequestSet]
    <3>1. DOMAIN req' = Client /\ req' = [r \in DOMAIN req' |-> req'[r]]
      BY <1>1
    <3> QED
      BY <1>7, <3>1
  <2> QED
    BY <1>8, <2>1 DEF RequestsInv, Running
<1>10. QueueInv'
  <2>1. Len(runningQ') <= Slots
    BY <1>5, RingConstants
  <2>3. Elems(runningQ) \subseteq Client /\ Elems(waitingQ) \subseteq Client
    BY <1>3, ElemsOf
  <2>4. \A r \in Elems(runningQ') \cup Elems(waitingQ') : ~req'[r].done
    BY <1>0, <1>4, <1>5, <1>7, <2>3 DEF QueueInv
  <2>5. \A r \in Elems(waitingQ') : req'[r].nc = 0 /\ req'[r].ph = 0
    BY <1>0, <1>4, <1>7, <2>3 DEF QueueInv
  <2>6. finishedIds' \subseteq Client /\ \A r \in finishedIds' : req'[r].done
    BY <1>0, <1>1, <1>7 DEF QueueInv
  <2>7. preemptedIds' \subseteq Client /\ \A r \in preemptedIds' : r \notin Elems(runningQ')
    BY <1>0, <1>1, <1>5, <2>3 DEF QueueInv
  <2>8. \A r \in Client : r \in Held(issued', Len(issued')) =>
           r \in Elems(runningQ') \/ r \in finishedIds' \cup preemptedIds'
    BY <1>0, <1>1 DEF QueueInv, Running
  <2>9. Elems(runningQ') \cap Elems(waitingQ') = {}
    BY <1>5
  <2> QED
    BY <1>4, <1>5, <2>1, <2>4, <2>5, <2>6, <2>7, <2>8, <2>9 DEF QueueInv, Running
<1> QED
  BY <1>2, <1>9, <1>10 DEF SchedInv

\* The answer that is processed is that of the oldest message.
NextAnswer ==
    batchQ # <<>> /\ results # <<>> =>
        /\ Head(batchQ) = issued[Processed + 1]
        /\ \A r \in Client : Head(results)[r] = AnswerOf(issued[Processed + 1], r)

LEMMA UpdateStep ==
    ASSUME SchedInv, QueueSizes, NextAnswer, UpdateFromOutput
    PROVE  SchedInv'
<1>1. PICK stops : LET ended == {r \in Unfinished : AfterOutput(r, stops).done}
                   IN  /\ req' = [r \in Client |-> AfterOutput(r, stops)]
                       /\ runningQ' = Without(runningQ, ended)
                       /\ waitingQ' = Without(waitingQ, ended)
                       /\ finishedIds' = finishedIds \cup ended
  BY DEF UpdateFromOutput
<1>2. /\ batchQ # <<>> /\ results # <<>> /\ batchQ' = Tail(batchQ)
      /\ preemptedIds' = preemptedIds /\ issued' = issued
  BY DEF UpdateFromOutput
<1>0. QueueInv /\ RequestsInv /\ History(issued) /\ Processed \in 0 .. Len(issued)
  BY DEF SchedInv, Processing
<1> DEFINE P == Processed
           msg == issued[P + 1]
           ended == {r \in Unfinished : AfterOutput(r, stops).done}
<1>3. /\ P \in Nat /\ P < Len(issued) /\ Processed' = P + 1 /\ Len(issued) \in Nat
      /\ msg \in MessageSet /\ RowsDistinct(msg)
  <2>1. Len(batchQ) \in Nat \ {0} /\ Len(Tail(batchQ)) = Len(batchQ) - 1
    BY <1>2 DEF QueueSizes
  <2>2. P \in Nat /\ P < Len(issued) /\ Len(issued) \in Nat
    BY <1>0, <2>1, ProcessedNumbers
  <2>3. Processed' = Len(issued) - (Len(batchQ) - 1)
    BY <1>2, <2>1 DEF Processed
  <2>4. Processed' = P + 1
    BY <2>1, <2>2, <2>3 DEF Processed
  <2>5. P + 1 \in 1 .. Len(issued)
    BY <2>2
  <2> QED
    BY <1>0, <2>2, <2>4, <2>5, HistoryAt
<1>4. Head(batchQ) = msg /\ \A r \in Client : Head(results)[r] = AnswerOf(msg, r)
  BY <1>2 DEF NextAnswer
<1> HIDE DEF msg, P
<1>5. req \in [Client -> RequestSet] /\ \A r \in Client : RequestOK(req[r], r, Running(r), issued, P)
  BY <1>0 DEF RequestsInv, P
<1>6. ASSUME NEW r \in Client
      PROVE  LET z == AfterOutput(r, stops)
             IN  /\ RequestOK(z, r, Running(r) /\ ~z.done, issued, P + 1)
                 /\ z.nc = req[r].nc /\ (~Running(r) => z.ph = req[r].ph) /\ (req[r].done => z.done)
  <2> DEFINE z == AfterOutput(r, stops)
             q == req[r]
             R == Running(r)
             st == r \in stops
  <2>1. R \in BOOLEAN /\ st \in BOOLEAN /\ RequestOK(q, r, R, issued, P) /\ q \in RequestSet
    BY <1>5 DEF Running
  <2>2. z = IF Has(msg, r) THEN Delivered(q, RowOf(msg, r).q, AnswerOf(msg, r), st) ELSE q
    BY <1>4 DEF AfterOutput, Has, RowOf
  <2>3. CASE Has(msg, r)
    <3> DEFINE d == Delivered(q, RowOf(msg, r).q, AnswerOf(msg, r), st)
    <3>1. z = d
      BY <2>2, <2>3
    <3> HIDE DEF R, st, z, q, d
    <3>2. /\ RequestOK(d, r, R /\ ~d.done, issued, P + 1)
          /\ d.nc = q.nc /\ (~R => d.ph = q.ph) /\ (q.done => d.done)
      BY <1>0, <1>3, <2>1, <2>3, RequestDelivered DEF d, msg
    <3>3. /\ RequestOK(z, r, R /\ ~z.done, issued, P + 1)
          /\ z.nc = q.nc /\ (~R => z.ph = q.ph) /\ (q.done => z.done)
      BY <3>1, <3>2
    <3> QED
      BY <3>3 DEF z, q, R
  <2>4. CASE ~Has(msg, r)
    <3>1. z = q
      BY <2>2, <2>4
    <3>2. R => ~q.done
      BY <1>0 DEF QueueInv, Running
    <3> DEFINE Q == R /\ ~z.done
    <3>3. Q \in BOOLEAN /\ (Q <=> R)
      BY <2>1, <3>1, <3>2
    <3> HIDE DEF R, z, q, Q
    <3>4. Q = R
      BY <2>1, <3>3
    <3>5. RequestOK(q, r, R, issued, P + 1)
      BY <1>0, <1>3, <2>1, <2>4, RequestPassed DEF msg
    <3>6. RequestOK(z, r, Q, issued, P + 1)
      BY <3>1, <3>4, <3>5
    <3>7. z.nc = q.nc /\ (~R => z.ph = q.ph) /\ (q.done => z.done)
      BY <3>1
    <3> QED
      BY <3>6, <3>7 DEF z, q, R, Q
  <2> QED
    BY <2>3, <2>4
<1>7. ASSUME NEW r \in Client
      PROVE  /\ req'[r] \in RequestSet /\ req'[r].nc = req[r].nc /\ (~Running(r) => req'[r].ph = req[r].ph)
             /\ (req[r].done => req'[r].done) /\ (r \in ended <=> ~req[r].done /\ req'[r].done)
             /\ RequestOK(req'[r], r, Running(r) /\ ~req'[r].done, issued, P + 1)
  <2>1. req'[r] = AfterOutput(r, stops)
    BY <1>1
  <2>2. r \in ended <=> ~req[r].done /\ req'[r].done
    BY <2>1 DEF Unfinished
  <2>3. RequestOK(req'[r], r, Running(r) /\ ~req'[r].done, issued, P + 1)
    BY <1>6, <2>1
  <2>4. req'[r] \in RequestSet
    BY <2>3 DEF RequestOK
  <2> QED
    BY <1>6, <2>1, <2>2, <2>3, <2>4
<1>8. /\ runningQ' = Without(runningQ, ended) /\ waitingQ' = Without(waitingQ, ended)
      /\ finishedIds' = finishedIds \cup ended /\ ended \subseteq Client
  BY <1>1 DEF Unfinished
<1> HIDE DEF ended
<1>9. /\ runningQ \in Seq(Client) /\ waitingQ \in Seq(Client)
      /\ Distinct(runningQ) /\ Distinct(waitingQ)
  BY <1>0 DEF QueueInv
<1>10. /\ runningQ' \in Seq(Client) /\ Elems(runningQ') = Elems(runningQ) \ ended
       /\ Distinct(runningQ') /\ Len(runningQ') <= Len(runningQ)
  BY <1>8, <1>9, WithoutElems
<1>11. /\ waitingQ' \in Seq(Client) /\ Elems(waitingQ') = Elems(waitingQ) \ ended /\ Distinct(waitingQ')
  BY <1>8, <1>9, WithoutElems
<1>12. ASSUME NEW r \in Client PROVE RequestOK(req'[r], r, r \in Elems(runningQ'), issued', Processed')
  <2> DEFINE Q == r \in Elems(runningQ')
             S == Running(r) /\ ~req'[r].done
  <2>1. S \in BOOLEAN /\ Q \in BOOLEAN
    OBVIOUS
  <2>2. Q <=> S
    BY <1>0, <1>7, <1>10 DEF QueueInv, Running
  <2>3. RequestOK(req'[r], r, S, issued, P + 1)
    BY <1>7
  <2> HIDE DEF Q, S
  <2>4. Q = S
    BY <2>1, <2>2
  <2>5. RequestOK(req'[r], r, Q, issued', Processed')
    BY <1>2, <1>3, <2>3, <2>4
  <2> QED
    BY <2>5 DEF Q
<1>13. RequestsInv'
  <2>1. req' \in [Client -> RequestSet]
    <3>1. DOMAIN req' = Client /\ req' = [r \in DOMAIN req' |-> req'[r]]
      BY <1>1
    <3> QED
      BY <1>7, <3>1
  <2> QED
    BY <1>12, <2>1 DEF RequestsInv, Running
<1>14. QueueInv'
  <2>1. Len(runningQ') <= Slots
    BY <1>0, <1>9, <1>10, RingConstants DEF QueueInv
  <2>2. Elems(runningQ') \cap Elems(waitingQ') = {}
    BY <1>0, <1>10, <1>11 DEF QueueInv
  <2>3. Elems(runningQ) \subseteq Client /\ Elems(waitingQ) \subseteq Client
    BY <1>9, ElemsOf
  <2>4. \A r \in Elems(runningQ') \cup Elems(waitingQ') : ~req'[r].done
    BY <1>0, <1>7, <1>10, <1>11, <2>3 DEF QueueInv
  <2>5. \A r \in Elems(waitingQ') : req'[r].nc = 0 /\ req'[r].ph = 0
    <3>1. \A r \in Elems(waitingQ) : ~Running(r)
      BY <1>0 DEF QueueInv, Running
    <3> QED
      BY <1>0, <1>7, <1>11, <2>3, <3>1 DEF QueueInv
  <2>6. finishedIds' \subseteq Client /\ \A r \in finishedIds' : req'[r].done
    BY <1>0, <1>7, <1>8 DEF QueueInv
  <2>7. preemptedIds' \subseteq Client /\ \A r \in preemptedIds' : r \notin Elems(runningQ')
    BY <1>0, <1>2, <1>10 DEF QueueInv, Running
  <2>8. \A r \in Client : r \in Held(issued', Len(issued')) =>
           r \in Elems(runningQ') \/ r \in finishedIds' \cup preemptedIds'
    BY <1>0, <1>2, <1>8, <1>10 DEF QueueInv, Running
  <2> QED
    BY <1>10, <1>11, <2>1, <2>2, <2>4, <2>5, <2>6, <2>7, <2>8 DEF QueueInv, Running
<1>15. Processing' /\ History(issued')
  BY <1>0, <1>2, <1>3 DEF Processing
<1> QED
  BY <1>13, <1>14, <1>15 DEF SchedInv

\* The other actions leave the scheduler alone.
LEMMA SchedulerIdle ==
    ASSUME SchedInv, UNCHANGED <<schedVars, issued>>
    PROVE  SchedInv'
<1>1. UNCHANGED <<req, waitingQ, runningQ, finishedIds, preemptedIds, batchQ, issued>>
  BY DEF schedVars
<1>2. Processing' /\ History(issued')
  BY <1>1 DEF SchedInv, Processing, Processed
<1>3. QueueInv'
  BY <1>1 DEF SchedInv, QueueInv, Running
<1>4. RequestsInv'
  BY <1>1 DEF SchedInv, RequestsInv, Running, Processed
<1> QED
  BY <1>2, <1>3, <1>4 DEF SchedInv

-----------------------------------------------------------------------------
(***************************************************************************)
(* What a rank holds depends only on the messages it has executed.         *)
(***************************************************************************)
RankState(ms, p, e, i, s, cur, queue, n) ==
    /\ TableOK(s, ms, p, e, i)
    /\ cur # Absent => BatchOK(cur, s, ms, p, i)
    /\ i # Stages => PendingOK(queue, n, s, ms, p, e)

LEMMA RankParts ==
    ASSUME NEW i
    PROVE  RankOK(i) <=>
              /\ InboxOK(i)
              /\ RankState(issued, Executed(i), Ended(i), i, reqStates[i], current[i], pending[i], received[i])
BY DEF RankOK, RankState

LEMMA PrefixTable ==
    ASSUME NEW ms, NEW ns, NEW p \in Nat, SamePrefix(ms, ns, p), NEW e, NEW i, NEW s,
           TableOK(s, ms, p, e, i)
    PROVE  TableOK(s, ns, p, e, i)
<1>1. p \in 0 .. p
  OBVIOUS
<1>2. (\A r, a : Last(ns, r, a, p) <=> Last(ms, r, a, p)) /\ Held(ns, p) = Held(ms, p)
  BY <1>1, PrefixLast
<1>3. HoldersOK(s, ns, p)
  BY <1>2 DEF TableOK, HoldersOK
<1>4. ASSUME NEW r \in Client, NEW a \in 1 .. p, Last(ns, r, a, p)
      PROVE  EntryOK(s.tab[s.index[r]], RowOf(ns[a], r), Computed(RowOf(ns[a], r), a, e),
                     Known(RowOf(ns[a], r), Told(i, a, p, e)))
  <2>1. ms[a] = ns[a]
    BY DEF SamePrefix
  <2>2. EntryOK(s.tab[s.index[r]], RowOf(ms[a], r), Computed(RowOf(ms[a], r), a, e),
                Known(RowOf(ms[a], r), Told(i, a, p, e)))
    BY <1>2, <1>4 DEF TableOK
  <2> QED
    BY <2>1, <2>2
<1> QED
  BY <1>3, <1>4 DEF TableOK

LEMMA PrefixBatch ==
    ASSUME NEW ms, NEW ns, NEW p \in Nat, SamePrefix(ms, ns, p), NEW i, NEW s, NEW cur,
           BatchOK(cur, s, ms, p, i)
    PROVE  BatchOK(cur, s, ns, p, i)
<1>1. p >= 1
  BY DEF BatchOK
<1>2. ns[p] = ms[p]
  BY <1>1 DEF SamePrefix
<1> QED
  BY <1>2 DEF BatchOK

LEMMA PrefixPending ==
    ASSUME NEW ms, NEW ns, NEW p \in Nat, SamePrefix(ms, ns, p), NEW e \in 0 .. p, NEW s,
           NEW queue, NEW n, PendingOK(queue, n, s, ms, p, e)
    PROVE  PendingOK(queue, n, s, ns, p, e)
<1>1. \A m \in 0 .. p : Sampled(ns, m) = Sampled(ms, m)
  BY PrefixLast
<1>2. ASSUME NEW m \in Int, NEW x, RingEntryOK(x, s, ms, p, e, m)
      PROVE  RingEntryOK(x, s, ns, p, e, m)
  <2>1. CASE m >= 1 /\ m <= e
    <3>1. m \in 1 .. p /\ m \in 0 .. p
      BY <2>1
    <3>2. ns[m] = ms[m] /\ Sampled(ns, m) = Sampled(ms, m)
      BY <1>1, <3>1 DEF SamePrefix
    <3>3. \A c \in (m+1) .. p : ns[c] = ms[c]
      BY <3>1 DEF SamePrefix
    <3>4. \A r : LeftSince(ns, m, p, r) <=> LeftSince(ms, m, p, r)
      BY <3>3 DEF LeftSince
    <3>5. \A y, g, row : SlotKept(y, g, row, s, ns, p, m) <=> SlotKept(y, g, row, s, ms, p, m)
      BY <3>4 DEF SlotKept
    <3>6. ReceptionOK(x, s, ns, p, m) <=> ReceptionOK(x, s, ms, p, m)
      BY <3>2, <3>5 DEF ReceptionOK
    <3> QED
      BY <1>2, <3>2, <3>6 DEF RingEntryOK
  <2>2. CASE ~(m >= 1 /\ m <= e)
    BY <1>2, <2>2 DEF RingEntryOK
  <2> QED
    BY <2>1, <2>2
<1>3. \A k \in 1 .. Stages : p - Stages + k \in Int
  BY RingConstants
<1>4. \A k \in 1 .. Stages : RingEntryOK(queue[k], s, ns, p, e, p - Stages + k)
  BY <1>2, <1>3 DEF PendingOK
<1>5. n = Sampled(ns, e)
  BY <1>1 DEF PendingOK
<1> QED
  BY <1>4, <1>5 DEF PendingOK

LEMMA PrefixRank ==
    ASSUME NEW ms, NEW ns, NEW p \in Nat, SamePrefix(ms, ns, p), NEW e \in 0 .. p, NEW i, NEW s,
           NEW cur, NEW queue, NEW n, RankState(ms, p, e, i, s, cur, queue, n)
    PROVE  RankState(ns, p, e, i, s, cur, queue, n)
<1>1. TableOK(s, ns, p, e, i)
  BY PrefixTable DEF RankState
<1>2. cur # Absent => BatchOK(cur, s, ns, p, i)
  BY PrefixBatch DEF RankState
<1>3. i # Stages => PendingOK(queue, n, s, ns, p, e)
  BY PrefixPending DEF RankState
<1> QED
  BY <1>1, <1>2, <1>3 DEF RankState

LEMMA PrefixSent ==
    ASSUME NEW ms, NEW ns, NEW p \in Nat, SamePrefix(ms, ns, p), NEW e \in 0 .. p, NEW payloads,
           SentOK(payloads, ms, e)
    PROVE  SentOK(payloads, ns, e)
<1>1. \A m \in 0 .. p : Sampled(ns, m) = Sampled(ms, m)
  BY PrefixLast
<1>2. \A m \in 1 .. e : ns[m] = ms[m] /\ Sampled(ns, m) = Sampled(ms, m)
  BY <1>1 DEF SamePrefix
<1>3. Sampled(ns, e) = Sampled(ms, e)
  BY <1>1
<1> QED
  BY <1>2, <1>3 DEF SentOK

LEMMA PrefixAnswers ==
    ASSUME NEW ms, NEW ns, NEW p \in Nat, SamePrefix(ms, ns, p), NEW e \in 0 .. p, NEW done \in Nat,
           NEW answers, AnswersOK(answers, ms, done, e)
    PROVE  AnswersOK(answers, ns, done, e)
<1>1. answers \in Seq([Client -> Text]) /\ Len(answers) = e - done
  BY DEF AnswersOK
<1>2. DOMAIN answers = 1 .. Len(answers) /\ Len(answers) \in Nat
  BY <1>1
<1>3. \A k \in DOMAIN answers : done + k \in 1 .. p
  BY <1>1, <1>2
<1>4. \A k \in DOMAIN answers : ns[done + k] = ms[done + k]
  BY <1>3 DEF SamePrefix
<1> QED
  BY <1>4 DEF AnswersOK

-----------------------------------------------------------------------------
(***************************************************************************)
(* The scheduler's steps, seen from the ranks and the engine.              *)
(***************************************************************************)
LEMMA RankCounts ==
    ASSUME History(issued), NEW i \in Stage, RankOK(i)
    PROVE  /\ Len(issued) \in Nat /\ issued \in Seq(MessageSet)
           /\ inbox[i] \in Seq(MessageSet) /\ Len(inbox[i]) \in Nat
           /\ Executed(i) \in 0 .. Len(issued) /\ Executed(i) \in Nat
           /\ Executed(i) + Len(inbox[i]) = Len(issued)
           /\ Ended(i) \in 0 .. Executed(i)
           /\ current[i] # Absent => Executed(i) >= 1 /\ Ended(i) = Executed(i) - 1
           /\ current[i] = Absent => Ended(i) = Executed(i)
<1>1. issued \in Seq(MessageSet) /\ Len(issued) \in Nat
  BY DEF History
<1>2. inbox[i] \in Seq(MessageSet) /\ Len(inbox[i]) <= Len(issued) /\ Len(inbox[i]) \in Nat
  BY DEF RankOK, InboxOK
<1>3. current[i] # Absent => Executed(i) >= 1
  BY DEF RankOK, BatchOK
<1>4. Executed(i) = Len(issued) - Len(inbox[i])
  BY DEF Executed
<1>5. Ended(i) = IF current[i] # Absent THEN Executed(i) - 1 ELSE Executed(i)
  BY DEF Ended
<1> HIDE DEF Executed, Ended
<1>6. /\ Executed(i) \in 0 .. Len(issued) /\ Executed(i) \in Nat
      /\ Executed(i) + Len(inbox[i]) = Len(issued)
  BY <1>1, <1>2, <1>4
<1>7. CASE current[i] = Absent
  <2>1. Ended(i) = Executed(i)
    BY <1>5, <1>7
  <2> QED
    BY <1>1, <1>2, <1>6, <1>7, <2>1
<1>8. CASE current[i] # Absent
  <2>1. Ended(i) = Executed(i) - 1 /\ Executed(i) >= 1
    BY <1>3, <1>5, <1>8
  <2>2. Ended(i) \in 0 .. Executed(i)
    BY <1>6, <2>1
  <2> QED
    BY <1>1, <1>2, <1>6, <1>8, <2>1, <2>2
<1> QED
  BY <1>7, <1>8

LEMMA NextAnswerRight ==
    ASSUME RingInv
    PROVE  NextAnswer
<1>1. ASSUME batchQ # <<>> PROVE Head(batchQ) = issued[Processed + 1]
  <2>1. batchQ \in Seq(MessageSet) /\ 1 \in DOMAIN batchQ /\ Head(batchQ) = batchQ[1]
    BY <1>1 DEF RingInv, EngineInv, QueueSizes
  <2> QED
    BY <2>1 DEF RingInv, EngineInv
<1>2. ASSUME results # <<>>, NEW r \in Client
      PROVE  Head(results)[r] = AnswerOf(issued[Processed + 1], r)
  <2>1. results \in Seq([Client -> Text]) /\ 1 \in DOMAIN results /\ Head(results) = results[1]
    BY <1>2 DEF RingInv, EngineInv, AnswersOK
  <2> QED
    BY <2>1 DEF RingInv, EngineInv, AnswersOK
<1> QED
  BY <1>1, <1>2 DEF NextAnswer

LEMMA RankUnchanged ==
    ASSUME NEW i, RankOK(i), issued' = issued, inbox'[i] = inbox[i], reqStates'[i] = reqStates[i],
           current'[i] = current[i],
           i # Stages => pending'[i] = pending[i] /\ received'[i] = received[i]
    PROVE  RankOK(i)' /\ Executed(i)' = Executed(i) /\ Ended(i)' = Ended(i)
<1>1. Executed(i)' = Executed(i)
  BY DEF Executed
<1>2. Ended(i)' = Ended(i)
  BY <1>1 DEF Ended
<1> HIDE DEF Executed, Ended
<1>3. InboxOK(i)'
  BY <1>1 DEF RankOK, InboxOK
<1> QED
  BY <1>1, <1>2, <1>3 DEF RankOK

\* The queue and the ranks' inboxes grow with the messages.
LEMMA ScheduleRing ==
    ASSUME RingInv, Schedule
    PROVE  RingInv'
<1>1. SchedInv /\ EngineInv /\ QueueSizes /\ History(issued)
  BY DEF RingInv, EngineInv, SchedInv
<1>2. SchedInv'
  BY <1>1, ScheduleStep
<1>3. PICK m \in 0 .. Len(runningQ) :
         /\ batchQ' = Append(batchQ, Message(m)) /\ issued' = Append(issued, Message(m))
         /\ inbox' = [i \in Stage |-> Append(inbox[i], Message(m))]
  BY DEF Schedule
<1>4. UNCHANGED <<hidden, reqStates, pending, received, sent, current, results>>
  BY DEF Schedule
<1> DEFINE msg == Message(m)
<1>5. msg \in MessageSet
  BY <1>1, ScheduledMessage
<1> HIDE DEF msg
<1>6. /\ issued \in Seq(MessageSet) /\ Len(issued) \in Nat
      /\ issued' = Append(issued, msg) /\ Len(issued') = Len(issued) + 1
      /\ \A c \in 1 .. Len(issued) : issued'[c] = issued[c]
      /\ issued'[Len(issued) + 1] = msg
  BY <1>1, <1>3, <1>5 DEF History, msg
<1>7. ASSUME NEW i \in Stage
      PROVE  RankOK(i)' /\ Executed(i)' = Executed(i) /\ Ended(i)' = Ended(i)
  <2>1. RankOK(i) /\ InboxOK(i)
    BY DEF RingInv, RankOK
  <2>2. /\ inbox[i] \in Seq(MessageSet) /\ Len(inbox[i]) \in Nat
        /\ Executed(i) \in 0 .. Len(issued) /\ Executed(i) \in Nat
        /\ Executed(i) + Len(inbox[i]) = Len(issued) /\ Ended(i) \in 0 .. Executed(i)
    BY <1>1, <2>1, RankCounts
  <2>3. /\ inbox'[i] = Append(inbox[i], msg) /\ inbox'[i] \in Seq(MessageSet)
        /\ Len(inbox'[i]) = Len(inbox[i]) + 1
        /\ \A k \in 1 .. Len(inbox[i]) : inbox'[i][k] = inbox[i][k]
        /\ inbox'[i][Len(inbox[i]) + 1] = msg
    BY <1>3, <1>5, <2>2 DEF msg
  <2>4. Executed(i)' = Executed(i)
    <3>1. Executed(i)' = Len(issued') - Len(inbox'[i]) /\ Executed(i) = Len(issued) - Len(inbox[i])
      BY DEF Executed
    <3> QED
      BY <1>6, <2>2, <2>3, <3>1
  <2>5. Ended(i)' = Ended(i)
    BY <1>4, <2>4 DEF Ended
  <2> HIDE DEF Executed, Ended
  <2>6. InboxOK(i)'
    <3>1. ASSUME NEW k \in 1 .. Len(inbox[i]) + 1 PROVE inbox'[i][k] = issued'[Executed(i) + k]
      <4>1. CASE k \in 1 .. Len(inbox[i])
        <5>1. k \in DOMAIN inbox[i] /\ Executed(i) + k \in 1 .. Len(issued)
          BY SMTT(40), <2>2, <4>1
        <5>2. inbox[i][k] = issued[Executed(i) + k]
          BY <2>1, <5>1 DEF InboxOK
        <5> QED
          BY <1>6, <2>3, <4>1, <5>1, <5>2
      <4>2. CASE k = Len(inbox[i]) + 1
        <5>1. Executed(i) + k = Len(issued) + 1
          BY SMTT(40), <2>2, <4>2
        <5>2. inbox'[i][k] = msg
          BY <2>3, <4>2
        <5>3. issued'[Executed(i) + k] = msg
          BY <1>6, <5>1
        <5> QED
          BY <5>2, <5>3
      <4> QED
        BY <2>2, <4>1, <4>2
    <3>2. DOMAIN inbox'[i] = 1 .. Len(inbox[i]) + 1
      BY <2>3
    <3>3. Len(inbox'[i]) <= Len(issued')
      BY <1>6, <2>2, <2>3
    <3> QED
      BY <2>3, <2>4, <3>1, <3>2, <3>3 DEF InboxOK
  <2>7. SamePrefix(issued, issued', Executed(i))
    BY <1>6, <2>2 DEF SamePrefix
  <2>8. RankState(issued, Executed(i), Ended(i), i, reqStates[i], current[i], pending[i], received[i])
    BY <2>1, RankParts
  <2>9. RankState(issued', Executed(i), Ended(i), i, reqStates[i], current[i], pending[i], received[i])
    BY <2>2, <2>7, <2>8, PrefixRank
  <2>10. RankState(issued', Executed(i)', Ended(i)', i, reqStates'[i], current'[i], pending'[i], received'[i])
    BY <1>4, <2>4, <2>5, <2>9
  <2>11. RankOK(i)'
    BY <2>6, <2>10 DEF RankOK, RankState
  <2> QED
    BY <2>4, <2>5, <2>11
<1>8. Stages \in Stage
  BY RingConstants DEF Stage
<1> DEFINE E == Ended(Stages)
<1>9. E \in 0 .. Len(issued) /\ Ended(Stages)' = E
  <2>1. RankOK(Stages)
    BY <1>8 DEF RingInv
  <2>2. Executed(Stages) \in 0 .. Len(issued) /\ Ended(Stages) \in 0 .. Executed(Stages)
    BY <1>1, <1>8, <2>1, RankCounts
  <2> QED
    BY <1>6, <1>7, <1>8, <2>2
<1> HIDE DEF E
<1>10. SamePrefix(issued, issued', Len(issued))
  BY <1>6 DEF SamePrefix
<1>11. SentOK(sent, issued', E)
  <2>1. SentOK(sent, issued, E)
    BY DEF RingInv, E
  <2> QED
    BY <1>6, <1>9, <1>10, <2>1, PrefixSent
<1>12. EngineInv'
  <2>1. /\ Processed \in 0 .. Len(issued) /\ Processed + Len(batchQ) = Len(issued) /\ Len(batchQ) \in Nat
    BY <1>1, ProcessedNumbers
  <2>2. /\ batchQ \in Seq(MessageSet) /\ batchQ' = Append(batchQ, msg) /\ batchQ' \in Seq(MessageSet)
        /\ Len(batchQ') = Len(batchQ) + 1
        /\ \A k \in 1 .. Len(batchQ) : batchQ'[k] = batchQ[k]
        /\ batchQ'[Len(batchQ) + 1] = msg
    BY <1>1, <1>3, <1>5 DEF QueueSizes, msg
  <2>3. Processed' = Processed
    <3>1. Processed' = Len(issued') - Len(batchQ') /\ Processed = Len(issued) - Len(batchQ)
      BY DEF Processed
    <3> QED
      BY <1>6, <2>1, <2>2, <3>1
  <2> HIDE DEF Processed
  <2>4. ASSUME NEW k \in 1 .. Len(batchQ) + 1 PROVE batchQ'[k] = issued'[Processed + k]
    <3>1. CASE k \in 1 .. Len(batchQ)
      <4>1. k \in DOMAIN batchQ /\ Processed + k \in 1 .. Len(issued)
        BY <2>1, <2>2, <3>1
      <4>2. batchQ[k] = issued[Processed + k]
        BY <1>1, <4>1 DEF EngineInv
      <4> QED
        BY <1>6, <2>2, <3>1, <4>1, <4>2
    <3>2. CASE k = Len(batchQ) + 1
      <4>1. Processed + k = Len(issued) + 1
        BY <2>1, <3>2
      <4> QED
        BY <1>6, <2>2, <3>2, <4>1
    <3> QED
      BY <2>1, <3>1, <3>2
  <2>5. DOMAIN batchQ' = 1 .. Len(batchQ) + 1
    BY <2>2
  <2>6. QueueSizes'
    BY <1>1, <1>6, <2>1, <2>2 DEF QueueSizes
  <2>7. AnswersOK(results, issued, Processed, E)
    BY <1>1 DEF EngineInv, E
  <2>8. AnswersOK(results, issued', Processed, E)
    BY <1>6, <1>9, <1>10, <2>1, <2>7, PrefixAnswers
  <2>9. AnswersOK(results', issued', Processed', Ended(Stages)')
    BY <1>4, <1>9, <2>3, <2>8
  <2> QED
    BY <2>3, <2>4, <2>5, <2>6, <2>9 DEF EngineInv
<1>13. DOMAIN inbox' = Stage
  BY <1>3
<1>14. SentOK(sent', issued', Ended(Stages)')
  BY <1>4, <1>9, <1>11
<1>15. /\ DOMAIN reqStates' = Stage /\ DOMAIN current' = Stage
       /\ DOMAIN pending' = 1 .. Stages - 1 /\ DOMAIN received' = 1 .. Stages - 1
  BY <1>4 DEF RingInv
<1>16. \A i \in Stage : RankOK(i)'
  BY <1>7
<1> HIDE DEF SchedInv, EngineInv, RankOK, SentOK, Ended
<1> QED
  BY <1>2, <1>12, <1>13, <1>14, <1>15, <1>16 DEF RingInv

RanksInv ==
    /\ DOMAIN reqStates = Stage /\ DOMAIN current = Stage /\ DOMAIN inbox = Stage
    /\ DOMAIN pending = 1 .. Stages - 1 /\ DOMAIN received = 1 .. Stages - 1
    /\ \A i \in Stage : RankOK(i)
    /\ SentOK(sent, issued, Ended(Stages))

LEMMA RingParts ==
    RingInv <=> SchedInv /\ EngineInv /\ RanksInv
BY DEF RingInv, RanksInv

LEMMA RanksIdle ==
    ASSUME RanksInv, UNCHANGED <<issued, inbox, reqStates, pending, received, sent, current>>
    PROVE  RanksInv' /\ Ended(Stages)' = Ended(Stages)
<1>1. ASSUME NEW i \in Stage PROVE RankOK(i)'
  <2>1. RankOK(i)
    BY DEF RanksInv
  <2> QED
    BY <2>1, RankUnchanged
<1>2. Ended(Stages)' = Ended(Stages)
  BY DEF Ended, Executed
<1>3. SentOK(sent', issued', Ended(Stages)')
  BY <1>2 DEF RanksInv
<1> QED
  BY <1>1, <1>2, <1>3 DEF RanksInv

LEMMA EngineIdle ==
    ASSUME EngineInv, UNCHANGED <<issued, batchQ, results>>, Ended(Stages)' = Ended(Stages)
    PROVE  EngineInv'
<1>1. Processed' = Processed
  BY DEF Processed
<1> QED
  BY <1>1 DEF EngineInv, QueueSizes

LEMMA UpdateRing ==
    ASSUME RingInv, UpdateFromOutput
    PROVE  RingInv'
<1>1. SchedInv /\ EngineInv /\ RanksInv /\ QueueSizes /\ History(issued)
  BY RingParts DEF EngineInv, SchedInv
<1>2. SchedInv'
  BY <1>1, NextAnswerRight, UpdateStep
<1>3. /\ batchQ # <<>> /\ results # <<>> /\ batchQ' = Tail(batchQ) /\ results' = Tail(results)
      /\ UNCHANGED <<issued, inbox, hidden, reqStates, pending, received, sent, current>>
  BY DEF UpdateFromOutput
<1>4. RanksInv' /\ Ended(Stages)' = Ended(Stages)
  BY <1>1, <1>3, RanksIdle
<1> DEFINE E == Ended(Stages)
           P == Processed
<1>5. /\ P \in 0 .. Len(issued) /\ P + Len(batchQ) = Len(issued) /\ Len(batchQ) \in Nat
      /\ Len(issued) \in Nat
  BY <1>1, ProcessedNumbers
<1>6. /\ batchQ \in Seq(MessageSet) /\ Tail(batchQ) \in Seq(MessageSet) /\ Len(batchQ) # 0
      /\ Len(Tail(batchQ)) = Len(batchQ) - 1
      /\ \A k \in 1 .. Len(batchQ) - 1 : Tail(batchQ)[k] = batchQ[k + 1]
      /\ DOMAIN Tail(batchQ) = 1 .. Len(batchQ) - 1
  BY <1>1, <1>3 DEF QueueSizes
<1>7. Processed' = P + 1
  <2>1. Processed' = Len(issued') - Len(batchQ')
    BY DEF Processed
  <2>2. Processed' = Len(issued) - (Len(batchQ) - 1)
    BY <1>3, <1>6, <2>1
  <2> HIDE DEF P
  <2> QED
    BY <1>5, <2>2
<1>8. AnswersOK(results, issued, P, E)
  BY <1>1 DEF EngineInv
<1>9. \A k \in DOMAIN batchQ : batchQ[k] = issued[P + k]
  BY <1>1 DEF EngineInv
<1>10. E \in Nat
  <2>1. Stages \in Stage
    BY RingConstants DEF Stage
  <2>2. RankOK(Stages)
    BY <1>1, <2>1 DEF RanksInv
  <2>3. Executed(Stages) \in Nat /\ Ended(Stages) \in 0 .. Executed(Stages)
    BY <1>1, <2>1, <2>2, RankCounts
  <2> QED
    BY <2>3
<1> HIDE DEF E, P
<1>11. QueueSizes'
  <2>1. Len(batchQ') <= Len(issued')
    BY <1>3, <1>5, <1>6
  <2> QED
    BY <1>3, <1>6, <2>1 DEF QueueSizes
<1>12. \A k \in DOMAIN batchQ' : batchQ'[k] = issued'[Processed' + k]
  <2>1. ASSUME NEW k \in 1 .. Len(batchQ) - 1 PROVE batchQ'[k] = issued'[Processed' + k]
    <3>1. k + 1 \in DOMAIN batchQ /\ P + (k + 1) = Processed' + k
      BY <1>5, <1>6, <1>7
    <3> QED
      BY <1>3, <1>6, <1>9, <3>1
  <2> QED
    BY <1>3, <1>6, <2>1
<1>13. AnswersOK(results', issued', Processed', Ended(Stages)')
  <2>1. /\ results \in Seq([Client -> Text]) /\ Len(results) = E - P
        /\ \A k \in DOMAIN results : \A r \in Client : results[k][r] = AnswerOf(issued[P + k], r)
    BY <1>8 DEF AnswersOK
  <2>2. /\ Tail(results) \in Seq([Client -> Text]) /\ Len(results) \in Nat /\ Len(results) # 0
        /\ Len(Tail(results)) = Len(results) - 1
        /\ \A k \in 1 .. Len(results) - 1 : Tail(results)[k] = results[k + 1]
        /\ DOMAIN Tail(results) = 1 .. Len(results) - 1
    BY <1>3, <2>1
  <2>3. ASSUME NEW k \in 1 .. Len(results) - 1, NEW r \in Client
        PROVE  results'[k][r] = AnswerOf(issued'[Processed' + k], r)
    <3>1. k + 1 \in DOMAIN results /\ P + (k + 1) = Processed' + k
      BY <1>5, <1>7, <2>2
    <3> QED
      BY <1>3, <2>1, <2>2, <3>1
  <2>4. Len(results') = Ended(Stages)' - Processed'
    BY <1>3, <1>4, <1>5, <1>7, <1>10, <2>1, <2>2 DEF E
  <2>5. results' \in Seq([Client -> Text]) /\ DOMAIN results' = 1 .. Len(results) - 1
    BY <1>3, <2>2
  <2> QED
    BY <2>3, <2>4, <2>5 DEF AnswersOK
<1>14. EngineInv'
  BY <1>11, <1>12, <1>13 DEF EngineInv
<1>15. SchedInv' /\ EngineInv' /\ RanksInv'
  BY <1>2, <1>4, <1>14
<1> QED
  BY <1>15, RingParts, PTL

LEMMA AbortRing ==
    ASSUME RingInv, NEW r \in Client, AbortRequest(r)
    PROVE  RingInv'
<1>1. SchedInv /\ EngineInv /\ RanksInv
  BY RingParts
<1>2. UNCHANGED <<batchQ, issued, inbox, hidden, reqStates, pending, received, sent, current, results>>
  BY DEF AbortRequest, rankVars
<1>3. RanksInv' /\ Ended(Stages)' = Ended(Stages)
  BY <1>1, <1>2, RanksIdle
<1>4. SchedInv' /\ EngineInv'
  BY <1>1, <1>2, <1>3, AbortStep, EngineIdle
<1> QED
  BY <1>3, <1>4, RingParts, PTL

LEMMA ResetRing ==
    ASSUME RingInv, ResetRunning
    PROVE  RingInv'
<1>1. SchedInv /\ EngineInv /\ RanksInv
  BY RingParts
<1>2. UNCHANGED <<batchQ, issued, inbox, hidden, reqStates, pending, received, sent, current, results>>
  BY DEF ResetRunning, rankVars
<1>3. RanksInv' /\ Ended(Stages)' = Ended(Stages)
  BY <1>1, <1>2, RanksIdle
<1>4. SchedInv' /\ EngineInv'
  BY <1>1, <1>2, <1>3, ResetStep, EngineIdle
<1> QED
  BY <1>3, <1>4, RingParts, PTL

LEMMA IdleRing ==
    ASSUME RingInv, UNCHANGED ringVars
    PROVE  RingInv'
<1>1. SchedInv /\ EngineInv /\ RanksInv
  BY RingParts
<1>2. /\ UNCHANGED <<batchQ, issued, inbox, hidden, reqStates, pending, received, sent, current, results>>
      /\ UNCHANGED schedVars
  BY DEF ringVars, rankVars, schedVars
<1>3. RanksInv' /\ Ended(Stages)' = Ended(Stages)
  BY <1>1, <1>2, RanksIdle
<1>4. SchedInv' /\ EngineInv'
  BY <1>1, <1>2, <1>3, SchedulerIdle, EngineIdle
<1> QED
  BY <1>3, <1>4, RingParts, PTL

-----------------------------------------------------------------------------
(***************************************************************************)
(* A rank's tables: requests leave their slots.                            *)
(***************************************************************************)
LEMMA TableFields ==
    ASSUME NEW s \in TableSet
    PROVE  /\ s = [index |-> s.index, spare |-> s.spare, gen |-> s.gen, tab |-> s.tab]
           /\ s.index \in [Client -> 0 .. Slots] /\ s.spare \in Seq(1 .. Slots)
           /\ s.gen \in [1 .. Slots -> Nat] /\ s.tab \in [1 .. Slots -> TableRow]
BY DEF TableSet

LEMMA Removed ==
    ASSUME NEW s \in TableSet, SlotsOK(s), NEW r \in Client
    PROVE  LET t == RemoveRequest(s, r)
           IN  /\ t \in TableSet /\ SlotsOK(t) /\ t.tab = s.tab
               /\ \A q \in Client : t.index[q] = IF q = r THEN 0 ELSE s.index[q]
               /\ \A x \in 1 .. Slots : t.gen[x] = IF s.index[r] = x THEN s.gen[x] + 1 ELSE s.gen[x]
<1> DEFINE t == RemoveRequest(s, r)
           y == s.index[r]
<1>0. /\ s.index \in [Client -> 0 .. Slots] /\ s.spare \in Seq(1 .. Slots)
      /\ s.gen \in [1 .. Slots -> Nat] /\ s.tab \in [1 .. Slots -> TableRow]
      /\ y \in 0 .. Slots /\ Slots \in Nat
  BY TableFields, RingConstants
<1>1. CASE y = 0
  <2>1. t = s
    BY <1>1 DEF RemoveRequest
  <2>2. \A x \in 1 .. Slots : s.index[r] # x
    BY <1>1
  <2> QED
    BY <1>1, <2>1, <2>2
<1>2. CASE y # 0
  <2>0. y \in 1 .. Slots
    BY <1>0, <1>2
  <2>1. t = [s EXCEPT !.index[r] = 0, !.spare = Append(@, y), !.gen[y] = @ + 1]
    BY <1>2 DEF RemoveRequest
  <2>2. /\ t.index = [s.index EXCEPT ![r] = 0] /\ t.spare = Append(s.spare, y)
        /\ t.gen = [s.gen EXCEPT ![y] = @ + 1] /\ t.tab = s.tab
        /\ t = [index |-> t.index, spare |-> t.spare, gen |-> t.gen, tab |-> t.tab]
    <3> DEFINE I == s.index
               S == s.spare
               N == s.gen
               B == s.tab
               I1 == [I EXCEPT ![r] = 0]
               S1 == Append(S, y)
               N1 == [N EXCEPT ![y] = @ + 1]
               s1 == [s EXCEPT !.index = I1]
               s2 == [s1 EXCEPT !.spare = S1]
               s3 == [s2 EXCEPT !.gen = N1]
    <3>1. s = [index |-> I, spare |-> S, gen |-> N, tab |-> B]
      BY TableFields
    <3>2. t = s3
      <4>1. s1.spare = S
        BY <3>1
      <4>2. s2.gen = N
        BY <3>1
      <4> QED
        BY <2>1, <4>1, <4>2
    <3> HIDE DEF I, S, N, B, I1, S1, N1, y
    <3>3. s1 = [index |-> I1, spare |-> S, gen |-> N, tab |-> B]
      BY <3>1
    <3> HIDE DEF s1
    <3>4. s2 = [index |-> I1, spare |-> S1, gen |-> N, tab |-> B]
      BY <3>3
    <3> HIDE DEF s2
    <3>5. s3 = [index |-> I1, spare |-> S1, gen |-> N1, tab |-> B]
      BY <3>4
    <3>6. t = [index |-> I1, spare |-> S1, gen |-> N1, tab |-> B]
      BY <3>2, <3>5
    <3> HIDE DEF t
    <3>7. t.index = I1 /\ t.spare = S1 /\ t.gen = N1 /\ t.tab = B
          /\ t = [index |-> t.index, spare |-> t.spare, gen |-> t.gen, tab |-> t.tab]
      BY <3>6
    <3> QED
      BY <3>7 DEF I1, S1, N1, B, I, S, N
  <2> HIDE DEF t
  <2>3. t.index \in [Client -> 0 .. Slots] /\ \A q \in Client : t.index[q] = IF q = r THEN 0 ELSE s.index[q]
    BY <1>0, <2>2
  <2>4. t.gen \in [1 .. Slots -> Nat] /\ \A x \in 1 .. Slots : t.gen[x] = IF y = x THEN s.gen[x] + 1 ELSE s.gen[x]
    BY <1>0, <2>0, <2>2
  <2>5. y \notin Elems(s.spare)
    BY <1>2 DEF SlotsOK
  <2>6. Distinct(s.spare)
    BY DEF SlotsOK
  <2>7. t.spare \in Seq(1 .. Slots) /\ Elems(t.spare) = Elems(s.spare) \cup {y} /\ Distinct(t.spare)
    BY <1>0, <2>0, <2>2, <2>5, <2>6, ElemsAppend
  <2>8. t \in TableSet
    BY <1>0, <2>2, <2>3, <2>4, <2>7 DEF TableSet
  <2>9. \A q \in Client : t.index[q] # 0 => t.index[q] \notin Elems(t.spare)
    <3>1. \A q \in Client : q # r /\ s.index[q] # 0 => s.index[q] # y /\ s.index[q] \notin Elems(s.spare)
      BY <1>2 DEF SlotsOK
    <3> QED
      BY <2>3, <2>7, <3>1
  <2>10. \A p, q \in Client : t.index[p] = t.index[q] /\ t.index[p] # 0 => p = q
    BY <2>3 DEF SlotsOK
  <2>11. \A x \in 1 .. Slots : x \in Elems(t.spare) \/ \E q \in Client : t.index[q] = x
    <3>1. ASSUME NEW x \in 1 .. Slots, x \notin Elems(t.spare) PROVE \E q \in Client : t.index[q] = x
      <4>1. x \notin Elems(s.spare) /\ x # y
        BY <2>7, <3>1
      <4>2. PICK q \in Client : s.index[q] = x
        BY <4>1 DEF SlotsOK
      <4>3. q # r
        BY <4>1, <4>2
      <4> QED
        BY <2>3, <4>2, <4>3
    <3> QED
      BY <3>1
  <2>12. SlotsOK(t)
    BY <2>7, <2>9, <2>10, <2>11 DEF SlotsOK
  <2> QED
    BY <2>2, <2>3, <2>4, <2>8, <2>12 DEF t
<1> QED
  BY <1>1, <1>2

\* The clients up to the k-th have left, if they are to.
LeftUpTo(t, s, msg, k) ==
    /\ t \in TableSet /\ SlotsOK(t) /\ t.tab = s.tab
    /\ \A q \in Client : t.index[q] = IF q <= k /\ Leaves(msg, q) THEN 0 ELSE s.index[q]
    /\ \A x \in 1 .. Slots :
          t.gen[x] = IF \E q \in Client : q <= k /\ Leaves(msg, q) /\ s.index[q] = x
                     THEN s.gen[x] + 1 ELSE s.gen[x]

LEMMA FinishRec ==
    ASSUME NEW s \in TableSet, SlotsOK(s), NEW msg
    PROVE  \E g : /\ DOMAIN g = 0 .. NumClients /\ g[0] = s /\ FinishRequests(s, msg) = g[NumClients]
                  /\ \A k \in 1 .. NumClients :
                        g[k] = IF Leaves(msg, k) THEN RemoveRequest(g[k - 1], k) ELSE g[k - 1]
<1> DEFINE X == {t \in TableSet : SlotsOK(t)}
           step(k, t) == IF Leaves(msg, k) THEN RemoveRequest(t, k) ELSE t
           F == [k \in 1 .. NumClients |-> [t \in X |-> step(k, t)]]
           h(g, k) == IF k = 0 THEN s
                      ELSE IF k \in msg.fin \cup msg.pre THEN RemoveRequest(g[k - 1], k) ELSE g[k - 1]
           G(g) == g = [k \in 0 .. NumClients |-> h(g, k)]
<1>1. NumClients \in Nat /\ s \in X
  BY RingConstants
<1>2. StepsOver(F, NumClients, X)
  <2>1. ASSUME NEW k \in 1 .. NumClients, NEW t \in X PROVE step(k, t) \in X
    <3>1. k \in Client
      BY DEF Client
    <3> QED
      BY <3>1, Removed
  <2> QED
    BY <2>1 DEF StepsOver
<1>3. PICK f : RunOf(f, F, NumClients, X, s)
  BY <1>1, <1>2, Iterated
<1>4. /\ DOMAIN f = 0 .. NumClients /\ f[0] = s /\ f \in [0 .. NumClients -> X]
      /\ \A k \in 1 .. NumClients : f[k] = F[k][f[k - 1]]
  BY <1>3 DEF RunOf
<1>5. \A k \in 1 .. NumClients : f[k - 1] \in X
  BY <1>1, <1>4
<1>6. \A k \in 1 .. NumClients : f[k] = step(k, f[k - 1])
  BY <1>4, <1>5
<1>7. \A k \in 0 .. NumClients : f[k] = h(f, k)
  <2>1. ASSUME NEW k \in 0 .. NumClients PROVE f[k] = h(f, k)
    <3>1. CASE k = 0
      BY <1>4, <3>1
    <3>2. CASE k # 0
      <4>1. k \in 1 .. NumClients
        BY <1>1, <3>2
      <4> QED
        BY <1>6, <3>2, <4>1 DEF Leaves
    <3> QED
      BY <3>1, <3>2
  <2> QED
    BY <2>1
<1>8. G(f)
  BY <1>4, <1>7
<1> DEFINE left == CHOOSE g : G(g)
<1>9. G(left)
  BY <1>8
<1>10. FinishRequests(s, msg) = left[NumClients]
  BY DEF FinishRequests
<1> HIDE DEF left
<1>11. /\ DOMAIN left = 0 .. NumClients
       /\ \A k \in 0 .. NumClients : left[k] = h(left, k)
  BY <1>9
<1>12. left[0] = s
  BY <1>1, <1>11
<1>13. \A k \in 1 .. NumClients : left[k] = IF Leaves(msg, k) THEN RemoveRequest(left[k - 1], k) ELSE left[k - 1]
  BY <1>1, <1>11 DEF Leaves
<1> QED
  BY <1>10, <1>11, <1>12, <1>13

LEMMA Finished ==
    ASSUME NEW s \in TableSet, SlotsOK(s), NEW msg
    PROVE  LeftUpTo(FinishRequests(s, msg), s, msg, NumClients)
<1>1. PICK g : /\ DOMAIN g = 0 .. NumClients /\ g[0] = s /\ FinishRequests(s, msg) = g[NumClients]
               /\ \A k \in 1 .. NumClients :
                     g[k] = IF Leaves(msg, k) THEN RemoveRequest(g[k - 1], k) ELSE g[k - 1]
  BY FinishRec
<1>2. NumClients \in Nat /\ Client = 1 .. NumClients
  BY RingConstants DEF Client
<1> DEFINE T == {k \in 0 .. NumClients : LeftUpTo(g[k], s, msg, k)}
<1>3. 0 \in T
  <2>1. \A q \in Client : ~(q <= 0)
    BY <1>2
  <2> QED
    BY <1>1, <1>2, <2>1 DEF LeftUpTo
<1>4. ASSUME NEW k \in 1 .. NumClients, k - 1 \in T PROVE k \in T
  <2> DEFINE t == g[k - 1]
             u == g[k]
  <2>1. LeftUpTo(t, s, msg, k - 1) /\ k \in Client
    BY <1>2, <1>4
  <2>2. \A q \in Client : q <= k <=> q <= k - 1 \/ q = k
    BY <1>2
  <2>3. ~(k <= k - 1)
    BY <1>2
  <2>4. CASE Leaves(msg, k)
    <3>1. u = RemoveRequest(t, k)
      BY <1>1, <2>4
    <3> HIDE DEF t, u
    <3>2. /\ u \in TableSet /\ SlotsOK(u) /\ u.tab = t.tab
          /\ \A q \in Client : u.index[q] = IF q = k THEN 0 ELSE t.index[q]
          /\ \A x \in 1 .. Slots : u.gen[x] = IF t.index[k] = x THEN t.gen[x] + 1 ELSE t.gen[x]
      BY <2>1, <3>1, Removed DEF LeftUpTo
    <3>3. /\ t.index[k] = s.index[k] /\ t.tab = s.tab
          /\ \A q \in Client : t.index[q] = IF q <= k - 1 /\ Leaves(msg, q) THEN 0 ELSE s.index[q]
      BY <2>1, <2>3 DEF LeftUpTo
    <3>4. ASSUME NEW q \in Client PROVE u.index[q] = IF q <= k /\ Leaves(msg, q) THEN 0 ELSE s.index[q]
      BY <2>2, <2>4, <3>2, <3>3
    <3>5. ASSUME NEW x \in 1 .. Slots
          PROVE  u.gen[x] = IF \E q \in Client : q <= k /\ Leaves(msg, q) /\ s.index[q] = x
                            THEN s.gen[x] + 1 ELSE s.gen[x]
      <4>1. t.gen[x] = IF \E q \in Client : q <= k - 1 /\ Leaves(msg, q) /\ s.index[q] = x
                       THEN s.gen[x] + 1 ELSE s.gen[x]
        BY <2>1 DEF LeftUpTo
      <4>2. CASE s.index[k] = x
        <5>1. ~\E q \in Client : q <= k - 1 /\ Leaves(msg, q) /\ s.index[q] = x
          <6>1. x # 0
            BY RingConstants
          <6>2. \A q \in Client : s.index[q] = x => q = k
            BY <2>1, <4>2, <6>1 DEF SlotsOK
          <6> QED
            BY <2>3, <6>2
        <5>2. u.gen[x] = s.gen[x] + 1
          BY <3>2, <3>3, <4>1, <4>2, <5>1
        <5>3. \E q \in Client : q <= k /\ Leaves(msg, q) /\ s.index[q] = x
          BY <2>1, <2>2, <2>4, <4>2
        <5> QED
          BY <5>2, <5>3
      <4>3. CASE s.index[k] # x
        <5>1. u.gen[x] = t.gen[x]
          BY <3>2, <3>3, <4>3
        <5>2. (\E q \in Client : q <= k /\ Leaves(msg, q) /\ s.index[q] = x) <=>
              (\E q \in Client : q <= k - 1 /\ Leaves(msg, q) /\ s.index[q] = x)
          BY <2>2, <4>3
        <5> QED
          BY <4>1, <5>1, <5>2
      <4> QED
        BY <4>2, <4>3
    <3>6. LeftUpTo(u, s, msg, k)
      BY <3>2, <3>3, <3>4, <3>5 DEF LeftUpTo
    <3> QED
      BY <3>6 DEF u
  <2>5. CASE ~Leaves(msg, k)
    <3>1. u = t
      BY <1>1, <2>5
    <3>2. \A q \in Client : (q <= k /\ Leaves(msg, q)) <=> (q <= k - 1 /\ Leaves(msg, q))
      BY <2>2, <2>5
    <3> HIDE DEF t, u
    <3>3. LeftUpTo(u, s, msg, k)
      <4>1. /\ u \in TableSet /\ SlotsOK(u) /\ u.tab = s.tab
            /\ \A q \in Client : u.index[q] = IF q <= k - 1 /\ Leaves(msg, q) THEN 0 ELSE s.index[q]
        BY <2>1, <3>1 DEF LeftUpTo
      <4>2. \A x \in 1 .. Slots :
               u.gen[x] = IF \E q \in Client : q <= k - 1 /\ Leaves(msg, q) /\ s.index[q] = x
                          THEN s.gen[x] + 1 ELSE s.gen[x]
        BY <2>1, <3>1 DEF LeftUpTo
      <4>3. \A q \in Client : u.index[q] = IF q <= k /\ Leaves(msg, q) THEN 0 ELSE s.index[q]
        BY <3>2, <4>1
      <4>4. \A x \in 1 .. Slots :
               u.gen[x] = IF \E q \in Client : q <= k /\ Leaves(msg, q) /\ s.index[q] = x
                          THEN s.gen[x] + 1 ELSE s.gen[x]
        <5>1. \A x : (\E q \in Client : q <= k /\ Leaves(msg, q) /\ s.index[q] = x) <=>
                     (\E q \in Client : q <= k - 1 /\ Leaves(msg, q) /\ s.index[q] = x)
          BY <3>2
        <5> QED
          BY <4>2, <5>1
      <4> QED
        BY <4>1, <4>3, <4>4 DEF LeftUpTo
    <3> QED
      BY <3>3 DEF u
  <2> QED
    BY <2>4, <2>5
<1> HIDE DEF T
<1>5. \A k \in 0 .. NumClients : k \in T
  BY <1>2, <1>3, <1>4, Upwards
<1>6. NumClients \in T
  BY <1>2, <1>5
<1> QED
  BY <1>1, <1>6 DEF T

-----------------------------------------------------------------------------
(***************************************************************************)
(* New requests get spare slots.                                           *)
(***************************************************************************)

\* If some member of a set of at most Slots requests has no slot, one is spare.
LEMMA SpareLeft ==
    ASSUME NEW s \in TableSet, SlotsOK(s), NEW H \in SUBSET Client, Cardinality(H) <= Slots,
           \A q \in Client : s.index[q] # 0 => q \in H, NEW r \in H, s.index[r] = 0
    PROVE  s.spare # <<>>
<1> SUFFICES ASSUME s.spare = <<>> PROVE FALSE
  OBVIOUS
<1>1. Slots \in Nat \ {0}
  BY RingConstants
<1>2. Elems(s.spare) = {}
  BY DEF Elems
<1>3. \A x \in 1 .. Slots : \E q \in Client : s.index[q] = x
  BY <1>2 DEF SlotsOK
<1>4. \A x \in 1 .. Slots : \E q \in H \ {r} : s.index[q] = x
  <2>1. ASSUME NEW x \in 1 .. Slots PROVE \E q \in H \ {r} : s.index[q] = x
    <3>1. PICK q \in Client : s.index[q] = x
      BY <1>3
    <3>2. x # 0
      BY <1>1
    <3> QED
      BY <3>1, <3>2
  <2> QED
    BY <2>1
<1> DEFINE f == [x \in 1 .. Slots |-> CHOOSE q \in H \ {r} : s.index[q] = x]
<1>5. f \in [1 .. Slots -> H \ {r}] /\ \A x \in 1 .. Slots : s.index[f[x]] = x
  BY <1>4
<1> HIDE DEF f
<1>6. IsFiniteSet(H)
  <2>1. IsFiniteSet(Client)
    BY RingConstants, FS_Interval DEF Client
  <2> QED
    BY <2>1, FS_Subset
<1>7. /\ IsFiniteSet(H \ {r}) /\ Cardinality(H \ {r}) = Cardinality(H) - 1
      /\ Cardinality(H) \in Nat
  BY <1>6, FS_RemoveElement, FS_CardinalityType
<1>8. IsFiniteSet(1 .. Slots) /\ Cardinality(1 .. Slots) = Slots
  <2>1. 1 \in Int /\ Slots \in Int /\ ~(1 > Slots) /\ Slots - 1 + 1 = Slots
    BY <1>1
  <2> QED
    BY <2>1, FS_Interval
<1>9. Cardinality(H \ {r}) < Cardinality(1 .. Slots)
  BY <1>1, <1>7, <1>8
<1>10. PICK x, y \in 1 .. Slots : x # y /\ f[x] = f[y]
  <2> DEFINE A == 1 .. Slots
             B == H \ {r}
  <2>1. f \in [A -> B] /\ IsFiniteSet(A) /\ IsFiniteSet(B) /\ Cardinality(B) < Cardinality(A)
    BY <1>5, <1>7, <1>8, <1>9
  <2> HIDE DEF A, B
  <2>2. \E x, y \in A : x # y /\ f[x] = f[y]
    BY <2>1, FS_PigeonHole
  <2> QED
    BY <2>2 DEF A
<1> QED
  BY <1>5, <1>10

Fresh(row) == [ids |-> row.base, plen |-> Len(row.base), nc |-> 0, ncpu |-> 0, last |-> Absent,
               who |-> <<row.r, row.inc>>]

LEMMA FreshRow ==
    ASSUME NEW row \in RowSet
    PROVE  /\ Fresh(row) \in TableRow
           /\ [EmptyRow EXCEPT !.ids = row.base, !.plen = Len(row.base), !.who = <<row.r, row.inc>>] = Fresh(row)
<1>1. row.base \in Text /\ Len(row.base) \in Nat /\ row.r \in Client /\ row.inc \in Nat
  BY RowNumbers
<1>2. <<row.r, row.inc>> \in (Client \X Nat) \cup {Absent}
  BY <1>1
<1> DEFINE L == Len(row.base)
           w == <<row.r, row.inc>>
<1> HIDE DEF L, w
<1>3. [ids |-> row.base, plen |-> L, nc |-> 0, ncpu |-> 0, last |-> Absent, who |-> w] \in TableRow
  BY <1>1, <1>2 DEF TableRow, L, w
<1>4. [EmptyRow EXCEPT !.ids = row.base, !.plen = L, !.who = w] =
         [ids |-> row.base, plen |-> L, nc |-> 0, ncpu |-> 0, last |-> Absent, who |-> w]
  <2> DEFINE e1 == [EmptyRow EXCEPT !.ids = row.base]
             e2 == [e1 EXCEPT !.plen = L]
             e3 == [e2 EXCEPT !.who = w]
  <2>1. e1 = [ids |-> row.base, plen |-> 0, nc |-> 0, ncpu |-> 0, last |-> Absent, who |-> Absent]
    BY DEF EmptyRow
  <2>2. [EmptyRow EXCEPT !.ids = row.base, !.plen = L, !.who = w] = e3
    OBVIOUS
  <2> HIDE DEF e1
  <2>3. e2 = [ids |-> row.base, plen |-> L, nc |-> 0, ncpu |-> 0, last |-> Absent, who |-> Absent]
    BY <2>1
  <2> HIDE DEF e2
  <2>4. e3 = [ids |-> row.base, plen |-> L, nc |-> 0, ncpu |-> 0, last |-> Absent, who |-> w]
    BY <2>3
  <2> QED
    BY <2>2, <2>4
<1> QED
  BY <1>3, <1>4 DEF Fresh, L, w

LEMMA AddedOne ==
    ASSUME NEW s \in TableSet, SlotsOK(s), NEW row \in RowSet, s.index[row.r] = 0, s.spare # <<>>
    PROVE  LET u == AddRequest(s, row)
           IN  /\ u \in TableSet /\ SlotsOK(u) /\ u.gen = s.gen
               /\ u.index[row.r] # 0 /\ u.tab[u.index[row.r]] = Fresh(row)
               /\ \A q \in Client \ {row.r} :
                     /\ u.index[q] = s.index[q]
                     /\ s.index[q] # 0 => u.tab[s.index[q]] = s.tab[s.index[q]]
<1> DEFINE u == AddRequest(s, row)
           n == Len(s.spare)
           i == s.spare[n]
           r == row.r
<1>0. /\ s.index \in [Client -> 0 .. Slots] /\ s.spare \in Seq(1 .. Slots)
      /\ s.gen \in [1 .. Slots -> Nat] /\ s.tab \in [1 .. Slots -> TableRow]
      /\ Slots \in Nat /\ r \in Client
  BY TableFields, RingConstants, RowNumbers
<1>1. n \in Nat \ {0} /\ i \in 1 .. Slots /\ i # 0
  BY <1>0
<1>2. RemoveRequest(s, r) = s
  BY DEF RemoveRequest
<1> DEFINE cut == SubSeq(s.spare, 1, n - 1)
<1>3. /\ cut \in Seq(1 .. Slots) /\ Distinct(cut)
      /\ Elems(cut) \cup {i} = Elems(s.spare) /\ i \notin Elems(cut)
  <2> DEFINE l == SubSeq(s.spare, n - 1 + 1, n)
  <2>1. 1 \in 0 .. n
    BY <1>1
  <2>2. /\ cut \in Seq(1 .. Slots) /\ l \in Seq(1 .. Slots) /\ Len(l) = 1
        /\ Elems(cut) \cup Elems(l) = Elems(s.spare)
        /\ Distinct(cut) /\ Elems(cut) \cap Elems(l) = {}
    <3>1. Distinct(s.spare)
      BY DEF SlotsOK
    <3> DEFINE S == s.spare
               A == 1 .. Slots
    <3>2. S \in Seq(A) /\ 1 \in 0 .. Len(S) /\ Distinct(S)
      BY <1>0, <2>1, <3>1
    <3>3. cut = SubSeq(S, 1, Len(S) - 1) /\ l = SubSeq(S, Len(S) - 1 + 1, Len(S))
      OBVIOUS
    <3> HIDE DEF S, A, cut, l
    <3>4. /\ cut \in Seq(A) /\ l \in Seq(A) /\ Len(l) = 1
          /\ Elems(cut) \cup Elems(l) = Elems(S)
          /\ Distinct(cut) /\ Elems(cut) \cap Elems(l) = {}
      BY <3>2, <3>3, CutElems
    <3> QED
      BY <3>4 DEF S, A
  <2>3. l[1] = i
    BY <1>0, <1>1
  <2>4. Elems(l) = {i}
    <3> HIDE DEF l
    <3> QED
      BY <2>2, <2>3, ElemsOf
  <2> QED
    BY <2>2, <2>4
<1> DEFINE I == s.index
           S == s.spare
           N == s.gen
           B == s.tab
           I1 == [I EXCEPT ![r] = i]
           B1 == [B EXCEPT ![i] = Fresh(row)]
           s1 == [s EXCEPT !.index = I1]
           s2 == [s1 EXCEPT !.spare = cut]
           s3 == [s2 EXCEPT !.tab = B1]
<1>4. u.index = I1 /\ u.spare = cut /\ u.gen = N /\ u.tab = B1
      /\ u = [index |-> u.index, spare |-> u.spare, gen |-> u.gen, tab |-> u.tab]
  <2>1. s = [index |-> I, spare |-> S, gen |-> N, tab |-> B]
    BY TableFields
  <2>2. u = s3
    <3>1. s1.spare = S /\ s2.tab = B
      BY <2>1
    <3> QED
      BY <1>2, <3>1, FreshRow DEF AddRequest
  <2> HIDE DEF I, S, N, B, I1, B1, cut, i, n, r
  <2>3. s1 = [index |-> I1, spare |-> S, gen |-> N, tab |-> B]
    BY <2>1
  <2> HIDE DEF s1
  <2>4. s2 = [index |-> I1, spare |-> cut, gen |-> N, tab |-> B]
    BY <2>3
  <2> HIDE DEF s2
  <2>5. s3 = [index |-> I1, spare |-> cut, gen |-> N, tab |-> B1]
    BY <2>4
  <2>6. u = [index |-> I1, spare |-> cut, gen |-> N, tab |-> B1]
    BY <2>2, <2>5
  <2> HIDE DEF u
  <2> QED
    BY <2>6
<1> HIDE DEF u, cut, i, n
<1>5. u.index \in [Client -> 0 .. Slots] /\ \A q \in Client : u.index[q] = IF q = r THEN i ELSE s.index[q]
  BY <1>0, <1>1, <1>4
<1>6. u.tab \in [1 .. Slots -> TableRow] /\ \A x \in 1 .. Slots : u.tab[x] = IF x = i THEN Fresh(row) ELSE s.tab[x]
  <2>1. Fresh(row) \in TableRow
    BY FreshRow
  <2> QED
    BY <1>0, <1>1, <1>4, <2>1
<1>7. u \in TableSet
  BY <1>0, <1>3, <1>4, <1>5, <1>6 DEF TableSet
<1>8. \A q \in Client : s.index[q] # 0 => s.index[q] # i /\ s.index[q] \notin Elems(cut)
  BY <1>3 DEF SlotsOK
<1>9. SlotsOK(u)
  <2>1. \A q \in Client : u.index[q] # 0 => u.index[q] \notin Elems(u.spare)
    BY <1>3, <1>4, <1>5, <1>8
  <2>2. \A p, q \in Client : u.index[p] = u.index[q] /\ u.index[p] # 0 => p = q
    BY <1>5, <1>8 DEF SlotsOK
  <2>3. ASSUME NEW x \in 1 .. Slots PROVE x \in Elems(u.spare) \/ \E q \in Client : u.index[q] = x
    <3>1. CASE x = i
      BY <1>0, <1>5, <3>1
    <3>2. CASE x # i /\ x \in Elems(s.spare)
      BY <1>3, <1>4, <3>2
    <3>3. CASE x \notin Elems(s.spare)
      <4>1. PICK q \in Client : s.index[q] = x
        BY <3>3 DEF SlotsOK
      <4>2. x # 0
        BY <1>0
      <4> QED
        BY <1>5, <4>1, <4>2
    <3> QED
      BY <3>1, <3>2, <3>3
  <2> QED
    BY <1>3, <1>4, <2>1, <2>2, <2>3 DEF SlotsOK
<1>10. u.index[r] # 0 /\ u.tab[u.index[r]] = Fresh(row)
  BY <1>0, <1>1, <1>5, <1>6
<1>11. ASSUME NEW q \in Client \ {r}
       PROVE  u.index[q] = s.index[q] /\ (s.index[q] # 0 => u.tab[s.index[q]] = s.tab[s.index[q]])
  <2>1. u.index[q] = s.index[q]
    BY <1>5
  <2>2. s.index[q] # 0 => s.index[q] \in 1 .. Slots /\ s.index[q] # i
    BY <1>0, <1>8
  <2> QED
    BY <1>6, <2>1, <2>2
<1> QED
  BY <1>4, <1>7, <1>9, <1>10, <1>11 DEF u

NewRowAt(msg, k) == msg.rows[Len(msg.rows) - msg.new + k]
NewBefore(msg, q, k) == \E j \in 1 .. k : NewRowAt(msg, j).r = q

LEMMA NewRowFacts ==
    ASSUME NEW msg \in MessageSet, RowsDistinct(msg), msg.new <= Len(msg.rows)
    PROVE  /\ msg.new \in Nat
           /\ \A q : NewBefore(msg, q, msg.new) <=> NewIn(msg, q)
           /\ \A q : ~NewBefore(msg, q, 0)
           /\ \A k \in 1 .. msg.new :
                 LET row == NewRowAt(msg, k)
                 IN  /\ row \in RowSet /\ row.r \in Client /\ RowOf(msg, row.r) = row
                     /\ NewIn(msg, row.r) /\ ~NewBefore(msg, row.r, k - 1)
                     /\ \A q : NewBefore(msg, q, k) <=> NewBefore(msg, q, k - 1) \/ q = row.r
<1> DEFINE L == Len(msg.rows)
           n == msg.new
<1>1. msg.rows \in Seq(RowSet) /\ L \in Nat /\ n \in Nat /\ n <= L /\ DOMAIN msg.rows = 1 .. L
  BY DEF MessageSet
<1> HIDE DEF L, n
<1>2. \A k \in 1 .. n : L - n + k \in DOMAIN msg.rows /\ L - n + k > L - n /\ NewRowAt(msg, k) = msg.rows[L - n + k]
  BY <1>1 DEF NewRowAt, L, n
<1>3. ASSUME NEW q PROVE NewBefore(msg, q, n) <=> NewIn(msg, q)
  <2>1. ASSUME NewBefore(msg, q, n) PROVE NewIn(msg, q)
    BY <1>2, <2>1 DEF NewBefore, NewIn, L, n
  <2>2. ASSUME NewIn(msg, q) PROVE NewBefore(msg, q, n)
    <3>1. PICK j \in 1 .. L : j > L - n /\ msg.rows[j].r = q
      BY <1>1, <2>2 DEF NewIn, L, n
    <3>2. j - (L - n) \in 1 .. n /\ L - n + (j - (L - n)) = j
      BY <1>1, <3>1
    <3> QED
      BY <1>2, <3>1, <3>2 DEF NewBefore
  <2> QED
    BY <2>1, <2>2
<1>4. \A q : ~NewBefore(msg, q, 0)
  BY DEF NewBefore
<1>5. ASSUME NEW k \in 1 .. n
      PROVE  LET row == NewRowAt(msg, k)
             IN  /\ row \in RowSet /\ row.r \in Client /\ RowOf(msg, row.r) = row
                 /\ NewIn(msg, row.r) /\ ~NewBefore(msg, row.r, k - 1)
                 /\ \A q : NewBefore(msg, q, k) <=> NewBefore(msg, q, k - 1) \/ q = row.r
  <2> DEFINE row == NewRowAt(msg, k)
  <2>1. row = msg.rows[L - n + k] /\ L - n + k \in DOMAIN msg.rows
    BY <1>2
  <2>2. row \in RowSet /\ row.r \in Client /\ RowOf(msg, row.r) = row
    BY <2>1, RowIs, RowNumbers
  <2>3. NewBefore(msg, row.r, n)
    BY DEF NewBefore
  <2>4. ~NewBefore(msg, row.r, k - 1)
    <3> SUFFICES ASSUME NEW j \in 1 .. k - 1, NewRowAt(msg, j).r = row.r PROVE FALSE
      BY DEF NewBefore
    <3>1. j \in 1 .. n /\ j # k
      BY <1>1
    <3>2. L - n + j = L - n + k
      BY <1>2, <2>1, <3>1 DEF RowsDistinct
    <3> QED
      BY <1>1, <3>1, <3>2
  <2>5. \A j : j \in 1 .. k <=> j \in 1 .. k - 1 \/ j = k
    BY <1>1
  <2>6. \A q : NewBefore(msg, q, k) <=> NewBefore(msg, q, k - 1) \/ q = row.r
    BY <2>5 DEF NewBefore
  <2> QED
    BY <1>3, <2>2, <2>3, <2>4, <2>6
<1> QED
  BY <1>1, <1>3, <1>4, <1>5 DEF n

\* The requests of H, those with a slot and the new ones, fit into the tables.
HasRoom(s, msg, H) ==
    /\ s \in TableSet /\ SlotsOK(s) /\ H \in SUBSET Client /\ Cardinality(H) <= Slots
    /\ msg \in MessageSet /\ RowsDistinct(msg) /\ msg.new <= Len(msg.rows)
    /\ \A q \in Client : s.index[q] # 0 => q \in H
    /\ \A q \in Client : NewIn(msg, q) => q \in H /\ s.index[q] = 0

\* The first k new requests have been added.
AddedUpTo(u, s, msg, k) ==
    /\ u \in TableSet /\ SlotsOK(u) /\ u.gen = s.gen
    /\ \A q \in Client :
          IF NewBefore(msg, q, k)
          THEN u.index[q] # 0 /\ u.tab[u.index[q]] = Fresh(RowOf(msg, q))
          ELSE /\ u.index[q] = s.index[q]
               /\ s.index[q] # 0 => u.tab[s.index[q]] = s.tab[s.index[q]]

LEMMA AddNext ==
    ASSUME NEW s, NEW msg, NEW H, HasRoom(s, msg, H), NEW k \in 1 .. msg.new, NEW t,
           AddedUpTo(t, s, msg, k - 1)
    PROVE  AddedUpTo(AddRequest(t, NewRowAt(msg, k)), s, msg, k)
<1> DEFINE row == NewRowAt(msg, k)
           r == row.r
           u == AddRequest(t, row)
<1>1. /\ row \in RowSet /\ r \in Client /\ RowOf(msg, r) = row
      /\ NewIn(msg, r) /\ ~NewBefore(msg, r, k - 1)
      /\ \A q : NewBefore(msg, q, k) <=> NewBefore(msg, q, k - 1) \/ q = r
      /\ \A q : NewBefore(msg, q, k - 1) => NewIn(msg, q)
  <2>0. msg \in MessageSet /\ RowsDistinct(msg) /\ msg.new <= Len(msg.rows)
    BY DEF HasRoom
  <2>1. /\ row \in RowSet /\ r \in Client /\ RowOf(msg, r) = row
        /\ NewIn(msg, r) /\ ~NewBefore(msg, r, k - 1)
        /\ \A q : NewBefore(msg, q, k) <=> NewBefore(msg, q, k - 1) \/ q = r
    BY <2>0, NewRowFacts
  <2>2. msg.new \in Nat /\ \A q : NewBefore(msg, q, msg.new) <=> NewIn(msg, q)
    BY <2>0, NewRowFacts
  <2>3. \A q : NewBefore(msg, q, k - 1) => NewBefore(msg, q, msg.new)
    BY <2>2 DEF NewBefore
  <2> QED
    BY <2>1, <2>2, <2>3
<1> HIDE DEF row
<1>2. t \in TableSet /\ SlotsOK(t) /\ t.gen = s.gen
  BY DEF AddedUpTo
<1>3. t.index[r] = 0
  BY <1>1 DEF AddedUpTo, HasRoom
<1>4. \A q \in Client : t.index[q] # 0 => q \in H
  BY <1>1 DEF AddedUpTo, HasRoom
<1>5. t.spare # <<>>
  <2>1. H \in SUBSET Client /\ Cardinality(H) <= Slots /\ r \in H
    BY <1>1 DEF HasRoom
  <2> QED
    BY <1>2, <1>3, <1>4, <2>1, SpareLeft
<1>6. /\ u \in TableSet /\ SlotsOK(u) /\ u.gen = t.gen
      /\ u.index[r] # 0 /\ u.tab[u.index[r]] = Fresh(row)
      /\ \A q \in Client \ {r} :
            /\ u.index[q] = t.index[q]
            /\ t.index[q] # 0 => u.tab[t.index[q]] = t.tab[t.index[q]]
  BY <1>1, <1>2, <1>3, <1>5, AddedOne
<1> HIDE DEF u
<1>7. ASSUME NEW q \in Client
      PROVE  IF NewBefore(msg, q, k)
             THEN u.index[q] # 0 /\ u.tab[u.index[q]] = Fresh(RowOf(msg, q))
             ELSE /\ u.index[q] = s.index[q]
                  /\ s.index[q] # 0 => u.tab[s.index[q]] = s.tab[s.index[q]]
  <2>1. CASE q = r
    BY <1>1, <1>6, <2>1
  <2>2. CASE q # r
    <3>1. /\ u.index[q] = t.index[q]
          /\ t.index[q] # 0 => u.tab[t.index[q]] = t.tab[t.index[q]]
      BY <1>6, <2>2
    <3>2. IF NewBefore(msg, q, k - 1)
          THEN t.index[q] # 0 /\ t.tab[t.index[q]] = Fresh(RowOf(msg, q))
          ELSE /\ t.index[q] = s.index[q]
               /\ s.index[q] # 0 => t.tab[s.index[q]] = s.tab[s.index[q]]
      BY DEF AddedUpTo
    <3>3. NewBefore(msg, q, k) <=> NewBefore(msg, q, k - 1)
      BY <1>1, <2>2
    <3> QED
      BY <3>1, <3>2, <3>3
  <2> QED
    BY <2>1, <2>2
<1>8. AddedUpTo(u, s, msg, k)
  BY <1>2, <1>6, <1>7 DEF AddedUpTo
<1> QED
  BY <1>8 DEF u, row

LEMMA AddNone ==
    ASSUME NEW s, NEW msg, NEW H, HasRoom(s, msg, H)
    PROVE  AddedUpTo(s, s, msg, 0)
<1>1. \A q : ~NewBefore(msg, q, 0)
  BY DEF NewBefore
<1> QED
  BY <1>1 DEF AddedUpTo, HasRoom

LEMMA AddRec ==
    ASSUME NEW s, NEW msg, NEW H, HasRoom(s, msg, H)
    PROVE  \E g : /\ DOMAIN g = 0 .. msg.new /\ g[0] = s /\ AddRequests(s, msg) = g[msg.new]
                  /\ \A k \in 1 .. msg.new : g[k] = AddRequest(g[k - 1], NewRowAt(msg, k))
<1> DEFINE n == msg.new
           X == TableSet
           step(k, t) == IF AddedUpTo(t, s, msg, k - 1) THEN AddRequest(t, NewRowAt(msg, k)) ELSE t
           F == [k \in 1 .. n |-> [t \in X |-> step(k, t)]]
           h(g, k) == IF k = 0 THEN s
                      ELSE AddRequest(g[k - 1], msg.rows[Len(msg.rows) - msg.new + k])
           G(g) == g = [k \in 0 .. n |-> h(g, k)]
<1>1. n \in Nat /\ s \in X
  BY DEF HasRoom, MessageSet
<1>2. StepsOver(F, n, X)
  <2>1. ASSUME NEW k \in 1 .. n, NEW t \in X PROVE step(k, t) \in X
    <3>1. CASE AddedUpTo(t, s, msg, k - 1)
      <4>1. AddedUpTo(AddRequest(t, NewRowAt(msg, k)), s, msg, k)
        BY <3>1, AddNext
      <4> QED
        BY <3>1, <4>1 DEF AddedUpTo
    <3>2. CASE ~AddedUpTo(t, s, msg, k - 1)
      BY <3>2
    <3> QED
      BY <3>1, <3>2
  <2> HIDE DEF n, X, step
  <2> QED
    BY <2>1 DEF StepsOver
<1>3. PICK f : RunOf(f, F, n, X, s)
  <2> HIDE DEF F, n, X
  <2> QED
    BY <1>1, <1>2, Iterated
<1>4. /\ DOMAIN f = 0 .. n /\ f[0] = s /\ f \in [0 .. n -> X]
      /\ \A k \in 1 .. n : f[k] = F[k][f[k - 1]]
  BY <1>3 DEF RunOf
<1>5. \A k \in 1 .. n : f[k - 1] \in X
  BY <1>1, <1>4
<1>6. \A k \in 1 .. n : f[k] = step(k, f[k - 1])
  <2> HIDE DEF step, n, X
  <2> QED
    BY <1>4, <1>5
<1> DEFINE T == {k \in 0 .. n : AddedUpTo(f[k], s, msg, k)}
<1>7. 0 \in T
  BY <1>1, <1>4, AddNone
<1>8. ASSUME NEW k \in 1 .. n, k - 1 \in T PROVE k \in T
  <2>1. AddedUpTo(f[k - 1], s, msg, k - 1)
    BY <1>8
  <2>2. f[k] = AddRequest(f[k - 1], NewRowAt(msg, k))
    BY <1>6, <2>1
  <2>3. AddedUpTo(f[k], s, msg, k)
    BY <2>1, <2>2, AddNext
  <2> QED
    BY <1>1, <2>3
<1>9. \A k \in 0 .. n : k \in T
  <2> HIDE DEF T, n
  <2> QED
    BY <1>1, <1>7, <1>8, Upwards
<1>10. \A k \in 1 .. n : f[k] = AddRequest(f[k - 1], NewRowAt(msg, k))
  <2>1. ASSUME NEW k \in 1 .. n PROVE f[k] = AddRequest(f[k - 1], NewRowAt(msg, k))
    <3>1. k - 1 \in 0 .. n
      BY <1>1
    <3>2. AddedUpTo(f[k - 1], s, msg, k - 1)
      BY <1>9, <3>1
    <3> QED
      BY <1>6, <3>2
  <2> QED
    BY <2>1
<1>11. \A k \in 0 .. n : f[k] = h(f, k)
  <2>1. ASSUME NEW k \in 0 .. n PROVE f[k] = h(f, k)
    <3>1. CASE k = 0
      BY <1>4, <3>1
    <3>2. CASE k # 0
      <4>1. k \in 1 .. n
        BY <1>1, <3>2
      <4> QED
        BY <1>10, <3>2, <4>1 DEF NewRowAt
    <3> QED
      BY <3>1, <3>2
  <2> QED
    BY <2>1
<1>12. G(f)
  BY <1>4, <1>11
<1> DEFINE added == CHOOSE g : G(g)
<1>13. G(added)
  BY <1>12
<1>14. AddRequests(s, msg) = added[n]
  BY DEF AddRequests
<1> HIDE DEF added
<1>15. DOMAIN added = 0 .. n /\ \A k \in 0 .. n : added[k] = h(added, k)
  BY <1>13
<1>16. added[0] = s
  BY <1>1, <1>15
<1>17. \A k \in 1 .. n : added[k] = AddRequest(added[k - 1], NewRowAt(msg, k))
  BY <1>1, <1>15 DEF NewRowAt
<1> QED
  BY <1>14, <1>15, <1>16, <1>17

LEMMA Added ==
    ASSUME NEW s, NEW msg, NEW H, HasRoom(s, msg, H)
    PROVE  LET u == AddRequests(s, msg)
           IN  /\ u \in TableSet /\ SlotsOK(u) /\ u.gen = s.gen
               /\ \A q \in Client :
                     IF NewIn(msg, q)
                     THEN u.index[q] # 0 /\ u.tab[u.index[q]] = Fresh(RowOf(msg, q))
                     ELSE /\ u.index[q] = s.index[q]
                          /\ s.index[q] # 0 => u.tab[s.index[q]] = s.tab[s.index[q]]
<1>1. PICK g : /\ DOMAIN g = 0 .. msg.new /\ g[0] = s /\ AddRequests(s, msg) = g[msg.new]
               /\ \A k \in 1 .. msg.new : g[k] = AddRequest(g[k - 1], NewRowAt(msg, k))
  BY AddRec
<1>2. msg.new \in Nat /\ \A q : NewBefore(msg, q, msg.new) <=> NewIn(msg, q)
  BY NewRowFacts DEF HasRoom
<1> DEFINE n == msg.new
           T == {k \in 0 .. n : AddedUpTo(g[k], s, msg, k)}
<1>3. 0 \in T
  BY <1>1, <1>2, AddNone
<1>4. ASSUME NEW k \in 1 .. n, k - 1 \in T PROVE k \in T
  <2>1. AddedUpTo(g[k], s, msg, k)
    BY <1>1, <1>4, AddNext
  <2> QED
    BY <1>2, <2>1
<1>5. \A k \in 0 .. n : k \in T
  <2> HIDE DEF T, n
  <2>1. n \in Nat
    BY <1>2 DEF n
  <2> QED
    BY <1>3, <1>4, <2>1, Upwards
<1>6. AddedUpTo(AddRequests(s, msg), s, msg, n)
  <2>1. n \in 0 .. n
    BY <1>2
  <2> QED
    BY <1>1, <1>5, <2>1
<1> QED
  BY <1>2, <1>6 DEF AddedUpTo

-----------------------------------------------------------------------------
(***************************************************************************)
(* Updates of the tables' rows.                                            *)
(***************************************************************************)
LEMMA TableRowFields ==
    ASSUME NEW t \in TableRow
    PROVE  /\ t = [ids |-> t.ids, plen |-> t.plen, nc |-> t.nc, ncpu |-> t.ncpu, last |-> t.last, who |-> t.who]
           /\ t.ids \in Text /\ t.ids \in Seq(Token) /\ Len(t.ids) \in Nat
           /\ t.plen \in Nat /\ t.nc \in Nat /\ t.ncpu \in Nat
           /\ t.last \in Token \cup {Absent} /\ t.who \in (Client \X Nat) \cup {Absent}
BY DEF TableRow, Text

WithCount(t, n) == [t EXCEPT !.ncpu = n]

LEMMA WithCountRow ==
    ASSUME NEW t \in TableRow, NEW n \in Nat
    PROVE  LET u == WithCount(t, n)
           IN  /\ u \in TableRow /\ u.ncpu = n
               /\ u.ids = t.ids /\ u.plen = t.plen /\ u.nc = t.nc /\ u.last = t.last /\ u.who = t.who
BY DEF TableRow, WithCount

LEMMA FurtherRow ==
    ASSUME NEW t \in TableRow, NEW n \in Nat
    PROVE  LET u == Further(t, n)
           IN  /\ u \in TableRow /\ u.nc = t.nc + n
               /\ u.ids = t.ids /\ u.plen = t.plen /\ u.ncpu = t.ncpu /\ u.last = t.last /\ u.who = t.who
BY DEF TableRow, Further

LEMMA WithTokenRow ==
    ASSUME NEW t \in TableRow, NEW tok \in Token
    PROVE  LET u == WithToken(t, tok)
           IN  /\ u \in TableRow /\ u.ids = Append(t.ids, tok) /\ u.last = tok
               /\ u.plen = t.plen /\ u.nc = t.nc /\ u.ncpu = t.ncpu /\ u.who = t.who
<1> DEFINE I == Append(t.ids, tok)
           u1 == [t EXCEPT !.last = tok]
           u2 == [u1 EXCEPT !.ids = I]
<1>0. /\ t.ids \in Text /\ t.plen \in Nat /\ t.nc \in Nat /\ t.ncpu \in Nat
      /\ t.who \in (Client \X Nat) \cup {Absent}
  BY TableRowFields
<1>1. t = [ids |-> t.ids, plen |-> t.plen, nc |-> t.nc, ncpu |-> t.ncpu, last |-> t.last, who |-> t.who]
  BY TableRowFields
<1>2. WithToken(t, tok) = u2
  <2>1. u1.ids = t.ids
    BY <1>1
  <2> QED
    BY <2>1 DEF WithToken
<1>3. I \in Text
  BY <1>0 DEF Text
<1> HIDE DEF I
<1>4. u1 = [ids |-> t.ids, plen |-> t.plen, nc |-> t.nc, ncpu |-> t.ncpu, last |-> tok, who |-> t.who]
  BY <1>1
<1> HIDE DEF u1
<1>5. u2 = [ids |-> I, plen |-> t.plen, nc |-> t.nc, ncpu |-> t.ncpu, last |-> tok, who |-> t.who]
  BY <1>4
<1>6. tok \in Token \cup {Absent}
  OBVIOUS
<1>7. [ids |-> I, plen |-> t.plen, nc |-> t.nc, ncpu |-> t.ncpu, last |-> tok, who |-> t.who] \in TableRow
  BY <1>0, <1>3, <1>6 DEF TableRow
<1> QED
  BY <1>2, <1>5, <1>7 DEF I

\* Only the rows of the tables change.
LEMMA NewTable ==
    ASSUME NEW s \in TableSet, NEW B \in [1 .. Slots -> TableRow],
           NEW u, u = [s EXCEPT !.tab = B]
    PROVE  /\ u \in TableSet /\ u.tab = B
           /\ u.index = s.index /\ u.spare = s.spare /\ u.gen = s.gen
           /\ SlotsOK(s) => SlotsOK(u)
<1>1. s = [index |-> s.index, spare |-> s.spare, gen |-> s.gen, tab |-> s.tab]
  BY TableFields
<1>2. u = [index |-> s.index, spare |-> s.spare, gen |-> s.gen, tab |-> B]
  BY <1>1
<1>3. u \in TableSet
  BY <1>2, TableFields DEF TableSet
<1> QED
  BY <1>2, <1>3 DEF SlotsOK

LEMMA Updated ==
    ASSUME NEW s \in TableSet, SlotsOK(s), NEW msg \in MessageSet, RowsDistinct(msg),
           msg.new <= Len(msg.rows),
           \A r \in Client : Has(msg, r) => s.index[r] # 0
    PROVE  LET u == UpdateRequests(s, msg)
           IN  /\ u \in TableSet /\ SlotsOK(u) /\ u.index = s.index /\ u.gen = s.gen
               /\ \A r \in Client : s.index[r] # 0 =>
                     u.tab[s.index[r]] = IF Has(msg, r) /\ ~NewIn(msg, r)
                                         THEN WithCount(s.tab[s.index[r]], RowOf(msg, r).nc)
                                         ELSE s.tab[s.index[r]]
<1> DEFINE old == 1 .. Len(msg.rows) - msg.new
           row(j) == msg.rows[j]
           at(x) == CHOOSE j \in old : s.index[row(j).r] = x
           B == [x \in 1 .. Slots |->
                   IF \E j \in old : s.index[row(j).r] = x
                   THEN WithCount(s.tab[x], row(at(x)).nc) ELSE s.tab[x]]
           u == UpdateRequests(s, msg)
<1>1. /\ s.index \in [Client -> 0 .. Slots] /\ s.tab \in [1 .. Slots -> TableRow] /\ Slots \in Nat
  BY TableFields, RingConstants
<1>2. /\ Len(msg.rows) \in Nat /\ msg.new \in Nat /\ DOMAIN msg.rows = 1 .. Len(msg.rows)
      /\ old \subseteq DOMAIN msg.rows /\ \A j \in DOMAIN msg.rows : j \in old <=> ~(j > Len(msg.rows) - msg.new)
  BY DEF MessageSet
<1>3. \A j \in DOMAIN msg.rows : row(j) \in RowSet /\ row(j).r \in Client /\ row(j).nc \in Nat
                                 /\ Has(msg, row(j).r) /\ RowOf(msg, row(j).r) = row(j)
  BY RowIs, RowNumbers
<1>4. u = [s EXCEPT !.tab = B]
  BY <1>1 DEF UpdateRequests, WithCount
<1>5. B \in [1 .. Slots -> TableRow]
  <2>1. ASSUME NEW x \in 1 .. Slots, \E j \in old : s.index[row(j).r] = x
        PROVE  WithCount(s.tab[x], row(at(x)).nc) \in TableRow
    <3>1. at(x) \in old
      BY <2>1
    <3> HIDE DEF at, old
    <3>2. row(at(x)).nc \in Nat /\ s.tab[x] \in TableRow
      BY <1>1, <1>2, <1>3, <3>1
    <3> QED
      BY <3>2, WithCountRow
  <2>2. \A x \in 1 .. Slots : s.tab[x] \in TableRow
    BY <1>1
  <2> HIDE DEF at, old
  <2> QED
    BY <2>1, <2>2
<1>6. \A x \in 1 .. Slots : B[x] = IF \E j \in old : s.index[row(j).r] = x
                                   THEN WithCount(s.tab[x], row(at(x)).nc) ELSE s.tab[x]
  OBVIOUS
<1> HIDE DEF B, u, old, at
<1>7. u \in TableSet /\ SlotsOK(u) /\ u.index = s.index /\ u.gen = s.gen /\ u.tab = B
  BY <1>4, <1>5, NewTable
<1>8. ASSUME NEW r \in Client, s.index[r] # 0
      PROVE  B[s.index[r]] = IF Has(msg, r) /\ ~NewIn(msg, r)
                             THEN WithCount(s.tab[s.index[r]], RowOf(msg, r).nc)
                             ELSE s.tab[s.index[r]]
  <2> DEFINE x == s.index[r]
  <2>1. x \in 1 .. Slots
    BY <1>1, <1>8
  <2>2. \A j \in old : s.index[row(j).r] = x => row(j).r = r
    BY <1>2, <1>3, <1>8 DEF SlotsOK
  <2>3. ASSUME Has(msg, r), ~NewIn(msg, r) PROVE \E j \in old : s.index[row(j).r] = x
    <3>1. PICK j \in DOMAIN msg.rows : row(j).r = r
      BY <2>3 DEF Has
    <3>2. j \in old
      BY <1>2, <2>3, <3>1 DEF NewIn
    <3> QED
      BY <3>1, <3>2
  <2>4. ASSUME NEW j \in old, s.index[row(j).r] = x
        PROVE  Has(msg, r) /\ ~NewIn(msg, r) /\ RowOf(msg, r) = row(j)
    <3>1. row(j).r = r /\ j \in DOMAIN msg.rows /\ Has(msg, r) /\ RowOf(msg, r) = row(j)
      BY <1>2, <1>3, <2>2, <2>4
    <3>2. ~NewIn(msg, r)
      <4>1. \A c \in DOMAIN msg.rows : msg.rows[c].r = r => c = j
        BY <3>1 DEF RowsDistinct
      <4>2. ~(j > Len(msg.rows) - msg.new)
        BY <1>2, <3>1
      <4> QED
        BY <4>1, <4>2 DEF NewIn
    <3> QED
      BY <3>1, <3>2
  <2>5. CASE \E j \in old : s.index[row(j).r] = x
    <3>1. at(x) \in old /\ s.index[row(at(x)).r] = x
      BY <2>5 DEF at
    <3>2. Has(msg, r) /\ ~NewIn(msg, r) /\ RowOf(msg, r) = row(at(x))
      BY <2>4, <3>1
    <3>3. B[x] = WithCount(s.tab[x], row(at(x)).nc)
      BY <1>6, <2>1, <2>5
    <3> QED
      BY <3>2, <3>3
  <2>6. CASE ~\E j \in old : s.index[row(j).r] = x
    <3>1. B[x] = s.tab[x]
      BY <1>6, <2>1, <2>6
    <3>2. ~(Has(msg, r) /\ ~NewIn(msg, r))
      BY <2>3, <2>6
    <3> QED
      BY <3>1, <3>2
  <2> QED
    BY <2>5, <2>6
<1>9. /\ u \in TableSet /\ SlotsOK(u) /\ u.index = s.index /\ u.gen = s.gen
      /\ \A r \in Client : s.index[r] # 0 =>
            u.tab[s.index[r]] = IF Has(msg, r) /\ ~NewIn(msg, r)
                                THEN WithCount(s.tab[s.index[r]], RowOf(msg, r).nc)
                                ELSE s.tab[s.index[r]]
  BY <1>7, <1>8
<1> QED
  BY <1>9 DEF u

LEMMA PostUpdated ==
    ASSUME NEW s \in TableSet, SlotsOK(s), NEW js, NEW slots, NEW toks,
           \A j \in js : slots[j] \in 1 .. Slots /\ toks[j] \in Token \cup {Absent},
           \A i, j \in js : slots[i] = slots[j] => i = j
    PROVE  LET u == PostUpdate(s, slots, toks, js)
           IN  /\ u \in TableSet /\ SlotsOK(u) /\ u.index = s.index /\ u.gen = s.gen
               /\ \A j \in js : u.tab[slots[j]] = IF toks[j] # Absent THEN WithToken(s.tab[slots[j]], toks[j])
                                                  ELSE s.tab[slots[j]]
               /\ \A x \in 1 .. Slots : (\A j \in js : slots[j] # x) => u.tab[x] = s.tab[x]
<1> DEFINE at(x) == CHOOSE j \in js : slots[j] = x
           B == [x \in 1 .. Slots |->
                   IF \E j \in js : slots[j] = x /\ toks[j] # Absent
                   THEN WithToken(s.tab[x], toks[at(x)]) ELSE s.tab[x]]
           u == PostUpdate(s, slots, toks, js)
<1>1. s.tab \in [1 .. Slots -> TableRow]
  BY TableFields
<1>2. u = [s EXCEPT !.tab = B]
  BY <1>1 DEF PostUpdate, WithToken
<1>3. \A j \in js : at(slots[j]) = j
  OBVIOUS
<1>4. \A x \in 1 .. Slots : B[x] = IF \E j \in js : slots[j] = x /\ toks[j] # Absent
                                   THEN WithToken(s.tab[x], toks[at(x)]) ELSE s.tab[x]
  OBVIOUS
<1> HIDE DEF at
<1>5. ASSUME NEW x \in 1 .. Slots PROVE B[x] \in TableRow
  <2>1. CASE \E j \in js : slots[j] = x /\ toks[j] # Absent
    <3>1. PICK j \in js : slots[j] = x /\ toks[j] # Absent
      BY <2>1
    <3>2. toks[at(x)] \in Token /\ s.tab[x] \in TableRow
      BY <1>1, <1>3, <3>1
    <3>3. WithToken(s.tab[x], toks[at(x)]) \in TableRow
      BY <3>2, WithTokenRow
    <3> QED
      BY <1>4, <2>1, <3>3
  <2>2. CASE ~\E j \in js : slots[j] = x /\ toks[j] # Absent
    BY <1>1, <1>4, <2>2
  <2> QED
    BY <2>1, <2>2
<1>6. B \in [1 .. Slots -> TableRow]
  <2>1. DOMAIN B = 1 .. Slots /\ B = [x \in DOMAIN B |-> B[x]]
    OBVIOUS
  <2> HIDE DEF B
  <2> QED
    BY <1>5, <2>1
<1> HIDE DEF B, u
<1>7. u \in TableSet /\ SlotsOK(u) /\ u.index = s.index /\ u.gen = s.gen /\ u.tab = B
  BY <1>2, <1>6, NewTable
<1>8. ASSUME NEW j \in js
      PROVE  B[slots[j]] = IF toks[j] # Absent THEN WithToken(s.tab[slots[j]], toks[j]) ELSE s.tab[slots[j]]
  <2>1. slots[j] \in 1 .. Slots
    OBVIOUS
  <2>2. (\E c \in js : slots[c] = slots[j] /\ toks[c] # Absent) <=> toks[j] # Absent
    OBVIOUS
  <2> QED
    BY <1>3, <1>4, <2>1, <2>2
<1>9. \A x \in 1 .. Slots : (\A j \in js : slots[j] # x) => B[x] = s.tab[x]
  BY <1>4
<1> QED
  BY <1>7, <1>8, <1>9 DEF u

LEMMA Advanced ==
    ASSUME NEW s \in TableSet, SlotsOK(s), NEW batch,
           \A j \in DOMAIN batch : batch[j].slot \in 1 .. Slots /\ batch[j].of.q \in Nat,
           \A i, j \in DOMAIN batch : batch[i].slot = batch[j].slot => i = j
    PROVE  LET u == Advance(s, batch)
           IN  /\ u \in TableSet /\ SlotsOK(u) /\ u.index = s.index /\ u.gen = s.gen
               /\ \A j \in DOMAIN batch : u.tab[batch[j].slot] = Further(s.tab[batch[j].slot], batch[j].of.q)
               /\ \A x \in 1 .. Slots : (\A j \in DOMAIN batch : batch[j].slot # x) => u.tab[x] = s.tab[x]
<1> DEFINE js == DOMAIN batch
           at(x) == CHOOSE j \in js : batch[j].slot = x
           B == [x \in 1 .. Slots |->
                   IF \E j \in js : batch[j].slot = x
                   THEN Further(s.tab[x], batch[at(x)].of.q) ELSE s.tab[x]]
           u == Advance(s, batch)
<1>1. s.tab \in [1 .. Slots -> TableRow]
  BY TableFields
<1>2. u = [s EXCEPT !.tab = B]
  BY <1>1 DEF Advance, Further
<1>3. \A j \in js : at(batch[j].slot) = j
  OBVIOUS
<1>4. \A x \in 1 .. Slots : B[x] = IF \E j \in js : batch[j].slot = x
                                   THEN Further(s.tab[x], batch[at(x)].of.q) ELSE s.tab[x]
  OBVIOUS
<1> HIDE DEF at
<1>5. ASSUME NEW x \in 1 .. Slots PROVE B[x] \in TableRow
  <2>1. CASE \E j \in js : batch[j].slot = x
    <3>1. PICK j \in js : batch[j].slot = x
      BY <2>1
    <3>2. batch[at(x)].of.q \in Nat /\ s.tab[x] \in TableRow
      BY <1>1, <1>3, <3>1
    <3>3. Further(s.tab[x], batch[at(x)].of.q) \in TableRow
      BY <3>2, FurtherRow
    <3> QED
      BY <1>4, <2>1, <3>3
  <2>2. CASE ~\E j \in js : batch[j].slot = x
    BY <1>1, <1>4, <2>2
  <2> QED
    BY <2>1, <2>2
<1>6. B \in [1 .. Slots -> TableRow]
  <2>1. DOMAIN B = 1 .. Slots /\ B = [x \in DOMAIN B |-> B[x]]
    OBVIOUS
  <2> HIDE DEF B
  <2> QED
    BY <1>5, <2>1
<1> HIDE DEF B, u
<1>7. u \in TableSet /\ SlotsOK(u) /\ u.index = s.index /\ u.gen = s.gen /\ u.tab = B
  BY <1>2, <1>6, NewTable
<1>8. \A j \in js : B[batch[j].slot] = Further(s.tab[batch[j].slot], batch[j].of.q)
  BY <1>3, <1>4
<1>9. \A x \in 1 .. Slots : (\A j \in js : batch[j].slot # x) => B[x] = s.tab[x]
  BY <1>4
<1> QED
  BY <1>7, <1>8, <1>9 DEF u

-----------------------------------------------------------------------------
(***************************************************************************)
(* The ring's entry for a step: tokens of the step Stages before.          *)
(***************************************************************************)

\* A token behind the text that is known.
LEMMA EntryToken ==
    ASSUME NEW t \in TableRow, NEW x \in RowSet, NEW n, Samples(x), EntryOK(t, x, n, End(x))
    PROVE  /\ Tok(x.r, x.inc, End(x)) \in Token
           /\ EntryOK(WithToken(t, Tok(x.r, x.inc, End(x))), x, n, End(x) + 1)
<1> DEFINE tok == Tok(x.r, x.inc, End(x))
           e == End(x)
           u == WithToken(t, tok)
<1>1. /\ e \in Nat \ {0} /\ e >= Len(x.base) /\ Len(x.base) \in Nat
      /\ x.r \in Client /\ x.inc \in Nat
  BY RowNumbers DEF Samples
<1>2. tok \in Token
  BY <1>1 DEF Tok, Token
<1>3. Due(x, e) = tok
  BY <1>1 DEF Due
<1>4. t.ids \in Seq(Token) /\ Len(t.ids) = e
  BY TableRowFields DEF EntryOK
<1> HIDE DEF tok, e
<1>5. u.ids = Append(t.ids, tok) /\ u.last = tok /\ u.plen = t.plen /\ u.nc = t.nc /\ u.who = t.who
  BY <1>2, WithTokenRow
<1>6. /\ Len(u.ids) = e + 1 /\ u.ids[e + 1] = tok
      /\ \A c \in 1 .. e : u.ids[c] = t.ids[c]
  BY <1>2, <1>4, <1>5
<1> HIDE DEF u
<1>7. ASSUME NEW c \in 0 .. (e + 1) - 1 PROVE u.ids[c + 1] = Due(x, c)
  <2>1. CASE c = e
    BY <1>3, <1>6, <2>1
  <2>2. CASE c # e
    <3>1. c \in 0 .. e - 1 /\ c + 1 \in 1 .. e
      BY <1>1, <2>2 DEF e
    <3>2. t.ids[c + 1] = Due(x, c)
      BY <3>1 DEF EntryOK, e
    <3> QED
      BY <1>6, <3>1, <3>2
  <2> QED
    BY <2>1, <2>2
<1>8. u.last = Due(x, (e + 1) - 1)
  <2>1. (e + 1) - 1 = e
    BY <1>1 DEF e
  <2> QED
    BY <1>3, <1>5, <2>1
<1>9. /\ u.who = <<x.r, x.inc>> /\ u.plen = Len(x.base) /\ u.nc = n
  BY <1>5 DEF EntryOK
<1>10. EntryOK(u, x, n, e + 1)
  BY <1>6, <1>7, <1>8, <1>9 DEF EntryOK
<1> QED
  BY <1>2, <1>10 DEF u, tok, e

DecodedOK(s, ms, p, i) ==
    /\ s \in TableSet /\ SlotsOK(s) /\ HoldersOK(s, ms, p)
    /\ \A r \in Client : \A a \in 1 .. p : Last(ms, r, a, p) =>
          EntryOK(s.tab[s.index[r]], RowOf(ms[a], r), End(RowOf(ms[a], r)),
                  Known(RowOf(ms[a], r), Told(i, a, p + 1, p)))

\* Nothing to decode: the ring brings no token that a held request lacks.
LEMMA DecodedSame ==
    ASSUME NEW ms, History(ms), NEW p \in 0 .. Len(ms), NEW i \in Stage, NEW s,
           TableOK(s, ms, p, p, i),
           i # Stages => \A r \in Client : Last(ms, r, p + 1 - Stages, p) =>
                             ~Samples(RowOf(ms[p + 1 - Stages], r))
    PROVE  DecodedOK(s, ms, p, i)
<1>1. ASSUME NEW r \in Client, NEW a \in 1 .. p, Last(ms, r, a, p)
      PROVE  EntryOK(s.tab[s.index[r]], RowOf(ms[a], r), End(RowOf(ms[a], r)),
                     Known(RowOf(ms[a], r), Told(i, a, p + 1, p)))
  <2> DEFINE x == RowOf(ms[a], r)
  <2>1. EntryOK(s.tab[s.index[r]], x, Computed(x, a, p), Known(x, Told(i, a, p, p)))
    BY <1>1 DEF TableOK
  <2>2. Computed(x, a, p) = End(x)
    <3>1. a <= p
      BY DEF History
    <3> QED
      BY <3>1 DEF Computed
  <2>3. Samples(x) => (Told(i, a, p, p) <=> Told(i, a, p + 1, p))
    <3>1. CASE i = Stages
      BY <3>1 DEF Told
    <3>2. CASE i # Stages
      <4>1. Samples(x) => a # p + 1 - Stages
        BY <1>1, <3>2
      <4>2. p \in Int /\ a \in Int /\ Stages \in Int
        BY RingConstants DEF History
      <4>3. Samples(x) => (a + Stages <= p <=> a + Stages <= p + 1)
        BY <4>1, <4>2
      <4> QED
        BY <3>2, <4>3 DEF Told
    <3> QED
      BY <3>1, <3>2
  <2> HIDE DEF x
  <2>4. Known(x, Told(i, a, p, p)) = Known(x, Told(i, a, p + 1, p))
    BY <2>3 DEF Known
  <2> QED
    BY <2>1, <2>2, <2>4 DEF x
<1> QED
  BY <1>1 DEF TableOK, DecodedOK

LEMMA TokenPresent ==
    \A tok \in Token : tok # Absent
BY DEF Token, Absent

\* The live rows of a reception are those of requests that still wait for the token.
LEMMA LiveRows ==
    ASSUME NEW ms, History(ms), NEW p \in 0 .. Len(ms), NEW m \in 1 .. p, p < m + Stages,
           NEW s \in TableSet, SlotsOK(s), NEW x \in EntrySet, ReceptionOK(x, s, ms, p, m)
    PROVE  LET rows == SortBatch(ms[m].rows)
           IN  /\ \A j \in Live(s, x) :
                     /\ j \in DOMAIN rows /\ Samples(rows[j]) /\ rows[j].r \in Client /\ rows[j] \in RowSet
                     /\ RowOf(ms[m], rows[j].r) = rows[j]
                     /\ x.slots[j] = s.index[rows[j].r] /\ x.slots[j] \in 1 .. Slots
                     /\ Last(ms, rows[j].r, m, p)
               /\ \A i, j \in Live(s, x) : x.slots[i] = x.slots[j] => i = j
               /\ \A r \in Client : Last(ms, r, m, p) /\ Samples(RowOf(ms[m], r)) =>
                     \E j \in Live(s, x) : rows[j] = RowOf(ms[m], r) /\ rows[j].r = r
<1> DEFINE rows == SortBatch(ms[m].rows)
<1>0. m \in 1 .. Len(ms) /\ p \in Nat
  BY DEF History
<1>1. ms[m] \in MessageSet /\ RowsDistinct(ms[m])
  BY <1>0, HistoryAt
<1>2. /\ rows \in Seq(RowSet) /\ DOMAIN rows = 1 .. Len(rows)
      /\ \A j \in DOMAIN rows : Has(ms[m], rows[j].r) /\ RowOf(ms[m], rows[j].r) = rows[j]
      /\ \A r : Has(ms[m], r) => \E j \in DOMAIN rows : rows[j] = RowOf(ms[m], r) /\ rows[j].r = r
      /\ \A i, j \in DOMAIN rows : rows[i].r = rows[j].r => i = j
  BY <1>1, BatchRows
<1>3. /\ DOMAIN x.slots = DOMAIN rows /\ DOMAIN x.need = DOMAIN rows
      /\ \A j \in DOMAIN rows :
            /\ (x.need[j] <=> Samples(rows[j]))
            /\ SlotKept(x.slots[j], x.gens[j], rows[j], s, ms, p, m)
      /\ x.slots \in Seq(1 .. Slots) /\ x.gens \in Seq(Nat) /\ DOMAIN x.gens = DOMAIN rows
  BY DEF ReceptionOK, EntrySet
<1> HIDE DEF rows
<1>4. \A j \in DOMAIN rows : rows[j] \in RowSet /\ rows[j].r \in Client
  BY <1>2, RowNumbers
<1>5. \A j \in DOMAIN rows : x.slots[j] \in 1 .. Slots /\ x.gens[j] \in Nat
  <2> DEFINE A == 1 .. Slots
             S == x.slots
             G == x.gens
  <2>1. S \in Seq(A) /\ G \in Seq(Nat) /\ DOMAIN S = DOMAIN rows /\ DOMAIN G = DOMAIN rows
    BY <1>3
  <2> HIDE DEF A, S, G
  <2>2. \A j \in DOMAIN S : S[j] \in A
    BY <2>1
  <2>3. \A j \in DOMAIN G : G[j] \in Nat
    BY <2>1
  <2> QED
    BY <2>1, <2>2, <2>3 DEF A, S, G
<1>6. \A y \in 1 .. Slots : s.gen[y] \in Nat
  BY TableFields
<1>7. ASSUME NEW j
      PROVE  j \in Live(s, x) <=> j \in DOMAIN rows /\ Samples(rows[j]) /\ ~LeftSince(ms, m, p, rows[j].r)
  <2>1. j \in Live(s, x) <=> j \in DOMAIN rows /\ x.need[j] /\ s.gen[x.slots[j]] = x.gens[j]
    BY <1>3 DEF Live
  <2>2. ASSUME j \in DOMAIN rows
        PROVE  s.gen[x.slots[j]] = x.gens[j] <=> ~LeftSince(ms, m, p, rows[j].r)
    <3>1. x.gens[j] \in Nat /\ s.gen[x.slots[j]] \in Nat
      BY <1>5, <1>6, <2>2
    <3>2. IF LeftSince(ms, m, p, rows[j].r) THEN x.gens[j] < s.gen[x.slots[j]]
          ELSE x.gens[j] = s.gen[x.slots[j]]
      BY <1>3, <2>2 DEF SlotKept
    <3> QED
      BY <3>1, <3>2
  <2> QED
    BY <1>3, <2>1, <2>2
<1>8. ASSUME NEW j \in Live(s, x)
      PROVE  /\ j \in DOMAIN rows /\ Samples(rows[j]) /\ rows[j].r \in Client /\ rows[j] \in RowSet
             /\ RowOf(ms[m], rows[j].r) = rows[j]
             /\ x.slots[j] = s.index[rows[j].r] /\ x.slots[j] \in 1 .. Slots
             /\ Last(ms, rows[j].r, m, p)
  <2>1. j \in DOMAIN rows /\ Samples(rows[j]) /\ ~LeftSince(ms, m, p, rows[j].r)
    BY <1>7
  <2>2. x.slots[j] = s.index[rows[j].r]
    BY <1>3, <2>1 DEF SlotKept
  <2>3. /\ Has(ms[m], rows[j].r) /\ RowOf(ms[m], rows[j].r) = rows[j]
        /\ rows[j].r \in Client /\ rows[j] \in RowSet /\ x.slots[j] \in 1 .. Slots
    BY <1>2, <1>4, <1>5, <2>1
  <2>4. \A c \in (m+1) .. p : ~Leaves(ms[c], rows[j].r)
    BY <2>1 DEF LeftSince
  <2>5. Last(ms, rows[j].r, m, p)
    BY <2>1, <2>3, <2>4, SampledIsLast
  <2> QED
    BY <2>1, <2>2, <2>3, <2>5
<1>9. ASSUME NEW i \in Live(s, x), NEW j \in Live(s, x), x.slots[i] = x.slots[j] PROVE i = j
  <2>1. 0 \notin 1 .. Slots
    OBVIOUS
  <2>2. s.index[rows[i].r] = s.index[rows[j].r] /\ s.index[rows[i].r] # 0
    BY <1>8, <1>9, <2>1
  <2>3. rows[i].r = rows[j].r
    BY <1>8, <2>2 DEF SlotsOK
  <2> QED
    BY <1>2, <1>8, <2>3
<1>10. ASSUME NEW r \in Client, Last(ms, r, m, p), Samples(RowOf(ms[m], r))
       PROVE  \E j \in Live(s, x) : rows[j] = RowOf(ms[m], r) /\ rows[j].r = r
  <2>1. Has(ms[m], r) /\ ~LeftSince(ms, m, p, r)
    BY <1>10 DEF Last, LeftSince
  <2>2. PICK j \in DOMAIN rows : rows[j] = RowOf(ms[m], r) /\ rows[j].r = r
    BY <1>2, <2>1
  <2>3. j \in Live(s, x)
    BY <1>7, <1>10, <2>1, <2>2
  <2> QED
    BY <2>2, <2>3
<1> QED
  BY <1>8, <1>9, <1>10 DEF rows

\* A broadcast that has been sent is that of a message the last rank is done with.
LEMMA SentFor ==
    ASSUME NEW ms, NEW e \in Nat, SentOK(sent, ms, e), NEW m \in Nat \ {0}, Needs(ms[m]),
           Sampled(ms, m) <= Len(sent)
    PROVE  LET rows == SortBatch(ms[m].rows)
           IN  m \in 1 .. e /\ sent[Sampled(ms, m)] = [j \in DOMAIN rows |-> TokenOf(rows[j])]
<1>1. Len(sent) = Sampled(ms, e)
  BY DEF SentOK
<1>2. m <= e
  <2>1. Sampled(ms, e) \in Nat /\ Sampled(ms, m) \in Nat
    BY SampledNext
  <2>2. e < m => Sampled(ms, e) < Sampled(ms, m)
    BY SampledMono
  <2> QED
    BY <1>1, <2>1, <2>2
<1> QED
  BY <1>2 DEF SentOK

LEMMA DecodedTokens ==
    ASSUME NEW ms, History(ms), NEW p \in 0 .. Len(ms), NEW i \in Stage, i # Stages, NEW s,
           TableOK(s, ms, p, p, i), NEW m \in 1 .. p, m = p + 1 - Stages,
           NEW x \in EntrySet, ReceptionOK(x, s, ms, p, m),
           NEW toks, LET rows == SortBatch(ms[m].rows) IN toks = [j \in DOMAIN rows |-> TokenOf(rows[j])]
    PROVE  LET u == PostUpdate(s, x.slots, toks, Live(s, x))
           IN  DecodedOK(u, ms, p, i) /\ u.index = s.index /\ u.gen = s.gen
<1> DEFINE rows == SortBatch(ms[m].rows)
           L == Live(s, x)
           u == PostUpdate(s, x.slots, toks, L)
<1>0. /\ s \in TableSet /\ SlotsOK(s) /\ HoldersOK(s, ms, p) /\ p \in Nat /\ p < m + Stages
      /\ s.tab \in [1 .. Slots -> TableRow] /\ s.index \in [Client -> 0 .. Slots]
      /\ m + Stages = p + 1
  <2>1. s \in TableSet /\ SlotsOK(s) /\ HoldersOK(s, ms, p)
    BY DEF TableOK
  <2>2. p \in Nat /\ Stages \in Nat
    BY RingConstants DEF History
  <2>3. s.tab \in [1 .. Slots -> TableRow] /\ s.index \in [Client -> 0 .. Slots]
    BY <2>1, TableFields
  <2>4. p < m + Stages /\ m + Stages = p + 1
    BY <2>2
  <2> QED
    BY <2>1, <2>2, <2>3, <2>4
<1>1. /\ \A j \in L :
            /\ j \in DOMAIN rows /\ Samples(rows[j]) /\ rows[j].r \in Client /\ rows[j] \in RowSet
            /\ RowOf(ms[m], rows[j].r) = rows[j]
            /\ x.slots[j] = s.index[rows[j].r] /\ x.slots[j] \in 1 .. Slots
            /\ Last(ms, rows[j].r, m, p)
      /\ \A c, j \in L : x.slots[c] = x.slots[j] => c = j
      /\ \A r \in Client : Last(ms, r, m, p) /\ Samples(RowOf(ms[m], r)) =>
            \E j \in L : rows[j] = RowOf(ms[m], r) /\ rows[j].r = r
  BY <1>0, LiveRows
<1>2. toks = [j \in DOMAIN rows |-> TokenOf(rows[j])]
  OBVIOUS
<1> HIDE DEF rows, L
<1>3. ASSUME NEW j \in L
      PROVE  toks[j] = Tok(rows[j].r, rows[j].inc, End(rows[j])) /\ toks[j] \in Token
  <2>1. /\ rows[j].r \in Client /\ rows[j].inc \in Nat /\ End(rows[j]) \in Nat
    BY <1>1, RowNumbers
  <2>2. toks[j] = Tok(rows[j].r, rows[j].inc, End(rows[j]))
    BY <1>1, <1>2 DEF TokenOf
  <2>3. Tok(rows[j].r, rows[j].inc, End(rows[j])) \in Token
    BY <2>1 DEF Tok, Token
  <2> QED
    BY <2>2, <2>3
<1>4. /\ u \in TableSet /\ SlotsOK(u) /\ u.index = s.index /\ u.gen = s.gen
      /\ \A j \in L : u.tab[x.slots[j]] = IF toks[j] # Absent THEN WithToken(s.tab[x.slots[j]], toks[j])
                                          ELSE s.tab[x.slots[j]]
      /\ \A y \in 1 .. Slots : (\A j \in L : x.slots[j] # y) => u.tab[y] = s.tab[y]
  <2>1. \A j \in L : x.slots[j] \in 1 .. Slots /\ toks[j] \in Token \cup {Absent}
    BY <1>1, <1>3
  <2>2. \A c, j \in L : x.slots[c] = x.slots[j] => c = j
    BY <1>1
  <2>3. s \in TableSet /\ SlotsOK(s)
    BY <1>0
  <2> DEFINE S == x.slots
             v == PostUpdate(s, S, toks, L)
  <2>4. /\ \A j \in L : S[j] \in 1 .. Slots /\ toks[j] \in Token \cup {Absent}
        /\ \A c, j \in L : S[c] = S[j] => c = j
    BY <2>1, <2>2
  <2> HIDE DEF S
  <2>5. /\ v \in TableSet /\ SlotsOK(v) /\ v.index = s.index /\ v.gen = s.gen
        /\ \A j \in L : v.tab[S[j]] = IF toks[j] # Absent THEN WithToken(s.tab[S[j]], toks[j])
                                       ELSE s.tab[S[j]]
        /\ \A y \in 1 .. Slots : (\A j \in L : S[j] # y) => v.tab[y] = s.tab[y]
    BY SMTT(40), <2>3, <2>4, PostUpdated
  <2> QED
    BY <2>5 DEF S
<1> HIDE DEF u
<1>5. HoldersOK(u, ms, p)
  BY <1>0, <1>4 DEF HoldersOK
<1>6. ASSUME NEW r \in Client, NEW a \in 1 .. p, Last(ms, r, a, p)
      PROVE  EntryOK(u.tab[u.index[r]], RowOf(ms[a], r), End(RowOf(ms[a], r)),
                     Known(RowOf(ms[a], r), Told(i, a, p + 1, p)))
  <2> DEFINE y == RowOf(ms[a], r)
             z == s.index[r]
  <2>0. Has(ms[a], r) /\ a \in 1 .. Len(ms) /\ a \in Nat
    BY <1>0, <1>6 DEF Last, History
  <2>1. y \in RowSet /\ y.r = r
    BY <2>0, HistoryRow
  <2>2. EntryOK(s.tab[z], y, Computed(y, a, p), Known(y, Told(i, a, p, p)))
    BY <1>6 DEF TableOK
  <2>3. Computed(y, a, p) = End(y)
    <3>1. a <= p
      BY <1>0
    <3> QED
      BY <3>1 DEF Computed
  <2>4. z \in 1 .. Slots
    <3>1. r \in Held(ms, p)
      BY <1>6, HeldLast
    <3>2. z # 0
      BY <1>0, <3>1 DEF HoldersOK
    <3> QED
      BY <1>0, <3>2, RingConstants
  <2>5. Stages \in Nat
    BY RingConstants
  <2>6. CASE a = m /\ Samples(y)
    <3>1. PICK j \in L : rows[j] = y /\ rows[j].r = r
      BY <1>1, <1>6, <2>6
    <3>2. x.slots[j] = z /\ toks[j] = Tok(y.r, y.inc, End(y)) /\ toks[j] \in Token
      <4>1. x.slots[j] = z
        BY <1>1, <3>1
      <4>2. toks[j] = Tok(rows[j].r, rows[j].inc, End(rows[j])) /\ toks[j] \in Token
        BY <1>3
      <4> HIDE DEF y, z
      <4>3. toks[j] = Tok(y.r, y.inc, End(y))
        BY <3>1, <4>2
      <4> QED
        BY <4>1, <4>2, <4>3
    <3>3. toks[j] # Absent
      BY <3>2, TokenPresent
    <3>4. u.tab[z] = WithToken(s.tab[z], Tok(y.r, y.inc, End(y)))
      BY <1>4, <3>1, <3>2, <3>3
    <3>5. ~Told(i, a, p, p) /\ Told(i, a, p + 1, p)
      BY <1>0, <2>0, <2>5, <2>6 DEF Told
    <3> HIDE DEF y, z
    <3>6. Known(y, Told(i, a, p, p)) = End(y) /\ Known(y, Told(i, a, p + 1, p)) = End(y) + 1
      <4>1. End(y) \in Nat /\ Len(y.base) \in Nat /\ End(y) >= Len(y.base)
        BY <2>1, <2>6, RowNumbers
      <4>2. Greater(Len(y.base), End(y)) = End(y)
        BY <4>1 DEF Greater
      <4> QED
        BY <2>6, <3>5, <4>2 DEF Known
    <3>7. EntryOK(s.tab[z], y, End(y), End(y))
      BY <2>2, <2>3, <3>6
    <3>8. s.tab[z] \in TableRow
      BY <1>0, <2>4
    <3>9. EntryOK(u.tab[z], y, End(y), End(y) + 1)
      BY <2>1, <2>6, <3>4, <3>7, <3>8, EntryToken
    <3>10. EntryOK(u.tab[z], y, End(y), Known(y, Told(i, a, p + 1, p)))
      BY <3>6, <3>9
    <3> QED
      BY <1>4, <3>10 DEF y, z
  <2>7. CASE ~(a = m /\ Samples(y))
    <3>1. \A j \in L : x.slots[j] # z
      <4> SUFFICES ASSUME NEW j \in L, x.slots[j] = z PROVE FALSE
        OBVIOUS
      <4>1. s.index[rows[j].r] = s.index[r] /\ s.index[r] # 0 /\ rows[j].r \in Client
        BY <1>1, <2>4
      <4>2. rows[j].r = r
        BY <1>0, <4>1 DEF SlotsOK
      <4>3. Last(ms, r, m, p) /\ Samples(RowOf(ms[m], r))
        BY <1>1, <4>2
      <4>4. a = m
        BY <1>0, <1>6, <4>3, LastUnique
      <4> QED
        BY <2>7, <4>3, <4>4
    <3>2. u.tab[z] = s.tab[z]
      BY <1>4, <2>4, <3>1
    <3>3. Samples(y) => (Told(i, a, p, p) <=> Told(i, a, p + 1, p))
      <4>1. Samples(y) => a # m
        BY <2>7
      <4>2. Samples(y) => (a + Stages <= p <=> a + Stages <= p + 1)
        BY <1>0, <2>0, <2>5, <4>1
      <4> QED
        BY <4>2 DEF Told
    <3> HIDE DEF y, z
    <3>4. Known(y, Told(i, a, p, p)) = Known(y, Told(i, a, p + 1, p))
      BY <3>3 DEF Known
    <3>5. EntryOK(u.tab[z], y, End(y), Known(y, Told(i, a, p + 1, p)))
      BY <2>2, <2>3, <3>2, <3>4
    <3> QED
      BY <1>4, <3>5 DEF y, z
  <2> QED
    BY <2>6, <2>7
<1>7. DecodedOK(u, ms, p, i)
  BY <1>4, <1>5, <1>6 DEF DecodedOK
<1> QED
  BY <1>4, <1>7 DEF u, L

LEMMA NothingLive ==
    ASSUME NEW s
    PROVE  Live(s, Nothing) = {} /\ UpdatePPDecode(s, Nothing) = s
<1>1. DOMAIN Nothing.slots = {}
  BY DEF Nothing
<1>2. Live(s, Nothing) = {}
  BY <1>1 DEF Live
<1> QED
  BY <1>2 DEF UpdatePPDecode

LEMMA RowNeeds ==
    ASSUME NEW msg \in MessageSet, NEW r, Has(msg, r), Samples(RowOf(msg, r))
    PROVE  Needs(msg)
BY RowFacts DEF Needs

\* update_pp_decode_requests: the tables hold every token sampled Stages steps before.
LEMMA Decoded ==
    ASSUME NEW ms, History(ms), NEW p \in 0 .. Len(ms), NEW i \in Stage, NEW s,
           TableOK(s, ms, p, p, i), NEW queue, NEW n,
           i # Stages => PendingOK(queue, n, s, ms, p, p),
           NEW e \in Nat, SentOK(sent, ms, e),
           NEW x, x = IF i = Stages THEN Nothing ELSE Head(queue), Arrived(s, x)
    PROVE  LET u == UpdatePPDecode(s, x)
           IN  DecodedOK(u, ms, p, i) /\ u.index = s.index /\ u.gen = s.gen
<1> DEFINE u == UpdatePPDecode(s, x)
           m == p + 1 - Stages
<1>0. /\ p \in Nat /\ Stages \in Nat /\ Stages > 1 /\ m \in Int /\ Len(ms) \in Nat
      /\ s \in TableSet /\ SlotsOK(s)
  BY RingConstants DEF History, TableOK
<1>1. CASE i = Stages
  <2>1. u = s
    BY <1>1, NothingLive
  <2> HIDE DEF u
  <2>2. DecodedOK(s, ms, p, i)
    BY <1>1, DecodedSame
  <2> QED
    BY <2>1, <2>2 DEF u
<1>2. CASE i # Stages
  <2>1. /\ queue \in Seq(EntrySet) /\ Len(queue) = Stages
        /\ \A k \in 1 .. Stages : RingEntryOK(queue[k], s, ms, p, p, p - Stages + k)
    BY <1>2 DEF PendingOK
  <2>2. x = queue[1] /\ x \in EntrySet /\ 1 \in 1 .. Stages /\ p - Stages + 1 = m
    <3>1. Head(queue) = queue[1] /\ queue[1] \in EntrySet
      BY <1>0, <2>1
    <3> QED
      BY <1>0, <1>2, <3>1
  <2>3. RingEntryOK(x, s, ms, p, p, m)
    BY <2>1, <2>2
  <2> HIDE DEF m
  <2>4. CASE m >= 1 /\ Needs(ms[m])
    <3>1. m \in 1 .. p /\ m <= p /\ p < m + Stages /\ m \in Nat \ {0}
      BY <1>0, <2>4 DEF m
    <3>2. ReceptionOK(x, s, ms, p, m)
      BY <2>3, <2>4, <3>1 DEF RingEntryOK
    <3>3. CASE Live(s, x) = {}
      <4>1. u = s
        BY <3>3 DEF UpdatePPDecode
      <4>2. \A r \in Client : Last(ms, r, m, p) => ~Samples(RowOf(ms[m], r))
        BY <1>0, <2>2, <3>1, <3>2, <3>3, LiveRows
      <4>3. DecodedOK(s, ms, p, i)
        BY <4>2, DecodedSame DEF m
      <4> HIDE DEF u
      <4> QED
        BY <4>1, <4>3 DEF u
    <3>4. CASE Live(s, x) # {}
      <4>1. x.n <= Len(sent) /\ x.n = Sampled(ms, m)
        BY <3>2, <3>4 DEF Arrived, ReceptionOK
      <4> DEFINE toks == sent[x.n]
                 rows == SortBatch(ms[m].rows)
                 v == PostUpdate(s, x.slots, toks, Live(s, x))
      <4>2. toks = [j \in DOMAIN rows |-> TokenOf(rows[j])]
        BY <2>4, <3>1, <4>1, SentFor
      <4>3. u = v
        BY <3>4 DEF UpdatePPDecode
      <4> HIDE DEF toks, u
      <4>4. DecodedOK(v, ms, p, i) /\ v.index = s.index /\ v.gen = s.gen
        <5>1. m = p + 1 - Stages
          BY DEF m
        <5> HIDE DEF m
        <5> QED
          BY <1>2, <2>2, <3>1, <3>2, <4>2, <5>1, DecodedTokens
      <4> HIDE DEF v
      <4> QED
        BY <4>3, <4>4 DEF u
    <3> QED
      BY <3>3, <3>4
  <2>5. CASE ~(m >= 1 /\ Needs(ms[m]))
    <3>1. x = Nothing
      BY <2>3, <2>5 DEF RingEntryOK
    <3>2. u = s
      BY <3>1, NothingLive
    <3>3. ASSUME NEW r \in Client, Last(ms, r, m, p) PROVE ~Samples(RowOf(ms[m], r))
      <4>1. m \in 1 .. p /\ Has(ms[m], r)
        BY <3>3 DEF Last
      <4>2. m \in 1 .. Len(ms) /\ m >= 1
        BY <1>0, <4>1
      <4>3. ms[m] \in MessageSet /\ ~Needs(ms[m])
        BY <2>5, <4>2, HistoryAt
      <4> QED
        BY <4>1, <4>3, RowNeeds
    <3>4. DecodedOK(s, ms, p, i)
      BY <3>3, DecodedSame DEF m
    <3> HIDE DEF u
    <3> QED
      BY <3>2, <3>4 DEF u
  <2> QED
    BY <2>4, <2>5
<1> QED
  BY <1>1, <1>2

-----------------------------------------------------------------------------
(***************************************************************************)
(* The bookkeeping of execute_model.                                       *)
(***************************************************************************)
LEMMA NewHas ==
    ASSUME NEW msg, NEW r, NewIn(msg, r)
    PROVE  Has(msg, r)
BY DEF NewIn, Has

LEMMA RoomAfter ==
    ASSUME NEW ms, History(ms), NEW p \in Nat, p < Len(ms), NEW i, NEW s, DecodedOK(s, ms, p, i)
    PROVE  HasRoom(FinishRequests(s, ms[p + 1]), ms[p + 1], Held(ms, p + 1))
<1> DEFINE msg == ms[p + 1]
           u == FinishRequests(s, msg)
           H == Held(ms, p + 1)
<1>1. /\ p + 1 \in 1 .. Len(ms) /\ (p + 1) - 1 = p
  BY DEF History
<1>2. /\ msg \in MessageSet /\ MessageOK(ms, p + 1) /\ RowsDistinct(msg) /\ msg.new <= Len(msg.rows)
  BY <1>1, HistoryAt DEF MessageOK
<1>3. s \in TableSet /\ SlotsOK(s) /\ HoldersOK(s, ms, p)
  BY DEF DecodedOK
<1>4. LeftUpTo(u, s, msg, NumClients)
  BY <1>3, Finished
<1> HIDE DEF u
<1>5. /\ u \in TableSet /\ SlotsOK(u)
      /\ \A q \in Client : u.index[q] = IF Leaves(msg, q) THEN 0 ELSE s.index[q]
  <2>1. \A q \in Client : q <= NumClients
    BY RingConstants DEF Client
  <2> QED
    BY <1>4, <2>1 DEF LeftUpTo
<1>6. H \in SUBSET Client /\ Cardinality(H) <= Slots
  BY <1>2 DEF MessageOK, Held
<1>7. ASSUME NEW q \in Client, u.index[q] # 0 PROVE q \in H
  <2>1. ~Leaves(msg, q) /\ s.index[q] # 0
    BY <1>5, <1>7
  <2>2. q \in Held(ms, p)
    BY <1>3, <2>1 DEF HoldersOK
  <2> QED
    BY <2>1, <2>2, HeldNext
<1>8. ASSUME NEW q \in Client, NewIn(msg, q) PROVE q \in H /\ u.index[q] = 0
  <2>1. Has(msg, q)
    BY <1>8, NewHas
  <2>2. q \in H
    BY <2>1, HeldNext
  <2>3. NewRowOK(ms, p + 1, q)
    BY <1>2, <1>8, <2>1 DEF MessageOK
  <2>4. ASSUME ~Leaves(msg, q) PROVE s.index[q] = 0
    <3>1. \A a \in 1 .. p : ~Last(ms, q, a, p)
      BY <1>1, <2>3, <2>4 DEF NewRowOK
    <3>2. q \notin Held(ms, p)
      BY <3>1, HeldLast
    <3> QED
      BY <1>3, <3>2 DEF HoldersOK
  <2> QED
    BY <1>5, <2>2, <2>4
<1> HIDE DEF H, msg
<1>9. HasRoom(u, msg, H)
  BY <1>2, <1>5, <1>6, <1>7, <1>8 DEF HasRoom
<1> QED
  BY <1>9 DEF u, H, msg

\* Slots after a message: those of the requests that stay are kept, the others counted.
SlotsMoved(s, u, msg) ==
    /\ \A q \in Client : s.index[q] # 0 /\ ~Leaves(msg, q) => u.index[q] = s.index[q]
    /\ \A x \in 1 .. Slots :
          u.gen[x] = IF \E q \in Client : Leaves(msg, q) /\ s.index[q] = x
                     THEN s.gen[x] + 1 ELSE s.gen[x]

\* What becomes of a request's row.
RowRefreshed(s, u, msg, r) ==
    LET t == IF NewIn(msg, r) THEN Fresh(RowOf(msg, r)) ELSE s.tab[s.index[r]]
        z == u.tab[u.index[r]]
    IN  /\ u.index[r] # 0 /\ z \in TableRow
        /\ z.ids = t.ids /\ z.plen = t.plen /\ z.nc = t.nc /\ z.last = t.last /\ z.who = t.who
        /\ Has(msg, r) => z.ncpu = RowOf(msg, r).nc

LEMMA Bookkept ==
    ASSUME NEW ms, History(ms), NEW p \in Nat, p < Len(ms), NEW i, NEW s, DecodedOK(s, ms, p, i)
    PROVE  LET msg == ms[p + 1]
               u == UpdateRequests(AddRequests(FinishRequests(s, msg), msg), msg)
           IN  /\ u \in TableSet /\ SlotsOK(u) /\ HoldersOK(u, ms, p + 1) /\ SlotsMoved(s, u, msg)
               /\ \A r \in Client : r \in Held(ms, p + 1) => RowRefreshed(s, u, msg, r)
<1> DEFINE msg == ms[p + 1]
           v == FinishRequests(s, msg)
           w == AddRequests(v, msg)
           u == UpdateRequests(w, msg)
           H == Held(ms, p + 1)
<1>1. p + 1 \in 1 .. Len(ms) /\ (p + 1) - 1 = p
  BY DEF History
<1>2. /\ msg \in MessageSet /\ MessageOK(ms, p + 1) /\ RowsDistinct(msg) /\ msg.new <= Len(msg.rows)
  BY <1>1, HistoryAt DEF MessageOK
<1>3. /\ s \in TableSet /\ SlotsOK(s) /\ HoldersOK(s, ms, p)
      /\ s.tab \in [1 .. Slots -> TableRow] /\ s.index \in [Client -> 0 .. Slots]
  BY TableFields DEF DecodedOK
<1>4. LeftUpTo(v, s, msg, NumClients)
  BY <1>3, Finished
<1>5. HasRoom(v, msg, H)
  BY RoomAfter
<1> HIDE DEF v
<1>6. /\ w \in TableSet /\ SlotsOK(w) /\ w.gen = v.gen
      /\ \A q \in Client :
            IF NewIn(msg, q)
            THEN w.index[q] # 0 /\ w.tab[w.index[q]] = Fresh(RowOf(msg, q))
            ELSE /\ w.index[q] = v.index[q]
                 /\ v.index[q] # 0 => w.tab[v.index[q]] = v.tab[v.index[q]]
  BY <1>5, Added
<1> HIDE DEF w
<1>7. /\ v.tab = s.tab
      /\ \A q \in Client : v.index[q] = IF Leaves(msg, q) THEN 0 ELSE s.index[q]
      /\ \A x \in 1 .. Slots : v.gen[x] = IF \E q \in Client : Leaves(msg, q) /\ s.index[q] = x
                                          THEN s.gen[x] + 1 ELSE s.gen[x]
  <2>1. \A q \in Client : q <= NumClients
    BY RingConstants DEF Client
  <2> QED
    BY <1>4, <2>1 DEF LeftUpTo
<1>8. \A q \in Client : NewIn(msg, q) => q \in H /\ v.index[q] = 0
  BY <1>5 DEF HasRoom
<1>9. ASSUME NEW q \in Client, Has(msg, q), ~NewIn(msg, q)
      PROVE  ~Leaves(msg, q) /\ s.index[q] # 0
  <2>1. OldRowOK(ms, p + 1, q)
    BY <1>2, <1>9 DEF MessageOK
  <2>2. ~Leaves(msg, q) /\ \E a \in 1 .. p : Last(ms, q, a, p)
    BY <1>1, <2>1 DEF OldRowOK
  <2>3. q \in Held(ms, p)
    BY <2>2, HeldLast
  <2> QED
    BY <1>3, <2>2, <2>3 DEF HoldersOK
<1>10. \A q \in Client : w.index[q] # 0 <=> q \in H
  <2>1. ASSUME NEW q \in Client PROVE w.index[q] # 0 <=> q \in H
    <3>1. CASE NewIn(msg, q)
      BY <1>6, <1>8, <3>1
    <3>2. CASE ~NewIn(msg, q)
      <4>1. w.index[q] = IF Leaves(msg, q) THEN 0 ELSE s.index[q]
        BY <1>6, <1>7, <3>2
      <4>2. s.index[q] # 0 <=> q \in Held(ms, p)
        BY <1>3 DEF HoldersOK
      <4>3. q \in H <=> Has(msg, q) \/ (q \in Held(ms, p) /\ ~Leaves(msg, q))
        BY HeldNext
      <4> QED
        BY <1>9, <3>2, <4>1, <4>2, <4>3
    <3> QED
      BY <3>1, <3>2
  <2> QED
    BY <2>1
<1>11. \A q \in Client : Has(msg, q) => w.index[q] # 0
  BY <1>10, HeldNext
<1>12. /\ u \in TableSet /\ SlotsOK(u) /\ u.index = w.index /\ u.gen = w.gen
       /\ \A r \in Client : w.index[r] # 0 =>
             u.tab[w.index[r]] = IF Has(msg, r) /\ ~NewIn(msg, r)
                                 THEN WithCount(w.tab[w.index[r]], RowOf(msg, r).nc)
                                 ELSE w.tab[w.index[r]]
  BY <1>2, <1>6, <1>11, Updated
<1>13. w.index \in [Client -> 0 .. Slots] /\ w.tab \in [1 .. Slots -> TableRow] /\ Slots \in Nat
  BY <1>6, TableFields, RingConstants
<1> HIDE DEF u, msg, H
<1>14. HoldersOK(u, ms, p + 1)
  BY <1>10, <1>12 DEF HoldersOK, H
<1>15. SlotsMoved(s, u, msg)
  <2>1. ASSUME NEW q \in Client, s.index[q] # 0, ~Leaves(msg, q) PROVE u.index[q] = s.index[q]
    <3>1. v.index[q] = s.index[q]
      BY <1>7, <2>1
    <3>2. ~NewIn(msg, q)
      BY <1>8, <2>1, <3>1
    <3> QED
      BY <1>6, <1>12, <3>1, <3>2
  <2> QED
    BY <1>6, <1>7, <1>12, <2>1 DEF SlotsMoved
<1>16. ASSUME NEW r \in Client, r \in H PROVE RowRefreshed(s, u, msg, r)
  <2> DEFINE t == IF NewIn(msg, r) THEN Fresh(RowOf(msg, r)) ELSE s.tab[s.index[r]]
             y == w.tab[w.index[r]]
             z == u.tab[u.index[r]]
  <2>1. w.index[r] # 0 /\ w.index[r] \in 1 .. Slots /\ y \in TableRow /\ u.index[r] = w.index[r]
    <3>1. w.index[r] # 0 /\ w.index[r] \in 0 .. Slots
      BY <1>10, <1>13, <1>16
    <3>2. w.index[r] \in 1 .. Slots
      BY <1>13, <3>1
    <3> QED
      BY <1>12, <1>13, <3>1, <3>2
  <2>2. y = t
    <3>1. CASE NewIn(msg, r)
      BY <1>6, <3>1
    <3>2. CASE ~NewIn(msg, r)
      <4>1. w.index[r] = v.index[r] /\ v.index[r] # 0
        BY <1>6, <2>1, <3>2
      <4>2. v.index[r] = s.index[r]
        BY <1>7, <4>1
      <4> QED
        BY <1>6, <1>7, <3>2, <4>1, <4>2
    <3> QED
      BY <3>1, <3>2
  <2>3. z = IF Has(msg, r) /\ ~NewIn(msg, r) THEN WithCount(y, RowOf(msg, r).nc) ELSE y
    BY <1>12, <2>1
  <2>4. u.index[r] # 0
    BY <2>1
  <2> HIDE DEF y, z, t
  <2>5. CASE Has(msg, r) /\ ~NewIn(msg, r)
    <3>1. RowOf(msg, r).nc \in Nat
      BY <1>2, <2>5, RowFacts, RowNumbers DEF msg
    <3>2. /\ z \in TableRow /\ z.ncpu = RowOf(msg, r).nc
          /\ z.ids = y.ids /\ z.plen = y.plen /\ z.nc = y.nc /\ z.last = y.last /\ z.who = y.who
      BY <2>1, <2>3, <2>5, <3>1, WithCountRow
    <3>3. /\ z \in TableRow /\ z.ncpu = RowOf(msg, r).nc
          /\ z.ids = t.ids /\ z.plen = t.plen /\ z.nc = t.nc /\ z.last = t.last /\ z.who = t.who
      BY <2>2, <3>2
    <3> QED
      BY <2>4, <3>3 DEF RowRefreshed, z, t
  <2>6. CASE ~(Has(msg, r) /\ ~NewIn(msg, r))
    <3>1. z = t
      BY <2>2, <2>3, <2>6
    <3>2. z \in TableRow
      BY <2>1, <2>2, <3>1
    <3>3. Has(msg, r) => z.ncpu = RowOf(msg, r).nc
      <4>1. ASSUME Has(msg, r) PROVE z.ncpu = RowOf(msg, r).nc
        <5>1. NewIn(msg, r)
          BY <2>6, <4>1
        <5>2. t.ncpu = 0
          BY <5>1 DEF t, Fresh
        <5>3. NewRowOK(ms, p + 1, r)
          BY <1>2, <4>1, <5>1 DEF MessageOK, msg
        <5>4. RowOf(msg, r).nc = 0
          BY <5>3 DEF NewRowOK, msg
        <5> QED
          BY <3>1, <5>2, <5>4
      <4> QED
        BY <4>1
    <3>4. z.ids = t.ids /\ z.plen = t.plen /\ z.nc = t.nc /\ z.last = t.last /\ z.who = t.who
      BY <3>1
    <3> QED
      BY <2>4, <3>2, <3>3, <3>4 DEF RowRefreshed, z, t
  <2> QED
    BY <2>5, <2>6
<1>17. /\ u \in TableSet /\ SlotsOK(u) /\ HoldersOK(u, ms, p + 1) /\ SlotsMoved(s, u, msg)
       /\ \A r \in Client : r \in H => RowRefreshed(s, u, msg, r)
  BY <1>12, <1>14, <1>15, <1>16
<1> QED
  BY <1>17 DEF u, w, v, msg, H

LEMMA EntryAlike ==
    ASSUME NEW t, NEW z, NEW x, NEW n, NEW k, EntryOK(t, x, n, k),
           z.ids = t.ids, z.plen = t.plen, z.nc = t.nc, z.last = t.last, z.who = t.who
    PROVE  EntryOK(z, x, n, k)
BY DEF EntryOK

LEMMA EntryContinued ==
    ASSUME NEW t, NEW x, NEW y, NEW n, NEW k, EntryOK(t, x, n, k),
           y.r = x.r, y.inc = x.inc, y.base = x.base
    PROVE  EntryOK(t, y, n, k)
<1>1. \A c : Due(y, c) = Due(x, c)
  BY DEF Due
<1> QED
  BY <1>1 DEF EntryOK

LEMMA EntryFresh ==
    ASSUME NEW y \in RowSet
    PROVE  EntryOK(Fresh(y), y, 0, Len(y.base))
<1>1. Len(y.base) \in Nat
  BY RowNumbers
<1>2. \A c \in 0 .. Len(y.base) - 1 : Due(y, c) = y.base[c + 1]
  BY <1>1 DEF Due
<1>3. ~(Len(y.base) > Len(y.base))
  BY <1>1
<1> QED
  BY <1>2, <1>3 DEF EntryOK, Fresh

\* The row of a new request.
LEMMA EntryNew ==
    ASSUME NEW ms, History(ms), NEW p \in Nat, p < Len(ms), NEW i \in Stage, NEW r \in Client,
           Has(ms[p + 1], r), NewIn(ms[p + 1], r)
    PROVE  LET y == RowOf(ms[p + 1], r)
           IN  EntryOK(Fresh(y), y, Computed(y, p + 1, p), Known(y, Told(i, p + 1, p + 1, p)))
<1> DEFINE y == RowOf(ms[p + 1], r)
<1>1. p + 1 \in 1 .. Len(ms) /\ ~(p + 1 <= p) /\ ~(p + 1 + Stages <= p + 1)
  BY RingConstants DEF History
<1>2. y \in RowSet
  BY <1>1, HistoryRow
<1>3. MessageOK(ms, p + 1)
  BY <1>1, HistoryAt
<1>4. NewRowOK(ms, p + 1, r)
  BY <1>3 DEF MessageOK
<1>5. y.nc = 0 /\ y.q <= Len(y.base)
  BY <1>4 DEF NewRowOK
<1> HIDE DEF y
<1>6. Computed(y, p + 1, p) = 0
  BY <1>1, <1>5 DEF Computed
<1>7. ~Told(i, p + 1, p + 1, p)
  BY <1>1 DEF Told
<1>8. Greater(Len(y.base), End(y)) = Len(y.base)
  <2>1. End(y) = y.q /\ y.q \in Nat /\ Len(y.base) \in Nat
    BY <1>2, <1>5, RowNumbers
  <2> QED
    BY <1>5, <2>1 DEF Greater
<1>9. Known(y, Told(i, p + 1, p + 1, p)) = Len(y.base)
  BY <1>7, <1>8 DEF Known
<1>10. EntryOK(Fresh(y), y, Computed(y, p + 1, p), Known(y, Told(i, p + 1, p + 1, p)))
  BY <1>2, <1>6, <1>9, EntryFresh
<1> QED
  BY <1>10 DEF y

\* The row of a request that goes on: all that is known before it is known for it.
LEMMA EntryOld ==
    ASSUME NEW ms, History(ms), NEW p \in Nat, p < Len(ms), NEW i \in Stage, NEW r \in Client,
           Has(ms[p + 1], r), ~NewIn(ms[p + 1], r), NEW s, DecodedOK(s, ms, p, i)
    PROVE  LET y == RowOf(ms[p + 1], r)
           IN  EntryOK(s.tab[s.index[r]], y, Computed(y, p + 1, p), Known(y, Told(i, p + 1, p + 1, p)))
<1> DEFINE y == RowOf(ms[p + 1], r)
           t == s.tab[s.index[r]]
<1>1. p + 1 \in 1 .. Len(ms) /\ (p + 1) - 1 = p /\ ~(p + 1 <= p) /\ ~(p + 1 + Stages <= p + 1)
  BY RingConstants DEF History
<1>2. PICK a \in 1 .. p :
         /\ Last(ms, r, a, p) /\ Has(ms[a], r)
         /\ Continues(RowOf(ms[a], r), y)
         /\ Samples(RowOf(ms[a], r)) => a + Stages <= p + 1
  BY <1>1, Preceding
<1> DEFINE x == RowOf(ms[a], r)
<1>3. x \in RowSet /\ x.r = r /\ y \in RowSet /\ y.r = r
  <2>1. a \in 1 .. Len(ms)
    BY <1>1
  <2> QED
    BY <1>1, <1>2, <2>1, HistoryRow
<1>4. EntryOK(t, x, End(x), Known(x, Told(i, a, p + 1, p)))
  BY <1>2 DEF DecodedOK
<1>5. Continues(x, y) /\ (Samples(x) => a + Stages <= p + 1) /\ a <= p
  BY <1>2
<1> HIDE DEF x, y, t
<1>6. /\ x.nc \in Nat /\ End(x) \in Nat \ {0} /\ Len(x.base) \in Nat
      /\ (Samples(x) <=> End(x) >= Len(x.base))
      /\ End(y) \in Nat \ {0} /\ y.q \in Nat \ {0} /\ End(y) = y.nc + y.q
      /\ (Samples(y) <=> End(y) >= Len(y.base))
  BY <1>3, RowNumbers
<1>7. Computed(y, p + 1, p) = End(x)
  BY <1>1, <1>5 DEF Computed, Continues
<1>8. ~Told(i, p + 1, p + 1, p)
  BY <1>1 DEF Told
<1>9. Known(y, Told(i, p + 1, p + 1, p)) = Greater(Len(y.base), End(y))
  BY <1>8 DEF Known
<1>10. Samples(x) => Told(i, a, p + 1, p)
  BY <1>5 DEF Told
<1>11. y.base = x.base /\ y.inc = x.inc /\ y.nc = End(x)
  BY <1>5 DEF Continues
<1>12. Known(x, Told(i, a, p + 1, p)) = Greater(Len(y.base), End(y))
  <2>1. CASE Samples(x)
    <3>1. Known(x, Told(i, a, p + 1, p)) = End(x) + 1
      BY <1>10, <2>1 DEF Known
    <3>2. y.q = 1
      BY <1>5, <2>1 DEF Continues
    <3>3. End(y) = End(x) + 1 /\ ~(Len(x.base) > End(y))
      BY <1>6, <1>11, <2>1, <3>2
    <3> QED
      BY <1>11, <3>1, <3>3 DEF Greater
  <2>2. CASE ~Samples(x)
    <3>1. Known(x, Told(i, a, p + 1, p)) = Greater(Len(x.base), End(x))
      BY <2>2 DEF Known
    <3>2. Len(x.base) > End(x)
      BY <1>6, <2>2
    <3>3. End(y) <= Len(y.base)
      BY <1>5, <2>2 DEF Continues
    <3>4. Greater(Len(y.base), End(y)) = Len(y.base)
      BY <1>6, <1>11, <3>3 DEF Greater
    <3> QED
      BY <1>11, <3>1, <3>2, <3>4 DEF Greater
  <2> QED
    BY <2>1, <2>2
<1>13. EntryOK(t, y, End(x), Known(x, Told(i, a, p + 1, p)))
  BY <1>3, <1>4, <1>11, EntryContinued
<1>14. EntryOK(t, y, Computed(y, p + 1, p), Known(y, Told(i, p + 1, p + 1, p)))
  BY <1>7, <1>9, <1>12, <1>13
<1> QED
  BY <1>14 DEF y, t

LEMMA RefreshedTable ==
    ASSUME NEW ms, History(ms), NEW p \in Nat, p < Len(ms), NEW i \in Stage, NEW s, DecodedOK(s, ms, p, i),
           NEW u \in TableSet, SlotsOK(u), HoldersOK(u, ms, p + 1),
           \A r \in Client : r \in Held(ms, p + 1) => RowRefreshed(s, u, ms[p + 1], r)
    PROVE  TableOK(u, ms, p + 1, p, i)
<1> DEFINE msg == ms[p + 1]
<1>1. ASSUME NEW r \in Client, NEW a \in 1 .. p + 1, Last(ms, r, a, p + 1)
      PROVE  EntryOK(u.tab[u.index[r]], RowOf(ms[a], r), Computed(RowOf(ms[a], r), a, p),
                     Known(RowOf(ms[a], r), Told(i, a, p + 1, p)))
  <2> DEFINE z == u.tab[u.index[r]]
             t == IF NewIn(msg, r) THEN Fresh(RowOf(msg, r)) ELSE s.tab[s.index[r]]
             x == RowOf(ms[a], r)
             n == Computed(RowOf(ms[a], r), a, p)
             k == Known(RowOf(ms[a], r), Told(i, a, p + 1, p))
  <2>1. r \in Held(ms, p + 1)
    BY <1>1, HeldLast
  <2>2. z.ids = t.ids /\ z.plen = t.plen /\ z.nc = t.nc /\ z.last = t.last /\ z.who = t.who
    BY <2>1 DEF RowRefreshed
  <2>3. EntryOK(t, x, n, k)
    <3>1. CASE a = p + 1 /\ Has(msg, r)
      <4>1. CASE NewIn(msg, r)
        <5>1. EntryOK(Fresh(RowOf(ms[p + 1], r)), RowOf(ms[p + 1], r), Computed(RowOf(ms[p + 1], r), p + 1, p),
                      Known(RowOf(ms[p + 1], r), Told(i, p + 1, p + 1, p)))
          BY <3>1, <4>1, EntryNew
        <5> QED
          BY <3>1, <4>1, <5>1
      <4>2. CASE ~NewIn(msg, r)
        <5>1. EntryOK(s.tab[s.index[r]], RowOf(ms[p + 1], r), Computed(RowOf(ms[p + 1], r), p + 1, p),
                      Known(RowOf(ms[p + 1], r), Told(i, p + 1, p + 1, p)))
          BY <3>1, <4>2, EntryOld
        <5> QED
          BY <3>1, <4>2, <5>1
      <4> QED
        BY <4>1, <4>2
    <3>2. CASE Last(ms, r, a, p) /\ ~Has(msg, r)
      <4>1. ~NewIn(msg, r)
        BY <3>2, NewHas
      <4>2. a \in 1 .. p /\ a <= p
        BY <3>2 DEF Last
      <4>3. EntryOK(s.tab[s.index[r]], RowOf(ms[a], r), End(RowOf(ms[a], r)), k)
        BY <3>2, <4>2 DEF DecodedOK
      <4>4. n = End(RowOf(ms[a], r))
        BY <4>2 DEF Computed
      <4> QED
        BY <4>1, <4>3, <4>4
    <3> QED
      BY <1>1, <3>1, <3>2, LastNext
  <2> HIDE DEF z, t, x, n, k
  <2>4. EntryOK(z, x, n, k)
    BY <2>2, <2>3, EntryAlike
  <2> QED
    BY <2>4 DEF z, x, n, k
<1> QED
  BY <1>1 DEF TableOK

-----------------------------------------------------------------------------
(***************************************************************************)
(* prepare_inputs: the batch of a message.                                 *)
(***************************************************************************)
LEMMA InputDue ==
    ASSUME NEW t \in TableRow, NEW y \in RowSet,
           EntryOK(t, y, y.nc, Greater(Len(y.base), End(y))),
           y.q = 1 \/ End(y) <= Len(y.base), NEW c \in 1 .. y.q
    PROVE  /\ InputAt(t, y.q, t.nc + c - 1) = Due(y, y.nc + c - 1)
           /\ InputAt(t, y.q, t.nc + c - 1) \in Token \cup {Absent}
<1> DEFINE p == y.nc + c - 1
           e == End(y)
           l == Len(y.base)
           k == Greater(l, e)
<1>1. /\ y.nc \in Nat /\ y.q \in Nat \ {0} /\ e \in Nat \ {0} /\ e = y.nc + y.q /\ l \in Nat
      /\ y.base \in Seq(Token)
  BY RowNumbers
<1>2. /\ t.nc = y.nc /\ t.plen = l /\ Len(t.ids) = k
      /\ \A d \in 0 .. k - 1 : t.ids[d + 1] = Due(y, d)
      /\ k > l => t.last = Due(y, k - 1)
      /\ t.ids \in Seq(Token) /\ t.last \in Token \cup {Absent}
  BY TableRowFields DEF EntryOK
<1>3. k \in Nat /\ k >= l /\ k >= e /\ (e > l => k = e)
  BY <1>1 DEF Greater
<1>4. p \in Nat /\ p < e /\ t.nc + c - 1 = p
  BY <1>1, <1>2
<1>5. y.q = 1 \/ e <= l
  OBVIOUS
<1> HIDE DEF e, l, k
<1>6. CASE p + 1 = e /\ e > l
  <2>1. InputAt(t, y.q, p) = t.last
    BY <1>1, <1>2, <1>6 DEF InputAt
  <2>2. k = e /\ k > l /\ k - 1 = p
    BY <1>1, <1>3, <1>4, <1>6
  <2> HIDE DEF p
  <2>3. t.last = Due(y, p)
    BY <1>2, <2>2
  <2>4. InputAt(t, y.q, p) = Due(y, p) /\ InputAt(t, y.q, p) \in Token \cup {Absent}
    BY <1>2, <2>1, <2>3
  <2> QED
    BY <1>4, <2>4 DEF p
<1>7. CASE ~(p + 1 = e /\ e > l)
  <2>1. p < l
    <3>1. CASE e <= l
      BY <1>1, <1>4, <3>1
    <3>2. CASE e > l
      <4>1. y.q = 1 /\ p + 1 # e
        BY <1>1, <1>5, <1>7, <3>2
      <4>2. c = 1
        BY <4>1
      <4> QED
        BY <1>1, <4>1, <4>2
    <3> QED
      BY <1>1, <3>1, <3>2
  <2>2. InputAt(t, y.q, p) = t.ids[p + 1]
    BY <1>1, <1>2, <1>7, <2>1 DEF InputAt
  <2>3. p \in 0 .. k - 1 /\ p + 1 \in 1 .. k
    BY <1>1, <1>3, <1>4, <2>1
  <2> HIDE DEF p
  <2>4. t.ids[p + 1] = Due(y, p)
    BY <1>2, <2>3
  <2>5. t.ids[p + 1] \in Token
    <3>1. DOMAIN t.ids = 1 .. k
      BY <1>2
    <3> QED
      BY <1>2, <2>3, <3>1
  <2>6. InputAt(t, y.q, p) = Due(y, p) /\ InputAt(t, y.q, p) \in Token \cup {Absent}
    BY <2>2, <2>4, <2>5
  <2> QED
    BY <1>4, <2>6 DEF p
<1> QED
  BY <1>6, <1>7

\* A row of the batch, as it is read from the tables.
PreparedRow(s, row) ==
    LET t == s.tab[s.index[row.r]]
    IN  [of |-> row, slot |-> s.index[row.r], at |-> t.nc,
         feed |-> [j \in 1 .. row.q |-> InputAt(t, row.q, t.nc + j - 1)],
         sample |-> t.ncpu + row.q >= t.plen]

LEMMA PreparedRowOK ==
    ASSUME NEW s \in TableSet, NEW y \in RowSet, s.index[y.r] # 0,
           EntryOK(s.tab[s.index[y.r]], y, y.nc, Greater(Len(y.base), End(y))),
           s.tab[s.index[y.r]].ncpu = y.nc,
           y.q = 1 \/ End(y) <= Len(y.base), NEW i
    PROVE  PreparedRow(s, y) \in BatchRow /\ PreparedOK(PreparedRow(s, y), y, s, i)
<1> DEFINE x == s.index[y.r]
           t == s.tab[x]
           f == [j \in 1 .. y.q |-> InputAt(t, y.q, t.nc + j - 1)]
           w == t.ncpu + y.q >= t.plen
           b == PreparedRow(s, y)
<1>1. x \in 1 .. Slots /\ t \in TableRow
  <2>1. y.r \in Client /\ Slots \in Nat
    BY RowNumbers, RingConstants
  <2>2. x \in 0 .. Slots /\ x # 0
    BY <2>1, TableFields
  <2>3. x \in 1 .. Slots
    BY <2>1, <2>2
  <2> QED
    BY <2>3, TableFields
<1>2. y.q \in Nat /\ y.nc \in Nat /\ End(y) = y.nc + y.q /\ (Samples(y) <=> End(y) >= Len(y.base))
  BY RowNumbers
<1>3. t.nc = y.nc /\ t.plen = Len(y.base) /\ t.ncpu = y.nc
  BY DEF EntryOK
<1>4. \A c \in 1 .. y.q : f[c] = Due(y, y.nc + c - 1) /\ f[c] \in Token \cup {Absent}
  BY <1>1, InputDue
<1>5. b = [of |-> y, slot |-> x, at |-> t.nc, feed |-> f, sample |-> w]
  BY DEF PreparedRow
<1>6. f \in Seq(Token \cup {Absent})
  <2>1. DOMAIN f = 1 .. y.q /\ f = [c \in DOMAIN f |-> f[c]]
    OBVIOUS
  <2> HIDE DEF f
  <2>2. f \in [1 .. y.q -> Token \cup {Absent}]
    BY <1>4, <2>1
  <2> QED
    BY <1>2, <2>2
<1>7. w \in BOOLEAN /\ (w <=> Samples(y))
  BY <1>2, <1>3
<1> HIDE DEF x, t, f, w, b
<1>8. b.of = y /\ b.slot = x /\ b.at = t.nc /\ b.feed = f /\ b.sample = w
  BY <1>5
<1>9. t.nc \in Nat
  BY <1>2, <1>3
<1>10. b \in BatchRow
  BY <1>1, <1>5, <1>6, <1>7, <1>9 DEF BatchRow
<1>11. PreparedOK(b, y, s, i)
  <2>1. b.sample <=> Samples(y)
    BY <1>7, <1>8
  <2>2. b.slot = s.index[y.r]
    BY <1>8 DEF x
  <2>3. b.at = y.nc
    BY <1>3, <1>8
  <2>4. \A c \in 1 .. y.q : b.feed[c] = Due(y, y.nc + c - 1)
    BY <1>4, <1>8
  <2> QED
    BY <1>8, <2>1, <2>2, <2>3, <2>4 DEF PreparedOK
<1> QED
  BY <1>10, <1>11 DEF b

LEMMA PreparedBatch ==
    ASSUME NEW ms, History(ms), NEW p \in Nat, p < Len(ms), NEW i \in Stage, NEW s, NEW u,
           TableOK(u, ms, p + 1, p, i),
           \A r \in Client : r \in Held(ms, p + 1) => RowRefreshed(s, u, ms[p + 1], r),
           ms[p + 1].rows # <<>>
    PROVE  BatchOK(PrepareInputs(u, ms[p + 1]), u, ms, p + 1, i)
<1> DEFINE msg == ms[p + 1]
           rows == SortBatch(msg.rows)
           batch == PrepareInputs(u, msg)
<1>1. p + 1 \in 1 .. Len(ms) /\ p + 1 >= 1 /\ ~(p + 1 <= p) /\ ~(p + 1 + Stages <= p + 1)
  BY RingConstants DEF History
<1>2. msg \in MessageSet /\ RowsDistinct(msg)
  BY <1>1, HistoryAt
<1>3. /\ rows \in Seq(RowSet) /\ DOMAIN rows = 1 .. Len(rows)
      /\ \A j \in DOMAIN rows : Has(msg, rows[j].r) /\ RowOf(msg, rows[j].r) = rows[j]
  BY <1>2, BatchRows
<1>4. batch = [j \in DOMAIN rows |-> PreparedRow(u, rows[j])]
  BY DEF PrepareInputs, PreparedRow
<1> HIDE DEF rows, batch
<1>5. ASSUME NEW j \in DOMAIN rows
      PROVE  batch[j] \in BatchRow /\ PreparedOK(batch[j], rows[j], u, i)
  <2> DEFINE y == rows[j]
             r == y.r
  <2>1. y \in RowSet /\ r \in Client /\ Has(msg, r) /\ RowOf(msg, r) = y
    BY <1>3, RowNumbers
  <2>2. Last(ms, r, p + 1, p + 1) /\ r \in Held(ms, p + 1)
    BY <2>1, LastNext, HeldNext
  <2>3. RowRefreshed(s, u, msg, r)
    BY <2>1, <2>2
  <2> HIDE DEF y
  <2>4. u.index[r] # 0 /\ u.tab[u.index[r]].ncpu = y.nc
    BY <2>1, <2>3 DEF RowRefreshed
  <2>5. EntryOK(u.tab[u.index[r]], y, Computed(y, p + 1, p), Known(y, Told(i, p + 1, p + 1, p)))
    <3>1. p + 1 \in 1 .. p + 1
      OBVIOUS
    <3>2. EntryOK(u.tab[u.index[r]], RowOf(ms[p + 1], r), Computed(RowOf(ms[p + 1], r), p + 1, p),
                  Known(RowOf(ms[p + 1], r), Told(i, p + 1, p + 1, p)))
      BY <2>1, <2>2, <3>1 DEF TableOK
    <3> QED
      BY <2>1, <3>2
  <2>6. Computed(y, p + 1, p) = y.nc
    BY <1>1 DEF Computed
  <2>7. Known(y, Told(i, p + 1, p + 1, p)) = Greater(Len(y.base), End(y))
    <3>1. ~Told(i, p + 1, p + 1, p)
      BY <1>1 DEF Told
    <3> QED
      BY <3>1 DEF Known
  <2>8. EntryOK(u.tab[u.index[r]], y, y.nc, Greater(Len(y.base), End(y)))
    BY <2>5, <2>6, <2>7
  <2>9. y.q = 1 \/ End(y) <= Len(y.base)
    BY <1>1, <2>1, RowShape
  <2>10. u \in TableSet
    BY DEF TableOK
  <2>11. PreparedRow(u, y) \in BatchRow /\ PreparedOK(PreparedRow(u, y), y, u, i)
    BY <2>1, <2>4, <2>8, <2>9, <2>10, PreparedRowOK
  <2>12. batch[j] = PreparedRow(u, y)
    BY <1>4 DEF y
  <2> QED
    BY <2>11, <2>12 DEF y
<1>6. DOMAIN batch = DOMAIN rows /\ batch \in Seq(BatchRow)
  <2>1. DOMAIN batch = DOMAIN rows /\ batch = [j \in DOMAIN batch |-> batch[j]]
    BY <1>4
  <2>2. batch \in [1 .. Len(rows) -> BatchRow]
    BY <1>3, <1>5, <2>1
  <2>3. Len(rows) \in Nat
    BY <1>3
  <2> QED
    BY <2>1, <2>2, <2>3
<1>7. BatchOK(batch, u, ms, p + 1, i)
  BY <1>1, <1>5, <1>6 DEF BatchOK, rows
<1> QED
  BY <1>7 DEF batch

-----------------------------------------------------------------------------
(***************************************************************************)
(* The queue of receptions.                                                *)
(***************************************************************************)
LEMMA NothingEntry ==
    Nothing \in EntrySet
<1>1. <<>> \in Seq(1 .. Slots) /\ <<>> \in Seq(BOOLEAN) /\ <<>> \in Seq(Nat) /\ <<>> \in Seq(Client \X Nat)
  OBVIOUS
<1> DEFINE z == <<>>
<1>2. z \in Seq(1 .. Slots) /\ z \in Seq(BOOLEAN) /\ z \in Seq(Nat) /\ z \in Seq(Client \X Nat)
  BY <1>1
<1>3. Nothing = [n |-> 0, slots |-> z, need |-> z, gens |-> z, who |-> z]
  BY DEF Nothing
<1> HIDE DEF z
<1> QED
  BY <1>2, <1>3 DEF EntrySet

LEMMA SlotStillKept ==
    ASSUME NEW ms, NEW p \in Nat, NEW m \in Nat, m <= p, NEW s \in TableSet, SlotsOK(s), NEW u,
           SlotsMoved(s, u, ms[p + 1]), NEW x \in 1 .. Slots, NEW g \in Nat, NEW row \in RowSet,
           SlotKept(x, g, row, s, ms, p, m)
    PROVE  SlotKept(x, g, row, u, ms, p + 1, m)
<1> DEFINE msg == ms[p + 1]
           r == row.r
<1>1. r \in Client
  BY RowNumbers
<1>2. s.gen[x] \in Nat /\ x # 0
  BY TableFields, RingConstants
<1>3. u.gen[x] = IF \E q \in Client : Leaves(msg, q) /\ s.index[q] = x THEN s.gen[x] + 1 ELSE s.gen[x]
  BY DEF SlotsMoved
<1>4. u.gen[x] >= s.gen[x]
  BY <1>2, <1>3
<1>5. LeftSince(ms, m, p + 1, r) <=> LeftSince(ms, m, p, r) \/ Leaves(msg, r)
  <2>1. \A c : c \in (m+1) .. (p+1) <=> c \in (m+1) .. p \/ c = p + 1
    OBVIOUS
  <2> QED
    BY <2>1 DEF LeftSince
<1>6. CASE LeftSince(ms, m, p, r)
  <2>1. g < s.gen[x]
    BY <1>6 DEF SlotKept
  <2>2. g < u.gen[x]
    BY <1>2, <1>3, <2>1
  <2> QED
    BY <1>5, <1>6, <2>2 DEF SlotKept
<1>7. CASE ~LeftSince(ms, m, p, r) /\ Leaves(msg, r)
  <2>1. g = s.gen[x] /\ s.index[r] = x
    BY <1>7 DEF SlotKept
  <2>2. u.gen[x] = s.gen[x] + 1
    BY <1>1, <1>3, <1>7, <2>1
  <2>3. g < u.gen[x]
    BY <1>2, <2>1, <2>2
  <2> QED
    BY <1>5, <1>7, <2>3 DEF SlotKept
<1>8. CASE ~LeftSince(ms, m, p, r) /\ ~Leaves(msg, r)
  <2>1. g = s.gen[x] /\ s.index[r] = x
    BY <1>8 DEF SlotKept
  <2>2. u.index[r] = x
    BY <1>1, <1>2, <1>8, <2>1 DEF SlotsMoved
  <2>3. \A q \in Client : s.index[q] = x => q = r
    BY <1>1, <1>2, <2>1 DEF SlotsOK
  <2>4. u.gen[x] = s.gen[x]
    BY <1>3, <1>8, <2>3
  <2> QED
    BY <1>5, <1>8, <2>1, <2>2, <2>4 DEF SlotKept
<1> QED
  BY <1>6, <1>7, <1>8

LEMMA RingEntryNext ==
    ASSUME NEW ms, History(ms), NEW p \in Nat, p < Len(ms), NEW s \in TableSet, SlotsOK(s), NEW u,
           SlotsMoved(s, u, ms[p + 1]), NEW x \in EntrySet, NEW m \in Int, m <= p,
           NEW e, e = p \/ e = p + 1, RingEntryOK(x, s, ms, p, p, m)
    PROVE  RingEntryOK(x, u, ms, p + 1, e, m)
<1>1. CASE m >= 1 /\ Needs(ms[m])
  <2> DEFINE rows == SortBatch(ms[m].rows)
             D == DOMAIN rows
  <2>1. m \in 1 .. Len(ms) /\ m \in Nat /\ m <= e
    BY <1>1 DEF History
  <2>2. rows \in Seq(RowSet)
    BY <2>1, HistoryAt, BatchRows
  <2>3. ReceptionOK(x, s, ms, p, m)
    BY <1>1 DEF RingEntryOK
  <2>4. /\ x.n = Sampled(ms, m)
        /\ DOMAIN x.slots = D /\ DOMAIN x.need = D /\ DOMAIN x.gens = D /\ DOMAIN x.who = D
        /\ \A j \in D :
              /\ (x.need[j] <=> Samples(rows[j])) /\ x.who[j] = <<rows[j].r, rows[j].inc>>
              /\ SlotKept(x.slots[j], x.gens[j], rows[j], s, ms, p, m)
    BY <2>3 DEF ReceptionOK
  <2>5. x.slots \in Seq(1 .. Slots) /\ x.gens \in Seq(Nat)
    BY DEF EntrySet
  <2>6. \A j \in D : rows[j] \in RowSet
    BY <2>2
  <2> HIDE DEF rows, D
  <2>7. \A j \in D : x.slots[j] \in 1 .. Slots /\ x.gens[j] \in Nat
    <3> DEFINE A == 1 .. Slots
               S == x.slots
               G == x.gens
    <3>1. S \in Seq(A) /\ G \in Seq(Nat) /\ DOMAIN S = D /\ DOMAIN G = D
      BY <2>4, <2>5
    <3> HIDE DEF A, S, G
    <3>2. \A j \in DOMAIN S : S[j] \in A
      BY <3>1
    <3>3. \A j \in DOMAIN G : G[j] \in Nat
      BY <3>1
    <3> QED
      BY <3>1, <3>2, <3>3 DEF A, S, G
  <2>8. \A j \in D : SlotKept(x.slots[j], x.gens[j], rows[j], u, ms, p + 1, m)
    BY <2>1, <2>4, <2>6, <2>7, SlotStillKept
  <2>9. ReceptionOK(x, u, ms, p + 1, m)
    BY <2>4, <2>8 DEF ReceptionOK, rows, D
  <2> QED
    BY <1>1, <2>1, <2>9 DEF RingEntryOK
<1>2. CASE ~(m >= 1 /\ Needs(ms[m]))
  BY <1>2 DEF RingEntryOK
<1> QED
  BY <1>1, <1>2

\* PopEntry: an entry moves up and a place is reserved for the message.
LEMMA PendingNext ==
    ASSUME NEW ms, History(ms), NEW p \in Nat, p < Len(ms), NEW s \in TableSet, SlotsOK(s), NEW u,
           SlotsMoved(s, u, ms[p + 1]), NEW queue, NEW n, PendingOK(queue, n, s, ms, p, p),
           NEW e, e = p \/ (e = p + 1 /\ ~Needs(ms[p + 1]))
    PROVE  PendingOK(Append(Tail(queue), Nothing), n, u, ms, p + 1, e)
<1> DEFINE q == Append(Tail(queue), Nothing)
<1>0. Stages \in Nat /\ Stages > 1
  BY RingConstants
<1>1. /\ queue \in Seq(EntrySet) /\ Len(queue) = Stages /\ n = Sampled(ms, p)
      /\ \A k \in 1 .. Stages : RingEntryOK(queue[k], s, ms, p, p, p - Stages + k)
  BY DEF PendingOK
<1>2. /\ Tail(queue) \in Seq(EntrySet) /\ Len(Tail(queue)) = Stages - 1
      /\ \A k \in 1 .. Stages - 1 : Tail(queue)[k] = queue[k + 1]
  BY <1>0, <1>1
<1>3. /\ q \in Seq(EntrySet) /\ Len(q) = Stages /\ q[Stages] = Nothing
      /\ \A k \in 1 .. Stages - 1 : q[k] = Tail(queue)[k]
  BY <1>0, <1>2, NothingEntry
<1> HIDE DEF q
<1>4. n = Sampled(ms, e)
  <2>1. CASE e = p
    BY <1>1, <2>1
  <2>2. CASE e = p + 1 /\ ~Needs(ms[p + 1])
    <3>1. Sampled(ms, p + 1) = Sampled(ms, p) + 0 /\ Sampled(ms, p) \in Nat
      BY <2>2, SampledNext
    <3> QED
      BY <1>1, <2>2, <3>1
  <2> QED
    BY <2>1, <2>2
<1>5. ASSUME NEW k \in 1 .. Stages PROVE RingEntryOK(q[k], u, ms, p + 1, e, p + 1 - Stages + k)
  <2>1. CASE k < Stages
    <3> DEFINE m == p - Stages + (k + 1)
    <3>1. /\ k + 1 \in 1 .. Stages /\ m \in Int /\ m <= p /\ p + 1 - Stages + k = m
          /\ k \in 1 .. Stages - 1
      BY <1>0, <2>1
    <3>2. RingEntryOK(queue[k + 1], s, ms, p, p, m) /\ q[k] = queue[k + 1] /\ queue[k + 1] \in EntrySet
      BY <1>1, <1>2, <1>3, <3>1
    <3> HIDE DEF m
    <3>3. RingEntryOK(queue[k + 1], u, ms, p + 1, e, m)
      BY <3>1, <3>2, RingEntryNext
    <3> QED
      BY <3>1, <3>2, <3>3
  <2>2. CASE k = Stages
    <3>1. p + 1 - Stages + k = p + 1
      BY <1>0, <2>2
    <3>2. ~(p + 1 >= 1 /\ p + 1 <= e /\ Needs(ms[p + 1]))
      OBVIOUS
    <3> QED
      BY <1>3, <2>2, <3>1, <3>2 DEF RingEntryOK
  <2> QED
    BY <1>0, <2>1, <2>2
<1>6. \A k \in 1 .. Stages : RingEntryOK(q[k], u, ms, p + 1, e, (p + 1) - Stages + k)
  <2>1. ASSUME NEW k \in 1 .. Stages PROVE (p + 1) - Stages + k = p + 1 - Stages + k
    BY <1>0
  <2> QED
    BY <1>5, <2>1
<1>7. q \in Seq(EntrySet) /\ Len(q) = Stages
  BY <1>3
<1>8. PendingOK(q, n, u, ms, p + 1, e)
  BY <1>4, <1>6, <1>7, ZenonT(60) DEF PendingOK
<1> QED
  BY <1>8 DEF q

-----------------------------------------------------------------------------
(***************************************************************************)
(* execute_model of a rank.                                                *)
(***************************************************************************)
LEMMA NoRows ==
    ASSUME NEW msg, msg.rows = <<>>
    PROVE  ~Needs(msg) /\ \A r : ~Has(msg, r)
BY DEF Needs, Has

\* A message without rows is finished with at once.
LEMMA TableAfterNone ==
    ASSUME NEW ms, NEW p \in Nat, NEW i, NEW s, TableOK(s, ms, p + 1, p, i), ms[p + 1].rows = <<>>
    PROVE  TableOK(s, ms, p + 1, p + 1, i)
<1>1. ASSUME NEW r \in Client, NEW a \in 1 .. p + 1, Last(ms, r, a, p + 1)
      PROVE  EntryOK(s.tab[s.index[r]], RowOf(ms[a], r), Computed(RowOf(ms[a], r), a, p + 1),
                     Known(RowOf(ms[a], r), Told(i, a, p + 1, p + 1)))
  <2>1. a # p + 1
    BY <1>1, NoRows DEF Last
  <2>2. Computed(RowOf(ms[a], r), a, p + 1) = Computed(RowOf(ms[a], r), a, p)
    BY <2>1 DEF Computed
  <2>3. Told(i, a, p + 1, p + 1) <=> Told(i, a, p + 1, p)
    BY <2>1 DEF Told
  <2>4. Known(RowOf(ms[a], r), Told(i, a, p + 1, p + 1)) = Known(RowOf(ms[a], r), Told(i, a, p + 1, p))
    BY <2>3 DEF Known
  <2>5. EntryOK(s.tab[s.index[r]], RowOf(ms[a], r), Computed(RowOf(ms[a], r), a, p),
                Known(RowOf(ms[a], r), Told(i, a, p + 1, p)))
    BY <1>1 DEF TableOK
  <2> QED
    BY <2>2, <2>4, <2>5
<1> QED
  BY <1>1 DEF TableOK

LEMMA ExecutedRank ==
    ASSUME NEW ms, History(ms), NEW p \in Nat, p < Len(ms), NEW i \in Stage, NEW s,
           NEW queue, NEW n, RankState(ms, p, p, i, s, Absent, queue, n),
           NEW e \in Nat, SentOK(sent, ms, e),
           NEW x, x = IF i = Stages THEN Nothing ELSE Head(queue), Arrived(s, x),
           NEW u, u = UpdateRequests(AddRequests(FinishRequests(
                          UpdatePPDecode(s, x), ms[p + 1]), ms[p + 1]), ms[p + 1]),
           NEW after, i # Stages => after = Append(Tail(queue), Nothing)
    PROVE  /\ ms[p + 1].rows # <<>> =>
                  /\ PrepareInputs(u, ms[p + 1]) # Absent
                  /\ RankState(ms, p + 1, p, i, u, PrepareInputs(u, ms[p + 1]), after, n)
           /\ ms[p + 1].rows = <<>> => RankState(ms, p + 1, p + 1, i, u, Absent, after, n)
<1> DEFINE msg == ms[p + 1]
           d == UpdatePPDecode(s, x)
           batch == PrepareInputs(u, msg)
<1>1. /\ TableOK(s, ms, p, p, i) /\ (i # Stages => PendingOK(queue, n, s, ms, p, p))
      /\ s \in TableSet /\ SlotsOK(s)
  BY DEF RankState, TableOK
<1>2. p \in 0 .. Len(ms) /\ p + 1 \in 1 .. Len(ms)
  BY DEF History
<1>3. DecodedOK(d, ms, p, i) /\ d.index = s.index /\ d.gen = s.gen
  BY <1>1, <1>2, Decoded
<1>4. u = UpdateRequests(AddRequests(FinishRequests(d, msg), msg), msg)
  OBVIOUS
<1> HIDE DEF d
<1>5. /\ u \in TableSet /\ SlotsOK(u) /\ HoldersOK(u, ms, p + 1) /\ SlotsMoved(d, u, msg)
      /\ \A r \in Client : r \in Held(ms, p + 1) => RowRefreshed(d, u, msg, r)
  BY <1>3, <1>4, Bookkept
<1>6. TableOK(u, ms, p + 1, p, i)
  BY <1>3, <1>5, RefreshedTable
<1>7. SlotsMoved(s, u, msg)
  BY <1>3, <1>5 DEF SlotsMoved
<1>8. ASSUME i # Stages, NEW f, f = p \/ (f = p + 1 /\ ~Needs(msg))
      PROVE  PendingOK(after, n, u, ms, p + 1, f)
  <2>1. PendingOK(Append(Tail(queue), Nothing), n, u, ms, p + 1, f)
    BY <1>1, <1>7, <1>8, PendingNext
  <2> QED
    BY <1>8, <2>1
<1>9. ASSUME msg.rows # <<>>
      PROVE  batch # Absent /\ RankState(ms, p + 1, p, i, u, batch, after, n)
  <2>1. BatchOK(batch, u, ms, p + 1, i)
    BY <1>5, <1>6, <1>9, PreparedBatch
  <2>2. batch # Absent
    <3> DEFINE rows == SortBatch(msg.rows)
    <3>1. rows # <<>> /\ rows \in Seq(RowSet)
      BY <1>2, <1>9, HistoryAt, BatchRows
    <3> HIDE DEF rows
    <3>2. DOMAIN rows # {}
      BY <3>1
    <3>3. DOMAIN batch = DOMAIN rows
      BY <2>1 DEF BatchOK, rows
    <3> HIDE DEF batch
    <3>4. DOMAIN Absent = {}
      BY DEF Absent
    <3> QED
      BY <3>2, <3>3, <3>4
  <2>3. i # Stages => PendingOK(after, n, u, ms, p + 1, p)
    BY <1>8
  <2> QED
    BY <1>6, <2>1, <2>2, <2>3 DEF RankState
<1>10. ASSUME msg.rows = <<>>
       PROVE  RankState(ms, p + 1, p + 1, i, u, Absent, after, n)
  <2>1. ~Needs(msg)
    BY <1>10, NoRows
  <2>2. TableOK(u, ms, p + 1, p + 1, i)
    BY <1>6, <1>10, TableAfterNone
  <2>3. i # Stages => PendingOK(after, n, u, ms, p + 1, p + 1)
    BY <1>8, <2>1
  <2> QED
    BY <2>2, <2>3 DEF RankState
<1> QED
  BY <1>9, <1>10

\* A message leaves the inbox.
LEMMA InboxTaken ==
    ASSUME RingInv, NEW i \in Stage, inbox[i] # <<>>, issued' = issued, inbox'[i] = Tail(inbox[i])
    PROVE  /\ Executed(i) \in Nat /\ Executed(i) < Len(issued) /\ Len(issued) \in Nat
           /\ Executed(i)' = Executed(i) + 1 /\ InboxOK(i)'
           /\ Head(inbox[i]) = issued[Executed(i) + 1]
<1>1. History(issued) /\ RankOK(i) /\ InboxOK(i)
  BY DEF RingInv, SchedInv, RankOK
<1>2. /\ inbox[i] \in Seq(MessageSet) /\ Len(inbox[i]) \in Nat /\ Len(issued) \in Nat
      /\ Executed(i) \in Nat /\ Executed(i) + Len(inbox[i]) = Len(issued)
  BY <1>1, RankCounts
<1>3. /\ Len(inbox[i]) # 0 /\ Tail(inbox[i]) \in Seq(MessageSet) /\ Head(inbox[i]) = inbox[i][1]
      /\ 1 \in DOMAIN inbox[i] /\ Len(Tail(inbox[i])) = Len(inbox[i]) - 1
      /\ DOMAIN Tail(inbox[i]) = 1 .. Len(inbox[i]) - 1
      /\ \A k \in 1 .. Len(inbox[i]) - 1 : Tail(inbox[i])[k] = inbox[i][k + 1] /\ k + 1 \in DOMAIN inbox[i]
  BY <1>2
<1>4. Executed(i)' = Len(issued') - Len(inbox'[i]) /\ Executed(i) = Len(issued) - Len(inbox[i])
  BY DEF Executed
<1> HIDE DEF Executed
<1>5. Executed(i)' = Executed(i) + 1
  <2>1. Len(issued') = Len(issued) /\ Len(inbox'[i]) = Len(inbox[i]) - 1
    BY <1>3
  <2>2. Executed(i)' = Len(issued) - (Len(inbox[i]) - 1)
    BY <1>4, <2>1
  <2>3. Len(inbox[i]) \in Nat /\ Len(issued) \in Nat /\ Executed(i) = Len(issued) - Len(inbox[i])
    BY <1>2, <1>4
  <2> QED
    BY <2>2, <2>3
<1>6. \A k \in DOMAIN inbox[i] : inbox[i][k] = issued[Executed(i) + k]
  BY <1>1 DEF InboxOK
<1>7. \A k \in 1 .. Len(inbox[i]) - 1 : inbox'[i][k] = issued'[Executed(i)' + k]
  <2> TAKE k \in 1 .. Len(inbox[i]) - 1
  <2>1. inbox'[i][k] = issued[Executed(i) + (k + 1)]
    BY <1>3, <1>6
  <2>2. Executed(i) + (k + 1) = Executed(i)' + k
    BY <1>2, <1>5
  <2> QED
    BY <2>1, <2>2
<1>8. InboxOK(i)'
  <2>1. /\ inbox'[i] \in Seq(MessageSet) /\ DOMAIN inbox'[i] = 1 .. Len(inbox[i]) - 1
        /\ Len(inbox'[i]) = Len(inbox[i]) - 1 /\ Len(issued') = Len(issued)
    BY <1>3
  <2>2. Len(inbox'[i]) <= Len(issued')
    BY <1>2, <2>1
  <2> QED
    BY <1>7, <2>1, <2>2 DEF InboxOK
<1> QED
  BY <1>2, <1>3, <1>5, <1>6, <1>8

\* A step of one rank leaves the others, and the scheduler, as they are.
LEMMA RankStep ==
    ASSUME RingInv, NEW i \in Stage, UNCHANGED <<schedVars, issued>>,
           DOMAIN reqStates' = DOMAIN reqStates, DOMAIN current' = DOMAIN current,
           DOMAIN inbox' = DOMAIN inbox, DOMAIN pending' = DOMAIN pending, DOMAIN received' = DOMAIN received,
           \A j \in Stage : j # i =>
               /\ inbox'[j] = inbox[j] /\ reqStates'[j] = reqStates[j] /\ current'[j] = current[j]
               /\ j # Stages => pending'[j] = pending[j] /\ received'[j] = received[j],
           RankOK(i)',
           i # Stages => UNCHANGED <<sent, results>>,
           i = Stages => /\ SentOK(sent', issued, Ended(Stages)')
                         /\ AnswersOK(results', issued, Processed, Ended(Stages)')
    PROVE  RingInv'
<1>1. SchedInv /\ EngineInv /\ RanksInv
  BY RingParts
<1>2. SchedInv'
  BY <1>1, SchedulerIdle
<1>3. UNCHANGED <<batchQ, issued>>
  BY DEF schedVars
<1>4. Processed' = Processed
  BY <1>3 DEF Processed
<1>5. ASSUME NEW j \in Stage, j # i PROVE RankOK(j)' /\ Ended(j)' = Ended(j)
  <2>1. RankOK(j)
    BY <1>1 DEF RanksInv
  <2> QED
    BY <1>3, <1>5, <2>1, RankUnchanged
<1>6. \A j \in Stage : RankOK(j)'
  <2> TAKE j \in Stage
  <2>1. CASE j = i
    BY <2>1
  <2>2. CASE j # i
    BY <1>5, <2>2
  <2> QED
    BY <2>1, <2>2
<1>7. Stages \in Stage
  BY RingConstants DEF Stage
<1>8. SentOK(sent', issued', Ended(Stages)') /\ AnswersOK(results', issued', Processed', Ended(Stages)')
  <2>1. CASE i = Stages
    BY <1>3, <1>4, <2>1
  <2>2. CASE i # Stages
    <3>1. Ended(Stages)' = Ended(Stages) /\ sent' = sent /\ results' = results
      BY <1>5, <1>7, <2>2
    <3>2. SentOK(sent, issued, Ended(Stages)) /\ AnswersOK(results, issued, Processed, Ended(Stages))
      BY <1>1 DEF RanksInv, EngineInv
    <3> QED
      BY <1>3, <1>4, <3>1, <3>2
  <2> QED
    BY <2>1, <2>2
<1>9. RanksInv'
  <2>1. /\ DOMAIN reqStates' = Stage /\ DOMAIN current' = Stage /\ DOMAIN inbox' = Stage
        /\ DOMAIN pending' = 1 .. Stages - 1 /\ DOMAIN received' = 1 .. Stages - 1
    BY <1>1 DEF RanksInv
  <2> QED
    BY <1>6, <1>8, <2>1 DEF RanksInv
<1>10. EngineInv'
  <2>1. QueueSizes' /\ \A k \in DOMAIN batchQ' : batchQ'[k] = issued'[Processed' + k]
    BY <1>1, <1>3, <1>4 DEF EngineInv, QueueSizes
  <2> QED
    BY <1>8, <2>1 DEF EngineInv
<1>11. SchedInv' /\ EngineInv' /\ RanksInv'
  BY <1>2, <1>9, <1>10
<1> QED
  BY <1>11, RingParts, PTL

\* Nothing is broadcast for a message without rows, and its answer is empty.
LEMMA SentAfterNone ==
    ASSUME NEW ms, NEW p \in Nat, ms[p + 1].rows = <<>>, NEW payloads, SentOK(payloads, ms, p)
    PROVE  SentOK(payloads, ms, p + 1)
<1>1. ~Needs(ms[p + 1])
  BY NoRows
<1>2. Sampled(ms, p + 1) = Sampled(ms, p) + 0 /\ Sampled(ms, p) \in Nat
  BY <1>1, SampledNext
<1>3. \A m \in 1 .. p + 1 : Needs(ms[m]) => m \in 1 .. p
  BY <1>1
<1> QED
  BY <1>2, <1>3 DEF SentOK

LEMMA AnswerNext ==
    ASSUME NEW ms, NEW p \in Nat, NEW done \in Nat, NEW answers, AnswersOK(answers, ms, done, p),
           NEW ans \in [Client -> Text], \A r \in Client : ans[r] = AnswerOf(ms[p + 1], r)
    PROVE  AnswersOK(Append(answers, ans), ms, done, p + 1)
<1>1. /\ answers \in Seq([Client -> Text]) /\ Len(answers) = p - done
      /\ \A k \in DOMAIN answers : \A r \in Client : answers[k][r] = AnswerOf(ms[done + k], r)
  BY DEF AnswersOK
<1> DEFINE X == [Client -> Text]
           q == Append(answers, ans)
<1>2. answers \in Seq(X) /\ ans \in X
  BY <1>1
<1> HIDE DEF X
<1>3. /\ q \in Seq(X) /\ Len(q) = Len(answers) + 1 /\ DOMAIN q = 1 .. Len(answers) + 1
      /\ Len(answers) \in Nat /\ DOMAIN answers = 1 .. Len(answers)
      /\ q[Len(answers) + 1] = ans /\ \A k \in 1 .. Len(answers) : q[k] = answers[k]
  BY <1>2
<1> HIDE DEF q
<1>4. ASSUME NEW k \in 1 .. Len(answers) + 1, NEW r \in Client PROVE q[k][r] = AnswerOf(ms[done + k], r)
  <2>1. CASE k \in 1 .. Len(answers)
    BY <1>1, <1>3, <2>1
  <2>2. CASE k = Len(answers) + 1
    <3>1. done + k = p + 1
      BY <1>1, <1>3, <2>2
    <3> QED
      BY <1>3, <2>2, <3>1
  <2> QED
    BY <1>3, <2>1, <2>2
<1>5. Len(q) = (p + 1) - done
  BY <1>1, <1>3
<1>6. AnswersOK(q, ms, done, p + 1)
  BY <1>3, <1>4, <1>5 DEF AnswersOK, X
<1> QED
  BY <1>6 DEF q

LEMMA ExecuteRing ==
    ASSUME RingInv, NEW i \in Stage, ExecuteModel(i)
    PROVE  RingInv'
<1> DEFINE p == Executed(i)
           s == reqStates[i]
           x == Entry(i)
           msg == issued[p + 1]
           u == UpdateRequests(AddRequests(FinishRequests(UpdatePPDecode(s, x), msg), msg), msg)
           batch == PrepareInputs(u, msg)
<1>1. /\ inbox[i] # <<>> /\ current[i] = Absent /\ Arrived(s, x) /\ PopEntry(i)
      /\ inbox' = [inbox EXCEPT ![i] = Tail(@)]
      /\ UNCHANGED <<schedVars, issued, received, sent>>
  BY DEF ExecuteModel
<1>2. /\ DOMAIN reqStates = Stage /\ DOMAIN current = Stage /\ DOMAIN inbox = Stage
      /\ DOMAIN pending = 1 .. Stages - 1 /\ DOMAIN received = 1 .. Stages - 1
      /\ History(issued) /\ RankOK(i) /\ SentOK(sent, issued, Ended(Stages)) /\ EngineInv /\ Processing
  BY DEF RingInv, SchedInv
<1>3. /\ DOMAIN inbox' = Stage /\ inbox'[i] = Tail(inbox[i])
      /\ \A j \in Stage : j # i => inbox'[j] = inbox[j]
  BY <1>1, <1>2
<1>4. /\ p \in Nat /\ p < Len(issued) /\ Executed(i)' = p + 1 /\ InboxOK(i)'
      /\ Head(inbox[i]) = msg /\ Len(issued) \in Nat
  BY <1>1, <1>3, InboxTaken
<1>5. Ended(i) = p
  BY <1>1 DEF Ended
<1>6. /\ reqStates' = [reqStates EXCEPT ![i] = u]
      /\ \/ /\ msg.rows = <<>>
            /\ results' = IF i = Stages THEN Append(results, [r \in Client |-> <<>>]) ELSE results
            /\ current' = current
         \/ /\ msg.rows # <<>>
            /\ current' = [current EXCEPT ![i] = batch]
            /\ results' = results
  BY <1>4 DEF ExecuteModel, Refreshed
<1>7. /\ DOMAIN pending' = 1 .. Stages - 1
      /\ i # Stages => pending'[i] = Append(Tail(pending[i]), Nothing)
      /\ \A j \in Stage : j # i /\ j # Stages => pending'[j] = pending[j]
  <2>1. i # Stages => i \in 1 .. Stages - 1
    BY RingConstants DEF Stage
  <2> QED
    BY <1>1, <1>2, <2>1 DEF PopEntry
<1>8. Ended(Stages) \in Nat
  <2>1. Stages \in Stage
    BY RingConstants DEF Stage
  <2>2. RankOK(Stages)
    BY <2>1 DEF RingInv
  <2>3. Ended(Stages) \in 0 .. Executed(Stages) /\ Executed(Stages) \in Nat
    BY <1>2, <2>1, <2>2, RankCounts
  <2> QED
    BY <2>3
<1>9. RankState(issued, p, p, i, s, Absent, pending[i], received[i])
  BY <1>1, <1>2, <1>5, RankParts
<1>10. x = IF i = Stages THEN Nothing ELSE Head(pending[i])
  BY DEF Entry
<1> HIDE DEF p, s, x
<1>11. /\ msg.rows # <<>> =>
              /\ batch # Absent
              /\ RankState(issued, p + 1, p, i, u, batch, pending'[i], received[i])
       /\ msg.rows = <<>> => RankState(issued, p + 1, p + 1, i, u, Absent, pending'[i], received[i])
  BY <1>1, <1>2, <1>4, <1>7, <1>8, <1>9, <1>10, ExecutedRank
<1> HIDE DEF u, batch, msg
<1>12. /\ DOMAIN reqStates' = Stage /\ reqStates'[i] = u
       /\ \A j \in Stage : j # i => reqStates'[j] = reqStates[j]
  BY <1>2, <1>6
<1>13. /\ DOMAIN current' = Stage
       /\ \A j \in Stage : j # i => current'[j] = current[j]
       /\ current'[i] = IF msg.rows = <<>> THEN Absent ELSE batch
  BY <1>1, <1>2, <1>6
<1>14. Ended(i)' = IF msg.rows = <<>> THEN p + 1 ELSE p
  <2>1. Ended(i)' = IF current'[i] # Absent THEN Executed(i)' - 1 ELSE Executed(i)'
    BY DEF Ended
  <2>2. CASE msg.rows = <<>>
    BY <1>4, <1>13, <2>1, <2>2
  <2>3. CASE msg.rows # <<>>
    <3>1. Ended(i)' = (p + 1) - 1
      BY <1>4, <1>11, <1>13, <2>1, <2>3
    <3> QED
      BY <1>4, <2>3, <3>1
  <2> QED
    BY <2>2, <2>3
<1>15. RankState(issued, p + 1, Ended(i)', i, reqStates'[i], current'[i], pending'[i], received[i])
  BY <1>11, <1>12, <1>13, <1>14
<1>16. RankOK(i)'
  <2>1. RankState(issued', Executed(i)', Ended(i)', i, reqStates'[i], current'[i], pending'[i], received'[i])
    BY <1>1, <1>4, <1>15
  <2> QED
    BY <1>4, <2>1 DEF RankOK, RankState
<1>17. i # Stages => sent' = sent /\ results' = results
  BY <1>1, <1>6
<1>18. ASSUME i = Stages
       PROVE  SentOK(sent', issued, Ended(Stages)') /\ AnswersOK(results', issued, Processed, Ended(Stages)')
  <2>1. SentOK(sent, issued, p) /\ AnswersOK(results, issued, Processed, p)
    BY <1>2, <1>5, <1>18 DEF EngineInv
  <2>2. CASE msg.rows # <<>>
    BY <1>1, <1>6, <1>14, <1>18, <2>1, <2>2
  <2>3. CASE msg.rows = <<>>
    <3> DEFINE ans == [r \in Client |-> <<>>]
    <3>1. <<>> \in Text
      BY DEF Text
    <3>2. ans \in [Client -> Text]
      BY <3>1
    <3>3. \A r \in Client : ans[r] = AnswerOf(issued[p + 1], r)
      BY <2>3, NoRows DEF AnswerOf, msg
    <3>4. results' = Append(results, ans)
      BY <1>6, <1>18, <2>3
    <3>5. Processed \in Nat
      BY <1>2, <1>4 DEF Processing
    <3> HIDE DEF ans
    <3>6. AnswersOK(results', issued, Processed, p + 1)
      BY <1>4, <2>1, <3>2, <3>3, <3>4, <3>5, AnswerNext
    <3>7. SentOK(sent', issued, p + 1)
      BY <1>1, <1>4, <2>1, <2>3, SentAfterNone DEF msg
    <3> QED
      BY <1>14, <1>18, <2>3, <3>6, <3>7
  <2> QED
    BY <2>2, <2>3
<1>19. \A j \in Stage : j # i =>
          /\ inbox'[j] = inbox[j] /\ reqStates'[j] = reqStates[j] /\ current'[j] = current[j]
          /\ j # Stages => pending'[j] = pending[j] /\ received'[j] = received[j]
  BY <1>1, <1>3, <1>7, <1>12, <1>13
<1>20. /\ DOMAIN reqStates' = DOMAIN reqStates /\ DOMAIN current' = DOMAIN current
       /\ DOMAIN inbox' = DOMAIN inbox /\ DOMAIN pending' = DOMAIN pending
       /\ DOMAIN received' = DOMAIN received
  BY <1>1, <1>2, <1>3, <1>7, <1>12, <1>13
<1>21. UNCHANGED <<schedVars, issued>>
  BY <1>1
<1> QED
  BY <1>16, <1>17, <1>18, <1>19, <1>20, <1>21, RankStep

-----------------------------------------------------------------------------
(***************************************************************************)
(* sample_tokens of a rank: the batch is the one of the last message.      *)
(***************************************************************************)
\* The rows of a batch are those of its message, in slots of their own.
SlotsTaken(batch, s, msg) ==
    LET rows == SortBatch(msg.rows)
    IN  /\ rows \in Seq(RowSet) /\ DOMAIN batch = DOMAIN rows /\ DOMAIN rows = 1 .. Len(rows)
        /\ \A j \in DOMAIN rows :
              /\ rows[j] \in RowSet /\ rows[j].r \in Client /\ batch[j].of = rows[j]
              /\ Has(msg, rows[j].r) /\ RowOf(msg, rows[j].r) = rows[j]
              /\ batch[j] \in BatchRow /\ batch[j].slot = s.index[rows[j].r]
              /\ batch[j].slot \in 1 .. Slots /\ batch[j].at = rows[j].nc
              /\ batch[j].sample <=> Samples(rows[j])
        /\ \A j, k \in DOMAIN rows : batch[j].slot = batch[k].slot => j = k
        /\ \A r \in Client : Has(msg, r) => \E j \in DOMAIN rows : rows[j] = RowOf(msg, r) /\ rows[j].r = r
        /\ NeedsSampled(batch) <=> Needs(msg)

LEMMA BatchSlots ==
    ASSUME NEW ms, History(ms), NEW p \in 1 .. Len(ms), NEW i, NEW s \in TableSet, SlotsOK(s),
           HoldersOK(s, ms, p), NEW batch, BatchOK(batch, s, ms, p, i)
    PROVE  SlotsTaken(batch, s, ms[p])
<1> DEFINE rows == SortBatch(ms[p].rows)
<1>1. ms[p] \in MessageSet /\ RowsDistinct(ms[p])
  BY HistoryAt
<1>2. /\ rows \in Seq(RowSet) /\ DOMAIN rows = 1 .. Len(rows)
      /\ \A j \in DOMAIN rows : Has(ms[p], rows[j].r) /\ RowOf(ms[p], rows[j].r) = rows[j]
      /\ \A r : Has(ms[p], r) => \E j \in DOMAIN rows : rows[j] = RowOf(ms[p], r) /\ rows[j].r = r
      /\ \A j, k \in DOMAIN rows : rows[j].r = rows[k].r => j = k
      /\ (\E j \in DOMAIN rows : Samples(rows[j])) <=> Needs(ms[p])
  BY <1>1, BatchRows
<1>3. /\ batch \in Seq(BatchRow) /\ DOMAIN batch = DOMAIN rows
      /\ \A j \in DOMAIN rows : PreparedOK(batch[j], rows[j], s, i)
  BY DEF BatchOK
<1> HIDE DEF rows
<1>4. \A j \in DOMAIN rows : rows[j] \in RowSet /\ rows[j].r \in Client
  BY <1>2, RowNumbers
<1>5. \A j \in DOMAIN rows : batch[j] \in BatchRow
  <2> DEFINE B == BatchRow
  <2>1. batch \in Seq(B) /\ DOMAIN batch = DOMAIN rows
    BY <1>3
  <2> HIDE DEF B
  <2> QED
    BY <2>1 DEF B
<1>6. \A j \in DOMAIN rows : /\ batch[j].of = rows[j] /\ batch[j].slot = s.index[rows[j].r]
                             /\ batch[j].at = rows[j].nc /\ (batch[j].sample <=> Samples(rows[j]))
  BY <1>3 DEF PreparedOK
<1>7. \A j \in DOMAIN rows : batch[j].slot \in 1 .. Slots /\ batch[j].slot # 0
  BY <1>5, RingConstants DEF BatchRow
<1>8. \A j, k \in DOMAIN rows : batch[j].slot = batch[k].slot => j = k
  <2> TAKE j, k \in DOMAIN rows
  <2> HAVE batch[j].slot = batch[k].slot
  <2>1. s.index[rows[j].r] = s.index[rows[k].r] /\ s.index[rows[j].r] # 0
    BY <1>6, <1>7
  <2>2. rows[j].r = rows[k].r
    BY <1>4, <2>1 DEF SlotsOK
  <2> QED
    BY <1>2, <2>2
<1>9. NeedsSampled(batch) <=> Needs(ms[p])
  BY <1>2, <1>3, <1>6 DEF NeedsSampled
<1>10. \A r \in Client : Has(ms[p], r) => \E j \in DOMAIN rows : rows[j] = RowOf(ms[p], r) /\ rows[j].r = r
  BY <1>2
<1> QED
  BY <1>2, <1>3, <1>4, <1>5, <1>6, <1>7, <1>8, <1>9, <1>10 DEF SlotsTaken, rows

\* The tables between the tokens and the count of computed positions.
TokensIn(s, ms, p, i) ==
    /\ s \in TableSet /\ SlotsOK(s) /\ HoldersOK(s, ms, p)
    /\ \A r \in Client : \A a \in 1 .. p : Last(ms, r, a, p) =>
          EntryOK(s.tab[s.index[r]], RowOf(ms[a], r), Computed(RowOf(ms[a], r), a, p - 1),
                  Known(RowOf(ms[a], r), Told(i, a, p, p)))

LEMMA EntryFurther ==
    ASSUME NEW t \in TableRow, NEW x \in RowSet, NEW k, EntryOK(t, x, x.nc, k)
    PROVE  EntryOK(Further(t, x.q), x, End(x), k)
<1> DEFINE z == Further(t, x.q)
<1>1. x.q \in Nat /\ End(x) = x.nc + x.q
  BY RowNumbers
<1>2. z.nc = t.nc + x.q /\ z.ids = t.ids /\ z.plen = t.plen /\ z.last = t.last /\ z.who = t.who
  BY <1>1, FurtherRow
<1> HIDE DEF z
<1>3. z.nc = End(x)
  BY <1>1, <1>2 DEF EntryOK
<1>4. EntryOK(z, x, End(x), k)
  BY <1>2, <1>3 DEF EntryOK
<1> QED
  BY <1>4 DEF z

LEMMA AdvancedTable ==
    ASSUME NEW ms, History(ms), NEW p \in 1 .. Len(ms), NEW i, NEW s, TokensIn(s, ms, p, i),
           NEW batch, BatchOK(batch, s, ms, p, i)
    PROVE  LET u == Advance(s, batch)
           IN  TableOK(u, ms, p, p, i) /\ u.index = s.index /\ u.gen = s.gen
<1> DEFINE rows == SortBatch(ms[p].rows)
           D == DOMAIN batch
           u == Advance(s, batch)
<1>1. s \in TableSet /\ SlotsOK(s) /\ HoldersOK(s, ms, p) /\ p \in Nat /\ p >= 1
  BY DEF TokensIn, History
<1>2. /\ DOMAIN batch = DOMAIN rows
      /\ \A j \in DOMAIN rows :
            /\ rows[j] \in RowSet /\ rows[j].r \in Client /\ batch[j].of = rows[j]
            /\ Has(ms[p], rows[j].r) /\ batch[j].slot = s.index[rows[j].r]
            /\ batch[j].slot \in 1 .. Slots
      /\ \A j, k \in DOMAIN rows : batch[j].slot = batch[k].slot => j = k
      /\ \A r \in Client : Has(ms[p], r) => \E j \in DOMAIN rows : rows[j] = RowOf(ms[p], r) /\ rows[j].r = r
  <2>1. SlotsTaken(batch, s, ms[p])
    BY <1>1, BatchSlots
  <2> QED
    BY <2>1 DEF SlotsTaken
<1> HIDE DEF rows
<1>3. D = DOMAIN rows /\ \A j \in D : batch[j].of.q \in Nat /\ rows[j].q \in Nat
  BY <1>2, RowNumbers
<1>4. /\ u \in TableSet /\ SlotsOK(u) /\ u.index = s.index /\ u.gen = s.gen
      /\ \A j \in D : u.tab[batch[j].slot] = Further(s.tab[batch[j].slot], batch[j].of.q)
      /\ \A x \in 1 .. Slots : (\A j \in D : batch[j].slot # x) => u.tab[x] = s.tab[x]
  BY <1>1, <1>2, <1>3, Advanced
<1> HIDE DEF D, u
<1>5. ASSUME NEW r \in Client, NEW a \in 1 .. p, Last(ms, r, a, p)
      PROVE  EntryOK(u.tab[u.index[r]], RowOf(ms[a], r), Computed(RowOf(ms[a], r), a, p),
                     Known(RowOf(ms[a], r), Told(i, a, p, p)))
  <2> DEFINE x == RowOf(ms[a], r)
             y == s.index[r]
             k == Known(x, Told(i, a, p, p))
  <2>1. EntryOK(s.tab[y], x, Computed(x, a, p - 1), k)
    BY <1>5 DEF TokensIn
  <2>2. r \in Held(ms, p)
    BY <1>5, HeldLast
  <2>3. y \in 1 .. Slots /\ y # 0
    <3>1. y # 0 /\ y \in 0 .. Slots
      BY <1>1, <2>2, TableFields DEF HoldersOK
    <3> QED
      BY <3>1, RingConstants
  <2>4. s.tab[y] \in TableRow
    BY <1>1, <2>3, TableFields
  <2>5. CASE a = p
    <3>1. Has(ms[p], r)
      BY <1>5, <2>5 DEF Last
    <3>2. PICK j \in D : rows[j] = RowOf(ms[p], r) /\ rows[j].r = r
      BY <1>2, <1>3, <3>1
    <3>3. x = rows[j] /\ x \in RowSet /\ batch[j].slot = y /\ batch[j].of = x
      BY <1>2, <1>3, <2>5, <3>2
    <3>4. u.tab[y] = Further(s.tab[y], x.q)
      BY <1>4, <3>3
    <3>5. Computed(x, a, p - 1) = x.nc /\ Computed(x, a, p) = End(x)
      BY <1>1, <2>5 DEF Computed
    <3> HIDE DEF x, y, k
    <3>6. EntryOK(u.tab[y], x, End(x), k)
      BY <2>1, <2>4, <3>3, <3>4, <3>5, EntryFurther
    <3>7. EntryOK(u.tab[y], x, Computed(x, a, p), k)
      BY <3>5, <3>6
    <3> QED
      BY <1>4, <3>7 DEF x, y, k
  <2>6. CASE a # p
    <3>1. ~Has(ms[p], r)
      BY <1>1, <1>5, <2>6 DEF Last
    <3>2. \A j \in D : batch[j].slot # y
      <4> SUFFICES ASSUME NEW j \in D, batch[j].slot = y PROVE FALSE
        OBVIOUS
      <4>1. s.index[rows[j].r] = s.index[r] /\ s.index[r] # 0 /\ rows[j].r \in Client
        BY <1>2, <1>3, <2>3
      <4>2. rows[j].r = r
        BY <1>1, <4>1 DEF SlotsOK
      <4> QED
        BY <1>2, <1>3, <3>1, <4>2
    <3>3. u.tab[y] = s.tab[y]
      BY <1>4, <2>3, <3>2
    <3>4. Computed(x, a, p) = Computed(x, a, p - 1)
      BY <1>1, <2>6 DEF Computed
    <3> HIDE DEF x, y, k
    <3>5. EntryOK(u.tab[y], x, Computed(x, a, p), k)
      BY <2>1, <3>3, <3>4
    <3> QED
      BY <1>4, <3>5 DEF x, y, k
  <2> QED
    BY <2>5, <2>6
<1>6. HoldersOK(u, ms, p)
  BY <1>1, <1>4 DEF HoldersOK
<1>7. TableOK(u, ms, p, p, i)
  BY <1>4, <1>5, <1>6 DEF TableOK
<1> QED
  BY <1>4, <1>7 DEF u

\* The reception of a batch, as the ring takes it.
LEMMA PendingRecvOK ==
    ASSUME NEW ms, History(ms), NEW p \in 1 .. Len(ms), NEW s \in TableSet,
           NEW batch, SlotsTaken(batch, s, ms[p]), NEW n, n = Sampled(ms, p), NEW u, u.index = s.index, u.gen = s.gen
    PROVE  PendingRecv(s, batch, n) \in EntrySet /\ ReceptionOK(PendingRecv(s, batch, n), u, ms, p, p)
<1> DEFINE rows == SortBatch(ms[p].rows)
           D == DOMAIN batch
           N == Len(rows)
           x == PendingRecv(s, batch, n)
<1>1. /\ D = DOMAIN rows /\ D = 1 .. N /\ N \in Nat
      /\ \A j \in D :
            /\ rows[j] \in RowSet /\ rows[j].r \in Client /\ batch[j].of = rows[j]
            /\ batch[j] \in BatchRow /\ batch[j].slot = s.index[rows[j].r]
            /\ batch[j].slot \in 1 .. Slots /\ (batch[j].sample <=> Samples(rows[j]))
  BY DEF SlotsTaken
<1>2. p \in Nat /\ n \in Nat
  BY SampledNext DEF History
<1>3. \A j \in D : s.gen[batch[j].slot] \in Nat
  BY <1>1, TableFields
<1> HIDE DEF rows, D, N
<1>4. \A j \in D : batch[j].sample \in BOOLEAN
  BY <1>1 DEF BatchRow
<1>5. \A j \in D : <<batch[j].of.r, batch[j].of.inc>> \in Client \X Nat
  BY <1>1, RowNumbers
<1> DEFINE S == [j \in D |-> batch[j].slot]
           B == [j \in D |-> batch[j].sample]
           G == [j \in D |-> s.gen[batch[j].slot]]
           W == [j \in D |-> <<batch[j].of.r, batch[j].of.inc>>]
<1>6. S \in Seq(1 .. Slots)
  <2> DEFINE A == 1 .. Slots
  <2>1. \A j \in D : batch[j].slot \in A
    BY <1>1
  <2> HIDE DEF A
  <2>2. S \in Seq(A)
    BY <1>1, <2>1
  <2> QED
    BY <2>2 DEF A
<1>7. B \in Seq(BOOLEAN)
  <2> DEFINE A == BOOLEAN
  <2>1. \A j \in D : batch[j].sample \in A
    BY <1>4
  <2> HIDE DEF A
  <2>2. B \in Seq(A)
    BY <1>1, <2>1
  <2> QED
    BY <2>2 DEF A
<1>8. G \in Seq(Nat)
  BY <1>1, <1>3
<1>9. W \in Seq(Client \X Nat)
  <2> DEFINE A == Client \X Nat
  <2>1. \A j \in D : <<batch[j].of.r, batch[j].of.inc>> \in A
    BY <1>5
  <2> HIDE DEF A
  <2>2. W \in Seq(A)
    BY <1>1, <2>1
  <2> QED
    BY <2>2 DEF A
<1>10. x = [n |-> n, slots |-> S, need |-> B, gens |-> G, who |-> W]
  BY DEF PendingRecv, D
<1>11. /\ DOMAIN S = D /\ DOMAIN B = D /\ DOMAIN G = D /\ DOMAIN W = D
       /\ \A j \in D : /\ S[j] = batch[j].slot /\ G[j] = s.gen[batch[j].slot]
                       /\ W[j] = <<batch[j].of.r, batch[j].of.inc>>
  OBVIOUS
<1>12. \A j \in D : B[j] = batch[j].sample
  OBVIOUS
<1> HIDE DEF S, B, G, W, x
<1>13. x \in EntrySet
  BY <1>2, <1>6, <1>7, <1>8, <1>9, <1>10 DEF EntrySet
<1>14. x.n = n /\ x.slots = S /\ x.need = B /\ x.gens = G /\ x.who = W
  BY <1>10
<1>15. \A r : ~LeftSince(ms, p, p, r)
  BY <1>2 DEF LeftSince
<1>16. ASSUME NEW j \in D
       PROVE  /\ x.who[j] = <<rows[j].r, rows[j].inc>>
              /\ SlotKept(x.slots[j], x.gens[j], rows[j], u, ms, p, p)
  <2>1. x.slots[j] = batch[j].slot /\ x.gens[j] = s.gen[batch[j].slot]
    BY <1>11, <1>14
  <2>2. x.who[j] = <<rows[j].r, rows[j].inc>>
    BY <1>1, <1>11, <1>14
  <2> QED
    BY <1>1, <1>15, <2>1, <2>2 DEF SlotKept
<1>17. \A j \in D : x.need[j] <=> Samples(rows[j])
  BY <1>1, <1>12, <1>14
<1>18. ReceptionOK(x, u, ms, p, p)
  BY <1>1, <1>11, <1>14, <1>16, <1>17 DEF ReceptionOK, rows
<1> QED
  BY <1>13, <1>18 DEF x

LEMMA RingEntryKept ==
    ASSUME NEW ms, NEW p \in Nat, NEW s, NEW u, u.index = s.index, u.gen = s.gen,
           NEW x, NEW m \in Int, m <= p - 1, RingEntryOK(x, s, ms, p, p - 1, m)
    PROVE  RingEntryOK(x, u, ms, p, p, m)
<1>1. \A y, g, row : SlotKept(y, g, row, u, ms, p, m) <=> SlotKept(y, g, row, s, ms, p, m)
  BY DEF SlotKept
<1>2. ReceptionOK(x, u, ms, p, m) <=> ReceptionOK(x, s, ms, p, m)
  BY <1>1 DEF ReceptionOK
<1>3. m <= p
  OBVIOUS
<1> QED
  BY <1>2, <1>3 DEF RingEntryOK

\* The reserved place is filled, or left free for a batch without samples.
PlaceFor(queue, n, u, ms, p) ==
    /\ Needs(ms[p]) => n + 1 = Sampled(ms, p)
    /\ Len(queue) = Stages
    /\ \A x \in EntrySet : Needs(ms[p]) /\ ReceptionOK(x, u, ms, p, p) =>
           PendingOK([queue EXCEPT ![Stages] = x], n + 1, u, ms, p, p)
    /\ ~Needs(ms[p]) => PendingOK(queue, n, u, ms, p, p)

LEMMA PendingFilled ==
    ASSUME NEW ms, NEW p \in Nat, p >= 1, NEW s, NEW u, u.index = s.index, u.gen = s.gen,
           NEW queue, NEW n, PendingOK(queue, n, s, ms, p, p - 1)
    PROVE  PlaceFor(queue, n, u, ms, p)
<1>0. Stages \in Nat /\ Stages > 1 /\ Stages \in 1 .. Stages
  BY RingConstants
<1>1. /\ queue \in Seq(EntrySet) /\ Len(queue) = Stages /\ n = Sampled(ms, p - 1)
      /\ \A k \in 1 .. Stages : RingEntryOK(queue[k], s, ms, p, p - 1, p - Stages + k)
  BY DEF PendingOK
<1>2. Sampled(ms, p) = n + (IF Needs(ms[p]) THEN 1 ELSE 0) /\ n \in Nat
  <2>1. p - 1 \in Nat /\ (p - 1) + 1 = p
    OBVIOUS
  <2> QED
    BY <1>1, <2>1, SampledNext
<1>3. ASSUME NEW k \in 1 .. Stages, k # Stages PROVE RingEntryOK(queue[k], u, ms, p, p, p - Stages + k)
  <2>1. p - Stages + k \in Int /\ p - Stages + k <= p - 1
    BY <1>0, <1>3
  <2>2. RingEntryOK(queue[k], s, ms, p, p - 1, p - Stages + k)
    BY <1>1
  <2> QED
    BY <2>1, <2>2, RingEntryKept
<1>4. p - Stages + Stages = p
  BY <1>0
<1>5. ASSUME NEW x \in EntrySet, Needs(ms[p]), ReceptionOK(x, u, ms, p, p)
      PROVE  PendingOK([queue EXCEPT ![Stages] = x], n + 1, u, ms, p, p)
  <2> DEFINE q == [queue EXCEPT ![Stages] = x]
  <2>1. /\ q \in Seq(EntrySet) /\ Len(q) = Stages /\ q[Stages] = x
        /\ \A k \in 1 .. Stages : k # Stages => q[k] = queue[k]
    BY <1>0, <1>1
  <2> HIDE DEF q
  <2>2. RingEntryOK(x, u, ms, p, p, p - Stages + Stages)
    BY <1>4, <1>5 DEF RingEntryOK
  <2>3. \A k \in 1 .. Stages : RingEntryOK(q[k], u, ms, p, p, p - Stages + k)
    <3> TAKE k \in 1 .. Stages
    <3>1. CASE k = Stages
      BY <2>1, <2>2, <3>1
    <3>2. CASE k # Stages
      BY <1>3, <2>1, <3>2
    <3> QED
      BY <3>1, <3>2
  <2>4. n + 1 = Sampled(ms, p)
    BY <1>2, <1>5
  <2>5. PendingOK(q, n + 1, u, ms, p, p)
    BY <2>1, <2>3, <2>4 DEF PendingOK
  <2> QED
    BY <2>5 DEF q
<1>6. ASSUME ~Needs(ms[p]) PROVE PendingOK(queue, n, u, ms, p, p)
  <2>1. RingEntryOK(queue[Stages], s, ms, p, p - 1, p - Stages + Stages)
    BY <1>0, <1>1
  <2>2. RingEntryOK(queue[Stages], u, ms, p, p, p - Stages + Stages)
    BY <1>4, <1>6, <2>1 DEF RingEntryOK
  <2>3. \A k \in 1 .. Stages : RingEntryOK(queue[k], u, ms, p, p, p - Stages + k)
    <3> TAKE k \in 1 .. Stages
    <3>1. CASE k = Stages
      BY <2>2, <3>1
    <3>2. CASE k # Stages
      BY <1>3, <3>2
    <3> QED
      BY <3>1, <3>2
  <2>4. n = Sampled(ms, p)
    BY <1>2, <1>6
  <2> QED
    BY <1>1, <2>3, <2>4 DEF PendingOK
<1>7. Needs(ms[p]) => n + 1 = Sampled(ms, p)
  BY <1>2
<1> QED
  BY <1>1, <1>5, <1>6, <1>7 DEF PlaceFor

LEMMA ReceivedRank ==
    ASSUME NEW ms, History(ms), NEW p \in 1 .. Len(ms), NEW i \in Stage, i # Stages, NEW s, NEW batch,
           batch # Absent, NEW queue, NEW n, RankState(ms, p, p - 1, i, s, batch, queue, n),
           NEW after, NEW count,
           IF NeedsSampled(batch)
           THEN after = [queue EXCEPT ![Len(queue)] = PendingRecv(s, batch, n + 1)] /\ count = n + 1
           ELSE after = queue /\ count = n
    PROVE  RankState(ms, p, p, i, Advance(s, batch), Absent, after, count)
<1> DEFINE u == Advance(s, batch)
<1>1. /\ TableOK(s, ms, p, p - 1, i) /\ BatchOK(batch, s, ms, p, i) /\ PendingOK(queue, n, s, ms, p, p - 1)
      /\ s \in TableSet /\ SlotsOK(s) /\ HoldersOK(s, ms, p) /\ p \in Nat /\ p >= 1
  BY DEF RankState, TableOK, History
<1>2. SlotsTaken(batch, s, ms[p]) /\ (NeedsSampled(batch) <=> Needs(ms[p]))
  <2>1. SlotsTaken(batch, s, ms[p])
    BY <1>1, BatchSlots
  <2> QED
    BY <2>1 DEF SlotsTaken
<1>3. TokensIn(s, ms, p, i)
  <2>1. ASSUME NEW r \in Client, NEW a \in 1 .. p, Last(ms, r, a, p)
        PROVE  EntryOK(s.tab[s.index[r]], RowOf(ms[a], r), Computed(RowOf(ms[a], r), a, p - 1),
                       Known(RowOf(ms[a], r), Told(i, a, p, p)))
    <3>1. Told(i, a, p, p) <=> Told(i, a, p, p - 1)
      BY DEF Told
    <3>2. Known(RowOf(ms[a], r), Told(i, a, p, p)) = Known(RowOf(ms[a], r), Told(i, a, p, p - 1))
      BY <3>1 DEF Known
    <3>3. EntryOK(s.tab[s.index[r]], RowOf(ms[a], r), Computed(RowOf(ms[a], r), a, p - 1),
                  Known(RowOf(ms[a], r), Told(i, a, p, p - 1)))
      BY <1>1, <2>1 DEF TableOK
    <3> QED
      BY <3>2, <3>3
  <2> QED
    BY <1>1, <2>1 DEF TokensIn
<1>4. TableOK(u, ms, p, p, i) /\ u.index = s.index /\ u.gen = s.gen
  BY <1>1, <1>3, AdvancedTable
<1> HIDE DEF u
<1>5. PlaceFor(queue, n, u, ms, p)
  BY <1>1, <1>4, PendingFilled
<1>6. PendingOK(after, count, u, ms, p, p)
  <2>1. CASE NeedsSampled(batch)
    <3> DEFINE x == PendingRecv(s, batch, n + 1)
    <3>1. Len(queue) = Stages /\ n + 1 = Sampled(ms, p)
      BY <1>2, <1>5, <2>1 DEF PlaceFor
    <3>2. x \in EntrySet /\ ReceptionOK(x, u, ms, p, p)
      BY <1>1, <1>2, <1>4, <3>1, PendingRecvOK
    <3>3. after = [queue EXCEPT ![Stages] = x] /\ count = n + 1
      BY <2>1, <3>1
    <3> HIDE DEF x
    <3> QED
      BY <1>2, <1>5, <2>1, <3>2, <3>3 DEF PlaceFor
  <2>2. CASE ~NeedsSampled(batch)
    <3>1. after = queue /\ count = n
      BY <2>2
    <3> QED
      BY <1>2, <1>5, <2>2, <3>1 DEF PlaceFor
  <2> QED
    BY <2>1, <2>2
<1>7. RankState(ms, p, p, i, u, Absent, after, count)
  BY <1>4, <1>6 DEF RankState
<1> QED
  BY <1>7 DEF u

\* The inbox of a rank that takes no message.
LEMMA InboxIdle ==
    ASSUME NEW i, InboxOK(i), issued' = issued, inbox'[i] = inbox[i]
    PROVE  InboxOK(i)' /\ Executed(i)' = Executed(i)
<1>1. Executed(i)' = Executed(i)
  BY DEF Executed
<1> HIDE DEF Executed
<1> QED
  BY <1>1 DEF InboxOK

LEMMA ReceiveRing ==
    ASSUME RingInv, NEW i \in Stage, Receive(i)
    PROVE  RingInv'
<1> DEFINE p == Executed(i)
           s == reqStates[i]
           batch == current[i]
<1>1. /\ i < Stages /\ batch # Absent
      /\ IF NeedsSampled(batch)
         THEN /\ received' = [received EXCEPT ![i] = @ + 1]
              /\ pending' = [pending EXCEPT ![i][Len(pending[i])] = PendingRecv(s, batch, received[i] + 1)]
         ELSE received' = received /\ pending' = pending
      /\ reqStates' = [reqStates EXCEPT ![i] = Advance(@, batch)]
      /\ current' = [current EXCEPT ![i] = Absent]
      /\ UNCHANGED <<schedVars, issued, inbox, hidden, sent, results>>
  BY DEF Receive
<1>2. /\ DOMAIN reqStates = Stage /\ DOMAIN current = Stage /\ DOMAIN inbox = Stage
      /\ DOMAIN pending = 1 .. Stages - 1 /\ DOMAIN received = 1 .. Stages - 1
      /\ History(issued) /\ RankOK(i) /\ InboxOK(i)
  BY DEF RingInv, SchedInv, RankOK
<1>3. i # Stages /\ i \in 1 .. Stages - 1
  BY <1>1, RingConstants DEF Stage
<1>4. p \in 1 .. Len(issued) /\ Ended(i) = p - 1
  <2>1. p \in 0 .. Len(issued) /\ p >= 1 /\ Ended(i) = p - 1 /\ Len(issued) \in Nat
    BY <1>1, <1>2, RankCounts
  <2> HIDE DEF p
  <2> QED
    BY <2>1
<1>5. RankState(issued, p, p - 1, i, s, batch, pending[i], received[i])
  BY <1>2, <1>4, RankParts
<1>6. /\ DOMAIN reqStates' = Stage /\ reqStates'[i] = Advance(s, batch)
      /\ DOMAIN current' = Stage /\ current'[i] = Absent
      /\ \A j \in Stage : j # i => reqStates'[j] = reqStates[j] /\ current'[j] = current[j]
  BY <1>1, <1>2
<1>7. /\ DOMAIN pending' = 1 .. Stages - 1 /\ DOMAIN received' = 1 .. Stages - 1
      /\ \A j \in Stage : j # i /\ j # Stages => pending'[j] = pending[j] /\ received'[j] = received[j]
      /\ IF NeedsSampled(batch)
         THEN /\ pending'[i] = [pending[i] EXCEPT ![Len(pending[i])] = PendingRecv(s, batch, received[i] + 1)]
              /\ received'[i] = received[i] + 1
         ELSE pending'[i] = pending[i] /\ received'[i] = received[i]
  <2>1. CASE NeedsSampled(batch)
    <3> DEFINE Y == [pending[i] EXCEPT ![Len(pending[i])] = PendingRecv(s, batch, received[i] + 1)]
    <3>1. received' = [received EXCEPT ![i] = @ + 1] /\ pending' = [pending EXCEPT ![i] = Y]
      BY <1>1, <2>1
    <3> HIDE DEF Y
    <3>2. /\ DOMAIN pending' = 1 .. Stages - 1 /\ DOMAIN received' = 1 .. Stages - 1
          /\ pending'[i] = Y /\ received'[i] = received[i] + 1
      BY <1>2, <1>3, <3>1
    <3>3. \A j \in Stage : j # i /\ j # Stages => pending'[j] = pending[j] /\ received'[j] = received[j]
      <4>1. \A j \in Stage : j # Stages => j \in 1 .. Stages - 1
        BY RingConstants DEF Stage
      <4> QED
        BY <1>2, <3>1, <4>1
    <3> QED
      BY <2>1, <3>2, <3>3 DEF Y
  <2>2. CASE ~NeedsSampled(batch)
    BY <1>1, <1>2, <1>3, <2>2
  <2> QED
    BY <2>1, <2>2
<1> HIDE DEF p, s, batch
<1>8. RankState(issued, p, p, i, Advance(s, batch), Absent, pending'[i], received'[i])
  BY <1>1, <1>2, <1>3, <1>4, <1>5, <1>7, ReceivedRank
<1>9. InboxOK(i)' /\ Executed(i)' = p
  BY <1>1, <1>2, InboxIdle DEF p
<1>10. Ended(i)' = p
  BY <1>6, <1>9 DEF Ended
<1>11. RankOK(i)'
  <2>1. RankState(issued', Executed(i)', Ended(i)', i, reqStates'[i], current'[i], pending'[i], received'[i])
    BY <1>1, <1>6, <1>8, <1>9, <1>10
  <2> QED
    BY <1>9, <2>1 DEF RankOK, RankState
<1>12. \A j \in Stage : j # i =>
          /\ inbox'[j] = inbox[j] /\ reqStates'[j] = reqStates[j] /\ current'[j] = current[j]
          /\ j # Stages => pending'[j] = pending[j] /\ received'[j] = received[j]
  BY <1>1, <1>6, <1>7
<1>13. /\ DOMAIN reqStates' = DOMAIN reqStates /\ DOMAIN current' = DOMAIN current
       /\ DOMAIN inbox' = DOMAIN inbox /\ DOMAIN pending' = DOMAIN pending
       /\ DOMAIN received' = DOMAIN received
  BY <1>1, <1>2, <1>6, <1>7
<1>14. UNCHANGED <<schedVars, issued>> /\ UNCHANGED <<sent, results>>
  BY <1>1
<1> QED
  BY <1>3, <1>11, <1>12, <1>13, <1>14, RankStep

-----------------------------------------------------------------------------
(***************************************************************************)
(* sample_tokens of the last rank.                                         *)
(***************************************************************************)
TokensOf(msg) == [j \in DOMAIN SortBatch(msg.rows) |-> TokenOf(SortBatch(msg.rows)[j])]

LEMMA TokenKinds ==
    ASSUME NEW x \in RowSet
    PROVE  /\ TokenOf(x) \in Token \cup {Absent}
           /\ Samples(x) => TokenOf(x) = Tok(x.r, x.inc, End(x)) /\ TokenOf(x) # Absent
           /\ ~Samples(x) => TokenOf(x) = Absent
<1>1. Tok(x.r, x.inc, End(x)) \in Token
  BY RowNumbers DEF Tok, Token
<1>2. Tok(x.r, x.inc, End(x)) # Absent
  BY <1>1, TokenPresent
<1> QED
  BY <1>1, <1>2 DEF TokenOf

\* What the sampler yields for the rows of a batch.
LEMMA BatchTokens ==
    ASSUME NEW batch, NEW s, NEW msg, SlotsTaken(batch, s, msg)
    PROVE  [j \in DOMAIN batch |-> SampledFor(batch[j])] = TokensOf(msg)
<1> DEFINE rows == SortBatch(msg.rows)
<1>1. /\ DOMAIN batch = DOMAIN rows
      /\ \A j \in DOMAIN rows : /\ rows[j] \in RowSet /\ batch[j].of = rows[j] /\ batch[j].at = rows[j].nc
  BY DEF SlotsTaken
<1> HIDE DEF rows
<1>2. ASSUME NEW j \in DOMAIN rows PROVE SampledFor(batch[j]) = TokenOf(rows[j])
  <2> DEFINE x == rows[j]
             b == batch[j]
  <2>1. x \in RowSet /\ b.of = x /\ b.at = x.nc
    BY <1>1
  <2> HIDE DEF x, b
  <2>2. b.at + b.of.q = End(x)
    BY <2>1 DEF End
  <2>3. SampledFor(b) = TokenOf(x)
    BY <2>1, <2>2 DEF SampledFor, TokenOf, Samples
  <2> QED
    BY <2>3 DEF x, b
<1>3. [j \in DOMAIN batch |-> SampledFor(batch[j])] = [j \in DOMAIN rows |-> TokenOf(rows[j])]
  BY <1>1, <1>2
<1> QED
  BY <1>3 DEF TokensOf, rows

LEMMA SampledTable ==
    ASSUME NEW ms, History(ms), NEW p \in 1 .. Len(ms), NEW s, TableOK(s, ms, p, p - 1, Stages),
           NEW batch, BatchOK(batch, s, ms, p, Stages), NEW slots, slots = [j \in DOMAIN batch |-> batch[j].slot]
    PROVE  LET v == PostUpdate(s, slots, TokensOf(ms[p]), DOMAIN batch)
           IN  TokensIn(v, ms, p, Stages) /\ v.index = s.index /\ v.gen = s.gen
<1> DEFINE rows == SortBatch(ms[p].rows)
           toks == TokensOf(ms[p])
           D == DOMAIN batch
           v == PostUpdate(s, slots, toks, D)
<1>1. s \in TableSet /\ SlotsOK(s) /\ HoldersOK(s, ms, p) /\ p \in Nat /\ p >= 1
  BY DEF TableOK, History
<1>2. SlotsTaken(batch, s, ms[p])
  BY <1>1, BatchSlots
<1>3. /\ D = DOMAIN rows
      /\ \A j \in D :
            /\ rows[j] \in RowSet /\ rows[j].r \in Client
            /\ Has(ms[p], rows[j].r) /\ batch[j].slot = s.index[rows[j].r]
            /\ batch[j].slot \in 1 .. Slots
      /\ \A j, k \in D : batch[j].slot = batch[k].slot => j = k
      /\ \A r \in Client : Has(ms[p], r) => \E j \in D : rows[j] = RowOf(ms[p], r) /\ rows[j].r = r
  BY <1>2 DEF SlotsTaken
<1>4. \A j \in D : toks[j] = TokenOf(rows[j])
  BY <1>3 DEF TokensOf
<1> HIDE DEF rows, toks, D
<1>5. \A j \in D : slots[j] = batch[j].slot
  BY DEF D
<1>6. \A j \in D : toks[j] \in Token \cup {Absent}
  BY <1>3, <1>4, TokenKinds
<1>7. /\ \A j \in D : slots[j] \in 1 .. Slots /\ toks[j] \in Token \cup {Absent}
      /\ \A i, j \in D : slots[i] = slots[j] => i = j
  BY <1>3, <1>5, <1>6
<1>8. /\ v \in TableSet /\ SlotsOK(v) /\ v.index = s.index /\ v.gen = s.gen
      /\ \A j \in D : v.tab[slots[j]] = IF toks[j] # Absent THEN WithToken(s.tab[slots[j]], toks[j])
                                        ELSE s.tab[slots[j]]
      /\ \A x \in 1 .. Slots : (\A j \in D : slots[j] # x) => v.tab[x] = s.tab[x]
  <2> DEFINE S == slots
  <2>1. s \in TableSet /\ SlotsOK(s)
    BY <1>1
  <2>2. /\ \A j \in D : S[j] \in 1 .. Slots /\ toks[j] \in Token \cup {Absent}
        /\ \A i, j \in D : S[i] = S[j] => i = j
    BY <1>7
  <2> HIDE DEF S
  <2>3. LET w == PostUpdate(s, S, toks, D)
        IN  /\ w \in TableSet /\ SlotsOK(w) /\ w.index = s.index /\ w.gen = s.gen
            /\ \A j \in D : w.tab[S[j]] = IF toks[j] # Absent THEN WithToken(s.tab[S[j]], toks[j])
                                            ELSE s.tab[S[j]]
            /\ \A x \in 1 .. Slots : (\A j \in D : S[j] # x) => w.tab[x] = s.tab[x]
    BY <2>1, <2>2, PostUpdated
  <2> QED
    BY <2>3 DEF S
<1> HIDE DEF v
<1>9. ASSUME NEW r \in Client, NEW a \in 1 .. p, Last(ms, r, a, p)
      PROVE  EntryOK(v.tab[v.index[r]], RowOf(ms[a], r), Computed(RowOf(ms[a], r), a, p - 1),
                     Known(RowOf(ms[a], r), Told(Stages, a, p, p)))
  <2> DEFINE x == RowOf(ms[a], r)
             y == s.index[r]
  <2>1. EntryOK(s.tab[y], x, Computed(x, a, p - 1), Known(x, Told(Stages, a, p, p - 1)))
    BY <1>9 DEF TableOK
  <2>2. r \in Held(ms, p)
    BY <1>9, HeldLast
  <2>3. y \in 1 .. Slots /\ y # 0
    <3>1. y # 0 /\ y \in 0 .. Slots
      BY <1>1, <2>2, TableFields DEF HoldersOK
    <3> QED
      BY <3>1, RingConstants
  <2>4. s.tab[y] \in TableRow
    BY <1>1, <2>3, TableFields
  <2>5. CASE a = p
    <3>1. Has(ms[p], r)
      BY <1>9, <2>5 DEF Last
    <3>2. PICK j \in D : rows[j] = RowOf(ms[p], r) /\ rows[j].r = r
      BY <1>3, <3>1
    <3>3. x = rows[j] /\ x \in RowSet /\ slots[j] = y /\ toks[j] = TokenOf(x)
      BY <1>3, <1>4, <1>5, <2>5, <3>2
    <3>4. Computed(x, a, p - 1) = x.nc
      BY <1>1, <2>5 DEF Computed
    <3>5. ~Told(Stages, a, p, p - 1) /\ Told(Stages, a, p, p)
      BY <1>1, <2>5 DEF Told
    <3> HIDE DEF x, y
    <3>6. CASE Samples(x)
      <4>1. Known(x, Told(Stages, a, p, p - 1)) = End(x) /\ Known(x, Told(Stages, a, p, p)) = End(x) + 1
        <5>1. Greater(Len(x.base), End(x)) = End(x)
          BY <3>3, <3>6, RowNumbers DEF Greater, Samples
        <5> QED
          BY <3>5, <3>6, <5>1 DEF Known
      <4>2. EntryOK(s.tab[y], x, x.nc, End(x))
        BY <2>1, <3>4, <4>1
      <4>3. v.tab[y] = WithToken(s.tab[y], Tok(x.r, x.inc, End(x)))
        <5>1. toks[j] = Tok(x.r, x.inc, End(x)) /\ toks[j] # Absent
          BY <3>3, <3>6, TokenKinds
        <5>2. v.tab[slots[j]] = WithToken(s.tab[slots[j]], toks[j])
          BY <1>8, <5>1
        <5> QED
          BY <3>3, <5>1, <5>2
      <4>4. EntryOK(v.tab[y], x, x.nc, End(x) + 1)
        BY <2>4, <3>3, <3>6, <4>2, <4>3, EntryToken
      <4>5. EntryOK(v.tab[y], x, Computed(x, a, p - 1), Known(x, Told(Stages, a, p, p)))
        BY <3>4, <4>1, <4>4
      <4> QED
        BY <1>8, <4>5 DEF x, y
    <3>7. CASE ~Samples(x)
      <4>1. Known(x, Told(Stages, a, p, p)) = Known(x, Told(Stages, a, p, p - 1))
        BY <3>7 DEF Known
      <4>2. v.tab[y] = s.tab[y]
        <5>1. toks[j] = Absent
          BY <3>3, <3>7, TokenKinds
        <5>2. v.tab[slots[j]] = s.tab[slots[j]]
          BY <1>8, <5>1
        <5> QED
          BY <3>3, <5>2
      <4>3. EntryOK(v.tab[y], x, Computed(x, a, p - 1), Known(x, Told(Stages, a, p, p)))
        BY <2>1, <4>1, <4>2
      <4> QED
        BY <1>8, <4>3 DEF x, y
    <3> QED
      BY <3>6, <3>7
  <2>6. CASE a # p
    <3>1. ~Has(ms[p], r)
      BY <1>1, <1>9, <2>6 DEF Last
    <3>2. \A j \in D : slots[j] # y
      <4> SUFFICES ASSUME NEW j \in D, slots[j] = y PROVE FALSE
        OBVIOUS
      <4>1. s.index[rows[j].r] = s.index[r] /\ s.index[r] # 0 /\ rows[j].r \in Client
        BY <1>3, <1>5, <2>3
      <4>2. rows[j].r = r
        BY <1>1, <4>1 DEF SlotsOK
      <4> QED
        BY <1>3, <3>1, <4>2
    <3>3. v.tab[y] = s.tab[y]
      BY <1>8, <2>3, <3>2
    <3>4. Told(Stages, a, p, p) <=> Told(Stages, a, p, p - 1)
      BY <1>1, <2>6 DEF Told
    <3>5. Known(x, Told(Stages, a, p, p)) = Known(x, Told(Stages, a, p, p - 1))
      BY <3>4 DEF Known
    <3> HIDE DEF x, y
    <3>6. EntryOK(v.tab[y], x, Computed(x, a, p - 1), Known(x, Told(Stages, a, p, p)))
      BY <2>1, <3>3, <3>5
    <3> QED
      BY <1>8, <3>6 DEF x, y
  <2> QED
    BY <2>5, <2>6
<1>10. HoldersOK(v, ms, p)
  BY <1>1, <1>8 DEF HoldersOK
<1>11. TokensIn(v, ms, p, Stages)
  BY <1>8, <1>9, <1>10 DEF TokensIn
<1> QED
  BY <1>8, <1>11 DEF v, toks, D

LEMMA SentNext ==
    ASSUME NEW ms, NEW p \in Nat, NEW payloads, SentOK(payloads, ms, p),
           TokensOf(ms[p + 1]) \in Seq(Token \cup {Absent})
    PROVE  SentOK(IF Needs(ms[p + 1]) THEN Append(payloads, TokensOf(ms[p + 1])) ELSE payloads, ms, p + 1)
<1> DEFINE toks == TokensOf(ms[p + 1])
           A == Token \cup {Absent}
           X == Seq(A)
           n == Sampled(ms, p)
<1>1. Len(payloads) = n /\ n \in Nat
  BY SampledNext DEF SentOK
<1>2. /\ payloads \in Seq(X)
      /\ \A m \in 1 .. p : Needs(ms[m]) => payloads[Sampled(ms, m)] = TokensOf(ms[m])
  BY DEF SentOK, TokensOf
<1>3. \A m \in 1 .. p : Sampled(ms, m) <= n
  BY SampledMono
<1>4. CASE Needs(ms[p + 1])
  <2> DEFINE q == Append(payloads, toks)
  <2>1. Sampled(ms, p + 1) = n + 1
    BY <1>4, SampledNext
  <2>2. toks \in X
    OBVIOUS
  <2> HIDE DEF X, toks, n
  <2>3. /\ q \in Seq(X) /\ Len(q) = n + 1 /\ q[n + 1] = toks
        /\ \A k \in 1 .. n : q[k] = payloads[k]
    BY <1>1, <1>2, <2>2
  <2> HIDE DEF q
  <2>4. ASSUME NEW m \in 1 .. p + 1, Needs(ms[m]) PROVE q[Sampled(ms, m)] = TokensOf(ms[m])
    <3>1. CASE m = p + 1
      BY <2>1, <2>3, <3>1 DEF toks
    <3>2. CASE m # p + 1
      <4>1. m \in 1 .. p /\ m \in Nat \ {0} /\ m - 1 \in Nat
        BY <3>2
      <4>2. Sampled(ms, m) \in 1 .. n
        <5>1. Sampled(ms, m - 1) < Sampled(ms, m)
          BY <2>4, <4>1, SampledMono
        <5>2. Sampled(ms, m - 1) \in Nat /\ Sampled(ms, m) \in Nat
          BY <4>1, SampledNext
        <5>3. Sampled(ms, m) <= n
          BY <1>3, <4>1
        <5> QED
          BY <1>1, <5>1, <5>2, <5>3
      <4> QED
        BY <1>2, <2>3, <2>4, <4>1, <4>2
    <3> QED
      BY <3>1, <3>2
  <2>5. SentOK(q, ms, p + 1)
    BY <2>1, <2>3, <2>4 DEF SentOK, TokensOf, X, A
  <2> QED
    BY <1>4, <2>5 DEF q, toks
<1>5. CASE ~Needs(ms[p + 1])
  <2>1. Sampled(ms, p + 1) = n + 0
    BY <1>5, SampledNext
  <2>2. \A m \in 1 .. p + 1 : Needs(ms[m]) => m \in 1 .. p
    BY <1>5
  <2>3. SentOK(payloads, ms, p + 1)
    BY <1>1, <1>2, <2>1, <2>2 DEF SentOK, TokensOf
  <2> QED
    BY <1>5, <2>3
<1> QED
  BY <1>4, <1>5

LEMMA TokensKind ==
    ASSUME NEW msg \in MessageSet
    PROVE  TokensOf(msg) \in Seq(Token \cup {Absent})
<1> DEFINE rows == SortBatch(msg.rows)
           A == Token \cup {Absent}
<1>1. msg.rows \in Seq(RowSet)
  BY DEF MessageSet
<1>2. rows \in Seq(RowSet)
  BY <1>1, SortElems
<1> HIDE DEF rows
<1>3. \A j \in DOMAIN rows : TokenOf(rows[j]) \in A
  BY <1>2, TokenKinds
<1> HIDE DEF A
<1>4. [j \in DOMAIN rows |-> TokenOf(rows[j])] \in Seq(A)
  BY <1>2, <1>3
<1> QED
  BY <1>4 DEF A, TokensOf, rows

\* The output of a step, for the engine.
LEMMA AnswersFor ==
    ASSUME NEW batch, NEW s, NEW msg \in MessageSet, RowsDistinct(msg), SlotsTaken(batch, s, msg),
           NEW toks, toks = TokensOf(msg), NEW r \in Client
    PROVE  /\ (IF \E j \in DOMAIN batch : batch[j].of.r = r /\ toks[j] # Absent
               THEN <<toks[CHOOSE j \in DOMAIN batch : batch[j].of.r = r]>> ELSE <<>>) = AnswerOf(msg, r)
           /\ AnswerOf(msg, r) \in Text
<1> DEFINE rows == SortBatch(msg.rows)
           D == DOMAIN batch
           c == CHOOSE j \in D : batch[j].of.r = r
<1>1. /\ D = DOMAIN rows
      /\ \A j \in D : /\ rows[j] \in RowSet /\ batch[j].of = rows[j]
                      /\ Has(msg, rows[j].r) /\ RowOf(msg, rows[j].r) = rows[j]
      /\ Has(msg, r) => \E j \in D : rows[j] = RowOf(msg, r) /\ rows[j].r = r
  BY DEF SlotsTaken
<1>2. \A j \in D : toks[j] = TokenOf(rows[j])
  BY <1>1 DEF TokensOf
<1>3. <<>> \in Text
  BY DEF Text
<1> HIDE DEF D, rows
<1>4. CASE Has(msg, r)
  <2>1. c \in D /\ batch[c].of.r = r
    BY <1>1, <1>4
  <2> HIDE DEF c
  <2> DEFINE x == RowOf(msg, r)
  <2>2. rows[c] = x /\ x \in RowSet /\ toks[c] = TokenOf(x)
    BY <1>1, <1>2, <2>1
  <2>3. \A j \in D : batch[j].of.r = r => toks[j] = TokenOf(x)
    BY <1>1, <1>2
  <2> HIDE DEF x
  <2>4. (\E j \in D : batch[j].of.r = r /\ toks[j] # Absent) <=> Samples(x)
    BY <2>1, <2>2, <2>3, TokenKinds
  <2>5. Samples(x) => <<TokenOf(x)>> \in Text
    <3> HAVE Samples(x)
    <3>1. TokenOf(x) \in Token
      BY <2>2, TokenKinds
    <3> DEFINE y == TokenOf(x)
               T == Token
    <3>2. y \in T
      BY <3>1
    <3> HIDE DEF y, T
    <3>3. <<y>> \in Seq(T)
      BY <3>2
    <3> QED
      BY <3>3 DEF y, T, Text
  <2>6. AnswerOf(msg, r) = IF Samples(x) THEN <<TokenOf(x)>> ELSE <<>>
    BY <1>4 DEF AnswerOf, x
  <2>7. (IF \E j \in D : batch[j].of.r = r /\ toks[j] # Absent THEN <<toks[c]>> ELSE <<>>) = AnswerOf(msg, r)
    BY <2>2, <2>4, <2>6
  <2>8. AnswerOf(msg, r) \in Text
    BY <1>3, <2>5, <2>6
  <2> QED
    BY <2>7, <2>8 DEF c, D
<1>5. CASE ~Has(msg, r)
  <2>1. \A j \in D : batch[j].of.r # r
    BY <1>1, <1>5
  <2>2. AnswerOf(msg, r) = <<>>
    BY <1>5 DEF AnswerOf
  <2> QED
    BY <1>3, <2>1, <2>2 DEF D
<1> QED
  BY <1>4, <1>5

LEMMA SampleRing ==
    ASSUME RingInv, SampleAndBroadcast
    PROVE  RingInv'
<1> DEFINE p == Executed(Stages)
           s == reqStates[Stages]
           batch == current[Stages]
           toks == [j \in DOMAIN batch |-> SampledFor(batch[j])]
           slots == [j \in DOMAIN batch |-> batch[j].slot]
           v == PostUpdate(s, slots, toks, DOMAIN batch)
           u == Advance(v, batch)
           ans == [r \in Client |->
                      IF \E j \in DOMAIN batch : batch[j].of.r = r /\ toks[j] # Absent
                      THEN <<toks[CHOOSE j \in DOMAIN batch : batch[j].of.r = r]>> ELSE <<>>]
<1>0. Stages \in Stage
  BY RingConstants DEF Stage
<1>1. /\ batch # Absent
      /\ sent' = IF NeedsSampled(batch) THEN Append(sent, toks) ELSE sent
      /\ results' = Append(results, ans)
      /\ reqStates' = [reqStates EXCEPT ![Stages] = u]
      /\ current' = [current EXCEPT ![Stages] = Absent]
      /\ UNCHANGED <<schedVars, issued, inbox, hidden, pending, received>>
  BY DEF SampleAndBroadcast, Broadcast
<1>2. /\ DOMAIN reqStates = Stage /\ DOMAIN current = Stage /\ DOMAIN inbox = Stage
      /\ DOMAIN pending = 1 .. Stages - 1 /\ DOMAIN received = 1 .. Stages - 1
      /\ History(issued) /\ RankOK(Stages) /\ InboxOK(Stages) /\ EngineInv /\ Processing
      /\ SentOK(sent, issued, Ended(Stages))
  BY <1>0 DEF RingInv, SchedInv, RankOK
<1>3. p \in 1 .. Len(issued) /\ Ended(Stages) = p - 1 /\ Len(issued) \in Nat
  <2>1. p \in 0 .. Len(issued) /\ p >= 1 /\ Ended(Stages) = p - 1 /\ Len(issued) \in Nat
    BY <1>0, <1>1, <1>2, RankCounts
  <2> HIDE DEF p
  <2> QED
    BY <2>1
<1>4. RankState(issued, p, p - 1, Stages, s, batch, pending[Stages], received[Stages])
  BY <1>2, <1>3, RankParts
<1>5. /\ DOMAIN reqStates' = Stage /\ reqStates'[Stages] = u
      /\ DOMAIN current' = Stage /\ current'[Stages] = Absent
      /\ \A j \in Stage : j # Stages => reqStates'[j] = reqStates[j] /\ current'[j] = current[j]
  <2> HIDE DEF u
  <2> QED
    BY <1>0, <1>1, <1>2
<1> HIDE DEF p, s, batch, ans, u, v
<1>6. TableOK(s, issued, p, p - 1, Stages) /\ BatchOK(batch, s, issued, p, Stages)
  BY <1>1, <1>4 DEF RankState
<1> DEFINE msg == issued[p]
<1>7. msg \in MessageSet /\ RowsDistinct(msg)
  BY <1>2, <1>3, HistoryAt
<1>8. SlotsTaken(batch, s, msg) /\ (NeedsSampled(batch) <=> Needs(msg))
  <2>1. SlotsTaken(batch, s, msg)
    BY <1>2, <1>3, <1>6, BatchSlots DEF TableOK
  <2> QED
    BY <2>1 DEF SlotsTaken
<1>9. toks = TokensOf(msg)
  BY <1>8, BatchTokens
<1> HIDE DEF toks, slots, msg
<1>10. TokensIn(v, issued, p, Stages) /\ v.index = s.index /\ v.gen = s.gen
  <2>1. v = PostUpdate(s, slots, TokensOf(issued[p]), DOMAIN batch)
    BY <1>9 DEF v, msg
  <2>2. slots = [j \in DOMAIN batch |-> batch[j].slot]
    BY DEF slots
  <2> QED
    BY <1>2, <1>3, <1>6, <2>1, <2>2, SampledTable
<1>11. BatchOK(batch, v, issued, p, Stages)
  BY <1>6, <1>10 DEF BatchOK, PreparedOK
<1>12. TableOK(u, issued, p, p, Stages)
  BY <1>2, <1>3, <1>10, <1>11, AdvancedTable DEF u
<1>13. RankState(issued, p, p, Stages, u, Absent, pending[Stages], received[Stages])
  BY <1>12 DEF RankState
<1>14. InboxOK(Stages)' /\ Executed(Stages)' = p
  BY <1>1, <1>2, InboxIdle DEF p
<1>15. Ended(Stages)' = p
  BY <1>5, <1>14 DEF Ended
<1>16. RankOK(Stages)'
  <2>1. RankState(issued', Executed(Stages)', Ended(Stages)', Stages, reqStates'[Stages], current'[Stages],
                  pending'[Stages], received'[Stages])
    BY <1>1, <1>5, <1>13, <1>14, <1>15
  <2> QED
    BY <1>14, <2>1 DEF RankOK, RankState
<1> DEFINE e == p - 1
<1>17. e \in Nat /\ e + 1 = p /\ Ended(Stages) = e
  BY <1>3
<1> HIDE DEF e
<1>18. issued[e + 1] = msg
  BY <1>17 DEF msg
<1>19. SentOK(sent', issued, p)
  <2>1. TokensOf(issued[e + 1]) \in Seq(Token \cup {Absent})
    BY <1>7, <1>18, TokensKind
  <2>2. SentOK(IF Needs(issued[e + 1]) THEN Append(sent, TokensOf(issued[e + 1])) ELSE sent, issued, e + 1)
    BY <1>2, <1>17, <2>1, SentNext
  <2>3. sent' = IF Needs(issued[e + 1]) THEN Append(sent, TokensOf(issued[e + 1])) ELSE sent
    BY <1>1, <1>8, <1>9, <1>18
  <2> QED
    BY <1>17, <2>2, <2>3
<1>20. AnswersOK(results', issued, Processed, p)
  <2>1. Processed \in Nat
    BY <1>2, <1>3 DEF Processing
  <2>2. AnswersOK(results, issued, Processed, e)
    BY <1>2, <1>17 DEF EngineInv
  <2>3. \A r \in Client : ans[r] = AnswerOf(msg, r) /\ AnswerOf(msg, r) \in Text
    BY <1>7, <1>8, <1>9, AnswersFor DEF ans
  <2>4. ans \in [Client -> Text]
    <3> DEFINE F == [r \in Client |-> ans[r]]
    <3>1. ans = F
      BY DEF ans
    <3>2. F \in [Client -> Text]
      BY <2>3
    <3> QED
      BY <3>1, <3>2
  <2>5. \A r \in Client : ans[r] = AnswerOf(issued[e + 1], r)
    BY <1>18, <2>3
  <2>6. AnswersOK(Append(results, ans), issued, Processed, e + 1)
    BY <1>17, <2>1, <2>2, <2>4, <2>5, AnswerNext
  <2> QED
    BY <1>1, <1>17, <2>6
<1>21. \A j \in Stage : j # Stages =>
          /\ inbox'[j] = inbox[j] /\ reqStates'[j] = reqStates[j] /\ current'[j] = current[j]
          /\ j # Stages => pending'[j] = pending[j] /\ received'[j] = received[j]
  BY <1>1, <1>5
<1>22. /\ DOMAIN reqStates' = DOMAIN reqStates /\ DOMAIN current' = DOMAIN current
       /\ DOMAIN inbox' = DOMAIN inbox /\ DOMAIN pending' = DOMAIN pending
       /\ DOMAIN received' = DOMAIN received
  BY <1>1, <1>2, <1>5
<1>23. UNCHANGED <<schedVars, issued>>
  BY <1>1
<1> QED
  BY <1>0, <1>15, <1>16, <1>19, <1>20, <1>21, <1>22, <1>23, RankStep

-----------------------------------------------------------------------------
(***************************************************************************)
(* The initial state.                                                      *)
(***************************************************************************)
LEMMA EmptyHistory ==
    /\ History(<<>>) /\ Len(<<>>) = 0 /\ Held(<<>>, 0) = {} /\ Sampled(<<>>, 0) = 0
    /\ \A A : <<>> \in Seq(A)
<1>1. <<>> \in Seq(MessageSet) /\ Len(<<>>) = 0 /\ DOMAIN <<>> = {}
  OBVIOUS
<1>2. History(<<>>)
  BY <1>1 DEF History
<1>3. Held(<<>>, 0) = {}
  BY DEF Held
<1> QED
  BY <1>1, <1>2, <1>3, SampledNext

LEMMA FirstTables ==
    /\ NewReqStates \in TableSet /\ SlotsOK(NewReqStates)
    /\ \A r \in Client : NewReqStates.index[r] = 0
<1> DEFINE A == 1 .. Slots
           I == [r \in Client |-> 0]
           F == [i \in A |-> i]
           G == [x \in A |-> 0]
           T == [x \in A |-> EmptyRow]
           s == NewReqStates
<1>1. Slots \in Nat \ {0}
  BY RingConstants
<1>2. s = [index |-> I, spare |-> F, gen |-> G, tab |-> T]
  BY DEF NewReqStates
<1>3. EmptyRow \in TableRow
  <2>1. <<>> \in Text
    BY DEF Text
  <2> QED
    BY <2>1 DEF EmptyRow, TableRow
<1>4. I \in [Client -> 0 .. Slots] /\ \A r \in Client : I[r] = 0
  BY <1>1
<1>5. F \in Seq(A) /\ \A i \in DOMAIN F : F[i] = i
  BY <1>1
<1>6. DOMAIN F = A /\ Elems(F) = A
  BY DEF Elems
<1>7. G \in [A -> Nat]
  OBVIOUS
<1>8. T \in [A -> TableRow]
  BY <1>3
<1> HIDE DEF I, F, G, T, s
<1>9. s.index = I /\ s.spare = F /\ s.gen = G /\ s.tab = T
  BY <1>2
<1>10. s \in TableSet
  BY <1>2, <1>4, <1>5, <1>7, <1>8 DEF TableSet
<1>11. Distinct(F)
  BY <1>5 DEF Distinct
<1>12. SlotsOK(s)
  BY <1>4, <1>6, <1>9, <1>11 DEF SlotsOK
<1> QED
  BY <1>4, <1>9, <1>10, <1>12 DEF s

LEMMA FirstQueue ==
    ASSUME NEW s
    PROVE  PendingOK(NewQueue, 0, s, <<>>, 0, 0)
<1>1. Stages \in Nat /\ Sampled(<<>>, 0) = 0
  BY RingConstants, EmptyHistory
<1> DEFINE x == Nothing
           X == EntrySet
<1>2. x \in X
  BY NothingEntry
<1>3. NewQueue = [i \in 1 .. Stages |-> x]
  BY DEF NewQueue
<1> HIDE DEF x, X
<1>4. NewQueue \in Seq(X) /\ Len(NewQueue) = Stages /\ \A k \in 1 .. Stages : NewQueue[k] = x
  BY <1>1, <1>2, <1>3
<1>5. \A k \in 1 .. Stages : RingEntryOK(NewQueue[k], s, <<>>, 0, 0, 0 - Stages + k)
  <2> TAKE k \in 1 .. Stages
  <2>1. ~(0 - Stages + k >= 1 /\ 0 - Stages + k <= 0 /\ Needs(<<>>[0 - Stages + k]))
    BY <1>1
  <2>2. NewQueue[k] = Nothing
    BY <1>4 DEF x
  <2> QED
    BY <2>1, <2>2 DEF RingEntryOK
<1> QED
  BY <1>1, <1>4, <1>5 DEF PendingOK, X

LEMMA FirstRank ==
    ASSUME RingInit, NEW i \in Stage
    PROVE  RankOK(i) /\ Ended(i) = 0
<1>1. issued = <<>> /\ inbox[i] = <<>> /\ reqStates[i] = NewReqStates /\ current[i] = Absent
  BY DEF RingInit
<1>2. i # Stages => pending[i] = NewQueue /\ received[i] = 0
  <2>1. i # Stages => i \in 1 .. Stages - 1
    BY RingConstants DEF Stage
  <2> QED
    BY <2>1 DEF RingInit
<1>3. Executed(i) = 0 /\ Ended(i) = 0
  <2>1. Executed(i) = Len(<<>>) - Len(<<>>)
    BY <1>1 DEF Executed
  <2>2. Executed(i) = 0
    BY <2>1, EmptyHistory
  <2> QED
    BY <1>1, <2>2 DEF Ended
<1>4. InboxOK(i)
  BY <1>1, EmptyHistory DEF InboxOK
<1>5. TableOK(NewReqStates, <<>>, 0, 0, i)
  <2>1. HoldersOK(NewReqStates, <<>>, 0)
    BY FirstTables, EmptyHistory DEF HoldersOK
  <2> QED
    BY <2>1, FirstTables DEF TableOK
<1>6. RankOK(i)
  BY <1>1, <1>2, <1>3, <1>4, <1>5, FirstQueue DEF RankOK
<1> QED
  BY <1>3, <1>6

LEMMA FirstRequest ==
    ASSUME NEW r \in Client
    PROVE  NewRequest \in RequestSet /\ RequestOK(NewRequest, r, FALSE, <<>>, 0)
<1> DEFINE q == NewRequest
<1>1. <<>> \in Text /\ DOMAIN <<>> = {} /\ Len(<<>>) = 0
  BY DEF Text
<1>2. q \in RequestSet
  BY <1>1 DEF NewRequest, RequestSet
<1>3. /\ q.inc = 0 /\ q.flight = 0 /\ q.stale = 0 /\ q.out = <<>>
  BY DEF NewRequest
<1> HIDE DEF q
<1>4. \A w : InFlight(<<>>, 0, r, w, 0)
  <2> TAKE w
  <2> DEFINE f == [c \in 0 .. 0 |-> 0]
  <2>1. f \in [0 .. 0 -> Nat] /\ f[0] = 0
    OBVIOUS
  <2> HIDE DEF f
  <2>2. Tallies(f, <<>>, r, w)
    BY <1>1, <2>1 DEF Tallies
  <2>3. 0 = f[Len(<<>>)] - f[0]
    BY <1>1, <2>1
  <2> QED
    BY <2>2, <2>3 DEF InFlight
<1>5. FlightOK(q, r, FALSE, <<>>, 0)
  BY <1>3, <1>4 DEF FlightOK
<1>6. DropOK(q, r, FALSE, <<>>, 0)
  BY <1>1 DEF DropOK
<1>7. PaysNext(q, r, FALSE, <<>>, 0)
  BY <1>1 DEF PaysNext
<1>8. TextOK(q, r)
  BY <1>1, <1>3 DEF TextOK
<1>9. RequestOK(q, r, FALSE, <<>>, 0)
  <2>1. \A c \in 1 .. Len(<<>>) : Has(<<>>[c], r) => RowOf(<<>>[c], r).inc <= q.inc
    <3>1. \A c : c \notin 1 .. Len(<<>>)
      BY <1>1
    <3> QED
      BY <3>1
  <2> QED
    BY <1>2, <1>5, <1>6, <1>7, <1>8, <2>1 DEF RequestOK
<1> QED
  BY <1>2, <1>9 DEF q

LEMMA FirstScheduler ==
    ASSUME RingInit
    PROVE  SchedInv
<1>1. /\ req = [r \in Client |-> NewRequest] /\ waitingQ = [r \in Client |-> r] /\ runningQ = <<>>
      /\ finishedIds = {} /\ preemptedIds = {} /\ batchQ = <<>> /\ issued = <<>>
  BY DEF RingInit
<1>2. Processed = 0 /\ Len(issued) = 0
  <2>1. Processed = Len(<<>>) - Len(<<>>)
    BY <1>1 DEF Processed
  <2> QED
    BY <1>1, <2>1, EmptyHistory
<1>3. Elems(runningQ) = {} /\ Distinct(runningQ) /\ runningQ \in Seq(Client) /\ Len(runningQ) = 0
  BY <1>1, EmptyHistory DEF Elems, Distinct
<1>4. waitingQ \in Seq(Client) /\ Distinct(waitingQ)
  <2>1. Client = 1 .. NumClients /\ NumClients \in Nat
    BY RingConstants DEF Client
  <2>2. waitingQ = [r \in 1 .. NumClients |-> r]
    BY <1>1, <2>1
  <2>3. waitingQ \in Seq(1 .. NumClients)
    BY <2>1, <2>2
  <2>4. Distinct(waitingQ)
    BY <2>2 DEF Distinct
  <2> QED
    BY <2>1, <2>3, <2>4
<1>5. Elems(waitingQ) \subseteq Client
  BY <1>4, ElemsOf
<1>6. \A r \in Client : req[r] = NewRequest /\ ~req[r].done /\ req[r].nc = 0 /\ req[r].ph = 0
  BY <1>1 DEF NewRequest
<1>7. QueueInv
  <2>1. Held(issued, Len(issued)) = {}
    BY <1>1, <1>2, EmptyHistory
  <2>2. \A r \in Elems(runningQ) \cup Elems(waitingQ) : ~req[r].done
    BY <1>3, <1>5, <1>6
  <2>3. \A r \in Elems(waitingQ) : req[r].nc = 0 /\ req[r].ph = 0
    BY <1>5, <1>6
  <2>4. Len(runningQ) <= Slots
    BY <1>3, RingConstants
  <2> QED
    BY <1>1, <1>3, <1>4, <2>1, <2>2, <2>3, <2>4 DEF QueueInv
<1>8. RequestsInv
  <2>1. \A r \in Client : ~Running(r)
    BY <1>3 DEF Running
  <2>2. req \in [Client -> RequestSet]
    BY <1>1, FirstRequest
  <2>3. ASSUME NEW r \in Client PROVE RequestOK(req[r], r, Running(r), issued, Processed)
    <3>1. RequestOK(NewRequest, r, FALSE, <<>>, 0)
      BY FirstRequest
    <3>2. Running(r) = FALSE
      BY <2>1 DEF Running
    <3> QED
      BY <1>1, <1>2, <1>6, <3>1, <3>2
  <2> QED
    BY <2>2, <2>3 DEF RequestsInv
<1>9. History(issued) /\ Processing
  BY <1>1, <1>2, EmptyHistory DEF Processing
<1> QED
  BY <1>7, <1>8, <1>9 DEF SchedInv

LEMMA FirstRing ==
    ASSUME RingInit
    PROVE  RingInv
<1>1. Stages \in Stage
  BY RingConstants DEF Stage
<1>2. \A i \in Stage : RankOK(i) /\ Ended(i) = 0
  BY FirstRank
<1>3. /\ batchQ = <<>> /\ issued = <<>> /\ results = <<>> /\ sent = <<>>
      /\ inbox = [i \in Stage |-> <<>>] /\ reqStates = [i \in Stage |-> NewReqStates]
      /\ pending = [i \in 1 .. Stages - 1 |-> NewQueue] /\ received = [i \in 1 .. Stages - 1 |-> 0]
      /\ current = [i \in Stage |-> Absent]
  BY DEF RingInit
<1>4. /\ DOMAIN reqStates = Stage /\ DOMAIN current = Stage /\ DOMAIN inbox = Stage
      /\ DOMAIN pending = 1 .. Stages - 1 /\ DOMAIN received = 1 .. Stages - 1
  BY <1>3
<1>5. Processed = 0
  <2>1. Processed = Len(<<>>) - Len(<<>>)
    BY <1>3 DEF Processed
  <2> QED
    BY <2>1, EmptyHistory
<1>6. EngineInv
  <2>1. QueueSizes
    BY <1>3, EmptyHistory DEF QueueSizes
  <2>2. AnswersOK(<<>>, <<>>, 0, 0)
    BY EmptyHistory DEF AnswersOK
  <2>3. Ended(Stages) = 0
    BY <1>1, <1>2
  <2> QED
    BY <1>3, <1>5, <2>1, <2>2, <2>3 DEF EngineInv
<1>7. SentOK(sent, issued, Ended(Stages))
  <2>1. SentOK(<<>>, <<>>, 0)
    BY EmptyHistory DEF SentOK
  <2>2. Ended(Stages) = 0
    BY <1>1, <1>2
  <2> QED
    BY <1>3, <2>1, <2>2
<1>8. RanksInv
  BY <1>2, <1>4, <1>7 DEF RanksInv
<1> QED
  BY <1>6, <1>8, FirstScheduler, RingParts

-----------------------------------------------------------------------------
(***************************************************************************)
(* What the invariant says of the tokens.                                  *)
(***************************************************************************)
LEMMA InvRank ==
    ASSUME RingInv, NEW i \in Stage
    PROVE  /\ RankOK(i) /\ History(issued) /\ Executed(i) \in 0 .. Len(issued) /\ Executed(i) \in Nat
           /\ Len(issued) \in Nat /\ reqStates[i] \in TableSet /\ SlotsOK(reqStates[i])
           /\ HoldersOK(reqStates[i], issued, Executed(i)) /\ Ended(i) \in 0 .. Executed(i)
<1>1. RankOK(i) /\ History(issued)
  BY DEF RingInv, SchedInv
<1>2. /\ Executed(i) \in 0 .. Len(issued) /\ Executed(i) \in Nat /\ Len(issued) \in Nat
      /\ Ended(i) \in 0 .. Executed(i)
  BY <1>1, RankCounts
<1>3. /\ reqStates[i] \in TableSet /\ SlotsOK(reqStates[i])
      /\ HoldersOK(reqStates[i], issued, Executed(i))
  BY <1>1 DEF RankOK, TableOK
<1> QED
  BY <1>1, <1>2, <1>3

LEMMA InvFed ==
    ASSUME RingInv
    PROVE  FedRight
<1> SUFFICES ASSUME NEW i \in Stage, current[i] # Absent, NEW j \in DOMAIN current[i]
             PROVE  /\ current[i][j].at = current[i][j].of.nc
                    /\ i = 1 => \A x \in 1 .. current[i][j].of.q :
                                   current[i][j].feed[x] = Due(current[i][j].of, current[i][j].at + x - 1)
  BY DEF FedRight
<1> DEFINE b == current[i][j]
           rows == SortBatch(issued[Executed(i)].rows)
<1>1. BatchOK(current[i], reqStates[i], issued, Executed(i), i)
  BY InvRank DEF RankOK
<1>2. PreparedOK(b, rows[j], reqStates[i], i)
  BY <1>1 DEF BatchOK
<1> HIDE DEF rows, b
<1>3. b.of = rows[j] /\ b.at = rows[j].nc /\ (i = 1 => \A c \in 1 .. rows[j].q : b.feed[c] = Due(rows[j], rows[j].nc + c - 1))
  BY <1>2 DEF PreparedOK
<1>4. b.at = b.of.nc /\ (i = 1 => \A x \in 1 .. b.of.q : b.feed[x] = Due(b.of, b.at + x - 1))
  BY <1>3
<1> QED
  BY <1>4 DEF b

LEMMA InvText ==
    ASSUME RingInv
    PROVE  TextRight
<1> SUFFICES ASSUME NEW i \in Stage, NEW r \in Client, reqStates[i].index[r] # 0
             PROVE  LET t == reqStates[i].tab[reqStates[i].index[r]]
                    IN  /\ t.who[1] = r
                        /\ \A p \in t.plen + 1 .. Len(t.ids) : t.ids[p] = Tok(r, t.who[2], p - 1)
  BY DEF TextRight
<1> DEFINE s == reqStates[i]
           t == s.tab[s.index[r]]
           ms == issued
           n == Executed(i)
<1>1. RankOK(i) /\ History(ms) /\ n \in 0 .. Len(ms) /\ n \in Nat /\ Len(ms) \in Nat /\ s \in TableSet /\ HoldersOK(s, ms, n)
  BY InvRank
<1>2. t \in TableRow
  <2>1. s.index[r] \in 1 .. Slots
    <3>1. s.index[r] \in 0 .. Slots
      BY <1>1, TableFields
    <3> QED
      BY <3>1, RingConstants
  <2> QED
    BY <1>1, <2>1, TableFields
<1>3. TableOK(s, ms, n, Ended(i), i)
  BY <1>1 DEF RankOK
<1>4. PICK a \in 1 .. n : Last(ms, r, a, n)
  BY <1>1, HeldLast DEF HoldersOK
<1> DEFINE x == RowOf(ms[a], r)
<1>5. \E c, k : EntryOK(t, x, c, k)
  BY <1>3, <1>4 DEF TableOK
<1>6. PICK c, k : EntryOK(t, x, c, k)
  BY <1>5
<1>7. x \in RowSet /\ x.r = r
  <2>1. a \in 1 .. Len(ms) /\ Has(ms[a], r)
    BY <1>1, <1>4 DEF Last
  <2>2. ms[a] \in MessageSet
    BY <1>1, <2>1, HistoryAt
  <2> QED
    BY <2>1, <2>2, RowFacts
<1> HIDE DEF s, t, ms, n, x
<1>8. t.who = <<r, x.inc>> /\ t.plen = Len(x.base) /\ Len(t.ids) = k
  BY <1>6, <1>7 DEF EntryOK
<1>9. Len(t.ids) \in Nat /\ t.plen \in Nat
  BY <1>2, TableRowFields
<1>10. ASSUME NEW p \in t.plen + 1 .. Len(t.ids) PROVE t.ids[p] = Tok(r, t.who[2], p - 1)
  <2>1. p - 1 \in 0 .. k - 1 /\ (p - 1) + 1 = p /\ ~(p - 1 < Len(x.base))
    BY <1>8, <1>9
  <2>2. \A d \in 0 .. k - 1 : t.ids[d + 1] = Due(x, d)
    BY <1>6 DEF EntryOK
  <2>3. t.ids[p] = Due(x, p - 1)
    BY <2>1, <2>2
  <2>4. Due(x, p - 1) = Tok(x.r, x.inc, p - 1)
    BY <2>1 DEF Due
  <2> QED
    BY <1>7, <1>8, <2>3, <2>4
<1>11. t.who[1] = r
  BY <1>8
<1> QED
  BY <1>10, <1>11 DEF t, s

LEMMA InvPaired ==
    ASSUME RingInv
    PROVE  PairedByStep
<1> SUFFICES ASSUME NEW i \in 1 .. Stages - 1, NEW k \in DOMAIN pending[i],
                    pending[i][k] # Nothing, pending[i][k].n <= Len(sent)
             PROVE  LET e == pending[i][k]
                    IN  /\ Len(sent[e.n]) = Len(e.slots)
                        /\ \A j \in DOMAIN e.slots : e.need[j] =>
                               <<sent[e.n][j][1], sent[e.n][j][2]>> = e.who[j]
  BY DEF PairedByStep
<1> DEFINE e == pending[i][k]
           ms == issued
           p == Executed(i)
           m == p - Stages + k
           rows == SortBatch(ms[m].rows)
<1>0. Stages \in Nat /\ Stages > 1 /\ Stages \in Stage /\ i \in Stage /\ i # Stages
  BY RingConstants DEF Stage
<1>1. RankOK(i) /\ History(ms) /\ p \in 0 .. Len(ms) /\ p \in Nat /\ Len(ms) \in Nat /\ Ended(i) \in 0 .. p
  BY <1>0, InvRank
<1>2. PendingOK(pending[i], received[i], reqStates[i], ms, p, Ended(i))
  BY <1>0, <1>1 DEF RankOK
<1>3. pending[i] \in Seq(EntrySet) /\ DOMAIN pending[i] = 1 .. Stages
  BY <1>0, <1>2 DEF PendingOK
<1>4. e \in EntrySet /\ RingEntryOK(e, reqStates[i], ms, p, Ended(i), m)
  BY <1>2, <1>3 DEF PendingOK
<1>5. /\ m >= 1 /\ m <= Ended(i) /\ Needs(ms[m]) /\ ReceptionOK(e, reqStates[i], ms, p, m)
  BY <1>4 DEF RingEntryOK
<1>6. m \in 1 .. Len(ms) /\ m \in Nat \ {0}
  <2>1. k \in Int /\ m \in Int
    BY <1>0, <1>1, <1>3
  <2> QED
    BY <1>1, <1>5, <2>1
<1> DEFINE z == Ended(Stages)
<1>7. z \in Nat /\ SentOK(sent, ms, z)
  <2>1. Ended(Stages) \in 0 .. Executed(Stages) /\ Executed(Stages) \in Nat
    BY <1>0, InvRank
  <2> QED
    BY <2>1 DEF RingInv
<1>8. ms[m] \in MessageSet
  BY <1>1, <1>6, HistoryAt
<1>9. ms[m].rows \in Seq(RowSet)
  BY <1>8 DEF MessageSet
<1>10. rows \in Seq(RowSet)
  BY <1>9, SortElems
<1> HIDE DEF e, ms, p, m, z
<1>11. e.n = Sampled(ms, m) /\ e.n <= Len(sent)
  BY <1>5 DEF ReceptionOK, e
<1>12. sent[e.n] = [j \in DOMAIN rows |-> TokenOf(rows[j])]
  BY <1>5, <1>6, <1>7, <1>11, SentFor
<1>13. /\ DOMAIN e.slots = DOMAIN rows
       /\ \A j \in DOMAIN rows : /\ e.need[j] <=> Samples(rows[j])
                                 /\ e.who[j] = <<rows[j].r, rows[j].inc>>
  BY <1>5 DEF ReceptionOK
<1> HIDE DEF rows
<1>14. Len(sent[e.n]) = Len(e.slots)
  <2> DEFINE A == 1 .. Slots
             S == e.slots
             T == sent[e.n]
  <2>1. S \in Seq(A)
    BY <1>4 DEF EntrySet
  <2> HIDE DEF A, S
  <2>2. DOMAIN S = 1 .. Len(S) /\ Len(S) \in Nat
    BY <2>1
  <2>3. DOMAIN rows = 1 .. Len(S)
    BY <1>13, <2>2 DEF S
  <2>4. T = [j \in 1 .. Len(S) |-> TokenOf(rows[j])]
    BY <1>12, <2>3
  <2>5. Len(T) = Len(S)
    BY <2>2, <2>4
  <2> QED
    BY <2>5 DEF S
<1>15. ASSUME NEW j \in DOMAIN rows, e.need[j]
       PROVE  <<sent[e.n][j][1], sent[e.n][j][2]>> = e.who[j]
  <2>1. sent[e.n][j] = TokenOf(rows[j]) /\ Samples(rows[j])
    BY <1>12, <1>13, <1>15
  <2>2. sent[e.n][j] = <<rows[j].r, rows[j].inc, End(rows[j])>>
    BY <2>1 DEF TokenOf, Tok
  <2>3. sent[e.n][j][1] = rows[j].r /\ sent[e.n][j][2] = rows[j].inc
    BY <2>2
  <2> QED
    BY <1>13, <2>3
<1> QED
  BY <1>13, <1>14, <1>15 DEF e

LEMMA InvOutput ==
    ASSUME RingInv
    PROVE  OutputInOrder
<1>1. \A r \in Client : TextOK(req[r], r)
  BY DEF RingInv, SchedInv, RequestsInv, RequestOK
<1> QED
  BY <1>1 DEF TextOK, OutputInOrder

LEMMA InvRight ==
    ASSUME RingInv
    PROVE  RingRight
BY InvFed, InvText, InvPaired, InvOutput DEF RingRight

LEMMA RingStep ==
    ASSUME RingInv, [RingNext]_ringVars
    PROVE  RingInv'
<1>1. CASE Schedule
  BY <1>1, ScheduleRing
<1>2. CASE UpdateFromOutput
  BY <1>2, UpdateRing
<1>3. CASE ResetRunning
  BY <1>3, ResetRing
<1>4. CASE SampleAndBroadcast
  BY <1>4, SampleRing
<1>5. CASE AllServed
  <2>1. UNCHANGED ringVars
    BY <1>5 DEF AllServed
  <2> QED
    BY <2>1, IdleRing
<1>6. ASSUME NEW r \in Client, AbortRequest(r) PROVE RingInv'
  BY <1>6, AbortRing
<1>7. ASSUME NEW i \in Stage, ExecuteModel(i) PROVE RingInv'
  BY <1>7, ExecuteRing
<1>8. ASSUME NEW i \in Stage, Receive(i) PROVE RingInv'
  BY <1>8, ReceiveRing
<1>9. CASE UNCHANGED ringVars
  BY <1>9, IdleRing
<1> QED
  BY <1>1, <1>2, <1>3, <1>4, <1>5, <1>6, <1>7, <1>8, <1>9 DEF RingNext

(***************************************************************************)
(* Every rank is fed what the scheduler scheduled and the last rank        *)
(* sampled, whatever the delays of the ranks, the reuse of their slots and *)
(* the preemptions in between; broadcasts and receptions pair up by step,  *)
(* and a client sees one text (execute_model, sample_tokens, PPHandler,    *)
(* the scheduler's _update_after_schedule and update_from_output).         *)
(***************************************************************************)
THEOREM RingIsRight == RingSpec => []RingRight
<1>1. RingInit => RingInv
  BY FirstRing
<1>2. RingInv /\ [RingNext]_ringVars => RingInv'
  BY RingStep
<1>3. RingInv => RingRight
  BY InvRight
<1> QED
  BY <1>1, <1>2, <1>3, PTL DEF RingSpec
=============================================================================
