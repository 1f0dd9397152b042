-------------------------- MODULE EngineLifeProofs --------------------------
(***************************************************************************)
(* Theorems about the life of an engine process: a request ends once and   *)
(* an abort is never lost, a completed pause keeps the device idle, and    *)
(* the model does not run on memory that is offloaded.                     *)
(***************************************************************************)
EXTENDS EngineLife, TLAPS

Statuses == {"new", "sent", "waiting", "running", "finished"}

Messages ==
    [kind : {"add", "abort"}, req : Req] \cup [kind : {"call"}, call : Calls]
        \cup [kind : {"wakeup", "failed"}]

TypeInv ==
    /\ inputQ \in Seq(Messages)
    /\ holding \in Seq([kind : {"abort"}, req : Req]) /\ gone \subseteq Req
    /\ status \in [Req -> Statuses] /\ finals \in [Req -> Nat]
    /\ replies \in Nat /\ ncalls \in Nat
    /\ batches \in Seq(SUBSET Req) /\ callbacks \in Seq(Calls)
    /\ pauseState \in {"unpaused", "paused_new", "paused_all"} /\ asleep \subseteq Memory
    /\ shutdown \in {"running", "requested", "shutting_down"}
    /\ promise \in BOOLEAN /\ drain \in BOOLEAN
    /\ pc = "result" => batches # <<>>

-----------------------------------------------------------------------------
(***************************************************************************)
(* A request ends once                                                     *)
(***************************************************************************)
IsAdd(m, r)   == m.kind = "add" /\ m.req = r
IsAbort(m, r) == m.kind = "abort" /\ m.req = r

\* What was sent is on its way once; what has not ended was not announced.
SentOnce ==
    /\ \A r \in Req : status[r] = "sent" => \E i \in 1..Len(inputQ) : IsAdd(inputQ[i], r)
    /\ \A i \in 1..Len(inputQ), r \in Req : IsAdd(inputQ[i], r) =>
          /\ status[r] = "sent"
          /\ \A j \in 1..Len(inputQ) : IsAdd(inputQ[j], r) => i = j

Told ==
    \A r \in Req : /\ finals[r] <= 1
                   /\ status[r] # "finished" => finals[r] = 0

\* An engine that ends at once has nothing left.
Emptied ==
    /\ shutdown = "shutting_down" /\ ~drain => Live = {}
    /\ pc = "exit" => \A r \in Live : drain /\ pauseState # "unpaused"

\* The abort of a request comes after the request.
Follows ==
    \A r \in gone :
        /\ status[r] # "new"
        /\ \/ status[r] = "finished"
           \/ \E i \in 1..Len(holding) : holding[i].req = r
           \/ \E i \in 1..Len(inputQ) :
                 /\ IsAbort(inputQ[i], r)
                 /\ \A j \in (i+1)..Len(inputQ) : ~IsAdd(inputQ[j], r)

EndInv == SentOnce /\ Told /\ Emptied /\ Follows
-----------------------------------------------------------------------------
(***************************************************************************)
(* A completed pause                                                       *)
(***************************************************************************)
Idle == \A i \in 1..Len(batches) : batches[i] = {}

PauseInv ==
    promise => /\ pauseState # "unpaused" /\ Idle
               /\ pauseState = "paused_new" => Running = {}
-----------------------------------------------------------------------------
(***************************************************************************)
(* Sleep                                                                   *)
(***************************************************************************)
NoCall == \A i \in 1..Len(inputQ) : inputQ[i].kind # "call"

\* i is the only call on its way, and one that may be made when asleep.
OneCall(i) ==
    /\ inputQ[i].kind = "call"
    /\ inputQ[i].call.op = "resume" => asleep = {}
    /\ \A j \in 1..Len(inputQ) : inputQ[j].kind = "call" => i = j

\* Clients wait for the answer to a call: it is on its way, or the engine waits
\* to be idle.
Outstanding ==
    \/ replies = ncalls /\ NoCall /\ callbacks = <<>>
    \/ replies + 1 = ncalls /\ callbacks = <<>> /\ \E i \in 1..Len(inputQ) : OneCall(i)
    \/ /\ replies + 1 = ncalls /\ NoCall /\ Len(callbacks) = 1
       /\ pauseState # "unpaused"

SleepInv ==
    /\ Outstanding
    /\ asleep # {} => pauseState # "unpaused" /\ Idle /\ Running = {}
-----------------------------------------------------------------------------
(***************************************************************************)
(* Types                                                                   *)
(***************************************************************************)
LEMMA TypeInit == Init => TypeInv
<1> SUFFICES ASSUME Init PROVE TypeInv
  OBVIOUS
<1>1. drain \in BOOLEAN
  BY LifeAssumption DEF Init
<1>2. /\ status \in [Req -> Statuses] /\ finals \in [Req -> Nat] /\ replies \in Nat
      /\ ncalls \in Nat /\ gone \subseteq Req /\ asleep \subseteq Memory /\ promise \in BOOLEAN
      /\ pauseState = "unpaused" /\ shutdown = "running" /\ pc = "shutdown"
  BY DEF Init, Statuses
<1>3. /\ inputQ \in Seq(Messages) /\ holding \in Seq([kind : {"abort"}, req : Req])
      /\ batches \in Seq(SUBSET Req) /\ callbacks \in Seq(Calls)
  BY DEF Init
<1> QED
  BY <1>1, <1>2, <1>3 DEF TypeInv

LEMMA PauseTypes ==
    ASSUME TypeInv, NEW c \in Calls, HandlePause(c)
    PROVE  /\ status' \in [Req -> Statuses] /\ finals' \in [Req -> Nat] /\ replies' \in Nat
           /\ callbacks' \in Seq(Calls) /\ pauseState' \in {"paused_new", "paused_all"}
           /\ asleep' \subseteq Memory /\ promise' \in BOOLEAN
<1> DEFINE aborted == IF c.mode = "abort" THEN Live ELSE {}
           st == [r \in Req |-> IF r \in aborted THEN "finished" ELSE status[r]]
           done == announce \cup aborted = {} /\ PauseDone(st, c.mode)
<1>1. /\ pauseState' = IF c.mode = "keep" THEN "paused_all" ELSE "paused_new"
      /\ status' = IF done /\ c.clear THEN Preempted(st) ELSE st
      /\ asleep' = IF done THEN Sleeps({c}) ELSE asleep
      /\ SendFinals(aborted) /\ SendReplies(IF done THEN 1 ELSE 0)
      /\ callbacks' = IF done THEN callbacks ELSE Append(callbacks, c)
      /\ promise' = done
  BY DEF HandlePause
<1>2. st \in [Req -> Statuses]
  BY DEF TypeInv, Statuses
<1>3. status' \in [Req -> Statuses]
  <2> HIDE DEF st, done
  <2>1. Preempted(st) \in [Req -> Statuses]
    BY <1>2 DEF Preempted, Statuses
  <2> QED
    BY <1>1, <1>2, <2>1
<1>4. finals' \in [Req -> Nat]
  <2> HIDE DEF st, done, aborted
  <2> QED
    BY <1>1 DEF SendFinals, TypeInv
<1>5. promise' \in BOOLEAN
  BY <1>1, Zenon
<1>6. replies' \in Nat /\ callbacks' \in Seq(Calls) /\ asleep' \subseteq Memory
  <2> HIDE DEF st, done, aborted
  <2> QED
    BY <1>1 DEF SendReplies, TypeInv, Sleeps
<1>7. pauseState' \in {"paused_new", "paused_all"}
  BY <1>1
<1> QED
  BY <1>3, <1>4, <1>5, <1>6, <1>7

\* What the engine's handlers of messages change keeps its type.
LEMMA HandleTypes ==
    ASSUME TypeInv, NEW m \in Messages, Handle(m)
    PROVE  /\ status' \in [Req -> Statuses] /\ finals' \in [Req -> Nat] /\ replies' \in Nat
           /\ callbacks' \in Seq(Calls)
           /\ pauseState' \in {"unpaused", "paused_new", "paused_all"}
           /\ asleep' \subseteq Memory /\ promise' \in BOOLEAN
           /\ UNCHANGED <<batches, shutdown>>
<1>1. CASE UNCHANGED <<outputs, sched, life>>
  BY <1>1 DEF outputs, sched, life, TypeInv
<1>2. CASE m.kind = "add" /\ HandleAdd(m.req)
  <2>1. UNCHANGED <<replies, batches, pauseState, life>>
    BY <1>2 DEF HandleAdd
  <2>2. finals' \in [Req -> Nat]
    <3>1. finals \in [Req -> Nat] /\ (SendFinals({m.req}) \/ UNCHANGED finals)
      BY <1>2 DEF HandleAdd, TypeInv
    <3> QED
      BY <3>1 DEF SendFinals
  <2>3. status' \in [Req -> Statuses]
    BY <1>2 DEF HandleAdd, TypeInv, Statuses
  <2> QED
    BY <2>1, <2>2, <2>3 DEF life, TypeInv
<1>3. CASE m.kind = "abort" /\ HandleAbort(m.req)
  BY <1>3 DEF HandleAbort, Finished, outputs, life, TypeInv, Statuses
<1>4. CASE m.kind = "call" /\ HandlePause(m.call)
  <2>1. m.call \in Calls
    BY <1>4 DEF Messages
  <2>2. UNCHANGED <<batches, shutdown>>
    BY <1>4 DEF HandlePause
  <2> QED
    BY <1>4, <2>1, <2>2, PauseTypes
<1>5. CASE m.kind = "call" /\ HandleResume(m.call)
  <2>1. promise' \in BOOLEAN
    BY <1>5, Zenon DEF HandleResume
  <2> QED
    BY <1>5, <2>1 DEF HandleResume, SendReplies, TypeInv
<1>6. CASE RejectCall
  BY <1>6 DEF RejectCall, SendReplies, sched, life, TypeInv
<1> QED
  BY <1>1, <1>2, <1>3, <1>4, <1>5, <1>6 DEF Handle

\* A message that is taken from the input queue.
LEMMA HeadTail ==
    ASSUME NEW S, NEW q \in Seq(S), q # <<>>
    PROVE  /\ Len(q) \in Nat \ {0} /\ Head(q) \in S /\ Head(q) = q[1]
           /\ Tail(q) \in Seq(S) /\ Len(Tail(q)) = Len(q) - 1
           /\ \A i \in 1..Len(Tail(q)) : Tail(q)[i] = q[i+1]
OBVIOUS

LEMMA Appended ==
    ASSUME NEW S, NEW q \in Seq(S), NEW x \in S
    PROVE  /\ Len(q) \in Nat /\ Append(q, x) \in Seq(S) /\ Len(Append(q, x)) = Len(q) + 1
           /\ \A i \in 1..Len(q) : Append(q, x)[i] = q[i]
           /\ Append(q, x)[Len(q) + 1] = x
OBVIOUS

LEMMA SeqWider ==
    ASSUME NEW A, NEW B, NEW s \in Seq(A), \A x \in A : x \in B
    PROVE  s \in Seq(B)
OBVIOUS

LEMMA TypeNext == ASSUME TypeInv, [Next]_vars PROVE TypeInv'
<1> USE DEF threads, outputs, sched, life, client
<1>1. ASSUME NEW m \in Messages, Put(m) PROVE inputQ' \in Seq(Messages)
  BY <1>1 DEF Put, TypeInv
<1>2. ASSUME NEW r \in Req, Add(r) PROVE TypeInv'
  <2>1. [kind |-> "add", req |-> r] \in Messages
    BY DEF Messages
  <2> QED
    BY <1>1, <1>2, <2>1 DEF Add, TypeInv, Statuses
<1>3. ASSUME NEW r \in Req, AddBad(r) PROVE TypeInv'
  BY <1>3 DEF AddBad, SendFinals, TypeInv, Statuses
<1>4. ASSUME NEW r \in Req, Abort(r) PROVE TypeInv'
  <2>1. [kind |-> "abort", req |-> r] \in [kind : {"abort"}, req : Req]
    OBVIOUS
  <2>2. holding' \in Seq([kind : {"abort"}, req : Req])
    BY <1>4, <2>1 DEF Abort
  <2> QED
    BY <1>4, <2>2 DEF Abort, TypeInv
<1>5. ASSUME NEW c \in Calls, Call(c) PROVE TypeInv'
  <2>1. [kind |-> "call", call |-> c] \in Messages
    BY DEF Messages
  <2> QED
    BY <1>1, <1>5, <2>1 DEF Call, TypeInv
<1>6. CASE PutHeld
  <2>1. holding \in Seq(Messages)
    <3>1. \A h \in [kind : {"abort"}, req : Req] : h \in Messages
      BY DEF Messages
    <3> QED
      BY <3>1, SeqWider DEF TypeInv
  <2> QED
    BY <1>6, <2>1 DEF PutHeld, TypeInv
<1>7. CASE HandleShutdown
  BY <1>7 DEF HandleShutdown, Finished, SendFinals, TypeInv, Statuses
<1>8. CASE PollIdle
  <2>1. promise' \in BOOLEAN
    BY <1>8, Zenon DEF PollIdle
  <2>2. status' \in [Req -> Statuses] /\ asleep' \subseteq Memory
    BY <1>8 DEF PollIdle, Preempted, Sleeps, TypeInv, Statuses
  <2>3. replies' \in Nat /\ callbacks' \in Seq(Calls)
    BY <1>8 DEF PollIdle, SendReplies, TypeInv
  <2> QED
    BY <1>8, <2>1, <2>2, <2>3 DEF PollIdle, TypeInv
<1>9. ASSUME inputQ # <<>>, Handle(Head(inputQ)), inputQ' = Tail(inputQ),
             UNCHANGED <<holding, client>>, pc' # "result"
      PROVE  TypeInv'
  <2>1. Head(inputQ) \in Messages /\ inputQ' \in Seq(Messages)
    BY <1>9, HeadTail DEF TypeInv
  <2> QED
    BY <1>9, <2>1, HandleTypes DEF TypeInv
<1>10. CASE Get
  BY <1>9, <1>10 DEF Get
<1>11. CASE DrainInput
  <2>1. pc' # "result"
    BY <1>11 DEF DrainInput
  <2> QED
    BY <1>9, <1>11, <2>1 DEF DrainInput, TypeInv
<1>12. CASE PollBusy \/ Die \/ StepNothing \/ ClearAborts
  BY <1>12 DEF PollBusy, Die, StepNothing, ClearAborts, TypeInv
<1>13. CASE Step
  <2>1. PICK S \in SUBSET Schedulable :
          /\ batches' = Append(batches, S)
          /\ status' = [r \in Req |-> IF r \in S THEN "running" ELSE status[r]]
    BY <1>13 DEF Step
  <2>2. S \subseteq Req
    BY DEF Schedulable, Running, Live, TypeInv
  <2>3. batches' \in Seq(SUBSET Req) /\ batches' # <<>>
    <3>1. batches \in Seq(SUBSET Req) /\ S \in SUBSET Req
      BY <2>2 DEF TypeInv
    <3>2. PICK B : B = SUBSET Req
      OBVIOUS
    <3>3. batches' \in Seq(B) /\ Len(batches') = Len(batches) + 1 /\ Len(batches) \in Nat
      BY <2>1, <3>1, <3>2, Appended
    <3> QED
      BY <3>2, <3>3
  <2>4. status' \in [Req -> Statuses]
    BY <2>1 DEF TypeInv, Statuses
  <2> QED
    BY <1>13, <2>3, <2>4 DEF Step, TypeInv
<1>14. CASE Result
  <2>1. status' \in [Req -> Statuses] /\ finals' \in [Req -> Nat]
    BY <1>14 DEF Result, Finished, SendFinals, TypeInv, Statuses
  <2>2. batches' \in Seq(SUBSET Req)
    BY <1>14 DEF Result, TypeInv
  <2> QED
    BY <1>14, <2>1, <2>2 DEF Result, TypeInv
<1>15. CASE Fail
  <2>1. [kind |-> "failed"] \in Messages
    BY DEF Messages
  <2> QED
    BY <1>1, <1>15, <2>1 DEF Fail, TypeInv
<1>16. CASE Signal
  BY <1>16 DEF Signal, TypeInv
<1>17. CASE Wakeup
  <2>1. [kind |-> "wakeup"] \in Messages
    BY DEF Messages
  <2> QED
    BY <1>1, <1>17, <2>1 DEF Wakeup, TypeInv
<1>18. CASE UNCHANGED vars
  BY <1>18 DEF vars, TypeInv
<1> QED
  BY <1>2, <1>3, <1>4, <1>5, <1>6, <1>7, <1>8, <1>10, <1>11, <1>12, <1>13, <1>14, <1>15,
     <1>16, <1>17, <1>18 DEF Next, Clients, Engine

-----------------------------------------------------------------------------
(***************************************************************************)
(* A request ends once                                                     *)
(***************************************************************************)
LEMMA EndInit == Init => EndInv
<1> SUFFICES ASSUME Init PROVE EndInv
  OBVIOUS
<1>1. Len(inputQ) = 0 /\ \A r \in Req : status[r] = "new" /\ finals[r] = 0
  BY DEF Init
<1>2. Live = {} /\ gone = {}
  BY <1>1 DEF Init, Live
<1> QED
  BY <1>1, <1>2 DEF EndInv, SentOnce, Told, Emptied, Follows

\* Of the input queue, the first d messages are taken.
Takes(d) ==
    /\ d \in {0, 1} /\ Len(inputQ') = Len(inputQ) - d /\ Len(inputQ) \in Nat
    /\ d <= Len(inputQ) /\ \A i \in 1..Len(inputQ') : inputQ'[i] = inputQ[i+d]

\* Live requests are moved on or ended; all those in S, which are told so, are
\* ended, and the rest stays as it is.
Moves(S) ==
    /\ S \subseteq Live /\ \A r \in S : status'[r] = "finished"
    /\ SendFinals(S)
    /\ \A r \in Req : \/ status'[r] = status[r]
                      \/ r \in Live /\ status'[r] \in {"waiting", "running", "finished"}

\* What the engine does with live requests and with messages that are not new
\* requests: an abort ends its request.
LEMMA EndMoves ==
    ASSUME TypeInv, EndInv, NEW d, Takes(d), NEW S, Moves(S), UNCHANGED <<holding, gone>>,
           d = 1 => /\ inputQ[1].kind # "add"
                    /\ \A r \in Live : IsAbort(inputQ[1], r) => status'[r] = "finished"
    PROVE  SentOnce' /\ Told' /\ Follows' /\ (\A r \in Req : r \in Live' => r \in Live)
<1>1. \A r \in Req : r \in Live <=> status[r] \in {"waiting", "running"}
  BY DEF Live
<1>2. \A r \in Req : r \in Live' => r \in Live
  BY <1>1 DEF Live, Moves
<1>3. \A r \in Req : status'[r] = "sent" <=> status[r] = "sent"
  BY <1>1 DEF Moves
<1>4. SentOnce'
  <2>1. ASSUME NEW r \in Req, status'[r] = "sent"
        PROVE  \E i \in 1..Len(inputQ') : IsAdd(inputQ'[i], r)
    <3>1. PICK i \in 1..Len(inputQ) : IsAdd(inputQ[i], r)
      BY <1>3, <2>1 DEF EndInv, SentOnce
    <3>2. ~(d = 1 /\ i = 1)
      BY <3>1 DEF IsAdd
    <3>3. i - d \in 1..Len(inputQ') /\ (i - d) + d = i
      BY <3>2 DEF Takes
    <3>4. inputQ'[i - d] = inputQ[i]
      BY <3>3 DEF Takes
    <3> QED
      BY <3>1, <3>3, <3>4
  <2>2. ASSUME NEW i \in 1..Len(inputQ'), NEW r \in Req, IsAdd(inputQ'[i], r)
        PROVE  /\ status'[r] = "sent"
               /\ \A j \in 1..Len(inputQ') : IsAdd(inputQ'[j], r) => i = j
    <3>1. i + d \in 1..Len(inputQ) /\ IsAdd(inputQ[i+d], r)
      BY <2>2 DEF Takes
    <3>2. status[r] = "sent" /\ \A j \in 1..Len(inputQ) : IsAdd(inputQ[j], r) => i + d = j
      BY <3>1 DEF EndInv, SentOnce
    <3>3. \A j \in 1..Len(inputQ') : j + d \in 1..Len(inputQ) /\ inputQ'[j] = inputQ[j+d]
      BY DEF Takes
    <3>4. ASSUME NEW j \in 1..Len(inputQ'), IsAdd(inputQ'[j], r) PROVE i = j
      <4>1. i + d = j + d
        BY <3>2, <3>3, <3>4
      <4> QED
        BY <4>1 DEF Takes
    <3> QED
      BY <1>3, <3>2, <3>4
  <2> QED
    BY <2>1, <2>2 DEF SentOnce
<1>5. Told'
  <2> SUFFICES ASSUME NEW r \in Req
               PROVE  finals'[r] <= 1 /\ (status'[r] # "finished" => finals'[r] = 0)
    BY DEF Told
  <2>1. finals[r] \in Nat /\ finals[r] <= 1 /\ (status[r] # "finished" => finals[r] = 0)
    BY DEF EndInv, Told, TypeInv
  <2>2. CASE r \in S
    <3>1. status[r] # "finished" /\ status'[r] = "finished" /\ finals'[r] = finals[r] + 1
      BY <1>1, <2>2 DEF Moves, SendFinals
    <3> QED
      BY <2>1, <3>1
  <2>3. CASE r \notin S
    <3>1. finals'[r] = finals[r] /\ (status'[r] # "finished" => status[r] # "finished")
      BY <1>1, <2>3 DEF Moves, SendFinals
    <3> QED
      BY <2>1, <3>1
  <2> QED
    BY <2>2, <2>3
<1>6. Follows'
  <2> SUFFICES ASSUME NEW r \in gone
               PROVE  /\ status'[r] # "new"
                      /\ \/ status'[r] = "finished"
                         \/ \E i \in 1..Len(holding) : holding[i].req = r
                         \/ \E i \in 1..Len(inputQ') :
                               /\ IsAbort(inputQ'[i], r)
                               /\ \A j \in (i+1)..Len(inputQ') : ~IsAdd(inputQ'[j], r)
    BY DEF Follows
  <2>0. r \in Req
    BY DEF TypeInv
  <2>1. status[r] # "new" /\ status'[r] # "new" /\ (status[r] = "finished" => status'[r] = "finished")
    BY <1>1, <2>0 DEF EndInv, Follows, Moves
  <2>2. ASSUME status[r] # "finished", NEW i \in 1..Len(inputQ), IsAbort(inputQ[i], r),
               \A j \in (i+1)..Len(inputQ) : ~IsAdd(inputQ[j], r)
        PROVE  \/ status'[r] = "finished"
               \/ \E l \in 1..Len(inputQ') :
                     /\ IsAbort(inputQ'[l], r)
                     /\ \A j \in (l+1)..Len(inputQ') : ~IsAdd(inputQ'[j], r)
    <3>1. CASE d = 1 /\ i = 1
      <4>1. status[r] # "sent"
        <5> SUFFICES ASSUME status[r] = "sent" PROVE FALSE
          OBVIOUS
        <5>1. PICK j \in 1..Len(inputQ) : IsAdd(inputQ[j], r)
          BY <2>0 DEF EndInv, SentOnce
        <5>2. j # 1
          BY <2>2, <3>1, <5>1 DEF IsAdd, IsAbort
        <5>3. j \in (i+1)..Len(inputQ)
          BY <3>1, <5>2 DEF Takes
        <5> QED
          BY <2>2, <5>1, <5>3
      <4>2. r \in Live
        BY <1>1, <2>0, <2>1, <2>2, <4>1 DEF TypeInv, Statuses
      <4> QED
        BY <2>2, <3>1, <4>2
    <3>2. CASE ~(d = 1 /\ i = 1)
      <4>1. PICK l : l = i - d
        OBVIOUS
      <4>2. l \in 1..Len(inputQ') /\ l + d = i
        BY <3>2, <4>1 DEF Takes
      <4>3. inputQ'[l] = inputQ[i]
        BY <4>2 DEF Takes
      <4>4. \A j \in (l+1)..Len(inputQ') : j + d \in (i+1)..Len(inputQ) /\ inputQ'[j] = inputQ[j+d]
        BY <4>2 DEF Takes
      <4> QED
        BY <2>2, <4>2, <4>3, <4>4
    <3> QED
      BY <3>1, <3>2
  <2> QED
    BY <2>1, <2>2 DEF EndInv, Follows
<1> QED
  BY <1>2, <1>4, <1>5, <1>6

\* Messages t that are not new requests are put into the queue.
Puts(t) ==
    /\ Len(t) \in Nat /\ Len(inputQ) \in Nat /\ Len(inputQ') = Len(inputQ) + Len(t)
    /\ \A i \in 1..Len(inputQ) : inputQ'[i] = inputQ[i]
    /\ \A i \in 1..Len(t) : inputQ'[Len(inputQ) + i] = t[i] /\ t[i].kind # "add"

LEMMA EndPuts ==
    ASSUME TypeInv, EndInv, NEW t, Puts(t), UNCHANGED <<status, finals, gone>>,
           UNCHANGED holding \/ (t = holding /\ \A i \in 1..Len(t) : IsAbort(t[i], t[i].req))
    PROVE  SentOnce' /\ Told' /\ Follows'
<1>0. PICK n \in Nat, l \in Nat : n = Len(inputQ) /\ l = Len(t)
  BY DEF Puts
<1>1. \A j \in 1..Len(inputQ') : j \in 1..n \/ (j \in (n+1)..(n+l) /\ inputQ'[j].kind # "add")
  <2> SUFFICES ASSUME NEW j \in 1..Len(inputQ'), j \notin 1..n
               PROVE  j \in (n+1)..(n+l) /\ inputQ'[j].kind # "add"
    OBVIOUS
  <2>1. j \in (n+1)..(n+l)
    BY <1>0 DEF Puts
  <2>2. j - n \in 1..Len(t) /\ n + (j - n) = j
    BY <1>0, <2>1
  <2> QED
    BY <1>0, <2>1, <2>2 DEF Puts
<1>2. SentOnce'
  <2>1. \A i \in 1..Len(inputQ') : \A r \in Req :
          IsAdd(inputQ'[i], r) => i \in 1..Len(inputQ) /\ IsAdd(inputQ[i], r)
    BY <1>0, <1>1 DEF IsAdd, Puts
  <2>2. \A i \in 1..Len(inputQ) : i \in 1..Len(inputQ') /\ inputQ'[i] = inputQ[i]
    BY DEF Puts
  <2> QED
    BY <2>1, <2>2 DEF EndInv, SentOnce
<1>3. Told'
  BY DEF EndInv, Told
<1>4. Follows'
  <2> SUFFICES ASSUME NEW r \in gone
               PROVE  /\ status[r] # "new"
                      /\ \/ status[r] = "finished"
                         \/ \E i \in 1..Len(holding') : holding'[i].req = r
                         \/ \E i \in 1..Len(inputQ') :
                               /\ IsAbort(inputQ'[i], r)
                               /\ \A j \in (i+1)..Len(inputQ') : ~IsAdd(inputQ'[j], r)
    BY DEF Follows
  <2>1. ASSUME NEW i \in 1..Len(inputQ), IsAbort(inputQ[i], r),
               \A j \in (i+1)..Len(inputQ) : ~IsAdd(inputQ[j], r)
        PROVE  \E x \in 1..Len(inputQ') :
                   /\ IsAbort(inputQ'[x], r)
                   /\ \A j \in (x+1)..Len(inputQ') : ~IsAdd(inputQ'[j], r)
    <3>1. i \in 1..Len(inputQ') /\ inputQ'[i] = inputQ[i]
      BY DEF Puts
    <3>2. ASSUME NEW j \in (i+1)..Len(inputQ') PROVE ~IsAdd(inputQ'[j], r)
      <4>1. j \in 1..Len(inputQ')
        BY <1>0 DEF Puts
      <4>2. CASE j \in 1..n
        <5>1. j \in (i+1)..Len(inputQ) /\ inputQ'[j] = inputQ[j]
          BY <1>0, <4>2 DEF Puts
        <5> QED
          BY <2>1, <5>1
      <4> QED
        BY <1>1, <4>1, <4>2 DEF IsAdd
    <3> QED
      BY <2>1, <3>1, <3>2
  <2>2. ASSUME NEW i \in 1..Len(holding), holding[i].req = r, ~UNCHANGED holding
        PROVE  \E x \in 1..Len(inputQ') :
                   /\ IsAbort(inputQ'[x], r)
                   /\ \A j \in (x+1)..Len(inputQ') : ~IsAdd(inputQ'[j], r)
    <3>1. i \in 1..l /\ IsAbort(t[i], r)
      BY <1>0, <2>2
    <3>2. PICK x : x = n + i
      OBVIOUS
    <3>3. x \in 1..Len(inputQ') /\ inputQ'[x] = t[i]
      BY <1>0, <3>1, <3>2 DEF Puts
    <3>4. ASSUME NEW j \in (x+1)..Len(inputQ') PROVE ~IsAdd(inputQ'[j], r)
      <4>1. j \in 1..Len(inputQ') /\ j \notin 1..n
        BY <1>0, <3>1, <3>2 DEF Puts
      <4> QED
        BY <1>1, <4>1 DEF IsAdd
    <3> QED
      BY <3>1, <3>3, <3>4
  <2> QED
    BY <2>1, <2>2 DEF EndInv, Follows
<1> QED
  BY <1>2, <1>3, <1>4

LEMMA PutPuts ==
    ASSUME TypeInv, NEW m \in Messages, Put(m), m.kind # "add"
    PROVE  Puts(<<m>>)
<1>1. /\ Len(inputQ) \in Nat /\ Len(inputQ') = Len(inputQ) + 1
      /\ \A i \in 1..Len(inputQ) : inputQ'[i] = inputQ[i]
      /\ inputQ'[Len(inputQ) + 1] = m
  BY Appended DEF TypeInv, Put
<1>2. Len(<<m>>) = 1 /\ <<m>>[1] = m /\ \A i \in 1..1 : i = 1
  OBVIOUS
<1> QED
  BY <1>1, <1>2 DEF Puts

\* A message that is handled.
LEMMA EndHandle ==
    ASSUME TypeInv, EndInv, inputQ # <<>>, Handle(Head(inputQ)), inputQ' = Tail(inputQ),
           UNCHANGED <<holding, gone, drain>>
    PROVE  /\ SentOnce' /\ Told' /\ Follows'
           /\ UNCHANGED shutdown
           /\ shutdown # "running" => \A r \in Req : r \in Live' => r \in Live
<1> DEFINE m == Head(inputQ)
<1>1. m \in Messages /\ m = inputQ[1] /\ Takes(1)
  BY HeadTail DEF TypeInv, Takes
<1>2. UNCHANGED shutdown
  BY <1>1, HandleTypes
<1>3. \A r \in Req : r \in Live <=> status[r] \in {"waiting", "running"}
  BY DEF Live
<1>4. ASSUME m.kind # "add", NEW S, Moves(S),
             \A r \in Live : IsAbort(m, r) => status'[r] = "finished"
      PROVE  SentOnce' /\ Told' /\ Follows' /\ (\A r \in Req : r \in Live' => r \in Live)
  BY <1>1, <1>4, EndMoves
<1>5. CASE m.kind # "add" /\ m.kind # "abort" /\ UNCHANGED <<status, finals>>
  <2>1. Moves({})
    BY <1>5 DEF Moves, SendFinals, TypeInv
  <2> QED
    BY <1>2, <1>4, <1>5, <2>1 DEF IsAbort
<1>6. CASE m.kind = "abort" /\ HandleAbort(m.req)
  <2>1. Moves({}) /\ \A r \in Live : IsAbort(m, r) => status'[r] = "finished"
    BY <1>3, <1>6 DEF HandleAbort, Finished, outputs, Moves, SendFinals, TypeInv, IsAbort, Live
  <2> QED
    BY <1>2, <1>4, <1>6, <2>1
<1>7. CASE m.kind = "call" /\ HandlePause(m.call)
  <2>1. PICK c : c = m.call
    OBVIOUS
  <2>2. PICK A : A = IF c.mode = "abort" THEN Live ELSE {}
    OBVIOUS
  <2>3. PICK st : st = [r \in Req |-> IF r \in A THEN "finished" ELSE status[r]]
    OBVIOUS
  <2>4. (status' = Preempted(st) \/ status' = st) /\ SendFinals(A)
    BY <1>7, <2>1, <2>2, <2>3 DEF HandlePause
  <2>5. Moves(A)
    <3>1. A \subseteq Live /\ \A r \in A : r \in Req /\ r \in Live
      BY <2>2 DEF Live
    <3>2. \A r \in Req : st[r] = IF r \in A THEN "finished" ELSE status[r]
      BY <2>3
    <3>3. \A r \in Req : status'[r] = st[r] \/ (st[r] = "running" /\ status'[r] = "waiting")
      BY <2>4 DEF Preempted
    <3>4. \A r \in A : status'[r] = "finished"
      BY <3>1, <3>2, <3>3
    <3>5. ASSUME NEW r \in Req
          PROVE  \/ status'[r] = status[r]
                 \/ r \in Live /\ status'[r] \in {"waiting", "running", "finished"}
      BY <1>3, <3>1, <3>2, <3>3
    <3> QED
      BY <2>4, <3>1, <3>4, <3>5 DEF Moves
  <2> QED
    BY <1>2, <1>4, <1>7, <2>5 DEF IsAbort
<1>8. CASE m.kind = "call" /\ (HandleResume(m.call) \/ RejectCall)
  BY <1>5, <1>8 DEF HandleResume, RejectCall, sched
<1>9. CASE m.kind = "add" /\ HandleAdd(m.req)
  <2>1. PICK r \in Req : r = m.req
    BY <1>1, <1>9 DEF Messages
  <2>2. status[r] = "sent" /\ \A j \in 1..Len(inputQ) : IsAdd(inputQ[j], r) => j = 1
    BY <1>1, <1>9, <2>1 DEF EndInv, SentOnce, IsAdd, Takes
  <2>3. /\ \A x \in Req \ {r} : status'[x] = status[x] /\ finals'[x] = finals[x]
        /\ status'[r] \in {"waiting", "finished"}
        /\ status'[r] = "waiting" <=> shutdown = "running"
        /\ finals'[r] = IF status'[r] = "waiting" THEN finals[r] ELSE finals[r] + 1
    BY <1>9, <2>1 DEF HandleAdd, SendFinals, TypeInv, Rejects
  <2>4. \A i \in 1..Len(inputQ') : i + 1 \in 2..Len(inputQ) /\ inputQ'[i] = inputQ[i+1]
    BY <1>1 DEF Takes
  <2>5. \A i \in 2..Len(inputQ) : i - 1 \in 1..Len(inputQ') /\ inputQ'[i-1] = inputQ[i]
    BY <1>1 DEF Takes
  <2>6. SentOnce'
    <3>1. ASSUME NEW x \in Req, status'[x] = "sent"
          PROVE  \E i \in 1..Len(inputQ') : IsAdd(inputQ'[i], x)
      <4>1. x # r /\ status[x] = "sent"
        BY <2>3, <3>1
      <4>2. PICK i \in 1..Len(inputQ) : IsAdd(inputQ[i], x)
        BY <4>1 DEF EndInv, SentOnce
      <4>3. i \in 2..Len(inputQ)
        BY <1>1, <2>1, <4>1, <4>2 DEF IsAdd, Takes
      <4> QED
        BY <2>5, <4>2, <4>3
    <3>2. ASSUME NEW i \in 1..Len(inputQ'), NEW x \in Req, IsAdd(inputQ'[i], x)
          PROVE  /\ status'[x] = "sent"
                 /\ \A j \in 1..Len(inputQ') : IsAdd(inputQ'[j], x) => i = j
      <4>1. i + 1 \in 1..Len(inputQ) /\ IsAdd(inputQ[i+1], x) /\ i + 1 # 1
        BY <1>1, <2>4, <3>2 DEF Takes
      <4>2. status[x] = "sent" /\ \A j \in 1..Len(inputQ) : IsAdd(inputQ[j], x) => i + 1 = j
        BY <4>1 DEF EndInv, SentOnce
      <4>3. x # r
        BY <2>2, <4>1
      <4>4. ASSUME NEW j \in 1..Len(inputQ'), IsAdd(inputQ'[j], x) PROVE i = j
        <5>1. j + 1 \in 1..Len(inputQ) /\ IsAdd(inputQ[j+1], x)
          BY <1>1, <2>4, <4>4 DEF Takes
        <5>2. i + 1 = j + 1
          BY <4>2, <5>1
        <5> QED
          BY <5>2
      <4> QED
        BY <2>3, <4>2, <4>3, <4>4
    <3> QED
      BY <3>1, <3>2 DEF SentOnce
  <2>7. Told'
    <3>1. \A x \in Req : finals[x] \in Nat /\ finals[x] <= 1
                         /\ (status[x] # "finished" => finals[x] = 0)
      BY DEF EndInv, Told, TypeInv
    <3> QED
      BY <2>2, <2>3, <3>1 DEF Told
  <2>8. Follows'
    <3> SUFFICES ASSUME NEW x \in gone
                 PROVE  /\ status'[x] # "new"
                        /\ \/ status'[x] = "finished"
                           \/ \E i \in 1..Len(holding) : holding[i].req = x
                           \/ \E i \in 1..Len(inputQ') :
                                 /\ IsAbort(inputQ'[i], x)
                                 /\ \A j \in (i+1)..Len(inputQ') : ~IsAdd(inputQ'[j], x)
      BY DEF Follows
    <3>0. x \in Req /\ status'[x] # "new" /\ (status[x] = "finished" => status'[x] = "finished")
      BY <2>2, <2>3 DEF TypeInv, EndInv, Follows
    <3>1. ASSUME NEW i \in 1..Len(inputQ), IsAbort(inputQ[i], x),
                 \A j \in (i+1)..Len(inputQ) : ~IsAdd(inputQ[j], x)
          PROVE  \E l \in 1..Len(inputQ') :
                     /\ IsAbort(inputQ'[l], x)
                     /\ \A j \in (l+1)..Len(inputQ') : ~IsAdd(inputQ'[j], x)
      <4>1. i \in 2..Len(inputQ)
        BY <1>1, <1>9, <3>1 DEF IsAbort, Takes
      <4>2. PICK l : l = i - 1
        OBVIOUS
      <4>3. l \in 1..Len(inputQ') /\ inputQ'[l] = inputQ[i] /\ l + 1 = i
        BY <2>5, <4>1, <4>2
      <4>4. \A j \in (l+1)..Len(inputQ') : j + 1 \in (i+1)..Len(inputQ) /\ inputQ'[j] = inputQ[j+1]
        BY <1>1, <4>1, <4>3 DEF Takes
      <4> QED
        BY <3>1, <4>3, <4>4
    <3> QED
      BY <3>0, <3>1 DEF EndInv, Follows
  <2>9. shutdown # "running" => \A x \in Req : x \in Live' => x \in Live
    BY <2>3 DEF Live
  <2> QED
    BY <1>2, <2>6, <2>7, <2>8, <2>9
<1>10. CASE m.kind = "wakeup" /\ UNCHANGED <<outputs, sched, life>>
  BY <1>5, <1>10 DEF outputs, sched
<1> QED
  BY <1>6, <1>7, <1>8, <1>9, <1>10 DEF Handle

\* Nothing becomes live in an engine that is about to end.
LEMMA StillEmptied ==
    ASSUME TypeInv, EndInv, UNCHANGED drain,
           UNCHANGED shutdown \/ shutdown' # "shutting_down",
           shutdown # "running" => \A r \in Req : r \in Live' => r \in Live,
           pc' # "exit" \/ UNCHANGED <<pc, pauseState, status>>
    PROVE  Emptied'
<1>1. \A r \in Live' : r \in Req
  BY DEF Live
<1>2. ASSUME shutdown' = "shutting_down", ~drain' PROVE Live' = {}
  BY <1>1, <1>2 DEF EndInv, Emptied
<1>3. ASSUME pc' = "exit" PROVE \A r \in Live' : drain' /\ pauseState' # "unpaused"
  BY <1>3 DEF EndInv, Emptied, Live
<1> QED
  BY <1>2, <1>3 DEF Emptied

LEMMA EndNext == ASSUME TypeInv, EndInv, [Next]_vars PROVE EndInv'
<1> USE DEF threads, outputs, sched, life, client
<1>0. Takes(0) \/ ~UNCHANGED inputQ
  BY DEF Takes, TypeInv
<1>1. \A r \in Req : r \in Live <=> status[r] \in {"waiting", "running"}
  BY DEF Live
<1>2. ASSUME UNCHANGED <<inputQ, holding, gone, drain>>, NEW S, Moves(S),
             UNCHANGED shutdown \/ shutdown' # "shutting_down", pc' # "exit"
      PROVE  EndInv'
  <2>1. SentOnce' /\ Told' /\ Follows' /\ (\A r \in Req : r \in Live' => r \in Live)
    BY <1>0, <1>2, EndMoves
  <2> QED
    BY <1>2, <2>1, StillEmptied DEF EndInv
<1>3. ASSUME NEW t, Puts(t), UNCHANGED <<status, finals, gone, shutdown, drain, pc, pauseState>>,
             UNCHANGED holding \/ (t = holding /\ \A i \in 1..Len(t) : IsAbort(t[i], t[i].req))
      PROVE  EndInv'
  <2>1. SentOnce' /\ Told' /\ Follows'
    BY <1>3, EndPuts
  <2>2. Live' = Live
    BY <1>3 DEF Live
  <2> QED
    BY <1>3, <2>1, <2>2, StillEmptied DEF EndInv
<1>4. ASSUME NEW m \in Messages, m.kind # "add", Put(m),
             UNCHANGED <<status, finals, gone, shutdown, drain, pc, pauseState, holding>>
      PROVE  EndInv'
  <2>1. PICK t : t = <<m>>
    OBVIOUS
  <2>2. Puts(t)
    BY <1>4, <2>1, PutPuts
  <2> QED
    BY <1>3, <1>4, <2>2
<1>5. ASSUME UNCHANGED <<inputQ, holding, gone, drain, status, finals, shutdown>>, pc' # "exit"
      PROVE  EndInv'
  <2>1. Moves({})
    BY <1>5 DEF Moves, SendFinals, TypeInv
  <2> QED
    BY <1>2, <1>5, <2>1
<1>6. ASSUME NEW r \in Req, Add(r) PROVE EndInv'
  <2>1. PICK m : m = [kind |-> "add", req |-> r]
    OBVIOUS
  <2>2. m \in Messages /\ m.kind = "add" /\ m.req = r
    BY <2>1 DEF Messages
  <2>3. PICK n \in Nat : n = Len(inputQ)
    BY DEF TypeInv
  <2>4. /\ Len(inputQ') = n + 1 /\ inputQ'[n+1] = m
        /\ \A i \in 1..n : inputQ'[i] = inputQ[i] /\ i \in 1..Len(inputQ')
        /\ \A i \in 1..Len(inputQ') : i \in 1..n \/ i = n + 1
    <3>1. inputQ' = Append(inputQ, m) /\ inputQ \in Seq(Messages)
      BY <1>6, <2>1 DEF Add, Put, TypeInv
    <3> QED
      BY <2>2, <2>3, <3>1, Appended
  <2>5. /\ status[r] = "new" /\ status'[r] = "sent"
        /\ \A x \in Req \ {r} : status'[x] = status[x]
        /\ UNCHANGED <<finals, gone, holding, shutdown, drain, pc, pauseState>>
    BY <1>6 DEF Add, TypeInv
  <2>6. \A i \in 1..n : ~IsAdd(inputQ[i], r)
    BY <2>3, <2>5 DEF EndInv, SentOnce
  <2>7. SentOnce'
    <3>1. ASSUME NEW x \in Req, status'[x] = "sent"
          PROVE  \E i \in 1..Len(inputQ') : IsAdd(inputQ'[i], x)
      <4>1. CASE x = r
        BY <2>2, <2>3, <2>4, <4>1 DEF IsAdd
      <4>2. CASE x # r
        BY <2>3, <2>4, <2>5, <3>1, <4>2 DEF EndInv, SentOnce
      <4> QED
        BY <4>1, <4>2
    <3>2. ASSUME NEW i \in 1..Len(inputQ'), NEW x \in Req, IsAdd(inputQ'[i], x)
          PROVE  /\ status'[x] = "sent"
                 /\ \A j \in 1..Len(inputQ') : IsAdd(inputQ'[j], x) => i = j
      <4>1. CASE x = r
        <5>1. \A j \in 1..Len(inputQ') : IsAdd(inputQ'[j], r) => j = n + 1
          BY <2>4, <2>6
        <5> QED
          BY <2>5, <3>2, <4>1, <5>1
      <4>2. CASE x # r
        <5>1. \A j \in 1..Len(inputQ') : IsAdd(inputQ'[j], x) => j \in 1..n /\ IsAdd(inputQ[j], x)
          BY <2>2, <2>4, <4>2 DEF IsAdd
        <5> QED
          BY <2>3, <2>5, <3>2, <4>2, <5>1 DEF EndInv, SentOnce
      <4> QED
        BY <4>1, <4>2
    <3> QED
      BY <3>1, <3>2 DEF SentOnce
  <2>8. Told'
    BY <2>5 DEF EndInv, Told
  <2>9. Follows'
    <3> SUFFICES ASSUME NEW x \in gone
                 PROVE  /\ status'[x] # "new"
                        /\ \/ status'[x] = "finished"
                           \/ \E i \in 1..Len(holding) : holding[i].req = x
                           \/ \E i \in 1..Len(inputQ') :
                                 /\ IsAbort(inputQ'[i], x)
                                 /\ \A j \in (i+1)..Len(inputQ') : ~IsAdd(inputQ'[j], x)
      BY <2>5 DEF Follows
    <3>1. x # r /\ x \in Req /\ status'[x] = status[x]
      BY <2>5 DEF EndInv, Follows, TypeInv
    <3>2. ASSUME NEW i \in 1..Len(inputQ), IsAbort(inputQ[i], x),
                 \A j \in (i+1)..Len(inputQ) : ~IsAdd(inputQ[j], x)
          PROVE  \E l \in 1..Len(inputQ') :
                     /\ IsAbort(inputQ'[l], x)
                     /\ \A j \in (l+1)..Len(inputQ') : ~IsAdd(inputQ'[j], x)
      <4>1. i \in 1..Len(inputQ') /\ IsAbort(inputQ'[i], x)
        BY <2>3, <2>4, <3>2
      <4>2. ASSUME NEW j \in (i+1)..Len(inputQ') PROVE ~IsAdd(inputQ'[j], x)
        <5>1. j = n + 1 \/ (j \in (i+1)..n /\ j \in 1..n)
          BY <2>3, <2>4
        <5> QED
          BY <2>2, <2>3, <2>4, <3>1, <3>2, <5>1 DEF IsAdd
      <4> QED
        BY <4>1, <4>2
    <3> QED
      BY <3>1, <3>2 DEF EndInv, Follows
  <2>10. Live' = Live
    BY <1>1, <2>5 DEF Live
  <2>11. Emptied'
    BY <2>5, <2>10 DEF EndInv, Emptied
  <2> QED
    BY <2>7, <2>8, <2>9, <2>11 DEF EndInv
<1>7. ASSUME NEW r \in Req, AddBad(r) PROVE EndInv'
  <2>1. /\ status[r] = "new" /\ status'[r] = "finished" /\ finals'[r] = finals[r] + 1
        /\ \A x \in Req \ {r} : status'[x] = status[x] /\ finals'[x] = finals[x]
        /\ UNCHANGED <<inputQ, gone, holding, shutdown, drain, pc, pauseState>>
    BY <1>7 DEF AddBad, SendFinals, TypeInv
  <2>2. Told'
    BY <2>1 DEF EndInv, Told
  <2>3. SentOnce'
    BY <2>1 DEF EndInv, SentOnce
  <2>4. Follows'
    <3>1. \A x \in gone : x \in Req /\ x # r
      BY <2>1 DEF EndInv, Follows, TypeInv
    <3> QED
      BY <2>1, <3>1 DEF EndInv, Follows
  <2>5. Live' = Live
    BY <1>1, <2>1 DEF Live
  <2>6. Emptied'
    BY <2>1, <2>5 DEF EndInv, Emptied
  <2> QED
    BY <2>2, <2>3, <2>4, <2>6 DEF EndInv
<1>8. ASSUME NEW r \in Req, Abort(r) PROVE EndInv'
  <2>1. /\ status[r] # "new" /\ gone' = gone \cup {r} /\ holding = <<>>
        /\ holding' = <<[kind |-> "abort", req |-> r]>>
        /\ UNCHANGED <<inputQ, status, finals, shutdown, drain, pc, pauseState>>
    BY <1>8 DEF Abort
  <2>2. Follows'
    <3>1. Len(holding) = 0 /\ Len(holding') = 1 /\ holding'[1].req = r
      BY <2>1
    <3> QED
      BY <2>1, <3>1 DEF EndInv, Follows
  <2>3. Live' = Live
    BY <2>1 DEF Live
  <2> QED
    BY <2>1, <2>2, <2>3 DEF EndInv, SentOnce, Told, Emptied
<1>9. CASE PutHeld
  <2>1. Puts(holding) /\ \A i \in 1..Len(holding) : IsAbort(holding[i], holding[i].req)
    <3>1. PICK H : H = [kind : {"abort"}, req : Req]
      OBVIOUS
    <3>2. \A h \in H : h.kind = "abort"
      BY <3>1
    <3>3. holding \in Seq(H) /\ inputQ \in Seq(Messages)
      BY <3>1 DEF TypeInv
    <3>4. \A i \in 1..Len(holding) : holding[i] \in H
      BY <3>3
    <3>5. inputQ' = inputQ \o holding
      BY <1>9 DEF PutHeld
    <3>6. /\ Len(holding) \in Nat /\ Len(inputQ) \in Nat
          /\ Len(inputQ \o holding) = Len(inputQ) + Len(holding)
          /\ \A i \in 1..Len(inputQ) : (inputQ \o holding)[i] = inputQ[i]
          /\ \A i \in 1..Len(holding) : (inputQ \o holding)[Len(inputQ) + i] = holding[i]
      BY <3>3
    <3> QED
      BY <3>2, <3>4, <3>5, <3>6 DEF Puts, IsAbort
  <2> QED
    BY <1>3, <1>9, <2>1 DEF PutHeld
<1>10. ASSUME NEW c \in Calls, Call(c) PROVE EndInv'
  <2>1. PICK m : m = [kind |-> "call", call |-> c]
    OBVIOUS
  <2>2. m \in Messages /\ m.kind # "add"
    BY <2>1 DEF Messages
  <2> QED
    BY <1>4, <1>10, <2>1, <2>2 DEF Call
<1>11. CASE Fail
  <2>1. PICK m : m = [kind |-> "failed"]
    OBVIOUS
  <2>2. m \in Messages /\ m.kind # "add"
    BY <2>1 DEF Messages
  <2> QED
    BY <1>4, <1>11, <2>1, <2>2 DEF Fail
<1>12. CASE Wakeup
  <2>1. PICK m : m = [kind |-> "wakeup"]
    OBVIOUS
  <2>2. m \in Messages /\ m.kind # "add"
    BY <2>1 DEF Messages
  <2> QED
    BY <1>4, <1>12, <2>1, <2>2 DEF Wakeup
<1>13. CASE Signal
  <2>1. Moves({})
    BY <1>13 DEF Signal, Moves, SendFinals, TypeInv
  <2> QED
    BY <1>2, <1>13, <2>1 DEF Signal
<1>14. CASE HandleShutdown
  <2>1. PICK A : A = ShutdownAborts
    OBVIOUS
  <2>2. /\ A \subseteq Live /\ SendFinals(A)
        /\ status' = [r \in Req |-> IF r \in A THEN "finished" ELSE status[r]]
        /\ shutdown = "requested" /\ ~drain => A = Live
    BY <1>14, <2>1 DEF HandleShutdown, Finished, ShutdownAborts
  <2>3. Moves(A)
    BY <2>2 DEF Moves, Live
  <2>4. SentOnce' /\ Told' /\ Follows' /\ (\A r \in Req : r \in Live' => r \in Live)
    BY <1>0, <1>14, <2>3, EndMoves DEF HandleShutdown
  <2>5. ASSUME shutdown' = "shutting_down", ~drain PROVE Live' = {}
    <3>1. CASE shutdown = "requested"
      BY <2>2, <2>5, <3>1 DEF Live
    <3>2. CASE shutdown = "shutting_down"
      BY <2>2, <2>4, <2>5, <3>2 DEF EndInv, Emptied, Live
    <3> QED
      BY <1>14, <2>5, <3>1, <3>2 DEF HandleShutdown
  <2>6. ASSUME pc' = "exit", NEW r \in Live' PROVE drain /\ pauseState' # "unpaused"
    <3>1. ~HasWork' /\ shutdown # "running" /\ UNCHANGED pauseState
      BY <1>14, <2>6 DEF HandleShutdown
    <3>2. pauseState' # "unpaused"
      BY <2>6, <3>1 DEF HasWork, HasRequests, Unfinished
    <3>3. shutdown' = "shutting_down"
      BY <1>14, <3>1 DEF HandleShutdown, TypeInv
    <3> QED
      BY <2>5, <2>6, <3>2, <3>3
  <2>7. UNCHANGED drain
    BY <1>14 DEF HandleShutdown
  <2> QED
    BY <2>4, <2>5, <2>6, <2>7 DEF EndInv, Emptied
<1>15. CASE PollIdle
  <2>1. \A r \in Req : status'[r] = status[r] \/ (status[r] = "running" /\ status'[r] = "waiting")
    BY <1>15 DEF PollIdle, Preempted, TypeInv
  <2>2. Moves({})
    BY <1>1, <1>15, <2>1 DEF PollIdle, Moves, SendFinals, TypeInv
  <2> QED
    BY <1>2, <1>15, <2>2 DEF PollIdle
<1>16. ASSUME inputQ # <<>>, Handle(Head(inputQ)), inputQ' = Tail(inputQ),
              UNCHANGED <<holding, gone, drain>>, pc' # "exit"
       PROVE  EndInv'
  BY <1>16, EndHandle, StillEmptied DEF EndInv
<1>17. CASE Get
  BY <1>16, <1>17 DEF Get
<1>18. CASE DrainInput
  <2>1. pc' # "exit"
    BY <1>18 DEF DrainInput
  <2> QED
    BY <1>5, <1>16, <1>18, <2>1 DEF DrainInput
<1>19. CASE PollBusy \/ Die \/ StepNothing \/ ClearAborts
  BY <1>5, <1>19 DEF PollBusy, Die, StepNothing, ClearAborts
<1>20. CASE Step
  <2>1. PICK S \in SUBSET Schedulable :
          status' = [r \in Req |-> IF r \in S THEN "running" ELSE status[r]]
    BY <1>20 DEF Step
  <2>2. S \subseteq Live
    BY <2>1 DEF Schedulable, Running, Live, TypeInv
  <2>3. Moves({})
    BY <1>20, <2>1, <2>2 DEF Step, Moves, SendFinals, TypeInv
  <2> QED
    BY <1>2, <1>20, <2>3 DEF Step
<1>21. CASE Result
  <2>1. PICK A, D : /\ A \subseteq Live /\ D \subseteq Live /\ SendFinals(D)
                    /\ Finished(A \cup D)
    BY <1>21 DEF Result, Delivered
  <2>2. Moves(D)
    BY <2>1 DEF Moves, Finished, Live
  <2> QED
    BY <1>2, <1>21, <2>2 DEF Result
<1>22. CASE UNCHANGED vars
  <2>1. Live' = Live
    BY <1>22 DEF vars, Live
  <2> QED
    BY <1>22, <2>1 DEF vars, EndInv, SentOnce, Told, Emptied, Follows
<1> QED
  BY <1>6, <1>7, <1>8, <1>9, <1>10, <1>11, <1>12, <1>13, <1>14, <1>15, <1>17, <1>18, <1>19,
     <1>20, <1>21, <1>22 DEF Next, Clients, Engine

\* A request ends once and for good, for any number of requests and clients, any
\* depth of the batch queue, and whatever of stop, abort, pause, sleep, failure,
\* rejection and shutdown comes first: its client hears of it at most once and
\* never while it is live; an abort is not lost, although the engine drops aborts
\* from one of the two queues it comes through; and a process that ends by itself
\* leaves nobody without an answer, unless it was to drain while it was paused.
THEOREM RequestsEndOnce == Spec => []EndedOnce
<1>1. TypeInv /\ EndInv => EndedOnce
  <2> SUFFICES ASSUME TypeInv, EndInv PROVE EndedOnce
    OBVIOUS
  <2>1. FinalOnce
    BY DEF FinalOnce, EndInv, Told, Emptied, Live
  <2>2. ASSUME NEW r \in gone, r \in Live
        PROVE  Contains(holding \o inputQ, [kind |-> "abort", req |-> r])
    <3>0. r \in Req /\ status[r] # "finished"
      BY <2>2 DEF Live
    <3>1. PICK H, a : H = [kind : {"abort"}, req : Req] /\ a = [kind |-> "abort", req |-> r]
      OBVIOUS
    <3>2. holding \in Seq(H) /\ inputQ \in Seq(Messages)
      BY <3>1 DEF TypeInv
    <3>3. \A h \in H : h.req = r => h = a
      BY <3>1
    <3>4. \A m \in Messages : IsAbort(m, r) => m = a
      BY <3>1 DEF Messages, IsAbort
    <3>5. PICK q : q = holding \o inputQ
      OBVIOUS
    <3>6. /\ Len(holding) \in Nat /\ Len(inputQ) \in Nat
          /\ Len(q) = Len(holding) + Len(inputQ)
          /\ \A i \in 1..Len(holding) : q[i] = holding[i] /\ holding[i] \in H
          /\ \A i \in 1..Len(inputQ) : q[Len(holding) + i] = inputQ[i] /\ inputQ[i] \in Messages
      BY <3>2, <3>5
    <3>7. \E i \in 1..Len(q) : q[i] = a
      <4>1. CASE \E i \in 1..Len(holding) : holding[i].req = r
        BY <3>3, <3>6, <4>1
      <4>2. CASE \E i \in 1..Len(inputQ) : IsAbort(inputQ[i], r)
        BY <3>4, <3>6, <4>2
      <4> QED
        BY <3>0, <4>1, <4>2 DEF EndInv, Follows
    <3> QED
      BY <3>1, <3>5, <3>7 DEF Contains
  <2> QED
    BY <2>1, <2>2 DEF EndedOnce, AbortsStick
<1>2. Init => TypeInv /\ EndInv
  BY TypeInit, EndInit
<1>3. TypeInv /\ EndInv /\ [Next]_vars => (TypeInv /\ EndInv)'
  BY TypeNext, EndNext
<1> QED
  BY <1>1, <1>2, <1>3, PTL DEF Spec

-----------------------------------------------------------------------------
(***************************************************************************)
(* A completed pause                                                       *)
(***************************************************************************)
\* What a pause that is completed at once finds; one that is not is put off.
LEMMA PauseEffect ==
    ASSUME TypeInv, NEW c, HandlePause(c)
    PROVE  /\ UNCHANGED <<batches, shutdown>> /\ pauseState' # "unpaused"
           /\ \A r \in Req : status'[r] = "running" => status[r] = "running"
           /\ \/ /\ promise' /\ batches = <<>> /\ replies' = replies + 1
                 /\ UNCHANGED callbacks /\ asleep' = Sleeps({c})
                 /\ pauseState' = "paused_new" => Running' = {}
                 /\ c.clear => Running' = {}
              \/ /\ ~promise' /\ UNCHANGED <<replies, asleep>>
                 /\ callbacks' = Append(callbacks, c)
<1>0. PICK A : A = IF c.mode = "abort" THEN Live ELSE {}
  OBVIOUS
<1>1. PICK st : st = [r \in Req |-> IF r \in A THEN "finished" ELSE status[r]]
  OBVIOUS
<1>2. PICK done \in BOOLEAN : done <=> (announce \cup A = {} /\ PauseDone(st, c.mode))
  OBVIOUS
<1>3. /\ pauseState' = IF c.mode = "keep" THEN "paused_all" ELSE "paused_new"
      /\ status' = IF done /\ c.clear THEN Preempted(st) ELSE st
      /\ asleep' = IF done THEN Sleeps({c}) ELSE asleep
      /\ SendReplies(IF done THEN 1 ELSE 0)
      /\ callbacks' = IF done THEN callbacks ELSE Append(callbacks, c)
      /\ promise' <=> done
      /\ UNCHANGED <<batches, shutdown>>
  BY <1>0, <1>1, <1>2 DEF HandlePause
<1>4. \A r \in Req : st[r] = "running" => status[r] = "running"
  BY <1>1
<1>5. \A r \in Req : Preempted(st)[r] # "running"
  BY DEF Preempted
<1>6. \A r \in Req : status'[r] = "running" => st[r] = "running" /\ status[r] = "running"
  BY <1>3, <1>4, <1>5
<1>7. CASE done
  <2>1. batches = <<>> /\ (c.mode = "keep" \/ \A r \in Req : st[r] # "running")
    BY <1>2, <1>7 DEF PauseDone
  <2>2. pauseState' = "paused_new" => Running' = {}
    BY <1>3, <1>6, <2>1 DEF Running
  <2>3. c.clear => Running' = {}
    BY <1>3, <1>5, <1>7 DEF Running
  <2>4. replies' = replies + 1 /\ UNCHANGED callbacks /\ asleep' = Sleeps({c})
    BY <1>3, <1>7 DEF SendReplies
  <2> QED
    BY <1>3, <1>6, <1>7, <2>1, <2>2, <2>3, <2>4
<1>8. CASE ~done
  <2>1. UNCHANGED <<replies, asleep>> /\ callbacks' = Append(callbacks, c)
    BY <1>3, <1>8 DEF SendReplies, TypeInv
  <2> QED
    BY <1>3, <1>6, <1>8, <2>1
<1> QED
  BY <1>7, <1>8

\* No batch with tokens comes about when only running requests may be scheduled,
\* or none, and none of them runs.
LEMMA StepIdle ==
    ASSUME TypeInv, Step, pauseState # "unpaused", Idle,
           pauseState = "paused_new" => Running = {}
    PROVE  Idle' /\ UNCHANGED <<status, pauseState>>
<1>1. PICK S \in SUBSET Schedulable :
        /\ batches' = Append(batches, S)
        /\ status' = [r \in Req |-> IF r \in S THEN "running" ELSE status[r]]
  BY DEF Step
<1>2. S = {}
  BY DEF Schedulable, TypeInv
<1>3. UNCHANGED status
  BY <1>1, <1>2 DEF TypeInv
<1>4. UNCHANGED pauseState
  BY DEF Step
<1>5. PICK B : B = SUBSET Req
  OBVIOUS
<1>6. batches \in Seq(B) /\ S \in B
  BY <1>2, <1>5 DEF TypeInv
<1>7. PICK n \in Nat : n = Len(batches)
  BY <1>6
<1>8. /\ Len(batches') = n + 1 /\ batches'[n + 1] = {}
      /\ \A i \in 1..n : batches'[i] = batches[i]
  BY <1>1, <1>2, <1>6, <1>7, Appended
<1>9. \A i \in 1..(n + 1) : i \in 1..n \/ i = n + 1
  OBVIOUS
<1> QED
  BY <1>3, <1>4, <1>7, <1>8, <1>9 DEF Idle

LEMMA ResultIdle ==
    ASSUME TypeInv, Result
    PROVE  /\ Idle => Idle'
           /\ \A r \in Req : status'[r] = "running" => status[r] = "running"
<1>1. PICK B : B = SUBSET Req
  OBVIOUS
<1>2. batches \in Seq(B) /\ batches # <<>> /\ batches' = Tail(batches)
  BY <1>1 DEF Result, TypeInv
<1>3. PICK n \in Nat : n = Len(batches)
  BY <1>2
<1>4. Len(batches') = n - 1 /\ \A i \in 1..(n-1) : batches'[i] = batches[i+1] /\ i + 1 \in 1..n
  BY <1>2, <1>3, HeadTail
<1>5. Idle => Idle'
  BY <1>3, <1>4 DEF Idle
<1>6. \A r \in Req : status'[r] = "running" => status[r] = "running"
  BY DEF Result, Finished, TypeInv
<1> QED
  BY <1>5, <1>6

LEMMA PauseNext == ASSUME TypeInv, PauseInv, [Next]_vars PROVE PauseInv'
<1> USE DEF threads, outputs, sched, life, client
<1>1. ASSUME promise' => promise, UNCHANGED <<pauseState, batches>>,
             \A r \in Req : status'[r] = "running" => status[r] = "running"
      PROVE  PauseInv'
  BY <1>1 DEF PauseInv, Idle, Running
<1>2. ASSUME UNCHANGED <<promise, pauseState, batches, status>> PROVE PauseInv'
  BY <1>1, <1>2
<1>3. ASSUME NEW r \in Req, Add(r) \/ AddBad(r) \/ Abort(r) PROVE PauseInv'
  <2>1. /\ UNCHANGED <<promise, pauseState, batches>>
        /\ \A x \in Req : status'[x] = "running" => status[x] = "running"
    BY <1>3 DEF Add, AddBad, Abort, TypeInv
  <2> QED
    BY <1>1, <2>1
<1>4. CASE \/ \E c \in Calls : Call(c)
           \/ PutHeld \/ ClearAborts \/ PollBusy \/ Die \/ StepNothing \/ Fail \/ Signal \/ Wakeup
           \/ UNCHANGED vars
  BY <1>2, <1>4 DEF Call, PutHeld, ClearAborts, PollBusy, Die, StepNothing, Fail, Signal, Wakeup, vars
<1>5. CASE HandleShutdown
  <2>1. /\ UNCHANGED <<promise, pauseState, batches>>
        /\ \A x \in Req : status'[x] = "running" => status[x] = "running"
    BY <1>5 DEF HandleShutdown, Finished, TypeInv
  <2> QED
    BY <1>1, <2>1
<1>6. CASE PollIdle
  <2>1. /\ batches = <<>> /\ UNCHANGED <<batches, pauseState>> /\ Unfinished = {}
        /\ promise' => promise \/ pauseState # "unpaused"
    BY <1>6 DEF PollIdle, HasWork, HasRequests
  <2>2. \A x \in Req : status'[x] = "running" => status[x] = "running"
    BY <1>6 DEF PollIdle, Preempted, TypeInv
  <2>3. pauseState = "paused_new" => Running = {}
    BY <2>1 DEF Unfinished
  <2>4. pauseState' = "paused_new" => Running' = {}
    BY <2>1, <2>2, <2>3 DEF Running
  <2>5. Idle'
    BY <2>1 DEF Idle
  <2> QED
    BY <2>1, <2>4, <2>5 DEF PauseInv
<1>7. ASSUME NEW m \in Messages, Handle(m) PROVE PauseInv'
  <2>1. CASE UNCHANGED <<outputs, sched, life>> \/ RejectCall
    BY <1>2, <2>1 DEF RejectCall
  <2>2. CASE HandleAdd(m.req) \/ HandleAbort(m.req)
    <3>1. /\ UNCHANGED <<promise, pauseState, batches>>
          /\ \A x \in Req : status'[x] = "running" => status[x] = "running"
      BY <2>2 DEF HandleAdd, HandleAbort, Finished, TypeInv
    <3> QED
      BY <1>1, <3>1
  <2>3. CASE HandlePause(m.call)
    <3>1. /\ UNCHANGED batches /\ pauseState' # "unpaused"
          /\ promise' => batches = <<>> /\ (pauseState' = "paused_new" => Running' = {})
      BY <2>3, PauseEffect
    <3> QED
      BY <3>1 DEF PauseInv, Idle
  <2>4. CASE HandleResume(m.call)
    <3>1. /\ UNCHANGED <<status, batches>>
          /\ promise' => promise /\ UNCHANGED pauseState
      BY <2>4 DEF HandleResume
    <3> QED
      BY <3>1 DEF PauseInv, Idle, Running
  <2> QED
    BY <1>7, <2>1, <2>2, <2>3, <2>4 DEF Handle
<1>8. CASE Get
  BY <1>7, <1>8, HeadTail DEF Get, TypeInv
<1>9. CASE DrainInput
  BY <1>2, <1>7, <1>9, HeadTail DEF DrainInput, TypeInv
<1>10. CASE Step
  <2>1. UNCHANGED promise
    BY <1>10 DEF Step
  <2> QED
    BY <1>10, <2>1, StepIdle DEF PauseInv, Running
<1>11. CASE Result
  <2>1. UNCHANGED <<promise, pauseState>>
    BY <1>11 DEF Result
  <2> QED
    BY <1>11, <2>1, ResultIdle DEF PauseInv, Running
<1> QED
  BY <1>3, <1>4, <1>5, <1>6, <1>8, <1>9, <1>10, <1>11 DEF Next, Clients, Engine

\* "A completed pause promises an idle device" (_finish_pause), for every queue
\* depth and mode: until somebody resumes, no batch with tokens is under way,
\* whatever is added, aborted or shut down in the meantime.
THEOREM PausePromiseKept == Spec => []PromiseKept
<1>1. Init => PauseInv
  BY DEF Init, PauseInv
<1>2. TypeInv /\ PauseInv /\ [Next]_vars => (TypeInv /\ PauseInv)'
  BY TypeNext, PauseNext
<1>3. PauseInv => PromiseKept
  BY DEF PauseInv, Idle, PromiseKept
<1> QED
  BY <1>1, <1>2, <1>3, TypeInit, PTL DEF Spec

-----------------------------------------------------------------------------
(***************************************************************************)
(* Sleep                                                                   *)
(***************************************************************************)
\* The calls in the queue, when a message that is none is put or taken.
LEMMA SameCalls ==
    ASSUME TypeInv, SleepInv, UNCHANGED <<replies, ncalls, callbacks, pauseState, asleep>>,
           \/ UNCHANGED inputQ
           \/ \E m \in Messages : m.kind # "call" /\ Put(m)
           \/ /\ inputQ # <<>> /\ Head(inputQ).kind # "call"
              /\ inputQ' = Tail(inputQ)
           \/ inputQ' = inputQ \o holding
    PROVE  Outstanding'
<1>0. PICK n \in Nat : n = Len(inputQ)
  BY DEF TypeInv
<1>1. PICK d \in {0, 1}, N \in Nat :
        /\ Len(inputQ') = N /\ n - d <= N /\ d <= n
        /\ \A i \in 1..(n - d) : inputQ'[i] = inputQ[i+d]
        /\ \A i \in (n-d+1)..N : inputQ'[i].kind # "call"
        /\ d = 1 => inputQ[1].kind # "call"
  <2>1. CASE UNCHANGED inputQ
    <3>1. \A i \in 1..(n - 0) : inputQ'[i] = inputQ[i+0]
      BY <1>0, <2>1
    <3>2. \A i \in (n-0+1)..n : FALSE
      OBVIOUS
    <3> QED
      BY <1>0, <2>1, <3>1, <3>2
  <2>2. CASE \E m \in Messages : m.kind # "call" /\ Put(m)
    <3>1. PICK m \in Messages : m.kind # "call" /\ Put(m)
      BY <2>2
    <3>2. /\ Len(inputQ') = n + 1 /\ inputQ'[n+1] = m
          /\ \A i \in 1..n : inputQ'[i] = inputQ[i]
      BY <1>0, <3>1, Appended DEF Put, TypeInv
    <3>3. /\ \A i \in 1..(n - 0) : inputQ'[i] = inputQ[i+0]
          /\ \A i \in (n-0+1)..(n+1) : inputQ'[i].kind # "call"
      BY <3>1, <3>2
    <3> QED
      BY <3>2, <3>3
  <2>3. CASE inputQ # <<>> /\ Head(inputQ).kind # "call" /\ inputQ' = Tail(inputQ)
    <3>1. /\ n >= 1 /\ Len(inputQ') = n - 1 /\ inputQ[1].kind # "call"
          /\ \A i \in 1..(n-1) : inputQ'[i] = inputQ[i+1]
      BY <1>0, <2>3, HeadTail DEF TypeInv
    <3>2. \A i \in (n-1+1)..(n-1) : FALSE
      OBVIOUS
    <3> QED
      BY <3>1, <3>2
  <2>4. CASE inputQ' = inputQ \o holding
    <3>1. PICK H : H = [kind : {"abort"}, req : Req]
      OBVIOUS
    <3>2. \A h \in H : h.kind = "abort"
      BY <3>1
    <3>3. holding \in Seq(H) /\ inputQ \in Seq(Messages)
      BY <3>1 DEF TypeInv
    <3>4. PICK l \in Nat : l = Len(holding)
      BY <3>3
    <3>5. /\ Len(inputQ') = n + l
          /\ \A i \in 1..n : inputQ'[i] = inputQ[i]
          /\ \A i \in 1..l : inputQ'[n + i] = holding[i] /\ holding[i] \in H
      BY <1>0, <2>4, <3>3, <3>4
    <3>6. ASSUME NEW i \in (n-0+1)..(n+l) PROVE inputQ'[i].kind # "call"
      <4>1. i - n \in 1..l /\ n + (i - n) = i
        OBVIOUS
      <4>2. inputQ'[i] = holding[i - n] /\ holding[i - n] \in H
        BY <3>5, <4>1
      <4> QED
        BY <3>2, <4>2
    <3>7. \A i \in 1..(n - 0) : inputQ'[i] = inputQ[i+0]
      BY <3>5
    <3> QED
      BY <3>5, <3>6, <3>7
  <2> QED
    BY <2>1, <2>2, <2>3, <2>4
<1>2. \A j \in 1..N : j \in 1..(n - d) \/ j \in (n-d+1)..N
  OBVIOUS
<1>3. NoCall => NoCall'
  <2> SUFFICES ASSUME NoCall, NEW j \in 1..N PROVE inputQ'[j].kind # "call"
    BY <1>1 DEF NoCall
  <2>1. CASE j \in 1..(n - d)
    <3>1. j + d \in 1..n
      BY <2>1
    <3> QED
      BY <1>0, <1>1, <2>1, <3>1 DEF NoCall
  <2> QED
    BY <1>1, <1>2, <2>1
<1>4. ASSUME NEW i \in 1..Len(inputQ), OneCall(i) PROVE \E l \in 1..Len(inputQ') : OneCall(l)'
  <2>1. PICK l : l = i - d
    OBVIOUS
  <2>2. i # d \/ d = 0
    BY <1>1, <1>4 DEF OneCall
  <2>3. l \in 1..(n - d) /\ l \in 1..N /\ l + d = i
    BY <1>0, <1>1, <2>1, <2>2
  <2>4. inputQ'[l] = inputQ[i]
    BY <1>1, <2>3
  <2>5. ASSUME NEW j \in 1..N, inputQ'[j].kind = "call" PROVE l = j
    <3>1. j \in 1..(n - d) /\ j + d \in 1..n
      BY <1>1, <1>2, <2>5
    <3>2. i = j + d
      BY <1>0, <1>1, <1>4, <2>5, <3>1 DEF OneCall
    <3> QED
      BY <2>1, <2>3, <3>1, <3>2
  <2> QED
    BY <1>1, <1>4, <2>3, <2>4, <2>5 DEF OneCall
<1>5. CASE replies = ncalls /\ NoCall /\ callbacks = <<>>
  BY <1>3, <1>5 DEF Outstanding
<1>6. CASE replies + 1 = ncalls /\ callbacks = <<>> /\ \E i \in 1..Len(inputQ) : OneCall(i)
  BY <1>4, <1>6 DEF Outstanding
<1>7. CASE replies + 1 = ncalls /\ NoCall /\ Len(callbacks) = 1 /\ pauseState # "unpaused"
  BY <1>3, <1>7 DEF Outstanding
<1> QED
  BY <1>5, <1>6, <1>7 DEF SleepInv, Outstanding

\* A step that leaves calls, pauses and batches alone.
LEMMA SameSleep ==
    ASSUME TypeInv, SleepInv, UNCHANGED <<replies, ncalls, callbacks, pauseState, asleep, batches>>,
           \A r \in Req : status'[r] = "running" => status[r] = "running",
           \/ UNCHANGED inputQ
           \/ \E m \in Messages : m.kind # "call" /\ Put(m)
           \/ /\ inputQ # <<>> /\ Head(inputQ).kind # "call"
              /\ inputQ' = Tail(inputQ)
           \/ inputQ' = inputQ \o holding
    PROVE  SleepInv'
<1>1. Outstanding'
  BY SameCalls
<1> QED
  BY <1>1 DEF SleepInv, Idle, Running

\* The only call on its way is taken.
LEMMA CallTaken ==
    ASSUME TypeInv, SleepInv, inputQ # <<>>, Head(inputQ).kind = "call",
           inputQ' = Tail(inputQ)
    PROVE  /\ replies + 1 = ncalls /\ callbacks = <<>> /\ NoCall'
           /\ Head(inputQ).call.op = "resume" => asleep = {}
<1>1. PICK n \in Nat : /\ n = Len(inputQ) /\ n >= 1 /\ Head(inputQ) = inputQ[1]
                       /\ Len(inputQ') = n - 1
                       /\ \A i \in 1..(n-1) : inputQ'[i] = inputQ[i+1]
  BY HeadTail DEF TypeInv
<1>2. ~NoCall
  BY <1>1 DEF NoCall
<1>3. PICK i \in 1..n : OneCall(i) /\ replies + 1 = ncalls /\ callbacks = <<>>
  BY <1>1, <1>2 DEF SleepInv, Outstanding
<1>4. i = 1
  BY <1>1, <1>3 DEF OneCall
<1>5. ASSUME NEW j \in 1..(n-1) PROVE inputQ'[j].kind # "call"
  <2>1. j + 1 \in 1..n /\ j + 1 # 1
    OBVIOUS
  <2> QED
    BY <1>1, <1>3, <1>4, <2>1 DEF OneCall
<1> QED
  BY <1>1, <1>3, <1>4, <1>5 DEF OneCall, NoCall

LEMMA SleepHandle ==
    ASSUME TypeInv, SleepInv, inputQ # <<>>, Handle(Head(inputQ)), inputQ' = Tail(inputQ),
           UNCHANGED ncalls
    PROVE  SleepInv'
<1> DEFINE m == Head(inputQ)
<1>0. m \in Messages
  BY HeadTail DEF TypeInv
<1>1. CASE m.kind # "call"
  <2>1. UNCHANGED <<replies, callbacks, pauseState, asleep, batches>>
    BY <1>1 DEF Handle, HandleAdd, HandleAbort, outputs, sched, life
  <2>2. \A r \in Req : status'[r] = "running" => status[r] = "running"
    BY <1>0, <1>1 DEF Handle, HandleAdd, HandleAbort, Finished, sched, TypeInv, Messages
  <2> QED
    BY <1>1, <2>1, <2>2, SameSleep
<1>2. CASE m.kind = "call"
  <2>0. PICK c \in Calls : c = m.call
    BY <1>0, <1>2 DEF Messages
  <2>1. /\ replies + 1 = ncalls /\ callbacks = <<>> /\ NoCall'
        /\ c.op = "resume" => asleep = {}
    BY <1>2, <2>0, CallTaken
  <2>2. CASE HandlePause(c) /\ c.op \in {"pause", "sleep"}
    <3>1. /\ UNCHANGED <<batches, shutdown>> /\ pauseState' # "unpaused"
          /\ \A r \in Req : status'[r] = "running" => status[r] = "running"
          /\ \/ /\ promise' /\ batches = <<>> /\ replies' = replies + 1
                /\ UNCHANGED callbacks /\ asleep' = Sleeps({c})
                /\ pauseState' = "paused_new" => Running' = {}
                /\ c.clear => Running' = {}
             \/ /\ ~promise' /\ UNCHANGED <<replies, asleep>>
                /\ callbacks' = Append(callbacks, c)
      BY <2>2, PauseEffect
    <3>2. CASE /\ batches = <<>> /\ replies' = replies + 1
               /\ UNCHANGED callbacks /\ asleep' = Sleeps({c})
               /\ c.clear => Running' = {}
      <4>1. Outstanding'
        BY <2>1, <3>2 DEF Outstanding
      <4>2. Idle'
        BY <3>1, <3>2 DEF Idle
      <4>3. asleep' # {} => Running' = {}
        <5>1. CASE c.op = "sleep"
          BY <3>2, <5>1, LifeAssumption
        <5>2. CASE c.op # "sleep"
          <6>1. asleep' = asleep
            BY <3>2, <5>2 DEF Sleeps
          <6> QED
            BY <3>1, <6>1 DEF SleepInv, Running
        <5> QED
          BY <5>1, <5>2
      <4> QED
        BY <3>1, <4>1, <4>2, <4>3 DEF SleepInv
    <3>3. CASE UNCHANGED <<replies, asleep>> /\ callbacks' = Append(callbacks, c)
      <4>1. Len(callbacks') = 1
        BY <2>1, <3>3
      <4>2. Outstanding'
        BY <2>1, <3>1, <3>3, <4>1 DEF Outstanding
      <4> QED
        BY <3>1, <3>3, <4>2 DEF SleepInv, Idle, Running
    <3> QED
      BY <3>1, <3>2, <3>3
  <2>3. CASE HandleResume(c) /\ c.op \notin {"pause", "sleep"}
    <3>1. /\ replies' = replies + 1 /\ UNCHANGED <<status, batches, callbacks>>
          /\ asleep' \subseteq asleep
      BY <2>3 DEF HandleResume, SendReplies
    <3>2. Outstanding'
      BY <2>1, <3>1 DEF Outstanding
    <3>3. pauseState' = "unpaused" /\ asleep' # {} => pauseState = "unpaused" /\ asleep # {}
      <4>1. CASE c.op = "wake"
        <5>1. Resumes(c) => asleep' = {}
          BY <2>3, <4>1 DEF HandleResume, Resumes
        <5>2. ~Resumes(c) => UNCHANGED pauseState
          BY <2>3 DEF HandleResume
        <5> QED
          BY <3>1, <5>1, <5>2
      <4>2. CASE c.op # "wake"
        <5>1. c.op = "resume"
          <6>1. c.op \in {"pause", "sleep", "wake", "resume"}
            BY LifeAssumption
          <6> QED
            BY <2>3, <4>2, <6>1
        <5> QED
          BY <2>1, <3>1, <5>1
      <4> QED
        BY <4>1, <4>2
    <3> QED
      BY <3>1, <3>2, <3>3 DEF SleepInv, Idle, Running
  <2>4. CASE RejectCall
    <3>1. replies' = replies + 1 /\ UNCHANGED <<status, batches, callbacks, pauseState, asleep>>
      BY <2>4 DEF RejectCall, SendReplies, sched, life
    <3>2. Outstanding'
      BY <2>1, <3>1 DEF Outstanding
    <3> QED
      BY <3>1, <3>2 DEF SleepInv, Idle, Running
  <2> QED
    BY <1>2, <2>0, <2>2, <2>3, <2>4 DEF Handle
<1> QED
  BY <1>1, <1>2

LEMMA SleepNext == ASSUME ClientWaits, TypeInv, SleepInv, [Next]_vars PROVE SleepInv'
<1> USE DEF threads, outputs, sched, life, client
<1>1. ASSUME UNCHANGED <<replies, ncalls, callbacks, pauseState, asleep, batches, status>>,
             UNCHANGED inputQ \/ inputQ' = inputQ \o holding
      PROVE  SleepInv'
  BY <1>1, SameSleep
<1>2. ASSUME NEW m \in Messages, m.kind # "call", Put(m),
             UNCHANGED <<replies, ncalls, callbacks, pauseState, asleep, batches>>,
             \A r \in Req : status'[r] = "running" => status[r] = "running"
      PROVE  SleepInv'
  BY <1>2, SameSleep
<1>3. ASSUME NEW r \in Req, Add(r) PROVE SleepInv'
  <2>1. PICK m : m = [kind |-> "add", req |-> r]
    OBVIOUS
  <2>2. m \in Messages /\ m.kind # "call"
    BY <2>1 DEF Messages
  <2>3. \A x \in Req : status'[x] = "running" => status[x] = "running"
    BY <1>3 DEF Add, TypeInv
  <2> QED
    BY <1>2, <1>3, <2>1, <2>2, <2>3 DEF Add
<1>4. ASSUME NEW r \in Req, AddBad(r) \/ Abort(r) PROVE SleepInv'
  <2>1. \A x \in Req : status'[x] = "running" => status[x] = "running"
    BY <1>4 DEF AddBad, Abort, TypeInv
  <2> QED
    BY <1>4, <2>1, SameSleep DEF AddBad, Abort
<1>5. ASSUME NEW c \in Calls, Call(c) PROVE SleepInv'
  <2>1. PICK m : m = [kind |-> "call", call |-> c]
    OBVIOUS
  <2>2. m \in Messages /\ m.kind = "call" /\ m.call = c
    BY <2>1 DEF Messages
  <2>3. PICK n \in Nat : n = Len(inputQ)
    BY DEF TypeInv
  <2>4. /\ Len(inputQ') = n + 1 /\ inputQ'[n+1] = m
        /\ \A i \in 1..n : inputQ'[i] = inputQ[i]
    BY <1>5, <2>1, <2>2, <2>3, Appended DEF Call, Put, TypeInv
  <2>5. /\ replies = ncalls /\ ncalls' = ncalls + 1 /\ (c.op = "resume" => asleep = {})
        /\ UNCHANGED <<replies, callbacks, pauseState, asleep, batches, status>>
    BY <1>5 DEF Call
  <2>6. NoCall /\ callbacks = <<>>
    BY <2>5 DEF SleepInv, Outstanding, TypeInv
  <2>7. \A j \in 1..(n+1) : inputQ'[j].kind = "call" => j = n + 1
    <3>1. \A j \in 1..(n+1) : j \in 1..n \/ j = n + 1
      OBVIOUS
    <3> QED
      BY <2>3, <2>4, <2>6, <3>1 DEF NoCall
  <2>8. OneCall(n+1)'
    BY <2>2, <2>4, <2>5, <2>7 DEF OneCall
  <2>9. Outstanding'
    BY <2>4, <2>5, <2>6, <2>8 DEF Outstanding, TypeInv
  <2> QED
    BY <2>5, <2>9 DEF SleepInv, Idle, Running
<1>6. CASE Fail
  <2>1. PICK m : m = [kind |-> "failed"]
    OBVIOUS
  <2>2. m \in Messages /\ m.kind # "call"
    BY <2>1 DEF Messages
  <2> QED
    BY <1>2, <1>6, <2>1, <2>2 DEF Fail
<1>7. CASE Wakeup
  <2>1. PICK m : m = [kind |-> "wakeup"]
    OBVIOUS
  <2>2. m \in Messages /\ m.kind # "call"
    BY <2>1 DEF Messages
  <2> QED
    BY <1>2, <1>7, <2>1, <2>2 DEF Wakeup
<1>8. CASE \/ PutHeld \/ ClearAborts \/ PollBusy \/ Die \/ StepNothing \/ Signal \/ UNCHANGED vars
  BY <1>1, <1>8 DEF PutHeld, ClearAborts, PollBusy, Die, StepNothing, Signal, vars
<1>9. CASE HandleShutdown
  <2>1. \A x \in Req : status'[x] = "running" => status[x] = "running"
    BY <1>9 DEF HandleShutdown, Finished, TypeInv
  <2> QED
    BY <1>9, <2>1, SameSleep DEF HandleShutdown
<1>10. CASE PollIdle
  <2>1. /\ batches = <<>> /\ UNCHANGED <<batches, pauseState, inputQ, ncalls>>
        /\ callbacks' = <<>> /\ replies' = replies + Len(callbacks)
    BY <1>10 DEF PollIdle, SendReplies, HasWork
  <2>2. \A x \in Req : status'[x] = "running" => status[x] = "running"
    BY <1>10 DEF PollIdle, Preempted, TypeInv
  <2>3. PICK cs : cs = {callbacks[i] : i \in 1..Len(callbacks)}
    OBVIOUS
  <2>4. /\ status' = IF \E c \in cs : c.clear THEN Preempted(status) ELSE status
        /\ asleep' = Sleeps(cs)
    BY <1>10, <2>3 DEF PollIdle
  <2>5. \A c \in cs : c \in Calls
    BY <2>3 DEF TypeInv
  <2>6. Idle'
    BY <2>1 DEF Idle
  <2>7. CASE callbacks = <<>>
    <3>1. cs = {} /\ Len(callbacks) = 0
      BY <2>3, <2>7
    <3>2. UNCHANGED <<asleep, callbacks, replies>>
      BY <2>1, <2>4, <2>7, <3>1 DEF Sleeps, TypeInv
    <3> QED
      BY <2>1, <2>2, <3>2, SameSleep
  <2>8. CASE callbacks # <<>>
    <3>1. NoCall /\ Len(callbacks) = 1 /\ pauseState # "unpaused" /\ replies + 1 = ncalls
      BY <2>8 DEF SleepInv, Outstanding
    <3>2. Outstanding'
      BY <2>1, <3>1 DEF Outstanding, NoCall
    <3>3. asleep' # {} => Running' = {}
      <4>1. CASE \E c \in cs : c.op = "sleep"
        <5>1. status' = Preempted(status)
          BY <2>4, <2>5, <4>1, LifeAssumption
        <5> QED
          BY <5>1 DEF Preempted, Running
      <4>2. CASE ~\E c \in cs : c.op = "sleep"
        BY <2>2, <2>4, <4>2 DEF Sleeps, SleepInv, Running
      <4> QED
        BY <4>1, <4>2
    <3> QED
      BY <2>1, <2>6, <3>1, <3>2, <3>3 DEF SleepInv
  <2> QED
    BY <2>7, <2>8
<1>11. CASE Get
  BY <1>11, SleepHandle DEF Get
<1>12. CASE DrainInput
  BY <1>1, <1>12, SleepHandle DEF DrainInput
<1>13. CASE Step
  <2>1. UNCHANGED <<inputQ, replies, ncalls, callbacks, asleep, pauseState>>
    BY <1>13 DEF Step
  <2>2. Outstanding'
    BY <2>1, SameCalls
  <2> QED
    BY <1>13, <2>1, <2>2, StepIdle DEF SleepInv, Running
<1>14. CASE Result
  <2>1. UNCHANGED <<inputQ, replies, ncalls, callbacks, asleep, pauseState>>
    BY <1>14 DEF Result
  <2>2. Outstanding'
    BY <2>1, SameCalls
  <2> QED
    BY <1>14, <2>1, <2>2, ResultIdle DEF SleepInv, Running
<1> QED
  BY <1>3, <1>4, <1>5, <1>6, <1>7, <1>8, <1>9, <1>10, <1>11, <1>12, <1>13, <1>14
     DEF Next, Clients, Engine

\* The model does not run on memory that is offloaded, if clients wait for the
\* answer to a call before they make the next and do not resume what they put to
\* sleep: a sleep that is put off until the engine is idle, requests that arrive
\* meanwhile and partial wake-ups included.
THEOREM NeverRunsAsleep ==
    ASSUME ClientWaits
    PROVE  Spec => []NoStepAsleep
<1>1. Init => SleepInv
  <2> SUFFICES ASSUME Init PROVE SleepInv
    OBVIOUS
  <2>1. Len(inputQ) = 0 /\ callbacks = <<>> /\ replies = ncalls /\ asleep = {}
    BY DEF Init
  <2> QED
    BY <2>1 DEF SleepInv, Outstanding, NoCall
<1>2. TypeInv /\ SleepInv /\ [Next]_vars => (TypeInv /\ SleepInv)'
  BY TypeNext, SleepNext
<1>3. SleepInv => NoStepAsleep
  BY DEF SleepInv, Idle, NoStepAsleep, InFlight
<1> QED
  BY <1>1, <1>2, <1>3, TypeInit, PTL DEF Spec
=============================================================================
