---------------------------- MODULE DPWaveProofs ----------------------------
(***************************************************************************)
(* Theorems about the waves of data-parallel engines: engines that wait    *)
(* for each other are in the same collective operation, a pause is agreed  *)
(* on by all and holds until it is ended, and nobody is left alone in a    *)
(* forward pass as long as nobody pauses.                                  *)
(***************************************************************************)
EXTENDS DPWave, TLAPS

Messages ==
    [kind : {"add"}, req : Req, wave : Nat] \cup [kind : {"pause"}, mode : Modes]
        \cup [kind : {"resume"}]

Notes ==
    [kind : {"first"}, engine : Engine, wave : Nat]
        \cup [kind : {"start_wave", "wave_complete"}, wave : Nat]

EngineTypes ==
    /\ running \in [Engine -> BOOLEAN] /\ pending \in [Engine -> BOOLEAN]
    /\ ignore \in [Engine -> BOOLEAN] /\ wave \in [Engine -> Nat] /\ step \in [Engine -> Nat]
    /\ pauseState \in [Engine -> {"unpaused", "paused_new", "paused_all"}]
    /\ pc \in [Engine -> {"top", "forward", "after", "sync", "resume"}]

MessageTypes ==
    /\ inbox \in [Engine -> Seq(Messages)] /\ notes \in [Sender -> Seq(Notes)]
    /\ starts \in [Engine -> Seq([wave : Nat, but : Sender])]
    /\ cwave \in Nat /\ view.wave \in Nat

TypeInv ==
    /\ EngineTypes /\ MessageTypes
    /\ status \in [Req -> {"new", "sent", "waiting", "running", "done"}]
    /\ paused \subseteq Engine /\ asked \in {"run", "pause"}
-----------------------------------------------------------------------------
(***************************************************************************)
(* Steps                                                                   *)
(***************************************************************************)
\* The engines' step counters agree, up to engines that have still to count the
\* forward pass they all made; on the step that ends in an all-reduce, all of them
\* are about to enter it or in it.
InStep(t) ==
    /\ \A e \in Engine : (IF pc[e] = "after" THEN NextStep(e) ELSE step[e]) = t
    /\ \A e \in Engine : pc[e] = "sync" => t = 0
    /\ \A e \in Engine : pc[e] = "sync" \/ (pc[e] = "after" /\ t = 0)
          => \A f \in Engine : pc[f] \in {"after", "sync"}

StepInv == \E t \in Nat : InStep(t)
-----------------------------------------------------------------------------
(***************************************************************************)
(* The phases of a pause                                                   *)
(***************************************************************************)
Holds(e, k) == \E i \in 1..Len(inbox[e]) : inbox[e][i].kind = k

\* There is at most one pause and one resume on its way, in this order.
Ordered(e) ==
    \A i, j \in 1..Len(inbox[e]) :
        /\ inbox[e][i].kind = inbox[e][j].kind /\ inbox[e][i].kind # "add" => i = j
        /\ inbox[e][i].kind = "resume" /\ inbox[e][j].kind = "pause" => i < j

\* The pause that clients asked for is still on its way.
Coming(e) == Holds(e, "pause") <=> asked = "pause"

\* Engines run, or have taken a pause that the others have not.
Normal(e) == pauseState[e] = "unpaused" /\ ~pending[e] /\ Coming(e)

Pausing(e) ==
    /\ asked = "pause" /\ ~Holds(e, "pause")
    /\ pauseState[e] # "unpaused" /\ pending[e] /\ running[e]

Open ==
    \A e \in Engine : /\ ~Holds(e, "resume") /\ pc[e] # "resume" /\ ~ignore[e]
                      /\ Normal(e) \/ Pausing(e)

\* All have agreed to pause; they go on together until nobody has requests.
Still(e) == pc[e] = "top" /\ ~running[e] /\ Unfinished(e) = {}

Agrees(e) ==
    /\ ~Holds(e, "pause") /\ ~Holds(e, "resume") /\ pc[e] # "resume"
    /\ pauseState[e] # "unpaused" /\ ~pending[e] /\ ignore[e]

Quiet == \A e \in Engine : Still(e)

Agreed ==
    /\ asked = "pause" /\ \A e \in Engine : Agrees(e)
    /\ (\A e \in Engine : running[e]) \/ Quiet

\* All are to resume: they have yet to take the call, or wait for the others in it.
Held(e) ==
    /\ Holds(e, "resume") /\ Still(e)
    /\ pauseState[e] # "unpaused" /\ ~pending[e] /\ ignore[e]

Back(e) ==
    /\ ~Holds(e, "resume") /\ pc[e] = "resume"
    /\ pauseState[e] = "unpaused" /\ ~pending[e] /\ ~ignore[e] /\ ~running[e]

Resuming == \A e \in Engine : Coming(e) /\ (Held(e) \/ Back(e))

PauseInv ==
    /\ \A e \in Engine : Ordered(e)
    /\ Open \/ Agreed \/ Resuming
    /\ paused # {} => Agreed /\ Quiet

-----------------------------------------------------------------------------
(***************************************************************************)
(* Types                                                                   *)
(***************************************************************************)
LEMMA Engines ==
    /\ 0 \in Engine /\ N \notin Engine /\ N \in Sender
    /\ \A e \in Engine : e \in Sender
    /\ SyncEvery \in Nat \ {0} /\ (\A a \in Nat : a % SyncEvery \in Nat)
<1>1. N \in Nat \ {0, 1} /\ SyncEvery \in Nat \ {0}
  BY WaveAssumption
<1>2. \A a \in Nat : a % SyncEvery \in Nat
  BY <1>1
<1> QED
  BY <1>1, <1>2 DEF Engine, Sender

LEMMA HeadTail ==
    ASSUME NEW S, NEW q \in Seq(S), q # <<>>
    PROVE  /\ Len(q) \in Nat \ {0} /\ Head(q) \in S /\ Head(q) = q[1]
           /\ Tail(q) \in Seq(S) /\ Len(Tail(q)) = Len(q) - 1
           /\ \A i \in 1..Len(Tail(q)) : Tail(q)[i] = q[i+1]
OBVIOUS

LEMMA Appended ==
    ASSUME NEW S, NEW q \in Seq(S), NEW x \in S
    PROVE  /\ Len(q) \in Nat /\ Append(q, x) \in Seq(S) /\ Len(Append(q, x)) = Len(q) + 1
           /\ \A i \in 1..Len(q) : Append(q, x)[i] = q[i]
           /\ Append(q, x)[Len(q) + 1] = x
OBVIOUS

\* What becomes of a family of queues.
LEMMA QueueTail ==
    ASSUME NEW D, NEW S, NEW Q \in [D -> Seq(S)], NEW d \in D, Q[d] # <<>>
    PROVE  [Q EXCEPT ![d] = Tail(@)] \in [D -> Seq(S)]
<1>1. Tail(Q[d]) \in Seq(S)
  BY HeadTail
<1> QED
  BY <1>1

LEMMA QueueAppend ==
    ASSUME NEW D, NEW S, NEW Q \in [D -> Seq(S)], NEW d \in D, NEW x \in S
    PROVE  [Q EXCEPT ![d] = Append(@, x)] \in [D -> Seq(S)]
<1>1. Append(Q[d], x) \in Seq(S)
  BY Appended
<1> QED
  BY <1>1

LEMMA TypeInit == Init => TypeInv
<1> SUFFICES ASSUME Init PROVE TypeInv
  OBVIOUS
<1>1. EngineTypes
  BY DEF Init, EngineTypes
<1>2. /\ inbox \in [Engine -> Seq(Messages)] /\ notes \in [Sender -> Seq(Notes)]
      /\ starts \in [Engine -> Seq([wave : Nat, but : Sender])]
  <2>1. \A S : <<>> \in Seq(S)
    OBVIOUS
  <2> QED
    BY <2>1 DEF Init
<1>3. MessageTypes
  BY <1>2 DEF Init, MessageTypes
<1> QED
  BY <1>1, <1>3 DEF Init, TypeInv

\* A note keeps its sender's queue typed.
LEMMA NoteTypes ==
    ASSUME TypeInv, NEW s \in Sender, NEW m \in Notes, Note(s, m)
    PROVE  notes' \in [Sender -> Seq(Notes)]
BY QueueAppend DEF Note, TypeInv, MessageTypes

LEMMA CoordinateTypes ==
    ASSUME TypeInv, NEW s \in Sender, Coordinate(s)
    PROVE  /\ notes' \in [Sender -> Seq(Notes)] /\ cwave' \in Nat
           /\ starts' \in [Engine -> Seq([wave : Nat, but : Sender])]
<1>0. PICK m : m = Head(notes[s])
  OBVIOUS
<1>1. notes[s] # <<>> /\ notes' = [notes EXCEPT ![s] = Tail(@)]
  BY DEF Coordinate
<1>2. m \in Notes
  BY <1>0, <1>1, HeadTail DEF TypeInv, MessageTypes
<1>3. notes' \in [Sender -> Seq(Notes)]
  BY <1>1, QueueTail DEF TypeInv, MessageTypes
<1>4. ASSUME NEW w \in Nat, NEW b \in Sender, Broadcast(w, b)
      PROVE  starts' \in [Engine -> Seq([wave : Nat, but : Sender])]
  <2>1. PICK S : S = [wave : Nat, but : Sender]
    OBVIOUS
  <2>2. [wave |-> w, but |-> b] \in S
    BY <2>1
  <2>3. \A e \in Engine : Append(starts[e], [wave |-> w, but |-> b]) \in Seq(S)
    BY <2>1, <2>2, Appended DEF TypeInv, MessageTypes
  <2> QED
    BY <1>4, <2>1, <2>3 DEF Broadcast
<1>5. cwave \in Nat /\ starts \in [Engine -> Seq([wave : Nat, but : Sender])]
  BY DEF TypeInv, MessageTypes
<1>6. CASE /\ m.kind = "first"
           /\ IF crunning THEN UNCHANGED starts
              ELSE Broadcast(cwave, IF m.wave < cwave THEN N ELSE m.engine)
           /\ UNCHANGED <<cwave, crunning>>
  <2>1. m.engine \in Engine
    BY <1>2, <1>6 DEF Notes
  <2>2. PICK b \in Sender : b = IF m.wave < cwave THEN N ELSE m.engine
    BY <2>1, Engines
  <2> QED
    BY <1>3, <1>4, <1>5, <1>6, <2>2
<1>7. CASE /\ m.kind = "start_wave"
           /\ IF m.wave > cwave \/ (m.wave = cwave /\ ~crunning)
              THEN cwave' = m.wave /\ crunning' = TRUE /\ Broadcast(m.wave, s)
              ELSE UNCHANGED <<cwave, crunning, starts>>
  <2>1. m.wave \in Nat
    BY <1>2, <1>7 DEF Notes
  <2> QED
    BY <1>3, <1>4, <1>5, <1>7, <2>1
<1>8. CASE /\ m.kind = "wave_complete"
           /\ IF cwave <= m.wave
              THEN cwave' = m.wave + 1 /\ crunning' = FALSE
              ELSE UNCHANGED <<cwave, crunning>>
           /\ UNCHANGED starts
  <2>1. m.wave \in Nat
    BY <1>2, <1>8 DEF Notes
  <2>2. cwave' \in Nat
    BY <1>5, <1>8, <2>1
  <2> QED
    BY <1>3, <1>5, <1>8, <2>2
<1> QED
  BY <1>0, <1>6, <1>7, <1>8 DEF Coordinate

LEMMA TypeNext == ASSUME TypeInv, [Next]_vars PROVE TypeInv'
<1> USE DEF engines, reqs, coord, client
<1>0. /\ \A e \in Engine : inbox[e] \in Seq(Messages) /\ wave[e] \in Nat
      /\ inbox \in [Engine -> Seq(Messages)]
  BY DEF TypeInv, EngineTypes, MessageTypes
<1>1. ASSUME NEW r \in Req, NEW e \in Engine, Send(r, e) PROVE TypeInv'
  <2>1. PICK m : m = [kind |-> "add", req |-> r, wave |-> view.wave]
    OBVIOUS
  <2>2. m \in Messages
    BY <2>1 DEF Messages, TypeInv, MessageTypes
  <2>3. inbox' \in [Engine -> Seq(Messages)]
    BY <1>0, <1>1, <2>1, <2>2, QueueAppend DEF Send
  <2>4. PICK n : n = [kind |-> "first", engine |-> e, wave |-> view.wave]
    OBVIOUS
  <2>5. n \in Notes
    BY <2>4 DEF Notes, TypeInv, MessageTypes
  <2>6. notes' \in [Sender -> Seq(Notes)]
    BY <1>1, <2>4, <2>5, NoteTypes, Engines DEF Send, TypeInv, MessageTypes
  <2> QED
    BY <1>1, <2>3, <2>6 DEF Send, TypeInv, EngineTypes, MessageTypes
<1>2. ASSUME NEW m \in Messages, ToAll(m) PROVE inbox' \in [Engine -> Seq(Messages)]
  <2>1. \A e \in Engine : Append(inbox[e], m) \in Seq(Messages)
    BY <1>0, Appended
  <2> QED
    BY <1>2, <2>1 DEF ToAll
<1>3. ASSUME NEW mode \in Modes, Pause(mode) PROVE TypeInv'
  <2>1. [kind |-> "pause", mode |-> mode] \in Messages
    BY DEF Messages
  <2> QED
    BY <1>2, <1>3, <2>1 DEF Pause, TypeInv, EngineTypes, MessageTypes
<1>4. CASE Resume
  <2>1. [kind |-> "resume"] \in Messages
    BY DEF Messages
  <2> QED
    BY <1>2, <1>4, <2>1 DEF Resume, TypeInv, EngineTypes, MessageTypes
<1>5. CASE Refresh
  <2>1. view'.wave = cwave
    BY <1>5 DEF Refresh
  <2> QED
    BY <1>5, <2>1 DEF Refresh, TypeInv, EngineTypes, MessageTypes
<1>6. ASSUME NEW s \in Sender, Coordinate(s) PROVE TypeInv'
  <2>1. UNCHANGED <<engines, reqs, inbox, client, paused>>
    BY <1>6 DEF Coordinate
  <2> QED
    BY <1>6, <2>1, CoordinateTypes DEF TypeInv, EngineTypes, MessageTypes
<1>7. ASSUME NEW e \in Engine, inbox[e] # <<>>, inbox' = [inbox EXCEPT ![e] = Tail(@)]
      PROVE  inbox' \in [Engine -> Seq(Messages)]
  BY <1>0, <1>7, QueueTail
<1>8. ASSUME NEW e \in Engine, TakeAdd(e) PROVE TypeInv'
  <2>1. PICK m : m = Head(inbox[e])
    OBVIOUS
  <2>2. m \in Messages /\ m.kind = "add"
    BY <1>0, <1>8, <2>1, HeadTail DEF TakeAdd
  <2>3. m.wave \in Nat
    BY <2>2 DEF Messages
  <2>4. AddRequest(e, m) /\ status' = [status EXCEPT ![m.req] = "waiting"]
    BY <1>8, <2>1 DEF TakeAdd
  <2>5. wave' \in [Engine -> Nat]
    BY <2>3, <2>4 DEF AddRequest, TypeInv, EngineTypes
  <2>6. running' \in [Engine -> BOOLEAN]
    <3>1. PICK l \in BOOLEAN : l <=> m.wave < wave[e] /\ ~running[e] /\ pauseState[e] = "unpaused"
      OBVIOUS
    <3>2. running' = [running EXCEPT ![e] = running[e] \/ l]
      BY <2>4, <3>1 DEF AddRequest
    <3> QED
      BY <3>2 DEF TypeInv, EngineTypes
  <2>7. notes' \in [Sender -> Seq(Notes)]
    <3>1. PICK n : n = [kind |-> "start_wave", wave |-> wave[e]]
      OBVIOUS
    <3>2. n \in Notes
      BY <1>0, <3>1 DEF Notes
    <3>3. UNCHANGED notes \/ Note(e, n)
      BY <2>4, <3>1 DEF AddRequest
    <3> QED
      BY <3>2, <3>3, NoteTypes, Engines DEF TypeInv, MessageTypes
  <2>8. inbox' \in [Engine -> Seq(Messages)]
    BY <1>7, <1>8 DEF TakeAdd
  <2>9. status' \in [Req -> {"new", "sent", "waiting", "running", "done"}]
    BY <2>4 DEF TypeInv
  <2> QED
    BY <1>8, <2>5, <2>6, <2>7, <2>8, <2>9 DEF TakeAdd, TypeInv, EngineTypes, MessageTypes
<1>9. ASSUME NEW e \in Engine, TakePause(e) PROVE TypeInv'
  <2>1. inbox' \in [Engine -> Seq(Messages)]
    BY <1>7, <1>9 DEF TakePause
  <2>2. /\ pending' \in [Engine -> BOOLEAN] /\ running' \in [Engine -> BOOLEAN]
        /\ pauseState' \in [Engine -> {"unpaused", "paused_new", "paused_all"}]
    BY <1>9 DEF TakePause, PauseComplete, TypeInv, EngineTypes
  <2> QED
    BY <1>9, <2>1, <2>2 DEF TakePause, TypeInv, EngineTypes, MessageTypes
<1>10. ASSUME NEW e \in Engine, TakeResume(e) PROVE TypeInv'
  <2>1. inbox' \in [Engine -> Seq(Messages)]
    BY <1>7, <1>10 DEF TakeResume
  <2>2. /\ ignore' \in [Engine -> BOOLEAN]
        /\ pauseState' \in [Engine -> {"unpaused", "paused_new", "paused_all"}]
        /\ pc' \in [Engine -> {"top", "forward", "after", "sync", "resume"}]
    BY <1>10 DEF TakeResume, TypeInv, EngineTypes
  <2> QED
    BY <1>10, <2>1, <2>2 DEF TakeResume, TypeInv, EngineTypes, MessageTypes
<1>11. ASSUME NEW e \in Engine, TakeStart(e) PROVE TypeInv'
  <2>1. PICK S : S = [wave : Nat, but : Sender]
    OBVIOUS
  <2>2. starts \in [Engine -> Seq(S)] /\ starts[e] # <<>>
    BY <1>11, <2>1 DEF TakeStart, TypeInv, MessageTypes
  <2>3. starts' \in [Engine -> Seq(S)]
    BY <1>11, <2>2, QueueTail DEF TakeStart
  <2>4. Head(starts[e]) \in S
    BY <2>2, HeadTail
  <2>5. Head(starts[e]).wave \in Nat
    BY <2>1, <2>4
  <2>6. wave' \in [Engine -> Nat] /\ running' \in [Engine -> BOOLEAN]
    BY <1>11, <2>5 DEF TakeStart, TypeInv, EngineTypes
  <2> QED
    BY <1>11, <2>1, <2>3, <2>6 DEF TakeStart, TypeInv, EngineTypes, MessageTypes
<1>12. ASSUME NEW e \in Engine, PauseDone(e) PROVE TypeInv'
  BY <1>12 DEF PauseDone, TypeInv, EngineTypes, MessageTypes
<1>13. ASSUME NEW e \in Engine, Go(e) PROVE TypeInv'
  BY <1>13 DEF Go, TypeInv, EngineTypes, MessageTypes
<1>14. ASSUME NEW e \in Engine, After(e) PROVE TypeInv'
  <2>1. step' \in [Engine -> Nat]
    <3>1. NextStep(e) \in Nat
      BY Engines DEF NextStep, TypeInv, EngineTypes
    <3> QED
      BY <1>14, <3>1 DEF After, TypeInv, EngineTypes
  <2>2. /\ pc' \in [Engine -> {"top", "forward", "after", "sync", "resume"}]
        /\ running' \in [Engine -> BOOLEAN]
    BY <1>14 DEF After, TypeInv, EngineTypes
  <2>3. notes' \in [Sender -> Seq(Notes)]
    <3>1. PICK n : n = [kind |-> "start_wave", wave |-> wave[e]]
      OBVIOUS
    <3>2. n \in Notes
      BY <1>0, <3>1 DEF Notes
    <3>3. UNCHANGED notes \/ Note(e, n)
      BY <1>14, <3>1 DEF After
    <3> QED
      BY <3>2, <3>3, NoteTypes, Engines DEF TypeInv, MessageTypes
  <2> QED
    BY <1>14, <2>1, <2>2, <2>3 DEF After, TypeInv, EngineTypes, MessageTypes
<1>15. CASE Forward
  BY <1>15 DEF Forward, TypeInv, EngineTypes, MessageTypes
<1>16. CASE Sync
  <2>1. PICK go \in BOOLEAN : go <=> GoesOn
    OBVIOUS
  <2>2. /\ running' = [e \in Engine |-> go]
        /\ wave' = [e \in Engine |-> IF go THEN wave[e] ELSE wave[e] + 1]
    BY <1>16, <2>1 DEF Sync
  <2>3. /\ step' \in [Engine -> Nat] /\ pending' \in [Engine -> BOOLEAN]
        /\ pc' \in [Engine -> {"top", "forward", "after", "sync", "resume"}]
    BY <1>16 DEF Sync, TypeInv, EngineTypes
  <2>4. ignore' \in [Engine -> BOOLEAN]
    <3>1. PICK c \in BOOLEAN : c <=> Consensus
      OBVIOUS
    <3>2. ignore' = [e \in Engine |-> ignore[e] \/ c]
      BY <1>16, <3>1 DEF Sync
    <3> QED
      BY <3>2
  <2>5. running' \in [Engine -> BOOLEAN] /\ wave' \in [Engine -> Nat]
    BY <2>2 DEF TypeInv, EngineTypes
  <2>6. notes' \in [Sender -> Seq(Notes)]
    <3>1. PICK a, b : /\ a = [kind |-> "wave_complete", wave |-> wave[0]]
                      /\ b = [kind |-> "start_wave", wave |-> wave[0]]
      OBVIOUS
    <3>2. a \in Notes /\ b \in Notes
      BY <1>0, <3>1, Engines DEF Notes
    <3>3. UNCHANGED notes \/ Note(0, a) \/ Note(0, b)
      BY <1>16, <3>1 DEF Sync, Note
    <3> QED
      BY <3>2, <3>3, NoteTypes, Engines DEF TypeInv, MessageTypes
  <2> QED
    BY <1>16, <2>3, <2>4, <2>5, <2>6 DEF Sync, TypeInv, EngineTypes, MessageTypes
<1>17. CASE Resumed
  <2>1. PICK go \in BOOLEAN : go <=> \E f \in Engine : Unfinished(f) # {}
    OBVIOUS
  <2>2. running' = [e \in Engine |-> go]
    BY <1>17, <2>1 DEF Resumed
  <2>3. /\ running' \in [Engine -> BOOLEAN]
        /\ pc' \in [Engine -> {"top", "forward", "after", "sync", "resume"}]
    BY <1>17, <2>2 DEF Resumed
  <2> QED
    BY <1>17, <2>3 DEF Resumed, TypeInv, EngineTypes, MessageTypes
<1>18. CASE UNCHANGED vars
  BY <1>18 DEF vars, TypeInv, EngineTypes, MessageTypes
<1> QED
  BY <1>1, <1>3, <1>4, <1>5, <1>6, <1>8, <1>9, <1>10, <1>11, <1>12, <1>13, <1>14, <1>15,
     <1>16, <1>17, <1>18 DEF Next, Clients, Take

-----------------------------------------------------------------------------
(***************************************************************************)
(* Steps                                                                   *)
(***************************************************************************)
LEMMA StepNextInv == ASSUME TypeInv, StepInv, [Next]_vars PROVE StepInv'
<1> USE DEF engines, reqs, coord, client
<1>0. PICK t \in Nat : InStep(t)
  BY DEF StepInv
<1>1. ASSUME UNCHANGED <<pc, step>> PROVE StepInv'
  <2>1. InStep(t)'
    BY <1>0, <1>1 DEF InStep, NextStep
  <2> QED
    BY <2>1 DEF StepInv
<1>2. CASE Clients \/ Refresh \/ Resume \/ (\E s \in Sender : Coordinate(s)) \/ UNCHANGED vars
  BY <1>1, <1>2 DEF Clients, Send, Pause, Refresh, Resume, Coordinate, vars
<1>3. ASSUME NEW e \in Engine, TakeAdd(e) \/ TakePause(e) \/ TakeStart(e) \/ PauseDone(e)
      PROVE  StepInv'
  BY <1>1, <1>3 DEF TakeAdd, TakePause, TakeStart, PauseDone
<1>4. ASSUME NEW e \in Engine, TakeResume(e) \/ Go(e) PROVE StepInv'
  <2>1. /\ pc[e] = "top" /\ UNCHANGED step
        /\ \A f \in Engine : pc'[f] = IF f = e THEN pc'[e] ELSE pc[f]
        /\ pc'[e] \in {"top", "resume", "forward"}
    BY <1>4 DEF TakeResume, Go, TypeInv, EngineTypes
  <2>2. \A f \in Engine : pc[f] = "sync" \/ (pc[f] = "after" /\ t = 0) => FALSE
    BY <1>0, <2>1 DEF InStep
  <2>3. \A f \in Engine : /\ pc'[f] = "after" <=> pc[f] = "after"
                          /\ pc'[f] = "sync" <=> pc[f] = "sync"
                          /\ NextStep(f)' = NextStep(f)
    BY <2>1 DEF NextStep
  <2>4. InStep(t)'
    BY <1>0, <2>1, <2>2, <2>3 DEF InStep
  <2> QED
    BY <2>4 DEF StepInv
<1>5. ASSUME NEW e \in Engine, After(e) PROVE StepInv'
  <2>1. /\ pc[e] = "after" /\ step'[e] = NextStep(e)
        /\ pc'[e] = IF NextStep(e) = 0 THEN "sync" ELSE "top"
        /\ \A f \in Engine \ {e} : pc'[f] = pc[f] /\ step'[f] = step[f]
    BY <1>5 DEF After, Synchronises, NextStep, TypeInv, EngineTypes
  <2>2. step'[e] = t /\ pc'[e] = IF t = 0 THEN "sync" ELSE "top"
    BY <1>0, <2>1 DEF InStep
  <2>3. \A f \in Engine \ {e} : NextStep(f)' = NextStep(f)
    BY <2>1 DEF NextStep
  <2>4. \A f \in Engine : (IF pc'[f] = "after" THEN NextStep(f)' ELSE step'[f]) = t
    BY <1>0, <2>1, <2>2, <2>3 DEF InStep
  <2>5. \A f \in Engine : pc'[f] = "sync" => t = 0
    BY <1>0, <2>1, <2>2 DEF InStep
  <2>6. CASE t = 0
    <3>1. \A f \in Engine : pc[f] \in {"after", "sync"}
      BY <1>0, <2>1, <2>6 DEF InStep
    <3>2. \A f \in Engine : pc'[f] \in {"after", "sync"}
      BY <2>1, <2>2, <2>6, <3>1
    <3>3. InStep(t)'
      BY <2>4, <2>5, <2>6, <3>2 DEF InStep
    <3> QED
      BY <3>3 DEF StepInv
  <2>7. CASE t # 0
    <3>1. \A f \in Engine : pc'[f] # "sync"
      BY <2>5, <2>7
    <3>2. InStep(t)'
      BY <2>4, <2>5, <2>7, <3>1 DEF InStep
    <3> QED
      BY <3>2 DEF StepInv
  <2> QED
    BY <2>6, <2>7
<1>6. CASE Forward
  <2>1. /\ \A e \in Engine : pc[e] = "forward" /\ pc'[e] = "after" /\ UNCHANGED step
    BY <1>6 DEF Forward
  <2>2. PICK u \in Nat : u = (t + 1) % SyncEvery
    BY Engines
  <2>3. \A e \in Engine : NextStep(e)' = u
    BY <1>0, <2>1, <2>2 DEF InStep, NextStep
  <2>4. InStep(u)'
    BY <2>1, <2>3 DEF InStep
  <2> QED
    BY <2>4 DEF StepInv
<1>7. CASE Sync
  <2>1. \A e \in Engine : pc'[e] = "top" /\ step'[e] = 0
    BY <1>7 DEF Sync
  <2>2. InStep(0)'
    BY <2>1 DEF InStep
  <2> QED
    BY <2>2 DEF StepInv
<1>8. CASE Resumed
  <2>1. \A e \in Engine : pc[e] = "resume" /\ pc'[e] = "top" /\ UNCHANGED step
    BY <1>8 DEF Resumed
  <2>2. InStep(t)'
    BY <1>0, <2>1 DEF InStep
  <2> QED
    BY <2>2 DEF StepInv
<1> QED
  BY <1>2, <1>3, <1>4, <1>5, <1>6, <1>7, <1>8 DEF Next, Take

-----------------------------------------------------------------------------
(***************************************************************************)
(* The phases of a pause                                                   *)
(***************************************************************************)
Control == {"pause", "resume"}

\* A message is put into the inbox of e.
LEMMA Putting ==
    ASSUME TypeInv, NEW e \in Engine, Ordered(e), NEW m \in Messages,
           inbox'[e] = Append(inbox[e], m),
           m.kind \in Control => ~Holds(e, m.kind) /\ ~Holds(e, "pause")
    PROVE  /\ Ordered(e)'
           /\ \A k \in Control : Holds(e, k)' <=> Holds(e, k) \/ m.kind = k
<1>0. PICK q : q = inbox[e]
  OBVIOUS
<1>1. q \in Seq(Messages)
  BY <1>0 DEF TypeInv, MessageTypes
<1>2. PICK n \in Nat : n = Len(q)
  BY <1>1
<1>3. PICK p : p = inbox'[e]
  OBVIOUS
<1>4. Len(p) = n + 1 /\ p[n+1] = m /\ \A i \in 1..n : p[i] = q[i]
  BY <1>0, <1>1, <1>2, <1>3, Appended
<1>5. \A i \in 1..(n+1) : i \in 1..n \/ i = n + 1
  OBVIOUS
<1>6. \A k \in Control : Holds(e, k)' <=> Holds(e, k) \/ m.kind = k
  <2> TAKE k \in Control
  <2>1. Holds(e, k) => Holds(e, k)'
    BY <1>0, <1>2, <1>3, <1>4 DEF Holds
  <2>2. m.kind = k => Holds(e, k)'
    BY <1>3, <1>4 DEF Holds
  <2>3. Holds(e, k)' => Holds(e, k) \/ m.kind = k
    BY <1>0, <1>2, <1>3, <1>4, <1>5 DEF Holds
  <2> QED
    BY <2>1, <2>2, <2>3
<1>7. m.kind \in {"add", "pause", "resume"}
  BY DEF Messages
<1>8. ASSUME NEW i \in 1..(n+1), NEW j \in 1..(n+1)
      PROVE  /\ p[i].kind = p[j].kind /\ p[i].kind # "add" => i = j
             /\ p[i].kind = "resume" /\ p[j].kind = "pause" => i < j
  <2>1. CASE i \in 1..n /\ j \in 1..n
    BY <1>0, <1>2, <1>4, <2>1 DEF Ordered
  <2>2. CASE i = n + 1 /\ j \in 1..n
    <3>1. q[j].kind \in {"add", "pause", "resume"}
      BY <1>1, <1>2, <2>2 DEF Messages
    <3> QED
      BY <1>0, <1>2, <1>4, <1>7, <2>2, <3>1 DEF Holds, Control
  <2>3. CASE i \in 1..n /\ j = n + 1
    BY <1>0, <1>2, <1>4, <1>7, <2>3 DEF Holds, Control
  <2>4. CASE i = n + 1 /\ j = n + 1
    BY <1>4, <2>4
  <2> QED
    BY <1>5, <2>1, <2>2, <2>3, <2>4
<1>9. Ordered(e)'
  BY <1>3, <1>4, <1>8 DEF Ordered
<1> QED
  BY <1>6, <1>9

\* The first message of e is taken.
LEMMA Taking ==
    ASSUME TypeInv, NEW e \in Engine, Ordered(e), inbox[e] # <<>>,
           inbox'[e] = Tail(inbox[e]), NEW k, k = Head(inbox[e]).kind
    PROVE  /\ Ordered(e)' /\ Holds(e, k)
           /\ k \in Control => ~Holds(e, k)'
           /\ k = "pause" => ~Holds(e, "resume")
           /\ \A x \in Control : x # k => (Holds(e, x)' <=> Holds(e, x))
<1>0. PICK q : q = inbox[e]
  OBVIOUS
<1>1. q \in Seq(Messages) /\ q # <<>>
  BY <1>0 DEF TypeInv, MessageTypes
<1>2. PICK n \in Nat : n = Len(q)
  BY <1>1
<1>3. PICK p : p = inbox'[e]
  OBVIOUS
<1>4. n >= 1 /\ Len(p) = n - 1 /\ Head(q) = q[1] /\ \A i \in 1..(n-1) : p[i] = q[i+1]
  BY <1>0, <1>1, <1>2, <1>3, HeadTail
<1>6. k = q[1].kind /\ \A i \in 1..(n-1) : i + 1 \in 1..n /\ i + 1 # 1
  BY <1>0, <1>4
<1>7. \A i, j \in 1..n : /\ q[i].kind = q[j].kind /\ q[i].kind # "add" => i = j
                         /\ q[i].kind = "resume" /\ q[j].kind = "pause" => i < j
  BY <1>0, <1>2 DEF Ordered
<1>8. Holds(e, k)
  BY <1>0, <1>2, <1>4, <1>6 DEF Holds
<1>9. k \in Control => ~Holds(e, k)'
  <2> SUFFICES ASSUME k \in Control, NEW i \in 1..(n-1), p[i].kind = k PROVE FALSE
    BY <1>3, <1>4 DEF Holds
  <2>1. k # "add" /\ q[i+1].kind = q[1].kind
    BY <1>4, <1>6 DEF Control
  <2> QED
    BY <1>4, <1>6, <1>7, <2>1
<1>10. k = "pause" => ~Holds(e, "resume")
  <2> SUFFICES ASSUME k = "pause", NEW i \in 1..n, q[i].kind = "resume" PROVE FALSE
    BY <1>0, <1>2 DEF Holds
  <2>1. i < 1
    BY <1>4, <1>6, <1>7
  <2> QED
    BY <2>1
<1>11. ASSUME NEW x \in Control, x # k PROVE Holds(e, x)' <=> Holds(e, x)
  <2>1. ASSUME NEW i \in 1..n, q[i].kind = x PROVE \E j \in 1..(n-1) : p[j].kind = x
    <3>1. i # 1
      BY <1>6, <1>11, <2>1
    <3>2. i - 1 \in 1..(n-1) /\ (i - 1) + 1 = i
      BY <3>1
    <3>3. p[i - 1] = q[i]
      BY <1>4, <3>2
    <3> QED
      BY <2>1, <3>2, <3>3
  <2>2. ASSUME NEW i \in 1..(n-1), p[i].kind = x PROVE \E j \in 1..n : q[j].kind = x
    BY <1>4, <1>6, <2>2
  <2> QED
    BY <1>0, <1>2, <1>3, <1>4, <2>1, <2>2 DEF Holds
<1>12. Ordered(e)'
  <2> SUFFICES ASSUME NEW i \in 1..(n-1), NEW j \in 1..(n-1)
               PROVE  /\ p[i].kind = p[j].kind /\ p[i].kind # "add" => i = j
                      /\ p[i].kind = "resume" /\ p[j].kind = "pause" => i < j
    BY <1>3, <1>4 DEF Ordered
  <2>1. p[i] = q[i+1] /\ p[j] = q[j+1] /\ i + 1 \in 1..n /\ j + 1 \in 1..n
    BY <1>4, <1>6
  <2>2. /\ p[i].kind = p[j].kind /\ p[i].kind # "add" => i + 1 = j + 1
        /\ p[i].kind = "resume" /\ p[j].kind = "pause" => i + 1 < j + 1
    BY <1>7, <2>1
  <2> QED
    BY <2>2
<1> QED
  BY <1>8, <1>9, <1>10, <1>11, <1>12

\* Nothing that the phases depend on changes for e.
Same(e) ==
    /\ Ordered(e)' /\ \A k \in Control : Holds(e, k)' <=> Holds(e, k)
    /\ running'[e] = running[e] /\ pending'[e] = pending[e] /\ ignore'[e] = ignore[e]
    /\ pauseState'[e] = pauseState[e] /\ pc'[e] = pc[e]
    /\ pauseState[e] # "unpaused" /\ Unfinished(e) = {} => Unfinished(e)' = {}

LEMMA SameIsSame ==
    ASSUME NEW e \in Engine, Same(e), UNCHANGED asked
    PROVE  /\ Coming(e)' <=> Coming(e)
           /\ Normal(e)' <=> Normal(e)
           /\ Pausing(e)' <=> Pausing(e)
           /\ pauseState[e] # "unpaused" /\ Still(e) => Still(e)'
           /\ Agrees(e) => Agrees(e)'
           /\ Held(e) => Held(e)'
           /\ Back(e) => Back(e)'
<1>1. /\ Holds(e, "pause")' <=> Holds(e, "pause")
      /\ Holds(e, "resume")' <=> Holds(e, "resume")
  BY DEF Same, Control
<1>2. pauseState[e] # "unpaused" /\ Still(e) => Still(e)'
  BY DEF Same, Still
<1>3. /\ Coming(e)' <=> Coming(e)
      /\ Pausing(e)' <=> Pausing(e)
  BY <1>1 DEF Same, Coming, Pausing
<1>4. Normal(e)' <=> Normal(e)
  BY <1>3 DEF Same, Normal
<1>5. Agrees(e) => Agrees(e)'
  BY <1>1 DEF Same, Agrees
<1>6. Held(e) => Held(e)'
  BY <1>1, <1>2 DEF Same, Held
<1>7. Back(e) => Back(e)'
  BY <1>1 DEF Same, Back
<1> QED
  BY <1>2, <1>3, <1>4, <1>5, <1>6, <1>7

\* A paused engine does not get unfinished requests unless it computes.
LEMMA StaysFinished ==
    ASSUME TypeInv, NEW e \in Engine, pauseState'[e] = pauseState[e],
           \A r \in Req : status'[r] = "running" => status[r] = "running" /\ home'[r] = home[r],
           pauseState[e] # "unpaused", Unfinished(e) = {}
    PROVE  Unfinished(e)' = {}
<1>1. pauseState[e] \in {"paused_all", "paused_new"}
  BY DEF TypeInv, EngineTypes
<1>2. CASE pauseState[e] = "paused_all"
  BY <1>2 DEF Unfinished
<1>3. CASE pauseState[e] = "paused_new"
  <2>1. Of(e, {"running"}) = {}
    BY <1>3 DEF Unfinished
  <2>2. Of(e, {"running"})' = {}
    BY <2>1 DEF Of
  <2> QED
    BY <1>3, <2>2 DEF Unfinished
<1> QED
  BY <1>1, <1>2, <1>3

\* An engine whose inbox and state are left alone.
LEMMA SameEngine ==
    ASSUME TypeInv, NEW e \in Engine, Ordered(e), inbox'[e] = inbox[e],
           running'[e] = running[e], pending'[e] = pending[e], ignore'[e] = ignore[e],
           pauseState'[e] = pauseState[e], pc'[e] = pc[e],
           \A r \in Req : status'[r] = "running" => status[r] = "running" /\ home'[r] = home[r]
    PROVE  Same(e)
<1>1. Ordered(e)' /\ \A k \in Control : Holds(e, k)' <=> Holds(e, k)
  BY DEF Ordered, Holds
<1> QED
  BY <1>1, StaysFinished DEF Same

LEMMA SamePhase ==
    ASSUME UNCHANGED asked, \A e \in Engine : Same(e)
    PROVE  /\ Open => Open'
           /\ Agreed => Agreed'
           /\ Agreed /\ Quiet => Quiet'
           /\ Resuming => Resuming'
<1>0. \A e \in Engine :
        /\ Coming(e)' <=> Coming(e)
        /\ Normal(e)' <=> Normal(e)
        /\ Pausing(e)' <=> Pausing(e)
        /\ pauseState[e] # "unpaused" /\ Still(e) => Still(e)'
        /\ Agrees(e) => Agrees(e)'
        /\ Held(e) => Held(e)'
        /\ Back(e) => Back(e)'
  BY SameIsSame
<1>1. Open => Open'
  BY <1>0 DEF Open, Same, Control
<1>2. Agreed /\ Quiet => Quiet'
  BY <1>0 DEF Agreed, Agrees, Quiet
<1>3. Agreed => Agreed'
  <2>1. (\A e \in Engine : running[e]) => (\A e \in Engine : running'[e])
    BY DEF Same
  <2> QED
    BY <1>0, <1>2, <2>1 DEF Agreed
<1>4. Resuming => Resuming'
  BY <1>0 DEF Resuming
<1> QED
  BY <1>1, <1>2, <1>3, <1>4

LEMMA SameAll ==
    ASSUME PauseInv, UNCHANGED <<asked, paused>>, \A e \in Engine : Same(e)
    PROVE  PauseInv'
<1>1. \A e \in Engine : Ordered(e)'
  BY DEF Same
<1> QED
  BY <1>1, SamePhase DEF PauseInv

\* A phase that is left alone but for one engine.
LEMMA OpenBut ==
    ASSUME Open, NEW e \in Engine, \A f \in Engine \ {e} : Same(f), UNCHANGED <<asked, paused>>,
           paused = {}, Ordered(e)', ~Holds(e, "resume")', pc'[e] # "resume", ~ignore'[e],
           Normal(e)' \/ Pausing(e)'
    PROVE  PauseInv'
<1>1. \A f \in Engine : Ordered(f)'
  BY DEF Same
<1>2. ASSUME NEW f \in Engine
      PROVE  /\ ~Holds(f, "resume")' /\ pc'[f] # "resume" /\ ~ignore'[f]
             /\ Normal(f)' \/ Pausing(f)'
  <2>1. CASE f # e
    <3>1. (Normal(f)' <=> Normal(f)) /\ (Pausing(f)' <=> Pausing(f))
      BY <2>1, SameIsSame
    <3> QED
      BY <2>1, <3>1 DEF Open, Same, Control
  <2> QED
    BY <2>1
<1>3. Open'
  BY <1>2 DEF Open
<1> QED
  BY <1>1, <1>3 DEF PauseInv

\* Nobody has completed a pause that was not agreed on.
LEMMA OpenUnpaused == ASSUME PauseInv, Open PROVE paused = {} /\ ~Agreed /\ ~Resuming
<1>1. 0 \in Engine
  BY Engines
<1> QED
  BY <1>1 DEF PauseInv, Open, Agreed, Agrees, Resuming, Held, Back

LEMMA PausePuts ==
    ASSUME TypeInv, PauseInv, NEW mode \in Modes, Pause(mode)
    PROVE  PauseInv'
<1>0. PICK m : m = [kind |-> "pause", mode |-> mode]
  OBVIOUS
<1>1. m \in Messages /\ m.kind = "pause"
  BY <1>0 DEF Messages
<1>2. /\ asked = "run" /\ asked' = "pause" /\ UNCHANGED <<engines, reqs, paused>>
      /\ \A e \in Engine : inbox'[e] = Append(inbox[e], m)
  BY <1>0 DEF Pause, ToAll
<1>3. paused = {} /\ ~Agreed
  BY <1>2 DEF PauseInv, Agreed
<1>4. \A e \in Engine : Coming(e) /\ ~Holds(e, "pause")
  BY <1>2, <1>3 DEF PauseInv, Open, Normal, Pausing, Resuming, Coming
<1>5. \A e \in Engine : /\ Ordered(e)' /\ Holds(e, "pause")'
                        /\ Holds(e, "resume")' <=> Holds(e, "resume")
  BY <1>1, <1>2, <1>4, Putting DEF PauseInv, Control
<1>6. \A e \in Engine : Coming(e)'
  BY <1>2, <1>5 DEF Coming
<1>7. CASE Open
  <2>1. Open'
    BY <1>2, <1>4, <1>5, <1>6, <1>7 DEF Open, Normal, Pausing, engines
  <2> QED
    BY <1>2, <1>3, <1>5, <2>1 DEF PauseInv
<1>8. CASE Resuming
  <2>1. \A e \in Engine : Unfinished(e)' = Unfinished(e)
    BY <1>2 DEF Unfinished, Of, engines, reqs
  <2>2. Resuming'
    BY <1>2, <1>5, <1>6, <1>8, <2>1 DEF Resuming, Held, Still, Back, engines
  <2> QED
    BY <1>2, <1>3, <1>5, <2>2 DEF PauseInv
<1> QED
  BY <1>3, <1>7, <1>8 DEF PauseInv

LEMMA ResumePuts ==
    ASSUME TypeInv, PauseInv, Resume
    PROVE  PauseInv'
<1>0. PICK m : m = [kind |-> "resume"]
  OBVIOUS
<1>1. m \in Messages /\ m.kind = "resume"
  BY <1>0 DEF Messages
<1>2. /\ paused = Engine /\ asked' = "run" /\ paused' = {} /\ UNCHANGED <<engines, reqs>>
      /\ \A e \in Engine : inbox'[e] = Append(inbox[e], m)
  BY <1>0 DEF Resume, ToAll
<1>3. Agreed /\ Quiet
  BY <1>2, Engines DEF PauseInv
<1>4. \A e \in Engine : ~Holds(e, "pause") /\ ~Holds(e, "resume")
  BY <1>3 DEF Agreed, Agrees
<1>5. \A e \in Engine : Ordered(e)' /\ Holds(e, "resume")' /\ ~Holds(e, "pause")'
  BY <1>1, <1>2, <1>4, Putting DEF PauseInv, Control
<1>6. \A e \in Engine : Unfinished(e)' = Unfinished(e)
  BY <1>2 DEF Unfinished, Of, engines, reqs
<1>7. Resuming'
  BY <1>2, <1>3, <1>5, <1>6 DEF Resuming, Coming, Held, Still, Agreed, Agrees, Quiet, engines
<1> QED
  BY <1>2, <1>5, <1>7 DEF PauseInv

\* An engine at the top of its loop that is paused and has no reason to run.
LEMMA TakesAdd ==
    ASSUME TypeInv, PauseInv, NEW e \in Engine, TakeAdd(e)
    PROVE  PauseInv'
<1>0. PICK m : m = Head(inbox[e])
  OBVIOUS
<1>1. /\ pc[e] = "top" /\ inbox[e] # <<>> /\ m.kind = "add" /\ AddRequest(e, m)
      /\ status' = [status EXCEPT ![m.req] = "waiting"]
      /\ UNCHANGED <<pending, ignore, pauseState, pc, home, asked, paused>>
  BY <1>0 DEF TakeAdd, client
<1>2. inbox'[e] = Tail(inbox[e]) /\ \A f \in Engine \ {e} : inbox'[f] = inbox[f]
  BY DEF TakeAdd, TypeInv, MessageTypes
<1>3. \A r \in Req : status'[r] = "running" => status[r] = "running" /\ home'[r] = home[r]
  BY <1>1 DEF TypeInv
<1>4. \A f \in Engine \ {e} : running'[f] = running[f]
  BY <1>1 DEF AddRequest, TypeInv, EngineTypes
<1>5. \A f \in Engine \ {e} : Same(f)
  BY <1>1, <1>2, <1>3, <1>4, SameEngine DEF PauseInv
<1>6. Ordered(e)' /\ \A k \in Control : Holds(e, k)' <=> Holds(e, k)
  <2>1. "add" \notin Control
    BY DEF Control
  <2>2. PICK k : k = Head(inbox[e]).kind
    OBVIOUS
  <2>3. k = "add"
    BY <1>0, <1>1, <2>2
  <2> QED
    BY <1>1, <1>2, <2>1, <2>2, <2>3, Taking DEF PauseInv
<1>7. CASE Open
  <2>1. (Normal(e)' <=> Normal(e)) /\ (Pausing(e) => Pausing(e)')
    <3>1. running[e] => running'[e]
      BY <1>1 DEF AddRequest, TypeInv, EngineTypes
    <3> QED
      BY <1>1, <1>6, <3>1 DEF Normal, Coming, Pausing, Control
  <2>2. paused = {}
    BY <1>7, OpenUnpaused
  <2> QED
    BY <1>1, <1>5, <1>6, <1>7, <2>1, <2>2, OpenBut DEF Open, Control
<1>8. CASE ~Open
  <2>1. pauseState[e] # "unpaused"
    BY <1>1, <1>8 DEF PauseInv, Agreed, Agrees, Resuming, Held, Back
  <2>2. running'[e] = running[e]
    BY <1>1, <2>1 DEF AddRequest, TypeInv, EngineTypes
  <2>3. Unfinished(e) = {} => Unfinished(e)' = {}
    BY <1>1, <1>3, <2>1, StaysFinished
  <2>4. Same(e)
    BY <1>1, <1>6, <2>2, <2>3 DEF Same
  <2> QED
    BY <1>1, <1>5, <2>4, SameAll
<1> QED
  BY <1>7, <1>8

LEMMA TakesPause ==
    ASSUME TypeInv, PauseInv, NEW e \in Engine, TakePause(e)
    PROVE  PauseInv'
<1>1. /\ pc[e] = "top" /\ inbox[e] # <<>> /\ Head(inbox[e]).kind = "pause"
      /\ UNCHANGED <<ignore, pc, status, home, asked, paused>>
      /\ pending'[e] /\ running'[e] /\ pauseState'[e] # "unpaused"
      /\ inbox'[e] = Tail(inbox[e])
      /\ \A f \in Engine \ {e} : /\ inbox'[f] = inbox[f] /\ pending'[f] = pending[f]
                                 /\ running'[f] = running[f] /\ pauseState'[f] = pauseState[f]
  BY DEF TakePause, PauseComplete, client, reqs, TypeInv, EngineTypes, MessageTypes
<1>2. \A f \in Engine \ {e} : Same(f)
  BY <1>1, SameEngine DEF PauseInv
<1>3. /\ Ordered(e)' /\ Holds(e, "pause") /\ ~Holds(e, "pause")'
      /\ ~Holds(e, "resume") /\ ~Holds(e, "resume")'
  <2>1. PICK k : k = Head(inbox[e]).kind
    OBVIOUS
  <2>2. k = "pause" /\ k \in Control /\ "resume" \in Control
    BY <1>1, <2>1 DEF Control
  <2> QED
    BY <1>1, <2>1, <2>2, Taking DEF PauseInv
<1>4. Open
  BY <1>1, <1>3 DEF PauseInv, Agreed, Agrees, Resuming, Held, Back
<1>5. asked = "pause" /\ ~ignore[e]
  BY <1>3, <1>4 DEF Open, Normal, Coming, Pausing
<1>6. Pausing(e)'
  BY <1>1, <1>3, <1>5 DEF Pausing
<1> QED
  BY <1>1, <1>2, <1>3, <1>4, <1>5, <1>6, OpenBut, OpenUnpaused

LEMMA TakesResume ==
    ASSUME TypeInv, PauseInv, NEW e \in Engine, TakeResume(e)
    PROVE  PauseInv'
<1>1. /\ pc[e] = "top" /\ inbox[e] # <<>> /\ Head(inbox[e]).kind = "resume"
      /\ UNCHANGED <<running, pending, status, home, asked, paused>>
      /\ inbox'[e] = Tail(inbox[e])
      /\ \A f \in Engine \ {e} : /\ inbox'[f] = inbox[f] /\ pc'[f] = pc[f]
                                 /\ ignore'[f] = ignore[f] /\ pauseState'[f] = pauseState[f]
  BY DEF TakeResume, client, reqs, TypeInv, EngineTypes, MessageTypes
<1>2. \A f \in Engine \ {e} : Same(f)
  BY <1>1, SameEngine DEF PauseInv
<1>3. /\ Ordered(e)' /\ Holds(e, "resume") /\ ~Holds(e, "resume")'
      /\ Holds(e, "pause")' <=> Holds(e, "pause")
  <2>1. PICK k : k = Head(inbox[e]).kind
    OBVIOUS
  <2>2. k = "resume" /\ k \in Control /\ "pause" \in Control /\ "pause" # k
    BY <1>1, <2>1 DEF Control
  <2> QED
    BY <1>1, <2>1, <2>2, Taking DEF PauseInv
<1>4. Resuming /\ ~Agreed
  BY <1>3 DEF PauseInv, Open, Agreed, Agrees
<1>5. ~running[e] /\ ~pending[e]
  BY <1>1, <1>4 DEF Resuming, Held, Still, Back
<1>6. pauseState'[e] = "unpaused" /\ ~ignore'[e] /\ pc'[e] = "resume"
  BY <1>5 DEF TakeResume, TypeInv, EngineTypes
<1>7. Coming(e)' /\ Back(e)'
  BY <1>1, <1>3, <1>4, <1>5, <1>6 DEF Back, Coming, Resuming
<1>8. ASSUME NEW f \in Engine \ {e} PROVE Coming(f)' /\ (Held(f)' \/ Back(f)')
  BY <1>1, <1>2, <1>4, SameIsSame DEF Resuming
<1>9. Resuming'
  BY <1>7, <1>8 DEF Resuming
<1>10. \A f \in Engine : Ordered(f)'
  BY <1>2, <1>3 DEF Same
<1>11. paused' = {}
  BY <1>1, <1>4 DEF PauseInv
<1> QED
  BY <1>9, <1>10, <1>11 DEF PauseInv

LEMMA TakesStart ==
    ASSUME TypeInv, PauseInv, NEW e \in Engine, TakeStart(e)
    PROVE  PauseInv'
<1>1. /\ pc[e] = "top"
      /\ UNCHANGED <<pending, ignore, pauseState, pc, status, home, inbox, asked, paused>>
      /\ \A f \in Engine \ {e} : running'[f] = running[f]
      /\ running'[e] = running[e] \/ running'[e]
  BY DEF TakeStart, client, reqs, TypeInv, EngineTypes
<1>2. \A f \in Engine \ {e} : Same(f)
  BY <1>1, SameEngine DEF PauseInv
<1>3. CASE running'[e] = running[e]
  <2>1. Same(e)
    BY <1>1, <1>3, SameEngine DEF PauseInv
  <2> QED
    BY <1>1, <1>2, <2>1, SameAll
<1>4. CASE running'[e] # running[e]
  <2>1. ~ignore[e] /\ running'[e]
    BY <1>1, <1>4 DEF TakeStart, Starts
  <2>2. Open
    BY <1>1, <2>1 DEF PauseInv, Agreed, Agrees, Resuming, Held, Back
  <2>3. /\ Ordered(e)' /\ ~Holds(e, "resume")'
        /\ Holds(e, "pause")' <=> Holds(e, "pause")
    BY <1>1, <2>2 DEF PauseInv, Open, Ordered, Holds
  <2>4. Normal(e)' \/ Pausing(e)'
    BY <1>1, <2>1, <2>2, <2>3 DEF Open, Normal, Coming, Pausing
  <2> QED
    BY <1>1, <1>2, <2>1, <2>2, <2>3, <2>4, OpenBut, OpenUnpaused
<1> QED
  BY <1>3, <1>4

LEMMA CompletesPause ==
    ASSUME TypeInv, PauseInv, NEW e \in Engine, PauseDone(e)
    PROVE  PauseInv'
<1>1. /\ pc[e] = "top" /\ ~running[e] /\ pauseState[e] # "unpaused" /\ asked = "pause"
      /\ ~Holds(e, "pause")
      /\ UNCHANGED <<engines, reqs, inbox, client>>
  BY DEF PauseDone, HasWork, Holds
<1>2. Agreed /\ Quiet
  BY <1>1 DEF PauseInv, Open, Normal, Pausing, Agreed, Resuming, Coming
<1>3. \A f \in Engine : Same(f)
  BY <1>1, SameEngine DEF PauseInv, engines, reqs
<1>4. Agreed' /\ Quiet'
  BY <1>1, <1>2, <1>3, SamePhase DEF client
<1> QED
  BY <1>3, <1>4 DEF PauseInv, Same

\* Steps of engines that run: the phases do not change as long as they run on.
LEMMA RunsOn ==
    ASSUME TypeInv, PauseInv, UNCHANGED <<inbox, pending, ignore, pauseState, asked, paused>>,
           NEW e \in Engine, ~Still(e), pc[e] # "resume",
           \A f \in Engine : /\ pc'[f] = pc[f] \/ pc'[f] # "resume"
                             /\ running[f] => running'[f]
    PROVE  PauseInv'
<1>1. \A f \in Engine : /\ Ordered(f)'
                        /\ Holds(f, "pause")' <=> Holds(f, "pause")
                        /\ Holds(f, "resume")' <=> Holds(f, "resume")
  BY DEF PauseInv, Ordered, Holds
<1>2. ~Resuming /\ ~Quiet /\ paused = {}
  BY DEF Resuming, Held, Back, Quiet, PauseInv
<1>3. CASE Open
  <2>1. \A f \in Engine : /\ Normal(f) => Normal(f)'
                          /\ Pausing(f) => Pausing(f)'
    BY <1>1 DEF Normal, Coming, Pausing
  <2>2. Open'
    BY <1>1, <1>3, <2>1 DEF Open
  <2> QED
    BY <1>1, <1>2, <2>2 DEF PauseInv
<1>4. CASE Agreed
  <2>1. \A f \in Engine : Agrees(f)' /\ running'[f]
    BY <1>1, <1>2, <1>4 DEF Agreed, Agrees
  <2>2. Agreed'
    BY <1>4, <2>1 DEF Agreed
  <2> QED
    BY <1>1, <1>2, <2>2 DEF PauseInv
<1> QED
  BY <1>2, <1>3, <1>4 DEF PauseInv

LEMMA PauseSync == ASSUME TypeInv, PauseInv, Sync PROVE PauseInv'
<1>0. PICK go \in BOOLEAN : go <=> GoesOn
  OBVIOUS
<1>1. /\ \A e \in Engine : /\ pc[e] = "sync" /\ pc'[e] = "top" /\ running'[e] = go
                           /\ pending'[e] = IF Consensus THEN FALSE ELSE pending[e]
                           /\ ignore'[e] = (ignore[e] \/ Consensus)
      /\ UNCHANGED <<pauseState, status, home, inbox, asked, paused>>
  BY <1>0 DEF Sync, reqs, client
<1>2. \A f \in Engine : /\ Ordered(f)'
                        /\ Holds(f, "pause")' <=> Holds(f, "pause")
                        /\ Holds(f, "resume")' <=> Holds(f, "resume")
                        /\ Unfinished(f)' = Unfinished(f)
  BY <1>1 DEF PauseInv, Ordered, Holds, Unfinished, Of
<1>3. ~Resuming /\ ~Quiet /\ paused = {}
  BY <1>1, Engines DEF Resuming, Held, Back, Quiet, Still, PauseInv
<1>4. ~go => Quiet'
  BY <1>0, <1>1, <1>2 DEF GoesOn, Quiet, Still
<1>5. CASE Open /\ Consensus
  <2>1. \A e \in Engine : Pausing(e)
    BY <1>5 DEF Open, Normal, Consensus
  <2>2. \A e \in Engine : Agrees(e)'
    BY <1>1, <1>2, <1>5, <2>1 DEF Agrees, Open, Pausing
  <2>3. asked = "pause"
    BY <2>1, Engines DEF Pausing
  <2>4. (\A e \in Engine : running'[e]) \/ Quiet'
    BY <1>1, <1>4
  <2>5. Agreed'
    BY <1>1, <2>2, <2>3, <2>4 DEF Agreed
  <2> QED
    BY <1>1, <1>2, <1>3, <2>5 DEF PauseInv
<1>6. CASE Open /\ ~Consensus
  <2>1. \A e \in Engine : pending[e] => go
    BY <1>0, <1>6 DEF GoesOn
  <2>2. \A e \in Engine : /\ Normal(e) => Normal(e)'
                          /\ Pausing(e) => Pausing(e)'
    BY <1>1, <1>2, <1>6, <2>1 DEF Normal, Coming, Pausing
  <2>3. \A e \in Engine : ignore'[e] = ignore[e]
    BY <1>1, <1>6 DEF TypeInv, EngineTypes
  <2>4. Open'
    BY <1>1, <1>2, <1>6, <2>2, <2>3 DEF Open
  <2> QED
    BY <1>1, <1>2, <1>3, <2>4 DEF PauseInv
<1>7. CASE Agreed
  <2>1. ~Consensus
    BY <1>7, Engines DEF Consensus, Agreed, Agrees
  <2>2. \A e \in Engine : Agrees(e)'
    BY <1>1, <1>2, <1>7, <2>1 DEF Agreed, Agrees
  <2>3. (\A e \in Engine : running'[e]) \/ Quiet'
    BY <1>1, <1>4
  <2>4. Agreed'
    BY <1>1, <1>7, <2>2, <2>3 DEF Agreed
  <2> QED
    BY <1>1, <1>2, <1>3, <2>4 DEF PauseInv
<1> QED
  BY <1>3, <1>5, <1>6, <1>7 DEF PauseInv

LEMMA PauseResumed == ASSUME TypeInv, PauseInv, Resumed PROVE PauseInv'
<1>1. /\ \A e \in Engine : pc[e] = "resume" /\ pc'[e] = "top"
      /\ UNCHANGED <<inbox, pending, ignore, pauseState, asked, paused>>
  BY DEF Resumed, client
<1>2. \A f \in Engine : /\ Ordered(f)'
                        /\ Holds(f, "pause")' <=> Holds(f, "pause")
                        /\ Holds(f, "resume")' <=> Holds(f, "resume")
  BY <1>1 DEF PauseInv, Ordered, Holds
<1>3. Resuming /\ paused = {}
  BY <1>1, Engines DEF PauseInv, Open, Agreed, Agrees
<1>4. \A e \in Engine : Coming(e) /\ Back(e)
  BY <1>1, <1>3 DEF Resuming, Held, Still
<1>5. Open'
  BY <1>1, <1>2, <1>4 DEF Open, Normal, Coming, Back
<1> QED
  BY <1>1, <1>2, <1>3, <1>5 DEF PauseInv

LEMMA PauseNextInv == ASSUME TypeInv, PauseInv, [Next]_vars PROVE PauseInv'
<1> USE DEF engines, reqs, coord, client
<1>1. ASSUME UNCHANGED <<inbox, running, pending, ignore, pauseState, pc, status, home, asked, paused>>
      PROVE  PauseInv'
  <2>1. \A e \in Engine : Same(e)
    BY <1>1, SameEngine DEF PauseInv
  <2> QED
    BY <1>1, <2>1, SameAll
<1>2. CASE Refresh \/ (\E s \in Sender : Coordinate(s)) \/ UNCHANGED vars
  BY <1>1, <1>2 DEF Refresh, Coordinate, vars
<1>3. ASSUME NEW r \in Req, NEW e \in Engine, Send(r, e) PROVE PauseInv'
  <2>1. PICK m : m = [kind |-> "add", req |-> r, wave |-> view.wave]
    OBVIOUS
  <2>2. m \in Messages /\ m.kind = "add" /\ m.kind \notin Control
    BY <2>1 DEF Messages, Control, TypeInv, MessageTypes
  <2>3. /\ inbox'[e] = Append(inbox[e], m)
        /\ \A f \in Engine \ {e} : inbox'[f] = inbox[f]
        /\ UNCHANGED <<running, pending, ignore, pauseState, pc, asked, paused>>
    BY <1>3, <2>1 DEF Send, TypeInv, MessageTypes
  <2>4. \A x \in Req : status'[x] = "running" => status[x] = "running" /\ home'[x] = home[x]
    <3>1. /\ status' = [status EXCEPT ![r] = "sent"] /\ home' = [home EXCEPT ![r] = e]
      BY <1>3 DEF Send
    <3>2. \A x \in Req : x # r => status'[x] = status[x] /\ home'[x] = home[x]
      BY <3>1 DEF TypeInv
    <3> QED
      BY <3>1, <3>2 DEF TypeInv
  <2>5. \A f \in Engine \ {e} : Same(f)
    BY <2>3, <2>4, SameEngine DEF PauseInv
  <2>6. Ordered(e)' /\ \A k \in Control : Holds(e, k)' <=> Holds(e, k)
    BY <2>2, <2>3, Putting DEF PauseInv
  <2>7. Same(e)
    BY <2>3, <2>4, <2>6, StaysFinished DEF Same
  <2> QED
    BY <2>3, <2>5, <2>7, SameAll
<1>4. ASSUME NEW e \in Engine, Go(e) PROVE PauseInv'
  <2>1. pc[e] = "top" /\ HasWork(e) /\ \A f \in Engine : pc'[f] = pc[f] \/ pc'[f] # "resume"
    BY <1>4 DEF Go, TypeInv, EngineTypes
  <2>2. ~Still(e)
    BY <2>1 DEF Still, HasWork
  <2> QED
    BY <1>4, <2>1, <2>2, RunsOn DEF Go
<1>5. ASSUME NEW e \in Engine, After(e) PROVE PauseInv'
  <2>1. /\ pc[e] = "after"
        /\ \A f \in Engine : /\ pc'[f] = pc[f] \/ pc'[f] # "resume"
                             /\ running[f] => running'[f]
    BY <1>5 DEF After, TypeInv, EngineTypes
  <2>2. ~Still(e)
    BY <2>1 DEF Still
  <2> QED
    BY <1>5, <2>1, <2>2, RunsOn DEF After
<1>6. CASE Forward
  <2>1. /\ 0 \in Engine /\ pc[0] = "forward"
        /\ \A f \in Engine : pc'[f] = pc[f] \/ pc'[f] # "resume"
    BY <1>6, Engines DEF Forward
  <2>2. ~Still(0)
    BY <2>1 DEF Still
  <2> QED
    BY <1>6, <2>1, <2>2, RunsOn DEF Forward
<1> QED
  BY <1>2, <1>3, <1>4, <1>5, <1>6, PausePuts, ResumePuts, TakesAdd, TakesPause, TakesResume,
     TakesStart, CompletesPause, PauseSync, PauseResumed DEF Next, Clients, Take

WaveInv == TypeInv /\ StepInv /\ PauseInv

LEMMA WaveInit == Init => WaveInv
<1> SUFFICES ASSUME Init PROVE WaveInv
  OBVIOUS
<1>1. TypeInv
  BY TypeInit
<1>2. \A e \in Engine : /\ pc[e] = "top" /\ step[e] = 0 /\ Len(inbox[e]) = 0
                        /\ ~ignore[e] /\ ~pending[e] /\ pauseState[e] = "unpaused"
  BY DEF Init
<1>3. InStep(0)
  BY <1>2 DEF InStep
<1>4. \A e \in Engine : Ordered(e) /\ ~Holds(e, "pause") /\ ~Holds(e, "resume")
  BY <1>2 DEF Ordered, Holds
<1>5. Open
  BY <1>2, <1>4 DEF Init, Open, Normal, Coming
<1> QED
  BY <1>1, <1>3, <1>4, <1>5 DEF Init, WaveInv, StepInv, PauseInv

LEMMA WaveHolds == Spec => []WaveInv
<1>1. WaveInv /\ [Next]_vars => WaveInv'
  BY TypeNext, StepNextInv, PauseNextInv DEF WaveInv
<1> QED
  BY <1>1, WaveInit, PTL DEF Spec

\* For any number of engines and requests, any interval between all-reduces and any
\* number of pauses, engines that wait for each other wait in the same operation:
\* step_counter counts dummy batches, so that all engines enter the all-reduce of
\* the same step, and no engine enters resume_scheduler's while another computes.
THEOREM WaitTogether == Spec => []SameOperation
<1>1. WaveInv => SameOperation
  <2> SUFFICES ASSUME WaveInv, NEW e \in Engine, NEW f \in Engine,
                      pc[e] \in Collective, pc[f] \in Collective, pc[e] # pc[f]
               PROVE  FALSE
    BY DEF SameOperation
  <2>1. PICK t \in Nat : InStep(t)
    BY DEF WaveInv, StepInv
  <2>2. pc[e] # "sync" /\ pc[f] # "sync"
    BY <2>1 DEF InStep, Collective
  <2>3. pc[e] = "resume" \/ pc[f] = "resume"
    BY <2>2 DEF Collective
  <2>4. Resuming
    BY <2>3 DEF WaveInv, PauseInv, Open, Agreed, Agrees
  <2>5. pc[e] \in {"top", "resume"} /\ pc[f] \in {"top", "resume"}
    BY <2>4 DEF Resuming, Held, Still, Back
  <2> QED
    BY <2>5 DEF Collective
<1> QED
  BY <1>1, WaveHolds, PTL

\* A pause that has completed on one engine was agreed on by all of them, and once
\* it has completed on all, nobody runs until somebody resumes: late requests and
\* START_DP_WAVE messages from before the pause do not start a wave.
THEOREM PausedTogether == Spec => []PauseHolds
<1>1. WaveInv => PauseHolds
  <2> SUFFICES ASSUME WaveInv PROVE PauseHolds
    OBVIOUS
  <2>1. paused # {} => Agreed /\ Quiet
    BY DEF WaveInv, PauseInv
  <2>2. PausedIsIdle
    BY <2>1, Engines DEF PausedIsIdle, Quiet, Still
  <2>3. PauseAgreed
    BY <2>1 DEF PauseAgreed, Agreed, Agrees
  <2> QED
    BY <2>2, <2>3 DEF PauseHolds
<1> QED
  BY <1>1, WaveHolds, PTL
-----------------------------------------------------------------------------
(***************************************************************************)
(* Nobody computes alone.  As long as nobody pauses, all engines are in    *)
(* the same wave, and messages are of this wave or of one that is over.    *)
(* If somebody has work in this wave, then everybody will join it, or the  *)
(* coordinator has yet to hear of it.                                      *)
(***************************************************************************)
Calm ==
    /\ asked = "run"
    /\ \A e \in Engine :
        /\ pauseState[e] = "unpaused" /\ ~pending[e] /\ ~ignore[e] /\ pc[e] # "resume"
        /\ \A i \in 1..Len(inbox[e]) : inbox[e][i].kind = "add"

Doing(e) == running[e] \/ Unfinished(e) # {} \/ pc[e] # "top"

Wakes(e, m) == m.wave = wave[0] /\ m.but # e

\* The engine works in this wave, or a message on its way makes it do so.
Bound(e) == \/ Doing(e) \/ inbox[e] # <<>>
            \/ \E i \in 1..Len(starts[e]) : Wakes(e, starts[e][i])

AllBound == \A e \in Engine : Bound(e)

Tells(m) == m.kind \in {"start_wave", "first"} /\ m.wave = wave[0]

Unheard == \E s \in Sender : \E i \in 1..Len(notes[s]) : Tells(notes[s][i])

Stirring == AllBound \/ Unheard

AddInv(e, m) ==
    /\ m.wave <= wave[0] /\ home[m.req] = e /\ status[m.req] # "new"
    /\ m.wave = wave[0] => Stirring

StartInv(e, m) == m.wave <= wave[0] /\ (Wakes(e, m) => Stirring)

\* An engine that the answer to a note leaves out needs no waking.
NoteInv(s, m) ==
    /\ m.wave <= wave[0]
    /\ m.kind = "wave_complete" => m.wave < wave[0]
    /\ m.kind = "first" => m.wave <= cwave /\ (m.wave = wave[0] => Bound(m.engine))
    /\ m.kind = "start_wave" /\ m.wave = wave[0] => (s \in Engine => Bound(s))

Completes(m) == m.kind = "wave_complete" /\ m.wave = wave[0] - 1

CoordInv ==
    /\ cwave <= wave[0] /\ view.wave <= cwave
    /\ crunning \in BOOLEAN /\ view.running \in BOOLEAN
    /\ view.wave = cwave /\ view.running => crunning
    /\ cwave < wave[0] => \E i \in 1..Len(notes[0]) : Completes(notes[0][i])
    /\ cwave = wave[0] /\ crunning => AllBound

WakeInv ==
    /\ Calm /\ home \in [Req -> Engine] /\ CoordInv
    /\ \A e \in Engine : wave[e] = wave[0] /\ (Doing(e) => Stirring)
    /\ \A e \in Engine : \A i \in 1..Len(inbox[e]) : AddInv(e, inbox[e][i])
    /\ \A e \in Engine : \A i \in 1..Len(starts[e]) : StartInv(e, starts[e][i])
    /\ \A s \in Sender : \A i \in 1..Len(notes[s]) : NoteInv(s, notes[s][i])

AloneInv == npauses \in Nat /\ (npauses = 0 => WakeInv)

\* Who has work without a pause.
LEMMA CalmWork ==
    ASSUME Calm, NEW e \in Engine
    PROVE  Unfinished(e) = {r \in Req : home[r] = e /\ status[r] \in {"waiting", "running"}}
BY DEF Calm, Unfinished, Of

LEMMA CalmWorkNext ==
    ASSUME Calm', NEW e \in Engine
    PROVE  Unfinished(e)' = {r \in Req : home'[r] = e /\ status'[r] \in {"waiting", "running"}}
BY DEF Calm, Unfinished, Of

LEMMA DoingStays ==
    ASSUME Calm, Calm', NEW e \in Engine, Doing(e), running[e] => running'[e],
           pc[e] # "top" => running'[e] \/ pc'[e] # "top",
           \A r \in Req : home[r] = e /\ status[r] \in {"waiting", "running"} =>
               pc'[e] # "top" \/ (home'[r] = e /\ status'[r] \in {"waiting", "running"})
    PROVE  Doing(e)'
<1>1. CASE running[e] \/ pc[e] # "top"
  BY <1>1 DEF Doing
<1>2. CASE Unfinished(e) # {}
  <2>1. PICK r \in Req : home[r] = e /\ status[r] \in {"waiting", "running"}
    BY <1>2, CalmWork
  <2>2. CASE pc'[e] # "top"
    BY <2>2 DEF Doing
  <2>3. CASE home'[r] = e /\ status'[r] \in {"waiting", "running"}
    <3>1. r \in Unfinished(e)'
      BY <2>3, CalmWorkNext
    <3> QED
      BY <3>1 DEF Doing
  <2> QED
    BY <2>1, <2>2, <2>3
<1> QED
  BY <1>1, <1>2 DEF Doing

LEMMA BoundStays ==
    ASSUME NEW e \in Engine, Bound(e), wave' = wave, Doing(e) => Doing(e)',
           inbox[e] # <<>> => inbox'[e] # <<>> \/ Doing(e)',
           \A i \in 1..Len(starts[e]) : Wakes(e, starts[e][i]) =>
               Doing(e)' \/ \E j \in 1..Len(starts'[e]) : starts'[e][j] = starts[e][i]
    PROVE  Bound(e)'
<1>1. CASE Doing(e) \/ inbox[e] # <<>>
  BY <1>1 DEF Bound
<1>2. CASE \E i \in 1..Len(starts[e]) : Wakes(e, starts[e][i])
  <2>1. PICK i \in 1..Len(starts[e]) : Wakes(e, starts[e][i])
    BY <1>2
  <2>2. CASE Doing(e)'
    BY <2>2 DEF Bound
  <2>3. CASE \E j \in 1..Len(starts'[e]) : starts'[e][j] = starts[e][i]
    <3>1. PICK j \in 1..Len(starts'[e]) : starts'[e][j] = starts[e][i]
      BY <2>3
    <3>2. starts'[e][j].wave = wave'[0] /\ starts'[e][j].but # e
      BY <2>1, <3>1 DEF Wakes
    <3> QED
      BY <3>2 DEF Bound, Wakes
  <2> QED
    BY <2>1, <2>2, <2>3
<1> QED
  BY <1>1, <1>2 DEF Bound

\* A step that tells the coordinator at most more and answers nothing.
LEMMA StirringStays ==
    ASSUME wave' = wave, \A e \in Engine : Bound(e) => Bound(e)', Stirring,
           \A s \in Sender : \A i \in 1..Len(notes[s]) :
               i \in 1..Len(notes'[s]) /\ notes'[s][i] = notes[s][i]
    PROVE  Stirring'
<1>1. CASE AllBound
  BY <1>1 DEF AllBound, Stirring
<1>2. CASE Unheard
  <2>1. PICK s \in Sender : \E i \in 1..Len(notes[s]) : Tells(notes[s][i])
    BY <1>2 DEF Unheard
  <2>2. PICK i \in 1..Len(notes[s]) : Tells(notes[s][i])
    BY <2>1
  <2>3. i \in 1..Len(notes'[s]) /\ notes'[s][i] = notes[s][i]
    OBVIOUS
  <2>4. Tells(notes[s][i])'
    BY <2>2, <2>3 DEF Tells
  <2> QED
    BY <2>3, <2>4 DEF Unheard, Stirring
<1> QED
  BY <1>1, <1>2 DEF Stirring

\* A note stays right.
LEMMA NoteStays ==
    ASSUME NEW s \in Sender, NEW m \in Notes, NoteInv(s, m), wave' = wave,
           \A e \in Engine : Bound(e) => Bound(e)', cwave \in Nat, cwave' \in Nat, cwave <= cwave'
    PROVE  NoteInv(s, m)'
<1>1. m.wave \in Nat /\ (m.kind = "first" => m.engine \in Engine)
  BY DEF Notes
<1>2. m.kind = "first" => m.wave <= cwave'
  BY <1>1 DEF NoteInv
<1> QED
  BY <1>1, <1>2 DEF NoteInv

LEMMA Steady ==
    ASSUME TypeInv, TypeInv', WakeInv, Calm', wave' = wave, UNCHANGED <<cwave, crunning>>,
           view' = view \/ view' = [wave |-> cwave, running |-> crunning],
           \A e \in Engine : Bound(e) => Bound(e)',
           \A s \in Sender : \A i \in 1..Len(notes[s]) :
               i \in 1..Len(notes'[s]) /\ notes'[s][i] = notes[s][i],
           \A s \in Sender : \A j \in 1..Len(notes'[s]) :
               j \in 1..Len(notes[s]) \/ \E m \in Notes : notes'[s][j] = m /\ NoteInv(s, m)',
           \A e \in Engine : Doing(e)' => Doing(e) \/ Stirring',
           \A e \in Engine : \A j \in 1..Len(inbox'[e]) :
               \/ \E i \in 1..Len(inbox[e]) : inbox'[e][j] = inbox[e][i]
               \/ \E m \in Messages : inbox'[e][j] = m /\ AddInv(e, m)',
           \A e \in Engine : \A j \in 1..Len(starts'[e]) :
               \E i \in 1..Len(starts[e]) : starts'[e][j] = starts[e][i],
           home' \in [Req -> Engine],
           \A r \in Req : status[r] # "new" => home'[r] = home[r] /\ status'[r] # "new"
    PROVE  WakeInv'
<1>1. Stirring => Stirring'
  BY StirringStays
<1>2. \A e \in Engine : wave'[e] = wave'[0] /\ (Doing(e)' => Stirring')
  BY <1>1 DEF WakeInv
<1>3. CoordInv'
  <2>1. CoordInv /\ cwave \in Nat /\ wave[0] \in Nat
    BY Engines DEF WakeInv, TypeInv, EngineTypes, MessageTypes
  <2>2. /\ view'.wave <= cwave /\ view'.running \in BOOLEAN
        /\ view'.wave = cwave /\ view'.running => crunning
    BY <2>1 DEF CoordInv
  <2>3. AllBound => AllBound'
    BY DEF AllBound
  <2>4. cwave < wave[0] => \E i \in 1..Len(notes'[0]) : Completes(notes[0][i])'
    <3>1. SUFFICES ASSUME cwave < wave[0]
                   PROVE  \E i \in 1..Len(notes'[0]) : Completes(notes[0][i])'
      OBVIOUS
    <3>2. PICK i \in 1..Len(notes[0]) : Completes(notes[0][i])
      BY <2>1, <3>1 DEF CoordInv
    <3>3. i \in 1..Len(notes'[0]) /\ notes'[0][i] = notes[0][i]
      BY Engines
    <3> QED
      BY <3>2, <3>3 DEF Completes
  <2> QED
    BY <2>1, <2>2, <2>3, <2>4 DEF CoordInv
<1>4. ASSUME NEW e \in Engine, NEW j \in 1..Len(inbox'[e])
      PROVE  AddInv(e, inbox[e][j])'
  <2>1. CASE \E i \in 1..Len(inbox[e]) : inbox'[e][j] = inbox[e][i]
    <3>1. PICK i \in 1..Len(inbox[e]) : inbox'[e][j] = inbox[e][i]
      BY <2>1
    <3>2. PICK m : m = inbox[e][i]
      OBVIOUS
    <3>3. AddInv(e, m) /\ m.kind = "add"
      BY <3>2 DEF WakeInv, Calm
    <3>4. m \in Messages
      BY <3>2 DEF TypeInv, MessageTypes
    <3>5. m.req \in Req
      BY <3>3, <3>4 DEF Messages
    <3>6. home'[m.req] = e /\ status'[m.req] # "new"
      BY <3>3, <3>5 DEF AddInv
    <3> QED
      BY <1>1, <3>1, <3>2, <3>3, <3>6 DEF AddInv
  <2>2. CASE \E m \in Messages : inbox'[e][j] = m /\ AddInv(e, m)'
    BY <2>2 DEF AddInv
  <2> QED
    BY <2>1, <2>2
<1>5. ASSUME NEW e \in Engine, NEW j \in 1..Len(starts'[e])
      PROVE  StartInv(e, starts[e][j])'
  <2>1. PICK i \in 1..Len(starts[e]) : starts'[e][j] = starts[e][i]
    OBVIOUS
  <2>2. StartInv(e, starts[e][i])
    BY DEF WakeInv
  <2> QED
    BY <1>1, <2>1, <2>2 DEF StartInv, Wakes
<1>6. ASSUME NEW s \in Sender, NEW j \in 1..Len(notes'[s])
      PROVE  NoteInv(s, notes[s][j])'
  <2>1. PICK m : m = notes'[s][j]
    OBVIOUS
  <2>2. CASE j \in 1..Len(notes[s])
    <3>1. m = notes[s][j] /\ m \in Notes
      BY <2>1, <2>2 DEF TypeInv, MessageTypes
    <3>2. NoteInv(s, m)
      BY <2>2, <3>1 DEF WakeInv
    <3>3. cwave \in Nat /\ cwave' \in Nat /\ cwave <= cwave'
      BY DEF TypeInv, MessageTypes
    <3>4. NoteInv(s, m)'
      BY <3>1, <3>2, <3>3, NoteStays
    <3> QED
      BY <2>1, <3>4 DEF NoteInv
  <2>3. CASE \E n \in Notes : notes'[s][j] = n /\ NoteInv(s, n)'
    BY <2>3 DEF NoteInv
  <2> QED
    BY <2>2, <2>3
<1> QED
  BY <1>2, <1>3, <1>4, <1>5, <1>6 DEF WakeInv

\* The queues of a step that leaves them alone.
LEMMA SameQueue ==
    ASSUME NEW Q, NEW P, P = Q, NEW d
    PROVE  /\ \A i \in 1..Len(Q[d]) : i \in 1..Len(P[d]) /\ P[d][i] = Q[d][i]
           /\ \A j \in 1..Len(P[d]) : j \in 1..Len(Q[d]) /\ P[d][j] = Q[d][j]
OBVIOUS

LEMMA Longer ==
    ASSUME NEW D, NEW S, NEW Q \in [D -> Seq(S)], NEW x \in S, NEW c \in D,
           NEW P, P = [Q EXCEPT ![c] = Append(@, x)]
    PROVE  /\ \A d \in D : \A i \in 1..Len(Q[d]) : i \in 1..Len(P[d]) /\ P[d][i] = Q[d][i]
           /\ \A d \in D : \A j \in 1..Len(P[d]) :
                  j \in 1..Len(Q[d]) \/ (d = c /\ P[d][j] = x)
           /\ P[c] # <<>> /\ Len(P[c]) \in Nat \ {0} /\ P[c][Len(P[c])] = x
<1>1. \A d \in D : d # c => P[d] = Q[d]
  OBVIOUS
<1>2. PICK q \in Seq(S) : q = Q[c]
  OBVIOUS
<1>3. P[c] = Append(q, x)
  BY <1>2
<1>4. /\ Len(q) \in Nat /\ Len(Append(q, x)) = Len(q) + 1
      /\ \A i \in 1..Len(q) : Append(q, x)[i] = q[i]
      /\ Append(q, x)[Len(q) + 1] = x /\ Append(q, x) \in Seq(S)
  BY Appended
<1>5. \A i \in 1..Len(q) : i \in 1..Len(P[c]) /\ P[c][i] = q[i]
  BY <1>3, <1>4
<1>6. \A j \in 1..Len(P[c]) : j \in 1..Len(q) \/ P[c][j] = x
  BY <1>3, <1>4
<1>7. P[c] # <<>> /\ Len(P[c]) \in Nat \ {0} /\ P[c][Len(P[c])] = x
  BY <1>3, <1>4
<1> QED
  BY <1>1, <1>2, <1>5, <1>6, <1>7

LEMMA Remains ==
    ASSUME NEW S, NEW q \in Seq(S), q # <<>>, NEW i \in 1..Len(q), i # 1
    PROVE  \E j \in 1..Len(Tail(q)) : Tail(q)[j] = q[i]
<1>1. /\ Len(q) \in Nat \ {0} /\ Len(Tail(q)) = Len(q) - 1
      /\ \A k \in 1..Len(Tail(q)) : Tail(q)[k] = q[k+1]
  BY HeadTail
<1>2. i - 1 \in 1..Len(Tail(q)) /\ (i - 1) + 1 = i
  BY <1>1
<1>3. Tail(q)[i-1] = q[i]
  BY <1>1, <1>2
<1> QED
  BY <1>2, <1>3

LEMMA Shorter ==
    ASSUME NEW D, NEW S, NEW Q \in [D -> Seq(S)], NEW c \in D, Q[c] # <<>>,
           NEW P, P = [Q EXCEPT ![c] = Tail(@)]
    PROVE  /\ \A d \in D : \A j \in 1..Len(P[d]) :
                  \E i \in 1..Len(Q[d]) : P[d][j] = Q[d][i]
           /\ 1 \in 1..Len(Q[c]) /\ Head(Q[c]) = Q[c][1] /\ Head(Q[c]) \in S
<1>1. \A d \in D : d # c => P[d] = Q[d]
  OBVIOUS
<1>2. PICK q \in Seq(S) : q = Q[c]
  OBVIOUS
<1>3. P[c] = Tail(q) /\ q # <<>>
  BY <1>2
<1>4. /\ Len(q) \in Nat \ {0} /\ Head(q) \in S /\ Head(q) = q[1]
      /\ Len(Tail(q)) = Len(q) - 1 /\ \A i \in 1..Len(Tail(q)) : Tail(q)[i] = q[i+1]
  BY <1>3, HeadTail
<1>5. \A j \in 1..Len(P[c]) : j + 1 \in 1..Len(q) /\ P[c][j] = q[j+1]
  <2>1. PICK n, t : n = Len(q) /\ t = Tail(q)
    OBVIOUS
  <2>2. n \in Nat \ {0} /\ Len(t) = n - 1 /\ \A i \in 1..Len(t) : t[i] = q[i+1]
    BY <1>4, <2>1
  <2>3. \A j \in 1..Len(t) : j + 1 \in 1..n
    BY <2>2
  <2> QED
    BY <1>3, <2>1, <2>2, <2>3
<1>6. 1 \in 1..Len(q)
  BY <1>4
<1>7. \A d \in D : \A j \in 1..Len(P[d]) : \E i \in 1..Len(Q[d]) : P[d][j] = Q[d][i]
  <2> TAKE d \in D
  <2>1. CASE d = c
    BY <1>2, <1>5, <2>1
  <2>2. CASE d # c
    BY <1>1, <2>2
  <2> QED
    BY <2>1, <2>2
<1> QED
  BY <1>2, <1>4, <1>6, <1>7

\* The engines' own steps.
LEMMA WakeGo == ASSUME TypeInv, TypeInv', WakeInv, NEW e \in Engine, Go(e) PROVE WakeInv'
<1> USE DEF coord, client
<1>0. /\ Calm /\ UNCHANGED <<running, wave, pending, ignore, pauseState, home, inbox, notes,
                             cwave, crunning, starts, view, asked>>
      /\ pc[e] = "top" /\ HasWork(e) /\ pc' = [pc EXCEPT ![e] = "forward"]
      /\ status' = [r \in Req |-> IF r \in Unfinished(e) THEN "running" ELSE status[r]]
  BY DEF Go, WakeInv
<1>1. \A f \in Engine : pc'[f] = IF f = e THEN "forward" ELSE pc[f]
  BY <1>0 DEF TypeInv, EngineTypes
<1>2. Calm'
  BY <1>0, <1>1 DEF Calm
<1>3. Doing(e)
  BY <1>0 DEF HasWork, Doing
<1>4. \A r \in Req : status[r] \in {"waiting", "running"} => status'[r] \in {"waiting", "running"}
  BY <1>0
<1>5. \A f \in Engine : Doing(f) => Doing(f)'
  BY <1>0, <1>1, <1>2, <1>4, DoingStays
<1>6. ASSUME NEW f \in Engine, Bound(f) PROVE Bound(f)'
  BY <1>0, <1>5, <1>6, BoundStays
<1>7. ASSUME NEW f \in Engine, Doing(f)' PROVE Doing(f)
  <2>1. CASE f = e
    BY <1>3, <2>1
  <2>2. CASE running'[f] \/ pc'[f] # "top"
    BY <1>0, <1>1, <1>3, <2>2 DEF Doing
  <2>3. CASE Unfinished(f)' # {}
    <3>1. PICK r \in Req : home'[r] = f /\ status'[r] \in {"waiting", "running"}
      BY <1>2, <2>3, CalmWorkNext
    <3>2. r \in Unfinished(e) => home[r] = e /\ status[r] \in {"waiting", "running"}
      BY <1>0, CalmWork
    <3>3. home[r] = f /\ status[r] \in {"waiting", "running"}
      BY <1>0, <3>1, <3>2
    <3>4. r \in Unfinished(f)
      BY <1>0, <3>3, CalmWork
    <3> QED
      BY <3>4 DEF Doing
  <2> QED
    BY <1>7, <2>2, <2>3 DEF Doing
<1>8. home' \in [Req -> Engine] /\ \A r \in Req : status[r] # "new" => home'[r] = home[r] /\ status'[r] # "new"
  BY <1>0 DEF WakeInv
<1>9. /\ \A s \in Sender : \A i \in 1..Len(notes[s]) :
             i \in 1..Len(notes'[s]) /\ notes'[s][i] = notes[s][i]
      /\ \A s \in Sender : \A j \in 1..Len(notes'[s]) : j \in 1..Len(notes[s])
      /\ \A f \in Engine : \A j \in 1..Len(inbox'[f]) :
             \E i \in 1..Len(inbox[f]) : inbox'[f][j] = inbox[f][i]
      /\ \A f \in Engine : \A j \in 1..Len(starts'[f]) :
             \E i \in 1..Len(starts[f]) : starts'[f][j] = starts[f][i]
  BY <1>0, SameQueue
<1> QED
  BY <1>0, <1>2, <1>6, <1>7, <1>8, <1>9, Steady

LEMMA WakeForward == ASSUME TypeInv, TypeInv', WakeInv, Forward PROVE WakeInv'
<1> USE DEF coord, client
<1>0. /\ Calm /\ UNCHANGED <<running, wave, pending, ignore, pauseState, home, inbox, notes,
                             cwave, crunning, starts, view, asked>>
      /\ pc' = [f \in Engine |-> "after"]
      /\ status' = [r \in Req |-> IF r \in Computed /\ left[r] = 1 THEN "done" ELSE status[r]]
  BY DEF Forward, WakeInv
<1>1. \A f \in Engine : pc'[f] = "after"
  BY <1>0
<1>2. Calm'
  BY <1>0, <1>1 DEF Calm
<1>3. \A f \in Engine : Doing(f)' /\ Bound(f)'
  BY <1>1 DEF Doing, Bound
<1>4. Stirring'
  BY <1>3 DEF Stirring, AllBound
<1>5. home' \in [Req -> Engine] /\ \A r \in Req : status[r] # "new" => home'[r] = home[r] /\ status'[r] # "new"
  BY <1>0 DEF WakeInv
<1>6. /\ \A s \in Sender : \A i \in 1..Len(notes[s]) :
             i \in 1..Len(notes'[s]) /\ notes'[s][i] = notes[s][i]
      /\ \A s \in Sender : \A j \in 1..Len(notes'[s]) : j \in 1..Len(notes[s])
      /\ \A f \in Engine : \A j \in 1..Len(inbox'[f]) :
             \E i \in 1..Len(inbox[f]) : inbox'[f][j] = inbox[f][i]
      /\ \A f \in Engine : \A j \in 1..Len(starts'[f]) :
             \E i \in 1..Len(starts[f]) : starts'[f][j] = starts[f][i]
  BY <1>0, SameQueue
<1> QED
  BY <1>0, <1>2, <1>3, <1>4, <1>5, <1>6, Steady

\* A note that is sent.
LEMMA NoteSent ==
    ASSUME TypeInv, NEW s \in Sender, NEW m \in Notes, Note(s, m), NoteInv(s, m)'
    PROVE  /\ \A t \in Sender : \A i \in 1..Len(notes[t]) :
                  i \in 1..Len(notes'[t]) /\ notes'[t][i] = notes[t][i]
           /\ \A t \in Sender : \A j \in 1..Len(notes'[t]) :
                  j \in 1..Len(notes[t]) \/ \E n \in Notes : notes'[t][j] = n /\ NoteInv(t, n)'
           /\ m.kind \in {"start_wave", "first"} /\ m.wave = wave'[0] => Unheard'
<1>1. notes \in [Sender -> Seq(Notes)] /\ notes' = [notes EXCEPT ![s] = Append(@, m)]
  BY DEF Note, TypeInv, MessageTypes
<1>2. /\ \A t \in Sender : \A i \in 1..Len(notes[t]) :
             i \in 1..Len(notes'[t]) /\ notes'[t][i] = notes[t][i]
      /\ \A t \in Sender : \A j \in 1..Len(notes'[t]) :
             j \in 1..Len(notes[t]) \/ (t = s /\ notes'[t][j] = m)
      /\ Len(notes'[s]) \in Nat \ {0} /\ notes'[s][Len(notes'[s])] = m
  BY <1>1, Longer
<1>3. \A t \in Sender : \A j \in 1..Len(notes'[t]) :
          j \in 1..Len(notes[t]) \/ \E n \in Notes : notes'[t][j] = n /\ NoteInv(t, n)'
  BY <1>2
<1>4. ASSUME m.kind \in {"start_wave", "first"}, m.wave = wave'[0] PROVE Unheard'
  <2>1. PICK i \in 1..Len(notes'[s]) : notes'[s][i] = m
    BY <1>2
  <2>2. notes'[s][i].kind \in {"start_wave", "first"} /\ notes'[s][i].wave = wave'[0]
    BY <1>4, <2>1
  <2> QED
    BY <2>2 DEF Unheard, Tells
<1> QED
  BY <1>2, <1>3, <1>4

LEMMA NotesSame ==
    ASSUME UNCHANGED notes
    PROVE  /\ \A t \in Sender : \A i \in 1..Len(notes[t]) :
                  i \in 1..Len(notes'[t]) /\ notes'[t][i] = notes[t][i]
           /\ \A t \in Sender : \A j \in 1..Len(notes'[t]) : j \in 1..Len(notes[t])
OBVIOUS

LEMMA WakeAfter == ASSUME TypeInv, TypeInv', WakeInv, NEW e \in Engine, After(e) PROVE WakeInv'
<1> USE DEF client, reqs
<1>0. /\ Calm /\ UNCHANGED <<wave, pending, ignore, pauseState, status, home, inbox,
                             cwave, crunning, starts, view, asked>>
      /\ pc[e] = "after" /\ e \in Sender
  BY Engines DEF After, WakeInv
<1>1. /\ \A f \in Engine : running[f] => running'[f]
      /\ \A f \in Engine : f # e => pc'[f] = pc[f] /\ running'[f] = running[f]
      /\ running'[e] \/ pc'[e] # "top"
      /\ \A f \in Engine : pc'[f] \in {"top", "sync"} \/ pc'[f] = pc[f]
  BY <1>0 DEF After, TypeInv, EngineTypes
<1>2. Calm'
  BY <1>0, <1>1 DEF Calm
<1>3. \A f \in Engine : Doing(f) => Doing(f)'
  BY <1>0, <1>1, <1>2, DoingStays
<1>4. \A f \in Engine : Bound(f) => Bound(f)'
  BY <1>0, <1>3, BoundStays
<1>5. Doing(e) /\ Bound(e)
  BY <1>0 DEF Doing, Bound
<1>6. ASSUME NEW f \in Engine, Doing(f)' PROVE Doing(f)
  <2>1. CASE f = e
    BY <1>5, <2>1
  <2>2. CASE f # e
    <3>1. Unfinished(f)' = Unfinished(f)
      BY <1>0, <1>2, CalmWork, CalmWorkNext
    <3> QED
      BY <1>1, <1>6, <2>2, <3>1 DEF Doing
  <2> QED
    BY <2>1, <2>2
<1>7. PICK m : m = [kind |-> "start_wave", wave |-> wave[e]]
  OBVIOUS
<1>8. m \in Notes /\ NoteInv(e, m)'
  <2>1. wave[e] = wave[0] /\ wave[0] \in Nat /\ wave[e] \in Nat
    BY Engines DEF WakeInv, TypeInv, EngineTypes
  <2>2. m \in Notes
    BY <1>7, <2>1 DEF Notes
  <2>3. m.wave <= wave'[0] /\ m.kind = "start_wave"
    BY <1>0, <1>7, <2>1
  <2> QED
    BY <1>4, <1>5, <2>2, <2>3 DEF NoteInv
<1>9. UNCHANGED notes \/ Note(e, m)
  BY <1>7 DEF After
<1>10. /\ \A t \in Sender : \A i \in 1..Len(notes[t]) :
              i \in 1..Len(notes'[t]) /\ notes'[t][i] = notes[t][i]
       /\ \A t \in Sender : \A j \in 1..Len(notes'[t]) :
              j \in 1..Len(notes[t]) \/ \E n \in Notes : notes'[t][j] = n /\ NoteInv(t, n)'
  BY <1>0, <1>8, <1>9, NoteSent, NotesSame
<1>11. home' \in [Req -> Engine] /\ \A r \in Req : status[r] # "new" => home'[r] = home[r] /\ status'[r] # "new"
  BY <1>0 DEF WakeInv
<1>12. /\ \A f \in Engine : \A j \in 1..Len(inbox'[f]) :
             \E i \in 1..Len(inbox[f]) : inbox'[f][j] = inbox[f][i]
       /\ \A f \in Engine : \A j \in 1..Len(starts'[f]) :
             \E i \in 1..Len(starts[f]) : starts'[f][j] = starts[f][i]
  BY <1>0, SameQueue
<1> QED
  BY <1>0, <1>2, <1>4, <1>6, <1>10, <1>11, <1>12, Steady

LEMMA WakeTakeStart ==
    ASSUME TypeInv, TypeInv', WakeInv, NEW e \in Engine, TakeStart(e) PROVE WakeInv'
<1> USE DEF client, reqs
<1>0. /\ Calm /\ UNCHANGED <<pending, ignore, pauseState, pc, status, home, inbox, notes,
                             cwave, crunning, view, asked>>
      /\ starts[e] # <<>> /\ starts' = [starts EXCEPT ![e] = Tail(@)]
  BY DEF TakeStart, WakeInv
<1>1. PICK S : S = [wave : Nat, but : Sender]
  OBVIOUS
<1>2. PICK m : m = Head(starts[e])
  OBVIOUS
<1>3. starts \in [Engine -> Seq(S)]
  BY <1>1 DEF TypeInv, MessageTypes
<1>4. /\ \A f \in Engine : \A j \in 1..Len(starts'[f]) :
             \E i \in 1..Len(starts[f]) : starts'[f][j] = starts[f][i]
      /\ \A f \in Engine : \A i \in 1..Len(starts[f]) :
             \/ f = e /\ i = 1
             \/ \E j \in 1..Len(starts'[f]) : starts'[f][j] = starts[f][i]
      /\ 1 \in 1..Len(starts[e]) /\ m = starts[e][1] /\ m \in S
  <2>1. PICK Q \in [Engine -> Seq(S)] : Q = starts
    BY <1>3
  <2>2. PICK P : P = starts'
    OBVIOUS
  <2>3. Q[e] # <<>> /\ P = [Q EXCEPT ![e] = Tail(@)]
    BY <1>0, <2>1, <2>2
  <2>4. \A f \in Engine : \A j \in 1..Len(P[f]) : \E i \in 1..Len(Q[f]) : P[f][j] = Q[f][i]
    BY <2>3, Shorter
  <2>5. ASSUME NEW f \in Engine, NEW i \in 1..Len(Q[f]), f # e \/ i # 1
        PROVE  \E j \in 1..Len(P[f]) : P[f][j] = Q[f][i]
    <3>1. CASE f # e
      <4>1. P[f] = Q[f]
        BY <2>3, <3>1
      <4> QED
        BY <4>1
    <3>2. CASE f = e
      <4>1. PICK q \in Seq(S) : q = Q[e]
        OBVIOUS
      <4>2. P[f] = Tail(q) /\ q # <<>> /\ i \in 1..Len(q) /\ i # 1 /\ Q[f] = q
        BY <2>3, <2>5, <3>2, <4>1
      <4>3. \E j \in 1..Len(Tail(q)) : Tail(q)[j] = q[i]
        BY <4>2, Remains
      <4> QED
        BY <4>2, <4>3
    <3> QED
      BY <3>1, <3>2
  <2>6. 1 \in 1..Len(Q[e]) /\ Head(Q[e]) = Q[e][1] /\ Head(Q[e]) \in S
    BY <2>3, Shorter
  <2>7. \A f \in Engine : \A j \in 1..Len(starts'[f]) :
            \E i \in 1..Len(starts[f]) : starts'[f][j] = starts[f][i]
    BY <2>1, <2>2, <2>4
  <2>8. \A f \in Engine : \A i \in 1..Len(starts[f]) :
            (f = e /\ i = 1) \/ \E j \in 1..Len(starts'[f]) : starts'[f][j] = starts[f][i]
    BY <2>1, <2>2, <2>5
  <2>9. 1 \in 1..Len(starts[e]) /\ m = starts[e][1] /\ m \in S
    BY <1>2, <2>1, <2>6
  <2> QED
    BY <2>7, <2>8, <2>9
<1>5. StartInv(e, m) /\ m.wave \in Nat /\ wave[0] \in Nat /\ wave[e] = wave[0]
  BY <1>1, <1>4, Engines DEF WakeInv, TypeInv, EngineTypes
<1>6. ~ignore[e]
  BY DEF WakeInv, Calm
<1>7. Starts(e, m) <=> Wakes(e, m)
  BY <1>5, <1>6 DEF Starts, Wakes, StartInv
<1>8. wave' = wave /\ running' = IF Wakes(e, m) THEN [running EXCEPT ![e] = TRUE] ELSE running
  <2>1. wave' = IF Starts(e, m) THEN [wave EXCEPT ![e] = m.wave] ELSE wave
    BY <1>2 DEF TakeStart
  <2>2. Wakes(e, m) => m.wave = wave[e]
    BY <1>5 DEF Wakes
  <2>3. wave' = wave
    BY <1>7, <2>1, <2>2 DEF TypeInv, EngineTypes
  <2> QED
    BY <1>2, <1>7, <2>3 DEF TakeStart
<1>9. /\ \A f \in Engine : running[f] => running'[f]
      /\ \A f \in Engine : f # e => running'[f] = running[f]
      /\ Wakes(e, m) => running'[e]
  BY <1>8 DEF TypeInv, EngineTypes
<1>10. Calm'
  BY <1>0 DEF Calm
<1>11. \A f \in Engine : Doing(f) => Doing(f)'
  BY <1>0, <1>9, <1>10, DoingStays
<1>12. ASSUME NEW f \in Engine, Bound(f) PROVE Bound(f)'
  <2>1. ASSUME NEW i \in 1..Len(starts[f]), Wakes(f, starts[f][i])
        PROVE  Doing(f)' \/ \E j \in 1..Len(starts'[f]) : starts'[f][j] = starts[f][i]
    <3>1. CASE f = e /\ i = 1
      <4>1. running'[f]
        BY <1>4, <1>9, <2>1, <3>1
      <4> QED
        BY <4>1 DEF Doing
    <3> QED
      BY <1>4, <3>1
  <2> QED
    BY <1>0, <1>8, <1>11, <1>12, <2>1, BoundStays
<1>13. Stirring => Stirring'
  <2>1. \A s \in Sender : \A i \in 1..Len(notes[s]) :
            i \in 1..Len(notes'[s]) /\ notes'[s][i] = notes[s][i]
    BY <1>0, NotesSame
  <2> QED
    BY <1>8, <1>12, <2>1, StirringStays
<1>14. ASSUME NEW f \in Engine, Doing(f)' PROVE Doing(f) \/ Stirring'
  <2>1. CASE Wakes(e, m)
    BY <1>5, <1>13, <2>1 DEF StartInv
  <2>2. CASE ~Wakes(e, m)
    <3>1. Unfinished(f)' = Unfinished(f)
      BY <1>0, <1>10, CalmWork, CalmWorkNext
    <3> QED
      BY <1>0, <1>8, <1>14, <2>2, <3>1 DEF Doing
  <2> QED
    BY <2>1, <2>2
<1>15. home' \in [Req -> Engine] /\ \A r \in Req : status[r] # "new" => home'[r] = home[r] /\ status'[r] # "new"
  BY <1>0 DEF WakeInv
<1>16. /\ \A s \in Sender : \A i \in 1..Len(notes[s]) :
              i \in 1..Len(notes'[s]) /\ notes'[s][i] = notes[s][i]
       /\ \A s \in Sender : \A j \in 1..Len(notes'[s]) : j \in 1..Len(notes[s])
       /\ \A f \in Engine : \A j \in 1..Len(inbox'[f]) :
             \E i \in 1..Len(inbox[f]) : inbox'[f][j] = inbox[f][i]
  BY <1>0, SameQueue
<1> QED
  BY <1>0, <1>4, <1>8, <1>10, <1>12, <1>14, <1>15, <1>16, Steady

LEMMA WakeSend ==
    ASSUME TypeInv, TypeInv', WakeInv, NEW r \in Req, NEW e \in Engine, Send(r, e) PROVE WakeInv'
<1> USE DEF client, engines
<1>0. /\ Calm /\ UNCHANGED <<running, wave, pending, ignore, pauseState, pc, cwave, crunning,
                             starts, view, asked>>
      /\ status[r] = "new" /\ status' = [status EXCEPT ![r] = "sent"]
      /\ home' = [home EXCEPT ![r] = e]
  BY DEF Send, WakeInv
<1>1. PICK m, n : /\ m = [kind |-> "add", req |-> r, wave |-> view.wave]
                  /\ n = [kind |-> "first", engine |-> e, wave |-> view.wave]
  OBVIOUS
<1>2. /\ m \in Messages /\ n \in Notes /\ view.wave \in Nat /\ cwave \in Nat /\ wave[0] \in Nat
      /\ inbox \in [Engine -> Seq(Messages)]
  <2>1. /\ view.wave \in Nat /\ cwave \in Nat /\ wave[0] \in Nat
        /\ inbox \in [Engine -> Seq(Messages)]
    BY Engines DEF TypeInv, EngineTypes, MessageTypes
  <2> QED
    BY <1>1, <2>1 DEF Messages, Notes
<1>3. inbox' = [inbox EXCEPT ![e] = Append(@, m)] /\ (IF view.running THEN UNCHANGED notes ELSE Note(N, n))
  BY <1>1 DEF Send
<1>4. /\ \A f \in Engine : \A i \in 1..Len(inbox[f]) :
             i \in 1..Len(inbox'[f]) /\ inbox'[f][i] = inbox[f][i]
      /\ \A f \in Engine : \A j \in 1..Len(inbox'[f]) :
             j \in 1..Len(inbox[f]) \/ (f = e /\ inbox'[f][j] = m)
      /\ inbox'[e] # <<>>
  BY <1>2, <1>3, Longer
<1>5. \A f \in Engine : inbox[f] # <<>> => inbox'[f] # <<>>
  BY <1>2, <1>3, <1>4
<1>6. /\ \A q \in Req : home'[q] = (IF q = r THEN e ELSE home[q])
      /\ \A q \in Req : status'[q] = (IF q = r THEN "sent" ELSE status[q])
      /\ home' \in [Req -> Engine]
  BY <1>0 DEF WakeInv, TypeInv
<1>7. Calm'
  <2>1. \A f \in Engine : \A j \in 1..Len(inbox'[f]) : inbox'[f][j].kind = "add"
    <3>1. m.kind = "add"
      BY <1>1
    <3> QED
      BY <1>0, <1>4, <3>1 DEF Calm
  <2> QED
    BY <1>0, <2>1 DEF Calm
<1>8. \A f \in Engine : Unfinished(f)' = Unfinished(f)
  BY <1>0, <1>6, <1>7, CalmWork, CalmWorkNext
<1>9. \A f \in Engine : Doing(f)' <=> Doing(f)
  BY <1>0, <1>8 DEF Doing
<1>10. \A f \in Engine : Bound(f) => Bound(f)'
  BY <1>0, <1>5, <1>9, BoundStays
<1>11. NoteInv(N, n)'
  <2>1. n.kind = "first" /\ n.engine = e /\ n.wave = view.wave
    BY <1>1
  <2>2. Bound(e)'
    BY <1>4 DEF Bound
  <2>3. view.wave <= cwave /\ cwave <= wave[0]
    BY DEF WakeInv, CoordInv
  <2> QED
    BY <1>0, <1>2, <2>1, <2>2, <2>3 DEF NoteInv
<1>12. /\ \A t \in Sender : \A i \in 1..Len(notes[t]) :
              i \in 1..Len(notes'[t]) /\ notes'[t][i] = notes[t][i]
       /\ \A t \in Sender : \A j \in 1..Len(notes'[t]) :
              j \in 1..Len(notes[t]) \/ \E x \in Notes : notes'[t][j] = x /\ NoteInv(t, x)'
  BY <1>2, <1>3, <1>11, Engines, NoteSent, NotesSame
<1>13. AddInv(e, m)'
  <2>1. m.wave = view.wave /\ m.req = r
    BY <1>1
  <2>2. view.wave <= cwave /\ cwave <= wave[0]
    BY DEF WakeInv, CoordInv
  <2>3. ASSUME view.wave = wave[0] PROVE Stirring'
    <3>1. cwave = wave[0] /\ view.wave = cwave
      BY <1>2, <2>2, <2>3
    <3>2. CASE view.running
      <4>1. AllBound
        BY <3>1, <3>2 DEF WakeInv, CoordInv
      <4> QED
        BY <1>10, <4>1 DEF AllBound, Stirring
    <3>3. CASE ~view.running
      <4>1. n.kind = "first" /\ n.wave = wave'[0]
        BY <1>0, <1>1, <2>3
      <4>2. Unheard'
        BY <1>2, <1>3, <1>11, <3>3, <4>1, Engines, NoteSent
      <4> QED
        BY <4>2 DEF Stirring
    <3> QED
      BY <3>2, <3>3
  <2>4. m.wave <= wave'[0]
    BY <1>0, <1>2, <2>1, <2>2
  <2> QED
    BY <1>0, <1>6, <2>1, <2>3, <2>4 DEF AddInv
<1>14. \A f \in Engine : \A j \in 1..Len(inbox'[f]) :
           \/ \E i \in 1..Len(inbox[f]) : inbox'[f][j] = inbox[f][i]
           \/ \E x \in Messages : inbox'[f][j] = x /\ AddInv(f, x)'
  BY <1>2, <1>4, <1>13
<1>15. \A q \in Req : status[q] # "new" => home'[q] = home[q] /\ status'[q] # "new"
  BY <1>0, <1>6
<1>16. \A f \in Engine : \A j \in 1..Len(starts'[f]) :
           \E i \in 1..Len(starts[f]) : starts'[f][j] = starts[f][i]
  BY <1>0, SameQueue
<1> QED
  BY <1>0, <1>6, <1>7, <1>9, <1>10, <1>12, <1>14, <1>15, <1>16, Steady

LEMMA WakeTakeAdd ==
    ASSUME TypeInv, TypeInv', WakeInv, NEW e \in Engine, TakeAdd(e) PROVE WakeInv'
<1> USE DEF client
<1>0. /\ Calm /\ UNCHANGED <<pending, ignore, pauseState, pc, home, cwave, crunning, starts,
                             view, asked>>
      /\ pc[e] = "top" /\ inbox[e] # <<>> /\ inbox' = [inbox EXCEPT ![e] = Tail(@)]
  BY DEF TakeAdd, WakeInv
<1>1. PICK m : m = Head(inbox[e])
  OBVIOUS
<1>2. inbox \in [Engine -> Seq(Messages)]
  BY DEF TypeInv, MessageTypes
<1>3. /\ \A f \in Engine : \A j \in 1..Len(inbox'[f]) :
             \E i \in 1..Len(inbox[f]) : inbox'[f][j] = inbox[f][i]
      /\ 1 \in 1..Len(inbox[e]) /\ m = inbox[e][1] /\ m \in Messages
  BY <1>0, <1>1, <1>2, Shorter
<1>4. m.kind = "add" /\ AddInv(e, m)
  BY <1>3 DEF WakeInv, Calm
<1>5. m.req \in Req /\ m.wave \in Nat /\ wave[0] \in Nat /\ wave[e] = wave[0] /\ home[m.req] = e
  BY <1>3, <1>4, Engines DEF Messages, WakeInv, TypeInv, EngineTypes, AddInv
<1>6. PICK late \in BOOLEAN : late <=> m.wave < wave[e] /\ ~running[e]
  OBVIOUS
<1>7. PICK n : n = [kind |-> "start_wave", wave |-> wave[e]]
  OBVIOUS
<1>8. /\ wave' = wave
      /\ running' = [running EXCEPT ![e] = running[e] \/ late]
      /\ IF late THEN Note(e, n) ELSE UNCHANGED notes
      /\ status' = [status EXCEPT ![m.req] = "waiting"]
  <2>1. AddRequest(e, m) /\ status' = [status EXCEPT ![m.req] = "waiting"]
    BY <1>1 DEF TakeAdd
  <2>2. pauseState[e] = "unpaused"
    BY <1>0 DEF Calm
  <2>3. ~(m.wave > wave[e])
    BY <1>4, <1>5 DEF AddInv
  <2>4. wave' = wave
    BY <2>1, <2>3 DEF AddRequest, TypeInv, EngineTypes
  <2>5. running' = [running EXCEPT ![e] = running[e] \/ late]
    BY <1>6, <2>1, <2>2 DEF AddRequest
  <2>6. IF late THEN Note(e, n) ELSE UNCHANGED notes
    BY <1>6, <1>7, <2>1, <2>2 DEF AddRequest
  <2> QED
    BY <2>1, <2>4, <2>5, <2>6
<1>9. /\ \A f \in Engine : running[f] => running'[f]
      /\ \A f \in Engine : f # e => running'[f] = running[f]
  BY <1>8 DEF TypeInv, EngineTypes
<1>10. \A q \in Req : status'[q] = IF q = m.req THEN "waiting" ELSE status[q]
  BY <1>8 DEF TypeInv
<1>11. Calm'
  <2>1. \A f \in Engine : \A j \in 1..Len(inbox'[f]) : inbox'[f][j].kind = "add"
    BY <1>0, <1>3 DEF Calm
  <2> QED
    BY <1>0, <2>1 DEF Calm
<1>12. Doing(e)'
  <2>1. m.req \in Unfinished(e)'
    BY <1>0, <1>5, <1>10, <1>11, CalmWorkNext
  <2> QED
    BY <2>1 DEF Doing
<1>13. \A f \in Engine : Doing(f) => Doing(f)'
  BY <1>0, <1>9, <1>10, <1>11, DoingStays
<1>14. ASSUME NEW f \in Engine, Bound(f) PROVE Bound(f)'
  <2>1. CASE f = e
    BY <1>12, <2>1 DEF Bound
  <2>2. CASE f # e
    <3>1. inbox'[f] = inbox[f]
      BY <1>0, <1>2, <2>2
    <3> QED
      BY <1>0, <1>8, <1>13, <1>14, <3>1, BoundStays
  <2> QED
    BY <2>1, <2>2
<1>15. n \in Notes /\ NoteInv(e, n)' /\ e \in Sender
  <2>1. n.wave = wave[0] /\ n.kind = "start_wave" /\ n \in Notes
    BY <1>5, <1>7 DEF Notes
  <2>2. Bound(e)'
    BY <1>12 DEF Bound
  <2>3. n.wave <= wave'[0]
    BY <1>5, <1>8, <2>1
  <2> QED
    BY <2>1, <2>2, <2>3, Engines DEF NoteInv
<1>16. /\ \A t \in Sender : \A i \in 1..Len(notes[t]) :
              i \in 1..Len(notes'[t]) /\ notes'[t][i] = notes[t][i]
       /\ \A t \in Sender : \A j \in 1..Len(notes'[t]) :
              j \in 1..Len(notes[t]) \/ \E x \in Notes : notes'[t][j] = x /\ NoteInv(t, x)'
  BY <1>8, <1>15, NoteSent, NotesSame
<1>17. Stirring => Stirring'
  BY <1>8, <1>14, <1>16, StirringStays
<1>18. Stirring'
  <2>1. CASE late
    <3>1. n.kind = "start_wave" /\ n.wave = wave'[0]
      BY <1>5, <1>7, <1>8
    <3>2. Unheard'
      BY <1>8, <1>15, <2>1, <3>1, NoteSent
    <3> QED
      BY <3>2 DEF Stirring
  <2>2. CASE running[e]
    BY <1>17, <2>2 DEF WakeInv, Doing
  <2>3. CASE m.wave = wave[0]
    BY <1>4, <1>17, <2>3 DEF AddInv
  <2>4. late \/ running[e] \/ m.wave = wave[0]
    BY <1>4, <1>5, <1>6 DEF AddInv
  <2> QED
    BY <2>1, <2>2, <2>3, <2>4
<1>19. \A q \in Req : status[q] # "new" => home'[q] = home[q] /\ status'[q] # "new"
  BY <1>0, <1>10
<1>20. home' \in [Req -> Engine]
  BY <1>0 DEF WakeInv
<1>21. \A f \in Engine : \A j \in 1..Len(starts'[f]) :
           \E i \in 1..Len(starts[f]) : starts'[f][j] = starts[f][i]
  BY <1>0, SameQueue
<1> QED
  BY <1>0, <1>3, <1>8, <1>11, <1>14, <1>16, <1>18, <1>19, <1>20, <1>21, Steady

LEMMA WakeRefresh == ASSUME TypeInv, TypeInv', WakeInv, Refresh PROVE WakeInv'
<1> USE DEF coord, engines, reqs
<1>0. /\ UNCHANGED <<running, wave, pending, ignore, pauseState, pc, status, home, inbox, notes,
                     cwave, crunning, starts, asked>>
      /\ view' = [wave |-> cwave, running |-> crunning]
  BY DEF Refresh
<1>1. Calm' /\ Calm
  BY <1>0 DEF WakeInv, Calm
<1>2. \A f \in Engine : Unfinished(f)' = Unfinished(f)
  BY <1>0, <1>1, CalmWork, CalmWorkNext
<1>3. \A f \in Engine : Doing(f)' <=> Doing(f)
  BY <1>0, <1>2 DEF Doing
<1>4. \A f \in Engine : Bound(f) => Bound(f)'
  BY <1>0, <1>3, BoundStays
<1>5. home' \in [Req -> Engine] /\ \A q \in Req : status[q] # "new" => home'[q] = home[q] /\ status'[q] # "new"
  BY <1>0 DEF WakeInv
<1>6. /\ \A s \in Sender : \A i \in 1..Len(notes[s]) :
             i \in 1..Len(notes'[s]) /\ notes'[s][i] = notes[s][i]
      /\ \A s \in Sender : \A j \in 1..Len(notes'[s]) : j \in 1..Len(notes[s])
      /\ \A f \in Engine : \A j \in 1..Len(inbox'[f]) :
             \E i \in 1..Len(inbox[f]) : inbox'[f][j] = inbox[f][i]
      /\ \A f \in Engine : \A j \in 1..Len(starts'[f]) :
             \E i \in 1..Len(starts[f]) : starts'[f][j] = starts[f][i]
  BY <1>0, SameQueue
<1> QED
  BY <1>0, <1>1, <1>3, <1>4, <1>5, <1>6, Steady

\* The all-reduce, when somebody has requests.
LEMMA WakeGoesOn == ASSUME TypeInv, TypeInv', WakeInv, Sync, GoesOn PROVE WakeInv'
<1> USE DEF client, reqs
<1>0. ~Consensus
  BY Engines DEF WakeInv, Calm, Consensus
<1>1. /\ running' = [e \in Engine |-> TRUE] /\ wave' = wave
      /\ pending' = pending /\ ignore' = ignore
      /\ pc' = [e \in Engine |-> "top"]
      /\ UNCHANGED <<pauseState, status, home, inbox, starts, cwave, crunning, view, asked>>
  <2>1. /\ running' = [e \in Engine |-> TRUE] /\ wave' = [e \in Engine |-> wave[e]]
        /\ pending' = [e \in Engine |-> pending[e]]
        /\ ignore' = [e \in Engine |-> ignore[e] \/ FALSE]
        /\ pc' = [e \in Engine |-> "top"]
        /\ UNCHANGED <<pauseState, status, home, inbox, starts, cwave, crunning, view, asked>>
    BY <1>0 DEF Sync
  <2>2. wave' = wave /\ pending' = pending
    BY <2>1 DEF TypeInv, EngineTypes
  <2>3. \A e \in Engine : ~ignore[e]
    BY DEF WakeInv, Calm
  <2>4. ignore' = ignore
    BY <2>1, <2>3 DEF TypeInv, EngineTypes
  <2> QED
    BY <2>1, <2>2, <2>4
<1>2. PICK m : m = [kind |-> "start_wave", wave |-> wave[0]]
  OBVIOUS
<1>3. UNCHANGED notes \/ Note(0, m)
  BY <1>0, <1>2 DEF Sync, Note
<1>4. \A f \in Engine : Doing(f)' /\ Bound(f)'
  BY <1>1 DEF Doing, Bound
<1>5. Stirring'
  BY <1>4 DEF Stirring, AllBound
<1>6. Calm'
  BY <1>1 DEF WakeInv, Calm
<1>7. m \in Notes /\ NoteInv(0, m)' /\ 0 \in Sender
  <2>1. m \in Notes /\ m.kind = "start_wave" /\ m.wave = wave[0] /\ wave[0] \in Nat
    BY <1>2, Engines DEF Notes, TypeInv, EngineTypes
  <2> QED
    BY <1>1, <1>4, <2>1, Engines DEF NoteInv
<1>8. /\ \A t \in Sender : \A i \in 1..Len(notes[t]) :
             i \in 1..Len(notes'[t]) /\ notes'[t][i] = notes[t][i]
      /\ \A t \in Sender : \A j \in 1..Len(notes'[t]) :
             j \in 1..Len(notes[t]) \/ \E n \in Notes : notes'[t][j] = n /\ NoteInv(t, n)'
  BY <1>3, <1>7, NoteSent, NotesSame
<1>9. home' \in [Req -> Engine] /\ \A q \in Req : status[q] # "new" => home'[q] = home[q] /\ status'[q] # "new"
  BY <1>1 DEF WakeInv
<1>10. /\ \A f \in Engine : \A j \in 1..Len(inbox'[f]) :
              \E i \in 1..Len(inbox[f]) : inbox'[f][j] = inbox[f][i]
       /\ \A f \in Engine : \A j \in 1..Len(starts'[f]) :
              \E i \in 1..Len(starts[f]) : starts'[f][j] = starts[f][i]
  BY <1>1, SameQueue
<1> QED
  BY <1>1, <1>4, <1>5, <1>6, <1>8, <1>9, <1>10, Steady

\* The all-reduce that ends a wave.
LEMMA WakeEnds == ASSUME TypeInv, TypeInv', WakeInv, Sync, ~GoesOn PROVE WakeInv'
<1> USE DEF client, reqs
<1>0. ~Consensus /\ Calm
  BY Engines DEF WakeInv, Calm, Consensus
<1>1. /\ running' = [e \in Engine |-> FALSE]
      /\ wave' = [e \in Engine |-> wave[e] + 1]
      /\ pending' = [e \in Engine |-> pending[e]]
      /\ ignore' = [e \in Engine |-> ignore[e] \/ FALSE]
      /\ pc' = [e \in Engine |-> "top"]
      /\ notes' = [notes EXCEPT ![0] = Append(@, [kind |-> "wave_complete", wave |-> wave[0]])]
      /\ UNCHANGED <<pauseState, status, home, inbox, starts, cwave, crunning, view, asked>>
  <2>1. notes' = [notes EXCEPT ![0] = Append(@, [kind |-> "wave_complete", wave |-> wave[0]])]
    BY DEF Sync
  <2>2. running' = [e \in Engine |-> GoesOn]
    BY DEF Sync
  <2>3. running' = [e \in Engine |-> FALSE]
    <3>1. GoesOn = FALSE
      BY DEF GoesOn
    <3> QED
      BY <2>2, <3>1
  <2>4. wave' = [e \in Engine |-> wave[e] + 1]
    BY DEF Sync
  <2>5. pending' = [e \in Engine |-> pending[e]]
    BY <1>0 DEF Sync
  <2>6. ignore' = [e \in Engine |-> ignore[e] \/ Consensus]
    BY DEF Sync
  <2>7. ignore' = [e \in Engine |-> ignore[e] \/ FALSE]
    BY <1>0, <2>6, Zenon
  <2>8. /\ pc' = [e \in Engine |-> "top"]
        /\ UNCHANGED <<pauseState, status, home, inbox, starts, cwave, crunning, view, asked>>
    BY DEF Sync
  <2> QED
    BY <2>1, <2>3, <2>4, <2>5, <2>7, <2>8
<1>2. PICK w \in Nat : w = wave[0]
  BY Engines DEF TypeInv, EngineTypes
<1>3. \A e \in Engine : wave[e] = w /\ wave'[e] = w + 1
  BY <1>1, <1>2 DEF WakeInv
<1>4. wave[0] = w /\ wave'[0] = w + 1
  BY <1>3, Engines
<1>5. PICK m : m = [kind |-> "wave_complete", wave |-> w]
  OBVIOUS
<1>6. m \in Notes /\ m.kind = "wave_complete" /\ m.wave = w
  BY <1>5 DEF Notes
<1>7. /\ \A t \in Sender : \A i \in 1..Len(notes[t]) :
             i \in 1..Len(notes'[t]) /\ notes'[t][i] = notes[t][i]
      /\ \A t \in Sender : \A j \in 1..Len(notes'[t]) :
             j \in 1..Len(notes[t]) \/ (t = 0 /\ notes'[t][j] = m)
      /\ Len(notes'[0]) \in Nat \ {0} /\ notes'[0][Len(notes'[0])] = m
  <2>1. notes \in [Sender -> Seq(Notes)] /\ 0 \in Sender
    BY Engines DEF TypeInv, MessageTypes
  <2>2. notes' = [notes EXCEPT ![0] = Append(@, m)]
    BY <1>1, <1>2, <1>5
  <2> QED
    BY <1>6, <2>1, <2>2, Longer
<1>8. Calm'
  BY <1>0, <1>1 DEF Calm
<1>9. ASSUME NEW f \in Engine PROVE ~Doing(f)'
  <2>1. Unfinished(f) = {}
    BY DEF GoesOn
  <2>2. Unfinished(f)' = {}
    BY <1>0, <1>1, <1>8, <2>1, CalmWork, CalmWorkNext
  <2> QED
    BY <1>1, <2>2 DEF Doing
<1>10. ASSUME NEW f \in Engine, NEW i \in 1..Len(inbox'[f]) PROVE AddInv(f, inbox[f][i])'
  <2>1. PICK x : x = inbox[f][i]
    OBVIOUS
  <2>2. i \in 1..Len(inbox[f])
    BY <1>1
  <2>3. AddInv(f, x) /\ x \in Messages /\ x.kind = "add"
    BY <1>0, <2>1, <2>2 DEF WakeInv, TypeInv, MessageTypes, Calm
  <2>4. x.wave \in Nat /\ x.wave <= w
    BY <1>4, <2>3 DEF AddInv, Messages
  <2>5. x.wave <= wave'[0] /\ x.wave # wave'[0]
    BY <1>4, <2>4
  <2> QED
    BY <1>1, <2>1, <2>3, <2>5 DEF AddInv
<1>11. ASSUME NEW f \in Engine, NEW i \in 1..Len(starts'[f]) PROVE StartInv(f, starts[f][i])'
  <2>1. PICK x : x = starts[f][i]
    OBVIOUS
  <2>2. i \in 1..Len(starts[f])
    BY <1>1
  <2>3. StartInv(f, x) /\ x.wave \in Nat
    <3>1. PICK S : S = [wave : Nat, but : Sender]
      OBVIOUS
    <3>2. PICK q \in Seq(S) : q = starts[f]
      BY <3>1 DEF TypeInv, MessageTypes
    <3>4. x \in S
      BY <2>1, <2>2, <3>2
    <3>5. x.wave \in Nat
      BY <3>1, <3>4
    <3>3. StartInv(f, x)
      BY <1>1, <2>1, <2>2 DEF WakeInv
    <3> QED
      BY <3>3, <3>5
  <2>4. x.wave <= wave'[0] /\ x.wave # wave'[0]
    BY <1>4, <2>3 DEF StartInv
  <2> QED
    BY <1>1, <2>1, <2>4 DEF StartInv, Wakes
<1>12. ASSUME NEW t \in Sender, NEW j \in 1..Len(notes'[t]) PROVE NoteInv(t, notes[t][j])'
  <2>1. PICK x : x = notes'[t][j]
    OBVIOUS
  <2>2. CASE j \in 1..Len(notes[t])
    <3>1. x = notes[t][j]
      BY <1>7, <2>1, <2>2
    <3>2. NoteInv(t, x) /\ x \in Notes
      BY <2>2, <3>1 DEF WakeInv, TypeInv, MessageTypes
    <3>3. x.wave \in Nat /\ x.wave <= w
      BY <1>4, <3>2 DEF NoteInv, Notes
    <3>4. x.wave < wave'[0] /\ x.wave # wave'[0] /\ x.wave <= wave'[0]
      BY <1>4, <3>3
    <3> QED
      BY <1>1, <2>1, <3>2, <3>4 DEF NoteInv
  <2>3. CASE x = m
    <3>1. m.wave < wave'[0] /\ m.wave <= wave'[0]
      BY <1>4, <1>6
    <3> QED
      BY <1>6, <2>1, <2>3, <3>1 DEF NoteInv
  <2> QED
    BY <1>7, <2>1, <2>2, <2>3
<1>13. CoordInv'
  <2>1. CoordInv /\ cwave \in Nat
    BY DEF WakeInv, TypeInv, MessageTypes
  <2>2. cwave <= w
    BY <1>4, <2>1 DEF CoordInv
  <2>3. cwave <= wave'[0] /\ cwave # wave'[0]
    BY <1>4, <2>1, <2>2
  <2>4. PICK i \in 1..Len(notes'[0]) : notes'[0][i] = m
    BY <1>7
  <2>5. notes'[0][i].kind = "wave_complete" /\ notes'[0][i].wave = wave'[0] - 1
    BY <1>4, <1>6, <2>4
  <2> QED
    BY <1>1, <2>1, <2>3, <2>5 DEF CoordInv, Completes
<1>14. home' \in [Req -> Engine] /\ \A e \in Engine : wave'[e] = wave'[0]
  BY <1>1, <1>3, <1>4 DEF WakeInv
<1> QED
  BY <1>8, <1>9, <1>10, <1>11, <1>12, <1>13, <1>14 DEF WakeInv

\* The coordinator.
LEMMA Broadcasts ==
    ASSUME TypeInv, NEW w \in Nat, NEW b \in Sender, Broadcast(w, b), NEW f \in Engine
    PROVE  /\ \A i \in 1..Len(starts[f]) : i \in 1..Len(starts'[f]) /\ starts'[f][i] = starts[f][i]
           /\ \A j \in 1..Len(starts'[f]) :
                  j \in 1..Len(starts[f]) \/ (starts'[f][j].wave = w /\ starts'[f][j].but = b)
           /\ \E j \in 1..Len(starts'[f]) : starts'[f][j].wave = w /\ starts'[f][j].but = b
<1>1. PICK S : S = [wave : Nat, but : Sender]
  OBVIOUS
<1>2. PICK x \in S : x = [wave |-> w, but |-> b]
  BY <1>1
<1>3. x.wave = w /\ x.but = b
  BY <1>2
<1>4. PICK q \in Seq(S) : q = starts[f]
  BY <1>1 DEF TypeInv, MessageTypes
<1>5. starts'[f] = Append(q, x)
  BY <1>2, <1>4 DEF Broadcast
<1>6. /\ Len(q) \in Nat /\ Len(Append(q, x)) = Len(q) + 1
      /\ \A i \in 1..Len(q) : Append(q, x)[i] = q[i]
      /\ Append(q, x)[Len(q) + 1] = x
  BY Appended
<1>7. \A i \in 1..Len(q) : i \in 1..Len(Append(q, x)) /\ Append(q, x)[i] = q[i]
  BY <1>6
<1>8. \A j \in 1..Len(Append(q, x)) : j \in 1..Len(q) \/ Append(q, x)[j] = x
  BY <1>6
<1>9. Len(q) + 1 \in 1..Len(Append(q, x)) /\ Append(q, x)[Len(q) + 1] = x
  BY <1>6
<1> QED
  BY <1>3, <1>4, <1>5, <1>7, <1>8, <1>9

\* A start of this wave reaches everybody but an engine that needs none.
LEMMA AllStarted ==
    ASSUME TypeInv, NEW b \in Sender, Broadcast(wave[0], b), wave' = wave,
           b \in Engine => Bound(b)'
    PROVE  AllBound'
<1>1. wave[0] \in Nat
  BY Engines DEF TypeInv, EngineTypes
<1>2. ASSUME NEW f \in Engine PROVE Bound(f)'
  <2>1. CASE f = b
    BY <2>1
  <2>2. CASE f # b
    <3>1. PICK j \in 1..Len(starts'[f]) : starts'[f][j].wave = wave[0] /\ starts'[f][j].but = b
      BY <1>1, Broadcasts
    <3> QED
      BY <2>2, <3>1 DEF Bound, Wakes
  <2> QED
    BY <2>1, <2>2
<1> QED
  BY <1>2 DEF AllBound

\* What the coordinator does with a note.
Ignored(m) ==
    /\ UNCHANGED <<starts, cwave, crunning>>
    /\ m.kind = "first" => crunning
    /\ m.kind = "start_wave" => m.wave < cwave \/ (m.wave = cwave /\ crunning)
    /\ m.kind = "wave_complete" => m.wave < cwave

Answered(m, b) ==
    /\ m.kind = "first" /\ ~crunning /\ UNCHANGED <<cwave, crunning>> /\ Broadcast(cwave, b)
    /\ b = IF m.wave < cwave THEN N ELSE m.engine

Started(s, m) ==
    /\ m.kind = "start_wave" /\ (m.wave > cwave \/ (m.wave = cwave /\ ~crunning))
    /\ cwave' = m.wave /\ crunning' = TRUE /\ Broadcast(m.wave, s)

Completed(m) ==
    /\ m.kind = "wave_complete" /\ cwave <= m.wave
    /\ cwave' = m.wave + 1 /\ crunning' = FALSE /\ UNCHANGED starts

LEMMA CoordinateCases ==
    ASSUME TypeInv, NEW s \in Sender, Coordinate(s), NEW m \in Notes, m = Head(notes[s])
    PROVE  \/ Ignored(m) \/ (\E b \in Sender : Answered(m, b))
           \/ Started(s, m) \/ Completed(m)
<1>1. /\ m.wave \in Nat /\ cwave \in Nat
      /\ m.kind \in {"first", "start_wave", "wave_complete"}
      /\ m.kind = "first" => m.engine \in Engine
  BY DEF Notes, TypeInv, MessageTypes
<1>2. CASE m.kind = "first"
  <2>1. CASE crunning
    BY <1>2, <2>1 DEF Coordinate, Ignored
  <2>2. CASE ~crunning
    <3>1. PICK b \in Sender : b = IF m.wave < cwave THEN N ELSE m.engine
      BY <1>1, <1>2 DEF Sender
    <3>2. UNCHANGED <<cwave, crunning>> /\ Broadcast(cwave, b)
      BY <1>2, <2>2, <3>1 DEF Coordinate
    <3> QED
      BY <1>2, <2>2, <3>1, <3>2 DEF Answered
  <2> QED
    BY <2>1, <2>2
<1>3. CASE m.kind = "start_wave"
  <2>1. CASE m.wave > cwave \/ (m.wave = cwave /\ ~crunning)
    BY <1>3, <2>1 DEF Coordinate, Started
  <2>2. CASE ~(m.wave > cwave \/ (m.wave = cwave /\ ~crunning))
    <3>1. UNCHANGED <<starts, cwave, crunning>>
      BY <1>3, <2>2 DEF Coordinate
    <3>2. m.wave < cwave \/ (m.wave = cwave /\ crunning)
      BY <1>1, <2>2
    <3> QED
      BY <1>3, <3>1, <3>2 DEF Ignored
  <2> QED
    BY <2>1, <2>2
<1>4. CASE m.kind = "wave_complete"
  <2>1. CASE cwave <= m.wave
    BY <1>4, <2>1 DEF Coordinate, Completed
  <2>2. CASE ~(cwave <= m.wave)
    BY <1>1, <1>4, <2>2 DEF Coordinate, Ignored
  <2> QED
    BY <2>1, <2>2
<1> QED
  BY <1>1, <1>2, <1>3, <1>4

LEMMA WakeCoordinate ==
    ASSUME TypeInv, TypeInv', WakeInv, NEW s \in Sender, Coordinate(s) PROVE WakeInv'
<1> USE DEF client, engines, reqs
<1>0. /\ Calm /\ UNCHANGED <<running, wave, pending, ignore, pauseState, pc, status, home, inbox,
                             view, asked>>
      /\ notes[s] # <<>> /\ notes' = [notes EXCEPT ![s] = Tail(@)]
  BY DEF Coordinate, WakeInv
<1>1. Calm'
  BY <1>0 DEF Calm
<1>2. \A f \in Engine : Doing(f)' <=> Doing(f)
  <2>1. \A f \in Engine : Unfinished(f)' = Unfinished(f)
    BY <1>0, <1>1, CalmWork, CalmWorkNext
  <2> QED
    BY <1>0, <2>1 DEF Doing
<1>3. PICK m \in Notes : m = Head(notes[s]) /\ NoteInv(s, m)
  <2>1. notes \in [Sender -> Seq(Notes)]
    BY DEF TypeInv, MessageTypes
  <2>2. 1 \in 1..Len(notes[s]) /\ Head(notes[s]) = notes[s][1] /\ Head(notes[s]) \in Notes
    BY <1>0, <2>1, Shorter
  <2> QED
    BY <2>2 DEF WakeInv
<1>4. /\ m.wave \in Nat /\ wave[0] \in Nat /\ cwave \in Nat /\ cwave' \in Nat /\ view.wave \in Nat
      /\ m.kind = "first" => m.engine \in Engine
      /\ cwave <= wave[0] /\ view.wave <= cwave /\ CoordInv
  BY Engines DEF Notes, TypeInv, EngineTypes, MessageTypes, WakeInv, CoordInv
<1>5. \/ Ignored(m) \/ (\E b \in Sender : Answered(m, b))
      \/ Started(s, m) \/ Completed(m)
  BY <1>3, CoordinateCases
<1>6. \A f \in Engine : \A i \in 1..Len(starts[f]) :
          i \in 1..Len(starts'[f]) /\ starts'[f][i] = starts[f][i]
  <2>1. CASE UNCHANGED starts
    BY <2>1, SameQueue
  <2>2. CASE \E b \in Sender : Answered(m, b)
    BY <1>4, <2>2, Broadcasts DEF Answered
  <2>3. CASE Started(s, m)
    BY <1>4, <2>3, Broadcasts DEF Started
  <2> QED
    BY <1>5, <2>1, <2>2, <2>3 DEF Ignored, Completed
<1>7. \A f \in Engine : Bound(f) => Bound(f)'
  BY <1>0, <1>2, <1>6, BoundStays
<1>8. AllBound => AllBound'
  BY <1>7 DEF AllBound
<1>9. cwave = wave[0] /\ crunning => AllBound'
  BY <1>4, <1>8 DEF CoordInv
\* Whoever is started in this wave is so together with all others.
<1>10. ASSUME NEW b \in Sender, Answered(m, b), cwave = wave[0] PROVE AllBound'
  <2>1. Broadcast(wave[0], b)
    BY <1>10 DEF Answered
  <2>2. b \in Engine => Bound(b)'
    <3>1. CASE m.wave < cwave
      <4>1. b \notin Engine
        BY <1>10, <3>1, Engines DEF Answered
      <4> QED
        BY <4>1
    <3>2. CASE ~(m.wave < cwave)
      <4>1. m.kind = "first" /\ b = m.engine /\ b \in Engine
        BY <1>4, <1>10, <3>2 DEF Answered
      <4>2. m.wave = wave[0]
        BY <1>3, <1>4, <1>10, <3>2, <4>1 DEF NoteInv
      <4>3. Bound(b)
        BY <1>3, <4>1, <4>2 DEF NoteInv
      <4> QED
        BY <1>7, <4>1, <4>3
    <3> QED
      BY <3>1, <3>2
  <2> QED
    BY <1>0, <2>1, <2>2, AllStarted
<1>11. ASSUME Started(s, m), m.wave = wave[0] PROVE AllBound'
  <2>1. Broadcast(wave[0], s) /\ m.kind = "start_wave"
    BY <1>11 DEF Started
  <2>2. s \in Engine => Bound(s)'
    BY <1>3, <1>7, <1>11, <2>1 DEF NoteInv
  <2> QED
    BY <1>0, <2>1, <2>2, AllStarted
<1>12. ASSUME Tells(m) PROVE AllBound'
  <2>1. m.kind \in {"start_wave", "first"} /\ m.wave = wave[0]
    BY <1>12 DEF Tells
  <2>2. m.kind = "first" => cwave = wave[0]
    BY <1>3, <1>4, <2>1 DEF NoteInv
  <2>3. CASE Ignored(m)
    <3>1. cwave = wave[0] /\ crunning
      BY <1>4, <2>1, <2>2, <2>3 DEF Ignored
    <3> QED
      BY <1>9, <3>1
  <2>4. CASE \E b \in Sender : Answered(m, b)
    BY <1>10, <2>2, <2>4 DEF Answered
  <2>5. CASE Started(s, m)
    BY <1>11, <2>1, <2>5
  <2>6. ~Completed(m)
    BY <2>1 DEF Completed
  <2> QED
    BY <1>5, <2>3, <2>4, <2>5, <2>6
<1>13. /\ \A t \in Sender : \A j \in 1..Len(notes'[t]) :
              \E i \in 1..Len(notes[t]) : notes'[t][j] = notes[t][i]
       /\ \A t \in Sender : \A i \in 1..Len(notes[t]) :
              notes[t][i] = m \/ \E j \in 1..Len(notes'[t]) : notes'[t][j] = notes[t][i]
  <2>1. PICK Q \in [Sender -> Seq(Notes)] : Q = notes
    BY DEF TypeInv, MessageTypes
  <2>2. PICK P : P = notes'
    OBVIOUS
  <2>3. Q[s] # <<>> /\ P = [Q EXCEPT ![s] = Tail(@)]
    BY <1>0, <2>1, <2>2
  <2>4. \A t \in Sender : \A j \in 1..Len(P[t]) : \E i \in 1..Len(Q[t]) : P[t][j] = Q[t][i]
    BY <2>3, Shorter
  <2>5. Head(Q[s]) = Q[s][1]
    BY <2>3, Shorter
  <2>6. ASSUME NEW t \in Sender, NEW i \in 1..Len(Q[t]), Q[t][i] # m
        PROVE  \E j \in 1..Len(P[t]) : P[t][j] = Q[t][i]
    <3>1. CASE t # s
      <4>1. P[t] = Q[t]
        BY <2>3, <3>1
      <4> QED
        BY <4>1
    <3>2. CASE t = s
      <4>1. PICK q \in Seq(Notes) : q = Q[s]
        OBVIOUS
      <4>2. P[t] = Tail(q) /\ q # <<>> /\ i \in 1..Len(q) /\ i # 1 /\ Q[t] = q
        BY <1>3, <2>1, <2>3, <2>5, <2>6, <3>2, <4>1
      <4>3. \E j \in 1..Len(Tail(q)) : Tail(q)[j] = q[i]
        BY <4>2, Remains
      <4> QED
        BY <4>2, <4>3
    <3> QED
      BY <3>1, <3>2
  <2> QED
    BY <2>1, <2>2, <2>4, <2>6
<1>14. Stirring => Stirring'
  <2>1. CASE AllBound \/ Tells(m)
    BY <1>8, <1>12, <2>1 DEF Stirring
  <2>2. CASE Unheard /\ ~Tells(m)
    <3>1. PICK t \in Sender : \E i \in 1..Len(notes[t]) : Tells(notes[t][i])
      BY <2>2 DEF Unheard
    <3>2. PICK i \in 1..Len(notes[t]) : Tells(notes[t][i])
      BY <3>1
    <3>3. PICK j \in 1..Len(notes'[t]) : notes'[t][j] = notes[t][i]
      BY <1>13, <2>2, <3>2
    <3>4. Tells(notes[t][j])'
      BY <1>0, <3>2, <3>3 DEF Tells
    <3> QED
      BY <3>4 DEF Unheard, Stirring
  <2> QED
    BY <2>1, <2>2 DEF Stirring
<1>15. cwave <= cwave' /\ cwave' <= wave[0]
  <2>1. CASE Ignored(m) \/ \E b \in Sender : Answered(m, b)
    BY <1>4, <2>1 DEF Ignored, Answered
  <2>2. CASE Started(s, m)
    BY <1>3, <1>4, <2>2 DEF Started, NoteInv
  <2>3. CASE Completed(m)
    BY <1>3, <1>4, <2>3 DEF Completed, NoteInv
  <2> QED
    BY <1>5, <2>1, <2>2, <2>3
<1>16. CoordInv'
  <2>1. view.wave <= cwave' /\ crunning' \in BOOLEAN
    <3>1. crunning' \in BOOLEAN
      BY <1>4, <1>5 DEF Ignored, Answered, Started, Completed, CoordInv
    <3> QED
      BY <1>4, <1>15, <3>1
  <2>2. view.wave = cwave' /\ view.running => crunning'
    <3>1. CASE Completed(m)
      <4>1. view.wave # cwave'
        BY <1>4, <3>1 DEF Completed
      <4> QED
        BY <4>1
    <3>2. CASE UNCHANGED <<cwave, crunning>>
      BY <1>4, <3>2 DEF CoordInv
    <3>3. CASE Started(s, m)
      BY <3>3 DEF Started
    <3> QED
      BY <1>5, <3>1, <3>2, <3>3 DEF Ignored, Answered
  <2>3. ASSUME cwave' < wave[0] PROVE \E i \in 1..Len(notes'[0]) : Completes(notes[0][i])'
    <3>1. cwave < wave[0]
      BY <1>4, <1>15, <2>3
    <3>2. PICK i \in 1..Len(notes[0]) : Completes(notes[0][i])
      BY <1>4, <3>1 DEF CoordInv
    <3>3. notes[0][i] # m
      <4>1. SUFFICES ASSUME Completes(m) PROVE FALSE
        BY <3>2
      <4>2. m.kind = "wave_complete" /\ m.wave = wave[0] - 1
        BY <4>1 DEF Completes
      <4>3. CASE Ignored(m)
        BY <1>4, <3>1, <4>2, <4>3 DEF Ignored
      <4>4. CASE Completed(m)
        BY <1>4, <2>3, <4>2, <4>4 DEF Completed
      <4> QED
        BY <1>5, <4>2, <4>3, <4>4 DEF Answered, Started
    <3>4. PICK j \in 1..Len(notes'[0]) : notes'[0][j] = notes[0][i]
      BY <1>13, <3>3, Engines
    <3> QED
      BY <1>0, <3>2, <3>4 DEF Completes
  <2>4. ASSUME cwave' = wave[0], crunning' PROVE AllBound'
    <3>1. CASE UNCHANGED <<cwave, crunning>>
      BY <1>9, <2>4, <3>1
    <3>2. CASE Started(s, m)
      BY <1>11, <2>4, <3>2 DEF Started
    <3>3. ~Completed(m)
      BY <2>4 DEF Completed
    <3> QED
      BY <1>5, <3>1, <3>2, <3>3 DEF Ignored, Answered
  <2> QED
    BY <1>0, <1>4, <1>15, <2>1, <2>2, <2>3, <2>4 DEF CoordInv
<1>17. ASSUME NEW f \in Engine, NEW i \in 1..Len(inbox'[f]) PROVE AddInv(f, inbox[f][i])'
  <2>1. PICK x : x = inbox[f][i]
    OBVIOUS
  <2>2. AddInv(f, x)
    BY <1>0, <2>1 DEF WakeInv
  <2> QED
    BY <1>0, <1>14, <2>1, <2>2 DEF AddInv
<1>18. ASSUME NEW f \in Engine, NEW j \in 1..Len(starts'[f]) PROVE StartInv(f, starts[f][j])'
  <2>1. ASSUME NEW w \in Nat, NEW b \in Sender, Broadcast(w, b), w <= wave[0],
               w = wave[0] => AllBound'
        PROVE  StartInv(f, starts[f][j])'
    <3>1. CASE j \in 1..Len(starts[f])
      <4>1. starts'[f][j] = starts[f][j] /\ StartInv(f, starts[f][j])
        BY <1>6, <3>1 DEF WakeInv
      <4> QED
        BY <1>0, <1>14, <4>1 DEF StartInv, Wakes
    <3>2. CASE starts'[f][j].wave = w /\ starts'[f][j].but = b
      BY <1>0, <2>1, <3>2 DEF StartInv, Wakes, Stirring
    <3> QED
      BY <2>1, <3>1, <3>2, Broadcasts
  <2>2. CASE UNCHANGED starts
    <3>1. starts'[f][j] = starts[f][j] /\ StartInv(f, starts[f][j])
      BY <2>2 DEF WakeInv
    <3> QED
      BY <1>0, <1>14, <3>1 DEF StartInv, Wakes
  <2>3. CASE \E b \in Sender : Answered(m, b)
    <3>1. PICK b \in Sender : Answered(m, b)
      BY <2>3
    <3>2. Broadcast(cwave, b)
      BY <3>1 DEF Answered
    <3> QED
      BY <1>4, <1>10, <2>1, <3>1, <3>2
  <2>4. CASE Started(s, m)
    <3>1. Broadcast(m.wave, s)
      BY <2>4 DEF Started
    <3>2. m.wave <= wave[0]
      BY <1>3 DEF NoteInv
    <3> QED
      BY <1>4, <1>11, <2>1, <2>4, <3>1, <3>2
  <2> QED
    BY <1>5, <2>2, <2>3, <2>4 DEF Ignored, Completed
<1>19. ASSUME NEW t \in Sender, NEW j \in 1..Len(notes'[t]) PROVE NoteInv(t, notes[t][j])'
  <2>1. PICK i \in 1..Len(notes[t]) : notes'[t][j] = notes[t][i]
    BY <1>13
  <2>2. PICK x \in Notes : x = notes[t][i]
    BY DEF TypeInv, MessageTypes
  <2>3. NoteInv(t, x)
    BY <2>2 DEF WakeInv
  <2>4. NoteInv(t, x)'
    BY <1>0, <1>4, <1>7, <1>15, <2>3, NoteStays
  <2> QED
    BY <2>1, <2>2, <2>4 DEF NoteInv
<1>20. home' \in [Req -> Engine]
  BY <1>0 DEF WakeInv
<1>21. \A f \in Engine : wave'[f] = wave'[0] /\ (Doing(f)' => Stirring')
  BY <1>0, <1>2, <1>14 DEF WakeInv
<1> QED
  BY <1>1, <1>16, <1>17, <1>18, <1>19, <1>20, <1>21 DEF WakeInv

LEMMA WakeInit == Init => WakeInv
<1> SUFFICES ASSUME Init PROVE WakeInv
  OBVIOUS
<1>1. /\ \A e \in Engine : /\ ~running[e] /\ wave[e] = 0 /\ pc[e] = "top"
                           /\ Len(inbox[e]) = 0 /\ Len(starts[e]) = 0
      /\ \A s \in Sender : Len(notes[s]) = 0
      /\ wave[0] = 0
  BY Engines DEF Init
<1>2. Calm
  BY <1>1 DEF Init, Calm
<1>3. \A e \in Engine : Unfinished(e) = {}
  BY <1>2, CalmWork DEF Init
<1>4. \A e \in Engine : wave[e] = wave[0] /\ ~Doing(e)
  BY <1>1, <1>3 DEF Doing
<1>5. CoordInv
  <2>1. /\ cwave = 0 /\ wave[0] = 0 /\ ~(0 < 0)
        /\ view.wave = 0 /\ view.running = FALSE /\ crunning = FALSE
    BY <1>1 DEF Init
  <2>2. cwave <= wave[0] /\ view.wave <= cwave /\ ~(cwave < wave[0])
    BY <2>1
  <2>3. crunning \in BOOLEAN /\ view.running \in BOOLEAN /\ ~crunning /\ ~view.running
    BY <2>1
  <2> QED
    BY <2>2, <2>3 DEF CoordInv
<1>6. home \in [Req -> Engine]
  BY Engines DEF Init
<1>7. /\ \A e \in Engine : 1..Len(inbox[e]) = {} /\ 1..Len(starts[e]) = {}
      /\ \A s \in Sender : 1..Len(notes[s]) = {}
  BY <1>1
<1> QED
  BY <1>2, <1>4, <1>5, <1>6, <1>7 DEF WakeInv

LEMMA WakeNext ==
    ASSUME TypeInv, TypeInv', WakeInv, [Next]_vars, npauses \in Nat, npauses' = npauses
    PROVE  WakeInv'
<1> USE DEF engines, reqs, coord, client
<1>0. Calm
  BY DEF WakeInv
<1>1. CASE UNCHANGED vars
  <2>1. /\ Calm' /\ home' \in [Req -> Engine]
        /\ UNCHANGED <<running, wave, pc, pauseState, status, home, inbox, notes, starts, cwave,
                       crunning, view>>
    BY <1>0, <1>1 DEF vars, WakeInv, Calm
  <2>2. \A f \in Engine : Unfinished(f)' = Unfinished(f)
    BY <1>0, <2>1, CalmWork, CalmWorkNext
  <2>3. \A f \in Engine : Doing(f)' <=> Doing(f)
    BY <2>1, <2>2 DEF Doing
  <2>4. \A f \in Engine : Bound(f) => Bound(f)'
    BY <2>1, <2>3, BoundStays
  <2>5. \A q \in Req : status[q] # "new" => home'[q] = home[q] /\ status'[q] # "new"
    BY <2>1
  <2>6. /\ \A s \in Sender : \A i \in 1..Len(notes[s]) :
               i \in 1..Len(notes'[s]) /\ notes'[s][i] = notes[s][i]
        /\ \A s \in Sender : \A j \in 1..Len(notes'[s]) : j \in 1..Len(notes[s])
        /\ \A f \in Engine : \A j \in 1..Len(inbox'[f]) :
               \E i \in 1..Len(inbox[f]) : inbox'[f][j] = inbox[f][i]
        /\ \A f \in Engine : \A j \in 1..Len(starts'[f]) :
               \E i \in 1..Len(starts[f]) : starts'[f][j] = starts[f][i]
    BY <2>1, SameQueue
  <2> QED
    BY <2>1, <2>3, <2>4, <2>5, <2>6, Steady
\* Nobody pauses or resumes.
<1>2. ASSUME NEW e \in Engine PROVE ~TakePause(e) /\ ~TakeResume(e) /\ ~PauseDone(e)
  <2>1. ASSUME inbox[e] # <<>> PROVE Head(inbox[e]).kind = "add"
    <3>1. PICK q \in Seq(Messages) : q = inbox[e]
      BY DEF TypeInv, MessageTypes
    <3>2. Len(q) \in Nat \ {0} /\ Head(q) = q[1]
      BY <2>1, <3>1, HeadTail
    <3>3. 1 \in 1..Len(q)
      BY <3>2
    <3> QED
      BY <1>0, <3>1, <3>2, <3>3 DEF Calm
  <2> QED
    BY <1>0, <2>1 DEF TakePause, TakeResume, PauseDone, Calm
<1>3. ~Resume /\ ~Resumed
  BY <1>0, Engines DEF Resume, Resumed, Calm
<1>4. CASE \E e \in Engine : TakeStart(e) \/ TakeAdd(e) \/ Go(e) \/ After(e)
  BY <1>4, WakeTakeStart, WakeTakeAdd, WakeGo, WakeAfter
<1>5. CASE (\E r \in Req, e \in Engine : Send(r, e)) \/ Refresh \/ \E s \in Sender : Coordinate(s)
  BY <1>5, WakeSend, WakeRefresh, WakeCoordinate
<1>6. CASE Forward \/ Sync
  BY <1>6, WakeForward, WakeGoesOn, WakeEnds
<1>7. CASE \E mode \in Modes : Pause(mode)
  BY <1>7 DEF Pause
<1> QED
  BY <1>1, <1>2, <1>3, <1>4, <1>5, <1>6, <1>7 DEF Next, Clients, Take

LEMMA AloneHolds == Spec => [](WaveInv /\ AloneInv)
<1>1. Init => AloneInv
  BY WakeInit DEF Init, AloneInv
<1>2. TypeInv /\ TypeInv' /\ AloneInv /\ [Next]_vars => AloneInv'
  <2> SUFFICES ASSUME TypeInv, TypeInv', AloneInv, [Next]_vars PROVE AloneInv'
    OBVIOUS
  <2>1. npauses \in Nat /\ (npauses' = npauses \/ npauses' = npauses + 1)
    BY DEF AloneInv, Next, Clients, Take, Send, Pause, Refresh, Resume, Coordinate, TakeAdd,
           TakePause, TakeResume, TakeStart, PauseDone, Go, After, Forward, Sync, Resumed, vars,
           client
  <2>2. npauses' \in Nat /\ (npauses' = 0 => npauses = 0 /\ npauses' = npauses)
    BY <2>1
  <2>3. npauses' = 0 => WakeInv'
    BY <2>1, <2>2, WakeNext DEF AloneInv
  <2> QED
    BY <2>2, <2>3 DEF AloneInv
<1>3. WaveInv => TypeInv
  BY DEF WaveInv
<1> QED
  BY <1>1, <1>2, <1>3, WaveHolds, PTL DEF Spec

\* For any number of engines and requests, as long as nobody pauses: when an engine is
\* in a forward pass and another one is idle, the idle one has a message to take, or the
\* coordinator a note to read, so that the pass is not left waiting for it.
THEOREM NobodyLeftAlone == Spec => []NobodyAlone
<1>1. TypeInv /\ AloneInv => NobodyAlone
  <2> SUFFICES ASSUME TypeInv, WakeInv, NEW e \in Engine, NEW f \in Engine,
                      pc[e] = "forward", pc[f] = "top", ~HasWork(f),
                      inbox[f] = <<>>, starts[f] = <<>>
               PROVE  \E s \in Sender : notes[s] # <<>>
    BY DEF AloneInv, NobodyAlone
  <2>1. Stirring
    BY DEF WakeInv, Doing
  <2>2. Len(starts[f]) = 0
    OBVIOUS
  <2>3. ~Bound(f)
    BY <2>2 DEF Bound, Doing, HasWork
  <2>4. PICK s \in Sender : \E i \in 1..Len(notes[s]) : Tells(notes[s][i])
    BY <2>1, <2>3 DEF Stirring, AllBound, Unheard
  <2>5. Len(<<>>) = 0 /\ 1..0 = {}
    OBVIOUS
  <2>6. notes[s] # <<>>
    BY <2>4, <2>5
  <2> QED
    BY <2>6
<1> QED
  BY <1>1, AloneHolds, PTL DEF WaveInv
=============================================================================
