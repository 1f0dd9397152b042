------------------------------- MODULE DPWave -------------------------------
(***************************************************************************)
(* The waves of data-parallel engines (v1/engine/core.py, DPEngineCoreProc)*)
(* and their two-phase pause.                                              *)
(*                                                                         *)
(* The experts of one layer are spread over the engines, so a forward pass *)
(* is a collective operation: an engine without requests takes part with a *)
(* dummy batch.  Engines stop together, when an all-reduce that they enter *)
(* every SyncEvery steps finds nobody unfinished, and are started by the   *)
(* coordinator.  An engine that enters a collective operation the others   *)
(* do not enter hangs, and with it all of them.                            *)
(***************************************************************************)
EXTENDS Integers, Sequences, FiniteSets, FiniteSetsExt

CONSTANTS N,          \* data_parallel_size
          Req,        \* requests
          Work,       \* steps a request takes
          SyncEvery,  \* steps between two all-reduces: 32 in the code
          Modes,      \* pause modes that clients use: "keep", "wait"
          MaxPauses,  \* bound: pauses
          MaxEvents   \* bound: requests sent and pauses together

ASSUME WaveAssumption ==
    /\ N \in Nat \ {0, 1} /\ IsFiniteSet(Req) /\ Work \in Nat \ {0}
    /\ SyncEvery \in Nat \ {0} /\ Modes \subseteq {"keep", "wait"} /\ MaxPauses \in Nat
    /\ MaxEvents \in Nat

Engine == 0..(N - 1)
Sender == Engine \cup {N}     \* N: the clients

VARIABLES
    running, wave, step,      \* engines_running, current_wave, step_counter
    pending, ignore,          \* pending_pause, ignore_start_dp_wave
    pauseState,               \* of the engine's scheduler
    was,                      \* was_running: at the top of the loop
    pc,                       \* of every engine
    status, left, home,       \* requests: state, steps needed, engine
    inbox,                    \* client -> engine
    starts,                   \* coordinator -> engine: START_DP_WAVE
    notes,                    \* to the coordinator, from engines and clients
    cwave, crunning,          \* the coordinator
    view,                     \* what clients know of the coordinator
    paused,                   \* engines whose pause has completed
    npauses, asked            \* pauses made; what clients ask for: "run" or "pause"

engines == <<running, wave, step, pending, ignore, pauseState, was, pc>>
reqs    == <<status, left, home>>
coord   == <<notes, cwave, crunning, starts>>
client  == <<view, npauses, asked>>
vars    == <<engines, reqs, inbox, coord, client, paused>>
-----------------------------------------------------------------------------
Of(e, st) == {r \in Req : home[r] = e /\ status[r] \in st}

\* get_num_unfinished_requests.
Unfinished(e) ==
    CASE pauseState[e] = "paused_all" -> {}
      [] pauseState[e] = "paused_new" -> Of(e, {"running"})
      [] OTHER -> Of(e, {"waiting", "running"})

Events == npauses + Cardinality({r \in Req : status[r] # "new"})

HasWork(e) == running[e] \/ Unfinished(e) # {}

Note(e, m) == notes' = [notes EXCEPT ![e] = Append(@, m)]

Init ==
    /\ running = [e \in Engine |-> FALSE] /\ wave = [e \in Engine |-> 0]
    /\ step = [e \in Engine |-> 0]
    /\ pending = [e \in Engine |-> FALSE] /\ ignore = [e \in Engine |-> FALSE]
    /\ pauseState = [e \in Engine |-> "unpaused"]
    /\ was = [e \in Engine |-> FALSE] /\ pc = [e \in Engine |-> "top"]
    /\ status = [r \in Req |-> "new"] /\ left = [r \in Req |-> Work]
    /\ home = [r \in Req |-> 0]
    /\ inbox = [e \in Engine |-> <<>>] /\ starts = [e \in Engine |-> <<>>]
    /\ notes = [s \in Sender |-> <<>>] /\ cwave = 0 /\ crunning = FALSE
    /\ view = [wave |-> 0, running |-> FALSE]
    /\ paused = {} /\ npauses = 0 /\ asked = "run"
-----------------------------------------------------------------------------
(***************************************************************************)
(* Clients and the coordinator                                             *)
(***************************************************************************)
\* A request goes to one engine, and to the coordinator if all are idle.
Send(r, e) ==
    /\ status[r] = "new" /\ Events < MaxEvents
    /\ status' = [status EXCEPT ![r] = "sent"]
    /\ home' = [home EXCEPT ![r] = e]
    /\ inbox' = [inbox EXCEPT ![e] = Append(@, [kind |-> "add", req |-> r, wave |-> view.wave])]
    /\ IF view.running THEN UNCHANGED notes
       ELSE Note(N, [kind |-> "first", engine |-> e, wave |-> view.wave])
    /\ UNCHANGED <<engines, left, starts, cwave, crunning, client, paused>>

Refresh ==
    /\ view # [wave |-> cwave, running |-> crunning]
    /\ view' = [wave |-> cwave, running |-> crunning]
    /\ UNCHANGED <<engines, reqs, inbox, coord, npauses, asked, paused>>

ToAll(m) == inbox' = [e \in Engine |-> Append(inbox[e], m)]

Pause(mode) ==
    /\ asked = "run" /\ npauses < MaxPauses /\ Events < MaxEvents
    /\ asked' = "pause" /\ npauses' = npauses + 1
    /\ ToAll([kind |-> "pause", mode |-> mode])
    /\ UNCHANGED <<engines, reqs, coord, view, paused>>

\* Clients wait for the futures of all engines before they resume.
Resume ==
    /\ asked = "pause" /\ paused = Engine
    /\ asked' = "run" /\ paused' = {}
    /\ ToAll([kind |-> "resume"])
    /\ UNCHANGED <<engines, reqs, coord, view, npauses>>

\* START_DP_WAVE to all engines.
Broadcast(w, but) ==
    starts' = [e \in Engine |-> Append(starts[e], [wave |-> w, but |-> but])]

Coordinate(s) ==
    /\ notes[s] # <<>>
    /\ notes' = [notes EXCEPT ![s] = Tail(@)]
    /\ LET m == Head(notes[s])
       IN \/ /\ m.kind = "first"
             /\ IF crunning THEN UNCHANGED starts
                ELSE Broadcast(cwave, IF m.wave < cwave THEN N ELSE m.engine)
             /\ UNCHANGED <<cwave, crunning>>
          \/ /\ m.kind = "start_wave"
             /\ IF m.wave > cwave \/ (m.wave = cwave /\ ~crunning)
                THEN cwave' = m.wave /\ crunning' = TRUE /\ Broadcast(m.wave, s)
                ELSE UNCHANGED <<cwave, crunning, starts>>
          \/ /\ m.kind = "wave_complete"
             /\ IF cwave <= m.wave
                THEN cwave' = m.wave + 1 /\ crunning' = FALSE
                ELSE UNCHANGED <<cwave, crunning>>
             /\ UNCHANGED starts
    /\ UNCHANGED <<engines, reqs, inbox, client, paused>>
-----------------------------------------------------------------------------
(***************************************************************************)
(* An engine at the top of its loop                                        *)
(***************************************************************************)
\* Fault: a late request does not start a new wave.
AddRequestQuiet(e, m) ==
    /\ wave' = [wave EXCEPT ![e] = IF m.wave > @ THEN m.wave ELSE @]
    /\ UNCHANGED <<running, notes>>

\* add_request: a request of a wave that is over starts the next.
AddRequest(e, m) ==
    LET late == m.wave < wave[e] /\ ~running[e] /\ pauseState[e] = "unpaused"
    IN /\ wave' = [wave EXCEPT ![e] = IF m.wave > @ THEN m.wave ELSE @]
       /\ running' = [running EXCEPT ![e] = @ \/ late]
       /\ IF late THEN Note(e, [kind |-> "start_wave", wave |-> wave[e]]) ELSE UNCHANGED notes

\* Messages from clients: a new request, ...
TakeAdd(e) ==
    /\ pc[e] = "top" /\ inbox[e] # <<>> /\ Head(inbox[e]).kind = "add"
    /\ inbox' = [inbox EXCEPT ![e] = Tail(@)]
    /\ AddRequest(e, Head(inbox[e]))
    /\ status' = [status EXCEPT ![Head(inbox[e]).req] = "waiting"]
    /\ UNCHANGED <<step, pending, ignore, pauseState, was, pc, left, home, cwave, crunning,
                   starts, client, paused>>

\* _pause_complete: the engine runs until all agree.
PauseComplete(e) ==
    /\ pending' = [pending EXCEPT ![e] = TRUE]
    /\ running' = [running EXCEPT ![e] = TRUE]

\* ... pause_scheduler, ...
TakePause(e) ==
    /\ pc[e] = "top" /\ inbox[e] # <<>> /\ Head(inbox[e]).kind = "pause"
    /\ inbox' = [inbox EXCEPT ![e] = Tail(@)]
    /\ PauseComplete(e)
    /\ pauseState' = [pauseState EXCEPT ![e] =
                        IF Head(inbox[e]).mode = "keep" THEN "paused_all" ELSE "paused_new"]
    /\ UNCHANGED <<wave, step, ignore, was, pc, reqs, coord, client, paused>>

\* ... resume_scheduler, which ends in an all-reduce of its own.  An engine
\* that still runs refuses (pause in flight) or ignores the call (not paused).
TakeResume(e) ==
    /\ pc[e] = "top" /\ inbox[e] # <<>> /\ Head(inbox[e]).kind = "resume"
    /\ inbox' = [inbox EXCEPT ![e] = Tail(@)]
    /\ IF pending[e] \/ running[e]
       THEN UNCHANGED <<pauseState, ignore, pc>>
       ELSE /\ pauseState' = [pauseState EXCEPT ![e] = "unpaused"]
            /\ ignore' = [ignore EXCEPT ![e] = FALSE]
            /\ pc' = [pc EXCEPT ![e] = "resume"]
    /\ UNCHANGED <<running, wave, step, pending, was, reqs, coord, client, paused>>

\* Fault: stale starts are not ignored.
StartsAlways(e, m) == m.but # e /\ m.wave >= wave[e]

Starts(e, m) == ~ignore[e] /\ m.but # e /\ m.wave >= wave[e]

\* START_DP_WAVE.
TakeStart(e) ==
    /\ pc[e] = "top" /\ starts[e] # <<>>
    /\ starts' = [starts EXCEPT ![e] = Tail(@)]
    /\ IF Starts(e, Head(starts[e]))
       THEN /\ wave' = [wave EXCEPT ![e] = Head(starts[e]).wave]
            /\ running' = [running EXCEPT ![e] = TRUE]
       ELSE UNCHANGED <<wave, running>>
    /\ UNCHANGED <<step, pending, ignore, pauseState, was, pc, reqs, inbox, notes, cwave,
                   crunning, client, paused>>

\* The callback of a pause, when the engine is idle.
PauseDone(e) ==
    /\ pc[e] = "top" /\ ~HasWork(e) /\ pauseState[e] # "unpaused" /\ e \notin paused
    /\ asked = "pause" /\ \A i \in 1..Len(inbox[e]) : inbox[e][i].kind # "pause"
    /\ paused' = paused \cup {e}
    /\ UNCHANGED <<engines, reqs, inbox, coord, client>>

\* There is work: a forward pass, with a real batch or a dummy one.
Go(e) ==
    /\ pc[e] = "top" /\ HasWork(e)
    /\ pc' = [pc EXCEPT ![e] = "forward"]
    /\ status' = [r \in Req |-> IF r \in Unfinished(e) THEN "running" ELSE status[r]]
    /\ UNCHANGED <<running, wave, step, pending, ignore, pauseState, was, left, home, inbox,
                   coord, client, paused>>
-----------------------------------------------------------------------------
(***************************************************************************)
(* Collective operations                                                   *)
(***************************************************************************)
Computed == {r \in Req : status[r] = "running" /\ r \in Unfinished(home[r])}

\* Everybody is in the forward pass: it goes through.
Forward ==
    /\ \A e \in Engine : pc[e] = "forward"
    /\ left' = [r \in Req |-> IF r \in Computed THEN left[r] - 1 ELSE left[r]]
    /\ status' = [r \in Req |-> IF r \in Computed /\ left[r] = 1 THEN "done" ELSE status[r]]
    /\ pc' = [e \in Engine |-> "after"]
    /\ UNCHANGED <<running, wave, step, pending, ignore, pauseState, was, home, inbox, coord,
                   client, paused>>

\* Notice of rank 0 to the coordinator: the loop has started.
Edge(e) == ~was[e] /\ e = 0 /\ ~pending[e]

\* Every SyncEvery-th step ends in an all-reduce.
Synchronises(e) == (step[e] + 1) % SyncEvery = 0

\* Fault: an engine without requests of its own does not count.
NextStepBusy(e) == IF Of(e, {"running", "done"}) = {} THEN step[e] ELSE (step[e] + 1) % SyncEvery

\* step_counter: dummy batches count.  Only its remainder is ever used, and kept.
NextStep(e) == (step[e] + 1) % SyncEvery

\* _has_global_unfinished_reqs without a synchronisation.
After(e) ==
    /\ pc[e] = "after"
    /\ step' = [step EXCEPT ![e] = NextStep(e)]
    /\ IF Synchronises(e)
       THEN /\ pc' = [pc EXCEPT ![e] = "sync"]
            /\ UNCHANGED <<running, was, notes>>
       ELSE /\ pc' = [pc EXCEPT ![e] = "top"]
            /\ running' = [running EXCEPT ![e] = TRUE]
            /\ was' = [was EXCEPT ![e] = TRUE]
            /\ IF Edge(e) THEN Note(e, [kind |-> "start_wave", wave |-> wave[e]])
                          ELSE UNCHANGED notes
    /\ UNCHANGED <<wave, pending, ignore, pauseState, reqs, inbox, cwave, crunning, starts,
                   client, paused>>

\* sync_dp_state: all engines agree to pause.
Consensus == \A e \in Engine : pending[e]

\* sync_dp_state: somebody has requests, or waits for the others to pause.
GoesOn ==
    \/ \E e \in Engine : Unfinished(e) # {}
    \/ ~Consensus /\ \E e \in Engine : pending[e]

\* Everybody is in the all-reduce.
Sync ==
    /\ \A e \in Engine : pc[e] = "sync"
    /\ LET go == GoesOn
       IN /\ running' = [e \in Engine |-> go] /\ was' = running'
          /\ wave' = [e \in Engine |-> IF go THEN wave[e] ELSE wave[e] + 1]
          /\ step' = [e \in Engine |-> 0]
          /\ notes' = IF ~go
                      THEN [notes EXCEPT ![0] = Append(@, [kind |-> "wave_complete",
                                                           wave |-> wave[0]])]
                      ELSE IF Edge(0) /\ ~Consensus
                      THEN [notes EXCEPT ![0] = Append(@, [kind |-> "start_wave",
                                                           wave |-> wave[0]])]
                      ELSE notes
    /\ pending' = [e \in Engine |-> IF Consensus THEN FALSE ELSE pending[e]]
    /\ ignore' = [e \in Engine |-> ignore[e] \/ Consensus]
    /\ pc' = [e \in Engine |-> "top"]
    /\ UNCHANGED <<pauseState, reqs, inbox, starts, cwave, crunning, client, paused>>

\* Everybody is in the all-reduce at the end of resume_scheduler.
Resumed ==
    /\ \A e \in Engine : pc[e] = "resume"
    /\ running' = [e \in Engine |-> \E f \in Engine : Unfinished(f) # {}]
    /\ pc' = [e \in Engine |-> "top"]
    /\ UNCHANGED <<wave, step, pending, ignore, pauseState, was, reqs, inbox, coord, client,
                   paused>>

Clients == (\E r \in Req, e \in Engine : Send(r, e)) \/ \E m \in Modes : Pause(m)
Take(e) == TakeAdd(e) \/ TakePause(e) \/ TakeResume(e)

Next ==
    \/ Clients \/ Refresh \/ Resume
    \/ \E s \in Sender : Coordinate(s)
    \/ \E e \in Engine : Take(e) \/ TakeStart(e) \/ PauseDone(e) \/ Go(e) \/ After(e)
    \/ Forward \/ Sync \/ Resumed

Spec == Init /\ [][Next]_vars
-----------------------------------------------------------------------------
(***************************************************************************)
(* Properties                                                              *)
(***************************************************************************)
Collective == {"forward", "sync", "resume"}

\* Engines that wait for each other wait in the same operation: all-reduces of
\* different kinds, or a forward pass against an all-reduce, never meet.
SameOperation ==
    \A e, f \in Engine :
        pc[e] \in Collective /\ pc[f] \in Collective => pc[e] = pc[f]

\* A paused set of engines stays so: no forward pass until somebody resumes,
\* whatever starts the coordinator has on the way.
PausedIsIdle == paused = Engine => \A e \in Engine : pc[e] # "forward" /\ ~running[e]

\* A pause that has completed on one engine was agreed on by all of them: nobody
\* is still on its way to the consensus, which the others would have to enter again.
PauseAgreed ==
    \A e \in paused, f \in Engine : pauseState[f] # "unpaused" /\ ~pending[f]

\* A pause is complete when all engines have agreed on it, and nothing runs until it ends.
PauseHolds == PausedIsIdle /\ PauseAgreed

\* Nobody computes alone: when an engine is in a forward pass, an idle one has
\* work, or a message on the way that gives it some.  (After a resume this can
\* fail: a START_DP_WAVE from before it is ignored by an engine that takes it
\* before its resume and obeyed by one that takes it afterwards, which then waits
\* for the next request.)
NobodyAlone ==
    npauses = 0 => \A e, f \in Engine :
        pc[e] = "forward" /\ pc[f] = "top" /\ ~HasWork(f)
            => \/ inbox[f] # <<>> \/ starts[f] # <<>>
               \/ \E s \in Sender : notes[s] # <<>>
=============================================================================
