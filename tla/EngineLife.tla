----------------------------- MODULE EngineLife -----------------------------
(***************************************************************************)
(* The life of an engine process (v1/engine/core.py, EngineCoreProc): the  *)
(* input thread, the busy loop, the output thread, clients that add and    *)
(* abort requests and pause, sleep, wake and resume the engine, a failing  *)
(* executor, and shutdown by a signal.                                     *)
(*                                                                         *)
(* What a step computes is PPEngine's business.  Here a request needs Work *)
(* steps, and a batch is the set of requests it computes.                  *)
(***************************************************************************)
EXTENDS Integers, Sequences, FiniteSets, SequencesExt

CONSTANTS Req,          \* requests
          Cancellable,  \* those whose clients may leave
          Work,         \* steps a request takes
          QueueSize,    \* batch_queue_size
          DrainModes,   \* whether shutdown_timeout > 0: one or both
          Calls,        \* utility calls that clients make
          MaxEvents,    \* bound: calls, signals, failures and clients that leave
          ClientWaits,  \* clients wait for the answer to a call before the next
          Fails         \* whether the executor may fail

ASSUME LifeAssumption ==
    /\ IsFiniteSet(Req) /\ Cancellable \subseteq Req /\ Work \in Nat \ {0} /\ QueueSize \in Nat \ {0}
    /\ DrainModes \subseteq BOOLEAN /\ ClientWaits \in BOOLEAN /\ Fails \in BOOLEAN
    /\ MaxEvents \in Nat
    /\ \A c \in Calls : /\ c.op \in {"pause", "sleep", "wake", "resume"}
                        /\ c.op = "sleep" => c.clear     \* sleep at level 1 or 2

VARIABLES
    inputQ, abortsQ,    \* queues between the input thread and the engine
    holding,    \* abort the input thread has put in one of the two queues only
    finals,     \* how often clients were told that a request has ended
    replies,    \* answers to calls
    status,     \* of every request
    left,       \* steps it still needs
    announce,   \* finished_req_ids: finished since the last schedule()
    batches,    \* batch_queue, oldest first
    pauseState, \* of the scheduler
    callbacks,  \* _idle_state_callbacks: calls answered when the engine is idle
    asleep,     \* parts of the executor's memory that are not resident
    shutdown,   \* shutdown_state
    wakeup,     \* a WAKEUP is to be put into the input queue
    pc,         \* the engine thread
    promise,    \* a pause was completed and nothing has undone it
    ncalls, gone, nsignals,  \* environment: calls and signals made, clients gone
    drain       \* configuration: shutdown waits for requests

threads == <<inputQ, abortsQ, holding>>
outputs == <<finals, replies>>
sched   == <<status, left, announce, batches, pauseState>>
life    == <<callbacks, asleep, shutdown, wakeup, promise>>
client  == <<ncalls, gone, nsignals, drain>>
vars    == <<threads, outputs, sched, life, client, pc>>

\* The executor has failed: the engine thread has been told or will be.
Failed == pc = "dead" \/ \E i \in 1..Len(inputQ) : inputQ[i].kind = "failed"

Events == ncalls + nsignals + Cardinality(gone) + (IF Failed THEN 1 ELSE 0)

Memory == {"weights", "kv_cache"}
-----------------------------------------------------------------------------
Live    == {r \in Req : status[r] \in {"waiting", "running"}}
Running == {r \in Req : status[r] = "running"}
InFlight == UNION {batches[i] : i \in 1..Len(batches)}

\* Fault: waiting requests count although they are not admitted.
UnfinishedAll == IF pauseState = "paused_all" THEN {} ELSE Live

\* get_num_unfinished_requests.
Unfinished ==
    CASE pauseState = "paused_all" -> {}
      [] pauseState = "paused_new" -> Running
      [] OTHER -> Live

HasRequests == Unfinished # {} \/ announce # {}

HasWork == HasRequests \/ batches # <<>>

\* Messages of the output queue: the output thread sends them in order.
SendFinals(S) == finals' = [r \in Req |-> IF r \in S THEN finals[r] + 1 ELSE finals[r]]
SendReplies(n) == replies' = replies + n

\* finish_requests(S, FINISHED_ABORTED).
Finished(S) ==
    /\ status' = [r \in Req |-> IF r \in S THEN "finished" ELSE status[r]]
    /\ announce' = announce \cup S

\* What _reset_caches makes of running requests: they are preempted.
Preempted(st) == [r \in Req |-> IF st[r] = "running" THEN "waiting" ELSE st[r]]
-----------------------------------------------------------------------------
Init ==
    /\ holding = <<>> /\ inputQ = <<>> /\ abortsQ = <<>>
    /\ finals = [r \in Req |-> 0] /\ replies = 0
    /\ status = [r \in Req |-> "new"] /\ left = [r \in Req |-> Work]
    /\ announce = {} /\ batches = <<>> /\ pauseState = "unpaused"
    /\ callbacks = <<>> /\ asleep = {} /\ shutdown = "running" /\ wakeup = FALSE
    /\ pc = "shutdown" /\ promise = FALSE
    /\ ncalls = 0 /\ gone = {} /\ nsignals = 0 /\ drain \in DrainModes

(***************************************************************************)
(* Clients, and the input thread that takes their messages in order        *)
(***************************************************************************)
Put(m) == inputQ' = Append(inputQ, m)

Add(r) ==
    /\ status[r] = "new" /\ holding = <<>>
    /\ status' = [status EXCEPT ![r] = "sent"]
    /\ Put([kind |-> "add", req |-> r])
    /\ UNCHANGED <<holding, abortsQ, outputs, left, announce, batches, pauseState, life,
                   client, pc>>

\* preprocess_add_request fails, or the receiver cache misses an item.
AddBad(r) ==
    /\ status[r] = "new" /\ holding = <<>>
    /\ status' = [status EXCEPT ![r] = "finished"]
    /\ SendFinals({r})
    /\ UNCHANGED <<threads, replies, left, announce, batches, pauseState, life, client, pc>>

\* Fault: an abort is put only where it is handled soonest.
AbortEager(r) ==
    /\ r \in Cancellable \ gone /\ status[r] # "new" /\ holding = <<>> /\ Events < MaxEvents
    /\ gone' = gone \cup {r}
    /\ abortsQ' = Append(abortsQ, r)
    /\ UNCHANGED <<inputQ, holding, outputs, sched, life, ncalls, nsignals, drain, pc>>

\* The client of r is gone.  process_input_sockets: into both queues ...
Abort(r) ==
    /\ r \in Cancellable \ gone /\ status[r] # "new" /\ holding = <<>> /\ Events < MaxEvents
    /\ gone' = gone \cup {r}
    /\ abortsQ' = Append(abortsQ, r)
    /\ holding' = <<[kind |-> "abort", req |-> r]>>
    /\ UNCHANGED <<inputQ, outputs, sched, life, ncalls, nsignals, drain, pc>>

\* ... one after the other.
PutHeld ==
    /\ holding # <<>>
    /\ inputQ' = inputQ \o holding
    /\ holding' = <<>>
    /\ UNCHANGED <<abortsQ, outputs, sched, life, client, pc>>

Call(c) ==
    /\ Events < MaxEvents /\ holding = <<>>
    /\ ClientWaits => replies = ncalls
    /\ ClientWaits /\ c.op = "resume" => asleep = {}
    /\ ncalls' = ncalls + 1
    /\ Put([kind |-> "call", call |-> c])
    /\ UNCHANGED <<holding, abortsQ, outputs, sched, life, gone, nsignals, drain, pc>>
-----------------------------------------------------------------------------
(***************************************************************************)
(* The engine thread: client requests                                      *)
(***************************************************************************)
\* Adds and calls that come after a shutdown was requested are turned away.
Rejects == shutdown # "running"

\* add_request, or _reject_add_in_shutdown.
HandleAdd(r) ==
    /\ IF Rejects
       THEN status' = [status EXCEPT ![r] = "finished"] /\ SendFinals({r})
       ELSE status' = [status EXCEPT ![r] = "waiting"] /\ UNCHANGED finals
    /\ UNCHANGED <<replies, left, announce, batches, pauseState, life>>

HandleAbort(r) ==
    /\ Finished({r} \cap Live)
    /\ UNCHANGED <<outputs, left, batches, pauseState, life>>

\* Fault: a pause does not wait for the batches under way.
PauseDoneEarly(st, mode) == mode = "keep" \/ \A r \in Req : st[r] # "running"

\* _pause_complete, with the state that the call has just set: not has_work().
PauseDone(st, mode) == batches = <<>> /\ (mode = "keep" \/ \A r \in Req : st[r] # "running")

\* A finished sleep offloads the executor's memory.
Sleeps(cs) == IF \E c \in cs : c.op = "sleep" THEN Memory ELSE asleep

\* pause_scheduler, and sleep on top of it: abort what there is, set the pause
\* state, and finish now or when the engine is idle.
HandlePause(c) ==
    LET aborted == IF c.mode = "abort" THEN Live ELSE {}
        st == [r \in Req |-> IF r \in aborted THEN "finished" ELSE status[r]]
        done == announce \cup aborted = {} /\ PauseDone(st, c.mode)
    IN /\ pauseState' = IF c.mode = "keep" THEN "paused_all" ELSE "paused_new"
       /\ announce' = announce \cup aborted
       /\ status' = IF done /\ c.clear THEN Preempted(st) ELSE st
       /\ asleep' = IF done THEN Sleeps({c}) ELSE asleep
       /\ SendFinals(aborted) /\ SendReplies(IF done THEN 1 ELSE 0)
       /\ callbacks' = IF done THEN callbacks ELSE Append(callbacks, c)
       /\ promise' = done
       /\ UNCHANGED <<left, batches, shutdown, wakeup>>

\* Fault: waking a part of the memory resumes.
ResumesPartly(c) == TRUE

\* Partial wakes keep the scheduler paused.
Resumes(c) == c.op = "wake" => asleep \subseteq c.tags

\* wake_up(tags) and resume_scheduler.
HandleResume(c) ==
    LET resumed == Resumes(c)
    IN /\ asleep' = IF c.op = "wake" THEN asleep \ c.tags ELSE asleep
       /\ pauseState' = IF resumed THEN "unpaused" ELSE pauseState
       /\ promise' = (promise /\ ~resumed)
       /\ SendReplies(1)
       /\ UNCHANGED <<finals, status, left, announce, batches, callbacks, shutdown, wakeup>>

\* _reject_utility_in_shutdown.
RejectCall ==
    /\ SendReplies(1)
    /\ UNCHANGED <<finals, sched, life>>

\* _handle_client_request, except EXECUTOR_FAILED.
Handle(m) ==
    \/ m.kind = "wakeup" /\ UNCHANGED <<outputs, sched, life>>
    \/ m.kind = "add" /\ HandleAdd(m.req)
    \/ m.kind = "abort" /\ HandleAbort(m.req)
    \/ /\ m.kind = "call" /\ ~Rejects
       /\ IF m.call.op \in {"pause", "sleep"} THEN HandlePause(m.call) ELSE HandleResume(m.call)
    \/ m.kind = "call" /\ Rejects /\ RejectCall
-----------------------------------------------------------------------------
(***************************************************************************)
(* The engine thread: the busy loop                                        *)
(***************************************************************************)
\* Without a timeout to drain in, requests are aborted.
ShutdownAborts == IF shutdown = "requested" /\ ~drain THEN Live ELSE {}

\* _handle_shutdown.
HandleShutdown ==
    /\ pc = "shutdown"
    /\ Finished(ShutdownAborts)
    /\ SendFinals(ShutdownAborts)
    /\ shutdown' = IF shutdown = "requested" THEN "shutting_down" ELSE shutdown
    /\ UNCHANGED <<batches, pauseState>>
    /\ pc' = IF shutdown # "running" /\ ~HasWork' THEN "exit" ELSE "poll"
    /\ UNCHANGED <<threads, replies, left, callbacks, asleep, wakeup, promise, client>>

\* _process_input_queue with nothing to do: run the callbacks of pauses that
\* waited for this (_finish_pause, and the sleep on top of it), ...
PollIdle ==
    /\ pc = "poll" /\ ~HasWork /\ shutdown = "running"
    /\ callbacks' = <<>>
    /\ LET cs == {callbacks[i] : i \in 1..Len(callbacks)}
       IN /\ status' = IF \E c \in cs : c.clear THEN Preempted(status) ELSE status
          /\ asleep' = Sleeps(cs)
          /\ promise' = (promise \/ (cs # {} /\ pauseState # "unpaused"))
    /\ SendReplies(Len(callbacks))
    /\ pc' = IF inputQ = <<>> THEN "clear" ELSE "get"
    /\ UNCHANGED <<threads, finals, left, announce, batches, pauseState, shutdown, wakeup,
                   client>>

\* ... drop aborts that will also come through the input queue, ...
ClearAborts ==
    /\ pc = "clear"
    /\ abortsQ' = <<>>
    /\ pc' = "get"
    /\ UNCHANGED <<inputQ, holding, outputs, sched, life, client>>

\* ... and block for a message.
Get ==
    /\ pc = "get" /\ inputQ # <<>> /\ Head(inputQ).kind # "failed"
    /\ Handle(Head(inputQ))
    /\ inputQ' = Tail(inputQ)
    /\ pc' = "poll"
    /\ UNCHANGED <<holding, abortsQ, client>>

PollBusy ==
    /\ pc = "poll" /\ (HasWork \/ shutdown # "running")
    /\ pc' = "drain"
    /\ UNCHANGED <<threads, outputs, sched, life, client>>

\* Handle any more client requests.
DrainInput ==
    /\ pc = "drain"
    /\ IF inputQ = <<>>
       THEN pc' = "step" /\ UNCHANGED <<inputQ, outputs, sched, life>>
       ELSE /\ Head(inputQ).kind # "failed"
            /\ Handle(Head(inputQ))
            /\ inputQ' = Tail(inputQ) /\ UNCHANGED pc
    /\ UNCHANGED <<holding, abortsQ, client>>

\* EXECUTOR_FAILED raises; the clients are told (_send_engine_dead).
Die ==
    /\ pc \in {"get", "drain"} /\ inputQ # <<>> /\ Head(inputQ).kind = "failed"
    /\ pc' = "dead"
    /\ UNCHANGED <<threads, outputs, sched, life, client>>

\* What schedule() may take in each pause state.
Schedulable ==
    CASE pauseState = "paused_all" -> {}
      [] pauseState = "paused_new" -> Running \ InFlight
      [] OTHER -> Live \ InFlight

\* The first half of step_with_batch_queue: a batch is scheduled and queued.
Step ==
    /\ pc = "step" /\ HasRequests
    /\ \E S \in SUBSET Schedulable :
          /\ Schedulable # {} => S # {}
          /\ batches' = Append(batches, S)
          /\ status' = [r \in Req |-> IF r \in S THEN "running" ELSE status[r]]
    /\ announce' = {} /\ UNCHANGED pauseState
    /\ pc' = IF Len(batches') < QueueSize /\ (batches'[Len(batches')] # {} \/ HasRequests')
             THEN "shutdown" ELSE "result"
    /\ UNCHANGED <<left, life, threads, outputs, client>>

StepNothing ==
    /\ pc = "step" /\ ~HasRequests
    /\ pc' = IF batches = <<>> THEN "shutdown" ELSE "result"
    /\ UNCHANGED <<threads, outputs, sched, life, client>>

\* update_from_output skips requests that were finished meanwhile.
Delivered(S) == S \cap Live

\* The second half: wait for the oldest batch, process the aborts that came
\* meanwhile, then its output.
Result ==
    /\ pc = "result"
    /\ LET aborted == {abortsQ[i] : i \in 1..Len(abortsQ)} \cap Live
           valid == Delivered(Head(batches)) \ aborted
           done == {r \in valid : left[r] = 1}
       IN /\ left' = [r \in Req |-> IF r \in valid THEN left[r] - 1 ELSE left[r]]
          /\ Finished(aborted \cup done)
          /\ SendFinals(done)
    /\ abortsQ' = <<>>
    /\ batches' = Tail(batches)
    /\ pc' = "shutdown"
    /\ UNCHANGED <<inputQ, holding, replies, pauseState, life, client>>
-----------------------------------------------------------------------------
(***************************************************************************)
(* The environment                                                         *)
(***************************************************************************)
\* The executor reports its failure through the input queue.
Fail ==
    /\ Fails /\ ~Failed /\ pc # "exit" /\ Events < MaxEvents
    /\ Put([kind |-> "failed"])
    /\ UNCHANGED <<holding, abortsQ, outputs, sched, life, client, pc>>

\* Fault: the engine is not woken.
SignalQuiet ==
    /\ Events < MaxEvents /\ pc \notin {"dead", "exit"}
    /\ nsignals' = nsignals + 1
    /\ shutdown' = "requested"
    /\ UNCHANGED <<wakeup, callbacks, asleep, promise, threads, outputs, sched, ncalls, gone, drain, pc>>

\* SIGTERM: the handler sets the state; another thread wakes the engine.
Signal ==
    /\ Events < MaxEvents /\ pc \notin {"dead", "exit"}
    /\ nsignals' = nsignals + 1
    /\ shutdown' = "requested"
    /\ wakeup' = TRUE
    /\ UNCHANGED <<callbacks, asleep, promise, threads, outputs, sched, ncalls, gone, drain, pc>>

Wakeup ==
    /\ wakeup /\ wakeup' = FALSE
    /\ Put([kind |-> "wakeup"])
    /\ UNCHANGED <<holding, abortsQ, outputs, sched, callbacks, asleep, shutdown, promise,
                   client, pc>>

Clients == (\E r \in Req : Add(r) \/ AddBad(r) \/ Abort(r)) \/ \E c \in Calls : Call(c)
Engine ==
    \/ HandleShutdown \/ PollIdle \/ ClearAborts \/ Get \/ PollBusy \/ DrainInput \/ Die
    \/ Step \/ StepNothing \/ Result

Next ==
    \/ Clients \/ PutHeld \/ Engine
    \/ Fail \/ Signal \/ Wakeup

Spec == Init /\ [][Next]_vars

\* The process's threads run; nothing is asked of clients, signals and failures.
FairSpec ==
    /\ Spec
    /\ WF_vars(PutHeld) /\ WF_vars(Wakeup) /\ WF_vars(Engine)
-----------------------------------------------------------------------------
(***************************************************************************)
(* Properties                                                              *)
(***************************************************************************)
\* A client hears at most once that its request has ended, whatever of stop,
\* abort, pause, shutdown and rejection comes first; and never of a live one.  A
\* process that ends by itself leaves nobody without an answer, unless it was to
\* drain while it was paused.
FinalOnce ==
    /\ \A r \in Req : finals[r] <= 1 /\ (r \in Live => finals[r] = 0)
    /\ pc = "exit" => \A r \in Live : drain /\ pauseState # "unpaused"

\* An abort is never lost: once the engine has no message about a request any
\* more, a request whose client is gone is not live (process_input_sockets: both
\* queues, "to avoid leaking requests").
AbortsStick ==
    \A r \in gone :
        \/ r \notin Live
        \/ Contains(holding \o inputQ, [kind |-> "abort", req |-> r])

\* A request ends once, and for good.
EndedOnce == FinalOnce /\ AbortsStick

\* "A completed pause promises an idle device" (_finish_pause): until somebody
\* resumes, no batch with tokens is under way, whatever clients add or abort.
PromiseKept == promise => \A i \in 1..Len(batches) : batches[i] = {}

\* The model does not run on memory that is offloaded.
NoStepAsleep == asleep # {} => InFlight = {}

\* "Resume scheduling only once all executor memory is resident again" (wake_up).
ScheduledIsResident == pauseState = "unpaused" => asleep = {}

\* A signal ends the process, whether it was idle, paused or busy.
Ends == shutdown = "requested" ~> pc \in {"exit", "dead"}

Over == pc \in {"exit", "dead"} \/ shutdown # "running"

\* A request ends, unless its client leaves, the engine is paused or ends.
Served ==
    \A r \in Req :
        r \in Live ~> finals[r] = 1 \/ r \in gone \/ pauseState # "unpaused" \/ Over

\* A call is answered: a pause is not stuck, although new requests keep coming.
CallsAnswered == \A n \in 1..MaxEvents : ncalls >= n ~> replies >= n \/ Over

\* Clients are not left waiting.
Answered == Served /\ CallsAnswered
=============================================================================
