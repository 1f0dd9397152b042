------------------------------ MODULE RowStore ------------------------------
(***************************************************************************)
(* The engram row store (overlay/engram_ssd): a table lookup on the CUDA   *)
(* stream whose host callback reads rows from the SSD with a thread pool   *)
(* (row_store.cpp).                                                        *)
(*                                                                         *)
(* lookup() puts three operations on the rank's stream: the ids go to a    *)
(* pinned buffer, the callback fills the row buffer, the rows go back to   *)
(* the device.  The host runs ahead, so several lookups may be queued, and *)
(* all lookups of one capacity share the buffers.                          *)
(*                                                                         *)
(* A critical section under the pool's mutex is one action.  Waiting on a  *)
(* condition variable is a state of its own ("asleep") that a notification *)
(* ends, or nothing at all: C++ permits spurious wakeups.                  *)
(***************************************************************************)
EXTENDS Integers, Sequences, FiniteSets

CONSTANTS Worker,         \* the pool's threads (DSV41_ENGRAM_THREADS)
          Chunk,          \* rows per job: 64 in the code
          RowLo, RowHi,   \* row_store_range: the rows this rank owns
          Inputs,         \* the id sequences that are looked up
          MaxLookups      \* bound: how many lookups the host asks for

ASSUME StoreAssumption ==
    /\ IsFiniteSet(Worker) /\ Worker # {}
    /\ Chunk \in Nat \ {0} /\ MaxLookups \in Nat
    /\ RowLo \in Nat /\ RowHi \in Nat /\ RowLo <= RowHi
    /\ Inputs \subseteq (Seq(Int) \ {<<>>})

VARIABLES
    asked,     \* lookups the host has put on the stream
    stream,    \* those not yet complete, oldest first
    stage,     \* the next operation of the oldest: "ids", "call" or "rows"
    ids,       \* pinned id buffer of every capacity
    rows,      \* pinned row buffer of every capacity
    out,       \* the last complete lookup: its ids and what it delivered
    caller,    \* the thread that calls into the pool
    njobs, next, finished, stop,   \* Pool
    worker,    \* what every pool thread is doing
    idx        \* and the index of its job

hostVars == <<asked, stream>>
poolVars == <<njobs, next, finished>>
bufVars  == <<stage, ids, rows, out>>
vars == <<hostVars, bufVars, caller, poolVars, stop, worker, idx>>
-----------------------------------------------------------------------------
ZeroRow == -1   \* the row of zeros
Junk    == -2   \* what torch.empty leaves in a buffer

\* The smallest power of two that holds count rows.
Capacity(count) ==
    CHOOSE c \in {2^k : k \in 0..count} : count <= c /\ c < 2 * count
Capacities == {Capacity(Len(s)) : s \in Inputs}

\* A buffer holds the lookups it is used for.
ASSUME BufferAssumption ==
    \A s \in Inputs : Capacity(Len(s)) \in Nat /\ Len(s) <= Capacity(Len(s))

\* fetch_one; a row is named by its id.  (The abort for an id at or above rows is
\* behind this test, as row_store_range keeps row_hi within rows.)
FetchOne(id) == IF id < 0 \/ id < RowLo \/ id >= RowHi THEN ZeroRow ELSE id

Head1 == Head(stream)
Count == Len(Head1)
Buffer == Capacity(Count)

\* Fault: the rows behind the last full chunk get no job.
NumJobsDown(n) == n \div Chunk

NumJobs(n) == (n + Chunk - 1) \div Chunk

\* Rows lo+1 .. hi of the row buffer after they were fetched.
Fetched(lo, hi) ==
    [i \in 1..Buffer |->
        IF lo < i /\ i <= hi THEN FetchOne(ids[Buffer][i]) ELSE rows[Buffer][i]]

Init ==
    /\ asked = 0 /\ stream = <<>> /\ stage = "ids"
    /\ ids  = [c \in Capacities |-> [i \in 1..c |-> Junk]]
    /\ rows = [c \in Capacities |-> [i \in 1..c |-> Junk]]
    /\ out = [ids |-> <<>>, rows |-> <<>>]
    /\ caller = "idle"
    /\ njobs = 0 /\ next = 0 /\ finished = 0 /\ stop = FALSE
    /\ worker = [w \in Worker |-> "check"]
    /\ idx = [w \in Worker |-> 0]
-----------------------------------------------------------------------------
\* SsdEngramTable.lookup on the host: enqueue and go on.
Lookup(s) ==
    /\ ~stop /\ asked < MaxLookups
    /\ asked' = asked + 1
    /\ stream' = Append(stream, s)
    /\ UNCHANGED <<bufVars, caller, poolVars, stop, worker, idx>>

\* The stream's first operation: ids[:count] of the shared buffer.
CopyIds ==
    /\ stream # <<>> /\ stage = "ids"
    /\ stage' = "call"
    /\ ids' = [ids EXCEPT ![Buffer] =
                 [i \in 1..Buffer |-> IF i <= Count THEN Head1[i] ELSE ids[Buffer][i]]]
    /\ UNCHANGED <<hostVars, rows, out, caller, poolVars, stop, worker, idx>>

\* row_store_lookup with a single job: the callback thread does it itself.
LookupInline ==
    /\ stream # <<>> /\ stage = "call" /\ caller = "idle"
    /\ NumJobs(Count) = 1
    /\ rows' = [rows EXCEPT ![Buffer] = Fetched(0, Count)]
    /\ stage' = "rows"
    /\ UNCHANGED <<hostVars, ids, out, caller, poolVars, stop, worker, idx>>

\* Pool::run: the job is installed under the mutex, ...
Publish ==
    /\ stream # <<>> /\ stage = "call" /\ caller = "idle"
    /\ NumJobs(Count) # 1
    /\ njobs' = NumJobs(Count) /\ next' = 0 /\ finished' = 0
    /\ caller' = "notify"
    /\ UNCHANGED <<hostVars, bufVars, stop, worker, idx>>

\* Fault: nobody is woken.
WokenNone == {worker}

\* cv.notify_all.
Woken == {[w \in Worker |-> IF worker[w] = "asleep" THEN "check" ELSE worker[w]]}

\* ... then the threads are woken, ...
NotifyAll ==
    /\ caller = "notify"
    /\ caller' = "check"
    /\ worker' \in Woken
    /\ UNCHANGED <<hostVars, bufVars, poolVars, stop, idx>>

\* Fault: the caller waits for all jobs to be taken.
AllTaken == next = njobs

AllFinished == finished = njobs

\* ... and the caller waits on done_cv.
Return ==
    /\ caller = "check"
    /\ IF AllFinished THEN caller' = "idle" /\ stage' = "rows"
                      ELSE caller' = "asleep" /\ UNCHANGED stage
    /\ UNCHANGED <<hostVars, ids, rows, out, poolVars, stop, worker, idx>>

\* The rows go to the device, are dequantised and delivered.
CopyRows ==
    /\ stream # <<>> /\ stage = "rows"
    /\ out' = [ids |-> Head1, rows |-> SubSeq(rows[Buffer], 1, Count)]
    /\ stream' = Tail(stream)
    /\ stage' = "ids"
    /\ UNCHANGED <<asked, ids, rows, caller, poolVars, stop, worker, idx>>
-----------------------------------------------------------------------------
\* Fault: an index too many.
OneMoreJob == next <= njobs

JobLeft == next < njobs

\* Pool::loop, a thread that holds the mutex: leave, take a job, or wait.
Take(w) ==
    /\ worker[w] = "check"
    /\ IF ~stop /\ JobLeft
       THEN /\ worker' = [worker EXCEPT ![w] = "job"]
            /\ idx' = [idx EXCEPT ![w] = next]
            /\ next' = next + 1
       ELSE /\ worker' = [worker EXCEPT ![w] = IF stop THEN "exited" ELSE "asleep"]
            /\ UNCHANGED <<idx, next>>
    /\ UNCHANGED <<hostVars, bufVars, caller, njobs, finished, stop>>

\* job(idx), without the mutex: the rows of one chunk.
RunJob(w) ==
    /\ worker[w] = "job"
    /\ worker' = [worker EXCEPT ![w] = "finish"]
    /\ LET lo == idx[w] * Chunk
           hi == IF Count < lo + Chunk THEN Count ELSE lo + Chunk
       IN rows' = [rows EXCEPT ![Buffer] = Fetched(lo, hi)]
    /\ UNCHANGED <<hostVars, stage, ids, out, caller, poolVars, stop, idx>>

\* The thread counts its job; the last one wakes the caller.
FinishJob(w) ==
    /\ worker[w] = "finish"
    /\ worker' = [worker EXCEPT ![w] = "check"]
    /\ finished' = finished + 1
    /\ caller' = IF finished + 1 = njobs /\ caller = "asleep" THEN "check" ELSE caller
    /\ UNCHANGED <<hostVars, bufVars, njobs, next, stop, idx>>

\* A wait returns although nobody notified.
SpuriousWorker(w) ==
    /\ worker[w] = "asleep"
    /\ worker' = [worker EXCEPT ![w] = "check"]
    /\ UNCHANGED <<hostVars, bufVars, caller, poolVars, stop, idx>>

SpuriousCaller ==
    /\ caller = "asleep"
    /\ caller' = "check"
    /\ UNCHANGED <<hostVars, bufVars, poolVars, stop, worker, idx>>
-----------------------------------------------------------------------------
\* row_store_close, called when the stream is drained: ~Pool sets stop, ...
Close ==
    /\ stream = <<>> /\ caller = "idle"
    /\ stop' = TRUE
    /\ caller' = "stopping"
    /\ UNCHANGED <<hostVars, bufVars, poolVars, worker, idx>>

\* ... wakes the threads ...
NotifyStop ==
    /\ caller = "stopping"
    /\ caller' = "joining"
    /\ worker' \in Woken
    /\ UNCHANGED <<hostVars, bufVars, poolVars, stop, idx>>

\* ... and joins them.
Join ==
    /\ caller = "joining" /\ \A w \in Worker : worker[w] = "exited"
    /\ caller' = "closed"
    /\ UNCHANGED <<hostVars, bufVars, poolVars, stop, worker, idx>>

Closed == caller = "closed" /\ UNCHANGED vars

StreamStep == CopyIds \/ LookupInline \/ CopyRows
CallerStep == Publish \/ NotifyAll \/ Return \/ NotifyStop \/ Join
WorkerStep(w) == Take(w) \/ RunJob(w) \/ FinishJob(w)

Next ==
    \/ \E s \in Inputs : Lookup(s)
    \/ StreamStep \/ CallerStep
    \/ \E w \in Worker : WorkerStep(w) \/ SpuriousWorker(w)
    \/ SpuriousCaller
    \/ Close \/ Closed

Spec == Init /\ [][Next]_vars

\* The stream, the callback thread and the pool's threads keep running; nothing
\* is asked of the host or of spurious wakeups.
FairSpec ==
    /\ Spec
    /\ WF_vars(StreamStep) /\ WF_vars(CallerStep)
    /\ \A w \in Worker : WF_vars(WorkerStep(w))
-----------------------------------------------------------------------------
(***************************************************************************)
(* Properties                                                              *)
(***************************************************************************)
Busy == {w \in Worker : worker[w] \in {"job", "finish"}}

\* A lookup delivers for every id the row of that id, or zeros outside the owned
\* range, whatever earlier lookups left in the shared buffers and however the
\* jobs were spread over the threads.
LookupCorrect ==
    out.rows = [i \in 1..Len(out.ids) |-> FetchOne(out.ids[i])]

\* The pool's counters are those of the current call: every job is taken once,
\* and those taken are finished or with a thread.
PoolAccounts ==
    /\ finished + Cardinality(Busy) = next
    /\ next <= njobs
    /\ \A w \in Busy : idx[w] < next
    /\ \A v, w \in Busy : v # w => idx[v] # idx[w]

\* No thread is inside a job when Pool::run has returned: the job refers to the
\* callback's stack frame and to the buffers of its lookup.
JobsInsideCall ==
    Busy # {} => stage = "call" /\ caller \in {"notify", "check", "asleep"}

\* Every lookup the host asks for is delivered.
Served == \A n \in 1..MaxLookups : asked >= n ~> asked - Len(stream) >= n

\* A store that is closed gets rid of all its threads.
Closes == stop ~> caller = "closed"

\* No wakeup is lost between the caller of Pool::run, the threads and ~Pool.
NoWakeupLost == Served /\ Closes
=============================================================================
