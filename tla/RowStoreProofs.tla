--------------------------- MODULE RowStoreProofs ---------------------------
(***************************************************************************)
(* The thread pool of the row store, for any number of threads, lookups    *)
(* and rows: its counters are right, no job outlives its call, and a       *)
(* lookup delivers the right rows.                                         *)
(***************************************************************************)
EXTENDS RowStore, FiniteSetTheorems, TLAPS

InCall == {"notify", "check", "asleep"}

PoolTypes ==
    /\ njobs \in Nat /\ next \in Nat /\ finished \in Nat
    /\ worker \in [Worker -> {"check", "asleep", "job", "finish", "exited"}]
    /\ idx \in [Worker -> Nat]
    /\ stream \in Seq(Inputs)

\* Between two calls all jobs are finished; so nobody is busy and none is left.
CallInv ==
    /\ caller \notin InCall => finished = njobs
    /\ caller \in InCall => stage = "call"

PoolInv == PoolTypes /\ PoolAccounts /\ CallInv

\* Busy threads are finitely many.
LEMMA BusyFinite == IsFiniteSet(Busy) /\ Cardinality(Busy) \in Nat
<1>1. Busy \in SUBSET Worker
  BY DEF Busy
<1>2. IsFiniteSet(Busy)
  BY <1>1, StoreAssumption, FS_Subset
<1> QED
  BY <1>2, FS_CardinalityType

\* The number of jobs of a lookup is a number.
LEMMA JobsType == ASSUME NEW n \in Nat PROVE NumJobs(n) \in Nat
BY StoreAssumption DEF NumJobs

\* Outside a call nobody is busy and no job is left.
LEMMA Quiet ==
    ASSUME PoolInv, caller \notin InCall
    PROVE  Busy = {} /\ next = njobs
<1>1. finished = njobs /\ next <= njobs /\ finished + Cardinality(Busy) = next
  BY DEF PoolInv, CallInv, PoolAccounts
<1>2. Cardinality(Busy) = 0 /\ next = njobs
  BY <1>1, BusyFinite DEF PoolInv, PoolTypes
<1> QED
  BY <1>2, BusyFinite, FS_EmptySet

LEMMA PoolInit == Init => PoolInv
<1> SUFFICES ASSUME Init PROVE PoolInv
  OBVIOUS
<1>1. PoolTypes
  BY DEF Init, PoolTypes
<1>2. Busy = {}
  BY DEF Init, Busy
<1>3. PoolAccounts
  BY <1>2, FS_EmptySet DEF Init, PoolAccounts
<1>4. CallInv
  BY DEF Init, CallInv, InCall
<1> QED
  BY <1>1, <1>3, <1>4 DEF PoolInv

\* A step that leaves the counters and the busy threads alone.
LEMMA PoolSame ==
    ASSUME PoolInv, UNCHANGED <<poolVars, idx>>, Busy' = Busy, PoolTypes', CallInv'
    PROVE  PoolInv'
BY DEF PoolInv, PoolAccounts, poolVars

\* Waking threads makes nobody busy.
LEMMA WokenTypes ==
    ASSUME PoolTypes, worker' \in Woken
    PROVE  /\ worker' \in [Worker -> {"check", "asleep", "job", "finish", "exited"}]
           /\ Busy' = Busy
<1>1. worker' = [w \in Worker |-> IF worker[w] = "asleep" THEN "check" ELSE worker[w]]
  BY DEF Woken
<1>2. \A w \in Worker : worker'[w] = IF worker[w] = "asleep" THEN "check" ELSE worker[w]
  BY <1>1
<1> QED
  BY <1>1, <1>2 DEF PoolTypes, Busy

LEMMA PoolPublish == ASSUME PoolInv, Publish PROVE PoolInv'
<1>1. Busy = {} /\ Busy' = Busy
  BY Quiet DEF Publish, InCall, Busy
<1>2. NumJobs(Count) \in Nat
  <2>1. stream \in Seq(Inputs) /\ stream # <<>>
    BY DEF PoolInv, PoolTypes, Publish
  <2>2. Head(stream) \in Inputs
    BY <2>1
  <2>3. Head(stream) \in Seq(Int)
    BY <2>2, StoreAssumption
  <2>4. Count \in Nat
    BY <2>3 DEF Count, Head1
  <2> QED
    BY <2>4, JobsType
<1>3. PoolTypes'
  BY <1>2 DEF Publish, PoolInv, PoolTypes, hostVars
<1>4. PoolAccounts'
  BY <1>1, <1>2, FS_EmptySet DEF Publish, PoolAccounts
<1>5. CallInv'
  BY DEF Publish, CallInv, InCall, bufVars
<1> QED
  BY <1>3, <1>4, <1>5 DEF PoolInv

LEMMA PoolTake ==
    ASSUME PoolInv, NEW w \in Worker, Take(w) PROVE PoolInv'
<1>0. /\ worker \in [Worker -> {"check", "asleep", "job", "finish", "exited"}]
      /\ idx \in [Worker -> Nat] /\ next \in Nat /\ njobs \in Nat /\ finished \in Nat
      /\ w \notin Busy
  BY DEF PoolInv, PoolTypes, Take, Busy
<1>1. CASE ~stop /\ JobLeft
  <2>1. /\ worker' = [worker EXCEPT ![w] = "job"] /\ idx' = [idx EXCEPT ![w] = next]
        /\ next' = next + 1 /\ next < njobs
        /\ UNCHANGED <<njobs, finished, caller, stream, stage>>
    BY <1>1 DEF Take, JobLeft, hostVars, bufVars
  <2>2. Busy' = Busy \cup {w}
    BY <1>0, <2>1 DEF Busy
  <2>3. Cardinality(Busy') = Cardinality(Busy) + 1
    BY <1>0, <2>2, BusyFinite, FS_AddElement
  <2>4. \A v \in Busy : idx'[v] = idx[v] /\ idx[v] < next /\ v \in Worker
    BY <1>0, <2>1 DEF PoolInv, PoolAccounts, Busy
  <2>5. idx'[w] = next
    BY <1>0, <2>1
  <2>6. PoolAccounts'
    <3>1. finished' + Cardinality(Busy') = next' /\ next' <= njobs'
      <4>1. finished + Cardinality(Busy) = next
        BY DEF PoolInv, PoolAccounts
      <4>2. Cardinality(Busy) \in Nat
        BY BusyFinite
      <4>3. finished + (Cardinality(Busy) + 1) = next + 1 /\ next + 1 <= njobs
        BY <1>0, <2>1, <4>1, <4>2
      <4>4. finished' = finished /\ njobs' = njobs /\ next' = next + 1
        BY <2>1
      <4> QED
        BY <2>3, <4>3, <4>4, Zenon
    <3>2. \A v \in Busy' : idx'[v] < next'
      <4> SUFFICES ASSUME NEW v \in Busy' PROVE idx'[v] < next'
        OBVIOUS
      <4>1. CASE v = w
        BY <1>0, <2>1, <2>5, <4>1
      <4>2. CASE v \in Busy
        <5>1. idx[v] \in Nat /\ idx[v] < next /\ idx'[v] = idx[v]
          BY <1>0, <2>4, <4>2
        <5> QED
          BY <1>0, <2>1, <5>1
      <4> QED
        BY <2>2, <4>1, <4>2
    <3>3. \A u, v \in Busy' : u # v => idx'[u] # idx'[v]
      <4>1. \A v \in Busy : idx'[v] # next
        BY <1>0, <2>4
      <4>2. \A u, v \in Busy : u # v => idx'[u] # idx'[v]
        BY <2>4 DEF PoolInv, PoolAccounts
      <4> QED
        BY <2>2, <2>5, <4>1, <4>2
    <3> QED
      BY <3>1, <3>2, <3>3 DEF PoolAccounts
  <2>7. PoolTypes'
    BY <1>0, <2>1 DEF PoolInv, PoolTypes
  <2>8. CallInv'
    BY <2>1 DEF PoolInv, CallInv
  <2> QED
    BY <2>6, <2>7, <2>8 DEF PoolInv
<1>2. CASE ~(~stop /\ JobLeft)
  <2>1. /\ worker' = [worker EXCEPT ![w] = IF stop THEN "exited" ELSE "asleep"]
        /\ UNCHANGED <<idx, next, njobs, finished, caller, stream, stage>>
    BY <1>2 DEF Take, hostVars, bufVars
  <2>2. Busy' = Busy
    BY <1>0, <2>1 DEF Busy
  <2>3. PoolTypes' /\ CallInv'
    BY <1>0, <2>1 DEF PoolInv, PoolTypes, CallInv
  <2> QED
    BY <2>1, <2>2, <2>3, PoolSame DEF poolVars
<1> QED
  BY <1>1, <1>2

LEMMA PoolFinishJob ==
    ASSUME PoolInv, NEW w \in Worker, FinishJob(w) PROVE PoolInv'
<1>0. /\ worker \in [Worker -> {"check", "asleep", "job", "finish", "exited"}]
      /\ next \in Nat /\ njobs \in Nat /\ finished \in Nat
      /\ w \in Busy
  BY DEF PoolInv, PoolTypes, FinishJob, Busy
<1>1. /\ worker' = [worker EXCEPT ![w] = "check"] /\ finished' = finished + 1
      /\ UNCHANGED <<idx, next, njobs, stream, stage>>
  BY DEF FinishJob, hostVars, bufVars
<1>2. Busy' = Busy \ {w}
  BY <1>0, <1>1 DEF Busy
<1>3. Cardinality(Busy') = Cardinality(Busy) - 1
  BY <1>0, <1>2, BusyFinite, FS_RemoveElement
<1>4. PoolAccounts'
  <2>1. finished' + Cardinality(Busy') = next' /\ next' <= njobs'
    BY <1>0, <1>1, <1>3, BusyFinite DEF PoolInv, PoolAccounts
  <2> QED
    BY <1>1, <1>2, <2>1 DEF PoolInv, PoolAccounts
<1>5. PoolTypes'
  BY <1>0, <1>1 DEF PoolInv, PoolTypes
<1>6. caller \in InCall
  BY <1>0, Quiet
<1>7. CallInv'
  BY <1>1, <1>6 DEF FinishJob, PoolInv, CallInv, InCall
<1> QED
  BY <1>4, <1>5, <1>7 DEF PoolInv

\* A step keeps the pool's invariant.
LEMMA PoolNext == PoolInv /\ [Next]_vars => PoolInv'
<1> SUFFICES ASSUME PoolInv, [Next]_vars PROVE PoolInv'
  OBVIOUS
<1>0. PoolTypes /\ CallInv
  BY DEF PoolInv
<1>1. CASE \E s \in Inputs : Lookup(s)
  <2>1. PICK s \in Inputs : Lookup(s)
    BY <1>1
  <2>2. PoolTypes' /\ CallInv'
    BY <1>0, <2>1 DEF Lookup, PoolTypes, CallInv, poolVars, bufVars
  <2>3. Busy' = Busy /\ UNCHANGED <<poolVars, idx>>
    BY <2>1 DEF Lookup, Busy
  <2> QED
    BY <2>2, <2>3, PoolSame
<1>2. CASE StreamStep
  <2>1. /\ UNCHANGED <<poolVars, worker, idx, caller>> /\ stream' \in Seq(Inputs)
    <3>1. UNCHANGED <<poolVars, worker, idx, caller>>
      BY <1>2 DEF StreamStep, CopyIds, LookupInline, CopyRows, poolVars
    <3>2. stream' = stream \/ (stream # <<>> /\ stream' = Tail(stream))
      BY <1>2 DEF StreamStep, CopyIds, LookupInline, CopyRows, hostVars
    <3>3. stream \in Seq(Inputs)
      BY <1>0 DEF PoolTypes
    <3>4. stream' \in Seq(Inputs)
      BY <3>2, <3>3
    <3> QED
      BY <3>1, <3>4
  <2>2. caller \notin InCall \/ stage' = stage
    BY <1>0, <1>2 DEF StreamStep, CopyIds, LookupInline, CopyRows, CallInv, InCall
  <2>3. PoolTypes' /\ CallInv'
    BY <1>0, <2>1, <2>2 DEF PoolTypes, CallInv, poolVars
  <2>4. Busy' = Busy
    BY <2>1 DEF Busy
  <2> QED
    BY <2>1, <2>3, <2>4, PoolSame
<1>3. CASE Publish
  BY <1>3, PoolPublish
<1>4. CASE NotifyAll \/ NotifyStop
  <2>1. /\ UNCHANGED <<poolVars, idx, stream, stage>> /\ worker' \in Woken
    BY <1>4 DEF NotifyAll, NotifyStop, hostVars, bufVars
  <2>2. PoolTypes' /\ Busy' = Busy
    BY <1>0, <2>1, WokenTypes DEF PoolTypes, poolVars
  <2>3. CallInv'
    BY <1>0, <1>4, <2>1 DEF CallInv, InCall, poolVars, NotifyAll, NotifyStop
  <2> QED
    BY <2>1, <2>2, <2>3, PoolSame
<1>5. CASE Return \/ Join \/ SpuriousCaller \/ Close
  <2>1. UNCHANGED <<poolVars, idx, stream, worker>>
    BY <1>5 DEF Return, Join, SpuriousCaller, Close, hostVars
  <2>2. CallInv'
    BY <1>0, <1>5, <2>1
       DEF Return, AllFinished, Join, SpuriousCaller, Close, CallInv, InCall, poolVars, bufVars
  <2>3. PoolTypes' /\ Busy' = Busy
    BY <1>0, <2>1 DEF PoolTypes, Busy, poolVars
  <2> QED
    BY <2>1, <2>2, <2>3, PoolSame
<1>6. CASE \E w \in Worker : WorkerStep(w) \/ SpuriousWorker(w)
  <2>1. PICK w \in Worker : WorkerStep(w) \/ SpuriousWorker(w)
    BY <1>6
  <2>2. CASE RunJob(w) \/ SpuriousWorker(w)
    <3>1. UNCHANGED <<poolVars, idx, stream, stage, caller>>
      BY <2>2 DEF RunJob, SpuriousWorker, hostVars, bufVars
    <3>2. PoolTypes' /\ CallInv'
      BY <1>0, <2>2, <3>1 DEF PoolTypes, CallInv, poolVars, RunJob, SpuriousWorker
    <3>3. Busy' = Busy
      BY <1>0, <2>2 DEF PoolTypes, Busy, RunJob, SpuriousWorker
    <3> QED
      BY <3>1, <3>2, <3>3, PoolSame
  <2> QED
    BY <2>1, <2>2, PoolTake, PoolFinishJob DEF WorkerStep
<1>7. CASE Closed \/ UNCHANGED vars
  <2>1. UNCHANGED <<poolVars, idx, stream, worker, caller, stage>>
    BY <1>7 DEF Closed, vars, hostVars, bufVars
  <2>2. PoolTypes' /\ CallInv' /\ Busy' = Busy
    BY <1>0, <2>1 DEF PoolTypes, CallInv, Busy, poolVars
  <2> QED
    BY <2>1, <2>2, PoolSame
<1> QED
  BY <1>1, <1>2, <1>3, <1>4, <1>5, <1>6, <1>7 DEF Next, CallerStep

\* Pool::run and Pool::loop keep the counters right however the threads are
\* scheduled: every job of a call is taken once, and a taken one is finished or
\* with a thread.
THEOREM PoolKeepsAccount == Spec => []PoolAccounts
<1>1. PoolInv => PoolAccounts
  BY DEF PoolInv
<1> QED
  BY <1>1, PoolInit, PoolNext, PTL DEF Spec

\* Pool::run returns only when no thread is inside its job any more.
THEOREM NoJobOutlivesItsCall == Spec => []JobsInsideCall
<1>1. PoolInv => JobsInsideCall
  BY Quiet DEF PoolInv, CallInv, JobsInsideCall, InCall
<1> QED
  BY <1>1, PoolInit, PoolNext, PTL DEF Spec
-----------------------------------------------------------------------------
(***************************************************************************)
(* What the buffers hold                                                   *)
(***************************************************************************)
\* Row i of the oldest lookup is in the row buffer.
Right(i) == rows[Buffer][i] = FetchOne(Head1[i])

\* All rows of job j are.
JobDone(j) == \A i \in 1..Count : j * Chunk < i /\ i <= j * Chunk + Chunk => Right(i)

Running(j) == \E w \in Worker : worker[w] = "job" /\ idx[w] = j

BufTypes ==
    /\ stage \in {"ids", "call", "rows"}
    /\ ids = [c \in Capacities |-> ids[c]] /\ rows = [c \in Capacities |-> rows[c]]
    /\ \A c \in Capacities : ids[c] \in [1..c -> Int] /\ rows[c] \in [1..c -> Int]

StageInv ==
    /\ stage # "ids" => stream # <<>>
    /\ stage = "call" => \A i \in 1..Count : ids[Buffer][i] = Head1[i]
    /\ stage = "rows" => \A i \in 1..Count : Right(i)

\* During a call every job is done that was taken and is not being run.
JobInv ==
    caller \in InCall =>
        /\ njobs = NumJobs(Count)
        /\ \A j \in Nat : j < next /\ ~Running(j) => JobDone(j)

DataInv == BufTypes /\ StageInv /\ JobInv /\ LookupCorrect

\* Every row belongs to a job.
LEMMA JobsCover ==
    ASSUME NEW n \in Nat, NEW i \in 1..n
    PROVE  \E j \in Nat : /\ j < NumJobs(n)
                          /\ j * Chunk < i /\ i <= j * Chunk + Chunk
<1> DEFINE j == (i - 1) \div Chunk
           m == NumJobs(n)
<1>1. Chunk \in Nat \ {0} /\ i - 1 \in Nat /\ i <= n
  BY StoreAssumption
<1>2. j \in Nat /\ Chunk * j <= i - 1 /\ i - 1 < Chunk * j + Chunk
  BY <1>1
<1>3. m \in Int /\ n + Chunk - 1 < Chunk * m + Chunk
  <2>1. n + Chunk - 1 \in Nat
    BY <1>1
  <2> QED
    BY <1>1, <2>1 DEF NumJobs
<1> HIDE DEF j, m
<1>4. Chunk * j < n /\ n <= Chunk * m
  <2>1. Chunk * j \in Int /\ Chunk * m \in Int
    BY <1>1, <1>2, <1>3
  <2> QED
    BY <1>1, <1>2, <1>3, <2>1
<1>5. j < m
  BY <1>1, <1>2, <1>3, <1>4
<1>6. j * Chunk < i /\ i <= j * Chunk + Chunk
  BY <1>1, <1>2
<1> QED
  BY <1>2, <1>5, <1>6 DEF m

\* The oldest lookup and its buffer.
LEMMA HeadTypes ==
    ASSUME PoolTypes, stream # <<>>
    PROVE  /\ Head1 \in Inputs /\ Head1 \in Seq(Int) /\ Count \in Nat
           /\ Buffer \in Capacities /\ Buffer \in Nat /\ Count <= Buffer
<1>1. Head1 \in Inputs
  BY DEF PoolTypes, Head1
<1>2. Head1 \in Seq(Int)
  BY <1>1, StoreAssumption
<1>3. Count \in Nat
  BY <1>2 DEF Count
<1>4. Buffer \in Capacities
  BY <1>1 DEF Buffer, Count, Capacities
<1>5. Buffer \in Nat /\ Count <= Buffer
  BY <1>1, BufferAssumption DEF Buffer, Count
<1> QED
  BY <1>1, <1>2, <1>3, <1>4, <1>5

LEMMA FetchType == ASSUME NEW x \in Int PROVE FetchOne(x) \in Int
BY DEF FetchOne, ZeroRow

LEMMA DataInit == Init => DataInv
<1> SUFFICES ASSUME Init PROVE DataInv
  OBVIOUS
<1>1. BufTypes
  <2>1. \A c \in Capacities : [i \in 1..c |-> Junk] \in [1..c -> Int]
    BY DEF Junk
  <2> QED
    BY <2>1 DEF Init, BufTypes
<1>2. StageInv /\ JobInv
  BY DEF Init, StageInv, JobInv, InCall
<1>3. LookupCorrect
  <2>1. out.rows = <<>> /\ out.ids = <<>> /\ 1..Len(<<>>) = {}
    BY DEF Init
  <2> QED
    BY <2>1 DEF LookupCorrect
<1> QED
  BY <1>1, <1>2, <1>3 DEF DataInv

\* A step that leaves the oldest lookup and the buffers alone.
LEMMA DataSame ==
    ASSUME DataInv, UNCHANGED <<ids, rows, out, stage>>,
           stage # "ids" => UNCHANGED Head1 /\ stream' # <<>>,
           JobInv'
    PROVE  DataInv'
<1>1. BufTypes' /\ LookupCorrect'
  BY DEF DataInv, BufTypes, LookupCorrect
<1>2. stage # "ids" => UNCHANGED <<Head1, Count, Buffer>>
  BY DEF Count, Buffer
<1>3. StageInv'
  BY <1>2 DEF DataInv, StageInv, Right
<1> QED
  BY <1>1, <1>3 DEF DataInv

\* The same, if the jobs are left alone too.
LEMMA JobSame ==
    ASSUME PoolInv, DataInv, UNCHANGED <<rows, poolVars>>,
           caller' \in InCall => caller \in InCall /\ UNCHANGED Head1,
           \A j \in Nat : Running(j)' = Running(j)
    PROVE  JobInv'
<1> SUFFICES ASSUME caller' \in InCall PROVE JobInv'
  BY DEF JobInv
<1>1. UNCHANGED <<Head1, Count, Buffer>> /\ caller \in InCall
  BY DEF Count, Buffer
<1>2. \A j \in Nat : JobDone(j) => JobDone(j)'
  BY <1>1 DEF JobDone, Right
<1> QED
  BY <1>1, <1>2 DEF DataInv, JobInv, poolVars

LEMMA DataLookup ==
    ASSUME PoolInv, DataInv, NEW s \in Inputs, Lookup(s) PROVE DataInv'
<1>1. stream # <<>> => UNCHANGED Head1
  BY DEF Lookup, PoolInv, PoolTypes, Head1
<1>2. stage # "ids" => UNCHANGED Head1 /\ stream' # <<>>
  BY <1>1 DEF Lookup, PoolInv, PoolTypes, DataInv, StageInv
<1>3. caller' \in InCall => caller \in InCall /\ stage # "ids"
  BY DEF Lookup, PoolInv, CallInv
<1>4. JobInv'
  BY <1>2, <1>3, JobSame DEF Lookup, bufVars, Running
<1> QED
  BY <1>2, <1>4, DataSame DEF Lookup, bufVars

LEMMA DataCopyIds == ASSUME PoolInv, DataInv, CopyIds PROVE DataInv'
<1>1. /\ UNCHANGED <<stream, rows, out, caller>> /\ stage = "ids" /\ stage' = "call"
      /\ stream # <<>>
  BY DEF CopyIds, hostVars
<1>2. /\ Head1 \in Seq(Int) /\ Count \in Nat /\ Buffer \in Capacities
      /\ Buffer \in Nat /\ Count <= Buffer
  BY <1>1, HeadTypes DEF PoolInv
<1> DEFINE f == [i \in 1..Buffer |-> IF i <= Count THEN Head1[i] ELSE ids[Buffer][i]]
<1>3. f \in [1..Buffer -> Int]
  <2>1. ids[Buffer] \in [1..Buffer -> Int]
    BY <1>2 DEF DataInv, BufTypes
  <2>2. \A i \in 1..Buffer : i <= Count => Head1[i] \in Int
    BY <1>2 DEF Count
  <2> QED
    BY <2>1, <2>2
<1>4. ids' = [ids EXCEPT ![Buffer] = f] /\ \A i \in 1..Count : f[i] = Head1[i]
  BY <1>2 DEF CopyIds
<1> HIDE DEF f
<1>5. UNCHANGED <<Head1, Count, Buffer>>
  BY <1>1 DEF Head1, Count, Buffer
<1>6. /\ \A c \in Capacities : ids'[c] = IF c = Buffer THEN f ELSE ids[c]
      /\ ids' = [c \in Capacities |-> ids'[c]]
  BY <1>2, <1>4 DEF DataInv, BufTypes
<1>7. BufTypes'
  <2>1. \A c \in Capacities : ids'[c] \in [1..c -> Int]
    BY <1>3, <1>6 DEF DataInv, BufTypes
  <2> QED
    BY <1>1, <1>6, <2>1 DEF DataInv, BufTypes
<1>8. StageInv'
  BY <1>1, <1>2, <1>4, <1>5, <1>6 DEF StageInv
<1>9. JobInv' /\ LookupCorrect'
  BY <1>1 DEF PoolInv, CallInv, DataInv, JobInv, LookupCorrect
<1> QED
  BY <1>7, <1>8, <1>9 DEF DataInv

\* Fetching rows lo + 1 to hi makes them right and leaves the right ones right.
LEMMA FetchRows ==
    ASSUME PoolInv, DataInv, stage = "call", NEW lo \in Nat, NEW hi \in Nat,
           rows' = [rows EXCEPT ![Buffer] = Fetched(lo, hi)],
           UNCHANGED <<stream, ids>>
    PROVE  /\ UNCHANGED <<Head1, Count, Buffer>>
           /\ \A i \in 1..Count : Right(i) => Right(i)'
           /\ \A i \in 1..Count : lo < i /\ i <= hi => Right(i)'
           /\ rows' = [c \in Capacities |-> rows'[c]]
           /\ \A c \in Capacities : rows'[c] \in [1..c -> Int]
<1>1. stream # <<>> /\ \A i \in 1..Count : ids[Buffer][i] = Head1[i]
  BY DEF DataInv, StageInv
<1>2. /\ Count \in Nat /\ Buffer \in Capacities /\ Buffer \in Nat /\ Count <= Buffer
  BY <1>1, HeadTypes DEF PoolInv
<1>3. UNCHANGED <<Head1, Count, Buffer>>
  BY DEF Head1, Count, Buffer
<1>4. /\ ids[Buffer] \in [1..Buffer -> Int] /\ rows[Buffer] \in [1..Buffer -> Int]
      /\ rows = [c \in Capacities |-> rows[c]]
      /\ \A c \in Capacities : rows[c] \in [1..c -> Int]
  BY <1>2 DEF DataInv, BufTypes
<1> DEFINE f == Fetched(lo, hi)
<1>5. \A i \in 1..Buffer :
         f[i] = IF lo < i /\ i <= hi THEN FetchOne(ids[Buffer][i]) ELSE rows[Buffer][i]
  BY DEF Fetched
<1>6. f \in [1..Buffer -> Int]
  <2>1. \A i \in 1..Buffer : FetchOne(ids[Buffer][i]) \in Int /\ rows[Buffer][i] \in Int
    BY <1>4, FetchType
  <2> QED
    BY <2>1 DEF Fetched
<1> HIDE DEF f
<1>7. rows' = [rows EXCEPT ![Buffer] = f]
  BY DEF f
<1>8. /\ \A c \in Capacities : rows'[c] = IF c = Buffer THEN f ELSE rows[c]
      /\ rows' = [c \in Capacities |-> rows'[c]]
  BY <1>2, <1>4, <1>7
<1>9. rows'[Buffer] = f
  BY <1>2, <1>8
<1>10. \A i \in 1..Count : i \in 1..Buffer
  BY <1>2
<1>11. \A i \in 1..Count : lo < i /\ i <= hi => Right(i)'
  BY <1>1, <1>3, <1>5, <1>9, <1>10 DEF Right
<1>12. \A i \in 1..Count : Right(i) => Right(i)'
  BY <1>1, <1>3, <1>5, <1>9, <1>10 DEF Right
<1>13. \A c \in Capacities : rows'[c] \in [1..c -> Int]
  BY <1>4, <1>6, <1>8
<1> QED
  BY <1>3, <1>8, <1>11, <1>12, <1>13

LEMMA DataLookupInline == ASSUME PoolInv, DataInv, LookupInline PROVE DataInv'
<1>1. /\ stage = "call" /\ stage' = "rows" /\ stream # <<>> /\ caller' = "idle"
      /\ UNCHANGED <<stream, ids, out>>
      /\ rows' = [rows EXCEPT ![Buffer] = Fetched(0, Count)]
  BY DEF LookupInline, hostVars
<1>2. Count \in Nat
  BY <1>1, HeadTypes DEF PoolInv
<1>3. /\ UNCHANGED <<Head1, Count, Buffer>>
      /\ \A i \in 1..Count : 0 < i /\ i <= Count => Right(i)'
      /\ rows' = [c \in Capacities |-> rows'[c]]
      /\ \A c \in Capacities : rows'[c] \in [1..c -> Int]
  BY <1>1, <1>2, FetchRows
<1>4. BufTypes'
  BY <1>1, <1>3 DEF DataInv, BufTypes
<1>5. StageInv'
  BY <1>1, <1>2, <1>3 DEF StageInv
<1>6. JobInv' /\ LookupCorrect'
  BY <1>1 DEF JobInv, InCall, DataInv, LookupCorrect
<1> QED
  BY <1>4, <1>5, <1>6 DEF DataInv

LEMMA DataCopyRows == ASSUME PoolInv, DataInv, CopyRows PROVE DataInv'
<1>1. /\ stage = "rows" /\ stage' = "ids" /\ stream # <<>>
      /\ UNCHANGED <<ids, rows, caller>>
      /\ out' = [ids |-> Head1, rows |-> SubSeq(rows[Buffer], 1, Count)]
  BY DEF CopyRows
<1>2. /\ Count \in Nat /\ Buffer \in Capacities /\ Buffer \in Nat /\ Count <= Buffer
      /\ Count = Len(Head1)
  BY <1>1, HeadTypes DEF PoolInv, Count
<1>3. BufTypes' /\ StageInv'
  BY <1>1 DEF DataInv, BufTypes, StageInv
<1>4. JobInv'
  BY <1>1 DEF PoolInv, CallInv, JobInv
<1>5. LookupCorrect'
  <2> DEFINE b == rows[Buffer]
             h == Head1
             n == Count
  <2>1. b \in Seq(Int) /\ Len(b) = Buffer
    BY <1>2 DEF DataInv, BufTypes
  <2>2. \A i \in 1..n : b[i] = FetchOne(h[i])
    BY <1>1 DEF DataInv, StageInv, Right
  <2>3. out'.rows = SubSeq(b, 1, n) /\ out'.ids = h /\ Len(h) = n
    BY <1>1, <1>2
  <2>4. n \in Nat /\ n <= Len(b)
    BY <1>2, <2>1
  <2> HIDE DEF b, h, n
  <2>5. SubSeq(b, 1, n) = [i \in 1..n |-> b[i]]
    BY <2>1, <2>4
  <2> QED
    BY <2>2, <2>3, <2>5 DEF LookupCorrect
<1> QED
  BY <1>3, <1>4, <1>5 DEF DataInv

LEMMA DataPublish == ASSUME PoolInv, DataInv, Publish PROVE DataInv'
<1>1. /\ UNCHANGED <<stream, ids, rows, out, stage>> /\ next' = 0
      /\ njobs' = NumJobs(Count) /\ stream # <<>>
  BY DEF Publish, hostVars, bufVars
<1>2. UNCHANGED <<Head1, Count>>
  BY <1>1 DEF Head1, Count
<1>3. JobInv'
  BY <1>1, <1>2 DEF JobInv
<1> QED
  BY <1>1, <1>2, <1>3, DataSame

\* Pool::run returns: all jobs are done, so all rows are there.
LEMMA DataReturn == ASSUME PoolInv, DataInv, Return PROVE DataInv'
<1>1. UNCHANGED <<stream, ids, rows, out, njobs, next, worker, idx>> /\ caller \in InCall
  BY DEF Return, hostVars, poolVars, InCall
<1>2. stage = "call" /\ stream # <<>>
  BY <1>1 DEF PoolInv, CallInv, DataInv, StageInv
<1>3. UNCHANGED <<Head1, Count, Buffer>>
  BY <1>1 DEF Head1, Count, Buffer
<1>4. CASE AllFinished
  <2>1. caller' = "idle" /\ stage' = "rows"
    BY <1>4 DEF Return
  <2>2. /\ finished = njobs /\ next <= njobs /\ finished + Cardinality(Busy) = next
        /\ next \in Nat /\ njobs \in Nat /\ Cardinality(Busy) \in Nat
    BY <1>4, BusyFinite DEF AllFinished, PoolInv, PoolAccounts, PoolTypes
  <2>3. next = njobs /\ Busy = {}
    <3>1. Cardinality(Busy) = 0 /\ next = njobs
      BY <2>2
    <3> QED
      BY <3>1, BusyFinite, FS_EmptySet
  <2>4. \A j \in Nat : j < NumJobs(Count) => JobDone(j)
    <3>1. \A j \in Nat : ~Running(j)
      BY <2>3 DEF Busy, Running
    <3> QED
      BY <1>1, <2>3, <3>1 DEF DataInv, JobInv
  <2>5. \A i \in 1..Count : Right(i)
    <3>1. Count \in Nat
      BY <1>2, HeadTypes DEF PoolInv
    <3> SUFFICES ASSUME NEW i \in 1..Count PROVE Right(i)
      OBVIOUS
    <3>2. PICK j \in Nat : /\ j < NumJobs(Count)
                           /\ j * Chunk < i /\ i <= j * Chunk + Chunk
      BY <3>1, JobsCover
    <3> QED
      BY <2>4, <3>2 DEF JobDone
  <2>6. StageInv'
    BY <1>1, <1>2, <1>3, <2>1, <2>5 DEF StageInv, Right
  <2>7. BufTypes' /\ JobInv' /\ LookupCorrect'
    BY <1>1, <2>1 DEF DataInv, BufTypes, JobInv, InCall, LookupCorrect
  <2> QED
    BY <2>6, <2>7 DEF DataInv
<1>5. CASE ~AllFinished
  <2>1. stage' = stage
    BY <1>5 DEF Return
  <2>2. JobInv'
    BY <1>1, <1>3, JobSame DEF Return, Running
  <2> QED
    BY <1>1, <1>2, <1>3, <2>1, <2>2, DataSame
<1> QED
  BY <1>4, <1>5

\* A taken job is being run until it is done.
LEMMA DataTake ==
    ASSUME PoolInv, DataInv, NEW w \in Worker, Take(w) PROVE DataInv'
<1>1. UNCHANGED <<stream, ids, rows, out, stage, caller, njobs>> /\ worker[w] = "check"
  BY DEF Take, hostVars, bufVars
<1>2. UNCHANGED <<Head1, Count, Buffer>>
  BY <1>1 DEF Head1, Count, Buffer
<1>3. next \in Nat /\ worker \in [Worker -> {"check", "asleep", "job", "finish", "exited"}]
      /\ idx \in [Worker -> Nat]
  BY DEF PoolInv, PoolTypes
<1>4. \A j \in Nat : Running(j) => Running(j)'
  <2>1. \A v \in Worker : worker[v] = "job" => worker'[v] = "job" /\ idx'[v] = idx[v]
    BY <1>1, <1>3 DEF Take
  <2> QED
    BY <2>1 DEF Running
<1>5. \A j \in Nat : j < next' /\ ~Running(j)' => j < next
  <2>1. CASE ~stop /\ JobLeft
    <3>1. next' = next + 1 /\ worker'[w] = "job" /\ idx'[w] = next
      BY <1>3, <2>1 DEF Take
    <3> SUFFICES ASSUME NEW j \in Nat, j < next', ~Running(j)' PROVE j < next
      OBVIOUS
    <3>2. j # next
      BY <3>1 DEF Running
    <3> QED
      BY <1>3, <3>1, <3>2
  <2>2. CASE ~(~stop /\ JobLeft)
    BY <2>2 DEF Take
  <2> QED
    BY <2>1, <2>2
<1>6. \A j \in Nat : JobDone(j) => JobDone(j)'
  BY <1>1, <1>2 DEF JobDone, Right
<1>7. JobInv'
  BY <1>1, <1>2, <1>4, <1>5, <1>6 DEF DataInv, JobInv
<1>8. stage # "ids" => UNCHANGED Head1 /\ stream' # <<>>
  BY <1>1, <1>2 DEF DataInv, StageInv
<1> QED
  BY <1>1, <1>7, <1>8, DataSame

\* A job fetches its chunk of rows and touches no row that is right already.
LEMMA DataRunJob ==
    ASSUME PoolInv, DataInv, NEW w \in Worker, RunJob(w) PROVE DataInv'
<1> DEFINE lo == idx[w] * Chunk
           hi == IF Count < lo + Chunk THEN Count ELSE lo + Chunk
<1>1. /\ UNCHANGED <<stream, ids, out, stage, caller, njobs, next, idx>>
      /\ worker[w] = "job" /\ worker' = [worker EXCEPT ![w] = "finish"]
      /\ rows' = [rows EXCEPT ![Buffer] = Fetched(lo, hi)]
  BY DEF RunJob, hostVars, poolVars
<1>2. caller \in InCall /\ stage = "call" /\ stream # <<>>
  <2>1. w \in Busy
    BY <1>1 DEF Busy
  <2>2. caller \in InCall
    BY <2>1, Quiet
  <2> QED
    BY <2>2 DEF PoolInv, CallInv, DataInv, StageInv
<1>3. Count \in Nat /\ Chunk \in Nat /\ idx[w] \in Nat
  BY <1>2, HeadTypes, StoreAssumption DEF PoolInv, PoolTypes
<1>4. lo \in Nat /\ hi \in Nat
  BY <1>3
<1>5. \A i \in 1..Count : i <= lo + Chunk => i <= hi
  BY <1>3, <1>4
<1> HIDE DEF lo, hi
<1>6. /\ UNCHANGED <<Head1, Count, Buffer>>
      /\ \A i \in 1..Count : Right(i) => Right(i)'
      /\ \A i \in 1..Count : lo < i /\ i <= hi => Right(i)'
      /\ rows' = [c \in Capacities |-> rows'[c]]
      /\ \A c \in Capacities : rows'[c] \in [1..c -> Int]
  BY <1>1, <1>2, <1>4, FetchRows
<1>7. BufTypes' /\ LookupCorrect'
  BY <1>1, <1>6 DEF DataInv, BufTypes, LookupCorrect
<1>8. StageInv'
  BY <1>1, <1>2, <1>6 DEF DataInv, StageInv
<1>9. JobInv'
  <2>1. JobDone(idx[w])'
    BY <1>1, <1>5, <1>6 DEF JobDone, lo
  <2>2. \A j \in Nat : JobDone(j) => JobDone(j)'
    BY <1>6 DEF JobDone
  <2>3. \A j \in Nat : Running(j) => Running(j)' \/ j = idx[w]
    <3>1. \A v \in Worker \ {w} : worker'[v] = worker[v]
      BY <1>1 DEF PoolInv, PoolTypes
    <3> QED
      BY <1>1, <3>1 DEF Running
  <2>4. \A j \in Nat : j = idx[w] => JobDone(j)'
    BY <1>1, <2>1 DEF JobDone
  <2>5. \A j \in Nat : j < next /\ ~Running(j)' => JobDone(j)'
    BY <1>2, <2>2, <2>3, <2>4 DEF DataInv, JobInv
  <2> QED
    BY <1>1, <1>2, <1>6, <2>5 DEF DataInv, JobInv
<1> QED
  BY <1>7, <1>8, <1>9 DEF DataInv

\* A step that changes only who waits or counts.
LEMMA DataWait ==
    ASSUME PoolInv, DataInv, UNCHANGED <<stream, ids, rows, out, stage, njobs, next, idx>>,
           caller' \in InCall => caller \in InCall,
           \A w \in Worker : (worker'[w] = "job") = (worker[w] = "job")
    PROVE  DataInv'
<1>1. UNCHANGED <<Head1, Count, Buffer>>
  BY DEF Head1, Count, Buffer
<1>2. \A j \in Nat : Running(j)' = Running(j)
  BY DEF Running
<1>3. \A j \in Nat : JobDone(j) => JobDone(j)'
  BY <1>1 DEF JobDone, Right
<1>4. JobInv'
  BY <1>1, <1>2, <1>3 DEF DataInv, JobInv
<1>5. stage # "ids" => UNCHANGED Head1 /\ stream' # <<>>
  BY <1>1 DEF DataInv, StageInv
<1> QED
  BY <1>4, <1>5, DataSame

LEMMA DataNext == PoolInv /\ DataInv /\ [Next]_vars => DataInv'
<1> SUFFICES ASSUME PoolInv, DataInv, [Next]_vars PROVE DataInv'
  OBVIOUS
<1>0. worker \in [Worker -> {"check", "asleep", "job", "finish", "exited"}]
  BY DEF PoolInv, PoolTypes
<1>1. CASE NotifyAll \/ NotifyStop
  <2>1. /\ UNCHANGED <<stream, ids, rows, out, stage, njobs, next, idx>>
        /\ caller' \in InCall => caller \in InCall
    BY <1>1 DEF NotifyAll, NotifyStop, hostVars, bufVars, poolVars, InCall
  <2>2. worker' = [w \in Worker |-> IF worker[w] = "asleep" THEN "check" ELSE worker[w]]
    BY <1>1 DEF NotifyAll, NotifyStop, Woken
  <2>3. \A w \in Worker : (worker'[w] = "job") = (worker[w] = "job")
    BY <2>2
  <2> QED
    BY <2>1, <2>3, DataWait
<1>2. CASE Join \/ SpuriousCaller \/ Close \/ Closed \/ UNCHANGED vars
  <2>1. /\ UNCHANGED <<stream, ids, rows, out, stage, njobs, next, idx, worker>>
        /\ caller' \in InCall => caller \in InCall
    BY <1>2 DEF Join, SpuriousCaller, Close, Closed, vars, hostVars, bufVars, poolVars, InCall
  <2> QED
    BY <2>1, DataWait
<1>3. CASE \E w \in Worker : FinishJob(w) \/ SpuriousWorker(w)
  <2>1. PICK w \in Worker : FinishJob(w) \/ SpuriousWorker(w)
    BY <1>3
  <2>2. /\ UNCHANGED <<stream, ids, rows, out, stage, njobs, next, idx>>
        /\ caller' \in InCall => caller \in InCall
    BY <2>1 DEF FinishJob, SpuriousWorker, hostVars, bufVars, poolVars, InCall
  <2>3. worker' = [worker EXCEPT ![w] = "check"] /\ worker[w] # "job"
    BY <2>1 DEF FinishJob, SpuriousWorker
  <2>4. \A v \in Worker : (worker'[v] = "job") = (worker[v] = "job")
    BY <1>0, <2>3
  <2> QED
    BY <2>2, <2>4, DataWait
<1>4. CASE \E w \in Worker : Take(w) \/ RunJob(w)
  BY <1>4, DataTake, DataRunJob
<1>5. CASE (\E s \in Inputs : Lookup(s)) \/ StreamStep
  BY <1>5, DataLookup, DataCopyIds, DataLookupInline, DataCopyRows DEF StreamStep
<1>6. CASE Publish \/ Return
  BY <1>6, DataPublish, DataReturn
<1> QED
  BY <1>1, <1>2, <1>3, <1>4, <1>5, <1>6 DEF Next, CallerStep, WorkerStep

\* row_store_lookup delivers the row of every id, for every number of threads,
\* every chunk size and any lookups that share the buffers.
THEOREM LookupsAreExact == Spec => []LookupCorrect
<1>1. DataInv => LookupCorrect
  BY DEF DataInv
<1> QED
  BY <1>1, PoolInit, PoolNext, DataInit, DataNext, PTL DEF Spec
=============================================================================
