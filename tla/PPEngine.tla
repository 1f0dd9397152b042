------------------------------ MODULE PPEngine ------------------------------
(***************************************************************************)
(* Serving with speculative decoding over a pipeline of GPUs: the engine   *)
(* core's batch queue (v1/engine/core.py, step_with_batch_queue), the      *)
(* scheduler (v1/core/sched/scheduler.py) and the token bookkeeping of the *)
(* pipeline ranks (v1/worker/gpu_model_runner.py), in the configuration    *)
(* the launchers serve: pipeline parallel, synchronous scheduling, FCFS,   *)
(* deferred draft fetch, no prefix caching, no KV connector.               *)
(*                                                                         *)
(* The engine schedules ahead: up to PP batches are in flight, each a      *)
(* message in every rank's RPC queue.  Only the last rank samples.  The    *)
(* other ranks learn the sampled tokens from the scheduler, in the         *)
(* new_token_ids of later batches; the last rank keeps its own copy.       *)
(*                                                                         *)
(* schedule() is split at its loop iterations: pc says where the engine    *)
(* thread is and cur holds the locals of the call.  A token is an opaque   *)
(* member of Token, chosen freely by the sampler; a draft is only counted, *)
(* because how many drafts a step accepts is the sampler's free choice.    *)
(***************************************************************************)
EXTENDS Integers, Sequences, FiniteSets
FSE == INSTANCE FiniteSetsExt

CONSTANTS
    Req,             \* request ids
    Token,           \* sampled token values
    StopTokens,      \* the tokens that end a request (EOS and stop ids)
    Garbage,         \* content of a token slot nobody wrote
    PP,              \* pipeline_parallel_size, also the batch queue's size
    NumSpec,         \* num_speculative_tokens
    Prompt,          \* [Req -> prompt length]
    MaxTokens,       \* [Req -> sampling_params.max_tokens]
    MaxModelLen,     \* max_model_len
    MaxBatched,      \* max_num_scheduled_tokens of one step
    MaxRunning,      \* max_num_seqs
    BlockSize,       \* tokens per KV block
    NumBlocks,       \* KV blocks of the pool
    Lookahead,       \* num_lookahead_tokens
    MaxResets,       \* bound: calls of reset_prefix_cache in a behaviour
    Cancellable      \* the requests whose clients may disconnect

ASSUME ConstantsAssumption ==
    /\ IsFiniteSet(Req)
    /\ StopTokens \subseteq Token
    /\ Cancellable \subseteq Req
    /\ Garbage \notin Token
    /\ PP \in Nat /\ PP > 1
    /\ {NumSpec, Lookahead, MaxResets} \subseteq Nat
    /\ {MaxModelLen, MaxBatched, MaxRunning, BlockSize, NumBlocks}
            \subseteq Nat \ {0}
    /\ Prompt \in [Req -> Nat \ {0}]
    /\ MaxTokens \in [Req -> Nat \ {0}]

\* What the configuration validates before it serves: a prompt leaves room for
\* one output token, and a request of the maximal length fits the KV pool.
ASSUME CapacityAssumption ==
    /\ \A r \in Req : Prompt[r] < MaxModelLen
    /\ NumBlocks * BlockSize >= MaxModelLen

Rank == 1..PP
Min(a, b) == IF a < b THEN a ELSE b
Max(a, b) == IF a < b THEN b ELSE a

VARIABLES
    \* the Request objects
    status,      \* "unknown", "waiting", "running", "preempted" or "finished"
    out,         \* _output_token_ids
    computed,    \* num_computed_tokens
    inFlight,    \* num_in_flight_tokens
    stale,       \* num_stale_output_tokens
    dropStale,   \* drop_stale_output
    spec,        \* len(spec_token_ids)
    chunk,       \* is_prefill_chunk
    sent,        \* _dsv41_pp_sent: tokens the non-last ranks have been sent
    blocks,      \* number of KV blocks allocated to the request
    \* the scheduler's queues
    waiting, skipped, running,
    free,        \* free blocks of the KV pool
    finishedIds, \* finished_req_ids: to be announced with the next batch
    \* the engine thread
    pc,          \* "top", "running", "waiting", "issue", "pop", "update", "draft"
    cur,         \* locals of the schedule() call under way
    queue,       \* batch_queue, oldest first
    results,     \* futures of the model outputs, oldest first
    draftFuts,   \* _dsv41_draft_futs that have resolved, oldest first
    resets,      \* number of reset_prefix_cache calls so far
    \* the ranks
    rpc,         \* per rank: RPC messages not yet handled
    acts,        \* per rank: activations sent to the next rank, not received
    known,       \* per rank: requests with a cached state (self.requests)
    hist,        \* per rank: output_token_ids of the cached state
    inBatch,     \* per rank: rows of the persistent batch (input_batch)
    row,         \* per rank: the output part of token_ids_cpu, up to
                 \* num_tokens_no_spec
    inputs,      \* per rank: what the last executed batch read from its rows
    proposed     \* last rank: _draft_token_ids of the last sampled batch

reqVars   == <<status, out, computed, inFlight, stale, dropStale, spec, chunk,
               sent, blocks>>
queueVars == <<waiting, skipped, running, free, finishedIds>>
engVars   == <<pc, cur, queue, draftFuts, resets>>
rankVars  == <<acts, known, hist, inBatch, row, inputs, proposed>>
vars      == <<reqVars, queueVars, engVars, results, rpc, rankVars>>

-----------------------------------------------------------------------------
(***************************************************************************)
(* Data                                                                    *)
(***************************************************************************)
\* Requests with an entry in the scheduler's dictionary.
Live(r) == status[r] \notin {"unknown", "finished"}

NumTokens(r) == Prompt[r] + Len(out[r])

BlocksFor(n) == (Min(n, MaxModelLen) + BlockSize - 1) \div BlockSize

\* What the scheduler output says about one request of a batch: how it enters
\* the batch, num_computed_tokens, num_scheduled_tokens, the drafts among them,
\* new_token_ids and num_output_tokens.  (from, where new_token_ids begins, is
\* a local of the scheduler: no rank reads it, only the invariants do.)
Entry == [kind : {"new", "resumed", "cached", "none"}, start : Int, n : Int,
          k : Nat, ids : Seq(Token), nout : Nat, from : Nat]

\* An entry while schedule() runs: the token ids are filled in at its end.
Planned(kind, start, n, k) ==
    [kind |-> kind, start |-> start, n |-> n, k |-> k,
     ids |-> <<>>, nout |-> 0, from |-> 0]

NoEntry == Planned("none", 0, 0, 0)

\* A batch: an entry per request (NoEntry if it is not scheduled), the requests
\* that finished since the last batch, and whether its drafts are fetched.
Sched      == [Req -> Entry]
EmptySched == [r \in Req |-> NoEntry]
Batch      == [sched : Sched, fin : SUBSET Req, fetch : BOOLEAN]
NoBatch    == [sched |-> EmptySched, fin |-> {}, fetch |-> FALSE]

\* The requests scheduled in a batch.
Scheduled(s) == {r \in Req : s[r].kind # "none"}

\* Draft token ids of a batch: how many, and the number of output tokens they
\* continue.
IsDrafts(d) == /\ DOMAIN d \subseteq Req
               /\ d \in [DOMAIN d -> [n : 0..NumSpec, base : Nat]]

Messages == [op : {"exec", "draft"}, batch : Batch]

\* Position after the last non-draft token of an entry.
End(e) == e.start + e.n - e.k

\* A queue without the members of a set (remove_all, remove_requests).
Without(s, S) ==
    LET kept[i \in 0..Len(s)] ==
            IF i = 0 THEN <<>>
            ELSE IF s[i] \in S THEN kept[i-1]
            ELSE Append(kept[i-1], s[i])
    IN kept[Len(s)]

SeqSet(s) == {s[i] : i \in DOMAIN s}

\* KV blocks held by a set of requests.
BlocksOf(S) == LET Held(r) == blocks[r] IN FSE!MapThenSumSet(Held, S)

\* The locals of schedule(): the position in the running queue, token_budget,
\* the share of decodes and how many were scheduled, the requests scheduled so
\* far, whether one of them is in its prefill or one was preempted, and the
\* requests skipped by the waiting loop.
Call   == [idx : Nat \ {0}, budget : Int, cap : Nat, decodes : Nat,
           batch : Sched, prefill : BOOLEAN, preempted : BOOLEAN, skip : Seq(Req)]
NoCall == [idx |-> 1, budget |-> 0, cap |-> 0, decodes |-> 0,
           batch |-> EmptySched, prefill |-> FALSE, preempted |-> FALSE,
           skip |-> <<>>]

Init ==
    /\ status    = [r \in Req |-> "unknown"]
    /\ out       = [r \in Req |-> <<>>]
    /\ computed  = [r \in Req |-> 0]
    /\ inFlight  = [r \in Req |-> 0]
    /\ stale     = [r \in Req |-> 0]
    /\ dropStale = [r \in Req |-> FALSE]
    /\ spec      = [r \in Req |-> 0]
    /\ chunk     = [r \in Req |-> FALSE]
    /\ sent      = [r \in Req |-> 0]
    /\ blocks    = [r \in Req |-> 0]
    /\ waiting = <<>> /\ skipped = <<>> /\ running = <<>>
    /\ free = NumBlocks
    /\ finishedIds = {}
    /\ pc = "top"
    /\ cur = NoCall
    /\ queue = <<>> /\ results = <<>> /\ draftFuts = <<>>
    /\ resets = 0
    /\ rpc     = [k \in Rank |-> <<>>]
    /\ acts    = [k \in Rank |-> 0]
    /\ known   = [k \in Rank |-> {}]
    /\ hist    = [k \in Rank |-> [r \in Req |-> <<>>]]
    /\ inBatch = [k \in Rank |-> {}]
    /\ row     = [k \in Rank |-> [r \in Req |-> <<>>]]
    /\ inputs  = [k \in Rank |-> [r \in {} |-> {}]]
    /\ proposed = [r \in {} |-> {}]
-----------------------------------------------------------------------------
(***************************************************************************)
(* Client requests, handled by the busy loop between two engine steps      *)
(***************************************************************************)
AddRequest(r) ==
    /\ pc = "top"
    /\ status[r] = "unknown"
    /\ status' = [status EXCEPT ![r] = "waiting"]
    /\ waiting' = Append(waiting, r)
    /\ UNCHANGED <<out, computed, inFlight, stale, dropStale, spec, chunk, sent,
                   blocks, skipped, running, free, finishedIds, engVars,
                   results, rpc, rankVars>>

\* A field of the requests after those in F were deleted.
Forget(F, f, v) == [r \in Req |-> IF r \in F THEN v ELSE f[r]]

\* _free_request and the removal from the queues: forget what was sent, announce
\* the ids, free the blocks.  The Request object is gone; only what was
\* delivered to the client, out, is kept.
FreeRequests(F) ==
    /\ status' = Forget(F, status, "finished")
    /\ sent'   = Forget(F, sent, 0)
    /\ blocks' = Forget(F, blocks, 0)
    /\ free'   = free + BlocksOf(F)
    /\ dropStale' = Forget(F, dropStale, FALSE)
    /\ spec'   = Forget(F, spec, 0)
    /\ chunk'  = Forget(F, chunk, FALSE)
    /\ finishedIds' = finishedIds \cup F
    /\ running' = Without(running, F)
    /\ waiting' = Without(waiting, F)
    /\ skipped' = Without(skipped, F)

\* finish_requests: the client disconnects.  Aborts are also drained between
\* the arrival of a model output and its processing (_process_aborts_queue).
Abort(r) ==
    /\ pc \in {"top", "update"}
    /\ Live(r) /\ r \in Cancellable
    /\ FreeRequests({r})
    /\ computed' = Forget({r}, computed, 0)
    /\ inFlight' = Forget({r}, inFlight, 0)
    /\ stale'    = Forget({r}, stale, 0)
    /\ UNCHANGED <<out, engVars, results, rpc, rankVars>>

\* Fault: the preempted request keeps its list of freed blocks.
PreemptKeepsBlocks(s, drop) ==
    LET S == SeqSet(s) IN
    /\ status'    = [r \in Req |-> IF r \in S THEN "preempted" ELSE status[r]]
    /\ computed'  = [r \in Req |-> IF r \in S THEN 0 ELSE computed[r]]
    /\ spec'      = [r \in Req |-> IF r \in S THEN 0 ELSE spec[r]]
    /\ dropStale' = [r \in Req |-> IF r \in S THEN drop ELSE dropStale[r]]
    /\ stale'     = [r \in Req |-> IF r \in S THEN inFlight[r] ELSE stale[r]]
    /\ waiting'   = s \o waiting
    /\ UNCHANGED blocks

\* Fault: the output in flight is counted as stale on top of what already was.
PreemptAddsStale(s, drop) ==
    LET S == SeqSet(s) IN
    /\ status'    = [r \in Req |-> IF r \in S THEN "preempted" ELSE status[r]]
    /\ computed'  = [r \in Req |-> IF r \in S THEN 0 ELSE computed[r]]
    /\ spec'      = [r \in Req |-> IF r \in S THEN 0 ELSE spec[r]]
    /\ dropStale' = [r \in Req |-> IF r \in S THEN drop ELSE dropStale[r]]
    /\ stale'     = [r \in Req |-> IF r \in S THEN stale[r] + inFlight[r]
                                   ELSE stale[r]]
    /\ blocks'    = [r \in Req |-> IF r \in S THEN 0 ELSE blocks[r]]
    /\ waiting'   = s \o waiting

\* _preempt_request for every request of the sequence s, last one first.
Preempt(s, drop) ==
    LET S == SeqSet(s) IN
    /\ status'    = [r \in Req |-> IF r \in S THEN "preempted" ELSE status[r]]
    /\ computed'  = [r \in Req |-> IF r \in S THEN 0 ELSE computed[r]]
    /\ spec'      = [r \in Req |-> IF r \in S THEN 0 ELSE spec[r]]
    /\ dropStale' = [r \in Req |-> IF r \in S
                                   THEN drop \/ (dropStale[r] /\ stale[r] > 0)
                                   ELSE dropStale[r]]
    /\ stale'     = [r \in Req |-> IF r \in S THEN inFlight[r] ELSE stale[r]]
    /\ blocks'    = [r \in Req |-> IF r \in S THEN 0 ELSE blocks[r]]
    /\ waiting'   = s \o waiting

\* reset_prefix_cache(reset_running_requests=True): every running request is
\* preempted and its output in flight is to be dropped.
ResetPrefixCache ==
    /\ pc = "top"
    /\ resets < MaxResets
    /\ running # <<>>
    /\ resets' = resets + 1
    /\ Preempt(running, TRUE)
    /\ free' = free + BlocksOf(SeqSet(running))
    /\ running' = <<>>
    /\ UNCHANGED <<out, inFlight, chunk, sent, skipped, finishedIds, pc, cur,
                   queue, draftFuts, results, rpc, rankVars>>
-----------------------------------------------------------------------------
(***************************************************************************)
(* schedule()                                                              *)
(***************************************************************************)
Unfinished  == waiting # <<>> \/ skipped # <<>> \/ running # <<>>
\* Fault: requests that only have to be announced as finished are no work.
HasRequestsToRun == Unfinished

HasRequests == Unfinished \/ finishedIds # {}

\* Fault: the share is rounded down, to nothing for fewer requests than ranks.
SpreadCapFloor == Len(running) \div PP

\* The decodes one micro-batch may take: an even share of the running requests.
SpreadCap == Max(1, (Len(running) + PP - 1) \div PP)

\* step_with_batch_queue starts: schedule if there is anything to schedule or
\* to announce, otherwise wait for the oldest batch in flight.
StartStep ==
    /\ pc = "top"
    /\ HasRequests \/ queue # <<>>
    /\ IF HasRequests
       THEN /\ pc' = "running"
            /\ cur' = [NoCall EXCEPT
                          !.budget = MaxBatched,
                          !.cap = SpreadCap]
       ELSE /\ pc' = "pop"
            /\ UNCHANGED cur
    /\ UNCHANGED <<reqVars, queueVars, queue, draftFuts, resets, results, rpc,
                   rankVars>>

\* The request the loop over the running queue is at.
AtRunning(r) ==
    /\ pc = "running"
    /\ cur.budget > 0
    /\ cur.idx <= Len(running)
    /\ running[cur.idx] = r

\* Fault: the guard of the in-flight output is missing.
NeverInFlight(r) == FALSE

\* All real tokens of the request are computed or in flight: only its drafts
\* could be scheduled, so it waits for its output.
OutputInFlight(r) == NumTokens(r) <= computed[r]

\* Decodes are spread over the micro-batches: this one has its share.
OverShare(r) == ~chunk[r] /\ cur.decodes >= cur.cap

NumNew(r) == Min(Min(NumTokens(r) + spec[r] - computed[r], cur.budget),
                 MaxModelLen - computed[r] - 1)

\* Blocks allocate_slots has to take from the pool for n more tokens.
NewBlocks(r, n) == Max(0, BlocksFor(computed[r] + n + Lookahead) - blocks[r])

SkipRunning(r) ==
    /\ AtRunning(r)
    /\ \/ OutputInFlight(r)
       \/ OverShare(r)
       \/ NumNew(r) = 0
    /\ cur' = [cur EXCEPT
                  !.idx = @ + 1,
                  !.decodes = IF OutputInFlight(r) \/ OverShare(r) \/ chunk[r]
                              THEN @ ELSE @ + 1]
    /\ UNCHANGED <<reqVars, queueVars, pc, queue, draftFuts, resets, results,
                   rpc, rankVars>>

Schedulable(r) ==
    AtRunning(r) /\ ~OutputInFlight(r) /\ ~OverShare(r) /\ NumNew(r) # 0

\* Fault: a step that ends before the drafts counts them negatively.
SpecScheduledSigned(r, n) == Min(spec[r], computed[r] + n - NumTokens(r))

\* Number of drafts among the n tokens scheduled for a running request.
SpecScheduled(r, n) == Min(spec[r], Max(0, computed[r] + n - NumTokens(r)))

ScheduleRunning(r) ==
    LET n == NumNew(r)
        k == SpecScheduled(r, n)
        b == NewBlocks(r, n)
    IN
    /\ Schedulable(r)
    /\ b <= free
    /\ free' = free - b
    /\ blocks' = [blocks EXCEPT ![r] = @ + b]
    /\ spec' = [spec EXCEPT ![r] = 0]
    /\ cur' = [cur EXCEPT
                  !.idx = @ + 1,
                  !.budget = @ - n,
                  !.decodes = IF chunk[r] THEN @ ELSE @ + 1,
                  !.prefill = @ \/ chunk[r],
                  !.batch[r] = Planned("cached", computed[r], n, k)]
    /\ UNCHANGED <<status, out, computed, inFlight, stale, dropStale, chunk, sent,
                   waiting, skipped, running, finishedIds, pc, queue, draftFuts,
                   resets, results, rpc, rankVars>>

\* allocate_slots failed: the last running request is preempted, and
\* allocation is tried again unless it was this one.
PreemptLast(r, victim) ==
    /\ Schedulable(r)
    /\ victim = running[Len(running)]
    /\ NewBlocks(r, NumNew(r)) > free
    /\ Preempt(<<victim>>, FALSE)
    /\ free' = free + blocks[victim]
    /\ running' = SubSeq(running, 1, Len(running) - 1)
    /\ cur' = [cur EXCEPT !.preempted = TRUE]
    /\ pc' = IF victim = r THEN "issue" ELSE "running"
    /\ UNCHANGED <<out, inFlight, chunk, sent, skipped, finishedIds, queue,
                   draftFuts, resets, results, rpc, rankVars>>

\* The running loop is over; waiting requests are considered only if nothing
\* was preempted.
EndRunning ==
    /\ pc = "running"
    /\ cur.budget = 0 \/ cur.idx > Len(running)
    /\ pc' = IF cur.preempted THEN "issue" ELSE "waiting"
    /\ UNCHANGED <<reqVars, queueVars, cur, queue, draftFuts, resets, results,
                   rpc, rankVars>>

\* The request the loop over the waiting queues is at: skipped ones first.
AtWaiting(r) ==
    /\ pc = "waiting"
    /\ waiting # <<>> \/ skipped # <<>>
    /\ cur.budget > 0
    /\ Len(running) < MaxRunning
    /\ r = IF skipped # <<>> THEN Head(skipped) ELSE Head(waiting)

PopWaiting ==
    IF skipped # <<>>
    THEN skipped' = Tail(skipped) /\ UNCHANGED waiting
    ELSE waiting' = Tail(waiting) /\ UNCHANGED skipped

\* Output of the request that will still be delivered is in flight.
AwaitsStale(r) == stale[r] > 0 /\ ~dropStale[r]

SkipWaiting(r) ==
    /\ AtWaiting(r)
    /\ AwaitsStale(r)
    /\ PopWaiting
    /\ cur' = [cur EXCEPT !.skip = Append(@, r)]
    /\ UNCHANGED <<reqVars, running, free, finishedIds, pc, queue, draftFuts,
                   resets, results, rpc, rankVars>>

\* A one-token prompt is padded to a uniform decode when decodes are scheduled.
Padded(r) == /\ NumSpec > 0
             /\ NumTokens(r) = 1
             /\ ~cur.prefill
             /\ \E q \in Req : cur.batch[q].kind = "cached"
             /\ NumSpec + 2 <= MaxModelLen

AdmitTokens(r) == IF Padded(r) THEN 1 + NumSpec
                  ELSE Min(NumTokens(r), cur.budget)

\* allocate_slots with full_sequence_must_fit: the whole sequence has to fit
\* the pool now, even if only a chunk of it is scheduled.
Fits(r, n) ==
    free >= Max(BlocksFor(n + Lookahead), BlocksFor(NumTokens(r)))

CanAdmit(r) ==
    /\ AtWaiting(r)
    /\ ~AwaitsStale(r)
    /\ AdmitTokens(r) <= cur.budget
    /\ Fits(r, AdmitTokens(r))

Admit(r) ==
    LET n == AdmitTokens(r)
        k == IF Padded(r) THEN NumSpec ELSE 0
        b == BlocksFor(n + Lookahead)
    IN
    /\ CanAdmit(r)
    /\ PopWaiting
    /\ running' = Append(running, r)
    /\ status' = [status EXCEPT ![r] = "running"]
    /\ computed' = [computed EXCEPT ![r] = 0]
    /\ free' = free - b
    /\ blocks' = [blocks EXCEPT ![r] = b]
    /\ \/ /\ status[r] = "waiting"
          /\ cur' = [cur EXCEPT !.budget = @ - n,
                                !.batch[r] = Planned("new", 0, n, k)]
       \/ /\ status[r] = "preempted"
          /\ cur' = [cur EXCEPT !.budget = @ - n,
                                !.batch[r] = Planned("resumed", 0, n, k)]
    /\ UNCHANGED <<out, inFlight, stale, dropStale, spec, chunk, sent, finishedIds, pc,
                   queue, draftFuts, resets, results, rpc, rankVars>>

\* Fault: the skipped requests replace the queue instead of joining it.
RequeuedOnly == cur.skip

\* What the loop skipped goes back to the front of the skipped queue.
Requeued == cur.skip \o skipped

\* The waiting loop is over: nothing left, or the next one cannot be admitted.
EndWaiting ==
    /\ pc = "waiting"
    /\ \A r \in Req : ~(AtWaiting(r) /\ AwaitsStale(r)) /\ ~CanAdmit(r)
    /\ skipped' = Requeued
    /\ cur' = [cur EXCEPT !.skip = <<>>]
    /\ pc' = "issue"
    /\ UNCHANGED <<reqVars, waiting, running, free, finishedIds, queue,
                   draftFuts, resets, results, rpc, rankVars>>

\* NewRequestData carries the prompt, so there is nothing to send behind it.
NewEntry(r, e) == [e EXCEPT !.from = Prompt[r]]

\* Fault: the tokens of this step are sent, as without speculative decoding.
CachedEntryOfStep(r, e) ==
    LET from == Max(e.start, Prompt[r]) IN
    [e EXCEPT !.ids  = SubSeq(out[r], from - Prompt[r] + 1, End(e) - Prompt[r]),
              !.nout = Len(out[r]), !.from = from]

\* _make_cached_request_data: the tokens the non-last ranks have not seen, up
\* to the last non-draft token of this step.
CachedEntry(r, e) ==
    LET from == Max(sent[r], Prompt[r]) IN
    [e EXCEPT !.ids  = SubSeq(out[r], from - Prompt[r] + 1, End(e) - Prompt[r]),
              !.nout = Len(out[r]), !.from = from]

\* The scheduler output made of the batch under construction.
Output == [r \in Req |->
             LET e == cur.batch[r] IN
             CASE e.kind = "none" -> NoEntry
               [] e.kind = "new"  -> NewEntry(r, e)
               [] OTHER           -> CachedEntry(r, e)]

\* Fault: the drafts are asked for before the batch that proposes them.
CallsDraftFirst(j, b) ==
    (IF j = PP /\ b.fetch THEN <<[op |-> "draft", batch |-> NoBatch]>> ELSE <<>>)
    \o <<[op |-> "exec", batch |-> b]>>

\* The RPCs of a batch b to rank j: execute_model with sample_tokens and, if its
\* drafts are to be fetched, take_draft_token_ids, answered by the last rank.
Calls(j, b) ==
    <<[op |-> "exec", batch |-> b]>>
    \o IF j = PP /\ b.fetch THEN <<[op |-> "draft", batch |-> NoBatch]>> ELSE <<>>

\* With n batches in flight after a batch of the requests S was issued: there is
\* room for another, so step_with_batch_queue returns without waiting.
RunsAhead(n, S) == n < PP /\ (S # {} \/ Unfinished)

\* The end of schedule(), _update_after_schedule, and the RPCs step_with_batch_queue issues.  Drafts
\* are fetched if some request of the batch has its whole prompt computed.  An
\* empty batch is issued too: it tells the ranks which requests finished.
Issue ==
    LET S     == Scheduled(cur.batch)
        done  == [r \in Req |-> IF r \in S THEN computed[r] + cur.batch[r].n
                                ELSE computed[r]]
        fetch == NumSpec > 0 /\ \E r \in S : done[r] >= Prompt[r]
        b     == [sched |-> Output, fin |-> finishedIds, fetch |-> fetch]
    IN
    /\ pc = "issue"
    /\ computed' = done
    /\ inFlight' = [r \in Req |-> IF r \in S THEN inFlight[r] + cur.batch[r].n
                                  ELSE inFlight[r]]
    /\ chunk' = [r \in Req |-> IF r \in S THEN done[r] < NumTokens(r)
                               ELSE chunk[r]]
    /\ sent' = [r \in Req |-> IF r \in S /\ cur.batch[r].kind # "new"
                              THEN Max(Max(sent[r], Prompt[r]), End(cur.batch[r]))
                              ELSE sent[r]]
    /\ finishedIds' = {}
    /\ queue' = Append(queue, b)
    /\ rpc' = [j \in Rank |-> rpc[j] \o Calls(j, b)]
    /\ cur' = NoCall
    /\ pc' = IF RunsAhead(Len(queue) + 1, S) THEN "top" ELSE "pop"
    /\ UNCHANGED <<status, out, stale, dropStale, spec, blocks, waiting,
                   skipped, running, free, draftFuts, resets, results, rankVars>>
-----------------------------------------------------------------------------
(***************************************************************************)
(* The oldest batch returns                                                *)
(***************************************************************************)
\* future.result(): from here to the processing, aborts are drained.
AwaitResult ==
    /\ pc = "pop"
    /\ results # <<>>
    /\ pc' = "update"
    /\ UNCHANGED <<reqVars, queueVars, cur, queue, draftFuts, resets, results,
                   rpc, rankVars>>

\* check_stop after the i-th of the tokens g is appended.
StopsAt(r, g, i) ==
    \/ g[i] \in StopTokens
    \/ Len(out[r]) + i >= MaxTokens[r]
    \/ NumTokens(r) + i >= MaxModelLen

Stops(r, g) == \E i \in DOMAIN g : StopsAt(r, g, i)

\* Fault: the tokens after the stop are delivered too.
Untrimmed(r, g) == g

\* _update_request_with_output: what follows the first stop is trimmed.
Trimmed(r, g) ==
    IF Stops(r, g)
    THEN SubSeq(g, 1, CHOOSE i \in DOMAIN g :
                        StopsAt(r, g, i) /\ \A j \in 1..(i-1) : ~StopsAt(r, g, j))
    ELSE g

\* Fault: output that was to be dropped is delivered.
DeliversAll(r) == r \in Scheduled(Head(queue).sched) /\ Live(r)

\* The batch being processed returns output for r that counts: the request is
\* still there, and its output was not marked to be dropped.
Delivers(r) == /\ r \in Scheduled(Head(queue).sched)
               /\ Live(r)
               /\ ~(stale[r] > 0 /\ dropStale[r])

\* Drafts of the batch being processed that the sampler rejected.
Rejected(r) == LET e == Head(queue).sched[r]
                   g == Head(results)[r]
               IN IF e.k > 0 /\ g # <<>> THEN e.k - (Len(g) - 1) ELSE 0

Stopped(r) == Delivers(r) /\ Stops(r, Head(results)[r])

UpdateFromOutput ==
    LET b == Head(queue)
        S == {r \in Scheduled(b.sched) : Live(r)}
        F == {r \in S : Stopped(r)}
    IN
    /\ pc = "update"
    /\ FreeRequests(F)
    /\ inFlight' = Forget(F, [r \in Req |-> IF r \in S
                                            THEN inFlight[r] - b.sched[r].n
                                            ELSE inFlight[r]], 0)
    /\ stale' = Forget(F, [r \in Req |-> IF r \in S /\ stale[r] > 0
                                         THEN stale[r] - b.sched[r].n
                                         ELSE stale[r]], 0)
    /\ computed' = Forget(F, [r \in Req |->
                      IF r \in S /\ Delivers(r) /\ stale[r] = 0 /\ computed[r] > 0
                      THEN computed[r] - Rejected(r) ELSE computed[r]], 0)
    /\ out' = [r \in Req |-> IF r \in S /\ Delivers(r)
                             THEN out[r] \o Trimmed(r, Head(results)[r])
                             ELSE out[r]]
    /\ queue' = Tail(queue)
    /\ results' = Tail(results)
    /\ pc' = IF b.fetch THEN "draft" ELSE "top"
    /\ UNCHANGED <<cur, draftFuts, resets, rpc, rankVars>>

\* update_draft_token_ids with the drafts fetched for the batch just processed.
UpdateDrafts ==
    /\ pc = "draft"
    /\ draftFuts # <<>>
    /\ LET d == Head(draftFuts) IN
       spec' = [r \in Req |-> IF r \in DOMAIN d /\ Live(r)
                              THEN IF chunk[r] THEN 0 ELSE d[r].n
                              ELSE spec[r]]
    /\ draftFuts' = Tail(draftFuts)
    /\ pc' = "top"
    /\ UNCHANGED <<status, out, computed, inFlight, stale, dropStale, chunk,
                   sent, blocks, queueVars, cur, queue, resets, results, rpc,
                   rankVars>>
-----------------------------------------------------------------------------
(***************************************************************************)
(* The ranks                                                               *)
(***************************************************************************)
\* Of the token ids the scheduler sent to rank k, those it does not have.
Unseen(k, r, e) ==
    LET dup == Max(0, Prompt[r] + Len(hist[k][r]) - (End(e) - Len(e.ids)))
    IN SubSeq(e.ids, dup + 1, Len(e.ids))

\* _update_states, the cached state: a non-last rank appends what it was sent,
\* the last rank cuts off the tokens the scheduler discarded.
NextHist(k, r, e) ==
    IF e.kind = "new" THEN <<>>
    ELSE IF k < PP THEN hist[k][r] \o Unseen(k, r, e)
    ELSE SubSeq(hist[k][r], 1, Min(e.nout, Len(hist[k][r])))

\* Rows that stay in the persistent batch.
Kept(k, b) == {r \in inBatch[k] \ b.fin :
                  b.sched[r].kind = "cached"}

\* _update_states, the row: rebuilt from the cached state when the request was
\* not in the batch; otherwise the new tokens go to its end, and without new
\* tokens the row is declared valid up to num_computed_tokens.
NextRow(k, r, e, kept) ==
    IF r \notin kept THEN NextHist(k, r, e)
    ELSE IF k = PP
    THEN IF e.nout < Len(hist[k][r]) THEN SubSeq(row[k][r], 1, e.nout)
         ELSE row[k][r]
    ELSE IF Unseen(k, r, e) # <<>> THEN row[k][r] \o Unseen(k, r, e)
    ELSE row[k][r] \o [i \in 1..Max(0, e.start - Prompt[r] - Len(row[k][r]))
                         |-> Garbage]

\* _prepare_inputs: the output tokens the step reads from the row, from
\* position lo on, and the position its drafts were written to.
Read(r, e, w) ==
    LET lo == Max(e.start, Prompt[r]) IN
    [lo    |-> lo,
     toks  |-> [i \in 1..Max(0, End(e) - lo) |->
                  LET j == lo - Prompt[r] + i
                  IN IF j <= Len(w) THEN w[j] ELSE Garbage],
     drafts |-> IF e.k = 0 THEN {} ELSE {Prompt[r] + Len(w)},
     end   |-> End(e)]

AtExec(k) == /\ rpc[k] # <<>>
             /\ Head(rpc[k]).op = "exec"
             /\ k > 1 /\ Scheduled(Head(rpc[k]).batch.sched) # {} => acts[k-1] > 0

\* Consume one RPC, receive the activations and send them on.
PassOn(k, S) ==
    /\ rpc' = [rpc EXCEPT ![k] = Tail(@)]
    /\ acts' = [j \in Rank |-> IF S = {} THEN acts[j]
                               ELSE IF j = k /\ k < PP THEN acts[j] + 1
                               ELSE IF j = k - 1 THEN acts[j] - 1
                               ELSE acts[j]]

\* Fault: a request that is not scheduled loses its cached state.
UpdateStatesForgetful(k, b, gen) ==
    LET S == Scheduled(b.sched) IN
    /\ known' = [known EXCEPT ![k] = S]
    /\ inBatch' = [inBatch EXCEPT ![k] = S]
    /\ hist' = [hist EXCEPT ![k] = [r \in Req |->
                   IF r \in S THEN NextHist(k, r, b.sched[r]) \o gen[r] ELSE <<>>]]
    /\ row' = [row EXCEPT ![k] = [r \in Req |->
                   IF r \in S THEN NextRow(k, r, b.sched[r], Kept(k, b)) \o gen[r]
                   ELSE <<>>]]
    /\ inputs' = [inputs EXCEPT ![k] = [r \in S |->
                   Read(r, b.sched[r], NextRow(k, r, b.sched[r], Kept(k, b)))]]

UpdateStates(k, b, gen) ==
    LET S == Scheduled(b.sched) IN
    /\ known' = [known EXCEPT ![k] = (@ \ b.fin) \cup S]
    /\ inBatch' = [inBatch EXCEPT ![k] = S]
    /\ hist' = [hist EXCEPT ![k] = [r \in Req |->
                   IF r \in S THEN NextHist(k, r, b.sched[r]) \o gen[r]
                   ELSE IF r \in b.fin THEN <<>> ELSE hist[k][r]]]
    /\ row' = [row EXCEPT ![k] = [r \in Req |->
                   IF r \in S THEN NextRow(k, r, b.sched[r], Kept(k, b)) \o gen[r]
                   ELSE <<>>]]
    /\ inputs' = [inputs EXCEPT ![k] = [r \in S |->
                   Read(r, b.sched[r], NextRow(k, r, b.sched[r], Kept(k, b)))]]

\* execute_model on a rank that is not the last.
RankExecute(k) ==
    LET b == Head(rpc[k]).batch IN
    /\ k < PP
    /\ AtExec(k)
    /\ PassOn(k, Scheduled(b.sched))
    /\ UpdateStates(k, b, [r \in Req |-> <<>>])
    /\ UNCHANGED <<reqVars, queueVars, engVars, results, proposed>>

\* What the sampler may return for an entry: nothing for a partial prefill,
\* otherwise a token after each accepted draft, and no draft of a padded
\* admission is ever accepted.
Samples(r, e) ==
    IF e.start + e.n < Prompt[r] + Len(NextHist(PP, r, e)) THEN {<<>>}
    ELSE UNION {[1..m -> Token] :
                  m \in 1..(IF e.kind = "cached" THEN e.k + 1 ELSE 1)}

MaySample(gen) ==
    LET b == Head(rpc[PP]).batch IN
    \A r \in Req : gen[r] \in IF r \in Scheduled(b.sched)
                             THEN Samples(r, b.sched[r]) ELSE {<<>>}

\* execute_model and sample_tokens on the last rank, which then proposes d[r]
\* drafts for each request of the batch.
RankSample(gen, d) ==
    LET b == Head(rpc[PP]).batch
        S == Scheduled(b.sched)
    IN
    /\ \A r \in Req \ S : d[r] = 0
    /\ PassOn(PP, S)
    /\ UpdateStates(PP, b, gen)
    /\ results' = Append(results, gen)
    /\ proposed' = IF S = {} THEN proposed
                   ELSE [r \in S |-> [n |-> d[r], base |-> Len(hist'[PP][r])]]
    /\ UNCHANGED <<reqVars, queueVars, engVars>>

\* take_draft_token_ids: the drafts of the last sampled batch, paired with the
\* rows now in the persistent batch.
RankTakeDrafts ==
    /\ rpc[PP] # <<>>
    /\ Head(rpc[PP]).op = "draft"
    /\ draftFuts' = Append(draftFuts,
                      [r \in DOMAIN proposed \cap inBatch[PP] |-> proposed[r]])
    /\ rpc' = [rpc EXCEPT ![PP] = Tail(@)]
    /\ UNCHANGED <<reqVars, queueVars, pc, cur, queue, resets, results, rankVars>>
-----------------------------------------------------------------------------
Generated == UNION {[1..m -> Token] : m \in 0..(NumSpec + 1)}

Schedule ==
    \/ StartStep \/ EndRunning \/ EndWaiting \/ Issue
    \/ \E r \in Req : \/ SkipRunning(r) \/ ScheduleRunning(r)
                      \/ SkipWaiting(r) \/ Admit(r)
                      \/ \E victim \in Req : PreemptLast(r, victim)

Process == AwaitResult \/ UpdateFromOutput \/ UpdateDrafts

LastRank ==
    \/ /\ AtExec(PP)
       /\ \E gen \in [Req -> Generated] :
             /\ MaySample(gen)
             /\ \E d \in [Req -> 0..NumSpec] : RankSample(gen, d)
    \/ RankTakeDrafts

Ranks ==
    \/ \E k \in Rank : RankExecute(k)
    \/ LastRank

Clients == ResetPrefixCache \/ \E r \in Req : AddRequest(r) \/ Abort(r)

Next == Schedule \/ Process \/ Ranks \/ Clients

Spec == Init /\ [][Next]_vars

\* The engine's busy loop and every rank's RPC loop keep running.  Clients
\* promise nothing: requests need not come, and need not be aborted.
Fairness ==
    /\ WF_vars(Schedule \/ Process)
    /\ \A k \in Rank : WF_vars(RankExecute(k))
    /\ WF_vars(LastRank)

FairSpec == Spec /\ Fairness
-----------------------------------------------------------------------------
(***************************************************************************)
(* Properties                                                              *)
(***************************************************************************)
\* Types of the request fields, the queues, the engine thread and the ranks.
TypeOK ==
    /\ status \in [Req -> {"unknown", "waiting", "running", "preempted",
                           "finished"}]
    /\ out \in [Req -> Seq(Token)]
    /\ computed \in [Req -> Int]
    /\ inFlight \in [Req -> Int]
    /\ stale \in [Req -> Int]
    /\ dropStale \in [Req -> BOOLEAN]
    /\ spec \in [Req -> 0..NumSpec]
    /\ chunk \in [Req -> BOOLEAN]
    /\ sent \in [Req -> Nat]
    /\ finishedIds \subseteq Req
    /\ pc \in {"top", "running", "waiting", "issue", "pop", "update", "draft"}
    /\ {waiting, skipped, running} \subseteq Seq(Req)
    /\ cur \in Call
    /\ queue \in Seq(Batch)
    /\ results \in Seq([Req -> Seq(Token)])
    /\ \A i \in DOMAIN draftFuts : IsDrafts(draftFuts[i])
    /\ IsDrafts(proposed)
    /\ rpc \in [Rank -> Seq(Messages)]
    /\ known \in [Rank -> SUBSET Req]
    /\ inBatch \in [Rank -> SUBSET Req]
    /\ hist \in [Rank -> [Req -> Seq(Token)]]
    /\ row \in [Rank -> [Req -> Seq(Token \cup {Garbage})]]

\* What rank k read for its last step is what the scheduler has: the output
\* tokens are the request's delivered tokens at those positions, and the drafts
\* sit right behind them.
InputAgrees(k, r) ==
    LET x == inputs[k][r] IN
    /\ x.toks = SubSeq(out[r], x.lo - Prompt[r] + 1, x.end - Prompt[r])
    /\ x.drafts \subseteq {x.end}

\* The ranks before the last compute on the delivered tokens, although they only
\* know what new_token_ids told them, across rejected drafts, preemptions,
\* resumptions and removals from the persistent batch.
ReceiversAgree ==
    \A k \in Rank \ {PP} : \A r \in DOMAIN inputs[k] : InputAgrees(k, r)

\* So does the last rank, although it also keeps sampled tokens that the
\* scheduler dropped after a reset.
SamplerAgrees == \A r \in DOMAIN inputs[PP] : InputAgrees(PP, r)

\* A rank that is told to continue a request has its cached state, and one that
\* is told of a new request has none.
RanksKnow ==
    \A k \in Rank : rpc[k] # <<>> =>
        \A r \in Scheduled(Head(rpc[k]).batch.sched) :
            Head(rpc[k]).batch.sched[r].kind = "new" <=> r \notin known[k]

\* Every step scheduled for a request computes at least one real token, and not
\* only drafts, although the engine schedules while the output that decides
\* what the real tokens are is still in flight.
NoDraftOnlyStep ==
    \A i \in DOMAIN queue : \A r \in Scheduled(queue[i].sched) :
        queue[i].sched[r].k < queue[i].sched[r].n

\* Output that is delivered was sampled right after the request's last
\* delivered token: no position is delivered twice or skipped, however the
\* request was preempted, reset and resumed while steps were in flight.
DeliveredContinues ==
    pc = "update" =>
        \A r \in Req : Delivers(r) /\ Head(results)[r] # <<>> =>
            End(Head(queue).sched[r]) = NumTokens(r)

\* Tokens of the first j batches in flight that belong to r.
InFirst(r, j) ==
    LET Part(i) == queue[i].sched[r].n
    IN FSE!MapThenSumSet(Part, 1..j)

\* num_in_flight_tokens counts the batch queue, and the stale share of it is
\* that of the oldest batches, so that draining it batch by batch ends at 0
\* (the assertion in update_from_output) and never takes a fresh output.
StaleIsOldest ==
    \A r \in Req : Live(r) =>
        /\ inFlight[r] = InFirst(r, Len(queue))
        /\ \E j \in 0..Len(queue) : stale[r] = InFirst(r, j)

\* The drafts handed to a request continue its delivered output: the deferred
\* fetch returns those of the batch just processed, not of a later one.
DraftsContinueOutput ==
    pc = "draft" /\ draftFuts # <<>> =>
        LET d == Head(draftFuts) IN
        \A r \in DOMAIN d : Live(r) /\ ~dropStale[r] => d[r].base = Len(out[r])

\* Blocks are neither lost nor handed out twice, only running requests hold
\* any, and they cover every position computed or in flight.
BlocksReserved ==
    /\ free + BlocksOf(Req) = NumBlocks
    /\ \A r \in Req : /\ status[r] # "running" => blocks[r] = 0
                      /\ computed[r] <= blocks[r] * BlockSize

\* Every live request is in exactly one queue, the one its status names.
QueuedOnce ==
    LET all == running \o waiting \o skipped \o cur.skip IN
    /\ Len(all) = Cardinality(SeqSet(all))
    /\ SeqSet(all) = {r \in Req : Live(r)}
    /\ SeqSet(running) = {r \in Req : status[r] = "running"}

\* Every rank forgets a finished request in the end, even if nothing else is
\* ever scheduled.
RanksForget ==
    \A r \in Req, k \in Rank : status[r] = "finished" ~> r \notin known[k]

\* The engine implements what its clients are promised.
Promise == INSTANCE Generation WITH
    Limit <- [r \in Req |-> Min(MaxTokens[r], MaxModelLen - Prompt[r])],
    state <- [r \in Req |-> CASE status[r] = "unknown"  -> "new"
                              [] status[r] = "finished" -> "closed"
                              [] OTHER                  -> "open"],
    text  <- out

KeepsPromise == Promise!Spec

\* Every request that was added is finished in the end, by its own stop
\* condition or by an abort, however often it was skipped or preempted.
Completes == Promise!Finishes
=============================================================================
