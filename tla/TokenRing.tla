------------------------------ MODULE TokenRing ------------------------------
(***************************************************************************)
(* Sampled tokens over a pipeline with asynchronous scheduling: the second *)
(* model runner (v1/worker/gpu/model_runner.py), its ring of pending       *)
(* receptions (v1/worker/gpu/pp_utils.py) and the scheduler's side of it   *)
(* (v1/core/sched/scheduler.py).                                           *)
(*                                                                         *)
(* The scheduler does not wait for a step's tokens before it schedules the *)
(* next one, so its messages name no tokens.  The last rank broadcasts     *)
(* them on a side stream; every other rank posts the reception of step T   *)
(* in a FIFO and takes it out at step T + pp_size, the first step in which *)
(* the scheduler lets the request decode again.  Between the two a request *)
(* may have left its slot of the rank's tables and another taken it.       *)
(*                                                                         *)
(* A rank's host and its main stream are one process: the host computes    *)
(* nothing from the results of the device.  A token is named by its        *)
(* request, its position and the admission it was sampled in.              *)
(***************************************************************************)
EXTENDS Integers, Sequences, FiniteSets

CONSTANTS
    Stages,       \* pipeline_parallel_size
    NumClients,   \* requests 1, 2, ..., in the order of their arrival
    PromptLen,    \* [1..NumClients -> prompt length]
    MaxOut,       \* sampling_params.max_tokens
    Slots,        \* max_num_seqs: rows of a rank's tables
    Budget,       \* max_num_scheduled_tokens of one step
    MaxDrops      \* bound: preemptions and calls of reset_prefix_cache

ASSUME RingAssumption ==
    /\ {Stages, NumClients, MaxOut, Slots, Budget} \subseteq Nat \ {0}
    /\ Stages > 1 /\ MaxDrops \in Nat
    /\ PromptLen \in [1 .. NumClients -> Nat \ {0}]

Client == 1 .. NumClients
Stage == 1 .. Stages
Absent == <<>>
Tok(r, k, p) == <<r, k, p>>
Greater(a, b) == IF a > b THEN a ELSE b
Smaller(a, b) == IF a < b THEN a ELSE b

VARIABLES
    req,         \* the scheduler's requests
    waitingQ,    \* scheduler.waiting
    runningQ,    \* scheduler.running
    finishedIds, \* finished since the last step
    preemptedIds,\* reset_preempted_req_ids
    batchQ,      \* the engine's batch queue, oldest first
    drops,       \* preemptions and resets so far
    inbox,       \* messages a rank has not executed yet
    hidden,      \* hidden states sent to the next rank and not yet received
    reqStates,   \* a rank's tables of requests
    pending,     \* pp_handler.queue of the ranks before the last
    received,    \* broadcasts a rank has posted so far
    sent,        \* payloads the last rank has broadcast
    current,     \* execute_model_state: the batch between the two calls
    issued,      \* history: all messages, in the order of their issue
    results      \* outputs of the last rank on their way to the engine

schedVars == <<req, waitingQ, runningQ, finishedIds, preemptedIds, batchQ, drops>>
rankVars == <<issued, inbox, hidden, reqStates, pending, received, sent, current, results>>
ringVars == <<schedVars, rankVars>>
-----------------------------------------------------------------------------
Elems(s) == {s[i] : i \in DOMAIN s}

\* A sequence without the members of a set.
Without(s, S) ==
    LET kept[i \in 0 .. Len(s)] ==
            IF i = 0 THEN <<>>
            ELSE IF s[i] \in S THEN kept[i - 1] ELSE Append(kept[i - 1], s[i])
    IN  kept[Len(s)]

(* The scheduler. *)

Prompt(r) == [p \in 1 .. PromptLen[r] |-> Tok(r, 0, p - 1)]
AllTokenIds(r) == Prompt(r) \o req[r].out
Unfinished == {r \in Client : ~req[r].done}
HasRequests == Unfinished # {} \/ finishedIds # {}

\* The wait counts down to next_decode_eligible_step as current_step advances.
Eligible(r) == req[r].wait <= 1

\* The previous step has surely reached max_tokens.
AtMaxTokens(r) ==
    /\ req[r].ph > 0
    /\ req[r].nc + 2 - req[r].ph >= PromptLen[r] + MaxOut

NumNew(r) == Len(AllTokenIds(r)) + req[r].ph - req[r].nc

\* The loop over the running requests; rows are the requests scheduled so far.
VisitRunning(acc, r) ==
    LET n == Smaller(NumNew(r), acc.budget)
    IN  IF AtMaxTokens(r) \/ ~Eligible(r) \/ n <= 0 THEN acc
        ELSE [rows |-> Append(acc.rows, <<r, n>>), budget |-> acc.budget - n]

ScheduleRunning(queue) ==
    LET visited[k \in 0 .. Len(queue)] ==
            IF k = 0 THEN [rows |-> <<>>, budget |-> Budget]
            ELSE VisitRunning(visited[k - 1], queue[k])
    IN  visited[Len(queue)]

\* Fault: a preempted request is resumed at once.
MayResumeAtOnce(r) == TRUE

\* Stale output still to be delivered keeps a preempted request waiting.
MayResume(r) == req[r].stale = 0 \/ req[r].drop

\* The loop over the waiting requests, none of them skipped if it may resume.
VisitWaiting(acc, r) ==
    LET n == Smaller(Len(AllTokenIds(r)), acc.budget)
    IN  IF acc.budget = 0 \/ acc.room = 0 \/ ~MayResume(r) THEN acc
        ELSE [rows |-> Append(acc.rows, <<r, n>>), budget |-> acc.budget - n, room |-> acc.room - 1]

ScheduleWaiting(budget) ==
    LET visited[k \in 0 .. Len(waitingQ)] ==
            IF k = 0 THEN [rows |-> <<>>, budget |-> budget, room |-> Slots - Len(runningQ)]
            ELSE VisitWaiting(visited[k - 1], waitingQ[k])
    IN  visited[Len(waitingQ)]

\* _preempt_request; all output in flight becomes stale.
Preempted(q, drop) ==
    [q EXCEPT !.nc = 0, !.ph = 0, !.drop = drop \/ (q.drop /\ q.stale > 0), !.stale = q.flight]

\* Fault: the next one may be scheduled one step before the ring yields it.
AfterScheduleEarly(q, r, n) ==
    LET nc == q.nc + n
        chunk == nc < PromptLen[r] + Len(q.out) + q.ph
    IN  [q EXCEPT !.nc = nc, !.flight = @ + n,
                  !.ph = IF chunk THEN @ ELSE @ + 1,
                  !.wait = IF chunk THEN @ ELSE Stages - 1]

\* _update_after_schedule, and AsyncScheduler's: a step that is no prefill chunk
\* yields a token, and the next one waits for the ring.
AfterSchedule(q, r, n) ==
    LET nc == q.nc + n
        chunk == nc < PromptLen[r] + Len(q.out) + q.ph
    IN  [q EXCEPT !.nc = nc, !.flight = @ + n,
                  !.ph = IF chunk THEN @ ELSE @ + 1,
                  !.wait = IF chunk THEN @ ELSE Stages]

\* Requests lose their blocks from the end of the running queue when another, or
\* they themselves, cannot be given any.
Kept(m) == SubSeq(runningQ, 1, Len(runningQ) - m)
Lost(m) == SubSeq(runningQ, Len(runningQ) - m + 1, Len(runningQ))

Preemptible(m) ==
    m > 0 => drops < MaxDrops /\ ScheduleRunning(Kept(m - 1)).rows # <<>>

\* What the step schedules: requests of the running queue and, unless it preempts, of
\* the waiting queue.
OldRows(m) == ScheduleRunning(Kept(m)).rows
NewRows(m) == IF m = 0 THEN ScheduleWaiting(ScheduleRunning(Kept(m)).budget).rows ELSE <<>>
StepRows(m) == OldRows(m) \o NewRows(m)
Admitted(m) == {NewRows(m)[i][1] : i \in DOMAIN NewRows(m)}

\* A request's entry in the message: only a new one brings its tokens.
Row(r, n, admitted) ==
    [r |-> r, q |-> n, nc |-> req[r].nc,
     base |-> IF admitted THEN AllTokenIds(r) ELSE req[r].base,
     inc |-> IF admitted THEN req[r].inc + 1 ELSE req[r].inc]

Message(m) ==
    [rows |-> [i \in DOMAIN StepRows(m) |->
                  Row(StepRows(m)[i][1], StepRows(m)[i][2], StepRows(m)[i][1] \in Admitted(m))],
     new |-> Len(NewRows(m)),
     fin |-> finishedIds, pre |-> preemptedIds \cup Elems(Lost(m))]

Tick(q) == [q EXCEPT !.wait = Greater(0, @ - 1)]
Resume(q, r) == [q EXCEPT !.base = AllTokenIds(r), !.inc = @ + 1]

AfterStep(m, r) ==
    LET q == IF r \in Admitted(m) THEN Resume(Tick(req[r]), r) ELSE Tick(req[r])
    IN  IF \E i \in DOMAIN StepRows(m) : StepRows(m)[i][1] = r
        THEN AfterSchedule(q, r, StepRows(m)[CHOOSE i \in DOMAIN StepRows(m) : StepRows(m)[i][1] = r][2])
        ELSE IF r \in Elems(Lost(m)) THEN Preempted(q, FALSE) ELSE q

\* schedule(), and the call of execute_model that puts its message in the inboxes.
Schedule ==
    /\ Len(batchQ) < Stages + 1 /\ HasRequests
    /\ \E m \in 0 .. Len(runningQ) :
         /\ Preemptible(m)
         /\ req' = [r \in Client |-> AfterStep(m, r)]
         /\ runningQ' = Kept(m) \o [i \in DOMAIN NewRows(m) |-> NewRows(m)[i][1]]
         /\ waitingQ' = Lost(m) \o Without(waitingQ, Admitted(m))
         /\ batchQ' = Append(batchQ, Message(m))
         /\ issued' = Append(issued, Message(m))
         /\ inbox' = [i \in Stage |-> Append(inbox[i], Message(m))]
         /\ drops' = drops + (IF m > 0 THEN 1 ELSE 0)
    /\ finishedIds' = {} /\ preemptedIds' = {}
    /\ UNCHANGED <<hidden, reqStates, pending, received, sent, current, results>>

\* One request of update_from_output.
Delivered(q, n, toks, stops) ==
    LET drained == [q EXCEPT !.flight = @ - n, !.stale = Greater(0, @ - n)]
    IN  IF q.done \/ (q.stale > 0 /\ q.drop) \/ toks = <<>> THEN drained
        ELSE [drained EXCEPT !.out = @ \o toks,
                             !.ph = IF q.stale > 0 THEN @ ELSE @ - 1,
                             !.done = Len(q.out) + 1 >= MaxOut \/ stops]

\* The engine pops the oldest batch when it cannot schedule another.
AfterOutput(r, stops) ==
    LET rows == Head(batchQ).rows
    IN  IF \E i \in DOMAIN rows : rows[i].r = r
        THEN Delivered(req[r], rows[CHOOSE i \in DOMAIN rows : rows[i].r = r].q,
                       Head(results)[r], r \in stops)
        ELSE req[r]

UpdateFromOutput ==
    /\ batchQ # <<>> /\ results # <<>>
    /\ Len(batchQ) = Stages + 1 \/ ~HasRequests
    /\ \E stops \in SUBSET {Head(batchQ).rows[i].r : i \in DOMAIN Head(batchQ).rows} :
         LET ended == {r \in Unfinished : AfterOutput(r, stops).done}
         IN  /\ req' = [r \in Client |-> AfterOutput(r, stops)]
             /\ stops \subseteq ended
             /\ runningQ' = Without(runningQ, ended)
             /\ waitingQ' = Without(waitingQ, ended)
             /\ finishedIds' = finishedIds \cup ended
    /\ batchQ' = Tail(batchQ) /\ results' = Tail(results)
    /\ UNCHANGED <<preemptedIds, drops, issued, inbox, hidden, reqStates, pending, received, sent, current>>

\* The client disconnects.
AbortRequest(r) ==
    /\ ~req[r].done
    /\ req' = [req EXCEPT ![r].done = TRUE]
    /\ runningQ' = Without(runningQ, {r})
    /\ waitingQ' = Without(waitingQ, {r})
    /\ finishedIds' = finishedIds \cup {r}
    /\ UNCHANGED <<preemptedIds, batchQ, drops, rankVars>>

\* reset_prefix_cache(reset_running_requests = True).
ResetRunning ==
    /\ drops < MaxDrops /\ runningQ # <<>>
    /\ drops' = drops + 1
    /\ req' = [r \in Client |-> IF r \in Elems(runningQ) THEN Preempted(req[r], TRUE) ELSE req[r]]
    /\ waitingQ' = runningQ \o waitingQ /\ runningQ' = <<>>
    /\ preemptedIds' = preemptedIds \cup Elems(runningQ)
    /\ UNCHANGED <<finishedIds, batchQ, rankVars>>
-----------------------------------------------------------------------------
(* A rank's tables. *)

\* all_token_ids (as long as total_len), prefill_len, num_computed_tokens on the
\* device and on the host, last_sampled_tokens; and whose row it is.
EmptyRow == [ids |-> <<>>, plen |-> 0, nc |-> 0, ncpu |-> 0, last |-> Absent, who |-> Absent]

\* RequestState: slots are taken from and put back to the end of a free list.
NewReqStates ==
    [index |-> [r \in Client |-> 0], spare |-> [i \in 1 .. Slots |-> i],
     gen |-> [s \in 1 .. Slots |-> 0], tab |-> [s \in 1 .. Slots |-> EmptyRow]]

\* _remove_request; on_req_idx_freed counts the slot's generation.
RemoveRequest(s, r) ==
    IF s.index[r] = 0 THEN s
    ELSE [s EXCEPT !.index[r] = 0, !.spare = Append(@, s.index[r]), !.gen[s.index[r]] = @ + 1]

\* finish_requests, in sorted order: finished and preempted requests leave.
FinishRequests(s, msg) ==
    LET left[k \in 0 .. NumClients] ==
            IF k = 0 THEN s
            ELSE IF k \in msg.fin \cup msg.pre THEN RemoveRequest(left[k - 1], k) ELSE left[k - 1]
    IN  left[NumClients]

\* add_requests: resumed requests come as new ones, with all their tokens.
AddRequest(s, row) ==
    LET t == RemoveRequest(s, row.r)
        i == t.spare[Len(t.spare)]
    IN  [t EXCEPT !.index[row.r] = i, !.spare = SubSeq(@, 1, Len(@) - 1),
                  !.tab[i] = [EmptyRow EXCEPT !.ids = row.base, !.plen = Len(row.base),
                                         !.who = <<row.r, row.inc>>]]

AddRequests(s, msg) ==
    LET added[k \in 0 .. msg.new] ==
            IF k = 0 THEN s
            ELSE AddRequest(added[k - 1], msg.rows[Len(msg.rows) - msg.new + k])
    IN  added[msg.new]

\* update_requests: the scheduler's count of computed tokens, for the host.
UpdateRequests(s, msg) ==
    LET old == 1 .. Len(msg.rows) - msg.new
    IN  [s EXCEPT !.tab = [x \in DOMAIN @ |->
            IF \E j \in old : s.index[msg.rows[j].r] = x
            THEN [@[x] EXCEPT !.ncpu = msg.rows[CHOOSE j \in old : s.index[msg.rows[j].r] = x].nc]
            ELSE @[x]]]

\* sort_batch_req_ids: decodes first, then by the number of tokens.
OfSize(rows, n) == Without(rows, {row \in Elems(rows) : row.q # n})

SortBatch(rows) ==
    LET sorted[n \in 0 .. Budget] == IF n = 0 THEN <<>> ELSE sorted[n - 1] \o OfSize(rows, n)
    IN  sorted[Budget]

\* combine_sampled_and_draft_tokens: the last row of a request past its prefill
\* is the token sampled last; prepare_prefill_inputs reads the others.
InputAt(t, q, p) ==
    IF p + 1 = t.nc + q /\ t.nc + q > t.plen THEN t.last
    ELSE IF p < t.plen THEN t.ids[p + 1] ELSE Absent

\* gather_batch_req_state and prepare_inputs, of a batch in its order.
PrepareInputs(s, msg) ==
    LET rows == SortBatch(msg.rows)
        Prepare(row) ==
            LET t == s.tab[s.index[row.r]]
            IN  [of |-> row, slot |-> s.index[row.r], at |-> t.nc,
                 feed |-> [j \in 1 .. row.q |-> InputAt(t, row.q, t.nc + j - 1)],
                 sample |-> t.ncpu + row.q >= t.plen]
    IN  [i \in DOMAIN rows |-> Prepare(rows[i])]

\* compute_need_sampled_mask is not None.
NeedsSampled(batch) == \E i \in DOMAIN batch : batch[i].sample

-----------------------------------------------------------------------------
(* The ring. *)

\* Fault: the generation of a slot is not looked at.
LiveAnyGen(s, e) == {j \in DOMAIN e.slots : e.need[j]}

\* get_prev_sampled_outputs: rows whose slot was not freed since the reception.
Live(s, e) == {j \in DOMAIN e.slots : e.need[j] /\ s.gen[e.slots[j]] = e.gens[j]}

\* A sampled token ends a row's text and is its next input.
WithToken(t, tok) == [t EXCEPT !.last = tok, !.ids = Append(@, tok)]

\* post_update, of the rows a token was sampled for.
PostUpdate(s, slots, toks, js) ==
    [s EXCEPT !.tab = [x \in DOMAIN @ |->
        IF \E j \in js : slots[j] = x /\ toks[j] # Absent
        THEN WithToken(@[x], toks[CHOOSE j \in js : slots[j] = x])
        ELSE @[x]]]

\* The entry is waited for only if a row of it is left.
Arrived(s, e) == Live(s, e) = {} \/ e.n <= Len(sent)

\* update_pp_decode_requests.
UpdatePPDecode(s, e) ==
    IF Live(s, e) = {} THEN s ELSE PostUpdate(s, e.slots, sent[e.n], Live(s, e))

\* The reception of a batch, as queued with the generations of its slots.
PendingRecv(s, batch, n) ==
    [n |-> n, slots |-> [j \in DOMAIN batch |-> batch[j].slot],
     need |-> [j \in DOMAIN batch |-> batch[j].sample],
     gens |-> [j \in DOMAIN batch |-> s.gen[batch[j].slot]],
     who |-> [j \in DOMAIN batch |-> <<batch[j].of.r, batch[j].of.inc>>]]

\* None: no postprocess is pending for the step.
Nothing == [n |-> 0, slots |-> <<>>, need |-> <<>>, gens |-> <<>>, who |-> <<>>]

\* Fault: one placeholder too many.
NewQueueLong == [i \in 1 .. Stages + 1 |-> Nothing]

\* The first Stages entries are placeholders.
NewQueue == [i \in 1 .. Stages |-> Nothing]

\* Every rank before the last pops an entry and reserves its own.
PopEntry(i) ==
    pending' = IF i = Stages THEN pending ELSE [pending EXCEPT ![i] = Append(Tail(@), Nothing)]

Entry(i) == IF i = Stages THEN Nothing ELSE Head(pending[i])

\* The request states after the bookkeeping of execute_model.
Refreshed(i, msg) ==
    UpdateRequests(AddRequests(FinishRequests(
        UpdatePPDecode(reqStates[i], Entry(i)), msg), msg), msg)

\* execute_model of the worker: the previous sends have been received, the main
\* stream waits for the ring's entry and for the hidden states.
ExecuteModel(i) ==
    /\ inbox[i] # <<>> /\ current[i] = Absent /\ hidden[i] = Absent
    /\ Arrived(reqStates[i], Entry(i))
    /\ LET msg == Head(inbox[i])
           s   == Refreshed(i, msg)
           batch == PrepareInputs(s, msg)
       IN  /\ reqStates' = [reqStates EXCEPT ![i] = s]
           /\ \/ /\ msg.rows = <<>>
                 /\ results' = IF i = Stages THEN Append(results, [r \in Client |-> <<>>]) ELSE results
                 /\ UNCHANGED <<hidden, current>>
              \/ /\ msg.rows # <<>>
                 /\ i > 1 => hidden[i - 1] # Absent
                 /\ current' = [current EXCEPT ![i] = batch]
                 /\ hidden' = [x \in Stage |-> IF x = i - 1 THEN Absent
                                               ELSE IF x = i /\ i < Stages THEN batch ELSE hidden[x]]
                 /\ UNCHANGED results
    /\ PopEntry(i)
    /\ inbox' = [inbox EXCEPT ![i] = Tail(@)]
    /\ UNCHANGED <<schedVars, issued, received, sent>>

Further(t, n) == [t EXCEPT !.nc = @ + n]

\* post_update_num_computed_tokens, of every row of the batch.
Advance(s, batch) ==
    [s EXCEPT !.tab = [x \in DOMAIN @ |->
        IF \E j \in DOMAIN batch : batch[j].slot = x
        THEN Further(@[x], batch[CHOOSE j \in DOMAIN batch : batch[j].slot = x].of.q)
        ELSE @[x]]]

\* sample_tokens of a rank before the last: the reserved entry is overwritten
\* and the count of computed tokens advances.
Receive(i) ==
    /\ i < Stages /\ current[i] # Absent
    /\ IF NeedsSampled(current[i])
       THEN /\ received' = [received EXCEPT ![i] = @ + 1]
            /\ pending' = [pending EXCEPT ![i][Len(pending[i])] =
                               PendingRecv(reqStates[i], current[i], received[i] + 1)]
       ELSE UNCHANGED <<received, pending>>
    /\ reqStates' = [reqStates EXCEPT ![i] = Advance(@, current[i])]
    /\ current' = [current EXCEPT ![i] = Absent]
    /\ UNCHANGED <<schedVars, issued, inbox, hidden, sent, results>>

\* The sampler yields a token for a row that reaches the end of its prefill.
SampledFor(row) ==
    IF row.at + row.of.q >= Len(row.of.base) THEN Tok(row.of.r, row.of.inc, row.at + row.of.q)
    ELSE Absent

\* The last rank's side of it; a batch nobody needs tokens of is not sent.
Broadcast(batch, toks) == IF NeedsSampled(batch) THEN Append(sent, toks) ELSE sent

\* sample_tokens of the last rank: sample, broadcast, answer, update.
SampleAndBroadcast ==
    /\ current[Stages] # Absent
    /\ LET batch == current[Stages]
           toks  == [j \in DOMAIN batch |-> SampledFor(batch[j])]
       IN  /\ sent' = Broadcast(batch, toks)
           /\ results' = Append(results, [r \in Client |->
                  IF \E j \in DOMAIN batch : batch[j].of.r = r /\ toks[j] # Absent
                  THEN <<toks[CHOOSE j \in DOMAIN batch : batch[j].of.r = r]>> ELSE <<>>])
           /\ reqStates' = [reqStates EXCEPT ![Stages] =
                  Advance(PostUpdate(@, [j \in DOMAIN batch |-> batch[j].slot], toks, DOMAIN batch), batch)]
    /\ current' = [current EXCEPT ![Stages] = Absent]
    /\ UNCHANGED <<schedVars, issued, inbox, hidden, pending, received>>
-----------------------------------------------------------------------------
NewRequest == [nc |-> 0, ph |-> 0, flight |-> 0, stale |-> 0, drop |-> FALSE, wait |-> 0,
               inc |-> 0, base |-> <<>>, out |-> <<>>, done |-> FALSE]

RingInit ==
    /\ req = [r \in Client |-> NewRequest]
    /\ waitingQ = [r \in Client |-> r] /\ runningQ = <<>>
    /\ finishedIds = {} /\ preemptedIds = {} /\ batchQ = <<>> /\ drops = 0
    /\ inbox = [i \in Stage |-> <<>>] /\ hidden = [i \in Stage |-> Absent]
    /\ reqStates = [i \in Stage |-> NewReqStates]
    /\ pending = [i \in 1 .. Stages - 1 |-> NewQueue]
    /\ received = [i \in 1 .. Stages - 1 |-> 0]
    /\ issued = <<>> /\ sent = <<>> /\ current = [i \in Stage |-> Absent] /\ results = <<>>

\* Everything has been answered and reported.
AllServed ==
    /\ ~HasRequests /\ batchQ = <<>>
    /\ \A i \in Stage : inbox[i] = <<>> /\ current[i] = Absent
    /\ UNCHANGED ringVars

RingNext ==
    \/ Schedule \/ UpdateFromOutput \/ ResetRunning \/ SampleAndBroadcast \/ AllServed
    \/ \E r \in Client : AbortRequest(r)
    \/ \E i \in Stage : ExecuteModel(i) \/ Receive(i)

RingSpec == RingInit /\ [][RingNext]_ringVars
-----------------------------------------------------------------------------
\* The token a batch's row is due at position p: of the text the request was
\* admitted with, and then of what was sampled since.
Due(row, p) == IF p < Len(row.base) THEN row.base[p + 1] ELSE Tok(row.r, row.inc, p)

\* Every rank computes the positions the scheduler scheduled, and the first rank
\* is fed, for a request admitted anew, resumed or decoding, the tokens of its
\* text or the one the last rank sampled for it.
FedRight ==
    \A i \in Stage : current[i] # Absent =>
        \A j \in DOMAIN current[i] :
            LET b == current[i][j]
            IN  /\ b.at = b.of.nc
                /\ i = 1 => \A x \in 1 .. b.of.q : b.feed[x] = Due(b.of, b.at + x - 1)

\* The text of a rank's row is that of the request that has the slot.
TextRight ==
    \A i \in Stage : \A r \in Client : reqStates[i].index[r] # 0 =>
        LET t == reqStates[i].tab[reqStates[i].index[r]]
        IN  /\ t.who[1] = r
            /\ \A p \in t.plen + 1 .. Len(t.ids) : t.ids[p] = Tok(r, t.who[2], p - 1)

\* A rank's n-th reception is of the batch the last rank's n-th broadcast is of.
PairedByStep ==
    \A i \in 1 .. Stages - 1 : \A k \in DOMAIN pending[i] :
        LET e == pending[i][k]
        IN  e # Nothing /\ e.n <= Len(sent) =>
                /\ Len(sent[e.n]) = Len(e.slots)
                /\ \A j \in DOMAIN e.slots : e.need[j] =>
                       <<sent[e.n][j][1], sent[e.n][j][2]>> = e.who[j]

\* A request's output holds one token for each of its positions, in order, and
\* all that follows the text it was last admitted with was sampled since.
OutputInOrder ==
    \A r \in Client : \A p \in DOMAIN req[r].out :
        LET t == req[r].out[p]
        IN  /\ t[1] = r /\ t[3] = PromptLen[r] + p - 1
            /\ PromptLen[r] + p > Len(req[r].base) => t[2] = req[r].inc

\* What a rank is fed does not depend on how far it runs ahead of the last rank,
\* on who held a slot before or on what was preempted meanwhile (FedRight, TextRight); the
\* broadcasts of different steps are not mixed up (PairedByStep), and the client
\* sees one consistent text (OutputInOrder).
RingRight == FedRight /\ TextRight /\ PairedByStep /\ OutputInOrder
=============================================================================
