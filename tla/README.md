# A TLA+ verification of dsv41flash-pp

`dsv41flash-pp` is an overlay on vLLM that serves DeepSeek-V4.1-Flash on a
pipeline of (four) GPUs: speculative decoding with the DSpark drafter, pipeline
cuts at any layer, quantised experts on CPU or GPU, and n-gram ("engram") tables
read from an SSD. This directory holds TLA+ models of its control logic, the TLC
runs that check them on small instances, and TLAPS proofs for all sizes.

`PROJECT.json` is the machine-readable index: components, runs, the source lines
behind every definition (`map`), a mutant for every property, hazards, findings
and theorems. Run TLC with `tlc -workers 2 -config X.cfg M` and the proofs with
`tlapm M.tla`, here.

## 1. Inventory of the system

Paths are under `src/overlay/`.

| part | code | state | operations |
|---|---|---|---|
| engine core | `vllm/v1/engine/core.py` | batch queue, deferred draft futures | `step_with_batch_queue`, add, abort, reset |
| engine process | same | input, abort and output queues, pause state, idle callbacks, shutdown state | the three threads, `pause_scheduler`, `sleep`, `wake_up`, `resume_scheduler`, signals, failure |
| data-parallel waves | same (`DPEngineCoreProc`) | wave and step counters, engines running, pending pause | busy loop with all-reduces, START_DP_WAVE, two-phase pause |
| scheduler | `vllm/v1/core/sched/scheduler.py` | requests and their counters, running / waiting / skipped queues, `_dsv41_pp_sent`, finished ids | `schedule`, `_preempt_request`, `update_from_output`, `update_draft_token_ids`, `finish_requests`, `reset_prefix_cache` |
| pipeline rank | `vllm/v1/worker/gpu_model_runner.py`, `gpu_worker.py` | cached request states, persistent batch rows, last proposed drafts | `execute_model`, `_update_states`, `_prepare_inputs`, `sample_tokens`, `take_draft_token_ids` |
| V2 runner's ring | `vllm/v1/worker/gpu/` | request tables, ring of pending receptions | `execute_model`, `sample_tokens`, broadcast and receive |
| configuration | `vllm/config/`, `vllm/engine/arg_utils.py` | the options | resolution, second resolution with the model's `hf_config` |
| KV cache planning | `vllm/v1/core/kv_cache_utils.py` | groups, tensors, block counts | `get_kv_cache_configs` |
| worker start and life | `gpu_worker.py`, `gpu_model_runner.py`, `vllm/v1/worker/utils.py` | device memory, cache tensors and views, weights | profiling, binding, zeroing and copying blocks, sleep, weight updates |
| shadow plan | `hybrid/pp_shadow.py`, `vllm/models/deepseek_v4_1/nvidia/model.py`, `attention.py` | tensors between ranks, compressed KV caches, top-k and candidate buffers | forward pass of a rank, shadow runs, shipping |
| attention step, graphs, drafter | `vllm/models/deepseek_v4_1/`, `vllm/v1/attention/`, `cudagraph_dispatcher.py`, `hybrid/dspark_proposer.py` | slots, ring, compressed entries, index keys, captured graphs, drafts | capture, dispatch, write, score, attend, sample, draft |
| engram in the model | `vllm/models/deepseek_v4_1/common/engram.py`, `model_state.py` | token slots, hash windows | ids, hash, lookup |
| engram row store | `engram_ssd/row_store.cpp`, `engram_ssd.py` | thread pool counters, pinned staging buffers, CUDA stream | lookup, host callback, pool `run` / `loop`, close |
| checkpoint loading, quantisation | `vllm/model_executor/`, `exl3/`, `hybrid/` | parameters of a rank | iterate, rename, stack, place, convert |
| experts | `hybrid/cpu_experts.py`, `cpu_moe.*`, `exl3/` | buffers of a call | threads, barriers, kernel launches |
| patches, launchers, tools, evaluation, staged Marlin | `patch_*.py`, `serve/`, `tools/`, `eval/`, `hybrid/marlin_staged.py` | none that a protocol depends on | |

**How the parts interact.** One engine thread runs `step_with_batch_queue`: it
schedules a batch and broadcasts it to every rank's RPC queue, up to
`pipeline_parallel_size` batches ahead of the oldest result. Activations go from
rank to rank. Only the last rank samples, and it proposes the drafts. The other
ranks know the sampled tokens only from `new_token_ids` in *later* batches, which
the scheduler fills from the request's output and its own record of what it has
already sent (the V2 runner broadcasts them among the ranks instead). Drafts are
fetched by a second RPC whose result is awaited when the batch's output is
processed. Within a rank, the forward pass reads the tensors the previous rank
shipped, and the engram lookup suspends the CUDA stream on a host callback. The
engine thread is fed by an input thread over two queues (aborts are put on both)
and answers through an output thread. Data-parallel engines run in lock-step
through collective operations, and are started by a coordinator's messages.
Before any of this the options are settled, the workers measure their memory, the
engine plans the cache for all of them, and each binds its part.

**What is hard.** The engine acts on stale information by design: it schedules
while outputs that decide the request's length are in flight, preempts requests
whose outputs are still coming, and lets clients abort in between. The three
copies of a request's tokens (scheduler, receiving ranks, last rank) must agree
without ever being compared. A pause or a sleep completes by a callback, long
after it was asked for, with other calls in between. In the row store, hazards
are those of a hand-made thread pool. Elsewhere they are combinatorial: any cut
with any layout of sources, any mix of cache specs, any option with any other,
any tensor of any checkpoint format. `hazards` in PROJECT.json lists each of
these at its line.

**What makes each part correct.**

* engine and scheduler: clients receive a growing text that stops where it must;
  no position is delivered twice; every request ends.
* engine process: a completed pause leaves the device idle, every client is
  answered exactly once, nothing runs on offloaded memory.
* data-parallel waves: engines that wait for each other wait in the same
  operation; nothing wakes paused engines; nobody computes alone.
* ranks: what a rank computes on is what was delivered to the client.
* KV pool and planning: blocks are conserved, cover what is computed, do not
  overlap in memory, and a request of the fitted length fits.
* configuration: the settled options agree with each other and are a fixed point.
* shadow plan, attention, engram: whatever is read was written in this life of the
  request, for this position, and reached this rank.
* row store: a lookup returns the rows of its ids, and always returns.
* loading and experts: every parameter holds the right slice of the right tensor;
  every pair of token and expert is applied once.

## 2. Modules

| module | models | uses |
|---|---|---|
| `Generation` | what a client is promised: an open request's text only grows, up to its limit, and is final once closed | |
| `PPEngine` | engine core, scheduler, ranks, KV block counts | instantiates `Generation` for the refinement |
| `EngineLife` | threads, pause and sleep, failure and shutdown of the engine process | |
| `DPWave` | waves and two-phase pause of data-parallel engines | |
| `ShadowPlan` | the shadow plan and one forward pass | |
| `TokenRing` | V2 runner, its ring and asynchronous scheduling | |
| `Engram` | n-gram ids, hashes and lookups of a step | |
| `RowStore` | row store, stream and thread pool | |
| `ModelArgs`, `EngineConfig` | resolution of the options | |
| `KVLayout`, `KVPlan` | grouping of cache specs; the plan for all workers | |
| `WorkerStart`, `WorkerLife` | a worker's memory and caches; sleep and weight updates | `KVPlan` |
| `Startup` | a whole start: options, devices, plan, binding, life | composes the last three rows |
| `GraphDispatch`, `AttnStep` | captured graphs; a sparse-attention step with sampling and drafting | |
| `QuantMethods`, `WeightLoad` | which method a layer gets; what is loaded where | |
| `ExpertServe` | experts applied to batches by threads or packed kernels | continues `WeightLoad` |
| `ModelOpt` | ModelOpt checkpoints and their scales | |
| `MCPPEngine`, `MCEngineLife`, `MCRowStore`, `MCKVPlan`, `MCStartup`, `MCAttnStep`, `MCWeights` | constants of the checked instances | |
| `MCPipeline` | constants; `ShadowPlan`, `TokenRing` and `Engram` side by side, each behaviour one of them | |
| `*Proofs` | theorems, section 4; those of `PPEngine` are in `PPEngineProofs` and, for ranks and sampler, `PPEngineSamplerProofs` | their component, `TLAPS` |

Operators marked `Fault:` are the mutants: each replaces one mapped definition by
what a plausible slip in that code would do, and the property it is paired with
fails. No specification uses them.

### PPEngine

*State.* One variable per field of `Request` that the protocol uses (`status`,
`out`, `computed`, `inFlight`, `stale`, `dropStale`, `spec`, `chunk`), the
scheduler's queues, its map of tokens sent (`sent`), the KV pool as counts, the
engine thread (`pc`, the locals `cur` of the call under way, the batch queue, the
two kinds of futures) and, per rank, the RPC queue, the activations under way,
the cached states (`known`, `hist`), the persistent batch (`inBatch`, `row`) and
what the last step read from it (`inputs`).

*Actions.* `schedule()` is split at its loop iterations: `StartStep`,
`SkipRunning` / `ScheduleRunning` / `PreemptLast`, `EndRunning`, `SkipWaiting` /
`Admit`, `EndWaiting`, `Issue` (which also updates the counters, fills in
`new_token_ids` and sends the RPCs). `AwaitResult`, `UpdateFromOutput` and
`UpdateDrafts` are the second half of `step_with_batch_queue`. `RankExecute`,
`RankSample` and `RankTakeDrafts` are the workers' RPC handlers, and
`AddRequest`, `Abort` and `ResetPrefixCache` come from clients: at the top of the
busy loop, and aborts also between the arrival of an output and its processing.
The engine thread is sequential, so the interleaving that matters is between it
and the ranks.

*Configuration.* The one the launchers serve: pipeline parallel with synchronous
scheduling, FCFS, `DSV41_DEFER_DRAFT=1`, `DSV41_PP_SPREAD=1`,
`DSV41_DRAFT_SKIP_PREFILL=1`, no prefix caching (the base launcher passes
`--no-enable-prefix-caching`; the EXL3 launcher enables it, which is not
modelled), no KV connector, streaming sessions, multimodal input, LoRA, Mamba or
structured output, `long_prefill_token_threshold` 0, unique request ids.

*Abstractions.* A token is an opaque value chosen freely by the sampler. A draft
is counted and not valued: how many drafts a step accepts is the sampler's free
choice, and so is how many are proposed (`0..NumSpec`, which covers the
confidence threshold). KV blocks are counted; which block is which is not
modelled. `execute_model` and `sample_tokens` of the last rank are one action,
since nothing can come between them in its RPC queue that touches the same state.
Only the last rank answers the draft RPC with content, so it is in that rank's
queue only. `GrammarOutput`, logprobs and statistics are left out. A token slot
nobody wrote holds `Garbage`, so that reading one is visible.

### ShadowPlan

A behaviour is one forward pass over the ranks for one configuration; the initial
states range over *all* layouts of compressed layers, kv, index and candidate
sources and all cuts. A buffer is abstracted to which source's data of this pass
it holds; at the start of a pass it holds nothing usable. `Begin`, `RunShadow`,
`EndShadows`, `RunLayer` and `Ship` are the phases of `forward()`.

### RowStore

A lookup is three operations on an in-order stream (ids to the pinned buffer,
host callback, rows back), and the host runs ahead. The pool's critical sections
are atomic (they hold the mutex); a wait on a condition variable is a state that
a notification ends, or a spurious wakeup, which C++ permits. A row is named by
its id; weights and scales are fetched by the same code and are one value. Read
errors abort the process in the code and do not occur in the model. Closing happens
when the stream is drained, as the tests do it; serving never closes a store.

### EngineLife

Clients add requests, abort them and call pause, sleep, wake and resume; the input
thread puts each message on the bounded input queue and an abort on the abort
queue as well; the busy loop handles one message at a time, steps, and runs the
idle callbacks; the output thread delivers. The executor may fail, and a signal
may come at any point, with or without draining. A request needs `Work` steps; a
batch is abstracted to whose step it is. The constant `ClientWaits` says whether a
client sends a call before the answer to the one before it. Not modelled: the
start-up handshake, profiling, LoRA and fault-tolerance calls, Ray actors.

### DPWave

The engines' loops between collective operations, the coordinator and the clients,
over channels that keep the order of one sender. The coordinator is not in the
repository and is modelled from the messages the engines exchange with it. A
forward pass and the all-reduce every `SyncEvery` steps are single steps of all
engines that wait for it (`GoesOn` is what the all-reduce decides). Elastic scaling
is left out.

### ModelArgs, EngineConfig

An options record goes through the sections of `create_model_config`,
`create_engine_config` and `VllmConfig.__post_init__` one by one, and once more
through `with_hf_config`. A check made by a class outside the repository is a
member of the set `refusals`. Left out: the command line parser, hashes, data
types, DCP interleaving, validation of the block size.

### KVLayout, KVPlan, WorkerStart, WorkerLife

Cache specs are records (kind, page size, block size, window) and a plan is
computed along every path of `get_kv_cache_groups`. A byte of a cache holds zero or
its own address, so overlapping views show. One worker is followed through its
life; backends alternate between layers; the first three blocks stand for all.
`create_kv_cache_views` and the sleep backend are external. Devices leave 24, 61 or
90 bytes, and a granule is 8, so that rounding matters.

### AttnStep, GraphDispatch

A key is (request, position, kept draft or not), a compressed entry a pair of
keys; slots, block tables and gather indices are exact, scores are not: top-k takes
the newest. The phases are capture, schedule, write, score, attend, draft, finish,
with blocks reused between requests. Not modelled: context parallelism, image
visibility, candidate blocks, the packed path of a native non-uniform decode,
coordination of padding between data-parallel ranks, other platforms' kernels.

### TokenRing

A token is (request, admission, position). A rank's host and main stream are one
process; the n-th reception gets the n-th broadcast. Preemption by KV pressure is a
free choice. There is no speculative decoding, since the broadcast carries none. `issued`
is a history of the scheduler's messages, which no action reads; the proof needs it.

### Engram

The text is fixed and its scheduling varies: chunks, drafts, prefix hits, loaded
blocks, preemption. XOR, modulus and offsets are exact; multipliers, which come
from a numpy generator, are small odd numbers. A table row is named by its index.

### QuantMethods, WeightLoad, ExpertServe, ModelOpt

A checkpoint tensor is a record of the parts of its name, and its value is the
tensor's name, file and type. Ranks are configurations of loader, pack, cut,
parallelism and draft. Slicing by tensor rank is modelled for shared experts and
sinks. In `ExpertServe` a cell holds the number of the call that wrote it; thread
counts and thresholds are scaled down. In `ModelOpt` only per-tensor scales have
values. Kernels and numerics are left out.

## 3. Runs

| run | instance | shows |
|---|---|---|
| `engine_pp2` | 2 requests, 2 ranks, 2 drafts, prompts of 5 and 1, chunks of 2, stop tokens, 4 blocks of 2, lookahead, aborts, 1 reset | types; ranks know what they are told to continue (`RanksKnow`); drafts continue the output; blocks are conserved and cover what is computed; the engine refines `Generation` (`KeepsPromise`) |
| `engine_pp3` | 2 requests, 3 ranks, 5 blocks of one token | preemption with output in flight: no drafts-only step, a request in exactly one queue |
| `engine_tokens` | 1 request, 3 ranks, two token values, chunked prefill, abort, 2 resets, lookahead | the copies agree in *content*; delivery continues across resets; the stale count drains exactly |
| `engine_live` | 2 requests, 2 ranks, 1 reset, fair | every request completes, every rank forgets it |
| `life` | 2 requests with any 2 of calls, abort, signal; failures; fair | a completed pause holds, nothing runs asleep, one final answer per client and no abort lost, the process ends when told, calls and requests are answered |
| `life_race` (violation) | 1 request, clients that do not wait | see section 5 |
| `dp_wave` | 2 engines, 2 requests or 1 and a pause | engines in step, pauses agreed on and kept, nobody computes alone |
| `pipeline` | 5 layers on 3 ranks in all layouts and cuts; 2 requests on 2 ranks of the V2 runner; 2 texts under 5 engram deployments | every layer reads what this pass computed; every rank is fed the tokens sampled; every position gets its n-gram's rows |
| `row_store` | 3 threads, 2 lookups of 1 to 3 jobs, fair | rows exact, jobs counted and run inside their call, no wakeup lost |
| `startup` | two deployments with one or two options changed, launches over nodes, 14 models on 2 workers with different memory | the settled configuration is consistent and a fixed point; the plan is sound; caches do not overlap; a worker's memory survives sleep and updates |
| `attn_step` | 2 or 3 requests of up to 6 tokens, window 2, with and without graphs and drafts | each row attends to exactly its own keys, samples and drafts from them, and padding touches nothing |
| `weights` | plain, EXL3 and hybrid packs, tensor, expert and MegaMoE parallelism, AMD, CPU experts, drafts, ModelOpt of each algorithm; 2 threads serving 2 calls | parameters hold what they should, every expert is applied once, every scale multiplies what was divided by it |

**Bounds.** They are chosen so that the case a property is about happens, which
the mutants confirm. In the engine runs four output tokens are the least for an
accepted draft followed by another decode. The KV pool is a block or two too small
for all requests, so that preemption happens with steps in flight. Three ranks are
needed for the wait on stale output: with two, the output of a preempted request
has always arrived before it is considered again. Two resets allow one while the
output of the first is in flight. Two token values are enough to see a token at a
wrong place. In `life` two events are a call and what overtakes it; in `dp_wave` an
all-reduce every second step leaves one step in between (two pauses and three
events, 5.1 million states, pass as well). In `ShadowPlan`, three ranks are the
least with one that passes on what it does not use, and five layers leave room for
two sources, their consumers and a cut in each. `TokenRing` was also checked with
three stages, and with three clients on one slot. In `RowStore` two rows per job
give short last jobs, and the second lookup reuses the buffers while a thread is
late. `MaxResets`, `MaxLookups`, `MaxEvents`, `MaxPauses`, `MaxDrops`, `MaxCalls`
and `Cancellable` bound what clients do.

**Deadlock** is checked in `pipeline`, `row_store` and `weights` (barriers of the
expert threads), where everyone waiting for everyone is the hazard. The others
idle or end when their work is done; `Completes`, `Ends` and `Answered` take its
place.

**Fairness.** Engine: weak fairness of the engine thread (the busy loop never
stops while there is work), of each rank's RPC loop, and nothing for clients.
Engine process: weak fairness of the input thread's put, of the wakeup of a blocked
queue read, and of the busy loop; nothing for clients, signals or failures. Row
store: weak fairness of the stream, the callback thread and each pool thread, which
the operating system's scheduler provides; none for the host or for spurious
wakeups, so that a lost wakeup would show.

## 4. Proofs

Every safety invariant of `PPEngine`, `EngineLife`, `DPWave` and `RowStore` that a
run checks is also proved for all values of the constants, and the refinement of
`Generation` with them; so are the invariants of `ShadowPlan`, `TokenRing` and
`WorkerLife`. Each theorem is about its module's own specification; `pipeline` and
`startup` compose these components without changing their actions.

### Engine

For any number of requests, ranks, drafts, blocks and tokens, from
`ConstantsAssumption` and `CapacityAssumption` of `PPEngine` (positive sizes, at
least two ranks, a finite set of requests, prompts below the length limit, which the
front end enforces, and a pool that holds one request of the largest length, which
the admission check of the KV planning enforces).

* `TypesHold`: `Spec => []TypeOK`.
* `NeverDraftsOnly`: `Spec => []NoDraftOnlyStep`. A step of drafts only would be
  scheduled if `num_computed_tokens` could pass the real tokens while the guard
  in `schedule()` looks at a stale output. It needs `SchedInv`: the types, that the
  running queue holds running requests (`RunningInv`), that the output and the
  prompt stay within the length limit (`LengthInv`), that a request not yet
  admitted has nothing computed (`FreshInv`), and that the entries of the call
  under way have real tokens (`CallInv`).
* `ReceiversComputeOnDelivered`: `Spec => []ReceiversAgree`. What a rank before
  the last reads for a step is the request's delivered output at those positions.
  The rank has not seen the output: it has a prefix, and the rest is in messages
  not yet handled. `RankInv` says so. `ChainInv`: the unhandled messages of a
  request form a chain, each starting where the one before it ends, from the end
  of the rank's copy to what the scheduler has marked as sent, and their tokens
  are those of the output. `CopyInv`: the copy is a prefix of the output. `RowInv`:
  a row in the persistent batch equals the copy. `FinishInv`: a finish
  notice stands behind every message of the request it ends. `ReadInv`: the last
  step's input agrees. The main lemmas are `ExecHist`, `ExecRow` and `ExecRead`
  (one message handled), `RankIssueInv` (a message appended) and `RankGrows` (the
  output grows under messages in flight).
* `Implements`: `Spec => KeepsPromise`. Under the mapping of `out` and `status`
  every step is a step of `Generation` or leaves the client's view alone; only
  `UpdateFromOutput`, `AddRequest` and `Abort` are visible.
* `LiveIsQueuedOnce` (`QueuedOnce`) from `QueueInv`: the running queue holds the
  running requests; the waiting queue, the skipped queue and the list of those
  skipped in the call under way are disjoint, without duplicates, and together hold
  the waiting and preempted ones; the list is empty outside the waiting loop.
* `StaleDrainsOldest` (`StaleIsOldest`) from `FlowInv` and `AlignInv`:
  `num_in_flight_tokens` is the sum over the batches in the queue, and the stale
  part the sum over some oldest of them, so processing one subtracts exactly its
  share; `AlignInv` says that results and the last rank's unhandled messages are,
  in order, those of the queue's batches.
* `BlocksAccounted` (`BlocksReserved`) from `BlocksInv`, the conservation of
  blocks as a sum over a finite set of requests, and `PlacedInv`, that only running
  requests hold blocks and hold enough for what is computed.
* `RanksAreTold` (`RanksKnow`) from `KnowInv`: in a rank's queue, the first entry
  of a request the rank does not know is a new one and no other entry is.
* `SamplerComputesOnDelivered` (`SamplerAgrees`) and `DeliveryContinues`
  (`DeliveredContinues`) from `SampleInv`. The last rank appends what it samples
  without being told whether it is kept, so its copy may run ahead of the output.
  `FlightInv`: every entry in flight was scheduled with the output that is delivered
  now, and only one that reaches its end samples. `LineInv`: of a request's entries,
  those in the oldest `j` batches are stale; among those whose output will be kept
  the sampling one is the last, and none can be scheduled behind it. `OwnInv`: the
  last rank's copy extends the output, by exactly what its latest executed step
  sampled. The input of its last step then agrees by `ReadAt(PP)`.
* `DraftsFollowOutput` (`DraftsContinueOutput`) from `DraftInv`: the draft answers
  that wait to be handed out are, in order, those of the executed batches that ask
  for drafts, and each continues what its batch sampled.

### Engine process

For any requests, calls, queue size and number of events, from `LifeAssumption`
(calls are of the four operations; a sleep clears the cache, as at levels 1 and 2).

* `RequestsEndOnce` (`EndedOnce`) from `EndInv`: a request that was sent is on its
  way exactly once (`SentOnce`: one addition in the input queue);
  its client was told of its end at most once and not while it lives (`Told`);
  after a shutdown without draining nothing is live (`Emptied`); an abort never
  overtakes the addition of its request in the queue that is not dropped
  (`Follows`).
* `PausePromiseKept` (`PromiseKept`) from `PauseInv`: a promise stands only while
  the scheduler is paused, with no batch under way.
* `NeverRunsAsleep` (`NoStepAsleep`), for clients that wait, from `SleepInv`: at
  most one call is on its way or waits for its callback (`Outstanding`), and an
  executor asleep means paused, idle and nothing running. `life_race` shows that
  the hypothesis `ClientWaits` cannot be dropped.

### Data-parallel waves

For any number of engines from two, any interval between all-reduces and any number
of requests and pauses, from `WaveAssumption`.

* `WaitTogether` (`SameOperation`) from `StepInv`: the engines' counters agree, up to
  engines that have still to count the pass they all made; on the step that ends in
  an all-reduce all of them are about to enter it or in it.
* `PausedTogether` (`PauseHolds`) from `PauseInv`: the engines are in one of three
  phases (`Open`: each runs normally or has taken the pause; `Agreed`: all have
  agreed to it; `Resuming`), at most one pause and one resume stand in an inbox, in
  order, and a pause has completed on some engine only when all have agreed and all
  are quiet. Looking for it showed that the model of the client let a second
  pause be completed by the answers to the first; the client waits for its own.
* `NobodyLeftAlone` (`NobodyAlone`, which is about runs without a pause) from `WakeInv`.
  All engines are in the same wave, and messages are of this wave or of one that is
  over. If somebody has work in this wave (`Doing`), then either everybody has work
  in it or a message that gives it some (`AllBound`), or the coordinator has yet to
  read a note that makes it start everybody (`Unheard`). `CoordInv` says why the
  coordinator can leave a note unanswered: it believes that this wave runs only if
  `AllBound` holds, and while it is behind, the `wave_complete` that brings it
  forward is still on its way. `NoteInv` and `StartInv` say the same of the messages:
  the engine that an answer leaves out needs no waking.

### Row store

For any number of threads, lookups and rows and any chunk size, from
`StoreAssumption` and `BufferAssumption` of `RowStore`. The latter says that a
buffer's capacity holds its lookup; it follows from the definition of `Capacity`
by an induction on powers of two that the prover cannot do, so it is assumed and
TLC evaluates it on the instances.

* `PoolKeepsAccount` (`PoolAccounts`) and `NoJobOutlivesItsCall`
  (`JobsInsideCall`) follow from `PoolInv`: the types, the account itself, and
  `CallInv`, that between two calls all jobs are finished. So nobody is busy and
  no job is left when `Pool::run` resets the counters (`Quiet`), and a late
  thread cannot take or count a job of another call.
* `LookupsAreExact` (`LookupCorrect`) needs what the buffers hold on the way,
  `DataInv`: `StageInv` (the id buffer holds the oldest lookup's ids during its
  call, the row buffer its rows afterwards) and `JobInv` (during a call, the rows
  of every job taken and not being run are right). When `Pool::run` returns, all
  jobs are taken and none is being run, and every row belongs to a job
  (`JobsCover`). `FetchRows` says that a job leaves the rows of the others right.

### Shadow plan

`EveryLayerIsFed` (`LayersFed`), for any number of layers and ranks and every layout
of sources and cuts with which the model loads. `PassInv` says what one pass has
established: what is on the wire is exactly what the rank expects (`Received`); the
shadows run in ascending order, those that have run left their caches, and the one
that has to left its top-k (`ShadowsRun`); behind them the cache of every source a
layer may want is filled, and the top-k is that of the last index source at or below
the layer that ran last (`LayersRun`). The step between two ranks is where a layout
could break it: what the next rank expects was owned or received by this one.

### Worker life

`WorkerKeepsAll` (`WorkerKeeps`), for any sequence of sleeps, partial wake-ups,
reloads and weight update sessions. `LifeInv`: a buffer is good where it is or in what
was saved of it while the weights are away (`BuffersKept`), junk in the weights is the
work of a level-2 sleep that no load followed (`LossKnown`), and a session aims at what
its start chose until it ends (`SessionAims`).

### Token ring

`RingIsRight` (`RingRight`), for any number of ranks from two, requests, slots and
tokens and any budget, from `RingAssumption` alone (positive sizes). Ranks are never
compared with each other. The history `issued` numbers the messages, and everything
else is stated relative to it.

* `MessageOK`: what a message says about a request continues its last row by what
  was computed (`OldRowOK`: the same text and admission, one position behind a
  sampled token, and not before the ring has brought that token) or admits it anew
  (`NewRowOK`: a rank no longer holds it, or drops it on this message); later
  admissions have higher numbers; no more requests are held than there are slots.
* `SchedInv` says why the scheduler only writes such messages: a running request is
  where its last row ends and its wait lasts until the ring yields (`FollowsRow`),
  `num_in_flight_tokens` and the stale share are sums over the messages not yet
  processed (`FlightOK`), a request that does not drop its stale output waits for all
  of it (`DropOK`), and the next row that pays out a token is that of the next
  position (`PaysNext`). `QueueInv` ties the queues to what ranks hold.
* `RankOK`: a rank's tables are a function of the messages it has executed and
  finished (`TableOK`), its batch is that of the last one (`BatchOK`), and the k-th
  entry of its ring is the reception of the message `Stages - k` back
  (`PendingOK`). An entry whose request has left meanwhile has an older generation
  than its slot (`SlotKept`), which is what `get_prev_sampled_outputs` looks at.
* `SentOK` and `EngineInv`: the payloads and the answers are those of the messages,
  in their order.

### Only model-checked

* `Completes`, `RanksForget`, `NoWakeupLost`, `Ends`, `Answered`: liveness under
  fairness is outside the reach of TLAPS.
* `EngramRight`, `PlanSound`, `CacheRight`: their modules define RECURSIVE operators
  or use one that does. `ResolveStable`, `ConfigSound`: statements about enumerated
  configurations, which TLC exhausts.
* `WeightsRight`, `ScalesKept`: statements about enumerated deployments and
  checkpoints, which TLC exhausts.
* `AttentionRight`, `SampledRight`, `DraftsRight`, `WritesOwn` (contents of the caches
  through slots, block tables and gather indices) and `ExpertsOnce`: not attempted.

## 5. Findings

* `life_race`. `core.py:1036` says "Resume scheduling only once all executor memory
  is resident again." A sleep that finds requests running registers a callback; a
  `wake_up` handled before the engine is idle finds nothing asleep and resumes; the
  callback is not cancelled and offloads the memory while the scheduler is unpaused
  (`core.py:2063`). The data-parallel core raises in this situation (`core.py:2210`).

Observations made while modelling, each visible as a named exception in its module
or outside what is modelled:

* `hybrid/pp_shadow.py:15` says cuts must sit on index-source boundaries;
  `index_sources_ok`, which would enforce it, is not called, and `LayersFed` shows
  such cuts to be right. `nvidia/model.py:748` says a rank declares exactly what the
  previous one sends; the rank that owns the candidate source also declares the
  candidate tensor, which it neither receives nor reads.
* Engram: `_is_prime(61)` is false, against its docstring (harmless for the sizes
  used); the look-back window uses the optimistic token count under asynchronous
  speculation (`Drifted`); slots of tokens whose KV was loaded by a connector after a
  preemption are not written (`Unwritten`); the AMD model's first layer of a stage
  skips the injection.
* Worker: block copying keeps the first of several views of one address where block
  zeroing keeps the widest (`Hidden`); a KV-sharing layer in a group of several specs
  raises KeyError (`SharingFails`); the suggested `--kv-cache-memory` subtracts the
  graphs twice, on the safe side; a failing `finish_weight_update` leaves the session
  active while a failing update ends it.
* KV planning: an unbalanced sliding-window bucket is cut by `zip` and the start then
  fails an assertion.
* Waves: START_DP_WAVE messages sent before a resume may leave an engine alone, so
  `NobodyAlone` is stated for runs without a pause.
* Configuration: asynchronous scheduling with DSpark and a pipeline is not refused,
  though a comment says so; uneven local world sizes leave ranks unstarted; the
  exceptions of `Settled` are options whose check comes before their last change.
* Drafter: the decision to skip looks at the longest request of the batch, which
  costs acceptance only.
* Loading: a missing last slice of `wo_a` is not noticed; the threaded and the eager
  iterators apply no filter; mixed-precision ModelOpt checkpoints lack the W4A16 route
  and take a fused expert's algorithm from its first child.

## 6. Not modelled, and the plan

Not modelled: kernels and numerics, patch scripts, launchers and measurement tools,
staged Marlin weights (no protocol state); elastic scaling; KV connectors in the
scheduler, multimodal encoders, LoRA, structured output, priority scheduling,
streaming sessions.

Next, in order:

1. Proof of `ExpertsOnce` for any number of threads and tokens, and of `WritesOwn`.
2. KV block identity over `PPEngine`: a step never reads a block that another
   request, or an earlier life of the same one, wrote.
