# A TLA+ model of msmodeling

msmodeling is a collection of programs around the performance of model
inference on Ascend hardware. This directory holds TLA+ models of the parts whose
correctness depends on the order in which things happen, the TLC
configurations that check them on small instances, and TLAPS proofs about them
for instances of any size.

## 1. Inventory of the system

| Component | State it keeps | Operations | What makes it correct |
|---|---|---|---|
| KV cache manager (`serving_cast/kv_cache_manager.py`) | a stack of free block ids, a list of block ids per request, the slots left in each block | `allocate_slots`, `free`, `stats` | no block lost, none given to two requests, a refusal only when the pool is really too small |
| Batch scheduler (`serving_cast/engine.py`, `request.py`) | waiting and running queue, dict of requests, the pool above, one record per request | `add`, `_schedule` (two loops, preemption, receiving of KV caches), `_postprocess_batch`, `_send_kvs_from_remote` | queues, dict, slots and sequence lengths agree; the batch budget; first come first served; the exact number of output tokens; every pass makes progress; every request finishes |
| Serving (`serving_cast/serving.py`, `instance.py`, `utils.py`, `communication.py`) | the client's list, the active requests, instances and engines, a transfer channel per engine | `serve`, `exceed_concurrency_limit`, `select`, `_continue_serve_callback`, `_request_done_callback`, `Channel.process` | the concurrency limit holds in every phase of a request; prefill and decode stay apart; the simulation ends |
| Simulated time (`serving_cast/stime.py`) | a task per engine and channel on top of salabim | `wait`, `notify`, `elapse` | tasks are cooperative: code between two yields is atomic |
| Asynchronous prediction (`serving_cast/model_runner.py`) | worker processes, task and completion queues, a shared cache of results, an event per task | `add_task`, `find_result`, `wait_completion_event`, worker loop, initialisation, shutdown | a result is there when its waiter wakes up; no false report of dead workers; no wait is for ever |
| Shared workload cache (`serving_cast/service/workload_cache.py`) | templates and workloads with one budget and one LRU order, a lease per workload being captured | `get_template`, `set_template`, `claim_workload`, `wait_workload`, `publish_workload`, `abandon_workload` | dicts, order and byte count agree; the oldest entries go and no more than needed; one capture of a workload at a time; no lease leaks and no wait is for ever |
| Throughput search (`serving_cast/parallel_runner.py`, `service/`) | process pools over configurations, a queue of tasks per pool, a manager process with the cache above | one round per hardware profile, a runner per task, inference by cached or captured workload, cancelling after a failure, ranking | the search ends whatever fails or is killed; templates a runner counts on are there; the ranking is arithmetic on latencies |
| Web UI job service (`web_ui/backend`) | a table of jobs and one of result records, a queue of jobs and cancel flags in memory, a write queue with one thread | submit, drain, run, cancel, shutdown, sweep at startup | one job in flight per parameter hash and no work done twice, statuses that move as promised, a succeeded job has its results, reused results are good ones, every job ends, a cancellation is obeyed |
| `tensor_cast`, `tools`, `optix`, `contrib`, `cli`, frontend | numeric models, converters, launchers, presentation | | functions of their inputs, or the business of external programs |

How the parts interact:

- the client loop (`utils.py main_processing`) polls the gate of a `Serving`
  object, and calls `serve` with its next request when the gate is open;
- `serve` picks the least loaded instance, the instance its least loaded
  engine, and `Engine.handle` adds the request to the waiting queue of the
  engine's scheduler and wakes its task;
- a scheduler assembles a batch with the help of the KV cache manager, calls
  `model_runner.process_batch`, which lets simulated time pass, and goes
  through the batch again: requests that are finished leave through the
  `decode_done_signal` callback, requests of a prefill instance leave through
  the engine's device-to-device channel, whose callback sets
  `KVS_TRANSFERRING`; the state's setter then calls the serving object back,
  which hands the request to a decode instance;
- with `enable_kv_transfer_modeling` off, that last chain of calls runs inside
  the post-processing loop of the prefill engine;
- the worker processes of a search over several hardware profiles share one
  `WorkloadCache` through a manager process; a worker claims a workload, and
  captures it, waits for whoever does, or estimates from what is stored;
- the web UI's router inserts a job and the job manager queues it; a worker
  thread runs it in a subprocess and sends each change of the job's row
  through the write queue, whose one thread executes it while the worker waits.

Hard behaviours. Preemption while a batch is being assembled; recomputation of
a request whose prompt has grown by its output; decode windows of several
tokens that may not be cut; arrivals while a batch is computed; a request that
waits for KV blocks while it already holds some; hand-over callbacks nested
into loops of another engine; requests that can never fit; a worker killed
with a lease in its hands, and a lease taken away from a worker that is only
slow; entries evicted between two looks at them; writes of the job service
that time out and are executed all the same; a server that stops or dies
between any two of them. `PROJECT.json` lists
them, each at its line, with the property that covers it.

## 2. Plan

In this order, each done unless it says otherwise.

1. `KVBlocks`, `KVPool`, `KVCacheManager`: the allocator, as an abstract pool
   and block by block. `KVBlocks_proofs`, `KVCacheManager_proofs`.
2. `Request`, `BatchScheduler`: the life of a request and the schedulers of
   any number of engines, on top of the abstract pool. `Sums` for what a batch
   and a pool add up to. `BatchScheduler_proofs`.
3. `Serving`: composes the schedulers with the client, the gate, the load
   balancers and the transfer channels. `Serving_proofs`.
4. `WorkloadCache`, `WorkloadReuse`: the shared cache, and the worker processes
   that use it with failures, kills and ageing leases. `WorkloadReuse_proofs`.
5. `AsyncTasks`: a prediction, the worker that computes it, the cache and the
   completion queue, the barrier, worker death, both ends of the wait and the
   shutdown. `AsyncTasks_proofs`.
6. `JobLifecycle`, what the web UI promises about the status of a job;
   `JobStore`, its tables; `JobService`, which implements the promise: router,
   job manager, worker threads, write queue, cancellation, shutdown, crash and
   the sweep at startup. `JobService_proofs`.
7. `Collections_proofs`: what the proofs need to know about the operators the
   models share, queues without repetition and sums.
8. `sync_send` of `communication.py`, whose single `wait` can be ended by
   somebody else's `notify`: not done, see section 6.

Theorems. Every safety invariant, action property and refinement that a passing run
checks has one. They were taken in this
order: the allocator (types, nothing lost or shared, only tails have room, the
refinement of `KVPool`, exact refusals); the schedulers; serving; leases,
accounts and evictions of the cache; the predictions; the lifecycle of jobs,
`NoDuplicateWork`, and the records of succeeded jobs; then what joins the components: the use
of the pools, progress and `PredictableBatch` under the serving layer, and records
that are written once. Theorems stay in modules
`<component>_proofs`.

## 3. The modules and the code

`KVBlocks` is arithmetic: the blocks that `n` slots occupy.

`KVCacheManager` keeps `free_block_ids`, `req_blocks` and `free_slots` as the
code does. `AllocateSlots` and `RefuseSlots` are the part of `allocate_slots`
up to its loop, `PopBlock` one iteration of that loop, `Free` is `free`.
The loop is not one step because its invariants are those that a count wrong by one
would break half-way. `KVPool` says the same with two numbers, the
slots each request holds and the free blocks.

`Request` gives the methods of `Request` as functions between records. The
expected number of accepted tokens is a fraction in the code; here it is
an integer in units of `1/Scale`. Time stamps are left out.

`BatchScheduler` has one scheduler per engine, with the program counter of
`_scheduling_loop` in `sched[e].pc`:

| pc | where the code is | steps |
|---|---|---|
| `ready` | activated, not yet running | `Start` |
| `running` | first loop of `_schedule` | `ScheduleRunning`, `Preempt`, `EndRunning` |
| `waiting` | second loop | `ReceiveKvs`, `ScheduleWaiting`, `EndWaiting` |
| `decide` | end of the pass | `Sleep`, `EndPass` |
| `idle` | `wait()` | woken by `Add` |
| `execute` | inside `process_batch` | `ProcessBatch` |
| `post` | loop of `_postprocess_batch` | `PostChunked`, `PostFinished`, `PostHandOff`, `PostDecoding`, `EndPost` |

Tasks of `stime` are cooperative. A scheduler gives the processor away at
`idle` and `execute` only, so nobody else moves while another one is at a
different point (`Turn`, `Quiet`). Which of several tasks at a yield goes next
is decided by simulated time; times are not modelled, so any may be next. That
allows more orders than one set of latencies does. `Allocate` and `Release` are
the abstract pool that the allocator implements: `EnginePool(e)` is `KVPool` at the
slots and the free blocks of engine `e`, and `UsesPools` says that each step of the
schedulers is a step of it, with calls of no more tokens than the pool has slots
(`MaxNewTokens`). So the two components are joined by one specification, which
`KVCacheManager` implements and `BatchScheduler` respects.

`Sums` has one operator, the sum of a function over a finite set: the tokens of a
batch, the blocks the requests hold and the bytes of the cached entries are such sums.

`Serving` adds the client (`Serve`, `ServeRefused`), the load balancers
(`Selected`), the gate (`ExceedConcurrencyLimit`), the channels
(`Deliver`, `DeliverRefused`) and the done signal (`Finish`). An exception in
the simulated program ends it: `halted`. Without transfer modelling the
hand-over must happen at once, before any other step (`Delivered`); nothing it
does touches the sending engine's loop, so it is the same as the nested call.
The configuration decides between the two, and so does `Init` here
(`kv_modeling`); it also chooses one of the loads the client may have
(`pending`).

`WorkloadCache` has one action per method; each runs under the lock of the
condition, so each is one step. `wait_workload` is the step with which its
loop ends. A lease is the worker that holds it (the code's token is made for
each claim and forgotten with the capture), `stale` is the set of leases whose
age has reached `inflight_timeout_s`, and `LeaseAges` is time passing.

`WorkloadReuse` has the workers, with the point each has reached in its task:

| pc | where the code is | steps |
|---|---|---|
| `idle` | waiting for a task of its pool | `TakeTask`, `NextRound` |
| `lookup`, `build` | `_build_model_runner` | `LookUp`, `BuildModel` |
| `attach`, `register` | `WorkloadReuseModelRunner.__init__` | `Attach`, `AttachFails`, `Register` |
| `claim` | before `claim_workload` in `run_inference` | `Claim` |
| `wait` | inside `wait_workload` | `Wait` |
| `capture` | `_run_capture` under a lease | `OwnModel`, `Publish`, `NotPortable`, `CaptureFails` |
| `direct` | a run without lease | `OwnModel`, `DirectRun` |
| `dead` | killed | |

`StrategyRaises` and `Raises` are the other ways in which a task ends without a
result. Some time after an exception of a task the main process comes to its
result and cancels what has not been started (`CancelRest`); a killed worker takes the
other workers of its pool with it.

`AsyncTasks` has one main process, the thread that reads completions, and the
workers. The main process of an instance goes through `process_batch`:
`FindResult` asks for the batch at hand, `AddTask` queues what it predicts,
`EndBatch` ends it; which batches those are is left open.

| pc of `main` | where the code is | steps |
|---|---|---|
| `start` | `barrier.wait` of `_init_multi_process` | `Initialized`, `InitFailed` |
| `ready`, `add` | between two batches; behind `find_result` | `FindResult`, `BatchRaises`, `Shutdown`; `AddTask`, `EndBatch` |
| `wait`, `late` | `event.wait` of `wait_completion_event`, before and after the deadline | `Poll`, `Wake` |
| `check`, `checklate` | in the body of that loop | `CheckWorkers` |
| `woken` | `find_result` after the wait | `TakeResult` |
| `join`, `drain` | `shutdown` of the manager and of the events, which gives up on the thread after 5 seconds | `Terminate`, `Joined`, `Drain` |

A poll that times out and the look at the workers are two steps, because the
workers and the thread move between them. The queues and the cache live in a
manager process; each access to one is a step. `None` in the completion queue
only wakes the thread, which `ThreadEnds` covers. A worker killed at the barrier
still counts as arrived, as in `multiprocessing.Barrier`.

`JobLifecycle` says how statuses may move: `Create`, `Transition`, `Sweep`, and
`WriteTrouble` for the two moves that the table of `enums.py` lacks and the code
makes (a job reported as failed before it was marked as running, or after its end
was recorded). `JobStore` has the tables; each of its operators is one
transaction of a repository. The parameters of a job are the cases they
expand to, with how often each occurs: `expand_cases` keeps a value that a field lists
twice. Equal parameters stand for equal hashes; the order of the values, which the hash
depends on as well, is not distinguished. `records` counts, for each case of a
job, the results and the errors stored for it, since nothing but the order of the code
keeps a result from being stored twice. How many records a computed case gives depends on the
runner: `_multicase.run_cases` reports one, the throughput optimizer one for each line of a
summary that may have none (`RowsPerCase`, `CaseOutcomes`). A case that is
skipped as done is fetched each time it occurs (`AllRecords`), so copies of copies multiply.

`JobService` has a program counter for each submission and for each worker:

| `request[j]` | where `create_job` is | steps |
|---|---|---|
| `new`, `inflight` | the two looks for an equal job | `FindSucceeded`, `FindInFlight` |
| `count`, `add` | `JobManager.submit`, in a thread of its own | `CheckLimit`, `Add`, `AddConflicts` |
| `schedule`, `dispatch` | `_schedule`, under the lock and behind it | `Schedule`, `Dispatch` |
| `conflict`, `fallback` | after an `IntegrityError` | `ResolveConflict`, `ResolveByCache` |

| pc of a worker | where the thread is | steps |
|---|---|---|
| `idle` | between two calls of `_drain_one` | `DrainOne` |
| `lookup`, `start` | the look for an equal succeeded job; the cases to skip and the runner | `LookUp`, `Start` |
| `simulate`, `collect`, `judge` | the subprocess; its results and the first look at the cancel flag; the verdict and the second | `Simulate`, `SimulateFails`, `Collect`, `Judge` |
| `running`, `progress`, `clone`, `reuse`, `records`, `logs`, `succeed`, `cancel`, `fail`, `unexpected` | a call of `_w` | `Enqueue`, `GiveUp` |
| `saturated`, `escaped` | the two writes without a skip flag | `Enqueue`, `GiveUp` |
| `end` | the `finally` of `_drain_one` | `EndJob` |

A write is three steps: queued (`Enqueue`), taken by the writer thread
(`TakeWrite`), executed (`Commit`) or failed (`WriteRaises`). `GiveUp` is the
second time-out of a wait: a guarded write that has not begun leaves the
queue, since it will do nothing; one that has begun goes on with nobody
waiting. `phase` follows the shutdown: `stopping` (no new jobs), `joining` (the pool is
closed, its threads are awaited for 30 seconds), `rejecting` (the write queue takes
nothing), `cancelled` (what was queued is cancelled), `down`. A crash may
happen in every phase.

Definitions that a comment introduces with "A slip:" are wrong variants of the
definition that follows. No module uses them; each shows that a property
notices that mistake.

## 4. What the runs check

| Run | Instance | What it shows |
|---|---|---|
| `KVCacheManager` | 3 requests, 4 blocks of 2 slots, calls of up to 5 tokens | typing, nothing lost, nothing shared, only tails have room, refusals are exact, the manager implements `KVPool` |
| `BatchScheduler` | 1 engine, 4 requests (3/3, 2/4, 3/2, 2/1 tokens), 4 blocks of 2, budget 4, windows of 3 tokens of which 2 are kept on average | bookkeeping, slots without the rejected tokens, whole windows within the budget, progress of every pass, order, exact output, pools used as `KVPool` allows, every request finishes |
| `PdServing` | two prefill and two decode engines of 10 and 7 blocks, a gate of 2, transfers that take time or not, four loads, of which one has a request that fits no pool, one a request that fits no decode pool and one a request of a single output token | gate and hand-over stay right; refusals, from within a nested hand-over too; the simulation ends |
| `PdLivelock` | both pools 5 blocks, requests of 4/5 tokens, gate of 2 | a violation: a pass that schedules nothing, for ever |
| `PredictStep` | `BatchScheduler` with requests of 4/4 tokens, budget 3 | a violation: a last step that `predict_next_batch` refuses |
| `SharedWorkloads` | a prefill and a decode pool of one worker each, 2 models, 3 workloads of sizes 1, 2 and 5, a budget of 2 entries and 3 bytes, two rounds | the accounts of the cache, its evictions and leases under contention; one pool dies while the other goes on, a lease is taken from a slow owner, later rounds ask for what was evicted; the search ends |
| `TemplateEvicted` | the same | a violation: a template that was there is evicted before the runner reads it |
| `AsyncTasks` | 2 workers, 2 batches, any number of steps of the simulation | answers are behind their events, each predicted batch is in one place, nobody works before all are initialised, initialisation, waits and shutdown end whatever the workers do, batches are answered if the workers go on |
| `FalseDeath` | the same | a violation: a batch whose answer is posted is reported as lost with its workers |
| `JobService` | 2 workers, 2 submissions that are equal or of which one has the case of the other twice, two records per result, an in-flight limit of 1, one stop or crash | no work twice, complete results that are written once, statuses that implement `JobLifecycle` |
| `JobsEnd` | 1 worker, 2 equal submissions, results with one record or none, two stops or crashes | every job ends; a running job that is asked to stop does not succeed |
| `FailedCaseReused` | 1 worker, a job of two cases and one of the second of them | a violation: a failed case is skipped as done |

The five violations are behaviours of the code, described in
`PROJECT.json` under `findings`. `PdServing` has pools large enough for what the
gate lets in: with smaller ones `PdLivelock` keeps the simulation from ending. `MCServing` assumes, and
TLC evaluates, that these pools are among those the theorems of section 5 are
about (`AmplePools`).

Bounds. Each is the smallest value at which the case it is there for happens.
Three requests: one that runs, one that is preempted by it and one that waits
behind both; two would never show an overtaking. A fourth ends with its prompt, in its
prefill step; `PredictStep` does without it. Blocks of two slots: a
last block can be full, half full or missing. Calls of up to 5 tokens fill a
tail and pop two more blocks. Pools of 4 blocks hold any single request and
not all of them. A budget of 4 (3 in `PredictStep`) cuts prompts
into chunks and blocks windows. Requests have different lengths where ties would
hide an order, and one length in the violations, as `FixedLengthLoadGen` makes
them. The cache's limits are so tight that it is full after two
entries, one entry is larger than the whole budget, and either limit evicts:
two templates use up the entries, two workloads the bytes. Two pools are
needed: a killed worker takes its own pool with it, so only another pool can
wait for a capture that died. Two workers are the fewest `ModelRunner` accepts; two batches let one
be waited for while the other is computed, fails or is lost. For the job service two submissions are enough to race for a hash, to share a
case and to wait for each other; the limit of 1 is reached by the first, and
overrun by two at the same time; two records per
result tell a result that lost some from a complete one; `MaxStops` bounds stops and crashes, two of
them letting a job started after one restart be hit by the next. The workers of
`JobService` are symmetric: no property there is a liveness property. There is
no state constraint: the modules stop on their own because requests have
finitely many tokens, and a batch or a job is queued once.

The deployment without decode instances is the same module with
`DecodeInstances` empty; no run has it, since an engine by itself is
`BatchScheduler`.

Deadlock is checked in every run; a finished simulation stutters explicitly (`Over`,
`Ended`).

Fairness. `WF` on the steps of each engine, each channel and the client:
a computation, a transfer and a polling interval take finite simulated
time, and `stime` runs the event that is due. No strong fairness is used.
The steps of one engine are one action, so fairness never chooses between
them: a scheduler that loops without yielding satisfies it, which is how
`PassMakesProgress` and `EveryRequestFinishes` come apart from it.

For the predictions: `WF` on the main process, on its thread and on the passing
of a deadline, and none on the workers: `EveryCallEnds` holds whatever they
do. `TasksAreServed` makes their fairness its premise.

For the cache: `WF` on what each worker does of itself (computations end, and a
waiter wakes up every half second), on the ageing of each lease (time passes) and on the
next round. A kill or a failure is never promised.

For the job service: `WF` on each begun request, on what each worker does of
itself, on the writer and on the phases of a shutdown and the restart that follows.
A simulation is taken to end, as a subprocess does or is killed. `EveryJobEnds`
excepts a job whose very last write raised (`abandoned`): the code gives up
there, and only a restart would end it. Time-outs, failures, stops and
crashes are never promised.

## 5. What is proved

`KVBlocks_proofs` has lemmas about rounding up to blocks, from the one
assumption that a block has a slot. `KVCacheManager_proofs` proves, for any set
of requests, any number of blocks and any block size:

- `TypeCorrect`: `Spec => []TypeOK`. The bound of `free_slots` is the point:
  no step may take more slots from a block than it has.
- `NothingLost`: `Spec => []NoBlockLost`.
- `NeverShared`: `Spec => []NoBlockShared`.
- `NoHoles`: `Spec => []OnlyTailHasRoom`.
- `ManagerIsAPool`: `Spec => ImplementsPool`, the refinement of `KVPool`.
- `RefusalIsJustified`: `Spec => RefusedOnlyWhenFull`.

Each is proved by induction over the steps. `NoBlockLost` is inductive
together with the type. `NoBlockShared` is too; the proof describes a step by
which positions it moves (`PopMoves`, `FreeMoves`): `PopBlock` moves the last
position of the stack to the end of one list, `Free` moves one list onto the
stack, and a move keeps ids apart that were apart (`PopEffect`, `FreeEffect`,
`SharedStep`).

`OnlyTailHasRoom` needs two more facts, together `RoomInv`: no request holds an empty
block (`HeldHasTokens`), and the call under way pops what its remaining tokens
take, from a stack that has it, and only once the tail is full (`CallFits`).
From `RoomInv` follow the slots a request holds (`PromisedSlots`, which count
those that the loop is still to fill), so that `AllocateSlots` maps to the
pool's allocation, `Free` to its release, and `PopBlock` and a refusal to steps
that leave the pool alone. That a refusal is exact is the same count read the
other way: `NewBlocksBehindTail` says what a tail with room saves.

`Collections_proofs` is about data, where induction would be the natural
argument; its rule takes an operator, which the provers cannot instantiate. A
sum over a finite set is dealt with by a smallest set for which the claim fails (`MinimalSubset`,
`SumUnfold`), a first position with some property likewise (`LeastIndex`), and so is the greatest of some indices (`MaxOf`).

`BatchScheduler_proofs` proves, for any engines, requests, pools and budgets, under
any interleaving of the engines:

- `SchedTypes`, `OnePlace`, `Slots`, `Pool`, `Budget`, `NoError`, `Exact`: `[]` of `SchedTypeOK`,
  `OnePlacePerRequest`, `SlotsMatchSequence`, `PoolAccounts`,
  `BudgetRespected`, `NoSchedulerError`, `ExactOutput`.
- `Progress`: `SchedSpec => []PassMakesProgress`.
- `Order`: `SchedSpec => NoOvertaking`.
- `Pools`: `SchedSpec => UsesPools`; and `PoolOfEngine`, for each engine `e`:
  `SchedSpec => EnginePool(e)!PoolSpec`.
- `NearlyPredictable`: where and by how much `PredictableBatch` can fail
  (`PredictableWithinWindow`): only in a decode step, and by no more than the tokens of one
  decode window.

None of the first seven is inductive by itself; `SchedInv` is. Per engine it says
that the queues and the dict hold the same requests, each once, with the batch
among the running ones (`Seated`), that each request has the record and the slots that belong to
where it sits (`Healthy`: queued, running, scheduled, in a channel), and that pool and budget
add up (`Accounted`); between engines, that no request is on two (`Apart`).
Every step of a request is one lemma about its record (`RecordScheduled`,
`RecordPreempted`, ...), and one about the engine (`ScheduleRunningKeeps`,
...); `StepKeeps` and `OtherEngines` put them together. `SchedInv` is kept by the steps that
hand requests over, too, so `Serving_proofs` starts from it. Progress needs `PassInv`: a pass whose batch is still
empty has met nothing that could run. It is claimed for requests that stay on their engine
(`Colocated`): with hand-over it is false, as `PdLivelock` shows. The order is proved
about the line of each engine, running before waiting: whatever a
step takes out of it or appends, the rest keeps its order (`OrderKept`).

For the pools, a step either leaves the pool of an engine alone (`PoolUntouched`), or
allocates to one request (`PoolGives`), or takes back all of one (`PoolTakesBack`).
That an allocation asks for at least one token and no more than the pool has slots
(`AsksWithinPool`) needs `SchedInv`: the chunk and the window at hand are within the peak
that `add` has compared with the pool. What is proved of the allocator thereby
holds for its calls from the schedulers.

`Serving_proofs` proves, for any instances, loads and gate:

- `Types`, `Gate`, `Separated`: `[]` of `TypeOK`, `GateIsTight`, `StagesSeparated`.
- `PrefillIsPredictable`: no batch of a prefill engine has a sequence longer than a
  prompt.
- `EnginesInService`: the invariants of the schedulers, `Progress` excepted, hold under the
  serving layer as well, where requests come through the gate, are handed over and
  refused; so does `UsesPools` (`PoolsInService`).
- `FlowingEnginesProgress`: prefill engines, engines that keep their requests, and
  decode engines with ample pools schedule something in every pass over a non-empty
  engine. Hence `ProgressInService`: `Spec => []PassMakesProgress`, if a disaggregated
  deployment has ample pools.
- `NoRecomputation`: with ample pools no request is ever preempted.
- `Predictable`: `Spec => []PredictableBatch`, with ample pools and decode steps of
  one token.

`ServInv` adds to `SchedInv` the client's side (`Client`: new requests are
nobody's, active ones are those in service) and what each stage is like.
That a prefill engine never preempts is not a local fact: it
holds since a pass there starts with at most one running request, the one whose
prompt used up the last budget (`OnPrefill`), so there is nobody to preempt. `OnDecode` says that
a prompt computed again on a decode engine has output behind it.

Pools are ample (`AmplePools`) if every engine that decodes could hold at once the peaks of as many
requests as the gate lets in, whichever of those that `add` accepts they are. It is a
hypothesis of three theorems, about the deployment, not about the code; with smaller
pools the code does what `PdLivelock` and `PredictStep` show, so it cannot be
dropped, and `PdServing` is an instance that meets it. Its use is one lemma
(`AmpleFits`): the gate bounds the requests on an engine (`Client`), a request never
holds more than its peak, so the free blocks suffice for whatever it asks. From it follow
progress, where `Passes` carries over the claim of `PassInv` engine by engine, and needs besides
that one scheduler at most is between two yields (`Exclusive`), since the pass of another
engine must not be disturbed by a hand-over; and that `Preempt` is never enabled, so that
sequences are as long as the tokens generated so far make them (`StraightOn`). The last step
of such a request then has one token less than prompt and output; a window of several tokens would
reach beyond the end, which is why `Predictable` asks for windows of one.

What is assumed of the constants: requests have at least one input and one output token,
a decode window keeps between one and all of its tokens on average, the budget
holds a window (`RequestAssumption`, `SchedulerAssumption`);
requests and engines are finitely many; instances have engines
(`dp_size` of each), prefill and decode instances have engines of their own, since
each `Instance` creates its own, the gate lets one request in, and a load
names a request once (`ServingAssumption`).

`WorkloadReuse_proofs` proves, for any workers, pools, tasks, sizes and limits:

- `NoLeaseLeaks`: `Spec => []LeaseIsHeld`.
- `LeasesEndRightly`: `Spec => LeaseEndsByOwnerOrAge`.
- `AccountsAgree`: `Spec => []CacheAccounts`.
- `EvictsOldest`: `Spec => EvictionIsMinimal`.
- `CacheTypes`: `Spec => []TypeOK`.

For the leases, the invariant `Inv` adds to `LeaseIsHeld` the types and `HasKey` (a worker at
an inference has a workload), for the lease of a capture is that of the workload at
hand. Two facts carry the steps: a worker that does not capture holds no lease
(`EmptyHanded`) and one that does holds at most that one (`OneLease`).
`InvAfterStepOf` reduces the invariant after a step to what the step does to the
worker, its leases and those of the others. What is evicted plays no part there: storing an
entry adds no other (`StoreAddsOne`).

For the accounts, a store is described once (`StoreEffect`): the entry joins the
end of the order, and the least number of entries leaves the front that
makes the rest fit. That such a number exists has to be shown (`SurplusIs`), and that it
spares the new entry: one that does not fit by itself is not stored. That it is the least
is what `EvictionIsMinimal` says of the youngest entry that goes: were it to stay, a limit
would be exceeded. A
step of the search stores at most one entry, and none that is stored already (`EntryStep`); for a published
workload that needs the lease of its worker, so the accounts rest on `Inv`.
`CacheAssumption` and `ReuseAssumption` are all that is assumed: sizes and limits are
numbers, a limit of entries is at least one, and there is a round.

`AsyncTasks_proofs` proves, for any number of workers and batches:

- `EventsAreAnswered`: `Spec => []AnswerBehindEvent`.
- `GroupIsComplete`: `Spec => []NoHalfInitializedGroup`.
- `TasksAreTyped`: `Spec => []TypeOK`.
- `TasksAreInOnePlace`: `Spec => []TaskInOnePlace`.

`AnswerInv` follows an answer from the worker to the event: a worker about to
report has recorded (`ReportsRecorded`), a message that is no failure has its
result in the cache (`MessagesAnswered`), and the thread has recorded the reason
before it sets the event (`ThreadAnswers`). Each step hands the fact on to the
next place. `GroupInv` says in addition why the main process may be at its end
without a complete group: only because the initialisation failed. `RestInv` is
about who holds nothing: workers between two batches and the thread
between two messages. `PlaceInv` says of each batch that it
is recorded just if it is at one of the five places, and at one place once; `PlacesCounted` turns that into
the count that the run checks.

`JobService_proofs` proves, for any jobs, parameters, workers, and any number of
stops and crashes:

- `WorkIsDoneOnce`: `Spec => []NoDuplicateWork`.
- `LifecycleIsKept`: `Spec => ImplementsLifecycle`, the refinement of
  `JobLifecycle`: `Commit` maps to a transition or to `WriteTrouble`, `Add` to
  `Create`, `Boot` to `Sweep`, and every other step leaves the statuses alone.
- `ServiceIsTyped`: `Spec => []TypeOK`.
- `ResultsAreComplete`: `Spec => []SucceededIsComplete`.
- `RecordsArriveOnce`: `Spec => RecordsWrittenOnce`.

None is inductive: whether a transition is allowed depends on a write queued
long before, by a worker that may have given up on it since. `JobInv` says which
statuses a job may have while a worker, or a write, is at a stage (`Expected`),
and, which is the point of it, that a write nobody waits for either is a report of
progress or belongs to a job whose worker is past everything but last
writes (`ItemsFit`, `Attended`); that a job has one worker (`OneHolder`), that one
which is scheduled or queued has none yet (`QueueFits`, `RequestsFit`), and that
one job in flight has its parameters (`OneInFlight`). The proof has a lemma per
step; `ItemDone` is common to a write that is done and one that raises,
`WaitEnds` to the three ways a wait ends early, `WorkerMoves` to the steps of
`run_job` that write nothing.

`TypeInv` has the types, and two facts behind them: jobs that have succeeded are in the
list of completed ones (`StoreTyped`), so that the most recent of some is one of
them, and the calls of `_drain_one`, made or still to come from a request between
the two halves of `_schedule`, are no more than the queued jobs (`QueueCovers`).

`RecordInv` is what completeness rests on. A job has no records before its worker
has written them (`Unrecorded`), and each stage of a worker, and each write it has
queued, takes something for granted of the tables (`CallReady`): a skipped
case has records in a job that has ended, a write of records has those of each
case (`Collected`), a copy has a complete source (`Copies`), a worker behind its
write has all (`HasAll`). The tables only grow under these claims (`StoreGrows`,
`CallStays`): a job that has ended keeps its records and a failed one stays failed,
which is why the clause about a source that has failed after it had succeeded cannot be
dropped and is enough. Records change only while the job is running; that no
second writer adds to a job whose worker counts on them is `JobInv` again
(`RecordsCommit`): whoever else holds the job is past all but last writes.

That they are written once needs one more fact: a write of records that is being
executed is for a job without records even if nobody waits for it any more
(`UnderWay`), because only a write that somebody waits for, hence one of a worker
that has not written yet, is taken from the queue.

What is assumed: None is neither a job nor a worker, the limit is at least one
(`ServiceAssumption`), and parameters expand to at least one case (`StoreAssumption`). Nothing is
assumed of the number of records a result has: with none allowed, `Accounts` asks for less.

Only model-checked: the liveness properties
(`EveryRequestFinishes`, `SimulationEnds`, `SearchEnds`, `EveryCallEnds`, `TasksAreServed`,
`EveryJobEnds`, `CancelTakesEffect`): liveness under fairness is out of the prover's reach.
Two invariants are proved under hypotheses the code does not guarantee, because
they are false without them: `PassMakesProgress` (for requests that stay on
their engine, or with ample pools) and `PredictableBatch` (with ample pools and windows of one token;
`NearlyPredictable` bounds what can go wrong otherwise).

## 6. Divergences that no run carries

Met while translating the code, and in the models as they are:

- A request preempted during a chunked prefill gets its first-token time at the
  end of the recomputation, which produces no token (`engine.py:362`,
  `request.py:119`). Time stamps are not modelled.
- The in-flight limit can be overrun: `CheckLimit` and `Add` are two steps. The
  comments of `job_manager.py:157` speak of a narrower window, not of none.
- `create_job` answers 409 where its comment says "Should not happen"
  (`jobs.py:361`): the equal job that was in flight has failed between the
  refused insertion and the look for it (`ResolveByCache`, `rejected`).
- `enums.py:78` gives a terminal status no way out, yet a job that has succeeded
  becomes failed when the write that recorded it took too long
  (`WriteTrouble`). A job that copied cases from it meanwhile may lack them,
  the exception `SucceededIsComplete` makes.
- A cancellation that comes before the job runs is ignored when an equal job has
  succeeded in the meantime (`LookUp` does not look at the flag), and one that comes
  after the last look is accepted and ignored; `CancelTakesEffect` is about the time
  between.
- A job added while the server shuts down may meet a pool that is closed
  already: the caller gets an error, the row is `pending` until the next start
  (`Dispatch`, `error`).

## 7. What is not modelled

The host-to-device channel: when a transfer to the host ends matters for
latencies only. Of the job service, `submit_many` and `write_async`, which no router
calls, reads that raise, deletion and feedback of jobs, trace files, case logs and
the ranking of records are left out. Of the model runner, the numeric estimates and
the interpolation are left out. Left out for good: `tensor_cast`, whose
content is floating-point arithmetic on shapes; `tools` and `cli`, which
convert and parse; `optix` and `contrib`, which drive external programs by
a numeric search; the frontend. The data-parallel synchroniser between engines
of an instance is left out; the latencies of batches and transfers are
replaced by every order in which they can end. Of the workload cache, the
counters of its summary, `get_workload` and `set_workload` (helpers no runner
calls) and the runs with a sampler, which go past the cache, are left out.
