------------------------------ MODULE AsyncTasks ------------------------------
(***************************************************************************)
(* Predictions computed ahead of time: the main process of a simulation    *)
(* queues the batches it expects next, worker processes compute them, and   *)
(* a thread of the main process turns the completion messages of the        *)
(* workers into events on which the main process waits.                     *)
(* (serving_cast/model_runner.py: AsyncTaskManager, CompletionEventManager, *)
(* ModelRunnerMetricCacheManager, _run_async_task_worker, process_batch)    *)
(*                                                                         *)
(* A task is the hash of its batch. The queues and the cache of results     *)
(* live in a manager process, so each access to one of them is one step.    *)
(***************************************************************************)
EXTENDS Naturals, FiniteSets, Sequences

CONSTANTS Tasks,    \* the hashes of the batches
          Workers,  \* the worker processes
          NoTask    \* no batch at hand

ASSUME AsyncAssumption == NoTask \notin Tasks

VARIABLES
    main,         \* the main process: where it is, for which task, why it failed
    stop_event,   \* the workers are told to leave their loops
    barrier,      \* who has reached the barrier of the initialisation
    task_record,  \* the tasks that have been queued, each with its event
    task_queue,   \* the tasks no worker has taken
    cache,        \* the tasks whose result is recorded
    completion,   \* messages of the workers: a task, and whether it failed
    errors,       \* the tasks whose failure the thread has recorded
    events,       \* the tasks whose event is set
    thread,       \* the thread that reads the completion messages
    worker        \* each worker: where it is, with which task

init_vars == <<stop_event, barrier>>
answers == <<cache, completion>>
thread_vars == <<errors, events, thread>>
vars == <<main, stop_event, barrier, task_record, task_queue, cache, completion,
          errors, events, thread, worker>>

MainPoints == {"start", "ready", "wait", "late", "check", "checklate", "woken",
               "add", "join", "drain", "over", "raised"}
WorkerPoints == {"init", "barrier", "loop", "run", "record", "report", "gone"}

Message(t, failed) == [task |-> t, failed |-> failed]
MainAt(pc, t) == [main EXCEPT !.pc = pc, !.task = t]
Raised(why) == [main EXCEPT !.pc = "raised", !.why = why]
WorkerAt(w, pc, t) == [worker EXCEPT ![w] = [pc |-> pc, task |-> t]]
Alive(w) == worker[w].pc # "gone"
AllDead == \A w \in Workers : ~Alive(w)

-----------------------------------------------------------------------------
(* The initialisation                                                       *)

\* Everybody is at the barrier; a party that died there still counts.
\* A slip: one party is enough.
PassedByOne == barrier.arrived # {} /\ ~barrier.broken
Passed == barrier.arrived = Workers /\ ~barrier.broken

InitWorker(w) ==
    /\ worker[w].pc = "init"
    /\ worker' = WorkerAt(w, "barrier", NoTask)
    /\ barrier' = [barrier EXCEPT !.arrived = @ \cup {w}]
    /\ UNCHANGED <<main, stop_event, task_record, task_queue, answers, thread_vars>>

InitFails(w) ==
    /\ worker[w].pc = "init"
    /\ worker' = WorkerAt(w, "gone", NoTask)
    /\ stop_event' = TRUE
    /\ barrier' = [barrier EXCEPT !.broken = TRUE]
    /\ UNCHANGED <<main, task_record, task_queue, answers, thread_vars>>

LeaveBarrier(w) ==
    /\ worker[w].pc = "barrier"
    /\ \/ Passed /\ worker' = WorkerAt(w, "loop", NoTask)
       \/ barrier.broken /\ worker' = WorkerAt(w, "gone", NoTask)
    /\ UNCHANGED <<main, init_vars, task_record, task_queue, answers, thread_vars>>

Initialized ==
    /\ main.pc = "start"
    /\ Passed
    /\ main' = MainAt("ready", NoTask)
    /\ UNCHANGED <<init_vars, task_record, task_queue, answers, thread_vars, worker>>

\* The barrier may be broken by a worker, or stay incomplete for its timeout.
InitFailed ==
    /\ main.pc = "start"
    /\ ~Passed
    /\ main' = [main EXCEPT !.pc = "join", !.why = "init"]
    /\ stop_event' = TRUE
    /\ barrier' = [barrier EXCEPT !.broken = TRUE]
    /\ UNCHANGED <<task_record, task_queue, answers, thread_vars, worker>>

-----------------------------------------------------------------------------
(* The main process                                                         *)

\* A slip: a batch is queued whenever it is predicted.
NotRecordedYet(t) == TRUE
NotRecorded(t) == t \notin task_record

AddTask(t) ==
    /\ main.pc = "add"
    /\ NotRecorded(t)
    /\ task_record' = task_record \cup {t}
    /\ task_queue' = Append(task_queue, t)
    /\ UNCHANGED <<main, init_vars, answers, thread_vars, worker>>

EndBatch ==
    /\ main.pc = "add"
    /\ main' = MainAt("ready", NoTask)
    /\ UNCHANGED <<init_vars, task_record, task_queue, answers, thread_vars, worker>>

\* A batch nobody predicted is computed at once.
FindResult(t) ==
    /\ main.pc = "ready"
    /\ main' = IF t \in task_record THEN MainAt("wait", t) ELSE MainAt("add", NoTask)
    /\ UNCHANGED <<init_vars, task_record, task_queue, answers, thread_vars, worker>>

\* A batch that cannot be predicted, or not be computed at once, ends the program.
BatchRaises ==
    /\ main.pc = "ready"
    /\ main' = Raised("batch")
    /\ UNCHANGED <<init_vars, task_record, task_queue, answers, thread_vars, worker>>

Waits == main.pc \in {"wait", "late"}
Checks == main.pc \in {"check", "checklate"}

\* A poll of the event times out; the look at the workers comes after it.
Poll ==
    /\ Waits
    /\ main.task \notin events
    /\ main' = [main EXCEPT !.pc = IF @ = "wait" THEN "check" ELSE "checklate"]
    /\ UNCHANGED <<init_vars, task_record, task_queue, answers, thread_vars, worker>>

\* The deadline of the wait passes.
DeadlinePasses ==
    /\ main.pc \in {"wait", "check"}
    /\ main' = [main EXCEPT !.pc = IF @ = "wait" THEN "late" ELSE "checklate"]
    /\ UNCHANGED <<init_vars, task_record, task_queue, answers, thread_vars, worker>>

\* A slip: the deadline is not looked at.
GivenUpNever == FALSE
GivenUp == main.pc = "checklate"

CheckWorkers ==
    /\ Checks
    /\ main' = IF AllDead THEN Raised("died")
               ELSE IF GivenUp THEN Raised("late")
               ELSE [main EXCEPT !.pc = IF @ = "check" THEN "wait" ELSE "late"]
    /\ UNCHANGED <<init_vars, task_record, task_queue, answers, thread_vars, worker>>

Wake ==
    /\ Waits
    /\ main.task \in events
    /\ main' = [main EXCEPT !.pc = "woken"]
    /\ UNCHANGED <<init_vars, task_record, task_queue, answers, thread_vars, worker>>

TakeResult ==
    /\ main.pc = "woken"
    /\ main' = IF main.task \in errors THEN Raised("worker") ELSE MainAt("add", NoTask)
    /\ UNCHANGED <<init_vars, task_record, task_queue, answers, thread_vars, worker>>

Shutdown ==
    /\ main.pc = "ready"
    /\ main' = MainAt("join", NoTask)
    /\ stop_event' = TRUE
    /\ UNCHANGED <<barrier, task_record, task_queue, answers, thread_vars, worker>>

\* A worker that does not end in time is terminated.
Terminate(w) ==
    /\ main.pc = "join"
    /\ Alive(w)
    /\ worker' = WorkerAt(w, "gone", worker[w].task)
    /\ UNCHANGED <<main, init_vars, task_record, task_queue, answers, thread_vars>>

Joined ==
    /\ main.pc = "join"
    /\ AllDead
    /\ main' = [main EXCEPT !.pc = "drain"]
    /\ UNCHANGED <<init_vars, task_record, task_queue, answers, thread_vars, worker>>

\* The thread has ended, or is not waited for any longer.
Drain ==
    /\ main.pc = "drain"
    /\ main' = [main EXCEPT !.pc = IF main.why = "init" THEN "raised" ELSE "over"]
    /\ completion' = <<>>
    /\ errors' = {}
    /\ events' = {}
    /\ UNCHANGED <<init_vars, task_record, task_queue, cache, thread, worker>>

-----------------------------------------------------------------------------
(* The workers                                                              *)

\* Where a worker goes from a point of its work.
\* A slip: the completion is reported before its result is recorded.
ThenReportFirst(pc) ==
    CASE pc = "run" -> "report" [] pc = "report" -> "record" [] pc = "record" -> "loop"
\* A slip: a result is recorded, its completion not reported.
ThenWithoutReport(pc) == IF pc = "run" THEN "record" ELSE "loop"
Then(pc) ==
    CASE pc = "run" -> "record" [] pc = "record" -> "report" [] pc = "report" -> "loop"

Advance(w) == WorkerAt(w, Then(worker[w].pc),
                       IF Then(worker[w].pc) = "loop" THEN NoTask ELSE worker[w].task)

\* A get that began before the stop event was set may still return a task.
TakeTask(w) ==
    /\ worker[w].pc = "loop"
    /\ task_queue # <<>>
    /\ worker' = WorkerAt(w, "run", Head(task_queue))
    /\ task_queue' = Tail(task_queue)
    /\ UNCHANGED <<main, init_vars, task_record, answers, thread_vars>>

Leave(w) ==
    /\ worker[w].pc = "loop"
    /\ stop_event
    /\ worker' = WorkerAt(w, "gone", NoTask)
    /\ UNCHANGED <<main, init_vars, task_record, task_queue, answers, thread_vars>>

RunInference(w) ==
    /\ worker[w].pc = "run"
    /\ worker' = Advance(w)
    /\ UNCHANGED <<main, init_vars, task_record, task_queue, answers, thread_vars>>

\* The worker posts the reason and ends.
RunFails(w) ==
    /\ worker[w].pc = "run"
    /\ completion' = Append(completion, Message(worker[w].task, TRUE))
    /\ worker' = WorkerAt(w, "gone", NoTask)
    /\ UNCHANGED <<main, init_vars, task_record, task_queue, cache, thread_vars>>

RecordCache(w) ==
    /\ worker[w].pc = "record"
    /\ cache' = cache \cup {worker[w].task}
    /\ worker' = Advance(w)
    /\ UNCHANGED <<main, init_vars, task_record, task_queue, completion, thread_vars>>

SetCompletionEvent(w) ==
    /\ worker[w].pc = "report"
    /\ completion' = Append(completion, Message(worker[w].task, FALSE))
    /\ worker' = Advance(w)
    /\ UNCHANGED <<main, init_vars, task_record, task_queue, cache, thread_vars>>

\* The operating system kills a worker, which keeps its task with it.
Killed(w) ==
    /\ Alive(w)
    /\ worker' = WorkerAt(w, "gone", worker[w].task)
    /\ UNCHANGED <<main, init_vars, task_record, task_queue, answers, thread_vars>>

-----------------------------------------------------------------------------
(* The thread that reads the completion messages                            *)

\* The reason of a failure is recorded before the event is set.
Receive ==
    /\ thread.pc = "get"
    /\ completion # <<>>
    /\ completion' = Tail(completion)
    /\ LET m == Head(completion) IN
         /\ errors' = IF m.failed THEN errors \cup {m.task} ELSE errors
         /\ thread' = [pc |-> "set", task |-> m.task]
    /\ UNCHANGED <<main, init_vars, task_record, task_queue, cache, events, worker>>

SetEvent ==
    /\ thread.pc = "set"
    /\ events' = events \cup {thread.task}
    /\ thread' = [pc |-> "get", task |-> NoTask]
    /\ UNCHANGED <<main, init_vars, task_record, task_queue, answers, errors, worker>>

ThreadEnds ==
    /\ thread.pc = "get"
    /\ main.pc = "drain"
    /\ thread' = [pc |-> "gone", task |-> NoTask]
    /\ UNCHANGED <<main, init_vars, task_record, task_queue, answers, errors, events, worker>>

-----------------------------------------------------------------------------
Init ==
    /\ main = [pc |-> "start", task |-> NoTask, why |-> "none"]
    /\ stop_event = FALSE
    /\ barrier = [arrived |-> {}, broken |-> FALSE]
    /\ task_record = {}
    /\ task_queue = <<>>
    /\ cache = {}
    /\ completion = <<>>
    /\ errors = {}
    /\ events = {}
    /\ thread = [pc |-> "get", task |-> NoTask]
    /\ worker = [w \in Workers |-> [pc |-> "init", task |-> NoTask]]

MainStep ==
    \/ Initialized
    \/ InitFailed
    \/ \E t \in Tasks : AddTask(t) \/ FindResult(t)
    \/ EndBatch
    \/ BatchRaises
    \/ Poll
    \/ CheckWorkers
    \/ Wake
    \/ TakeResult
    \/ Shutdown
    \/ \E w \in Workers : Terminate(w)
    \/ Joined
    \/ Drain

WorkerStep(w) ==
    \/ InitWorker(w)
    \/ InitFails(w)
    \/ LeaveBarrier(w)
    \/ TakeTask(w)
    \/ Leave(w)
    \/ RunInference(w)
    \/ RunFails(w)
    \/ RecordCache(w)
    \/ SetCompletionEvent(w)

ThreadStep ==
    \/ Receive
    \/ SetEvent
    \/ ThreadEnds

\* An exception that leaves the main process ends the program and with it the
\* workers, which are daemons.
Ended == main.pc \in {"over", "raised"}
Exited == Ended /\ UNCHANGED vars

Next ==
    \/ ~Ended /\ MainStep
    \/ ~Ended /\ DeadlinePasses
    \/ ~Ended /\ \E w \in Workers : WorkerStep(w) \/ Killed(w)
    \/ ~Ended /\ ThreadStep
    \/ Exited

\* The main process and the thread go on, and time passes. Nothing is assumed
\* of the workers: a computation may last for ever.
Spec ==
    /\ Init
    /\ [][Next]_vars
    /\ WF_vars(MainStep)
    /\ WF_vars(DeadlinePasses)
    /\ WF_vars(ThreadStep)
-----------------------------------------------------------------------------
(* Properties                                                               *)

\* Typing; a task is in the queue once at most.
TypeOK ==
    /\ main \in [pc : MainPoints, task : Tasks \cup {NoTask},
                 why : {"none", "init", "died", "late", "worker", "batch"}]
    /\ stop_event \in BOOLEAN
    /\ barrier \in [arrived : SUBSET Workers, broken : BOOLEAN]
    /\ task_record \in SUBSET Tasks
    /\ task_queue \in Seq(Tasks)
    /\ \A i, j \in DOMAIN task_queue : task_queue[i] = task_queue[j] => i = j
    /\ cache \in SUBSET Tasks
    /\ completion \in Seq([task : Tasks, failed : BOOLEAN])
    /\ errors \in SUBSET Tasks
    /\ events \in SUBSET Tasks
    /\ thread \in [pc : {"get", "set", "gone"}, task : Tasks \cup {NoTask}]
    /\ worker \in [Workers -> [pc : WorkerPoints, task : Tasks \cup {NoTask}]]

\* Whoever is woken by an event finds the result, or the reason there is none:
\* result and message travel on two channels (model_runner.py 683 and 684), and
\* find_result takes an empty slot of the cache for "never predicted".
AnswerBehindEvent ==
    \A t \in events : t \in cache \cup errors

\* A predicted batch is in one place: queued, with a worker (perhaps one that
\* died with it), announced, or answered. It is neither computed twice nor
\* forgotten between two of these, until shutdown clears everything.
PlacesOf(t) ==
    {<<"queue", i>> : i \in {i \in DOMAIN task_queue : task_queue[i] = t}}
    \cup {<<"worker", w>> : w \in {w \in Workers : worker[w].task = t}}
    \cup {<<"message", i>> : i \in {i \in DOMAIN completion : completion[i].task = t}}
    \cup {<<"thread", u>> : u \in {u \in {thread.task} : u = t}}
    \cup {<<"event", u>> : u \in {u \in events : u = t}}
TaskInOnePlace ==
    main.pc \notin {"over", "raised"} =>
        \A t \in Tasks :
            Cardinality(PlacesOf(t)) = IF t \in task_record THEN 1 ELSE 0

\* No worker enters its loop, and the main process queues nothing, unless every
\* worker has built its model ("instead of running on a half-initialized process
\* group", model_runner.py 650).
NoHalfInitializedGroup ==
    \/ barrier.arrived = Workers
    \/ /\ main.pc \in {"start", "join", "drain", "raised"}
       /\ \A w \in Workers : worker[w].pc \in {"init", "barrier", "gone"}

\* The initialisation, every wait for a result and the shutdown end, even if all
\* workers hang or are killed without a word (_BARRIER_INIT_TIMEOUT_S and
\* _TASK_WAIT_TIMEOUT_S, model_runner.py 47 and 55).
EveryCallEnds ==
    /\ main.pc = "start" ~> main.pc # "start"
    /\ Waits \/ Checks ~> ~(Waits \/ Checks)
    /\ main.pc = "join" ~> Ended

\* If the workers go on, a queued task is answered, unless a worker was lost or
\* the simulation ends.
TasksAreServed ==
    (\A w \in Workers : WF_vars(WorkerStep(w))) =>
        \A t \in Tasks :
            t \in task_record ~>
                \/ t \in events
                \/ \E w \in Workers : ~Alive(w)
                \/ main.pc \in {"join", "drain", "over", "raised"}

\* "all AsyncTaskManager workers died before completing the task"
\* (model_runner.py 546) is said of no task whose completion, or whose failure
\* with its reason, a worker has posted.
NoFalseDeath ==
    main.why = "died" =>
        /\ \A i \in DOMAIN completion : completion[i].task # main.task
        /\ thread.task # main.task
        /\ main.task \notin events
=============================================================================
