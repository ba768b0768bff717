--------------------------- MODULE AsyncTasks_proofs ---------------------------
(***************************************************************************)
(* For any number of workers and any batches: an event is set only when     *)
(* there is an answer behind it (AnswerInv), no worker works in a group     *)
(* that was never complete (GroupInv), the types (RestInv adds what the     *)
(* other two leave out), and a predicted batch is at one stage of its way   *)
(* from the queue to its event, and there once (PlaceInv).                  *)
(***************************************************************************)
EXTENDS AsyncTasks, Collections_proofs

Messages == [task : Tasks, failed : BOOLEAN]
WorkerStates == [pc : WorkerPoints, task : Tasks \cup {NoTask}]

(* What has no failure to report is recorded: a worker about to report, and *)
(* a message on its way. The thread holds what it has recorded or read,     *)
(* until the shutdown, which may not wait for it, clears what it read.      *)
ReportsRecorded ==
    \A w \in Workers : worker[w].pc = "report" => worker[w].task \in cache
MessagesAnswered ==
    \A i \in 1..Len(completion) : ~completion[i].failed => completion[i].task \in cache
ThreadAnswers == ~Ended /\ thread.pc = "set" => thread.task \in cache \cup errors

AnswerInv ==
    /\ completion \in Seq(Messages)
    /\ worker \in [Workers -> WorkerStates]
    /\ task_queue \in Seq(Tasks)
    /\ \A w \in Workers : worker[w].pc \in {"run", "record", "report"} => worker[w].task \in Tasks
    /\ ReportsRecorded
    /\ MessagesAnswered
    /\ ThreadAnswers
    /\ AnswerBehindEvent

(* The group of workers is complete, or the program is still being started  *)
(* or taken down because it never was: only a failed initialisation comes   *)
(* to an end without a complete group.                                      *)
MainStates == [pc : MainPoints, task : Tasks \cup {NoTask},
               why : {"none", "init", "died", "late", "worker", "batch"}]
GroupInv ==
    /\ main \in MainStates
    /\ barrier \in [arrived : SUBSET Workers, broken : BOOLEAN]
    /\ worker \in [Workers -> [pc : WorkerPoints, task : Tasks \cup {NoTask}]]
    /\ \/ barrier.arrived = Workers
       \/ /\ \/ main.pc = "start"
             \/ main.pc \in {"join", "drain", "raised"} /\ main.why = "init"
          /\ \A w \in Workers : worker[w].pc \in {"init", "barrier", "gone"}

LEMMA AnswerInit == Init => AnswerInv
BY DEF Init, AnswerInv, ReportsRecorded, MessagesAnswered, ThreadAnswers, AnswerBehindEvent, Ended,
       Messages, WorkerStates, WorkerPoints

(* Where a worker is and what it holds, after a move of one of them.        *)
LEMMA WorkerMoves ==
  ASSUME AnswerInv, NEW w \in Workers, NEW pc \in WorkerPoints, NEW t \in Tasks \cup {NoTask},
         worker' = WorkerAt(w, pc, t)
  PROVE  /\ worker' \in [Workers -> WorkerStates]
         /\ worker'[w].pc = pc /\ worker'[w].task = t
         /\ \A v \in Workers \ {w} : worker'[v] = worker[v]
BY DEF WorkerAt, AnswerInv, WorkerStates

(* A message that is true of the cache may be posted.                       *)
LEMMA PostMessage ==
  ASSUME AnswerInv, NEW t \in Tasks, NEW failed \in BOOLEAN,
         completion' = Append(completion, Message(t, failed)), cache' = cache,
         failed \/ t \in cache
  PROVE  completion' \in Seq(Messages) /\ MessagesAnswered'
<1>1. Message(t, failed) \in Messages
  BY DEF Message, Messages
<1>2. /\ completion' \in Seq(Messages)
      /\ Len(completion') = Len(completion) + 1
      /\ completion'[Len(completion) + 1] = Message(t, failed)
      /\ \A i \in 1..Len(completion) : completion'[i] = completion[i]
  BY <1>1 DEF AnswerInv
<1>3. Len(completion) \in Nat
  BY DEF AnswerInv
<1> QED BY <1>2, <1>3 DEF MessagesAnswered, AnswerInv, Message

(* The steps of the main process add nothing to be answered.                *)
LEMMA AnswerMain == AnswerInv /\ GroupInv /\ ~Ended /\ (MainStep \/ DeadlinePasses) => AnswerInv'
<1> SUFFICES ASSUME AnswerInv, GroupInv, ~Ended, MainStep \/ DeadlinePasses PROVE AnswerInv'
  OBVIOUS
<1> USE DEF AnswerInv
<1>1. CASE \/ Initialized \/ InitFailed \/ (\E t \in Tasks : FindResult(t)) \/ EndBatch
           \/ BatchRaises \/ Poll \/ CheckWorkers \/ Wake \/ TakeResult \/ Shutdown \/ Joined \/ DeadlinePasses
  <2>1. UNCHANGED <<task_queue, cache, completion, errors, events, thread, worker>>
    BY <1>1 DEF Initialized, InitFailed, FindResult, EndBatch, BatchRaises, Poll, CheckWorkers,
                Wake, TakeResult, Shutdown, Joined, DeadlinePasses, answers, thread_vars
  <2> QED BY <2>1 DEF ReportsRecorded, MessagesAnswered, ThreadAnswers, AnswerBehindEvent
<1>2. ASSUME NEW t \in Tasks, AddTask(t) PROVE AnswerInv'
  <2>1. UNCHANGED <<cache, completion, errors, events, thread, worker>>
    BY <1>2 DEF AddTask, answers, thread_vars
  <2>2. task_queue' \in Seq(Tasks)
    BY <1>2 DEF AddTask
  <2> QED BY <2>1, <2>2 DEF ReportsRecorded, MessagesAnswered, ThreadAnswers, AnswerBehindEvent
<1>3. ASSUME NEW w \in Workers, Terminate(w) PROVE AnswerInv'
  <2>1. UNCHANGED <<task_queue, cache, completion, errors, events, thread>>
    BY <1>3 DEF Terminate, answers, thread_vars
  <2>2. worker' = WorkerAt(w, "gone", worker[w].task)
    BY <1>3 DEF Terminate
  <2>3. "gone" \in WorkerPoints /\ worker[w].task \in Tasks \cup {NoTask}
    BY DEF WorkerPoints, WorkerStates
  <2> QED BY <2>1, <2>2, <2>3, WorkerMoves
          DEF ReportsRecorded, MessagesAnswered, ThreadAnswers, AnswerBehindEvent
<1>4. CASE Drain
  <2>1. UNCHANGED <<task_queue, cache, thread, worker>> /\ completion' = <<>> /\ events' = {}
    BY <1>4 DEF Drain
  <2>2. Ended'
    BY <1>4 DEF Drain, Ended, GroupInv, MainStates
  <2> QED BY <2>1, <2>2 DEF ReportsRecorded, MessagesAnswered, ThreadAnswers, AnswerBehindEvent
<1> QED BY <1>1, <1>2, <1>3, <1>4 DEF MainStep

(* A worker records before it reports.                                      *)
LEMMA AnswerWorker ==
  ASSUME AnswerInv, ~Ended, NEW w \in Workers, WorkerStep(w) \/ Killed(w)
  PROVE  AnswerInv'
<1> USE DEF AnswerInv
<1> DEFINE t == worker[w].task
<1>0. /\ t \in Tasks \cup {NoTask}
      /\ WorkerPoints = {"init", "barrier", "loop", "run", "record", "report", "gone"}
  BY DEF WorkerStates, WorkerPoints
<1>1. CASE \/ InitWorker(w) \/ InitFails(w) \/ LeaveBarrier(w) \/ Leave(w) \/ Killed(w)
  <2>1. UNCHANGED <<task_queue, cache, completion, errors, events, thread>>
    BY <1>1 DEF InitWorker, InitFails, LeaveBarrier, Leave, Killed, answers, thread_vars
  <2>2. \E pc \in {"barrier", "loop", "gone"}, u \in {NoTask, t} : worker' = WorkerAt(w, pc, u)
    BY <1>1 DEF InitWorker, InitFails, LeaveBarrier, Leave, Killed
  <2> QED BY <1>0, <2>1, <2>2, WorkerMoves, SMTT(30)
          DEF ReportsRecorded, MessagesAnswered, ThreadAnswers, AnswerBehindEvent
<1>2. CASE TakeTask(w)
  <2>1. UNCHANGED <<cache, completion, errors, events, thread>>
    BY <1>2 DEF TakeTask, answers, thread_vars
  <2>2. Head(task_queue) \in Tasks /\ task_queue' \in Seq(Tasks)
    BY <1>2 DEF TakeTask
  <2>3. worker' = WorkerAt(w, "run", Head(task_queue))
    BY <1>2 DEF TakeTask
  <2>4. /\ worker' \in [Workers -> WorkerStates]
        /\ worker'[w].pc = "run" /\ worker'[w].task = Head(task_queue)
        /\ \A v \in Workers \ {w} : worker'[v] = worker[v]
    BY <1>0, <2>1, <2>2, <2>3, WorkerMoves
  <2> QED BY <2>1, <2>2, <2>3, <2>4
          DEF ReportsRecorded, MessagesAnswered, ThreadAnswers, AnswerBehindEvent
<1>3. CASE RunInference(w)
  <2>1. UNCHANGED <<task_queue, cache, completion, errors, events, thread>> /\ t \in Tasks
    BY <1>3 DEF RunInference, answers, thread_vars
  <2>2. worker' = WorkerAt(w, "record", t)
    BY <1>3 DEF RunInference, Advance, Then
  <2>4. /\ worker' \in [Workers -> WorkerStates]
        /\ worker'[w].pc = "record" /\ worker'[w].task = t
        /\ \A v \in Workers \ {w} : worker'[v] = worker[v]
    BY <1>0, <2>1, <2>2, WorkerMoves
  <2> QED BY <2>1, <2>2, <2>4
          DEF ReportsRecorded, MessagesAnswered, ThreadAnswers, AnswerBehindEvent
<1>4. CASE RunFails(w)
  <2>1. UNCHANGED <<task_queue, cache, errors, events, thread>> /\ t \in Tasks
    BY <1>4 DEF RunFails, thread_vars
  <2>2. worker' = WorkerAt(w, "gone", NoTask) /\ completion' = Append(completion, Message(t, TRUE))
    BY <1>4 DEF RunFails
  <2>3. completion' \in Seq(Messages) /\ MessagesAnswered'
    BY <2>1, <2>2, PostMessage
  <2>4. /\ worker' \in [Workers -> WorkerStates]
        /\ worker'[w].pc = "gone" /\ worker'[w].task = NoTask
        /\ \A v \in Workers \ {w} : worker'[v] = worker[v]
    BY <1>0, <2>1, <2>2, WorkerMoves
  <2> QED BY <2>1, <2>2, <2>3, <2>4
          DEF ReportsRecorded, ThreadAnswers, AnswerBehindEvent
<1>5. CASE RecordCache(w)
  <2>1. UNCHANGED <<task_queue, completion, errors, events, thread>> /\ t \in Tasks
    BY <1>5 DEF RecordCache, thread_vars
  <2>2. worker' = WorkerAt(w, "report", t) /\ cache' = cache \cup {t}
    BY <1>5 DEF RecordCache, Advance, Then
  <2>4. /\ worker' \in [Workers -> WorkerStates]
        /\ worker'[w].pc = "report" /\ worker'[w].task = t
        /\ \A v \in Workers \ {w} : worker'[v] = worker[v]
    BY <1>0, <2>1, <2>2, WorkerMoves
  <2> QED BY <2>1, <2>2, <2>4
          DEF ReportsRecorded, MessagesAnswered, ThreadAnswers, AnswerBehindEvent
<1>6. CASE SetCompletionEvent(w)
  <2>1. UNCHANGED <<task_queue, cache, errors, events, thread>> /\ t \in Tasks /\ t \in cache
    BY <1>6 DEF SetCompletionEvent, thread_vars, ReportsRecorded
  <2>2. worker' = WorkerAt(w, "loop", NoTask) /\ completion' = Append(completion, Message(t, FALSE))
    BY <1>6 DEF SetCompletionEvent, Advance, Then
  <2>3. completion' \in Seq(Messages) /\ MessagesAnswered'
    BY <2>1, <2>2, PostMessage
  <2>4. /\ worker' \in [Workers -> WorkerStates]
        /\ worker'[w].pc = "loop" /\ worker'[w].task = NoTask
        /\ \A v \in Workers \ {w} : worker'[v] = worker[v]
    BY <1>0, <2>1, <2>2, WorkerMoves
  <2> QED BY <2>1, <2>2, <2>3, <2>4
          DEF ReportsRecorded, ThreadAnswers, AnswerBehindEvent
<1> QED BY <1>1, <1>2, <1>3, <1>4, <1>5, <1>6 DEF WorkerStep

(* The thread records what it reads, then sets the event.                   *)
LEMMA AnswerThread == AnswerInv /\ ~Ended /\ ThreadStep => AnswerInv'
<1> SUFFICES ASSUME AnswerInv, ~Ended, ThreadStep PROVE AnswerInv'
  OBVIOUS
<1> USE DEF AnswerInv
<1>1. CASE Receive
  <2> DEFINE m == Head(completion)
  <2>1. UNCHANGED <<task_queue, cache, events, worker>> /\ completion' = Tail(completion)
    BY <1>1 DEF Receive
  <2>2. completion # <<>>
    BY <1>1 DEF Receive
  <2>3. m = completion[1] /\ 1 \in 1..Len(completion)
    BY <2>2
  <2>4. m.failed \in BOOLEAN /\ (~m.failed => m.task \in cache)
    <3>1. completion[1] \in Messages
      BY <2>3
    <3> QED BY <2>3, <3>1 DEF MessagesAnswered, Messages
  <2>5. errors \subseteq errors' /\ ThreadAnswers'
    BY <1>1, <2>1, <2>4 DEF Receive, ThreadAnswers
  <2>6. completion' \in Seq(Messages) /\ MessagesAnswered'
    <3>1. /\ completion' \in Seq(Messages)
          /\ Len(completion') = Len(completion) - 1
          /\ \A i \in 1..Len(completion') : completion'[i] = completion[i + 1]
      BY <2>1, <2>2
    <3> QED BY <2>1, <3>1 DEF MessagesAnswered
  <2> QED BY <2>1, <2>5, <2>6 DEF ReportsRecorded, AnswerBehindEvent
<1>2. CASE SetEvent \/ ThreadEnds
  <2>1. UNCHANGED <<task_queue, cache, completion, errors, worker>>
    BY <1>2 DEF SetEvent, ThreadEnds, answers
  <2>2. thread'.pc # "set" /\ events' \subseteq cache \cup errors
    BY <1>2 DEF SetEvent, ThreadEnds, ThreadAnswers, AnswerBehindEvent
  <2> QED BY <2>1, <2>2 DEF ReportsRecorded, MessagesAnswered, ThreadAnswers, AnswerBehindEvent
<1> QED BY <1>1, <1>2 DEF ThreadStep

LEMMA AnswerNext == AnswerInv /\ GroupInv /\ [Next]_vars => AnswerInv'
<1>1. AnswerInv /\ UNCHANGED vars => AnswerInv'
  BY DEF AnswerInv, ReportsRecorded, MessagesAnswered, ThreadAnswers, AnswerBehindEvent, Ended, vars
<1> QED BY <1>1, AnswerMain, AnswerWorker, AnswerThread DEF Next, Exited

-----------------------------------------------------------------------------
(* The group.                                                               *)

(* A worker alone moves; until the group is complete it does not go past    *)
(* the barrier.                                                             *)
LEMMA GroupWorker ==
  ASSUME GroupInv, task_queue \in Seq(Tasks), NEW w \in Workers, WorkerStep(w) \/ Killed(w)
  PROVE  GroupInv'
<1> DEFINE Early == {"init", "barrier", "gone"}
<1>1. main' = main
  BY DEF WorkerStep, Killed, InitWorker, InitFails, LeaveBarrier, TakeTask, Leave,
         RunInference, RunFails, RecordCache, SetCompletionEvent
<1>2. /\ barrier' \in [arrived : SUBSET Workers, broken : BOOLEAN]
      /\ barrier.arrived \subseteq barrier'.arrived
  <2>1. CASE InitWorker(w)
    BY <2>1 DEF GroupInv, InitWorker
  <2>2. CASE InitFails(w)
    BY <2>2 DEF GroupInv, InitFails
  <2>3. CASE barrier' = barrier
    BY <2>3 DEF GroupInv
  <2> QED BY <2>1, <2>2, <2>3 DEF WorkerStep, Killed, LeaveBarrier, TakeTask, Leave, RunInference,
                                  RunFails, RecordCache, SetCompletionEvent, init_vars
<1>3. \E pc \in WorkerPoints, t \in Tasks \cup {NoTask} :
         /\ worker' = WorkerAt(w, pc, t)
         /\ worker[w].pc \in Early => pc \in Early \/ barrier.arrived = Workers
  <2>1. worker[w].task \in Tasks \cup {NoTask}
    BY DEF GroupInv
  <2>2. CASE TakeTask(w)
    <3>1. Head(task_queue) \in Tasks
      BY <2>2 DEF TakeTask
    <3> QED BY <2>2, <3>1 DEF TakeTask, WorkerPoints
  <2>3. CASE RunInference(w) \/ RecordCache(w) \/ SetCompletionEvent(w)
    BY <2>1, <2>3 DEF RunInference, RecordCache, SetCompletionEvent, Advance, Then, WorkerPoints
  <2>4. CASE InitWorker(w) \/ InitFails(w) \/ LeaveBarrier(w) \/ Leave(w) \/ RunFails(w) \/ Killed(w)
    BY <2>1, <2>4 DEF InitWorker, InitFails, LeaveBarrier, Passed, Leave, RunFails, Killed,
                      WorkerPoints
  <2> QED BY <2>2, <2>3, <2>4 DEF WorkerStep
<1>4. /\ worker' \in [Workers -> [pc : WorkerPoints, task : Tasks \cup {NoTask}]]
      /\ \A v \in Workers \ {w} : worker'[v] = worker[v]
      /\ worker[w].pc \in Early => worker'[w].pc \in Early \/ barrier.arrived = Workers
  <2>1. PICK pc \in WorkerPoints, t \in Tasks \cup {NoTask} :
           /\ worker' = WorkerAt(w, pc, t)
           /\ worker[w].pc \in Early => pc \in Early \/ barrier.arrived = Workers
    BY <1>3
  <2>2. worker' = [worker EXCEPT ![w] = [pc |-> pc, task |-> t]]
    BY <2>1 DEF WorkerAt
  <2>3. worker'[w] = [pc |-> pc, task |-> t] /\ \A v \in Workers \ {w} : worker'[v] = worker[v]
    BY <2>2 DEF GroupInv
  <2>4. worker' \in [Workers -> [pc : WorkerPoints, task : Tasks \cup {NoTask}]]
    BY <2>2 DEF GroupInv
  <2> QED BY <2>1, <2>3, <2>4
<1> QED BY <1>1, <1>2, <1>4 DEF GroupInv

(* The main process becomes ready behind the barrier only, and without it   *)
(* goes nowhere but to its end.                                             *)
LEMMA GroupMain == GroupInv /\ (MainStep \/ DeadlinePasses) => GroupInv'
<1> SUFFICES ASSUME GroupInv, MainStep \/ DeadlinePasses PROVE GroupInv'
  OBVIOUS
<1> USE DEF GroupInv, MainStates, MainPoints
<1>1. CASE InitFailed
  BY <1>1 DEF InitFailed
<1>2. CASE \/ Initialized \/ (\E t \in Tasks : FindResult(t)) \/ EndBatch \/ BatchRaises
           \/ Poll \/ CheckWorkers \/ Wake \/ TakeResult \/ Shutdown \/ DeadlinePasses
  <2>1. UNCHANGED <<barrier, worker>> /\ barrier.arrived = Workers
    BY <1>2 DEF Initialized, Passed, FindResult, EndBatch, BatchRaises, Poll, Waits,
                CheckWorkers, Checks, Wake, TakeResult, Shutdown, DeadlinePasses, init_vars
  <2>2. main' \in MainStates
    <3>1. CASE Initialized \/ EndBatch \/ Shutdown \/ \E t \in Tasks : FindResult(t)
      BY <3>1 DEF Initialized, EndBatch, Shutdown, FindResult, MainAt
    <3>2. CASE Poll \/ Wake \/ DeadlinePasses
      BY <3>2 DEF Poll, Wake, DeadlinePasses
    <3>3. CASE CheckWorkers \/ BatchRaises
      BY <3>3, ZenonT(40) DEF CheckWorkers, BatchRaises, Raised
    <3>4. CASE TakeResult
      BY <3>4 DEF TakeResult, MainAt, Raised
    <3> QED BY <1>2, <3>1, <3>2, <3>3, <3>4
  <2> QED BY <2>1, <2>2
<1>3. CASE Joined \/ Drain \/ \E t \in Tasks : AddTask(t)
  <2>1. UNCHANGED <<barrier, worker>>
    BY <1>3 DEF Joined, Drain, AddTask, init_vars
  <2>2. main' \in MainStates /\ main'.why = main.why
    BY <1>3 DEF Joined, Drain, AddTask
  <2>3. \/ main'.pc = main.pc
        \/ main.pc = "join" /\ main'.pc = "drain"
        \/ main.pc = "drain" /\ main'.pc = IF main.why = "init" THEN "raised" ELSE "over"
    BY <1>3 DEF Joined, Drain, AddTask
  <2> QED BY <2>1, <2>2, <2>3
<1>4. ASSUME NEW w \in Workers, Terminate(w) PROVE GroupInv'
  BY <1>4 DEF Terminate, WorkerAt, WorkerPoints, init_vars
<1> QED BY <1>1, <1>2, <1>3, <1>4 DEF MainStep

LEMMA GroupNext == AnswerInv /\ GroupInv /\ [Next]_vars => GroupInv'
<1>1. GroupInv /\ (UNCHANGED vars \/ ThreadStep) => GroupInv'
  BY DEF GroupInv, vars, ThreadStep, Receive, SetEvent, ThreadEnds, init_vars
<1>2. AnswerInv => task_queue \in Seq(Tasks)
  BY DEF AnswerInv
<1> QED BY <1>1, <1>2, GroupMain, GroupWorker DEF Next, Exited

LEMMA GroupInit == Init => GroupInv
BY DEF Init, GroupInv, MainStates, MainPoints, WorkerPoints

(* Whoever is woken by an event finds a result, or the reason there is none *)
(* (AnswerBehindEvent): the answer is never behind its announcement.        *)
THEOREM EventsAreAnswered == Spec => []AnswerBehindEvent
<1>1. AnswerInv => AnswerBehindEvent
  BY DEF AnswerInv
<1> QED BY AnswerInit, AnswerNext, GroupInit, GroupNext, <1>1, PTL DEF Spec

(* No worker computes, and nothing is queued, before all workers have built *)
(* their models (NoHalfInitializedGroup).                                   *)
THEOREM GroupIsComplete == Spec => []NoHalfInitializedGroup
<1>1. GroupInv => NoHalfInitializedGroup
  BY DEF GroupInv, NoHalfInitializedGroup
<1> QED BY AnswerInit, AnswerNext, GroupInit, GroupNext, <1>1, PTL DEF Spec

-----------------------------------------------------------------------------
(* The remaining types.  A worker between two tasks, and a thread between   *)
(* two messages, hold no task; what is queued is queued once and recorded.  *)
Resting ==
    /\ \A w \in Workers : worker[w].pc \in {"init", "barrier", "loop"} => worker[w].task = NoTask
    /\ thread.pc # "set" => thread.task = NoTask
    /\ thread.pc = "set" => thread.task \in Tasks

RestInv ==
    /\ stop_event \in BOOLEAN
    /\ task_record \in SUBSET Tasks
    /\ cache \in SUBSET Tasks
    /\ errors \in SUBSET Tasks
    /\ events \in SUBSET Tasks
    /\ thread \in [pc : {"get", "set", "gone"}, task : Tasks \cup {NoTask}]
    /\ Resting
    /\ IsInjective(task_queue)
    /\ ToSet(task_queue) \subseteq task_record

RestVars == <<stop_event, task_record, task_queue, cache, errors, events, thread, worker>>

LEMMA RestInit == Init => RestInv
<1> SUFFICES ASSUME Init PROVE RestInv
  OBVIOUS
<1>1. task_queue = <<>>
  BY DEF Init
<1>2. ToSet(task_queue) = {} /\ IsInjective(task_queue)
  BY <1>1, EmptyQueue
<1>3. Resting
  BY DEF Init, Resting
<1> QED BY <1>2, <1>3 DEF Init, RestInv

(* A worker that moves and keeps the rest.                                  *)
LEMMA RestMoves ==
  ASSUME AnswerInv, RestInv, NEW w \in Workers, NEW pc \in WorkerPoints,
         NEW t \in Tasks \cup {NoTask}, worker' = WorkerAt(w, pc, t),
         pc \in {"init", "barrier", "loop"} => t = NoTask,
         UNCHANGED thread
  PROVE  Resting'
<1>1. /\ worker'[w].pc = pc /\ worker'[w].task = t
      /\ \A v \in Workers \ {w} : worker'[v] = worker[v]
  BY WorkerMoves
<1> QED BY <1>1 DEF RestInv, Resting

LEMMA RestMain == AnswerInv /\ RestInv /\ (MainStep \/ DeadlinePasses) => RestInv'
<1> SUFFICES ASSUME AnswerInv, RestInv, MainStep \/ DeadlinePasses PROVE RestInv'
  OBVIOUS
<1>1. CASE \/ Initialized \/ InitFailed \/ (\E t \in Tasks : FindResult(t)) \/ EndBatch
           \/ BatchRaises \/ Poll \/ CheckWorkers \/ Wake \/ TakeResult \/ Shutdown \/ Joined \/ DeadlinePasses
  <2>1. /\ UNCHANGED <<task_record, task_queue, cache, errors, events, thread, worker>>
        /\ stop_event' \in {stop_event, TRUE}
    BY <1>1 DEF Initialized, InitFailed, FindResult, EndBatch, BatchRaises, Poll, CheckWorkers,
                Wake, TakeResult, Shutdown, Joined, DeadlinePasses, answers, thread_vars, init_vars
  <2> QED BY <2>1 DEF RestInv, Resting
<1>2. ASSUME NEW t \in Tasks, AddTask(t) PROVE RestInv'
  <2>1. /\ UNCHANGED <<stop_event, cache, errors, events, thread, worker>>
        /\ task_record' = task_record \cup {t} /\ task_queue' = Append(task_queue, t)
        /\ t \notin task_record
    BY <1>2 DEF AddTask, NotRecorded, answers, thread_vars, init_vars
  <2>2. task_queue \in Seq(Tasks) /\ t \notin ToSet(task_queue) /\ IsInjective(task_queue)
    BY <2>1 DEF AnswerInv, RestInv
  <2>3. ToSet(task_queue') = ToSet(task_queue) \cup {t} /\ IsInjective(task_queue')
    BY <2>1, <2>2, QueueAppend
  <2> QED BY <2>1, <2>3 DEF RestInv, Resting
<1>3. ASSUME NEW w \in Workers, Terminate(w) PROVE RestInv'
  <2>1. /\ UNCHANGED <<stop_event, task_record, task_queue, cache, errors, events, thread>>
        /\ worker' = WorkerAt(w, "gone", worker[w].task)
    BY <1>3 DEF Terminate, answers, thread_vars, init_vars
  <2>2. worker[w].task \in Tasks \cup {NoTask} /\ "gone" \in WorkerPoints
    BY DEF AnswerInv, WorkerStates, WorkerPoints
  <2>3. Resting'
    BY <2>1, <2>2, RestMoves
  <2> QED BY <2>1, <2>3 DEF RestInv
<1>4. CASE Drain
  BY <1>4 DEF Drain, RestInv, Resting, init_vars
<1> QED BY <1>1, <1>2, <1>3, <1>4 DEF MainStep

LEMMA RestWorker ==
  ASSUME AnswerInv, RestInv, NEW w \in Workers, WorkerStep(w) \/ Killed(w)
  PROVE  RestInv'
<1> DEFINE t == worker[w].task
<1>0. /\ t \in Tasks \cup {NoTask} /\ worker \in [Workers -> WorkerStates]
      /\ worker[w].pc \in {"run", "record", "report"} => t \in Tasks
      /\ WorkerPoints = {"init", "barrier", "loop", "run", "record", "report", "gone"}
  BY DEF AnswerInv, WorkerStates, WorkerPoints
<1>1. CASE TakeTask(w)
  <2>1. /\ UNCHANGED <<stop_event, task_record, cache, errors, events, thread>>
        /\ task_queue # <<>> /\ task_queue' = Tail(task_queue)
        /\ worker' = WorkerAt(w, "run", Head(task_queue))
    BY <1>1 DEF TakeTask, answers, thread_vars, init_vars
  <2>2. task_queue \in Seq(Tasks) /\ IsInjective(task_queue)
    BY DEF AnswerInv, RestInv
  <2>3. /\ Head(task_queue) \in Tasks /\ IsInjective(task_queue')
        /\ ToSet(task_queue') \subseteq ToSet(task_queue)
    BY <2>1, <2>2, QueueTail
  <2>4. Resting'
    BY <1>0, <2>1, <2>3, RestMoves
  <2> QED BY <2>1, <2>3, <2>4 DEF RestInv
<1>2. CASE ~ TakeTask(w)
  <2>1. /\ UNCHANGED <<task_record, task_queue, errors, events, thread>>
        /\ stop_event' \in {stop_event, TRUE}
    BY <1>2 DEF WorkerStep, InitWorker, InitFails, LeaveBarrier, Leave, RunInference, RunFails,
                RecordCache, SetCompletionEvent, Killed, answers, thread_vars, init_vars
  <2>2. cache' \in SUBSET Tasks
    <3>1. cache' = cache \/ (RecordCache(w) /\ cache' = cache \cup {t})
      BY <1>2 DEF WorkerStep, InitWorker, InitFails, LeaveBarrier, Leave, RunInference, RunFails,
                  RecordCache, SetCompletionEvent, Killed, answers
    <3> QED BY <1>0, <3>1 DEF RecordCache, RestInv
  <2>3. \E pc \in WorkerPoints, u \in {NoTask, t} :
           worker' = WorkerAt(w, pc, u) /\ (pc \in {"init", "barrier", "loop"} => u = NoTask)
    <3>1. CASE RunInference(w) \/ RecordCache(w) \/ SetCompletionEvent(w)
      BY <1>0, <3>1 DEF RunInference, RecordCache, SetCompletionEvent, Advance, Then
    <3>2. CASE InitWorker(w) \/ InitFails(w) \/ LeaveBarrier(w) \/ Leave(w) \/ RunFails(w) \/ Killed(w)
      BY <1>0, <3>2 DEF InitWorker, InitFails, LeaveBarrier, Leave, RunFails, Killed
    <3> QED BY <1>2, <3>1, <3>2 DEF WorkerStep
  <2>4. Resting'
    BY <1>0, <2>1, <2>3, RestMoves
  <2> QED BY <2>1, <2>2, <2>4 DEF RestInv
<1> QED BY <1>1, <1>2

LEMMA RestThread == AnswerInv /\ RestInv /\ ThreadStep => RestInv'
<1> SUFFICES ASSUME AnswerInv, RestInv, ThreadStep PROVE RestInv'
  OBVIOUS
<1>1. CASE Receive
  <2> DEFINE m == Head(completion)
  <2>1. m \in Messages
    BY <1>1 DEF Receive, AnswerInv
  <2>2. m.task \in Tasks
    BY <2>1 DEF Messages
  <2>3. /\ UNCHANGED <<stop_event, task_record, task_queue, cache, events, worker>>
        /\ errors' \in {errors, errors \cup {m.task}}
        /\ thread' = [pc |-> "set", task |-> m.task]
    BY <1>1 DEF Receive, init_vars
  <2> HIDE DEF m
  <2> QED BY <2>2, <2>3 DEF RestInv, Resting
<1>2. CASE SetEvent \/ ThreadEnds
  BY <1>2 DEF SetEvent, ThreadEnds, RestInv, Resting, init_vars, answers
<1> QED BY <1>1, <1>2 DEF ThreadStep

LEMMA RestNext == AnswerInv /\ RestInv /\ [Next]_vars => RestInv'
<1>1. RestInv /\ UNCHANGED vars => RestInv'
  BY DEF RestInv, Resting, vars
<1> QED BY <1>1, RestMain, RestWorker, RestThread DEF Next, Exited

LEMMA TypedInvariant == Spec => [](AnswerInv /\ GroupInv /\ RestInv)
BY AnswerInit, AnswerNext, GroupInit, GroupNext, RestInit, RestNext, PTL DEF Spec

(* Processes, queues, cache and events are what their declarations say, and *)
(* a batch is in the task queue once at most (TypeOK).                      *)
THEOREM TasksAreTyped == Spec => []TypeOK
<1>1. AnswerInv /\ GroupInv /\ RestInv => TypeOK
  BY DEF AnswerInv, GroupInv, RestInv, TypeOK, Messages, WorkerStates, MainStates, IsInjective
<1> QED BY <1>1, TypedInvariant, PTL

-----------------------------------------------------------------------------
(* Where a predicted batch is on its way from the queue to its event.       *)
Queued(t) == t \in ToSet(task_queue)
Held(t) == \E w \in Workers : worker[w].task = t
Posted(t) == \E i \in 1..Len(completion) : completion[i].task = t
Read(t) == thread.task = t
Answered(t) == t \in events

(* A recorded batch is at one stage, and there once; no other is anywhere.  *)
AtOneStage(t) ==
    /\ Queued(t) => ~ Held(t) /\ ~ Posted(t) /\ ~ Read(t) /\ ~ Answered(t)
    /\ Held(t) => ~ Posted(t) /\ ~ Read(t) /\ ~ Answered(t)
    /\ Posted(t) => ~ Read(t) /\ ~ Answered(t)
    /\ Read(t) => ~ Answered(t)
    /\ t \in task_record <=> Queued(t) \/ Held(t) \/ Posted(t) \/ Read(t) \/ Answered(t)
HeldOnce ==
    \A v, w \in Workers : worker[v].task = worker[w].task /\ worker[v].task # NoTask => v = w
PostedOnce ==
    \A i, j \in 1..Len(completion) : completion[i].task = completion[j].task => i = j
Placed == HeldOnce /\ PostedOnce /\ \A t \in Tasks : AtOneStage(t)

PlaceInv == main.pc \notin {"over", "raised"} => Placed

LEMMA PlaceInit == Init => PlaceInv
<1> SUFFICES ASSUME Init PROVE Placed
  BY DEF PlaceInv
<1>1. ToSet(task_queue) = {} /\ Len(completion) = 0
  BY EmptyQueue DEF Init
<1> QED BY <1>1, AsyncAssumption
        DEF Init, Placed, HeldOnce, PostedOnce, AtOneStage, Queued, Held, Posted, Read, Answered

(* Everything stays where it is: no worker gets or drops a task.            *)
LEMMA PlaceStays ==
  ASSUME Placed, UNCHANGED <<task_record, task_queue, completion, events>>,
         thread'.task = thread.task, \A w \in Workers : worker'[w].task = worker[w].task
  PROVE  Placed'
BY DEF Placed, HeldOnce, PostedOnce, AtOneStage, Queued, Held, Posted, Read, Answered

LEMMA PlaceMain ==
  ASSUME AnswerInv, RestInv, Placed, MainStep \/ DeadlinePasses
  PROVE  PlaceInv'
<1>1. CASE \/ Initialized \/ InitFailed \/ (\E t \in Tasks : FindResult(t)) \/ EndBatch
           \/ BatchRaises \/ Poll \/ CheckWorkers \/ Wake \/ TakeResult \/ Shutdown \/ Joined \/ DeadlinePasses
  <2>1. UNCHANGED <<task_record, task_queue, completion, events, thread, worker>>
    BY <1>1 DEF Initialized, InitFailed, FindResult, EndBatch, BatchRaises, Poll, CheckWorkers,
                Wake, TakeResult, Shutdown, Joined, DeadlinePasses, answers, thread_vars
  <2> QED BY <2>1, PlaceStays DEF PlaceInv
<1>2. ASSUME NEW u \in Tasks, AddTask(u) PROVE Placed'
  <2>1. /\ UNCHANGED <<completion, events, thread, worker>>
        /\ task_record' = task_record \cup {u} /\ task_queue' = Append(task_queue, u)
        /\ u \notin task_record
    BY <1>2 DEF AddTask, NotRecorded, answers, thread_vars
  <2>2. ToSet(task_queue') = ToSet(task_queue) \cup {u}
    BY <2>1, QueueAppend DEF AnswerInv
  <2>3. ASSUME NEW t \in Tasks PROVE AtOneStage(t)'
    <3>1. /\ Queued(t)' <=> Queued(t) \/ t = u
          /\ Held(t)' <=> Held(t)
          /\ Posted(t)' <=> Posted(t)
          /\ Read(t)' <=> Read(t)
          /\ Answered(t)' <=> Answered(t)
          /\ t \in task_record' <=> t \in task_record \/ t = u
      BY <2>1, <2>2 DEF Queued, Held, Posted, Read, Answered
    <3>2. AtOneStage(t) /\ AtOneStage(u)
      BY DEF Placed
    <3> QED BY <2>1, <3>1, <3>2 DEF AtOneStage
  <2> QED BY <2>1, <2>3 DEF Placed, HeldOnce, PostedOnce
<1>3. ASSUME NEW w \in Workers, Terminate(w) PROVE Placed'
  <2>1. /\ UNCHANGED <<task_record, task_queue, completion, events, thread>>
        /\ worker' = WorkerAt(w, "gone", worker[w].task)
    BY <1>3 DEF Terminate, answers, thread_vars
  <2>2. worker[w].task \in Tasks \cup {NoTask} /\ "gone" \in WorkerPoints
    BY DEF AnswerInv, WorkerStates, WorkerPoints
  <2>3. \A v \in Workers : worker'[v].task = worker[v].task
    BY <2>1, <2>2, WorkerMoves
  <2> QED BY <2>1, <2>3, PlaceStays
<1>4. CASE Drain
  BY <1>4 DEF Drain, PlaceInv
<1> QED BY <1>1, <1>2, <1>3, <1>4 DEF MainStep, PlaceInv

(* A worker takes the first task of the queue, or posts the one it has.     *)
LEMMA PlaceTake ==
  ASSUME AnswerInv, RestInv, Placed, NEW w \in Workers, TakeTask(w)
  PROVE  Placed'
<1> DEFINE u == Head(task_queue)
<1>1. /\ UNCHANGED <<task_record, completion, events, thread>>
      /\ task_queue # <<>> /\ task_queue' = Tail(task_queue)
      /\ worker' = WorkerAt(w, "run", u)
      /\ worker[w].task = NoTask
  BY DEF TakeTask, answers, thread_vars, RestInv, Resting
<1>2. /\ u \in Tasks /\ ToSet(task_queue) = ToSet(task_queue') \cup {u}
      /\ u \notin ToSet(task_queue')
  BY <1>1, QueueTail DEF AnswerInv, RestInv
<1>3. "run" \in WorkerPoints
  BY DEF WorkerPoints
<1> HIDE DEF u
<1>4. worker'[w].task = u /\ \A v \in Workers \ {w} : worker'[v].task = worker[v].task
  BY <1>1, <1>2, <1>3, WorkerMoves
<1>5. ASSUME NEW t \in Tasks PROVE AtOneStage(t)'
  <2>1. /\ Queued(t)' <=> Queued(t) /\ t # u
        /\ Held(t)' <=> Held(t) \/ t = u
        /\ Posted(t)' <=> Posted(t)
        /\ Read(t)' <=> Read(t)
        /\ Answered(t)' <=> Answered(t)
        /\ t \in task_record' <=> t \in task_record
    BY <1>1, <1>2, <1>4, AsyncAssumption DEF Queued, Held, Posted, Read, Answered
  <2>2. AtOneStage(t) /\ AtOneStage(u) /\ Queued(u)
    BY <1>2 DEF Placed, Queued
  <2> QED BY <2>1, <2>2 DEF AtOneStage
<1>6. HeldOnce'
  <2>1. ~ Held(u)
    BY <1>2 DEF Placed, AtOneStage, Queued
  <2> QED BY <1>4, <2>1 DEF Placed, HeldOnce, Held
<1> QED BY <1>1, <1>5, <1>6 DEF Placed, PostedOnce

LEMMA PlacePost ==
  ASSUME AnswerInv, RestInv, Placed, NEW w \in Workers, NEW pc \in {"gone", "loop"},
         NEW failed \in BOOLEAN, worker[w].pc \in {"run", "report"},
         worker' = WorkerAt(w, pc, NoTask),
         completion' = Append(completion, Message(worker[w].task, failed)),
         UNCHANGED <<task_record, task_queue, events, thread>>
  PROVE  Placed'
<1> DEFINE u == worker[w].task
           n == Len(completion)
<1>1. /\ u \in Tasks /\ pc \in WorkerPoints /\ Message(u, failed).task = u
      /\ Message(u, failed) \in Messages
  BY DEF AnswerInv, WorkerPoints, Message, Messages
<1>2. /\ n \in Nat /\ Len(completion') = n + 1
      /\ \A i \in 1..n : completion'[i].task = completion[i].task
      /\ completion'[n + 1].task = u
  BY <1>1, AppendProperties DEF AnswerInv
<1>3. worker'[w].task = NoTask /\ \A v \in Workers \ {w} : worker'[v].task = worker[v].task
  BY <1>1, WorkerMoves
<1>4. u = worker[w].task
  OBVIOUS
<1> HIDE DEF u, n
<1>5. \A i : i \in 1..n+1 <=> i \in 1..n \/ i = n + 1
  BY <1>2
<1>6. ASSUME NEW t \in Tasks
      PROVE  Posted(t)' <=> Posted(t) \/ t = u
  <2>1. Posted(t)' <=> \E i \in 1..n+1 : completion'[i].task = t
    BY <1>2 DEF Posted
  <2>2. Posted(t) <=> \E i \in 1..n : completion[i].task = t
    BY DEF Posted, n
  <2> QED BY <1>2, <1>5, <2>1, <2>2
<1>7. ASSUME NEW t \in Tasks
      PROVE  Held(t)' <=> Held(t) /\ t # u
  <2>1. t # NoTask
    BY AsyncAssumption
  <2>2. \A v \in Workers \ {w} : worker[v].task = u => FALSE
    BY <1>1, <1>4, AsyncAssumption DEF Placed, HeldOnce
  <2> QED BY <1>3, <1>4, <2>1, <2>2 DEF Held
<1>8. ASSUME NEW t \in Tasks PROVE AtOneStage(t)'
  <2>1. /\ Queued(t)' <=> Queued(t)
        /\ Read(t)' <=> Read(t)
        /\ Answered(t)' <=> Answered(t)
        /\ t \in task_record' <=> t \in task_record
    BY DEF Queued, Read, Answered
  <2>2. AtOneStage(t) /\ AtOneStage(u) /\ Held(u)
    BY <1>1, <1>4 DEF Placed, Held
  <2> QED BY <1>6, <1>7, <2>1, <2>2 DEF AtOneStage
<1>9. HeldOnce'
  BY <1>3 DEF Placed, HeldOnce
<1>10. PostedOnce'
  <2>1. ~ Posted(u)
    BY <1>1, <1>4 DEF Placed, AtOneStage, Held
  <2>2. \A i \in 1..n : completion[i].task # u
    BY <2>1 DEF Posted, n
  <2>3. \A i, j \in 1..n : completion[i].task = completion[j].task => i = j
    BY DEF Placed, PostedOnce, n
  <2>4. \A i, j \in 1..n+1 : completion'[i].task = completion'[j].task => i = j
    BY <1>2, <1>5, <2>2, <2>3
  <2> QED BY <1>2, <2>4 DEF PostedOnce
<1> QED BY <1>8, <1>9, <1>10 DEF Placed

LEMMA PlaceWorker ==
  ASSUME AnswerInv, RestInv, Placed, NEW w \in Workers, WorkerStep(w) \/ Killed(w)
  PROVE  Placed'
<1> DEFINE t == worker[w].task
<1>0. /\ t \in Tasks \cup {NoTask}
      /\ WorkerPoints = {"init", "barrier", "loop", "run", "record", "report", "gone"}
  BY DEF AnswerInv, WorkerStates, WorkerPoints
<1>1. CASE TakeTask(w)
  BY <1>1, PlaceTake
<1>2. CASE RunFails(w)
  BY <1>2, PlacePost DEF RunFails, thread_vars
<1>3. CASE SetCompletionEvent(w)
  <2>1. worker' = WorkerAt(w, "loop", NoTask)
    BY <1>3 DEF SetCompletionEvent, Advance, Then
  <2> QED BY <1>3, <2>1, PlacePost DEF SetCompletionEvent, thread_vars
<1>4. CASE \/ InitWorker(w) \/ InitFails(w) \/ LeaveBarrier(w) \/ Leave(w) \/ Killed(w)
           \/ RunInference(w) \/ RecordCache(w)
  <2>1. UNCHANGED <<task_record, task_queue, completion, events, thread>>
    BY <1>4 DEF InitWorker, InitFails, LeaveBarrier, Leave, Killed, RunInference, RecordCache,
                answers, thread_vars
  <2>2. \E pc \in WorkerPoints : worker' = WorkerAt(w, pc, t)
    <3>1. CASE RunInference(w) \/ RecordCache(w)
      BY <1>0, <3>1 DEF RunInference, RecordCache, Advance, Then
    <3>2. CASE InitWorker(w) \/ InitFails(w) \/ LeaveBarrier(w) \/ Leave(w) \/ Killed(w)
      BY <1>0, <3>2 DEF InitWorker, InitFails, LeaveBarrier, Leave, Killed, RestInv, Resting
    <3> QED BY <1>4, <3>1, <3>2
  <2>3. \A v \in Workers : worker'[v].task = worker[v].task
    BY <1>0, <2>2, WorkerMoves
  <2> QED BY <2>1, <2>3, PlaceStays
<1> QED BY <1>1, <1>2, <1>3, <1>4 DEF WorkerStep

LEMMA PlaceThread ==
  ASSUME AnswerInv, RestInv, Placed, ThreadStep
  PROVE  Placed'
<1>1. CASE Receive
  <2> DEFINE u == Head(completion).task
             n == Len(completion)
  <2>1. /\ UNCHANGED <<task_record, task_queue, events, worker>>
        /\ completion # <<>> /\ completion' = Tail(completion)
        /\ thread'.task = u /\ thread.task = NoTask
    BY <1>1 DEF Receive, RestInv, Resting
  <2>2. /\ n \in Nat \ {0} /\ Len(completion') = n - 1
        /\ \A i \in 1..n-1 : completion'[i] = completion[i + 1]
        /\ Head(completion) = completion[1] /\ Head(completion) \in Messages
    <3>1. completion \in Seq(Messages) /\ completion # <<>>
      BY <2>1 DEF AnswerInv
    <3>2. Head(completion) \in Messages /\ Head(completion) = completion[1]
      BY <3>1
    <3> QED BY <2>1, <3>1, <3>2, HeadTailProperties
  <2>3. u \in Tasks /\ u = completion[1].task
    BY <2>2 DEF Messages
  <2> HIDE DEF u
  <2>4. \A i, j \in 1..n : completion[i].task = completion[j].task => i = j
    BY DEF Placed, PostedOnce
  <2>5. /\ \A i \in 1..n-1 : i + 1 \in 1..n /\ i + 1 # 1
        /\ \A i \in 1..n : i = 1 \/ (i - 1 \in 1..n-1 /\ (i - 1) + 1 = i)
        /\ 1 \in 1..n
    BY <2>2
  <2>6. ASSUME NEW t \in Tasks
        PROVE  Posted(t)' <=> Posted(t) /\ t # u
    <3>1. Posted(t)' <=> \E i \in 1..n-1 : completion[i + 1].task = t
      BY <2>2 DEF Posted
    <3>2. Posted(t) <=> \E i \in 1..n : completion[i].task = t
      BY DEF Posted
    <3> HIDE DEF n
    <3>3. ASSUME NEW i \in 1..n-1, completion[i + 1].task = t
          PROVE  Posted(t) /\ t # u
      BY <2>3, <2>4, <2>5, <3>2, <3>3
    <3>4. ASSUME NEW i \in 1..n, completion[i].task = t, t # u
          PROVE  \E j \in 1..n-1 : completion[j + 1].task = t
      <4>1. i - 1 \in 1..n-1 /\ (i - 1) + 1 = i
        BY <2>3, <2>5, <3>4
      <4> QED BY <3>4, <4>1
    <3> QED BY <3>1, <3>2, <3>3, <3>4
  <2>7. ASSUME NEW t \in Tasks PROVE AtOneStage(t)'
    <3>1. /\ Queued(t)' <=> Queued(t)
          /\ Held(t)' <=> Held(t)
          /\ Read(t)' <=> t = u
          /\ ~ Read(t)
          /\ Answered(t)' <=> Answered(t)
          /\ t \in task_record' <=> t \in task_record
      BY <2>1, AsyncAssumption DEF Queued, Held, Read, Answered
    <3>2. AtOneStage(t) /\ AtOneStage(u) /\ Posted(u)
      BY <2>3, <2>5 DEF Placed, Posted
    <3> QED BY <2>6, <3>1, <3>2 DEF AtOneStage
  <2>8. PostedOnce'
    <3>1. \A i, j \in 1..n-1 : completion[i + 1].task = completion[j + 1].task => i = j
      <4> TAKE i, j \in 1..n-1
      <4> HAVE completion[i + 1].task = completion[j + 1].task
      <4>1. i + 1 = j + 1
        BY <2>4, <2>5
      <4> QED BY <2>2, <4>1
    <3> QED BY <2>2, <3>1 DEF PostedOnce
  <2> QED BY <2>1, <2>7, <2>8 DEF Placed, HeldOnce
<1>2. CASE SetEvent
  <2> DEFINE u == thread.task
  <2>1. /\ UNCHANGED <<task_record, task_queue, completion, worker>>
        /\ events' = events \cup {u} /\ thread'.task = NoTask /\ u \in Tasks
    BY <1>2 DEF SetEvent, answers, RestInv, Resting
  <2>2. ASSUME NEW t \in Tasks PROVE AtOneStage(t)'
    <3>1. /\ Queued(t)' <=> Queued(t)
          /\ Held(t)' <=> Held(t)
          /\ Posted(t)' <=> Posted(t)
          /\ ~ Read(t)'
          /\ Read(t) <=> t = u
          /\ Answered(t)' <=> Answered(t) \/ t = u
          /\ t \in task_record' <=> t \in task_record
      BY <2>1, AsyncAssumption DEF Queued, Held, Posted, Read, Answered
    <3>2. AtOneStage(t)
      BY DEF Placed
    <3> QED BY <3>1, <3>2 DEF AtOneStage
  <2> QED BY <2>1, <2>2 DEF Placed, HeldOnce, PostedOnce
<1>3. CASE ThreadEnds
  <2>1. /\ UNCHANGED <<task_record, task_queue, completion, events, worker>>
        /\ thread'.task = thread.task
    BY <1>3 DEF ThreadEnds, answers, RestInv, Resting
  <2> QED BY <2>1, PlaceStays
<1> QED BY <1>1, <1>2, <1>3 DEF ThreadStep

LEMMA PlaceNext == AnswerInv /\ RestInv /\ PlaceInv /\ [Next]_vars => PlaceInv'
<1> SUFFICES ASSUME AnswerInv, RestInv, PlaceInv, [Next]_vars PROVE PlaceInv'
  OBVIOUS
<1>1. CASE UNCHANGED vars
  <2>1. Placed => Placed'
    BY <1>1, PlaceStays DEF vars
  <2> QED BY <1>1, <2>1 DEF PlaceInv, vars
<1>2. CASE ~ Ended /\ Next
  <2>1. Placed
    BY <1>2 DEF PlaceInv, Ended
  <2>2. CASE MainStep \/ DeadlinePasses
    BY <2>1, <2>2, PlaceMain
  <2>3. CASE \E w \in Workers : WorkerStep(w) \/ Killed(w)
    BY <2>1, <2>3, PlaceWorker DEF PlaceInv
  <2>4. CASE ThreadStep
    BY <2>1, <2>4, PlaceThread DEF PlaceInv
  <2> QED BY <1>1, <1>2, <2>2, <2>3, <2>4 DEF Next, Exited
<1> QED BY <1>1, <1>2 DEF Next, Exited

(* What it means for the places TaskInOnePlace counts.                      *)
LEMMA PlacesCounted ==
  ASSUME AnswerInv, RestInv, Placed, NEW t \in Tasks
  PROVE  Cardinality(PlacesOf(t)) = IF t \in task_record THEN 1 ELSE 0
<1> DEFINE Q == {i \in DOMAIN task_queue : task_queue[i] = t}
           W == {w \in Workers : worker[w].task = t}
           M == {i \in DOMAIN completion : completion[i].task = t}
           H == {u \in {thread.task} : u = t}
           E == {u \in events : u = t}
<1>1. /\ DOMAIN task_queue = 1..Len(task_queue) /\ DOMAIN completion = 1..Len(completion)
      /\ ToSet(task_queue) = {task_queue[i] : i \in 1..Len(task_queue)}
      /\ \A i, j \in 1..Len(task_queue) : task_queue[i] = task_queue[j] => i = j
  BY QueueElements DEF AnswerInv, RestInv
<1>2. /\ Queued(t) <=> Q # {}
      /\ Held(t) <=> W # {}
      /\ Posted(t) <=> M # {}
      /\ Read(t) <=> H # {}
      /\ Answered(t) <=> E # {}
  BY <1>1 DEF Queued, Held, Posted, Read, Answered
<1>3. /\ \A x, y \in Q : x = y
      /\ \A x, y \in W : x = y
      /\ \A x, y \in M : x = y
      /\ \A x, y \in H : x = y
      /\ \A x, y \in E : x = y
  BY <1>1, AsyncAssumption DEF Placed, HeldOnce, PostedOnce
<1>4. PlacesOf(t) = {<<"queue", i>> : i \in Q} \cup {<<"worker", w>> : w \in W}
                      \cup {<<"message", i>> : i \in M} \cup {<<"thread", u>> : u \in H}
                      \cup {<<"event", u>> : u \in E}
  BY DEF PlacesOf
<1>5. AtOneStage(t)
  BY DEF Placed
<1> HIDE DEF Q, W, M, H, E
<1>6. CASE t \notin task_record
  <2>1. Q = {} /\ W = {} /\ M = {} /\ H = {} /\ E = {}
    BY <1>2, <1>5, <1>6 DEF AtOneStage
  <2>2. PlacesOf(t) = {}
    BY <1>4, <2>1
  <2> QED BY <1>6, <2>2, FS_EmptySet
<1>7. CASE t \in task_record
  <2>1. \E p : PlacesOf(t) = {p}
    <3>1. CASE Queued(t)
      <4>1. W = {} /\ M = {} /\ H = {} /\ E = {}
        BY <1>2, <1>5, <3>1 DEF AtOneStage
      <4>2. PICK i \in Q : Q = {i}
        BY <1>2, <1>3, <3>1
      <4>3. PlacesOf(t) = {<<"queue", i>>}
        BY <1>4, <4>1, <4>2
      <4> QED BY <4>3
    <3>2. CASE Held(t)
      <4>1. Q = {} /\ M = {} /\ H = {} /\ E = {}
        BY <1>2, <1>5, <3>2 DEF AtOneStage
      <4>2. PICK w \in W : W = {w}
        BY <1>2, <1>3, <3>2
      <4>3. PlacesOf(t) = {<<"worker", w>>}
        BY <1>4, <4>1, <4>2
      <4> QED BY <4>3
    <3>3. CASE Posted(t)
      <4>1. Q = {} /\ W = {} /\ H = {} /\ E = {}
        BY <1>2, <1>5, <3>3 DEF AtOneStage
      <4>2. PICK i \in M : M = {i}
        BY <1>2, <1>3, <3>3
      <4>3. PlacesOf(t) = {<<"message", i>>}
        BY <1>4, <4>1, <4>2
      <4> QED BY <4>3
    <3>4. CASE Read(t)
      <4>1. Q = {} /\ W = {} /\ M = {} /\ E = {}
        BY <1>2, <1>5, <3>4 DEF AtOneStage
      <4>2. PICK u \in H : H = {u}
        BY <1>2, <1>3, <3>4
      <4>3. PlacesOf(t) = {<<"thread", u>>}
        BY <1>4, <4>1, <4>2
      <4> QED BY <4>3
    <3>5. CASE Answered(t)
      <4>1. Q = {} /\ W = {} /\ M = {} /\ H = {}
        BY <1>2, <1>5, <3>5 DEF AtOneStage
      <4>2. PICK u \in E : E = {u}
        BY <1>2, <1>3, <3>5
      <4>3. PlacesOf(t) = {<<"event", u>>}
        BY <1>4, <4>1, <4>2
      <4> QED BY <4>3
    <3> QED BY <1>5, <1>7, <3>1, <3>2, <3>3, <3>4, <3>5 DEF AtOneStage
  <2> QED BY <1>7, <2>1, FS_Singleton
<1> QED BY <1>6, <1>7

(* Until the program ends, a predicted batch is in exactly one place: the   *)
(* queue, one worker, one message, the thread or its event, whatever        *)
(* workers fail or are killed, and no other batch is anywhere               *)
(* (TaskInOnePlace).                                                        *)
THEOREM TasksAreInOnePlace == Spec => []TaskInOnePlace
<1>1. AnswerInv /\ RestInv /\ PlaceInv => TaskInOnePlace
  BY PlacesCounted DEF PlaceInv, TaskInOnePlace
<1>2. Spec => [](AnswerInv /\ GroupInv /\ RestInv /\ PlaceInv)
  BY AnswerInit, AnswerNext, GroupInit, GroupNext, RestInit, RestNext, PlaceInit, PlaceNext,
     PTL DEF Spec
<1> QED BY <1>1, <1>2, PTL
=============================================================================
