------------------------------ MODULE JobService ------------------------------
(***************************************************************************)
(* The job service of the web UI: create_job and cancel_job of the jobs    *)
(* router, the JobManager with its queue and worker threads, run_job, the  *)
(* WriteQueue with its one writer thread, shutdown, crash and startup.     *)
(*                                                                         *)
(* A worker's writes go through the queue, and it waits for each; a wait   *)
(* may time out at any time and a write may raise.  A request's insertion  *)
(* is direct.  Reads are direct, each one a step.                          *)
(***************************************************************************)
EXTENDS JobStore, Sums

CONSTANTS Workers,     (* threads of the executor                          *)
          MaxInflight, (* _max_inflight; the code has two per thread       *)
          MaxStops,    (* bound on how often the server stops or dies      *)
          RowsPerCase, (* how many records the module's runner may report  *)
                       (* for a case it has computed: 1, or the lines of a *)
                       (* summary for the throughput optimizer             *)
          None         (* no job, no worker, no item                       *)

ASSUME ServiceAssumption ==
    /\ MaxInflight \in Nat \ {0} /\ MaxStops \in Nat
    /\ RowsPerCase \subseteq Nat
    /\ None \notin Jobs \cup Workers

VARIABLES request,  (* where the POST that creates each job is             *)
          flag,     (* _cancel_flags                                       *)
          pq,       (* jobs scheduled and not yet taken, in order          *)
          drains,   (* calls of _drain_one the executor has not started    *)
          worker,   (* where each thread is in run_job                     *)
          writes,   (* the write queue                                     *)
          writing,  (* the item the writer thread is executing, or None    *)
          phase,    (* up, stages of shutdown, down                        *)
          stops,    (* stops and crashes so far                            *)
          abandoned (* jobs whose last attempt to record an end raised     *)

manager == <<pq, drains, flag>>
queue   == <<writes, writing>>
server  == <<phase, stops>>
vars == <<status, params, records, completed, request, flag, pq, drains, worker, writes,
          writing, phase, stops, abandoned>>

Asking   == {"new", "inflight", "count", "add", "conflict", "fallback", "schedule", "dispatch"}
Answers  == {"answered", "refused", "rejected", "error", "lost"}
Phases   == {"up", "stopping", "joining", "rejecting", "cancelled", "down"}

(* Points of run_job and _drain_one that queue a write; the last ones are  *)
(* not guarded: of a full pool in run_job, of an exception in _drain_one.  *)
EscapedWrites == {"escaped"}
LastWrites  == {"saturated"} \cup EscapedWrites
WriteStages == {"running", "clone", "reuse", "progress", "records", "logs", "succeed",
                "cancel", "fail", "unexpected"} \cup LastWrites
Stages == WriteStages \cup {"idle", "lookup", "start", "simulate", "collect", "judge", "end"}

(* sent: the write of this stage is queued and the thread waits for it;    *)
(* cached: cases to be skipped; rows: the results; source: job to copy.    *)
Locals == [pc : Stages, sent : BOOLEAN, job : Jobs \cup {None}, cached : SUBSET Cases,
           rows : [Cases -> Counts], source : Jobs \cup {None}]
Idle == [pc |-> "idle", sent |-> FALSE, job |-> None, cached |-> {}, rows |-> Blank, source |-> None]

(* An item of the write queue: what was queued, by the thread that waits. *)
Items == [waiter : Workers \cup {None}, call : Locals]

Init ==
    /\ StoreInit
    /\ request = [j \in Jobs |-> "new"]
    /\ flag = [j \in Jobs |-> "none"]
    /\ pq = <<>> /\ drains = 0
    /\ worker = [w \in Workers |-> Idle]
    /\ writes = <<>> /\ writing = None
    /\ phase = "up" /\ stops = 0
    /\ abandoned = {}

-----------------------------------------------------------------------------
(* Requests. *)

Asks(j, stage) == phase # "down" /\ request[j] = stage
Proceed(j, stage) == request' = [request EXCEPT ![j] = stage]

(* create_job, from the look for an equal job that has succeeded. *)
FindSucceeded(j) ==
    /\ phase = "up" /\ request[j] = "new"
    /\ Proceed(j, IF SucceededLike(j) # {} THEN "answered" ELSE "inflight")
    /\ UNCHANGED <<store, manager, worker, queue, server, abandoned>>

FindInFlight(j) ==
    /\ Asks(j, "inflight")
    /\ Proceed(j, IF InFlightLike(j) # {} THEN "answered" ELSE "count")
    /\ UNCHANGED <<store, manager, worker, queue, server, abandoned>>

(* JobManager.submit, in another thread: the limit, ... *)
CheckLimit(j) ==
    /\ Asks(j, "count")
    /\ Proceed(j, IF CountInFlight >= MaxInflight THEN "refused" ELSE "add")
    /\ UNCHANGED <<store, manager, worker, queue, server, abandoned>>

(* ... the row, ... *)
Add(j) ==
    /\ Asks(j, "add")
    /\ InsertJob(j)
    /\ Proceed(j, "schedule")
    /\ UNCHANGED <<manager, worker, queue, server, abandoned>>

AddConflicts(j) ==
    /\ Asks(j, "add")
    /\ InFlightLike(j) # {}
    /\ Proceed(j, "conflict")
    /\ UNCHANGED <<store, manager, worker, queue, server, abandoned>>

(* A slip: a job that is not queued is dispatched all the same.            *)
ScheduleRegardless(j) ==
    /\ Asks(j, "schedule")
    /\ IF phase = "up"
       THEN pq' = Append(pq, j) /\ flag' = [flag EXCEPT ![j] = "clear"]
       ELSE UNCHANGED <<pq, flag>>
    /\ Proceed(j, "dispatch")
    /\ UNCHANGED <<store, drains, worker, queue, server, abandoned>>

(* ... and _schedule: under the lock of the queue, ... *)
Schedule(j) ==
    /\ Asks(j, "schedule")
    /\ IF phase = "up"
       THEN /\ pq' = Append(pq, j)
            /\ flag' = [flag EXCEPT ![j] = "clear"]
            /\ Proceed(j, "dispatch")
       ELSE Proceed(j, "answered") /\ UNCHANGED <<pq, flag>>
    /\ UNCHANGED <<store, drains, worker, queue, server, abandoned>>

(* ... and behind it: a pool that was closed meanwhile raises.             *)
Dispatch(j) ==
    /\ Asks(j, "dispatch")
    /\ IF phase \in {"up", "stopping"}
       THEN drains' = drains + 1 /\ Proceed(j, "answered")
       ELSE Proceed(j, "error") /\ UNCHANGED drains
    /\ UNCHANGED <<store, pq, flag, worker, queue, server, abandoned>>

(* create_job after an IntegrityError. *)
ResolveConflict(j) ==
    /\ Asks(j, "conflict")
    /\ Proceed(j, IF InFlightLike(j) # {} THEN "answered" ELSE "fallback")
    /\ UNCHANGED <<store, manager, worker, queue, server, abandoned>>

ResolveByCache(j) ==
    /\ Asks(j, "fallback")
    /\ Proceed(j, IF SucceededLike(j) # {} THEN "answered" ELSE "rejected")
    /\ UNCHANGED <<store, manager, worker, queue, server, abandoned>>

(* cancel_job: without a flag it changes nothing. *)
RequestCancel(j) ==
    /\ phase # "down"
    /\ flag[j] = "clear"
    /\ flag' = [flag EXCEPT ![j] = "requested"]
    /\ UNCHANGED <<store, request, pq, drains, worker, queue, server, abandoned>>

RequestStep(j) ==
    \/ FindInFlight(j) \/ CheckLimit(j) \/ Add(j) \/ AddConflicts(j)
    \/ Schedule(j) \/ Dispatch(j) \/ ResolveConflict(j) \/ ResolveByCache(j)

-----------------------------------------------------------------------------
(* Worker threads. *)

At(w, stage) == phase # "down" /\ worker[w].pc = stage /\ ~worker[w].sent
Cancelled(w) == flag[worker[w].job] = "requested"

(* What follows a write that was done, one that timed out twice, and one   *)
(* that raised or was rejected.                                            *)
AfterWrite(stage) ==
    CASE stage = "running"  -> "lookup"
      [] stage = "clone"    -> "reuse"
      [] stage = "progress" -> "simulate"
      [] stage = "records"  -> "logs"
      [] stage = "logs"     -> "judge"
      [] OTHER              -> "end"

AfterFailure(stage, otherwise) ==
    CASE stage = "progress"    -> "fail"
      [] stage = "unexpected"  -> "escaped"
      [] stage \in LastWrites  -> "end"
      [] OTHER                 -> otherwise

(* Slips: a copy that timed out is taken for done; results that timed out  *)
(* are written again.                                                      *)
TimeoutIsDone(stage) == IF stage = "clone" THEN "reuse" ELSE AfterFailure(stage, "saturated")
WriteAgain(stage) == IF stage = "records" THEN "records" ELSE AfterFailure(stage, "saturated")

AfterTimeout(stage) == AfterFailure(stage, "saturated")
AfterRaise(stage)   == AfterFailure(stage, "unexpected")

(* On the way to the end of a job nothing but the job matters. *)
Resumed(call, stage) ==
    IF stage \in {"fail", "cancel", "unexpected", "end"} \cup LastWrites
    THEN [Idle EXCEPT !.pc = stage, !.job = call.job]
    ELSE [call EXCEPT !.pc = stage, !.sent = FALSE]

Goto(w, stage) == worker' = [worker EXCEPT ![w] = Resumed(@, stage)]

(* _drain_one takes the next job, and run_job starts. *)
DrainOne(w) ==
    /\ At(w, "idle")
    /\ drains > 0 /\ pq # <<>>
    /\ drains' = drains - 1
    /\ pq' = Tail(pq)
    /\ worker' = [worker EXCEPT ![w] = [Idle EXCEPT !.pc = "running", !.job = Head(pq)]]
    /\ UNCHANGED <<store, request, flag, queue, server, abandoned>>

(* WriteQueue.enqueue: a stopped queue rejects the write. *)
Enqueue(w) ==
    /\ \E stage \in WriteStages : At(w, stage)
    /\ IF phase \notin {"rejecting", "cancelled"}
       THEN /\ writes' = Append(writes, [waiter |-> w, call |-> worker[w]])
            /\ worker' = [worker EXCEPT ![w].sent = TRUE]
       ELSE Goto(w, AfterRaise(worker[w].pc)) /\ UNCHANGED writes
    /\ UNCHANGED <<store, request, manager, writing, server, abandoned>>

(* The wait for a write ends without it.  A guarded write that has not     *)
(* started does nothing when its turn comes, so it leaves the queue here;  *)
(* one that has started, or is not guarded, goes on with nobody waiting.   *)
GiveUp(w) ==
    /\ phase # "down" /\ worker[w].sent
    /\ worker' = [worker EXCEPT ![w] = Resumed(@, AfterTimeout(@.pc))]
    /\ \/ /\ writing # None /\ writing.waiter = w
          /\ writing' = [writing EXCEPT !.waiter = None]
          /\ UNCHANGED writes
       \/ \E i \in DOMAIN writes :
             /\ writes[i].waiter = w
             /\ writes' = IF worker[w].pc \in LastWrites
                          THEN [writes EXCEPT ![i].waiter = None] ELSE RemoveAt(writes, i)
             /\ UNCHANGED writing
    /\ UNCHANGED <<store, request, manager, server, abandoned>>

(* The results of an equal job are reused. *)
LookUp(w) ==
    LET like == SucceededLike(worker[w].job)
    IN  /\ At(w, "lookup")
        /\ IF like = {}
           THEN Goto(w, "start")
           ELSE worker' = [worker EXCEPT ![w].pc = "clone", ![w].source = MostRecent(like)]
        /\ UNCHANGED <<store, request, manager, queue, server, abandoned>>

(* Cases that are there already are noted, and the runner is created. *)
Start(w) ==
    /\ At(w, "start")
    /\ \/ worker' = [worker EXCEPT ![w].pc = "progress", ![w].cached = CachedCases]
       \/ Goto(w, "fail")
    /\ UNCHANGED <<store, request, manager, queue, server, abandoned>>

(* What a case may give that is computed m times: each time one record of  *)
(* a failure, or the records of its result.                                *)
Yields(k) == {SumOn(rows, 1..k) : rows \in [1..k -> RowsPerCase]}
CaseOutcomes(m) ==
    UNION {{[failed |-> f, good |-> n] : n \in Yields(m - f)} : f \in 0..m}

(* The subprocess computes the other cases, a repeated one each time.  It  *)
(* may also raise, when a case fails or all do: see SimulateFails.         *)
Simulate(w) ==
    LET job == worker[w].job
        skipped == CasesOf(job) \cap worker[w].cached
        runs == [c \in Cases |-> IF c \in skipped THEN 0 ELSE params[job][c]]
    IN  /\ At(w, "simulate")
        /\ \E rows \in [Cases -> UNION {CaseOutcomes(runs[c]) : c \in Cases}] :
              /\ \A c \in Cases : rows[c] \in CaseOutcomes(runs[c])
              /\ worker' = [worker EXCEPT ![w].pc = "collect", ![w].cached = skipped,
                                          ![w].rows = rows]
        /\ UNCHANGED <<store, request, manager, queue, server, abandoned>>

(* It raises or dies, or is killed by the watcher of the cancel flag. *)
SimulateFails(w) ==
    /\ At(w, "simulate")
    /\ \/ Goto(w, "fail")
       \/ Cancelled(w) /\ worker' = [worker EXCEPT ![w].pc = "collect", ![w].cached = {}]
    /\ UNCHANGED <<store, request, manager, queue, server, abandoned>>

(* The records of the skipped cases are fetched, each time one is skipped. *)
AllRecords(w) ==
    [c \in Cases |-> IF c \in worker[w].cached
                     THEN Times(params[worker[w].job][c], CachedRecords(c))
                     ELSE worker[w].rows[c]]

(* First look at the cancel flag. *)
Collect(w) ==
    LET rows == AllRecords(w)
    IN  /\ At(w, "collect")
        /\ IF Cancelled(w) THEN Goto(w, "cancel")
           ELSE IF rows = Blank THEN Goto(w, "fail")
           ELSE worker' = [worker EXCEPT ![w].pc = "records", ![w].rows = rows, ![w].cached = {}]
        /\ UNCHANGED <<store, request, manager, queue, server, abandoned>>

AnyGood(rows) == \E c \in Cases : rows[c].good > 0

(* A slip: no second look at the cancel flag. *)
VerdictOnRecords(w) == IF AnyGood(worker[w].rows) THEN "succeed" ELSE "fail"

(* A job fails if all its cases do; second look at the cancel flag. *)
Verdict(w) ==
    CASE ~AnyGood(worker[w].rows) -> "fail"
      [] OTHER                    -> IF Cancelled(w) THEN "cancel" ELSE "succeed"

Judge(w) ==
    /\ At(w, "judge")
    /\ Goto(w, Verdict(w))
    /\ UNCHANGED <<store, request, manager, queue, server, abandoned>>

(* The finally clause of _drain_one. *)
EndJob(w) ==
    /\ At(w, "end")
    /\ flag' = [flag EXCEPT ![worker[w].job] = "none"]
    /\ worker' = [worker EXCEPT ![w] = Idle]
    /\ UNCHANGED <<store, request, pq, drains, queue, server, abandoned>>

WorkerStep(w) ==
    \/ DrainOne(w) \/ Enqueue(w) \/ LookUp(w) \/ Start(w) \/ Simulate(w)
    \/ SimulateFails(w) \/ Collect(w) \/ Judge(w) \/ EndJob(w)

-----------------------------------------------------------------------------
(* The writer thread. *)

TakeWrite ==
    /\ phase \notin {"rejecting", "cancelled", "down"}
    /\ writing = None /\ writes # <<>>
    /\ writing' = Head(writes)
    /\ writes' = Tail(writes)
    /\ UNCHANGED <<store, request, manager, worker, server, abandoned>>

(* What the write does. *)
Apply(call) ==
    CASE call.pc = "running"              -> SetStatus(call.job, "running")
      [] call.pc \in {"succeed", "reuse"} -> SetStatus(call.job, "succeeded")
      [] call.pc = "cancel"               -> SetStatus(call.job, "cancelled")
      [] call.pc \in {"fail", "unexpected"} \cup LastWrites -> SetStatus(call.job, "failed")
      [] call.pc = "clone"                -> AddRecords(call.job, records[call.source])
      [] call.pc = "records"              -> AddRecords(call.job, call.rows)
      [] OTHER                            -> UNCHANGED store

(* The result of a future reaches whoever waits for it. *)
Resume(item, stage) ==
    worker' = IF item.waiter = None THEN worker
              ELSE [worker EXCEPT ![item.waiter] = Resumed(@, stage)]

Commit ==
    /\ phase # "down" /\ writing # None
    /\ Apply(writing.call)
    /\ Resume(writing, AfterWrite(writing.call.pc))
    /\ writing' = None
    /\ UNCHANGED <<request, manager, writes, server, abandoned>>

WriteRaises ==
    /\ phase # "down" /\ writing # None
    /\ Resume(writing, AfterRaise(writing.call.pc))
    /\ abandoned' = IF writing.call.pc \in LastWrites
                    THEN abandoned \cup {writing.call.job} ELSE abandoned
    /\ writing' = None
    /\ UNCHANGED <<store, request, manager, writes, server>>

WriterStep == TakeWrite \/ Commit \/ WriteRaises

-----------------------------------------------------------------------------
(* Shutdown, crash and startup. *)

(* JobManager.shutdown sets its flag, closes the pool, and waits for the   *)
(* threads: until all have ended or for 30 seconds.                        *)
BeginShutdown ==
    /\ phase = "up" /\ stops < MaxStops
    /\ phase' = "stopping" /\ stops' = stops + 1
    /\ UNCHANGED <<store, request, manager, worker, queue, abandoned>>

NextPhase ==
    /\ \/ phase = "stopping" /\ phase' = "joining"
       \/ phase = "joining"  /\ phase' = "rejecting"
    /\ UNCHANGED <<store, request, manager, worker, queue, stops, abandoned>>

(* WriteQueue.shutdown cancels what the writer has not reached. *)
CancelWrites ==
    LET waiting == {writes[i].waiter : i \in DOMAIN writes}
    IN  /\ phase = "rejecting"
        /\ phase' = "cancelled"
        /\ writes' = <<>>
        /\ worker' = [w \in Workers |->
              IF w \in waiting THEN Resumed(worker[w], AfterRaise(worker[w].pc)) ELSE worker[w]]
        /\ UNCHANGED <<store, request, manager, writing, stops, abandoned>>

(* What is in memory is lost, and so are the answers. *)
Down ==
    /\ phase' = "down"
    /\ request' = [j \in Jobs |-> IF request[j] \in Asking \ {"new"} THEN "lost" ELSE request[j]]
    /\ flag' = [j \in Jobs |-> "none"]
    /\ pq' = <<>> /\ drains' = 0
    /\ worker' = [w \in Workers |-> Idle]
    /\ writes' = <<>> /\ writing' = None
    /\ UNCHANGED <<store, abandoned>>

(* The process ends when its threads have nothing left to do. *)
Exit ==
    /\ phase = "cancelled"
    /\ drains = 0 /\ \A w \in Workers : worker[w].pc = "idle"
    /\ Down
    /\ UNCHANGED stops

Crash ==
    /\ phase # "down"
    /\ \/ phase = "up" /\ stops < MaxStops /\ stops' = stops + 1
       \/ phase # "up" /\ UNCHANGED stops
    /\ Down

(* The lifespan sweeps before it makes a new manager. *)
Boot ==
    /\ phase = "down"
    /\ phase' = "up"
    /\ SweepInterrupted
    /\ UNCHANGED <<request, manager, worker, queue, stops, abandoned>>

ServerStep == NextPhase \/ CancelWrites \/ Exit \/ Boot

-----------------------------------------------------------------------------
(* A server that is up with nothing to do. *)
AtRest ==
    /\ phase = "up" /\ stops = MaxStops
    /\ \A j \in Jobs : request[j] \in Answers
    /\ \A w \in Workers : worker[w].pc = "idle"
    /\ drains = 0 /\ writes = <<>> /\ writing = None
    /\ UNCHANGED vars

Next ==
    \/ \E j \in Jobs : FindSucceeded(j) \/ RequestStep(j) \/ RequestCancel(j)
    \/ \E w \in Workers : WorkerStep(w) \/ GiveUp(w)
    \/ WriterStep
    \/ BeginShutdown \/ Crash \/ ServerStep
    \/ AtRest

(* Threads that have something to do go on, the operator starts the server *)
(* again, a request once begun is served.                                  *)
Fairness ==
    /\ \A j \in Jobs : WF_vars(RequestStep(j))
    /\ \A w \in Workers : WF_vars(WorkerStep(w))
    /\ WF_vars(WriterStep)
    /\ WF_vars(ServerStep)

Spec == Init /\ [][Next]_vars /\ Fairness

-----------------------------------------------------------------------------
(* Every variable has its type, and no call of _drain_one finds the queue  *)
(* empty.                                                                  *)
TypeOK ==
    /\ status \in [Jobs -> Statuses] /\ params \in Submissions
    /\ records \in [Jobs -> [Cases -> Counts]]
    /\ completed \in Seq(Jobs)
    /\ request \in [Jobs -> Asking \cup Answers]
    /\ flag \in [Jobs -> {"none", "clear", "requested"}]
    /\ pq \in Seq(Jobs) /\ drains \in 0..Len(pq)
    /\ worker \in [Workers -> Locals]
    /\ writes \in Seq(Items)
    /\ writing \in Items \cup {None}
    /\ phase \in Phases /\ stops \in 0..MaxStops
    /\ abandoned \subseteq Jobs

(* Work is not done twice: two workers never compute for jobs with the     *)
(* same parameters, whatever the requests raced for and the writes did.    *)
InRun(w) == worker[w].pc \in {"lookup", "start", "progress", "simulate", "collect", "records",
                              "logs", "judge"}
NoDuplicateWork ==
    \A v, w \in Workers :
        InRun(v) /\ InRun(w) /\ v # w => ~SameParams(worker[v].job, worker[w].job)

(* What the records n of one of its cases are, if job j is complete: what   *)
(* the runner gives for the case, at least one record each time it occurs  *)
(* unless a result may have none; copies of a case that some job repeats   *)
(* are multiplied.  There are none if the job they were to be copied from  *)
(* has failed after it had succeeded.                                      *)
NeverRepeated(c) == \A k \in Jobs : params[k][c] <= 1
Withdrawn(c) == \E k \in Jobs : status[k] = "failed" /\ records[k][c] # Nothing
Accounts(j, c, n) ==
    \/ n = Nothing /\ Withdrawn(c)
    \/ /\ n.failed + n.good >= params[j][c] \/ 0 \in RowsPerCase
       /\ NeverRepeated(c) => n \in CaseOutcomes(1)

HasAll(j) == \A c \in CasesOf(j) : Accounts(j, c, records[j][c])

(* A succeeded job has the records of all its cases, and a result in one   *)
(* of them at least, whatever was skipped, copied or timed out.            *)
SucceededIsComplete == \A j \in Succeeded : AnyGood(records[j]) /\ HasAll(j)

(* The records of a job appear in one step, while it runs, and for all its *)
(* cases; after that they never change: not by a late write of a worker    *)
(* that has given up, and not when the job ends or is swept.               *)
WrittenOnce ==
    \A j \in Jobs : records'[j] # records[j] =>
        status[j] = "running" /\ records[j] = Blank /\ HasAll(j)'
RecordsWrittenOnce == [][WrittenOnce]_vars

(* The cases a worker skips have succeeded before: no record of a failed   *)
(* case is reused.                                                         *)
ReusedCasesSucceeded ==
    \A w \in Workers : worker[w].pc = "collect" =>
        \A c \in worker[w].cached : CachedRecords(c).failed = 0

(* The statuses move as promised. *)
ImplementsLifecycle == LifecycleSpec

(* A job in flight comes to an end, through whatever timeouts, failed      *)
(* writes, shutdowns and crashes, unless its last write raised and the     *)
(* server goes on.                                                         *)
EveryJobEnds ==
    \A j \in Jobs : InFlight(j) ~> (~InFlight(j) \/ j \in abandoned)

(* A job that is asked to stop while it runs does not succeed.             *)
CancelTakesEffect ==
    \A j \in Jobs :
        (flag[j] = "requested" /\ \E w \in Workers :
            worker[w].job = j /\ worker[w].pc \in {"progress", "simulate", "collect", "records",
                                                   "logs", "judge"})
        ~> (status[j] \in Terminal \ {"succeeded"} \/ j \in abandoned)
=============================================================================
