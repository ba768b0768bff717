---------------------------- MODULE WorkloadReuse ----------------------------
(***************************************************************************)
(* The workers of a multi-device search and their shared WorkloadCache:    *)
(* ParallelRunner._build_model_runner and WorkloadReuseModelRunner.        *)
(*                                                                         *)
(* Each hardware profile is one round.  In a round every pool of worker    *)
(* processes (one, or one for prefill and one for decode) goes through its *)
(* queue of tasks.  A task builds a runner for its model, from the cached  *)
(* template or, if there is none, from a model of its own, and runs one    *)
(* inference per workload: from the cache, by capturing the workload under *)
(* a lease, or directly when a wait was in vain.  Computations may take    *)
(* any time and may fail; a worker may be killed, which ends its pool.     *)
(***************************************************************************)
EXTENDS WorkloadCache

CONSTANTS Pools,  (* pools of worker processes                            *)
          PoolOf, (* the pool of each worker                              *)
          Rounds  (* for each hardware profile, the tasks of each pool    *)

Tasks == [model : Models, keys : Seq(Workloads)]

ASSUME ReuseAssumption ==
    /\ PoolOf \in [Workers -> Pools]
    /\ Rounds \in Seq([Pools -> Seq(Tasks)]) /\ Rounds # <<>>

VARIABLES round,  (* the current hardware profile                         *)
          queue,  (* tasks of the round each pool has not yet started     *)
          failed, (* pools in which a task has raised or a worker died    *)
          worker  (* where each worker is in its task                     *)

taskVars == <<round, queue, failed>>
vars == <<stored, lru, current_bytes, inflight, stale, round, queue, failed, worker>>

Stages == {"idle", "lookup", "build", "attach", "register", "claim", "wait",
           "capture", "direct", "dead"}

(* keys are the workloads still to be run, own whether the task has a      *)
(* model of its own (_capture_runner).                                     *)
Locals == [pc : Stages, model : Models, keys : Seq(Workloads), own : BOOLEAN]

At(w, s) == worker[w].pc = s
Key(w)   == Head(worker[w].keys)

Goto(w, s) == worker' = [worker EXCEPT ![w].pc = s]

(* A task ends when all its inferences are done. *)
After(keys) == IF keys = <<>> THEN "idle" ELSE "claim"

(* The inference at hand has its metrics. *)
Answered(w) == worker' = [worker EXCEPT ![w].keys = Tail(@), ![w].pc = After(Tail(worker[w].keys))]

(* The task raises. *)
TaskFails(w) ==
    /\ Goto(w, "idle")
    /\ failed' = failed \cup {PoolOf[w]}
    /\ UNCHANGED <<round, queue>>

(* An exception in a task: a parallel configuration that is not supported  *)
(* skips the task, any other one fails it.                                 *)
Raises(w) == (Goto(w, "idle") /\ UNCHANGED taskVars) \/ TaskFails(w)

(* A latency is estimated from a stored workload. *)
Estimated(w) == (Answered(w) /\ UNCHANGED taskVars) \/ Raises(w)

-----------------------------------------------------------------------------

TakeTask(w) ==
    LET p == PoolOf[w]
        t == Head(queue[p])
    IN  /\ At(w, "idle")
        /\ queue[p] # <<>>
        /\ worker' = [worker EXCEPT ![w] = [pc |-> "lookup", model |-> t.model,
                                            keys |-> t.keys, own |-> FALSE]]
        /\ queue' = [queue EXCEPT ![p] = Tail(@)]
        /\ UNCHANGED <<round, failed>> /\ UNCHANGED cacheVars

(* _build_model_runner asks whether there is a template. *)
LookUp(w) ==
    /\ At(w, "lookup")
    /\ GetTemplate(worker[w].model)
    /\ Goto(w, IF Template(worker[w].model) \in stored THEN "attach" ELSE "build")
    /\ UNCHANGED taskVars

(* _get_model_runnner makes a model, or none and the candidate is skipped, *)
(* or raises.                                                              *)
BuildModel(w) ==
    /\ At(w, "build")
    /\ \/ worker' = [worker EXCEPT ![w].pc = "attach", ![w].own = TRUE] /\ UNCHANGED taskVars
       \/ Raises(w)
    /\ UNCHANGED cacheVars

(* WorkloadReuseModelRunner.__init__ reads the template again. *)
Attach(w) ==
    /\ At(w, "attach")
    /\ GetTemplate(worker[w].model)
    /\ worker[w].own \/ Template(worker[w].model) \in stored
    /\ Goto(w, IF worker[w].own THEN "register" ELSE After(worker[w].keys))
    /\ UNCHANGED taskVars

(* There is neither a template any more nor a model: a ValueError. *)
AttachFails(w) ==
    /\ At(w, "attach")
    /\ GetTemplate(worker[w].model)
    /\ ~ worker[w].own /\ Template(worker[w].model) \notin stored
    /\ TaskFails(w)

(* The template of the new model is stored, or it is not portable, which   *)
(* three kinds of exceptions say (others end the task, as StrategyRaises). *)
Register(w) ==
    /\ At(w, "register")
    /\ SetTemplate(worker[w].model) \/ UNCHANGED cacheVars
    /\ Goto(w, After(worker[w].keys))
    /\ UNCHANGED taskVars

(* The search strategy raises between two inferences. *)
StrategyRaises(w) == At(w, "claim") /\ Raises(w) /\ UNCHANGED cacheVars

(* run_inference up to the answer of claim_workload. *)
Claim(w) ==
    /\ At(w, "claim")
    /\ \/ ClaimHit(Key(w)) /\ Estimated(w)
       \/ ClaimWait(Key(w)) /\ Goto(w, "wait") /\ UNCHANGED taskVars
       \/ ClaimOwner(w, Key(w)) /\ Goto(w, "capture") /\ UNCHANGED taskVars

(* wait_workload returns a workload to estimate from, or None. *)
Wait(w) ==
    /\ At(w, "wait")
    /\ WaitWorkload(Key(w))
    /\ IF Workload(Key(w)) \in stored THEN Estimated(w)
       ELSE Goto(w, "direct") /\ UNCHANGED taskVars

(* _ensure_capture_runner makes the task's own model. *)
OwnModel(w) ==
    /\ At(w, "capture") \/ At(w, "direct")
    /\ ~ worker[w].own
    /\ SetTemplate(worker[w].model)
    /\ worker' = [worker EXCEPT ![w].own = TRUE]
    /\ UNCHANGED taskVars

(* The capture has run and its workload is portable. *)
Publish(w) ==
    /\ At(w, "capture") /\ worker[w].own
    /\ PublishWorkload(w, Key(w))
    /\ Answered(w)
    /\ UNCHANGED taskVars

(* A WorkloadFreezeError, with metrics or before there are any. *)
NotPortable(w) ==
    /\ At(w, "capture") /\ worker[w].own
    /\ AbandonWorkload(w, Key(w))
    /\ Answered(w) \/ Goto(w, "direct")
    /\ UNCHANGED taskVars

(* Any other exception of the capture, or an interruption of the worker.   *)
CaptureFails(w) ==
    /\ At(w, "capture")
    /\ AbandonWorkload(w, Key(w))
    /\ Raises(w)

(* A direct run without lease; making the model for it or running it may   *)
(* raise.                                                                  *)
DirectRun(w) ==
    /\ At(w, "direct")
    /\ \/ worker[w].own /\ Answered(w) /\ UNCHANGED taskVars
       \/ Raises(w)
    /\ UNCHANGED cacheVars

(* The worker process is killed in the middle of a task; the executor      *)
(* finds its pool broken and terminates the other workers of the pool.     *)
Killed(w) ==
    /\ worker[w].pc \notin {"idle", "dead"}
    /\ worker' = [v \in Workers |-> IF PoolOf[v] = PoolOf[w] THEN [worker[v] EXCEPT !.pc = "dead"]
                                    ELSE worker[v]]
    /\ queue' = [queue EXCEPT ![PoolOf[w]] = <<>>]
    /\ failed' = failed \cup {PoolOf[w]}
    /\ UNCHANGED round /\ UNCHANGED cacheVars

(* The main process comes to the result of a task that raised, and the     *)
(* tasks not yet started are cancelled: results are read in the order of   *)
(* the tasks, and workers are handed tasks ahead, so that any number of    *)
(* later tasks may have been started by then.                              *)
CancelRest(p) ==
    /\ p \in failed
    /\ queue[p] # <<>>
    /\ queue' = [queue EXCEPT ![p] = <<>>]
    /\ UNCHANGED <<round, failed, worker>> /\ UNCHANGED cacheVars

RoundOver ==
    /\ \A p \in Pools : queue[p] = <<>>
    /\ \A w \in Workers : At(w, "idle") \/ At(w, "dead")

(* The next hardware profile. *)
NextRound ==
    /\ RoundOver
    /\ failed = {}
    /\ round < Len(Rounds)
    /\ round' = round + 1
    /\ queue' = Rounds[round + 1]
    /\ UNCHANGED <<failed, worker>> /\ UNCHANGED cacheVars

SearchOver == RoundOver /\ (failed # {} \/ round = Len(Rounds))

-----------------------------------------------------------------------------

Init ==
    /\ CacheInit
    /\ round = 1
    /\ queue = Rounds[1]
    /\ failed = {}
    /\ worker \in [Workers -> {[pc |-> "idle", model |-> CHOOSE m \in Models : TRUE,
                                keys |-> <<>>, own |-> FALSE]}]

(* What a worker does of itself. *)
WorkerStep(w) ==
    \/ TakeTask(w)
    \/ LookUp(w) \/ BuildModel(w) \/ Attach(w) \/ AttachFails(w) \/ Register(w)
    \/ StrategyRaises(w) \/ Claim(w) \/ Wait(w) \/ OwnModel(w)
    \/ Publish(w) \/ NotPortable(w) \/ CaptureFails(w) \/ DirectRun(w)

Next ==
    \/ \E w \in Workers : WorkerStep(w)
    \/ \E w \in Workers : Killed(w)
    \/ \E p \in Pools : CancelRest(p)
    \/ \E k \in Workloads : LeaseAges(k) /\ UNCHANGED <<round, queue, failed, worker>>
    \/ NextRound
    \/ SearchOver /\ UNCHANGED vars

(* Computations take finite time, and time passes. *)
Fairness ==
    /\ \A w \in Workers : WF_vars(WorkerStep(w))
    /\ \A k \in Workloads : WF_vars(LeaseAges(k) /\ UNCHANGED <<round, queue, failed, worker>>)
    /\ WF_vars(NextRound)

Spec == Init /\ [][Next]_vars /\ Fairness

-----------------------------------------------------------------------------
(* Properties                                                              *)

TaskTypeOK ==
    /\ round \in 1..Len(Rounds)
    /\ queue \in [Pools -> Seq(Tasks)]
    /\ failed \in SUBSET Pools
    /\ worker \in [Workers -> Locals]

TypeOK == EntryTypeOK /\ LeaseTypeOK /\ TaskTypeOK

(* A worker at an inference has a workload to run. *)
HasKey == \A w \in Workers : worker[w].pc \in {"claim", "wait", "capture", "direct"} => worker[w].keys # <<>>

Capturing(w, k) == worker[w].keys # <<>> /\ Key(w) = k /\ worker[w].pc \in {"capture", "dead"}

(* No lease leaks: whoever holds one is still capturing that workload, or  *)
(* was killed while doing so; every way out of a capture gives it back.    *)
(* And a workload that is stored is not being captured under a lease.      *)
LeaseIsHeld ==
    \A k \in Workloads : inflight[k] # NoOne =>
        /\ Capturing(inflight[k], k)
        /\ Workload(k) \notin stored

(* A lease ends by a step of its owner or because it is too old: a worker  *)
(* whose own lease has been taken away neither publishes under the lease   *)
(* of its successor nor gives that one back.                               *)
LeaseEndsByOwnerOrAge ==
    [][\A k \in Workloads :
          (inflight[k] # NoOne /\ inflight'[k] # inflight[k])
             => k \in stale \/ worker'[inflight[k]] # worker[inflight[k]]]_vars

(* Entries are dropped only to make room for one that comes in and stays;  *)
(* the oldest go first, and no more than needed: with the youngest of them *)
(* the cache would still be beyond a limit.                                *)
EvictsLittle ==
    LET dropped == {i \in DOMAIN lru : lru[i] \in stored \ stored'}
        kept    == {i \in DOMAIN lru : lru[i] \in stored'}
    IN  /\ \A i \in dropped, j \in kept : i < j
        /\ \A i \in dropped : (\A j \in dropped : j <= i) =>
              \/ Cardinality(stored') + 1 > MaxEntries
              \/ current_bytes' + Size[lru[i]] > MaxBytes
        /\ dropped # {} => stored' \ stored # {}

EvictionIsMinimal == [][EvictsLittle]_vars

(* A runner that counted on the cached template finds it: the exception of *)
(* WorkloadReuseModelRunner.__init__ is never raised.                      *)
TemplateStillThere ==
    \A w \in Workers : At(w, "attach") /\ ~ worker[w].own => Template(worker[w].model) \in stored

(* The search ends, whichever worker is killed and whatever fails: nobody  *)
(* waits for ever for a capture that is not going to be published.         *)
SearchEnds == <>SearchOver
=============================================================================
