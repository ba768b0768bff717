--------------------------- MODULE BatchScheduler ---------------------------
(***************************************************************************)
(* serving_cast/engine.py: the continuous-batching schedulers of the       *)
(* engines, each with its waiting and running queue and its KV-cache pool  *)
(* (as KVPool: counts of slots and blocks).                                *)
(*                                                                         *)
(* Tasks of the simulator are cooperative: a scheduler keeps the processor *)
(* until it passivates (pc "idle") or lets simulated time elapse in        *)
(* process_batch (pc "execute"); "ready" is an activated scheduler that    *)
(* has not run yet.  Between those points its loop iterations are steps of *)
(* their own, and nobody else moves (Turn).  How long a batch takes is     *)
(* left open, so every order of completions is a behaviour.                *)
(*                                                                         *)
(* Requests reach an engine through Add and leave it finished, or, on a    *)
(* prefill engine, through the channel d2d that carries their KV cache to  *)
(* a decode engine.  Who calls Add is the business of the modules that     *)
(* use this one; Spec below lets requests arrive at any time.              *)
(***************************************************************************)
EXTENDS Request, KVBlocks, SequencesExt, Sums

CONSTANTS Engines,         (* the engines                                *)
          NumBlocks,       (* blocks of each engine's pool               *)
          MaxTokensBudget, (* tokens one batch may compute               *)
          KvTransferModes  (* choices of kv_modeling that are looked at  *)

ASSUME SchedulerAssumption ==
    /\ IsFiniteSet(Engines)
    /\ NumBlocks \in [Engines -> Nat]
    /\ MaxTokensBudget \in Nat /\ MaxTokensBudget >= DecodeQueryLen
    /\ KvTransferModes \in SUBSET BOOLEAN

VARIABLES req,         (* record of each request                           *)
          waiting,     (* waiting_queue of each engine                     *)
          running,     (* running_queue of each engine                     *)
          tracked,     (* keys of the requests dict of each engine         *)
          slots,       (* KV slots each request holds on each engine       *)
          free_blocks, (* free blocks of each engine's pool                *)
          sched,       (* where each scheduler is, and its locals          *)
          d2d,         (* KV transfers each engine still has to complete   *)
          kv_modeling  (* enable_kv_transfer_modeling: does sending a KV   *)
                       (* cache take time?  Set by the configuration       *)

schedVars == <<req, waiting, running, tracked, slots, free_blocks, sched, d2d, kv_modeling>>

Yielded == {"ready", "idle", "execute"}
Stages  == Yielded \cup {"running", "waiting", "decide", "post"}

(* index is the position in the running queue, batch the scheduled batch   *)
(* (in "post" what is left of it), preempted whether preempt_reqs is not   *)
(* empty.                                                                  *)
Locals == [pc : Stages, index : Nat, budget : Nat, preempted : BOOLEAN, batch : Seq(Requests)]

AtStage(e, s) == sched[e].pc = s

(* The locals at the top of _schedule. *)
NewPass == [pc |-> "running", index |-> 1, budget |-> MaxTokensBudget,
            preempted |-> FALSE, batch |-> <<>>]

(* The locals of a scheduler that is not inside _schedule. *)
Outside(stage, batch) == [pc |-> stage, index |-> 1, budget |-> MaxTokensBudget,
                          preempted |-> FALSE, batch |-> batch]

(* A transfer that takes no time is delivered before anything else.        *)
Delivered == kv_modeling \/ \A e \in Engines : d2d[e] = <<>>

(* Engine e may run: every other task is at a point where it yields.       *)
Turn(e) ==
    /\ \A f \in Engines \ {e} : sched[f].pc \in Yielded
    /\ Delivered

(* A task that is not a scheduler may run. *)
Quiet == \A e \in Engines : sched[e].pc \in Yielded

-----------------------------------------------------------------------------
(* KV pool of an engine.                                                   *)

Fits(e, r, n) == NewBlocks(slots[e][r], n) <= free_blocks[e]

(* A slip: the free slots of the last block are not used. *)
AllocateWholeBlocks(e, r, n) ==
    /\ slots' = [slots EXCEPT ![e][r] = @ + n]
    /\ free_blocks' = [free_blocks EXCEPT ![e] = @ - BlocksFor(n)]

Allocate(e, r, n) ==
    /\ slots' = [slots EXCEPT ![e][r] = @ + n]
    /\ free_blocks' = [free_blocks EXCEPT ![e] = @ - NewBlocks(slots[e][r], n)]

(* A slip: the partly filled last block is not given back. *)
ReleaseWholeBlocks(e, r) ==
    /\ slots' = [slots EXCEPT ![e][r] = 0]
    /\ free_blocks' = [free_blocks EXCEPT ![e] = @ + slots[e][r] \div BlockSize]

Release(e, r) ==
    /\ slots' = [slots EXCEPT ![e][r] = 0]
    /\ free_blocks' = [free_blocks EXCEPT ![e] = @ + BlocksFor(slots[e][r])]

Capacity(e) == NumBlocks[e] * BlockSize

-----------------------------------------------------------------------------
(* Work load and admission.                                                *)

(* get_work_load: tokens of requests that compute a prompt, one for each   *)
(* request that decodes.                                                   *)
RequestLoad(r) ==
    CASE req[r].state \in {"PREFILLING", "RECOMPUTATION"} -> InputTokens[r]
      [] req[r].state = "DECODING"                        -> 1
      [] OTHER                                            -> 0

WorkLoad(e) == SumOn([r \in Requests |-> RequestLoad(r)], tracked[e])

(* A slip: only the prompt must fit. *)
PromptAdmissible(e, r) == InputTokens[r] <= Capacity(e)

(* add: the peak of the request, prompt and output, must fit the pool. *)
Admissible(e, r) == InputTokens[r] + OutputTokens[r] <= Capacity(e)

(* A slip: a request that leaves stays in the requests dict. *)
UntrackedNever(e, r) == tracked

(* The requests dict without r. *)
Untracked(e, r) == [tracked EXCEPT ![e] = @ \ {r}]

(* add, once admitted: the request queues up and wakes a sleeping          *)
(* scheduler; q is its record.                                             *)
Add(e, r, q) ==
    /\ Admissible(e, r)
    /\ r \notin tracked[e]
    /\ req' = [req EXCEPT ![r] = q]
    /\ waiting' = [waiting EXCEPT ![e] = Append(@, r)]
    /\ tracked' = [tracked EXCEPT ![e] = @ \cup {r}]
    /\ sched' = IF AtStage(e, "idle") THEN [sched EXCEPT ![e].pc = "ready"] ELSE sched
    /\ UNCHANGED <<running, slots, free_blocks>>

-----------------------------------------------------------------------------
(* One pass of _schedule.                                                  *)

(* A slip: the budget does not limit a chunk. *)
ComputedWithoutBudget(e, r) == req[r].new_tokens

(* A slip: a chunk always takes the whole budget. *)
ComputedWholeBudget(e, r) == sched[e].budget

Computed(e, r) == Min2(sched[e].budget, req[r].new_tokens)

(* A slip: a decode window may be cut by the budget. *)
WindowNeverBlocked(e, r) == FALSE

(* A decode window is computed whole or not at all. *)
WindowBlocked(e, r) ==
    req[r].state = "DECODING" /\ sched[e].budget < req[r].new_tokens

(* A slip: slots for a whole decode window, rejected tokens included. *)
KvTokensOfWindow(e, r) == Computed(e, r)

KvTokens(e, r) == IF req[r].state = "DECODING" THEN req[r].accepted ELSE Computed(e, r)

Schedulable(e, r) == ~ WindowBlocked(e, r) /\ Fits(e, r, KvTokens(e, r))

(* Effect of scheduling r on its record, its slots and the batch. *)
Schedule(e, r) ==
    LET n == Computed(e, r)
    IN  /\ Allocate(e, r, KvTokens(e, r))
        /\ req' = [req EXCEPT ![r].query_len = n, ![r].seq_len = @ + n,
                              ![r].new_tokens = @ - n]
        /\ sched' = [sched EXCEPT ![e].budget = @ - n,
                                  ![e].batch = Append(@, r),
                                  ![e].index = IF AtStage(e, "running") THEN @ + 1 ELSE @]

(* An activated scheduler starts a pass. *)
Start(e) ==
    /\ AtStage(e, "ready") /\ Turn(e)
    /\ sched' = [sched EXCEPT ![e] = NewPass]
    /\ UNCHANGED <<req, waiting, running, tracked, slots, free_blocks, d2d, kv_modeling>>

(* The request at hand in the first loop. *)
Current(e) == running[e][sched[e].index]

InRunningLoop(e) ==
    /\ AtStage(e, "running")
    /\ sched[e].index <= Len(running[e])
    /\ sched[e].budget > 0

ScheduleRunning(e) ==
    /\ InRunningLoop(e)
    /\ Schedulable(e, Current(e))
    /\ Schedule(e, Current(e))
    /\ UNCHANGED <<waiting, running, tracked, d2d, kv_modeling>>

(* The record of a preempted request: everything is to be computed again. *)
PreemptedRecord(r) ==
    [req[r] EXCEPT !.state = "RECOMPUTATION",
                   !.new_tokens = InputTokens[r] + req[r].decoded,
                   !.seq_len = 0,
                   !.query_len = 0]

(* A slip: preempted requests queue up behind the others. *)
PutBackLast(e, r) == Append(waiting[e], r)

PutBack(e, r) == <<r>> \o waiting[e]

(* No slots for the request at hand: the last running request is put back  *)
(* at the head of the waiting queue, to be computed again from scratch.    *)
Preempt(e) ==
    LET victim == Last(running[e])
    IN  /\ InRunningLoop(e)
        /\ ~ WindowBlocked(e, Current(e))
        /\ ~ Fits(e, Current(e), KvTokens(e, Current(e)))
        /\ victim # Current(e)
        /\ running' = [running EXCEPT ![e] = RemoveFirst(@, victim)]
        /\ waiting' = [waiting EXCEPT ![e] = PutBack(e, victim)]
        /\ req' = [req EXCEPT ![victim] = PreemptedRecord(victim)]
        /\ Release(e, victim)
        /\ sched' = [sched EXCEPT ![e].preempted = TRUE, ![e].batch = RemoveFirst(@, victim)]
        /\ UNCHANGED <<tracked, d2d, kv_modeling>>

(* The first loop ends; the second one is for passes without preemption. *)
EndRunning(e) ==
    /\ AtStage(e, "running")
    /\ InRunningLoop(e) => \/ WindowBlocked(e, Current(e))
                           \/ /\ ~ Schedulable(e, Current(e))
                              /\ Last(running[e]) = Current(e)
    /\ sched' = [sched EXCEPT ![e].pc = IF sched[e].preempted THEN "decide" ELSE "waiting"]
    /\ UNCHANGED <<req, waiting, running, tracked, slots, free_blocks, d2d, kv_modeling>>

InWaitingLoop(e) ==
    /\ AtStage(e, "waiting")
    /\ waiting[e] # <<>>
    /\ sched[e].budget > 0

AwaitsKvs(r) ==
    /\ req[r].state = "KVS_TRANSFERRING"
    /\ req[r].need_kv_transfer
    /\ ~ req[r].kv_transfer_done

(* _receive_remote_kvs succeeds: slots for the prompt that was prefilled   *)
(* elsewhere; the request goes on as a decoding one.                       *)
ReceiveKvs(e) ==
    LET r == Head(waiting[e])
    IN  /\ InWaitingLoop(e)
        /\ AwaitsKvs(r)
        /\ Fits(e, r, InputTokens[r])
        /\ Allocate(e, r, InputTokens[r])
        /\ req' = [req EXCEPT ![r].kv_transfer_done = TRUE, ![r].state = "DECODING"]
        /\ UNCHANGED <<waiting, running, tracked, sched, d2d, kv_modeling>>

ScheduleWaiting(e) ==
    LET r == Head(waiting[e])
    IN  /\ InWaitingLoop(e)
        /\ ~ AwaitsKvs(r)
        /\ Schedulable(e, r)
        /\ Schedule(e, r)
        /\ waiting' = [waiting EXCEPT ![e] = Tail(@)]
        /\ running' = [running EXCEPT ![e] = Append(@, r)]
        /\ UNCHANGED <<tracked, d2d, kv_modeling>>

EndWaiting(e) ==
    /\ AtStage(e, "waiting")
    /\ InWaitingLoop(e) => LET r == Head(waiting[e])
                           IN  IF AwaitsKvs(r) THEN ~ Fits(e, r, InputTokens[r])
                               ELSE ~ Schedulable(e, r)
    /\ sched' = [sched EXCEPT ![e].pc = "decide"]
    /\ UNCHANGED <<req, waiting, running, tracked, slots, free_blocks, d2d, kv_modeling>>

(* The end of the pass: sleep if there is no request at all, run the batch *)
(* if there is one, and otherwise start over without yielding.             *)
Sleep(e) ==
    /\ AtStage(e, "decide")
    /\ running[e] = <<>> /\ waiting[e] = <<>>
    /\ sched' = [sched EXCEPT ![e] = Outside("idle", <<>>)]
    /\ UNCHANGED <<req, waiting, running, tracked, slots, free_blocks, d2d, kv_modeling>>

EndPass(e) ==
    /\ AtStage(e, "decide")
    /\ running[e] # <<>> \/ waiting[e] # <<>>
    /\ sched' = [sched EXCEPT ![e] = IF sched[e].batch # <<>> THEN Outside("execute", sched[e].batch)
                                     ELSE NewPass]
    /\ UNCHANGED <<req, waiting, running, tracked, slots, free_blocks, d2d, kv_modeling>>

-----------------------------------------------------------------------------
(* The batch has been processed: _postprocess_batch, request by request.   *)

ProcessBatch(e) ==
    /\ AtStage(e, "execute") /\ Turn(e)
    /\ sched' = [sched EXCEPT ![e].pc = "post"]
    /\ UNCHANGED <<req, waiting, running, tracked, slots, free_blocks, d2d, kv_modeling>>

InPost(e) == AtStage(e, "post") /\ sched[e].batch # <<>> /\ Delivered

NextInBatch(e) == sched' = [sched EXCEPT ![e].batch = Tail(@)]

(* Record of r after complete_generation_step; a decode gives back the     *)
(* part of its window that was not accepted.                               *)
Generated(r) ==
    LET q == CompleteGenerationStep(r, req[r])
    IN  IF req[r].state = "DECODING"
        THEN [q EXCEPT !.seq_len = @ - (q.query_len - GeneratedTokens(r, req[r]))]
        ELSE q

(* A slip: the last token is never generated. *)
CompleteTooSoon(r) == Generated(r).decoded + 1 >= OutputTokens[r]

(* The request has all its output tokens. *)
Complete(r) == Generated(r).decoded >= OutputTokens[r]

(* A chunk of a prompt has been computed: nothing to do yet. *)
PostChunked(e) ==
    /\ InPost(e)
    /\ req[Head(sched[e].batch)].new_tokens # 0
    /\ NextInBatch(e)
    /\ UNCHANGED <<req, waiting, running, tracked, slots, free_blocks, d2d, kv_modeling>>

(* The request is done. *)
PostFinished(e, r) ==
    /\ InPost(e) /\ r = Head(sched[e].batch)
    /\ req[r].new_tokens = 0
    /\ Complete(r)
    /\ LET q == IF req[r].state = "PREFILLING" THEN WithState(Generated(r), "PREFILL_DONE")
                ELSE Generated(r)
       IN  req' = [req EXCEPT ![r] = WithState(q, "DECODE_DONE")]
    /\ Release(e, r)
    /\ running' = [running EXCEPT ![e] = RemoveFirst(@, r)]
    /\ tracked' = Untracked(e, r)
    /\ NextInBatch(e)
    /\ UNCHANGED <<waiting, d2d, kv_modeling>>

Unfinished(r) ==
    /\ req[r].new_tokens = 0
    /\ ~ Complete(r)

(* A prefill engine hands the request over: its KV cache is sent away and  *)
(* its slots are released here.                                            *)
PostHandOff(e) ==
    LET r == Head(sched[e].batch)
    IN  /\ InPost(e)
        /\ Unfinished(r)
        /\ req[r].state = "PREFILLING" /\ req[r].need_kv_transfer
        /\ req' = [req EXCEPT ![r] = WithState(PrepareDecodeStep(r, Generated(r)), "PREFILL_DONE")]
        /\ running' = [running EXCEPT ![e] = RemoveFirst(@, r)]
        /\ Release(e, r)
        /\ d2d' = [d2d EXCEPT ![e] = Append(@, r)]
        /\ tracked' = Untracked(e, r)
        /\ NextInBatch(e)
        /\ UNCHANGED <<waiting, kv_modeling>>

(* The request goes on decoding on this engine. *)
PostDecoding(e) ==
    LET r == Head(sched[e].batch)
        q == PrepareDecodeStep(r, Generated(r))
    IN  /\ InPost(e)
        /\ Unfinished(r)
        /\ ~ (req[r].state = "PREFILLING" /\ req[r].need_kv_transfer)
        /\ req' = [req EXCEPT ![r] = IF req[r].state = "DECODING" THEN q
                                     ELSE WithState(WithState(q, "PREFILL_DONE"), "DECODING")]
        /\ NextInBatch(e)
        /\ UNCHANGED <<waiting, running, tracked, slots, free_blocks, d2d, kv_modeling>>

(* Back to the top of the scheduling loop. *)
EndPost(e) ==
    /\ AtStage(e, "post")
    /\ sched[e].batch = <<>>
    /\ Delivered
    /\ sched' = [sched EXCEPT ![e] = NewPass]
    /\ UNCHANGED <<req, waiting, running, tracked, slots, free_blocks, d2d, kv_modeling>>

-----------------------------------------------------------------------------

SchedInit ==
    /\ req = [r \in Requests |-> NewRequest(r)]
    /\ waiting = [e \in Engines |-> <<>>]
    /\ running = [e \in Engines |-> <<>>]
    /\ tracked = [e \in Engines |-> {}]
    /\ slots = [e \in Engines |-> [r \in Requests |-> 0]]
    /\ free_blocks = NumBlocks
    /\ sched = [e \in Engines |-> Outside("ready", <<>>)]
    /\ d2d = [e \in Engines |-> <<>>]
    /\ kv_modeling \in KvTransferModes

(* One request that has arrived is prefilled and decoded where it is. *)
Arrive(e, r) ==
    /\ Quiet
    /\ req[r].state = "INITIAL"
    /\ Add(e, r, WithState(req[r], "PREFILLING"))
    /\ UNCHANGED <<d2d, kv_modeling>>

(* Steps of engine e in which no request enters or leaves it. *)
Proceed(e) ==
    \/ Start(e)
    \/ ScheduleRunning(e) \/ Preempt(e) \/ EndRunning(e)
    \/ ScheduleWaiting(e) \/ EndWaiting(e)
    \/ Sleep(e) \/ EndPass(e)
    \/ ProcessBatch(e)
    \/ PostChunked(e) \/ PostDecoding(e) \/ EndPost(e)

(* Steps of engines between which requests are handed over. *)
HandOver(e) == ReceiveKvs(e) \/ PostHandOff(e)

Finished(r) == req[r].state = "DECODE_DONE"

(* The simulation is over. *)
Over ==
    /\ \A r \in Requests : Finished(r)
    /\ \A e \in Engines : AtStage(e, "idle")
    /\ UNCHANGED schedVars

SchedNext ==
    \/ \E e \in Engines : Proceed(e)
    \/ \E e \in Engines, r \in Requests : PostFinished(e, r)
    \/ \E e \in Engines, r \in Requests : Arrive(e, r)
    \/ Over

EngineFairness ==
    \A e \in Engines : WF_schedVars(Proceed(e) \/ \E r \in Requests : PostFinished(e, r))

SchedSpec == SchedInit /\ [][SchedNext]_schedVars /\ EngineFairness

-----------------------------------------------------------------------------
(* Properties                                                              *)

SchedTypeOK ==
    /\ req \in [Requests -> RequestRecords]
    /\ waiting \in [Engines -> Seq(Requests)]
    /\ running \in [Engines -> Seq(Requests)]
    /\ tracked \in [Engines -> SUBSET Requests]
    /\ slots \in [Engines -> [Requests -> Nat]]
    /\ free_blocks \in [Engines -> Nat]
    /\ sched \in [Engines -> Locals]
    /\ d2d \in [Engines -> Seq(Requests)]
    /\ kv_modeling \in KvTransferModes

(* The order in which engine e serves its requests. *)
Line(e) == running[e] \o waiting[e]
NextLine(e) == running'[e] \o waiting'[e]

(* The requests dict counts exactly the queued requests, and no request is *)
(* queued twice, here or on another engine, or both queued and on its way  *)
(* to one: the in-flight count that gates admission can be trusted.        *)
OnePlacePerRequest ==
    /\ \A e \in Engines : tracked[e] = ToSet(Line(e)) /\ IsInjective(Line(e))
    /\ \A e \in Engines : IsInjective(d2d[e])
    /\ \A e, f \in Engines : tracked[e] \cap ToSet(d2d[f]) = {}
    /\ \A e \in Engines : \A f \in Engines \ {e} :
          tracked[e] \cap tracked[f] = {} /\ ToSet(d2d[e]) \cap ToSet(d2d[f]) = {}

(* First come, first served: preempting, rescheduling and finishing never  *)
(* let a request overtake another one of the same engine.                  *)
NoOvertaking ==
    [][\A e \in Engines :
          \A i, j \in 1..Len(Line(e)) : \A k, l \in 1..Len(NextLine(e)) :
             (i < j /\ Line(e)[i] = NextLine(e)[k] /\ Line(e)[j] = NextLine(e)[l]) => k < l]_schedVars

(* The KV slots of a running request are the ones of its sequence, through *)
(* chunks, preemptions, recomputations and decode windows; between the     *)
(* scheduling of a window and the end of its step the sequence also counts *)
(* the tokens that will be rejected.                                       *)
SlotsMatchSequence ==
    \A e \in Engines, r \in Requests :
        LET q        == req[r]
            rejected == IF q.state = "DECODING" /\ q.new_tokens = 0 THEN q.query_len - q.accepted ELSE 0
        IN  IF r \in ToSet(running[e]) THEN slots[e][r] = q.seq_len - rejected
            ELSE slots[e][r] \in {0} \cup (IF r \in tracked[e] /\ q.kv_transfer_done
                                            THEN {q.seq_len} ELSE {})

(* No slot is lost or given twice, and a request never holds more than the *)
(* peak that admission checked, whatever was preempted and recomputed.     *)
PoolAccounts ==
    \A e \in Engines :
        /\ free_blocks[e] + SumOn([r \in Requests |-> BlocksFor(slots[e][r])], Requests) = NumBlocks[e]
        /\ \A r \in Requests : slots[e][r] <= InputTokens[r] + OutputTokens[r]

(* A batch never computes more tokens than the budget. *)
BudgetRespected ==
    \A e \in Engines : AtStage(e, "execute") =>
        SumOn([r \in Requests |-> req[r].query_len], ToSet(sched[e].batch)) <= MaxTokensBudget

(* The assertions in the loops of the scheduler hold: requests at hand     *)
(* have tokens to compute, batches hold requests that compute, each once,  *)
(* and decode windows are whole.  (What add raises for an id in use needs  *)
(* OnePlacePerRequest; a transfer that ends is Serving's business.)        *)
NoSchedulerError ==
    \A e \in Engines :
        /\ InRunningLoop(e) => Computed(e, Current(e)) > 0
        /\ InWaitingLoop(e) => Computed(e, Head(waiting[e])) > 0
        /\ IsInjective(sched[e].batch)
        /\ sched[e].pc \in {"execute", "post"} =>
              \A r \in ToSet(sched[e].batch) :
                 /\ r \in ToSet(running[e])
                 /\ req[r].state \in {"PREFILLING", "DECODING", "RECOMPUTATION"}
                 /\ req[r].query_len <= req[r].seq_len
                 /\ req[r].state = "DECODING" =>
                       req[r].new_tokens = 0 /\ req[r].query_len = DecodeQueryLen

(* The pool of engine e, as the KV-cache manager promises it; no call asks *)
(* for more slots than the pool has.                                       *)
EnginePool(e) == INSTANCE KVPool WITH
    slots        <- slots[e],
    free_blocks  <- free_blocks[e],
    NumBlocks    <- NumBlocks[e],
    MaxNewTokens <- Capacity(e)

(* A step calls the KV-cache manager of an engine at most once, and only   *)
(* as the manager allows it: for at least one slot, as many as the pool    *)
(* has blocks for, or to take back everything a request holds.             *)
UsesPools ==
    /\ \A e \in Engines : EnginePool(e)!PoolInit
    /\ [][\A e \in Engines : [EnginePool(e)!PoolNext]_(EnginePool(e)!poolVars)]_schedVars

(* A pass over a non-empty engine schedules something: otherwise the       *)
(* scheduler would loop without ever letting simulated time elapse.        *)
PassMakesProgress ==
    \A e \in Engines : AtStage(e, "decide") /\ Line(e) # <<>> => sched[e].batch # <<>>

(* A finished request has generated the tokens it was asked for, no more   *)
(* and no less, and holds nothing any more.                                *)
ExactOutput ==
    \A r \in Requests : Finished(r) =>
        /\ req[r].decoded = OutputTokens[r]
        /\ \A e \in Engines : slots[e][r] = 0 /\ r \notin tracked[e]

(* predict_next_batch of the model runner never meets a sequence longer    *)
(* than a request's last step can have.                                    *)
PredictableBatch ==
    \A e \in Engines : AtStage(e, "execute") =>
        \A r \in ToSet(sched[e].batch) :
            req[r].seq_len <= InputTokens[r] + OutputTokens[r] - 1

(* Every request that has arrived is finished in the end. *)
EveryRequestFinishes ==
    \A r \in Requests : req[r].state # "INITIAL" ~> Finished(r)
=============================================================================
