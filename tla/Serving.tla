------------------------------ MODULE Serving ------------------------------
(***************************************************************************)
(* serving_cast/serving.py, instance.py, communication.py and the client   *)
(* loop of utils.py: requests are admitted through a concurrency gate,     *)
(* dispatched to the least loaded instance and engine, and, when prefill   *)
(* and decode are disaggregated, handed over from a prefill to a decode    *)
(* engine through the sender's device-to-device channel.                   *)
(*                                                                         *)
(* An instance is the sequence of its engines.  Without decode instances   *)
(* this is PdAggregationServing, with them PdDisaggregationServing.        *)
(* The rate of the load generator and the client's polling interval only   *)
(* delay the next admission, so the client admits its next request at any  *)
(* time the gate is open.                                                  *)
(***************************************************************************)
EXTENDS BatchScheduler

CONSTANTS Loads,            (* sequences of requests the client may have     *)
          PrefillInstances, (* instances that requests are served on first   *)
          DecodeInstances,  (* instances for decoding, if disaggregated      *)
          MaxConcurrency    (* requests the client may have in service       *)

EnginesOf(instances) == UNION {ToSet(instances[i]) : i \in DOMAIN instances}

(* An instance has at least one engine, and no engine belongs to a prefill *)
(* and a decode instance.                                                  *)
ASSUME ServingAssumption ==
    /\ \A load \in Loads : load \in Seq(Requests) /\ IsInjective(load)
    /\ MaxConcurrency \in Nat \ {0}
    /\ PrefillInstances # <<>>
    /\ \A instances \in {PrefillInstances, DecodeInstances} :
          /\ instances \in Seq(Seq(Engines))
          /\ \A i \in DOMAIN instances : instances[i] # <<>>
    /\ EnginesOf(PrefillInstances) \cap EnginesOf(DecodeInstances) = {}

VARIABLES pending, (* requests that are still at the client                 *)
          active,  (* active_requests: in service and not finished          *)
          halted   (* an exception has ended the simulation                 *)

clientVars == <<pending, active, halted>>
vars == <<req, waiting, running, tracked, slots, free_blocks, sched, d2d, kv_modeling,
          pending, active, halted>>

Disaggregated == DecodeInstances # <<>>

-----------------------------------------------------------------------------
(* Load balancers.                                                         *)

(* work_loads.index(min(work_loads)): first index of the smallest load. *)
LeastLoaded(work_loads) ==
    CHOOSE i \in DOMAIN work_loads :
        /\ \A j \in DOMAIN work_loads : work_loads[i] <= work_loads[j]
        /\ \A j \in 1..i-1 : work_loads[i] < work_loads[j]

InstanceLoad(instance) == SumOn([e \in Engines |-> WorkLoad(e)], ToSet(instance))

(* The engine a request is dispatched to. *)
Selected(instances) ==
    LET instance == instances[LeastLoaded([i \in 1..Len(instances) |-> InstanceLoad(instances[i])])]
    IN  instance[LeastLoaded([i \in 1..Len(instance) |-> WorkLoad(instance[i])])]

-----------------------------------------------------------------------------
(* The client and the concurrency gate.                                    *)

InFlight == SumOn([e \in Engines |-> Cardinality(tracked[e])], Engines)

(* A slip: requests on their way to a decode engine are not counted. *)
ExceedByEnginesOnly == InFlight >= MaxConcurrency

ExceedConcurrencyLimit == Max2(Cardinality(active), InFlight) >= MaxConcurrency

(* A slip: the prefill engine is not told to hand the request over. *)
ServedWithoutTransfer(r) == WithState(req[r], "PREFILLING")

ServedRecord(r) == [WithState(req[r], "PREFILLING") EXCEPT !.need_kv_transfer = Disaggregated]

(* The client's next request leaves it and queues up on an engine. *)
Serve ==
    /\ Quiet /\ Delivered
    /\ pending # <<>>
    /\ ~ ExceedConcurrencyLimit
    /\ Add(Selected(PrefillInstances), Head(pending), ServedRecord(Head(pending)))
    /\ pending' = Tail(pending)
    /\ active' = active \cup {Head(pending)}
    /\ UNCHANGED <<d2d, kv_modeling, halted>>

(* The engine refuses a request that can never fit its pool: serve takes   *)
(* it out of the active requests and the exception ends the simulation.    *)
ServeRefused ==
    /\ Quiet /\ Delivered
    /\ pending # <<>>
    /\ ~ ExceedConcurrencyLimit
    /\ ~ Admissible(Selected(PrefillInstances), Head(pending))
    /\ req' = [req EXCEPT ![Head(pending)] = ServedRecord(Head(pending))]
    /\ pending' = Tail(pending)
    /\ halted' = TRUE
    /\ UNCHANGED <<waiting, running, tracked, slots, free_blocks, sched, d2d, kv_modeling, active>>

-----------------------------------------------------------------------------
(* The hand-over from a prefill to a decode engine.                        *)

(* The channel of engine e, or e itself when transfers take no time, may   *)
(* deliver the first transfer.                                             *)
CanDeliver(e) ==
    /\ d2d[e] # <<>>
    /\ kv_modeling => Quiet

Deliver(e) ==
    LET r == Head(d2d[e])
    IN  /\ CanDeliver(e)
        /\ Add(Selected(DecodeInstances), r, WithState(req[r], "KVS_TRANSFERRING"))
        /\ d2d' = [d2d EXCEPT ![e] = Tail(@)]
        /\ UNCHANGED <<kv_modeling, clientVars>>

DeliverRefused(e) ==
    LET r == Head(d2d[e])
    IN  /\ CanDeliver(e)
        /\ ~ Admissible(Selected(DecodeInstances), r)
        /\ req' = [req EXCEPT ![r] = WithState(@, "KVS_TRANSFERRING")]
        /\ d2d' = [d2d EXCEPT ![e] = Tail(@)]
        /\ halted' = TRUE
        /\ UNCHANGED <<waiting, running, tracked, slots, free_blocks, sched, kv_modeling,
                       pending, active>>

(* decode_done_signal: the request leaves the active ones. *)
Finish(e, r) ==
    /\ PostFinished(e, r)
    /\ active' = active \ {r}
    /\ UNCHANGED <<pending, halted>>

-----------------------------------------------------------------------------

Init ==
    /\ SchedInit
    /\ pending \in Loads
    /\ active = {}
    /\ halted = FALSE

EngineStep(e) ==
    /\ ~ halted
    /\ \/ ((Proceed(e) \/ HandOver(e)) /\ UNCHANGED clientVars)
       \/ \E r \in Requests : Finish(e, r)

ClientStep == ~ halted /\ (Serve \/ ServeRefused)

ChannelStep(e) == ~ halted /\ (Deliver(e) \/ DeliverRefused(e))

(* The client has seen all its requests finished, or an exception has been *)
(* raised: the simulation has ended.                                       *)
Ended ==
    /\ \/ halted
       \/ /\ pending = <<>>
          /\ active = {}
          /\ \A e \in Engines : AtStage(e, "idle")
    /\ UNCHANGED vars

Next ==
    \/ \E e \in Engines : EngineStep(e)
    \/ \E e \in Engines : ChannelStep(e)
    \/ ClientStep
    \/ Ended

(* A started computation, transfer or poll takes a finite time. *)
Fairness ==
    /\ \A e \in Engines : WF_vars(EngineStep(e)) /\ WF_vars(ChannelStep(e))
    /\ WF_vars(ClientStep)

Spec == Init /\ [][Next]_vars /\ Fairness

-----------------------------------------------------------------------------
(* Properties                                                              *)

TypeOK ==
    /\ SchedTypeOK
    /\ pending \in Seq(Requests)
    /\ active \in SUBSET Requests
    /\ halted \in BOOLEAN

(* The gate counts every request in service, also one that is in no engine *)
(* because its KV cache is on the way, and the limit is never exceeded.    *)
GateIsTight ==
    /\ ~ halted => active = UNION {tracked[e] \cup ToSet(d2d[e]) : e \in Engines}
    /\ Cardinality(active) <= MaxConcurrency
    /\ InFlight <= MaxConcurrency

(* Prefill engines only prefill: they never preempt a request and never    *)
(* decode one.  Decode engines never compute a prompt that was not         *)
(* preempted there.                                                        *)
StagesSeparated ==
    Disaggregated =>
        /\ \A e \in EnginesOf(PrefillInstances) : \A r \in tracked[e] :
              req[r].state = "PREFILLING"
        /\ \A e \in EnginesOf(DecodeInstances) : \A r \in tracked[e] :
              /\ req[r].state \in {"KVS_TRANSFERRING", "DECODING", "RECOMPUTATION"}
              /\ req[r].decoded >= 1

(* The pool of every engine that decodes holds at once the peaks of as     *)
(* many requests as the gate lets in, whichever of those that fit it they  *)
(* are.                                                                    *)
DecodingEngines == IF Disaggregated THEN Engines \ EnginesOf(PrefillInstances) ELSE Engines

AmplePools ==
    \A e \in DecodingEngines :
        \A S \in SUBSET {r \in Requests : InputTokens[r] + OutputTokens[r] <= Capacity(e)} :
            Cardinality(S) <= MaxConcurrency =>
                SumOn([r \in Requests |-> BlocksFor(InputTokens[r] + OutputTokens[r])], S) <= NumBlocks[e]

AllFinished == pending = <<>> /\ \A r \in Requests : req[r].state = "INITIAL" \/ Finished(r)

(* No engine on the way of request r can hold its prompt and output. *)
FitsNowhere(r) ==
    \E instances \in {PrefillInstances, DecodeInstances} :
        /\ instances # <<>>
        /\ \A e \in EnginesOf(instances) : BlocksFor(InputTokens[r] + OutputTokens[r]) > NumBlocks[e]

(* The simulation always ends: all requests the client had are served and  *)
(* finished, or an exception names one that can never fit a pool.  No      *)
(* scheduler spins on a request, none is forgotten in a transfer.          *)
SimulationEnds == <>(AllFinished \/ (halted /\ \E r \in Requests : FitsNowhere(r)))
=============================================================================
