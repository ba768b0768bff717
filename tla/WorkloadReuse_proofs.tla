------------------------ MODULE WorkloadReuse_proofs ------------------------
(***************************************************************************)
(* Proofs about the shared workload cache, for any workers, pools, tasks,  *)
(* sizes and limits: first its leases, for which it plays no part what is  *)
(* evicted (storing an entry adds no other one), then its accounts and     *)
(* evictions, which rest on the leases: a worker that publishes a workload *)
(* is the one that captures it.                                            *)
(***************************************************************************)
EXTENDS WorkloadReuse, Collections_proofs

(* The inductive invariant: a lease is only claimed for the workload at    *)
(* hand, so workers must have one, and workers hold no lease unless they   *)
(* capture.                                                                *)
Inv == LeaseTypeOK /\ TaskTypeOK /\ HasKey /\ LeaseIsHeld

-----------------------------------------------------------------------------
(* What calls of the cache may do to the entries.                          *)

LEMMA StoreAddsOne ==
  ASSUME NEW e, Store(e)
  PROVE  stored' \subseteq stored \cup {e}
BY DEF Store

LEMMA SetTemplateEffect ==
  ASSUME NEW m, SetTemplate(m)
  PROVE  /\ UNCHANGED leaseVars
         /\ \A k \in Workloads : Workload(k) \in stored' => Workload(k) \in stored
<1>1. \A k : Workload(k) # Template(m)
  BY DEF Workload, Template
<1>2. stored' \subseteq stored \cup {Template(m)}
  BY StoreAddsOne DEF SetTemplate, Use
<1> QED BY <1>1, <1>2 DEF SetTemplate

LEMMA PublishEffect ==
  ASSUME LeaseTypeOK, NEW w \in Workers, NEW k \in Workloads, PublishWorkload(w, k)
  PROVE  /\ inflight[k] # w => UNCHANGED <<stored, inflight, stale>>
         /\ inflight[k] = w => /\ inflight' = [inflight EXCEPT ![k] = NoOne]
                               /\ stale' = stale \ {k}
                               /\ stored' \subseteq stored \cup {Workload(k)}
<1>1. CASE inflight[k] # w
  BY <1>1 DEF PublishWorkload, Owns, cacheVars
<1>2. CASE inflight[k] = w
  <2>1. Release(k) /\ (UNCHANGED entryVars \/ Store(Workload(k)))
    BY <1>2 DEF PublishWorkload, Owns
  <2>2. stored' \subseteq stored \cup {Workload(k)}
    BY <2>1, StoreAddsOne DEF entryVars
  <2> QED BY <1>2, <2>1, <2>2 DEF Release
<1> QED BY <1>1, <1>2

LEMMA WorkloadsDiffer ==
  ASSUME NEW j, NEW k, Workload(j) = Workload(k)
  PROVE  j = k
BY DEF Workload

-----------------------------------------------------------------------------
(* What a step does to the worker that takes it.                           *)

LEMMA GotoEffect ==
  ASSUME TaskTypeOK, NEW w \in Workers, NEW s \in Stages, Goto(w, s)
  PROVE  /\ worker' \in [Workers -> Locals]
         /\ worker'[w].pc = s
         /\ worker'[w].keys = worker[w].keys
         /\ \A v \in Workers \ {w} : worker'[v] = worker[v]
BY DEF Goto, TaskTypeOK, Locals

LEMMA AnsweredEffect ==
  ASSUME TaskTypeOK, NEW w \in Workers, worker[w].keys # <<>>, Answered(w)
  PROVE  /\ worker' \in [Workers -> Locals]
         /\ worker'[w].pc \in {"idle", "claim"}
         /\ worker'[w].pc = "claim" => worker'[w].keys # <<>>
         /\ \A v \in Workers \ {w} : worker'[v] = worker[v]
<1> DEFINE rest == Tail(worker[w].keys)
<1>1. worker[w].keys \in Seq(Workloads) /\ worker \in [Workers -> Locals]
  BY DEF TaskTypeOK, Locals
<1>2. rest \in Seq(Workloads)
  BY <1>1
<1>3. /\ After(rest) \in {"idle", "claim"}
      /\ After(rest) = "claim" => rest # <<>>
  BY DEF After
<1>4. worker' = [worker EXCEPT ![w].keys = rest, ![w].pc = After(rest)]
  BY DEF Answered
<1> HIDE DEF rest
<1>5. After(rest) \in Stages
  BY <1>3 DEF Stages
<1> QED BY <1>1, <1>2, <1>3, <1>4, <1>5 DEF Locals

LEMMA TaskFailsEffect ==
  ASSUME TaskTypeOK, NEW w \in Workers, TaskFails(w)
  PROVE  /\ TaskTypeOK'
         /\ worker'[w].pc = "idle"
         /\ \A v \in Workers \ {w} : worker'[v] = worker[v]
<1>1. "idle" \in Stages /\ Goto(w, "idle")
  BY DEF Stages, TaskFails
<1>2. /\ worker' \in [Workers -> Locals]
      /\ worker'[w].pc = "idle"
      /\ \A v \in Workers \ {w} : worker'[v] = worker[v]
  BY <1>1, GotoEffect
<1>3. PoolOf[w] \in Pools
  BY ReuseAssumption
<1>4. queue' \in [Pools -> Seq(Tasks)] /\ failed' \in SUBSET Pools
  BY <1>3 DEF TaskFails, TaskTypeOK
<1> QED BY <1>2, <1>4 DEF TaskTypeOK, TaskFails

LEMMA RaisesEffect ==
  ASSUME TaskTypeOK, NEW w \in Workers, Raises(w)
  PROVE  /\ TaskTypeOK'
         /\ worker'[w].pc = "idle"
         /\ \A v \in Workers \ {w} : worker'[v] = worker[v]
<1>1. CASE Goto(w, "idle") /\ UNCHANGED taskVars
  <2>1. "idle" \in Stages
    BY DEF Stages
  <2> QED BY <1>1, <2>1, GotoEffect DEF TaskTypeOK, taskVars
<1> QED BY <1>1, TaskFailsEffect DEF Raises

LEMMA EstimatedEffect ==
  ASSUME TaskTypeOK, NEW w \in Workers, worker[w].keys # <<>>, Estimated(w)
  PROVE  /\ TaskTypeOK'
         /\ worker'[w].pc \in {"idle", "claim"}
         /\ worker'[w].pc = "claim" => worker'[w].keys # <<>>
         /\ \A v \in Workers \ {w} : worker'[v] = worker[v]
<1>1. CASE Answered(w) /\ UNCHANGED taskVars
  BY <1>1, AnsweredEffect DEF TaskTypeOK, taskVars
<1> QED BY <1>1, RaisesEffect DEF Estimated

(* A worker that is not capturing holds no lease. *)
LEMMA EmptyHanded ==
  ASSUME Inv, NEW w \in Workers, worker[w].pc \notin {"capture", "dead"}
  PROVE  \A k \in Workloads : inflight[k] # w
BY CacheAssumption DEF Inv, LeaseIsHeld, Capturing

(* And a capturing one only the lease of its workload. *)
LEMMA OneLease ==
  ASSUME Inv, NEW w \in Workers, NEW k \in Workloads, inflight[k] = w
  PROVE  Key(w) = k /\ worker[w].pc \in {"capture", "dead"}
BY CacheAssumption DEF Inv, LeaseIsHeld, Capturing

(* The invariant after a step of w, from what the step does to w, to its   *)
(* leases and to those of the others.                                      *)
LEMMA InvAfterStepOf ==
  ASSUME Inv, NEW w \in Workers, LeaseTypeOK', TaskTypeOK',
         \A v \in Workers \ {w} : worker'[v] = worker[v],
         worker'[w].pc \in {"claim", "wait", "capture", "direct"} => worker'[w].keys # <<>>,
         \A k \in Workloads : inflight'[k] \notin {NoOne, w} =>
             inflight'[k] = inflight[k] /\ (Workload(k) \in stored' => Workload(k) \in stored),
         \A k \in Workloads : inflight'[k] = w => Capturing(w, k)' /\ Workload(k) \notin stored'
  PROVE  Inv'
<1>1. HasKey'
  BY DEF Inv, HasKey
<1>2. ASSUME NEW k \in Workloads, inflight'[k] # NoOne
      PROVE  (Capturing(inflight[k], k) /\ Workload(k) \notin stored)'
  <2>1. CASE inflight'[k] = w
    BY <2>1 DEF Capturing, Key
  <2>2. CASE inflight'[k] # w
    <3>1. inflight'[k] = inflight[k] /\ inflight[k] \in Workers \ {w}
      BY <1>2, <2>2 DEF LeaseTypeOK
    <3>2. Capturing(inflight[k], k) /\ Workload(k) \notin stored
      BY <1>2, <3>1 DEF Inv, LeaseIsHeld
    <3>3. Workload(k) \notin stored'
      BY <1>2, <2>2, <3>2
    <3>4. worker'[inflight'[k]] = worker[inflight[k]]
      BY <3>1
    <3> QED BY <3>1, <3>2, <3>3, <3>4 DEF Capturing, Key
  <2> QED BY <2>1, <2>2 DEF Capturing, Key
<1>3. LeaseIsHeld'
  BY <1>2 DEF LeaseIsHeld, Capturing, Key
<1> QED BY <1>1, <1>3 DEF Inv

(* A step of a worker that does not capture, which leaves the leases alone *)
(* and stores no workload.                                                 *)
LEMMA InvAfterPlainStep ==
  ASSUME Inv, NEW w \in Workers, TaskTypeOK', UNCHANGED leaseVars,
         worker[w].pc \notin {"capture", "dead"},
         \A v \in Workers \ {w} : worker'[v] = worker[v],
         worker'[w].pc \in {"claim", "wait", "capture", "direct"} => worker'[w].keys # <<>>,
         \A k \in Workloads : Workload(k) \in stored' => Workload(k) \in stored
  PROVE  Inv'
<1>1. LeaseTypeOK' /\ inflight' = inflight
  BY DEF Inv, LeaseTypeOK, leaseVars
<1>2. \A k \in Workloads : inflight'[k] # w
  BY <1>1, EmptyHanded
<1> QED BY <1>1, <1>2, InvAfterStepOf

(* After(keys) leads to an inference only if there is one. *)
LEMMA AfterStage ==
  ASSUME NEW keys
  PROVE  /\ After(keys) \in {"idle", "claim"}
         /\ After(keys) \in Stages
         /\ After(keys) = "claim" => keys # <<>>
BY DEF After, Stages

-----------------------------------------------------------------------------
(* One lemma per action of a worker, or per group of like ones.            *)

LEMMA TakeTaskKeeps ==
  ASSUME Inv, NEW w \in Workers, TakeTask(w)
  PROVE  Inv'
<1> DEFINE p == PoolOf[w]
           t == Head(queue[p])
<1>1. p \in Pools
  BY ReuseAssumption
<1>2. queue[p] \in Seq(Tasks) /\ queue[p] # <<>>
  BY <1>1 DEF TakeTask, Inv, TaskTypeOK
<1>3. t \in Tasks /\ Tail(queue[p]) \in Seq(Tasks)
  BY <1>2
<1>4. [pc |-> "lookup", model |-> t.model, keys |-> t.keys, own |-> FALSE] \in Locals
  <2>1. t.model \in Models /\ t.keys \in Seq(Workloads)
    BY <1>3 DEF Tasks
  <2>2. "lookup" \in Stages
    BY DEF Stages
  <2> HIDE DEF t
  <2> QED BY <2>1, <2>2 DEF Locals
<1>5. /\ worker' = [worker EXCEPT ![w] = [pc |-> "lookup", model |-> t.model,
                                         keys |-> t.keys, own |-> FALSE]]
      /\ queue' = [queue EXCEPT ![p] = Tail(queue[p])]
      /\ UNCHANGED <<round, failed, stored, inflight, stale>>
      /\ worker[w].pc = "idle"
  BY DEF TakeTask, cacheVars, At
<1>6. worker \in [Workers -> Locals] /\ queue \in [Pools -> Seq(Tasks)]
  BY DEF Inv, TaskTypeOK
<1> HIDE DEF p, t
<1>7. worker' \in [Workers -> Locals] /\ queue' \in [Pools -> Seq(Tasks)]
  BY <1>1, <1>3, <1>4, <1>5, <1>6
<1>8. TaskTypeOK'
  BY <1>5, <1>7 DEF Inv, TaskTypeOK
<1>9. worker'[w].pc = "lookup" /\ \A v \in Workers \ {w} : worker'[v] = worker[v]
  BY <1>5, <1>6
<1> QED BY <1>5, <1>8, <1>9, InvAfterPlainStep DEF leaseVars

LEMMA LookUpKeeps ==
  ASSUME Inv, NEW w \in Workers, LookUp(w)
  PROVE  Inv'
<1>1. PICK s \in {"attach", "build"} : Goto(w, s)
  BY DEF LookUp
<1>2. s \in Stages
  BY DEF Stages
<1>3. /\ worker' \in [Workers -> Locals]
      /\ worker'[w].pc = s
      /\ \A v \in Workers \ {w} : worker'[v] = worker[v]
  BY <1>1, <1>2, GotoEffect DEF Inv
<1>4. TaskTypeOK' /\ UNCHANGED leaseVars /\ stored' = stored /\ worker[w].pc = "lookup"
  BY <1>3 DEF LookUp, GetTemplate, Use, taskVars, Inv, TaskTypeOK, At
<1> QED BY <1>3, <1>4, InvAfterPlainStep

LEMMA BuildModelKeeps ==
  ASSUME Inv, NEW w \in Workers, BuildModel(w)
  PROVE  Inv'
<1>1. UNCHANGED leaseVars /\ stored' = stored /\ worker[w].pc = "build"
  BY DEF BuildModel, cacheVars, leaseVars, At
<1>2. /\ TaskTypeOK'
      /\ worker'[w].pc \in {"attach", "idle"}
      /\ \A v \in Workers \ {w} : worker'[v] = worker[v]
  <2>1. CASE worker' = [worker EXCEPT ![w].pc = "attach", ![w].own = TRUE] /\ UNCHANGED taskVars
    <3>1. "attach" \in Stages /\ worker \in [Workers -> Locals]
      BY DEF Stages, Inv, TaskTypeOK
    <3>2. /\ worker' \in [Workers -> Locals]
          /\ worker'[w].pc = "attach"
          /\ \A v \in Workers \ {w} : worker'[v] = worker[v]
      BY <2>1, <3>1 DEF Locals
    <3> QED BY <2>1, <3>2 DEF Inv, TaskTypeOK, taskVars
  <2>2. CASE Raises(w)
    BY <2>2, RaisesEffect DEF Inv
  <2> QED BY <2>1, <2>2 DEF BuildModel
<1> QED BY <1>1, <1>2, InvAfterPlainStep

LEMMA AttachKeeps ==
  ASSUME Inv, NEW w \in Workers, Attach(w) \/ Register(w)
  PROVE  Inv'
<1> DEFINE s == IF Attach(w) /\ worker[w].own THEN "register" ELSE After(worker[w].keys)
<1>1. Goto(w, s) /\ worker[w].pc \in {"attach", "register"} /\ UNCHANGED taskVars
  BY DEF Attach, Register, At
<1>2. UNCHANGED leaseVars /\ \A k \in Workloads : Workload(k) \in stored' => Workload(k) \in stored
  BY SetTemplateEffect DEF Attach, Register, GetTemplate, Use, cacheVars, leaseVars
<1>3. s \in Stages /\ s \in {"register", "idle", "claim"} /\ (s = "claim" => worker[w].keys # <<>>)
  BY AfterStage DEF Stages
<1> HIDE DEF s
<1>4. /\ worker' \in [Workers -> Locals]
      /\ worker'[w].pc = s
      /\ worker'[w].keys = worker[w].keys
      /\ \A v \in Workers \ {w} : worker'[v] = worker[v]
  BY <1>1, <1>3, GotoEffect DEF Inv
<1>5. TaskTypeOK'
  BY <1>1, <1>4 DEF Inv, TaskTypeOK, taskVars
<1> QED BY <1>1, <1>2, <1>3, <1>4, <1>5, InvAfterPlainStep

LEMMA AttachFailsKeeps ==
  ASSUME Inv, NEW w \in Workers, AttachFails(w)
  PROVE  Inv'
<1>1. UNCHANGED leaseVars /\ stored' = stored /\ worker[w].pc = "attach"
  BY DEF AttachFails, GetTemplate, Use, At
<1> QED BY <1>1, TaskFailsEffect, InvAfterPlainStep DEF Inv, AttachFails

LEMMA ClaimKeeps ==
  ASSUME Inv, NEW w \in Workers, Claim(w)
  PROVE  Inv'
<1> DEFINE k == Key(w)
<1>1. worker[w].pc = "claim" /\ worker[w].keys # <<>>
  BY DEF Claim, At, Inv, HasKey
<1>2. k \in Workloads
  BY <1>1 DEF Inv, TaskTypeOK, Locals, Key
<1>3. CASE ClaimHit(k) /\ Estimated(w)
  <2>1. UNCHANGED leaseVars /\ stored' = stored
    BY <1>3 DEF ClaimHit, Use
  <2>2. /\ TaskTypeOK'
        /\ worker'[w].pc \in {"idle", "claim"}
        /\ worker'[w].pc = "claim" => worker'[w].keys # <<>>
        /\ \A v \in Workers \ {w} : worker'[v] = worker[v]
    BY <1>1, <1>3, EstimatedEffect DEF Inv
  <2> QED BY <1>1, <2>1, <2>2, InvAfterPlainStep
<1>4. ASSUME NEW s \in {"wait", "capture"}, Goto(w, s), UNCHANGED taskVars
      PROVE  /\ TaskTypeOK'
             /\ worker'[w].pc = s
             /\ worker'[w].keys = worker[w].keys
             /\ \A v \in Workers \ {w} : worker'[v] = worker[v]
  <2>1. s \in Stages
    BY <1>4 DEF Stages
  <2>2. /\ worker' \in [Workers -> Locals]
        /\ worker'[w].pc = s
        /\ worker'[w].keys = worker[w].keys
        /\ \A v \in Workers \ {w} : worker'[v] = worker[v]
    BY <1>4, <2>1, GotoEffect DEF Inv
  <2> QED BY <1>4, <2>2 DEF Inv, TaskTypeOK, taskVars
<1>5. CASE ClaimWait(k) /\ Goto(w, "wait") /\ UNCHANGED taskVars
  <2>1. UNCHANGED leaseVars /\ stored' = stored
    BY <1>5 DEF ClaimWait, cacheVars, leaseVars
  <2>2. /\ TaskTypeOK'
        /\ worker'[w].pc = "wait"
        /\ worker'[w].keys = worker[w].keys
        /\ \A v \in Workers \ {w} : worker'[v] = worker[v]
    BY <1>4, <1>5
  <2> QED BY <1>1, <2>1, <2>2, InvAfterPlainStep
<1>6. CASE ClaimOwner(w, k) /\ Goto(w, "capture") /\ UNCHANGED taskVars
  <2>1. /\ inflight' = [inflight EXCEPT ![k] = w]
        /\ stale' = stale \ {k}
        /\ stored' = stored
        /\ Workload(k) \notin stored
    BY <1>6 DEF ClaimOwner, entryVars
  <2>2. /\ TaskTypeOK'
        /\ worker'[w].pc = "capture"
        /\ worker'[w].keys = worker[w].keys
        /\ \A v \in Workers \ {w} : worker'[v] = worker[v]
    BY <1>4, <1>6
  <2>3. LeaseTypeOK'
    BY <2>1 DEF Inv, LeaseTypeOK
  <2>4. \A j \in Workloads \ {k} : inflight'[j] = inflight[j] /\ inflight[j] # w
    BY <1>1, <2>1, EmptyHanded DEF Inv, LeaseTypeOK
  <2>5. inflight'[k] = w
    BY <1>2, <2>1 DEF Inv, LeaseTypeOK
  <2>6. Key(w)' = k
    BY <2>2 DEF Key
  <2> HIDE DEF k
  <2>7. \A j \in Workloads : inflight'[j] = w => j = k
    BY <2>4
  <2>8. \A j \in Workloads : inflight'[j] = w => (Capturing(w, j) /\ Workload(j) \notin stored)'
    BY <1>1, <2>1, <2>2, <2>6, <2>7 DEF Capturing, Key
  <2>9. \A j \in Workloads : inflight'[j] \notin {NoOne, w} =>
           inflight'[j] = inflight[j] /\ (Workload(j) \in stored' => Workload(j) \in stored)
    BY <2>1, <2>4, <2>5
  <2> QED BY <1>1, <2>2, <2>3, <2>8, <2>9, InvAfterStepOf
<1> QED BY <1>3, <1>5, <1>6 DEF Claim

LEMMA WaitKeeps ==
  ASSUME Inv, NEW w \in Workers, Wait(w)
  PROVE  Inv'
<1> DEFINE k == Key(w)
<1>1. worker[w].pc = "wait" /\ worker[w].keys # <<>>
  BY DEF Wait, At, Inv, HasKey
<1>2. k \in Workloads
  BY <1>1 DEF Inv, TaskTypeOK, Locals, Key
<1>3. /\ inflight' = [inflight EXCEPT ![k] = NoOne]
      /\ stale' = stale \ {k}
      /\ stored' = stored
  BY DEF Wait, WaitWorkload, Use, Release
<1>4. Estimated(w) \/ (Goto(w, "direct") /\ UNCHANGED taskVars)
  BY DEF Wait
<1> HIDE DEF k
<1>5. /\ TaskTypeOK'
      /\ worker'[w].pc \in {"idle", "claim", "direct"}
      /\ worker'[w].pc \in {"claim", "direct"} => worker'[w].keys # <<>>
      /\ \A v \in Workers \ {w} : worker'[v] = worker[v]
  <2>1. "direct" \in Stages
    BY DEF Stages
  <2>2. CASE Estimated(w)
    BY <1>1, <2>2, EstimatedEffect DEF Inv
  <2>3. CASE Goto(w, "direct") /\ UNCHANGED taskVars
    BY <1>1, <2>1, <2>3, GotoEffect DEF Inv, TaskTypeOK, taskVars
  <2> QED BY <1>4, <2>2, <2>3
<1>7. LeaseTypeOK'
  BY <1>3 DEF Inv, LeaseTypeOK
<1>8. \A j \in Workloads : inflight'[j] # NoOne => inflight'[j] = inflight[j] /\ inflight[j] # w
  BY <1>1, <1>3, EmptyHanded DEF Inv, LeaseTypeOK
<1>9. \A j \in Workloads : inflight'[j] # w
  BY <1>8, CacheAssumption
<1> QED BY <1>3, <1>5, <1>7, <1>8, <1>9, InvAfterStepOf

LEMMA OwnModelKeeps ==
  ASSUME Inv, NEW w \in Workers, OwnModel(w)
  PROVE  Inv'
<1>1. /\ worker' = [worker EXCEPT ![w].own = TRUE]
      /\ worker[w].pc \in {"capture", "direct"}
      /\ worker \in [Workers -> Locals]
      /\ UNCHANGED taskVars
  BY DEF OwnModel, At, Inv, TaskTypeOK
<1>2. /\ inflight' = inflight /\ stale' = stale
      /\ \A k \in Workloads : Workload(k) \in stored' => Workload(k) \in stored
  BY SetTemplateEffect DEF OwnModel, leaseVars
<1>3. /\ worker' \in [Workers -> Locals]
      /\ worker'[w].pc = worker[w].pc
      /\ worker'[w].keys = worker[w].keys
      /\ \A v \in Workers \ {w} : worker'[v] = worker[v]
  BY <1>1 DEF Locals
<1>4. TaskTypeOK' /\ LeaseTypeOK'
  BY <1>1, <1>2, <1>3 DEF Inv, TaskTypeOK, taskVars, LeaseTypeOK
<1>5. worker[w].keys # <<>>
  BY <1>1 DEF Inv, HasKey
<1>6. \A k \in Workloads : inflight'[k] = w => (Capturing(w, k) /\ Workload(k) \notin stored)'
  <2> SUFFICES ASSUME NEW k \in Workloads, inflight[k] = w
               PROVE  (Capturing(w, k) /\ Workload(k) \notin stored)'
    BY <1>2
  <2>1. Capturing(w, k) /\ Workload(k) \notin stored
    BY CacheAssumption DEF Inv, LeaseIsHeld
  <2> QED BY <1>2, <1>3, <2>1 DEF Capturing, Key
<1> QED BY <1>2, <1>3, <1>4, <1>5, <1>6, InvAfterStepOf

(* What ends a capture gives the lease back if it is still there, and      *)
(* touches no other one; publishing stores no workload but its own.        *)
LEMMA InvAfterCapture ==
  ASSUME Inv, NEW w \in Workers, worker[w].pc = "capture", TaskTypeOK',
         \A v \in Workers \ {w} : worker'[v] = worker[v],
         worker'[w].pc \in {"idle", "claim", "direct"},
         worker'[w].pc \in {"claim", "direct"} => worker'[w].keys # <<>>,
         inflight[Key(w)] # w => UNCHANGED <<stored, inflight, stale>>,
         inflight[Key(w)] = w => /\ inflight' = [inflight EXCEPT ![Key(w)] = NoOne]
                                 /\ stale' = stale \ {Key(w)}
                                 /\ stored' \subseteq stored \cup {Workload(Key(w))}
  PROVE  Inv'
<1>1. CASE inflight[Key(w)] # w
  <2>1. stored' = stored /\ inflight' = inflight /\ stale' = stale
    BY <1>1
  <2>2. LeaseTypeOK'
    BY <2>1 DEF Inv, LeaseTypeOK
  <2>3. \A j \in Workloads : inflight'[j] # w
    BY <1>1, <2>1, OneLease
  <2> QED BY <2>1, <2>2, <2>3, InvAfterStepOf
<1>2. CASE inflight[Key(w)] = w
  <2> DEFINE k == Key(w)
  <2>1. /\ inflight' = [inflight EXCEPT ![k] = NoOne]
        /\ stale' = stale \ {k}
        /\ stored' \subseteq stored \cup {Workload(k)}
    BY <1>2
  <2>2. \A j \in Workloads : inflight[j] = w => j = k
    BY OneLease
  <2> HIDE DEF k
  <2>3. LeaseTypeOK'
    BY <2>1 DEF Inv, LeaseTypeOK
  <2>4. \A j \in Workloads : inflight'[j] # NoOne => j # k /\ inflight'[j] = inflight[j] /\ inflight[j] # w
    BY <2>1, <2>2 DEF Inv, LeaseTypeOK
  <2>5. \A j \in Workloads : inflight'[j] # w
    BY <2>4, CacheAssumption
  <2>6. \A j \in Workloads : j # k => (Workload(j) \in stored' => Workload(j) \in stored)
    BY <2>1, WorkloadsDiffer
  <2> QED BY <2>3, <2>4, <2>5, <2>6, InvAfterStepOf
<1> QED BY <1>1, <1>2

(* AbandonWorkload as InvAfterCapture wants it. *)
LEMMA AbandonEffect ==
  ASSUME NEW w, NEW k, AbandonWorkload(w, k)
  PROVE  /\ inflight[k] # w => UNCHANGED <<stored, inflight, stale>>
         /\ inflight[k] = w => /\ inflight' = [inflight EXCEPT ![k] = NoOne]
                               /\ stale' = stale \ {k}
                               /\ stored' \subseteq stored \cup {Workload(k)}
BY DEF AbandonWorkload, Owns, Release, leaseVars, entryVars

LEMMA PublishKeeps ==
  ASSUME Inv, NEW w \in Workers, Publish(w) \/ NotPortable(w)
  PROVE  Inv'
<1>1. worker[w].pc = "capture" /\ worker[w].keys # <<>> /\ UNCHANGED taskVars
  BY DEF Publish, NotPortable, At, Inv, HasKey
<1>2. Key(w) \in Workloads
  BY <1>1 DEF Inv, TaskTypeOK, Locals, Key
<1>3. /\ inflight[Key(w)] # w => UNCHANGED <<stored, inflight, stale>>
      /\ inflight[Key(w)] = w => /\ inflight' = [inflight EXCEPT ![Key(w)] = NoOne]
                                 /\ stale' = stale \ {Key(w)}
                                 /\ stored' \subseteq stored \cup {Workload(Key(w))}
  <2>1. CASE Publish(w)
    BY <1>2, <2>1, PublishEffect DEF Publish, Inv
  <2>2. CASE NotPortable(w)
    BY <2>2, AbandonEffect DEF NotPortable
  <2> QED BY <2>1, <2>2
<1>4. Answered(w) \/ Goto(w, "direct")
  BY DEF Publish, NotPortable
<1>5. /\ worker' \in [Workers -> Locals]
      /\ worker'[w].pc \in {"idle", "claim", "direct"}
      /\ worker'[w].pc \in {"claim", "direct"} => worker'[w].keys # <<>>
      /\ \A v \in Workers \ {w} : worker'[v] = worker[v]
  <2>1. "direct" \in Stages
    BY DEF Stages
  <2>2. CASE Answered(w)
    BY <1>1, <2>2, AnsweredEffect DEF Inv
  <2>3. CASE Goto(w, "direct")
    BY <1>1, <2>1, <2>3, GotoEffect DEF Inv
  <2> QED BY <1>4, <2>2, <2>3
<1>6. TaskTypeOK'
  BY <1>1, <1>5 DEF Inv, TaskTypeOK, taskVars
<1> QED BY <1>1, <1>3, <1>5, <1>6, InvAfterCapture

LEMMA CaptureFailsKeeps ==
  ASSUME Inv, NEW w \in Workers, CaptureFails(w)
  PROVE  Inv'
<1>1. worker[w].pc = "capture" /\ AbandonWorkload(w, Key(w)) /\ Raises(w)
  BY DEF CaptureFails, At
<1>2. /\ TaskTypeOK'
      /\ worker'[w].pc = "idle"
      /\ \A v \in Workers \ {w} : worker'[v] = worker[v]
  BY <1>1, RaisesEffect DEF Inv
<1>3. /\ inflight[Key(w)] # w => UNCHANGED <<stored, inflight, stale>>
      /\ inflight[Key(w)] = w => /\ inflight' = [inflight EXCEPT ![Key(w)] = NoOne]
                                 /\ stale' = stale \ {Key(w)}
                                 /\ stored' \subseteq stored \cup {Workload(Key(w))}
  BY <1>1, AbandonEffect
<1> QED BY <1>1, <1>2, <1>3, InvAfterCapture

LEMMA DirectRunKeeps ==
  ASSUME Inv, NEW w \in Workers, DirectRun(w) \/ StrategyRaises(w)
  PROVE  Inv'
<1>1. /\ worker[w].pc \in {"direct", "claim"} /\ worker[w].keys # <<>>
      /\ UNCHANGED leaseVars /\ stored' = stored
  BY DEF DirectRun, StrategyRaises, At, Inv, HasKey, cacheVars, leaseVars
<1>2. CASE Raises(w)
  BY <1>1, <1>2, RaisesEffect, InvAfterPlainStep DEF Inv
<1>3. CASE Answered(w) /\ UNCHANGED taskVars
  <2>1. /\ worker' \in [Workers -> Locals]
        /\ worker'[w].pc \in {"idle", "claim"}
        /\ worker'[w].pc = "claim" => worker'[w].keys # <<>>
        /\ \A v \in Workers \ {w} : worker'[v] = worker[v]
    BY <1>1, <1>3, AnsweredEffect DEF Inv
  <2>2. TaskTypeOK'
    BY <1>3, <2>1 DEF Inv, TaskTypeOK, taskVars
  <2> QED BY <1>1, <2>1, <2>2, InvAfterPlainStep
<1> QED BY <1>2, <1>3 DEF DirectRun, StrategyRaises

-----------------------------------------------------------------------------
(* Steps that are not a worker's own.                                      *)

(* A killed worker keeps its lease, and the workload it was capturing. *)
LEMMA KilledKeeps ==
  ASSUME Inv, NEW w \in Workers, Killed(w)
  PROVE  Inv'
<1>1. /\ worker' = [v \in Workers |-> IF PoolOf[v] = PoolOf[w] THEN [worker[v] EXCEPT !.pc = "dead"]
                                      ELSE worker[v]]
      /\ queue' = [queue EXCEPT ![PoolOf[w]] = <<>>]
      /\ failed' = failed \cup {PoolOf[w]}
      /\ round' = round /\ stored' = stored /\ inflight' = inflight /\ stale' = stale
      /\ worker \in [Workers -> Locals]
      /\ PoolOf[w] \in Pools
  BY ReuseAssumption DEF Killed, cacheVars, Inv, TaskTypeOK
<1>2. "dead" \in Stages
  BY DEF Stages
<1>3. \A v \in Workers : /\ worker'[v] \in Locals
                         /\ worker'[v].keys = worker[v].keys
                         /\ worker'[v].pc \in {worker[v].pc, "dead"}
  BY <1>1, <1>2 DEF Locals
<1>4. worker' \in [Workers -> Locals]
  BY <1>1, <1>3
<1>5. queue' \in [Pools -> Seq(Tasks)] /\ failed' \in SUBSET Pools
  BY <1>1 DEF Inv, TaskTypeOK
<1>6. TaskTypeOK' /\ LeaseTypeOK'
  BY <1>1, <1>4, <1>5 DEF Inv, TaskTypeOK, LeaseTypeOK
<1>7. HasKey'
  BY <1>3 DEF Inv, HasKey
<1>8. ASSUME NEW k \in Workloads, inflight[k] # NoOne
      PROVE  (Capturing(inflight[k], k) /\ Workload(k) \notin stored)'
  <2>1. inflight[k] \in Workers
    BY <1>8 DEF Inv, LeaseTypeOK
  <2>2. Capturing(inflight[k], k) /\ Workload(k) \notin stored
    BY <1>8 DEF Inv, LeaseIsHeld
  <2> QED BY <1>1, <1>3, <2>1, <2>2 DEF Capturing, Key
<1>9. LeaseIsHeld'
  BY <1>1, <1>8 DEF LeaseIsHeld, Capturing, Key
<1> QED BY <1>6, <1>7, <1>9 DEF Inv

LEMMA LeaseAgesKeeps ==
  ASSUME Inv, NEW k \in Workloads, LeaseAges(k), UNCHANGED <<round, queue, failed, worker>>
  PROVE  Inv'
<1>1. LeaseTypeOK'
  BY DEF LeaseAges, Inv, LeaseTypeOK
<1> QED BY <1>1 DEF LeaseAges, Inv, TaskTypeOK, HasKey, LeaseIsHeld, Capturing, Key

LEMMA CancelRestKeeps ==
  ASSUME Inv, NEW p \in Pools, CancelRest(p)
  PROVE  Inv'
<1>1. TaskTypeOK'
  BY DEF CancelRest, Inv, TaskTypeOK
<1> QED BY <1>1 DEF CancelRest, cacheVars, Inv, LeaseTypeOK, HasKey, LeaseIsHeld, Capturing, Key

LEMMA NextRoundKeeps ==
  ASSUME Inv, NextRound
  PROVE  Inv'
<1>1. /\ round' = round + 1 /\ round < Len(Rounds)
      /\ queue' = Rounds[round + 1]
      /\ UNCHANGED <<failed, worker, stored, inflight, stale>>
  BY DEF NextRound, cacheVars
<1>2. round + 1 \in 1..Len(Rounds)
  BY <1>1, ReuseAssumption DEF Inv, TaskTypeOK
<1>3. Rounds[round + 1] \in [Pools -> Seq(Tasks)]
  BY <1>2, ReuseAssumption
<1>4. TaskTypeOK'
  BY <1>1, <1>2, <1>3 DEF Inv, TaskTypeOK
<1> QED BY <1>1, <1>4 DEF Inv, LeaseTypeOK, HasKey, LeaseIsHeld, Capturing, Key

-----------------------------------------------------------------------------
(* The invariant, and what follows from it.                                *)

LEMMA InitInv ==
  ASSUME Init
  PROVE  Inv
<1>1. LeaseTypeOK /\ \A k \in Workloads : inflight[k] = NoOne
  BY DEF Init, CacheInit, LeaseTypeOK
<1> DEFINE start == [pc |-> "idle", model |-> CHOOSE m \in Models : TRUE,
                     keys |-> <<>>, own |-> FALSE]
<1>2. start \in Locals
  <2>1. (CHOOSE m \in Models : TRUE) \in Models
    BY CacheAssumption
  <2>2. "idle" \in Stages
    BY DEF Stages
  <2> QED BY <2>1, <2>2 DEF Locals
<1>3. worker \in [Workers -> {start}]
  BY DEF Init
<1>4. \A w \in Workers : worker[w].pc = "idle"
  BY <1>3
<1> HIDE DEF start
<1>5. worker \in [Workers -> Locals]
  BY <1>2, <1>3
<1>6. 1 \in 1..Len(Rounds) /\ Rounds[1] \in [Pools -> Seq(Tasks)]
  BY ReuseAssumption
<1>7. TaskTypeOK
  BY <1>5, <1>6 DEF Init, TaskTypeOK
<1> QED BY <1>1, <1>4, <1>7 DEF Inv, HasKey, LeaseIsHeld

LEMMA NextInv ==
  ASSUME Inv, [Next]_vars
  PROVE  Inv'
<1>1. ASSUME NEW w \in Workers, WorkerStep(w)
      PROVE  Inv'
  BY <1>1, TakeTaskKeeps, LookUpKeeps, BuildModelKeeps, AttachKeeps, AttachFailsKeeps, ClaimKeeps,
     WaitKeeps, OwnModelKeeps, PublishKeeps, CaptureFailsKeeps, DirectRunKeeps DEF WorkerStep
<1>2. CASE UNCHANGED vars
  BY <1>2 DEF vars, Inv, LeaseTypeOK, TaskTypeOK, HasKey, LeaseIsHeld, Capturing, Key
<1> QED BY <1>1, <1>2, KilledKeeps, LeaseAgesKeeps, CancelRestKeeps, NextRoundKeeps DEF Next

(* No lease of the cache leaks: its holder is still capturing that         *)
(* workload, or was killed while doing so (LeaseIsHeld).                   *)
THEOREM NoLeaseLeaks == Spec => []LeaseIsHeld
<1>1. Inv => LeaseIsHeld
  BY DEF Inv
<1> QED BY InitInv, NextInv, <1>1, PTL DEF Spec

-----------------------------------------------------------------------------
(* How a lease may end.                                                    *)

EndsRightly(k) ==
    (inflight[k] # NoOne /\ inflight'[k] # inflight[k])
        => k \in stale \/ worker'[inflight[k]] # worker[inflight[k]]

(* A worker only ends leases that are too old, or its own at the end of    *)
(* the capture.                                                            *)
LEMMA WorkerEndsRightly ==
  ASSUME Inv, NEW w \in Workers, WorkerStep(w), NEW k \in Workloads
  PROVE  EndsRightly(k)
<1> SUFFICES ASSUME inflight[k] # NoOne, inflight'[k] # inflight[k]
             PROVE  k \in stale \/ worker'[inflight[k]] # worker[inflight[k]]
  BY DEF EndsRightly
<1>1. inflight \in [Workloads -> Workers \cup {NoOne}]
  BY DEF Inv, LeaseTypeOK
<1>2. CASE \/ TakeTask(w) \/ LookUp(w) \/ BuildModel(w) \/ Attach(w) \/ AttachFails(w)
           \/ Register(w) \/ OwnModel(w) \/ DirectRun(w) \/ StrategyRaises(w)
  <2>1. inflight' = inflight
    BY <1>2, SetTemplateEffect
       DEF TakeTask, LookUp, BuildModel, Attach, AttachFails, Register, OwnModel, DirectRun,
           StrategyRaises, GetTemplate, cacheVars, leaseVars
  <2> QED BY <2>1
<1>3. CASE Claim(w)
  <2>1. \/ inflight' = inflight
        \/ inflight' = [inflight EXCEPT ![Key(w)] = w] /\ Unclaimed(Key(w))
    BY <1>3 DEF Claim, ClaimHit, ClaimWait, ClaimOwner, cacheVars, leaseVars
  <2> QED BY <1>1, <2>1 DEF Unclaimed
<1>4. CASE Wait(w)
  <2>1. inflight' = [inflight EXCEPT ![Key(w)] = NoOne] /\ Unclaimed(Key(w))
    BY <1>4 DEF Wait, WaitWorkload, WaitOver, Release
  <2> QED BY <1>1, <2>1 DEF Unclaimed
<1>5. CASE Publish(w) \/ NotPortable(w) \/ CaptureFails(w)
  <2>1. inflight[k] = w
    BY <1>1, <1>5 DEF Publish, PublishWorkload, NotPortable, CaptureFails, AbandonWorkload, Owns,
                      Release, cacheVars, leaseVars
  <2>2. /\ worker[w].pc = "capture" /\ worker[w].keys # <<>>
        /\ Answered(w) \/ Goto(w, "direct") \/ Raises(w)
    BY <1>5 DEF Publish, NotPortable, CaptureFails, At, Inv, HasKey
  <2>3. worker'[w].pc \in {"idle", "claim", "direct"}
    <3>1. "direct" \in Stages
      BY DEF Stages
    <3> QED BY <2>2, <3>1, AnsweredEffect, GotoEffect, RaisesEffect DEF Inv
  <2> QED BY <2>1, <2>2, <2>3
<1> QED BY <1>2, <1>3, <1>4, <1>5 DEF WorkerStep

(* A lease ends by a step of its owner or because it is too old            *)
(* (LeaseEndsByOwnerOrAge): a late owner cannot end its successor's.       *)
THEOREM LeasesEndRightly == Spec => LeaseEndsByOwnerOrAge
<1>1. ASSUME Inv, [Next]_vars
      PROVE  [\A k \in Workloads : EndsRightly(k)]_vars
  <2>1. CASE \E w \in Workers : WorkerStep(w)
    BY <1>1, <2>1, WorkerEndsRightly
  <2>2. CASE inflight' = inflight
    BY <2>2 DEF EndsRightly
  <2> QED BY <1>1, <2>1, <2>2 DEF Next, Killed, LeaseAges, CancelRest, NextRound, cacheVars, vars
<1>2. Spec => [][\A k \in Workloads : EndsRightly(k)]_vars
  BY InitInv, NextInv, <1>1, PTL DEF Spec
<1> QED BY <1>2 DEF LeaseEndsByOwnerOrAge, EndsRightly

-----------------------------------------------------------------------------
(* The accounts of the cache.                                              *)

Accounts == EntryTypeOK /\ CacheAccounts

LEMMA EntriesWeigh ==
  ASSUME NEW S \in SUBSET Entries, IsFiniteSet(S)
  PROVE  /\ Bytes(S) \in Nat
         /\ \A T \in SUBSET S : /\ IsFiniteSet(T) /\ Bytes(T) \in Nat
                                /\ Bytes(S) = Bytes(T) + Bytes(S \ T)
         /\ \A e \in S : Bytes(S) = Size[e] + Bytes(S \ {e})
<1>1. \A x \in S : Size[x] \in Nat
  BY CacheAssumption
<1>2. ASSUME NEW T \in SUBSET S
      PROVE  IsFiniteSet(T) /\ Bytes(T) \in Nat /\ Bytes(S) = Bytes(T) + Bytes(S \ T)
  <2>1. IsFiniteSet(T)
    BY FS_Subset
  <2>2. \A x \in T : Size[x] \in Nat
    BY <1>1
  <2> QED BY <1>1, <2>1, <2>2, SumNat, SumSplit DEF Bytes
<1>3. \A e \in S : Bytes(S) = Size[e] + Bytes(S \ {e})
  BY <1>1, SumRemove DEF Bytes
<1>4. Bytes(S) \in Nat
  BY <1>1, SumNat DEF Bytes
<1> QED BY <1>2, <1>3, <1>4

(* The oldest n entries of an order are a part of it. *)
LEMMA OldestPart ==
  ASSUME NEW order \in Seq(Entries), IsInjective(order), NEW n \in 0..Len(order)
  PROVE  /\ Oldest(order, n) = {order[i] : i \in 1..n}
         /\ Oldest(order, n) \in SUBSET ToSet(order)
         /\ ToSet(order) = {order[i] : i \in 1..Len(order)}
         /\ ToSet(order) \in SUBSET Entries /\ IsFiniteSet(ToSet(order))
         /\ Len(order) \in Nat
         /\ Bytes(Oldest(order, n)) \in Nat
         /\ Bytes(ToSet(order)) \in Nat
         /\ Bytes(ToSet(order)) - Bytes(Oldest(order, n)) = Bytes(ToSet(order) \ Oldest(order, n))
<1>1. /\ Oldest(order, n) = {order[i] : i \in 1..n}
      /\ Oldest(order, n) \in SUBSET ToSet(order)
  BY QueueSplit DEF Oldest
<1>2. /\ ToSet(order) = {order[i] : i \in 1..Len(order)} /\ Len(order) \in Nat
      /\ ToSet(order) \in SUBSET Entries /\ IsFiniteSet(ToSet(order))
  BY QueueElements, QueueSize
<1> DEFINE A == ToSet(order)
           O == Oldest(order, n)
<1>3. O \in SUBSET A /\ A \in SUBSET Entries /\ IsFiniteSet(A)
  BY <1>1, <1>2
<1> HIDE DEF A, O
<1>4. /\ Bytes(A) \in Nat /\ Bytes(O) \in Nat /\ Bytes(A \ O) \in Nat
      /\ Bytes(A) = Bytes(O) + Bytes(A \ O)
  BY <1>3, EntriesWeigh
<1>5. Bytes(A) - Bytes(O) = Bytes(A \ O)
  BY <1>4
<1> QED BY <1>1, <1>2, <1>4, <1>5 DEF A, O

(* What the loop of _evict_locked drops: as little as makes the rest fit.  *)
LEMMA SurplusIs ==
  ASSUME NEW order \in Seq(Entries), IsInjective(order),
         NEW bytes, bytes = Bytes(ToSet(order)),
         NEW n, n = Surplus(order, bytes)
  PROVE  /\ n \in 0..Len(order)
         /\ ~ Overfull(Len(order) - n, bytes - Bytes(Oldest(order, n)))
         /\ \A i \in 0..n-1 : Overfull(Len(order) - i, bytes - Bytes(Oldest(order, i)))
<1> DEFINE l == Len(order)
           Over(i) == Overfull(l - i, bytes - Bytes(Oldest(order, i)))
           G == {i \in 0..l : ~ Over(i)}
<1>1. l \in Nat
  BY QueueElements
<1>2. l \in G
  <2>1. l \in 0..l /\ l - l = 0
    BY <1>1
  <2>2. Oldest(order, l) = ToSet(order) /\ bytes \in Nat
    BY <2>1, OldestPart
  <2>3. bytes - Bytes(Oldest(order, l)) = 0
    BY <2>2
  <2>4. ~ (0 > MaxEntries) /\ ~ (0 > MaxBytes)
    BY CacheAssumption
  <2> HIDE DEF l
  <2>5. ~ Over(l)
    BY <2>1, <2>3, <2>4 DEF Overfull
  <2> QED BY <2>1, <2>5
<1>3. PICK i \in G : \A j \in 0..i-1 : j \notin G
  <2>1. G # {} /\ G \in SUBSET (0..l)
    BY <1>2
  <2> HIDE DEF G, l
  <2> QED BY <1>1, <2>1, LeastIndex
<1>4. i \in 0..l /\ ~ Over(i) /\ \A j \in 0..i-1 : Over(j)
  <2>1. \A j \in 0..i-1 : j \in 0..l
    BY <1>1
  <2> QED BY <1>3, <2>1
<1>5. n = CHOOSE j \in 0..l : ~ Over(j) /\ \A k \in 0..j-1 : Over(k)
  BY DEF Surplus
<1> HIDE DEF Over, l
<1>6. n \in 0..l /\ ~ Over(n) /\ \A k \in 0..n-1 : Over(k)
  BY <1>4, <1>5
<1> QED BY <1>6 DEF Over, l

(* A new entry comes in behind all others. *)
LEMMA TouchedNew ==
  ASSUME Accounts, NEW e \in Entries \ stored
  PROVE  /\ Touched(e) = Append(lru, e)
         /\ Touched(e) \in Seq(Entries) /\ IsInjective(Touched(e))
         /\ ToSet(Touched(e)) = stored \cup {e}
         /\ Len(lru) \in Nat /\ Len(Touched(e)) = Len(lru) + 1
         /\ \A i \in 1..Len(lru) : Touched(e)[i] = lru[i]
         /\ BytesWith(e) = Bytes(ToSet(Touched(e)))
<1>1. lru \in Seq(Entries) /\ IsInjective(lru) /\ ToSet(lru) = stored
  BY DEF Accounts, EntryTypeOK, CacheAccounts
<1>2. RemoveFirst(lru, e) = lru
  BY <1>1, QueueWithout
<1>3. /\ Append(lru, e) \in Seq(Entries) /\ ToSet(Append(lru, e)) = stored \cup {e}
      /\ IsInjective(Append(lru, e))
  BY <1>1, QueueAppend
<1>4. /\ Len(lru) \in Nat /\ Len(Append(lru, e)) = Len(lru) + 1
      /\ \A i \in 1..Len(lru) : Append(lru, e)[i] = lru[i]
  BY <1>1, AppendProperties
<1>5. current_bytes + Size[e] = Bytes(stored \cup {e})
  <2>1. IsFiniteSet(stored \cup {e}) /\ stored \cup {e} \in SUBSET Entries
    <3>1. ToSet(Append(lru, e)) \subseteq Entries /\ IsFiniteSet(ToSet(Append(lru, e)))
      BY <1>3, QueueSize, QueueElements, Zenon
    <3> QED BY <1>3, <3>1
  <2>2. Bytes(stored \cup {e}) = Size[e] + Bytes((stored \cup {e}) \ {e})
    BY <2>1, EntriesWeigh
  <2>3. (stored \cup {e}) \ {e} = stored
    OBVIOUS
  <2>4. current_bytes = Bytes(stored) /\ current_bytes \in Nat /\ Size[e] \in Nat
    BY CacheAssumption DEF Accounts, EntryTypeOK, CacheAccounts
  <2>5. Bytes(stored \cup {e}) = Size[e] + current_bytes
    BY <2>2, <2>3, <2>4
  <2> QED BY <2>4, <2>5
<1> QED BY <1>1, <1>2, <1>3, <1>4, <1>5 DEF Touched, BytesWith

(* Storing an entry: the oldest n of the others go, the new one stays.     *)
LEMMA StoreEffect ==
  ASSUME Accounts, NEW e \in Entries \ stored, Size[e] <= MaxBytes, Store(e)
  PROVE  /\ Accounts'
         /\ e \in stored'
         /\ \E n \in 0..Len(lru) :
              /\ stored \ stored' = {lru[i] : i \in 1..n}
              /\ n > 0 => Overfull(Cardinality(stored') + 1, current_bytes' + Size[lru[n]])
<1> DEFINE order == Touched(e)
           bytes == BytesWith(e)
           l     == Len(lru)
           n     == Surplus(order, bytes)
           gone  == Oldest(order, n)
           rest  == SubSeq(order, n + 1, Len(order))
<1>1. /\ order \in Seq(Entries) /\ IsInjective(order)
      /\ ToSet(order) = stored \cup {e}
      /\ l \in Nat /\ Len(order) = l + 1
      /\ \A i \in 1..l : order[i] = lru[i]
      /\ bytes = Bytes(ToSet(order))
  BY TouchedNew
<1>2. /\ stored' = (stored \cup {e}) \ gone
      /\ lru' = rest
      /\ current_bytes' = bytes - Bytes(gone)
  BY DEF Store
<1> HIDE DEF order, bytes
<1>3. /\ n \in 0..Len(order)
      /\ ~ Overfull(Len(order) - n, bytes - Bytes(Oldest(order, n)))
      /\ \A i \in 0..n-1 : Overfull(Len(order) - i, bytes - Bytes(Oldest(order, i)))
  BY <1>1, SurplusIs
<1> HIDE DEF n
<1>4. /\ rest \in Seq(Entries) /\ Len(rest) = Len(order) - n /\ IsInjective(rest)
      /\ ToSet(rest) = ToSet(order) \ gone
  BY <1>1, <1>3, QueueSplit DEF Oldest
<1> HIDE DEF rest
<1>5. /\ gone = {order[i] : i \in 1..n} /\ gone \in SUBSET ToSet(order)
      /\ ToSet(order) \in SUBSET Entries /\ IsFiniteSet(ToSet(order))
      /\ Bytes(gone) \in Nat /\ bytes \in Nat
      /\ bytes - Bytes(gone) = Bytes(ToSet(order) \ gone)
  BY <1>1, <1>3, OldestPart
<1> HIDE DEF gone
<1>6. stored' = ToSet(rest) /\ current_bytes' = Bytes(stored')
  BY <1>1, <1>2, <1>4, <1>5
<1>7. Accounts'
  <2>1. stored' \in SUBSET Entries /\ IsFiniteSet(stored')
    <3>1. stored' \in SUBSET ToSet(order)
      BY <1>4, <1>6
    <3> QED BY <1>5, <3>1, FS_Subset
  <2>2. current_bytes' \in Nat
    BY <1>6, <2>1, EntriesWeigh
  <2>3. Len(lru') <= MaxEntries /\ current_bytes' <= MaxBytes
    <3>1. ~ Overfull(Len(lru'), current_bytes')
      BY <1>2, <1>3, <1>4 DEF gone
    <3>2. Len(lru') \in Nat
      BY <1>2, <1>4, QueueElements
    <3> QED BY <2>2, <3>1, <3>2, CacheAssumption DEF Overfull
  <2>4. lru' \in Seq(Entries) /\ IsInjective(lru') /\ ToSet(lru') = stored'
    BY <1>2, <1>4, <1>6
  <2> QED BY <1>6, <2>1, <2>2, <2>3, <2>4 DEF Accounts, EntryTypeOK, CacheAccounts
(* The new entry alone fits, so it is not dropped. *)
<1>8. n <= l
  <2> SUFFICES ASSUME n = l + 1 PROVE FALSE
    BY <1>1, <1>3
  <2>1. l \in 0..n-1 /\ l \in 0..Len(order) /\ Len(order) - l = 1
    BY <1>1
  <2>2. Overfull(1, bytes - Bytes(Oldest(order, l)))
    BY <1>3, <2>1
  <2>3. Oldest(order, l) = {order[i] : i \in 1..l}
    BY <1>1, <2>1, OldestPart
  <2>4. ToSet(lru) = {lru[i] : i \in 1..l} /\ ToSet(lru) = stored
    BY QueueElements DEF Accounts, EntryTypeOK, CacheAccounts
  <2>5. Oldest(order, l) = stored
    BY <1>1, <2>3, <2>4
  <2>6. bytes = current_bytes + Size[e] /\ current_bytes = Bytes(stored)
        /\ current_bytes \in Nat /\ Size[e] \in Nat
    BY CacheAssumption DEF bytes, BytesWith, Accounts, EntryTypeOK, CacheAccounts
  <2>7. bytes - Bytes(Oldest(order, l)) = Size[e]
    BY <2>5, <2>6
  <2> QED BY <2>2, <2>6, <2>7, CacheAssumption DEF Overfull
<1>9. n \in 0..Len(lru)
  BY <1>1, <1>3, <1>8
<1>10. stored \ stored' = {lru[i] : i \in 1..n} /\ gone \subseteq stored
  <2>1. gone = {lru[i] : i \in 1..n}
    <3>1. \A i \in 1..n : i \in 1..l
      BY <1>1, <1>9
    <3> QED BY <1>1, <1>5, <3>1
  <2>2. ToSet(lru) = {lru[i] : i \in 1..Len(lru)} /\ ToSet(lru) = stored
    BY QueueElements DEF Accounts, EntryTypeOK, CacheAccounts
  <2>3. gone \subseteq stored
    <3>1. \A i \in 1..n : i \in 1..Len(lru)
      BY <1>1, <1>9
    <3> QED BY <2>1, <2>2, <3>1
  <2> QED BY <1>2, <2>1, <2>3
<1>11. e \in stored'
  BY <1>2, <1>10
<1>12. ASSUME n > 0
       PROVE  Overfull(Cardinality(stored') + 1, current_bytes' + Size[lru[n]])
  <2>1. n - 1 \in 0..n-1 /\ n - 1 \in 0..Len(order) /\ n \in 1..l /\ n \in 1..n
    BY <1>1, <1>3, <1>8, <1>12
  <2>2. Overfull(Len(order) - (n - 1), bytes - Bytes(Oldest(order, n - 1)))
    BY <1>3, <2>1
  <2>3. Oldest(order, n - 1) = {order[i] : i \in 1..n-1}
    BY <1>1, <2>1, OldestPart
  <2>4. lru[n] = order[n] /\ lru[n] \in gone
    BY <1>1, <1>5, <2>1
  <2>5. gone \ {lru[n]} = Oldest(order, n - 1)
    <3>1. \A i \in 1..n : i = n \/ i \in 1..n-1
      BY <2>1
    <3>2. \A i \in 1..n-1 : i \in 1..n /\ i # n /\ i \in 1..Len(order) /\ n \in 1..Len(order)
      BY <1>1, <2>1
    <3>3. \A i, j \in 1..Len(order) : order[i] = order[j] => i = j
      BY <1>1, QueueElements
    <3>4. \A i \in 1..n-1 : order[i] # order[n]
      BY <3>2, <3>3
    <3> QED BY <1>5, <2>3, <2>4, <3>1, <3>2, <3>4
  <2>6. Bytes(gone) = Size[lru[n]] + Bytes(Oldest(order, n - 1))
    <3>1. gone \in SUBSET Entries /\ IsFiniteSet(gone)
      BY <1>5, FS_Subset
    <3> QED BY <2>4, <2>5, <3>1, EntriesWeigh, SMTT(30)
  <2>7. Size[lru[n]] \in Nat /\ Bytes(Oldest(order, n - 1)) \in Nat
    BY <1>1, <1>5, <2>1, <2>4, CacheAssumption, OldestPart
  <2>8. bytes - Bytes(Oldest(order, n - 1)) = current_bytes' + Size[lru[n]]
    BY <1>2, <1>5, <2>6, <2>7
  <2>9. Cardinality(stored') = Len(order) - n
    BY <1>4, <1>6, QueueSize
  <2>10. Len(order) - (n - 1) = Cardinality(stored') + 1
    BY <1>1, <2>1, <2>9
  <2> QED BY <2>2, <2>8, <2>10
<1> QED BY <1>7, <1>9, <1>10, <1>11, <1>12

(* A use of an entry only changes the order. *)
LEMMA UseEffect ==
  ASSUME Accounts, NEW e \in Entries, Use(e)
  PROVE  Accounts' /\ stored' = stored
<1>1. lru \in Seq(Entries) /\ IsInjective(lru) /\ ToSet(lru) = stored
  BY DEF Accounts, EntryTypeOK, CacheAccounts
<1>2. CASE e \notin stored
  BY <1>1, <1>2 DEF Use, Accounts, EntryTypeOK, CacheAccounts
<1>3. CASE e \in stored
  <2> DEFINE s == RemoveFirst(lru, e)
  <2>1. /\ s \in Seq(Entries) /\ ToSet(s) = stored \ {e} /\ IsInjective(s)
    BY <1>1, QueueWithout
  <2>2. Len(s) = Len(lru) - 1 /\ Len(lru) \in Nat
    BY <1>1, <1>3, QueueRemove, QueueElements
  <2> HIDE DEF s
  <2>3. /\ Append(s, e) \in Seq(Entries) /\ ToSet(Append(s, e)) = stored
        /\ IsInjective(Append(s, e)) /\ Len(Append(s, e)) = Len(lru)
    <3>1. /\ Append(s, e) \in Seq(Entries) /\ ToSet(Append(s, e)) = ToSet(s) \cup {e}
          /\ IsInjective(Append(s, e)) /\ Len(Append(s, e)) = Len(s) + 1
      BY <2>1, QueueAppend, AppendProperties
    <3> QED BY <1>3, <2>1, <2>2, <3>1
  <2>4. lru' = Append(s, e) /\ stored' = stored /\ current_bytes' = current_bytes
    BY <1>3 DEF Use, Touched, s
  <2>5. current_bytes \in Nat /\ current_bytes = Bytes(stored) /\ Len(lru) <= MaxEntries
        /\ current_bytes <= MaxBytes /\ stored \in SUBSET Entries
    BY DEF Accounts, EntryTypeOK, CacheAccounts
  <2> QED BY <2>3, <2>4, <2>5 DEF Accounts, EntryTypeOK, CacheAccounts
<1> QED BY <1>2, <1>3

(* What a step may do to the entries: nothing, use one, or store one that  *)
(* is not there and fits; a workload under a lease is not there.           *)
LEMMA EntryStep ==
  ASSUME Inv, [Next]_vars
  PROVE  \/ UNCHANGED entryVars
         \/ \E e \in Entries : Use(e)
         \/ \E e \in Entries \ stored : Size[e] <= MaxBytes /\ Store(e)
<1>1. \A m \in Models : Template(m) \in Entries
  BY DEF Entries
<1>2. \A k \in Workloads : Workload(k) \in Entries
  BY DEF Entries
<1>3. \A e \in Entries : Size[e] \in Nat /\ (~ Size[e] > MaxBytes => Size[e] <= MaxBytes)
  BY CacheAssumption
<1>4. ASSUME NEW m \in Models, SetTemplate(m)
      PROVE  \/ \E e \in Entries : Use(e)
             \/ \E e \in Entries \ stored : Size[e] <= MaxBytes /\ Store(e)
  BY <1>1, <1>3, <1>4 DEF SetTemplate
<1>5. ASSUME NEW w \in Workers, WorkerStep(w)
      PROVE  \/ UNCHANGED entryVars
             \/ \E e \in Entries : Use(e)
             \/ \E e \in Entries \ stored : Size[e] <= MaxBytes /\ Store(e)
  <2>1. worker[w].model \in Models
    BY DEF Inv, TaskTypeOK, Locals
  <2>2. ASSUME worker[w].keys # <<>> PROVE Key(w) \in Workloads
    BY <2>2 DEF Inv, TaskTypeOK, Locals, Key
  <2>3. CASE TakeTask(w) \/ BuildModel(w) \/ StrategyRaises(w) \/ DirectRun(w)
    BY <2>3 DEF TakeTask, BuildModel, StrategyRaises, DirectRun, cacheVars, entryVars
  <2>4. CASE LookUp(w) \/ Attach(w) \/ AttachFails(w)
    BY <1>1, <2>1, <2>4 DEF LookUp, Attach, AttachFails, GetTemplate
  <2>5. CASE Register(w) \/ OwnModel(w)
    BY <1>4, <2>1, <2>5 DEF Register, OwnModel, cacheVars, entryVars
  <2>6. CASE Claim(w) \/ Wait(w)
    <3>1. Key(w) \in Workloads
      BY <2>2, <2>6 DEF Inv, HasKey, Claim, Wait, At
    <3> QED BY <1>2, <2>6, <3>1
        DEF Claim, Wait, ClaimHit, ClaimWait, ClaimOwner, WaitWorkload, cacheVars, entryVars
  <2>7. CASE NotPortable(w) \/ CaptureFails(w)
    BY <2>7 DEF NotPortable, CaptureFails, AbandonWorkload, entryVars
  <2>8. CASE Publish(w)
    <3>1. Key(w) \in Workloads
      BY <2>2, <2>8 DEF Inv, HasKey, Publish, At
    <3>2. CASE inflight[Key(w)] # w
      BY <2>8, <3>2 DEF Publish, PublishWorkload, Owns, cacheVars, entryVars
    <3>3. CASE inflight[Key(w)] = w
      <4>1. Workload(Key(w)) \notin stored
        BY <3>1, <3>3, CacheAssumption DEF Inv, LeaseIsHeld
      <4>2. IF Size[Workload(Key(w))] > MaxBytes THEN UNCHANGED entryVars ELSE Store(Workload(Key(w)))
        BY <2>8, <3>3 DEF Publish, PublishWorkload, Owns
      <4> QED BY <1>2, <1>3, <3>1, <4>1, <4>2
    <3> QED BY <3>2, <3>3
  <2> QED BY <1>5, <2>3, <2>4, <2>5, <2>6, <2>7, <2>8 DEF WorkerStep
<1>6. CASE UNCHANGED vars
  BY <1>6 DEF vars, entryVars
<1>7. CASE Next
  <2>1. CASE \E w \in Workers : WorkerStep(w)
    BY <1>5, <2>1
  <2>2. CASE ~ \E w \in Workers : WorkerStep(w)
    BY <1>7, <2>2 DEF Next, Killed, LeaseAges, CancelRest, NextRound, cacheVars, vars, entryVars
  <2> QED BY <2>1, <2>2
<1> QED BY <1>6, <1>7

LEMMA AccountsInit == Init => Accounts
<1> SUFFICES ASSUME Init PROVE Accounts
  OBVIOUS
<1>1. stored = {} /\ lru = <<>> /\ current_bytes = 0
  BY DEF Init, CacheInit
<1>2. Bytes({}) = 0
  BY SumEmpty DEF Bytes
<1>3. Len(<<>>) = 0 /\ <<>> \in Seq(Entries)
  OBVIOUS
<1> QED BY <1>1, <1>2, <1>3, EmptyQueue, CacheAssumption DEF Accounts, EntryTypeOK, CacheAccounts

LEMMA AccountsNext == Inv /\ Accounts /\ [Next]_vars => Accounts'
<1> SUFFICES ASSUME Inv, Accounts, [Next]_vars PROVE Accounts'
  OBVIOUS
<1>1. CASE UNCHANGED entryVars
  BY <1>1 DEF entryVars, Accounts, EntryTypeOK, CacheAccounts
<1>2. CASE \E e \in Entries : Use(e)
  BY <1>2, UseEffect
<1>3. CASE \E e \in Entries \ stored : Size[e] <= MaxBytes /\ Store(e)
  BY <1>3, StoreEffect
<1> QED BY <1>1, <1>2, <1>3, EntryStep

LEMMA AccountsHold == Spec => [](Inv /\ Accounts)
BY InitInv, NextInv, AccountsInit, AccountsNext, PTL DEF Spec

(* The dicts, the order and the byte count of the cache describe the same  *)
(* entries, each once, and respect both limits (CacheAccounts), whatever   *)
(* is stored, used and dropped in whichever order.                         *)
THEOREM AccountsAgree == Spec => []CacheAccounts
<1>1. Accounts => CacheAccounts
  BY DEF Accounts
<1> QED BY <1>1, AccountsHold, PTL

(* Entries, leases and workers are what their declarations say (TypeOK).   *)
THEOREM CacheTypes == Spec => []TypeOK
<1>1. Inv /\ Accounts => TypeOK
  BY DEF Inv, Accounts, TypeOK
<1> QED BY <1>1, AccountsHold, PTL

(* A step that drops entries stores another one, which stays; the oldest   *)
(* go first, and with the youngest that goes the cache would still exceed  *)
(* a limit (EvictionIsMinimal).  A use of an entry drops none.             *)
THEOREM EvictsOldest == Spec => EvictionIsMinimal
<1>1. ASSUME Inv, Accounts, [Next]_vars PROVE EvictsLittle
  <2>1. CASE stored' = stored
    BY <2>1 DEF EvictsLittle
  <2>2. CASE \E e \in Entries \ stored : Size[e] <= MaxBytes /\ Store(e)
    <3>1. PICK e \in Entries \ stored : Size[e] <= MaxBytes /\ Store(e)
      BY <2>2
    <3>2. PICK n \in 0..Len(lru) :
            /\ stored \ stored' = {lru[i] : i \in 1..n}
            /\ n > 0 => Overfull(Cardinality(stored') + 1, current_bytes' + Size[lru[n]])
      BY <1>1, <3>1, StoreEffect
    <3>3. e \in stored' \ stored
      BY <1>1, <3>1, StoreEffect
    <3>4. /\ Len(lru) \in Nat /\ DOMAIN lru = 1..Len(lru)
          /\ \A i, j \in 1..Len(lru) : lru[i] = lru[j] => i = j
      BY <1>1, QueueElements DEF Accounts, EntryTypeOK, CacheAccounts
    <3> DEFINE dropped == {i \in DOMAIN lru : lru[i] \in stored \ stored'}
    <3>5. dropped = 1..n
      <4>1. \A i \in 1..n : i \in DOMAIN lru /\ lru[i] \in stored \ stored'
        BY <3>2, <3>4
      <4>2. \A i \in dropped : i \in 1..n
        <5> SUFFICES ASSUME NEW i \in dropped PROVE i \in 1..n
          OBVIOUS
        <5>1. PICK k \in 1..n : lru[i] = lru[k]
          BY <3>2
        <5> QED BY <3>4, <4>1, <5>1
      <4> QED BY <4>1, <4>2
    <3>6. \A i \in dropped, j \in DOMAIN lru : lru[j] \in stored' => i < j
      <4>1. \A j \in DOMAIN lru : lru[j] \in stored' => j \notin 1..n
        BY <3>5
      <4> HIDE DEF dropped
      <4> QED BY <3>4, <3>5, <4>1
    <3>7. ASSUME NEW i \in dropped, \A j \in dropped : j <= i
          PROVE  \/ Cardinality(stored') + 1 > MaxEntries
                 \/ current_bytes' + Size[lru[i]] > MaxBytes
      <4> HIDE DEF dropped
      <4>1. n \in dropped /\ n > 0 /\ i = n
        BY <3>4, <3>5, <3>7
      <4> QED BY <3>2, <4>1 DEF Overfull
    <3> QED BY <3>3, <3>6, <3>7 DEF EvictsLittle
  <2> QED BY <1>1, <2>1, <2>2, EntryStep, UseEffect DEF entryVars
<1>2. Spec => [][EvictsLittle]_vars
  BY <1>1, AccountsHold, PTL DEF Spec
<1> QED BY <1>2 DEF EvictionIsMinimal
=============================================================================
