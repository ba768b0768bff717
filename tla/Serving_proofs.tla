--------------------------- MODULE Serving_proofs ---------------------------
(***************************************************************************)
(* Proofs about Serving.  The steps of the engines are the ones of         *)
(* BatchScheduler, so its invariant SchedInv is taken over; what is added: *)
(*                                                                         *)
(*   - the client: requests in service are exactly the active ones until   *)
(*     an exception is raised (Client), so that the gate, which compares   *)
(*     two counts, compares sizes of nested sets;                          *)
(*   - the stages: only disaggregated serving hands requests over          *)
(*     (HandedOverOnly), a prefill engine never has more than one running  *)
(*     request when a pass starts (OnPrefill), hence nobody to preempt,    *)
(*     and a decode engine holds requests with a first token (OnDecode).   *)
(*                                                                         *)
(* Each kind of step is treated twice: for SchedInv and the client (Base)  *)
(* and for the stages (Staged).                                            *)
(*                                                                         *)
(* Two more invariants build on these: the passes of engines on which      *)
(* requests keep flowing (Passes), and, with pools that can hold all       *)
(* requests at once, the records of requests that are never preempted      *)
(* (StraightOn).                                                           *)
(***************************************************************************)
EXTENDS Serving, BatchScheduler_proofs

(***************************************************************************)
(* Load balancers.                                                         *)
(***************************************************************************)

(* There is a first index of the smallest load. *)
LEMMA FirstLeast ==
  ASSUME NEW n \in Nat \ {0}, NEW w \in [1..n -> Nat]
  PROVE  LeastLoaded(w) \in 1..n
<1> DEFINE D(i) == {j \in 1..n : w[j] < w[i] \/ (w[j] = w[i] /\ j < i)}
           B    == {D(i) : i \in 1..n}
<1>1. 1 \in 1..n /\ IsFiniteSet(1..n) /\ \A i \in 1..n : i \in Nat /\ w[i] \in Nat
  <2>1. IsFiniteSet(1..n)
    BY FS_Interval
  <2> QED BY <2>1
<1>2. B \in SUBSET (SUBSET (1..n)) /\ B # {}
  <2>1. \A i \in 1..n : D(i) \in SUBSET (1..n)
    OBVIOUS
  <2>2. D(1) \in B
    BY <1>1
  <2> HIDE DEF D
  <2> QED BY <2>1, <2>2
<1>3. PICK T \in B : \A U \in SUBSET T : U # T => U \notin B
  <2> HIDE DEF B
  <2> QED BY <1>1, <1>2, MinimalSubset
<1>4. PICK i \in 1..n : T = D(i)
  OBVIOUS
<1>5. D(i) = {}
  <2> SUFFICES ASSUME NEW j \in D(i) PROVE FALSE
    OBVIOUS
  <2>1. /\ j \in 1..n /\ (w[j] < w[i] \/ (w[j] = w[i] /\ j < i))
    OBVIOUS
  <2>2. D(j) \subseteq D(i)
    BY <1>1, <2>1
  <2>3. j \notin D(j)
    BY <1>1, <2>1
  <2>4. D(j) \in SUBSET T /\ D(j) # T /\ D(j) \in B
    BY <1>4, <2>1, <2>2, <2>3
  <2> QED BY <1>3, <2>4
<1>6. /\ \A j \in 1..n : w[i] <= w[j]
      /\ \A j \in 1..i-1 : w[i] < w[j]
  <2>1. \A j \in 1..n : ~ (w[j] < w[i]) /\ ~ (w[j] = w[i] /\ j < i)
    BY <1>5
  <2>2. \A j \in 1..i-1 : j \in 1..n /\ j < i
    BY <1>1
  <2> QED BY <1>1, <2>1, <2>2
<1>7. DOMAIN w = 1..n
  OBVIOUS
<1> QED BY <1>6, <1>7 DEF LeastLoaded

LEMMA LoadIsNat ==
  ASSUME SchedTypeOK, NEW e \in Engines
  PROVE  WorkLoad(e) \in Nat
<1> DEFINE f == [r \in Requests |-> RequestLoad(r)]
<1>1. \A r \in Requests : InputTokens[r] \in Nat
  BY RequestAssumption
<1>2. tracked[e] \subseteq Requests /\ IsFiniteSet(tracked[e])
  BY TypesAt, FS_Subset
<1>3. \A r \in tracked[e] : f[r] \in Nat
  BY <1>1, <1>2 DEF RequestLoad
<1> HIDE DEF f
<1>4. SumOn(f, tracked[e]) \in Nat
  BY <1>2, <1>3, SumNat
<1> QED BY <1>4 DEF WorkLoad, f

(* The balancers choose an engine of the instances. *)
LEMMA SelectedIsOne ==
  ASSUME SchedTypeOK, NEW instances, instances \in {PrefillInstances, DecodeInstances},
         instances # <<>>
  PROVE  Selected(instances) \in EnginesOf(instances) /\ Selected(instances) \in Engines
<1> DEFINE m == Len(instances)
           loads == [i \in 1..m |-> InstanceLoad(instances[i])]
           k == LeastLoaded(loads)
           s == instances[k]
           n == Len(s)
           work == [i \in 1..n |-> WorkLoad(s[i])]
           l == LeastLoaded(work)
<1>1. /\ instances \in Seq(Seq(Engines)) /\ \A i \in DOMAIN instances : instances[i] # <<>>
      /\ DOMAIN instances = 1..m /\ m \in Nat /\ m # 0
  <2>1. instances \in Seq(Seq(Engines)) /\ \A i \in DOMAIN instances : instances[i] # <<>>
    BY ServingAssumption
  <2>2. DOMAIN instances = 1..m /\ m \in Nat
    BY <2>1
  <2>3. m # 0
    BY <2>1, EmptySeq
  <2> QED BY <2>1, <2>2, <2>3
<1>2. \A i \in 1..m : instances[i] \in Seq(Engines)
  BY <1>1
<1>3. ASSUME NEW i \in 1..m PROVE InstanceLoad(instances[i]) \in Nat
  <2> DEFINE f == [e \in Engines |-> WorkLoad(e)]
             T == ToSet(instances[i])
  <2>1. T \subseteq Engines
    BY <1>2, QueueElements
  <2>2. IsFiniteSet(T)
    BY <2>1, SchedulerAssumption, FS_Subset
  <2>3. \A e \in Engines : f[e] \in Nat
    BY LoadIsNat
  <2> HIDE DEF f, T
  <2>4. SumOn(f, T) \in Nat
    BY <2>1, <2>2, <2>3, SumNat
  <2> QED BY <2>4 DEF InstanceLoad, f, T
<1>4. loads \in [1..m -> Nat]
  BY <1>3
<1>5. k \in 1..m
  <2> HIDE DEF loads, m
  <2> QED BY <1>1, <1>4, FirstLeast
<1> HIDE DEF loads, k, m
<1>6. s \in Seq(Engines) /\ s # <<>> /\ n \in Nat /\ n # 0 /\ DOMAIN s = 1..n
  <2>1. s \in Seq(Engines) /\ s # <<>>
    BY <1>1, <1>2, <1>5
  <2> HIDE DEF s
  <2>2. n \in Nat /\ DOMAIN s = 1..n
    BY <2>1
  <2>3. n # 0
    BY <2>1, EmptySeq
  <2> QED BY <2>1, <2>2, <2>3
<1> DEFINE c == instances[LeastLoaded([i \in 1..Len(instances) |-> InstanceLoad(instances[i])])]
<1>7. c = s
  BY DEF k, loads, m
<1> HIDE DEF s, n
<1>8. \A i \in 1..n : s[i] \in Engines
  BY <1>6
<1>9. work \in [1..n -> Nat]
  BY <1>8, LoadIsNat
<1>10. l \in 1..n
  <2> HIDE DEF work
  <2> QED BY <1>6, <1>9, FirstLeast
<1> HIDE DEF work, l
<1>11. s[l] \in Engines /\ s[l] \in ToSet(s)
  <2>1. ToSet(s) = {s[i] : i \in 1..n}
    BY <1>6, QueueElements DEF n
  <2> QED BY <1>8, <1>10, <2>1
<1>12. s[l] \in EnginesOf(instances)
  <2>1. s = instances[k] /\ k \in DOMAIN instances
    BY <1>1, <1>5 DEF s
  <2> QED BY <1>11, <2>1 DEF EnginesOf
<1>13. Selected(instances) = s[l]
  <2>1. Selected(instances) = c[LeastLoaded([i \in 1..Len(c) |-> WorkLoad(c[i])])]
    BY DEF Selected
  <2> HIDE DEF c
  <2> QED BY <1>7, <2>1 DEF l, work, n
<1> QED BY <1>11, <1>12, <1>13

(***************************************************************************)
(* Steps of engines.                                                       *)
(***************************************************************************)

(* What no step of an engine undoes in the record of a request. *)
Onward(q, p) == (p.need_kv_transfer <=> q.need_kv_transfer) /\ p.decoded >= q.decoded

LEMMA GeneratedOnward ==
  ASSUME NEW r \in Requests, NEW q \in RequestRecords
  PROVE  /\ Onward(q, GeneratedRecord(r, q)) /\ GeneratedRecord(r, q).state = q.state
         /\ Onward(q, PrepareDecodeStep(r, GeneratedRecord(r, q)))
         /\ \A s \in {"PREFILL_DONE", "DECODING", "DECODE_DONE"} :
               /\ Onward(q, WithState(GeneratedRecord(r, q), s))
               /\ Onward(q, WithState(PrepareDecodeStep(r, GeneratedRecord(r, q)), s))
         /\ PrepareDecodeStep(r, GeneratedRecord(r, q)).state = q.state
         /\ WithState(WithState(PrepareDecodeStep(r, GeneratedRecord(r, q)), "PREFILL_DONE"), "DECODING").state
              = "DECODING"
<1> DEFINE c == CompleteGenerationStep(r, q)
           k == GeneratedTokens(r, q)
           d == [c EXCEPT !.seq_len = @ - (c.query_len - k)]
<1>1. /\ DOMAIN q = {"state", "decoded", "accepted", "expected", "next_expected", "new_tokens",
                     "seq_len", "query_len", "need_kv_transfer", "kv_transfer_done"}
      /\ q.decoded \in Nat /\ q.accepted \in Nat
  BY DEF RequestRecords
<1>2. k \in Nat
  <2>1. OutputTokens[r] \in Nat
    BY RequestAssumption
  <2> QED BY <1>1, <2>1 DEF GeneratedTokens, Min2, Max2
<1>3. /\ DOMAIN c = DOMAIN q /\ c.need_kv_transfer = q.need_kv_transfer
      /\ c.state = q.state /\ c.decoded = q.decoded + k
  BY <1>1 DEF CompleteGenerationStep
<1> HIDE DEF c, k
<1>4. c.decoded \in Nat /\ c.decoded >= q.decoded
  BY <1>1, <1>2, <1>3
<1>5. /\ DOMAIN d = DOMAIN q /\ d.need_kv_transfer = q.need_kv_transfer
      /\ d.state = q.state /\ d.decoded = c.decoded
  BY <1>1, <1>3
<1> DEFINE g == GeneratedRecord(r, q)
<1>6. g = IF q.state = "DECODING" THEN d ELSE c
  BY DEF GeneratedRecord, c, k
<1> HIDE DEF d, g
<1>7. /\ DOMAIN g = DOMAIN q /\ g.need_kv_transfer = q.need_kv_transfer
      /\ g.state = q.state /\ g.decoded = c.decoded
  BY <1>3, <1>5, <1>6
<1> DEFINE p == PrepareDecodeStep(r, g)
<1>8. DOMAIN p = DOMAIN q /\ p.need_kv_transfer = q.need_kv_transfer /\ p.decoded = c.decoded
         /\ p.state = q.state
  BY <1>1, <1>7 DEF PrepareDecodeStep
<1> HIDE DEF p
<1>9. Onward(q, g) /\ Onward(q, p)
  BY <1>4, <1>7, <1>8 DEF Onward
<1>10. \A s \in {"PREFILL_DONE", "DECODING", "DECODE_DONE"} :
          Onward(q, WithState(g, s)) /\ Onward(q, WithState(p, s))
  <2> TAKE s \in {"PREFILL_DONE", "DECODING", "DECODE_DONE"}
  <2>1. /\ WithState(g, s).decoded = g.decoded /\ WithState(p, s).decoded = p.decoded
        /\ WithState(g, s).need_kv_transfer = g.need_kv_transfer
        /\ WithState(p, s).need_kv_transfer = p.need_kv_transfer
    BY <1>1, <1>7, <1>8 DEF WithState
  <2> QED BY <1>9, <2>1 DEF Onward
<1>11. WithState(WithState(p, "PREFILL_DONE"), "DECODING").state = "DECODING"
  BY <1>1, <1>8 DEF WithState
<1> QED BY <1>7, <1>8, <1>9, <1>10, <1>11 DEF g, p

LEMMA RecordsMove ==
  ASSUME SchedInv, NEW e \in Engines, EngineMoves(e)
  PROVE  /\ \A x \in Requests \ tracked[e] : req'[x] = req[x]
         /\ \A x \in Requests : Onward(req[x], req'[x])
<1> DEFINE Done == /\ \A x \in Requests \ tracked[e] : req'[x] = req[x]
                   /\ \A x \in Requests : Onward(req[x], req'[x])
<1>1. /\ req \in [Requests -> RequestRecords] /\ tracked[e] \subseteq Requests
      /\ Running(e) \subseteq tracked[e] /\ Waiting(e) \subseteq tracked[e]
      /\ Batch(e) \subseteq tracked[e]
  BY TypesAt DEF SchedInv, SchedTypeOK, EngineInv, Seated
<1>2. \A x \in Requests : Onward(req[x], req[x])
  <2>1. \A x \in Requests : req[x].decoded \in Nat
    BY <1>1 DEF RequestRecords
  <2> QED BY <2>1 DEF Onward
<1>3. ASSUME req' = req PROVE Done
  BY <1>2, <1>3
<1>4. ASSUME NEW r \in tracked[e], NEW p, Onward(req[r], p), req' = [req EXCEPT ![r] = p]
      PROVE  Done
  <2>1. req'[r] = p /\ \A x \in Requests \ {r} : req'[x] = req[x]
    BY <1>1, <1>4
  <2> QED BY <1>2, <1>4, <2>1
<1> HIDE DEF Done
<1>5. ASSUME NEW r \in tracked[e], Schedule(e, r) PROVE Done
  <2> DEFINE p == ScheduledRecord(req[r], Computed(e, r))
  <2>1. req' = [req EXCEPT ![r] = p]
    BY <1>1, <1>5 DEF Schedule, ScheduledRecord
  <2>2. req[r] \in RequestRecords
    BY <1>1, <1>5
  <2>3. p.need_kv_transfer = req[r].need_kv_transfer /\ p.decoded = req[r].decoded
    BY <2>2 DEF ScheduledRecord, RequestRecords
  <2>4. Onward(req[r], p)
    BY <2>2, <2>3 DEF Onward, RequestRecords
  <2> QED BY <1>4, <2>1, <2>4
<1>6. CASE \/ Start(e) \/ EndRunning(e) \/ EndWaiting(e) \/ Sleep(e) \/ EndPass(e)
           \/ ProcessBatch(e) \/ PostChunked(e) \/ EndPost(e)
  <2>1. req' = req
    BY <1>6 DEF Start, EndRunning, EndWaiting, Sleep, EndPass, ProcessBatch, PostChunked, EndPost
  <2> QED BY <1>3, <2>1 DEF Done
<1>7. CASE ScheduleRunning(e)
  <2>1. Current(e) \in Running(e)
    <3>1. /\ sched[e].index \in Nat /\ running[e] \in Seq(Requests)
          /\ Seated(e) /\ AtStage(e, "running") /\ sched[e].index <= Len(running[e])
          /\ sched[e].batch \in Seq(Requests)
      BY <1>7, TypesAt DEF SchedInv, EngineInv, ScheduleRunning, InRunningLoop
    <3>2. sched[e].index = Len(sched[e].batch) + 1 /\ Len(sched[e].batch) \in Nat
      BY <3>1 DEF Seated, AtStage
    <3>3. sched[e].index \in 1..Len(running[e])
      BY <3>1, <3>2
    <3>4. ToSet(running[e]) = {running[e][i] : i \in 1..Len(running[e])}
      BY <3>1, QueueElements
    <3> QED BY <3>3, <3>4 DEF Current, Running
  <2> QED BY <1>1, <1>5, <1>7, <2>1 DEF ScheduleRunning, Done
<1>8. CASE ScheduleWaiting(e)
  <2>1. Head(waiting[e]) \in Waiting(e)
    BY <1>8, TypesAt, QueueTail DEF SchedInv, ScheduleWaiting, InWaitingLoop, Waiting
  <2> QED BY <1>1, <1>5, <1>8, <2>1 DEF ScheduleWaiting, Done
<1>9. CASE Preempt(e)
  <2> DEFINE v == Last(running[e])
  <2>1. v \in tracked[e]
    BY <1>1, <1>9, VictimIsLast DEF Preempt
  <2>2. req' = [req EXCEPT ![v] = PreemptedRecord(v)]
    BY <1>9 DEF Preempt
  <2> HIDE DEF v
  <2>3. Onward(req[v], PreemptedRecord(v))
    <3>1. req[v] \in RequestRecords
      BY <1>1, <2>1
    <3>2. /\ PreemptedRecord(v).decoded = req[v].decoded /\ req[v].decoded \in Nat
          /\ PreemptedRecord(v).need_kv_transfer = req[v].need_kv_transfer
      BY <3>1 DEF PreemptedRecord, RequestRecords
    <3> QED BY <3>2 DEF Onward
  <2> QED BY <1>4, <2>1, <2>2, <2>3 DEF Done
<1>10. CASE ReceiveKvs(e)
  <2> DEFINE r == Head(waiting[e])
  <2>1. r \in tracked[e]
    BY <1>1, <1>10, TypesAt, QueueTail DEF SchedInv, ReceiveKvs, InWaitingLoop, Waiting
  <2>2. req' = [req EXCEPT ![r].kv_transfer_done = TRUE, ![r].state = "DECODING"]
    BY <1>10 DEF ReceiveKvs
  <2> HIDE DEF r
  <2> DEFINE p == [req[r] EXCEPT !.kv_transfer_done = TRUE, !.state = "DECODING"]
  <2>3. req' = [req EXCEPT ![r] = p]
    BY <1>1, <2>1, <2>2
  <2>4. Onward(req[r], p)
    <3>1. req[r] \in RequestRecords
      BY <1>1, <2>1
    <3>2. /\ p.decoded = req[r].decoded /\ req[r].decoded \in Nat
          /\ p.need_kv_transfer = req[r].need_kv_transfer
      BY <3>1 DEF RequestRecords
    <3> QED BY <3>2 DEF Onward
  <2> HIDE DEF p
  <2> QED BY <1>4, <2>1, <2>3, <2>4 DEF Done
<1>11. CASE PostDecoding(e) \/ PostHandOff(e)
  <2> DEFINE r == Head(sched[e].batch)
             p == PrepareDecodeStep(r, GeneratedRecord(r, req[r]))
  <2>1. r \in tracked[e]
    BY <1>1, <1>11, BatchShrinks DEF PostDecoding, PostHandOff, InPost
  <2>2. \E s \in {"PREFILL_DONE", "DECODING"} :
           req' = [req EXCEPT ![r] = p] \/ req' = [req EXCEPT ![r] = WithState(p, s)]
    <3>1. WithState(WithState(p, "PREFILL_DONE"), "DECODING") = WithState(p, "DECODING")
      BY DEF WithState
    <3>2. p = PrepareDecodeStep(r, Generated(r))
      BY DEF Generated, GeneratedRecord
    <3> HIDE DEF p, r
    <3>3. CASE PostDecoding(e)
      <4>1. req' = [req EXCEPT ![r] = IF req[r].state = "DECODING" THEN p
                                      ELSE WithState(WithState(p, "PREFILL_DONE"), "DECODING")]
        BY <3>2, <3>3 DEF PostDecoding, r
      <4> QED BY <3>1, <4>1
    <3>4. CASE PostHandOff(e)
      <4>1. req' = [req EXCEPT ![r] = WithState(p, "PREFILL_DONE")]
        BY <3>2, <3>4 DEF PostHandOff, r
      <4> QED BY <4>1
    <3> QED BY <1>11, <3>3, <3>4
  <2> HIDE DEF r
  <2>3. Onward(req[r], p) /\ \A s \in {"PREFILL_DONE", "DECODING"} : Onward(req[r], WithState(p, s))
    BY <1>1, <2>1, GeneratedOnward
  <2> HIDE DEF p
  <2> QED BY <1>4, <2>1, <2>2, <2>3 DEF Done
<1>12. ASSUME NEW r \in Requests, PostFinished(e, r) PROVE Done
  <2> DEFINE g == GeneratedRecord(r, req[r])
  <2>1. req' = [req EXCEPT ![r] = WithState(IF req[r].state = "PREFILLING"
                                            THEN WithState(g, "PREFILL_DONE") ELSE g, "DECODE_DONE")]
    BY <1>12 DEF PostFinished, Generated, GeneratedRecord
  <2>2. Onward(req[r], WithState(g, "DECODE_DONE"))
    BY <1>1, GeneratedOnward
  <2>3. WithState(WithState(g, "PREFILL_DONE"), "DECODE_DONE") = WithState(g, "DECODE_DONE")
    BY DEF WithState
  <2>4. r \in tracked[e]
    BY <1>12, BatchShrinks DEF PostFinished, InPost
  <2> QED BY <1>4, <2>1, <2>2, <2>3, <2>4
<1> QED BY <1>6, <1>7, <1>8, <1>9, <1>10, <1>11, <1>12 DEF EngineMoves, Proceed, HandOver, Done

(* The other engines and their channels are as before. *)
LEMMA OthersStay ==
  ASSUME SchedInv, NEW e \in Engines, EngineMoves(e), NEW f \in Engines, f # e
  PROVE  /\ running'[f] = running[f] /\ waiting'[f] = waiting[f] /\ tracked'[f] = tracked[f]
         /\ sched'[f] = sched[f] /\ d2d'[f] = d2d[f]
         /\ \A x \in tracked[f] : req'[x] = req[x]
<1>1. /\ running \in [Engines -> Seq(Requests)] /\ waiting \in [Engines -> Seq(Requests)]
      /\ tracked \in [Engines -> SUBSET Requests] /\ sched \in [Engines -> Locals]
      /\ d2d \in [Engines -> Seq(Requests)]
  BY DEF SchedInv, SchedTypeOK
<1> DEFINE Same == /\ running'[f] = running[f] /\ waiting'[f] = waiting[f]
                   /\ tracked'[f] = tracked[f] /\ sched'[f] = sched[f] /\ d2d'[f] = d2d[f]
<1>2. ASSUME Proceed(e) PROVE Same
  BY <1>1, <1>2
     DEF Proceed, Start, ScheduleRunning, Preempt, EndRunning, ScheduleWaiting, EndWaiting, Sleep,
         EndPass, ProcessBatch, PostChunked, PostDecoding, EndPost, Schedule, NextInBatch
<1>3. ASSUME HandOver(e) PROVE Same
  BY <1>1, <1>3 DEF HandOver, ReceiveKvs, PostHandOff, Untracked, NextInBatch
<1>4. ASSUME NEW r \in Requests, PostFinished(e, r) PROVE Same
  BY <1>1, <1>4 DEF PostFinished, Untracked, NextInBatch
<1>5. tracked[f] \subseteq Requests /\ tracked[f] \cap tracked[e] = {}
  BY <1>1 DEF SchedInv, Apart
<1>6. \A x \in tracked[f] : req'[x] = req[x]
  BY <1>5, RecordsMove
<1> QED BY <1>2, <1>3, <1>4, <1>6 DEF EngineMoves

(***************************************************************************)
(* Requests enter an engine, or are refused by it.                         *)
(***************************************************************************)

(* A request that is refused is nowhere any more. *)
LEMMA RefusedKeeps ==
  ASSUME SchedInv, NEW r \in Requests, NEW q \in RequestRecords, req' = [req EXCEPT ![r] = q],
         q.state \notin {"INITIAL", "DECODE_DONE"},
         \A f \in Engines : r \notin tracked[f] /\ r \notin Channel(f)' /\ Channel(f)' \subseteq Channel(f)
                            /\ IsInjective(d2d'[f]),
         d2d' \in [Engines -> Seq(Requests)],
         UNCHANGED <<waiting, running, tracked, slots, free_blocks, sched, kv_modeling>>
  PROVE  SchedInv'
<1>1. SchedTypeOK /\ Apart /\ \A f \in Engines : EngineInv(f)
  BY DEF SchedInv
<1>2. req'[r] = q /\ \A x \in Requests \ {r} : req'[x] = req[x]
  BY <1>1 DEF SchedTypeOK
<1>3. SchedTypeOK'
  BY <1>1 DEF SchedTypeOK
<1>4. \A f \in Engines : EngineInv(f)'
  <2>1. TAKE f \in Engines
  <2> QED BY <1>1, <1>2, EngineUntouched
<1>5. Apart'
  <2>1. \A f \in Engines : IsInjective(d2d'[f])
    OBVIOUS
  <2>2. \A f, g \in Engines : tracked'[f] \cap Channel(g)' = {}
    BY <1>1 DEF Apart
  <2>3. \A f, g \in Engines : f # g => tracked'[f] \cap tracked'[g] = {} /\ Channel(f)' \cap Channel(g)' = {}
    <3>1. TAKE f, g \in Engines
    <3>2. HAVE f # g
    <3>3. /\ tracked[f] \cap tracked[g] = {} /\ Channel(f) \cap Channel(g) = {}
          /\ Channel(f)' \subseteq Channel(f) /\ Channel(g)' \subseteq Channel(g)
      BY <1>1, <3>2 DEF Apart
    <3> QED BY <3>3
  <2>4. \A f \in Engines : \A x \in Channel(f)' : InChannel(x, req'[x])
    <3>1. TAKE f \in Engines
    <3>2. TAKE x \in Channel(f)'
    <3>3. x \in Channel(f) /\ x # r /\ x \in Requests
      BY <1>1, TypesAt
    <3>4. InChannel(x, req[x]) /\ req'[x] = req[x]
      BY <1>1, <1>2, <3>3 DEF Apart
    <3> QED BY <3>4
  <2>5. \A x \in Requests :
           /\ req'[x].state = "INITIAL" => req'[x] = NewRequest(x)
           /\ req'[x].state = "DECODE_DONE" => req'[x].decoded = OutputTokens[x]
    <3>1. TAKE x \in Requests
    <3>2. CASE x = r
      BY <1>2, <3>2
    <3>3. CASE x # r
      <4>1. req'[x] = req[x]
        BY <1>2, <3>3
      <4> QED BY <1>1, <4>1 DEF Apart
    <3> QED BY <3>2, <3>3
  <2> QED BY <2>1, <2>2, <2>3, <2>4, <2>5 DEF Apart
<1> QED BY <1>3, <1>4, <1>5 DEF SchedInv

(* Its record when its KV cache has arrived. *)
LEMMA RecordDelivered ==
  ASSUME NEW r \in Requests, NEW q \in RequestRecords, InChannel(r, q),
         NEW p, p = WithState(q, "KVS_TRANSFERRING")
  PROVE  /\ p \in RequestRecords /\ InQueue(r, p, 0) /\ p.state = "KVS_TRANSFERRING"
         /\ p.decoded >= 1 /\ p.need_kv_transfer
<1>1. /\ p \in RequestRecords /\ p.state = "KVS_TRANSFERRING"
      /\ p.decoded = q.decoded /\ p.accepted = q.accepted /\ p.seq_len = q.seq_len
      /\ p.new_tokens = q.new_tokens /\ p.need_kv_transfer = q.need_kv_transfer
      /\ p.kv_transfer_done = q.kv_transfer_done
  BY DEF WithState, RequestRecords, RequestStates
<1>2. q.decoded < OutputTokens[r] /\ HandedOver(r, q)
  BY DEF InChannel
<1>3. HandedOver(r, p)
  BY <1>1, <1>2 DEF HandedOver, DecodeReady
<1> QED BY <1>1, <1>2, <1>3 DEF InQueue, HandedOver

(* The request at the head of a channel leaves it. *)
LEMMA ChannelHead ==
  ASSUME SchedInv, NEW e \in Engines, d2d[e] # <<>>, d2d' = [d2d EXCEPT ![e] = Tail(@)],
         NEW r, r = Head(d2d[e])
  PROVE  /\ r \in Requests /\ InChannel(r, req[r]) /\ r \in Channel(e) /\ req[r].need_kv_transfer
         /\ d2d' \in [Engines -> Seq(Requests)]
         /\ Channel(e)' = Channel(e) \ {r}
         /\ \A f \in Engines : r \notin tracked[f] /\ r \notin Channel(f)' /\ Channel(f)' \subseteq Channel(f)
                               /\ IsInjective(d2d'[f])
         /\ \A f \in Engines \ {e} : d2d'[f] = d2d[f]
<1>1. SchedTypeOK /\ Apart /\ d2d \in [Engines -> Seq(Requests)] /\ d2d[e] \in Seq(Requests)
  BY TypesAt DEF SchedInv, SchedTypeOK
<1>2. /\ Tail(d2d[e]) \in Seq(Requests) /\ r \in Requests
      /\ ToSet(d2d[e]) = ToSet(Tail(d2d[e])) \cup {r}
      /\ IsInjective(Tail(d2d[e])) /\ r \notin ToSet(Tail(d2d[e]))
  BY <1>1, QueueTail DEF Apart
<1>3. d2d'[e] = Tail(d2d[e]) /\ \A f \in Engines \ {e} : d2d'[f] = d2d[f]
  BY <1>1
<1>4. d2d' \in [Engines -> Seq(Requests)]
  BY <1>1, <1>2
<1>5. Channel(e)' = Channel(e) \ {r} /\ r \in Channel(e)
  BY <1>2, <1>3 DEF Channel
<1>6. InChannel(r, req[r]) /\ req[r].need_kv_transfer
  BY <1>1, <1>5 DEF Apart, InChannel, HandedOver
<1>7. \A f \in Engines \ {e} : Channel(f)' = Channel(f) /\ IsInjective(d2d'[f]) /\ r \notin Channel(f)
  BY <1>1, <1>3, <1>5 DEF Apart, Channel
<1>8. \A f \in Engines : r \notin tracked[f]
  BY <1>1, <1>5 DEF Apart
<1> QED BY <1>2, <1>3, <1>4, <1>5, <1>6, <1>7, <1>8
(***************************************************************************)
(* The invariant.                                                          *)
(***************************************************************************)

(* The requests that are in an engine or on their way to one. *)
InService == UNION {tracked[e] \cup Channel(e) : e \in Engines}

(* Requests at the client are new, and the ones in service are active.     *)
Client ==
    /\ pending \in Seq(Requests) /\ IsInjective(pending)
    /\ \A r \in ToSet(pending) : req[r].state = "INITIAL"
    /\ active \in SUBSET Requests
    /\ InService \subseteq active
    /\ ~ halted => active = InService
    /\ Cardinality(active) <= MaxConcurrency
    /\ halted \in BOOLEAN

HandedOverOnly == \A r \in Requests : req[r].need_kv_transfer => Disaggregated

(* Running requests whose prompt is not computed yet. *)
Chunked(e) == {r \in Running(e) : req[r].new_tokens > 0}

(* Engine e only computes prompts: a pass starts with at most one running  *)
(* request, the one whose prompt used up the budget of the last pass.      *)
OnPrefill(e) ==
    /\ \A r \in tracked[e] : req[r].state = "PREFILLING" /\ req[r].need_kv_transfer
    /\ sched[e].pc \in {"ready", "idle", "running"} => Len(running[e]) <= 1
    /\ sched[e].pc \in {"waiting", "decide", "execute"} => Running(e) = Batch(e)
    /\ sched[e].pc \in {"waiting", "decide", "execute", "post"} => \A r, s \in Chunked(e) : r = s
    /\ sched[e].pc \in {"running", "waiting"} => Chunked(e) \cap Batch(e) = {} \/ sched[e].budget = 0

OnDecode(e) ==
    \A r \in tracked[e] :
        /\ req[r].state \in {"KVS_TRANSFERRING", "DECODING", "RECOMPUTATION"}
        /\ req[r].decoded >= 1

Staged ==
    Disaggregated =>
        /\ \A e \in EnginesOf(PrefillInstances) : OnPrefill(e)
        /\ \A e \in EnginesOf(DecodeInstances) : OnDecode(e)

ServInv == SchedInv /\ Client /\ HandedOverOnly /\ Staged

(* What the client's next request is like, and what it becomes.            *)
LEMMA NextRequest ==
  ASSUME SchedInv, Client, pending # <<>>, NEW r, r = Head(pending)
  PROVE  /\ r \in Requests /\ req[r].state = "INITIAL"
         /\ ServedRecord(r) \in RequestRecords /\ InQueue(r, ServedRecord(r), 0)
         /\ ServedRecord(r).state = "PREFILLING"
         /\ ServedRecord(r).need_kv_transfer <=> Disaggregated
         /\ \A e \in Engines : r \notin tracked[e] /\ r \notin Channel(e)
         /\ Tail(pending) \in Seq(Requests) /\ IsInjective(Tail(pending))
         /\ ToSet(Tail(pending)) \subseteq ToSet(pending) \ {r}
<1>1. /\ r \in Requests /\ r \in ToSet(pending)
      /\ Tail(pending) \in Seq(Requests) /\ IsInjective(Tail(pending))
      /\ ToSet(Tail(pending)) \subseteq ToSet(pending) \ {r}
  BY QueueTail DEF Client
<1>2. req[r].state = "INITIAL" /\ req[r] = NewRequest(r)
  BY <1>1 DEF Client, SchedInv, Apart
<1>3. \A e \in Engines : r \notin tracked[e] /\ r \notin Channel(e)
  BY <1>1, <1>2, InitialIsNowhere
<1> DEFINE q == req[r]
           p == ServedRecord(r)
<1>4. p = [WithState(q, "PREFILLING") EXCEPT !.need_kv_transfer = Disaggregated]
  BY DEF ServedRecord
<1>5. Disaggregated \in BOOLEAN
  BY DEF Disaggregated
<1>6. q \in RequestRecords
  BY <1>1 DEF SchedInv, SchedTypeOK
<1>7. p.state = "PREFILLING" /\ (p.need_kv_transfer <=> Disaggregated)
  BY <1>4, <1>6 DEF WithState, RequestRecords
<1>8. p \in RequestRecords /\ InQueue(r, p, 0)
  <2> HIDE DEF p
  <2> QED BY <1>1, <1>2, <1>4, <1>5, RecordServed
<1> QED BY <1>1, <1>2, <1>3, <1>7, <1>8

(***************************************************************************)
(* The requests in service.                                                *)
(***************************************************************************)

LEMMA InFlightIs ==
  ASSUME SchedInv
  PROVE  /\ IsFiniteSet(UNION {tracked[e] : e \in Engines})
         /\ InFlight = Cardinality(UNION {tracked[e] : e \in Engines})
         /\ InFlight \in Nat
<1>1. \A e \in Engines : IsFiniteSet(tracked[e])
  BY TypesAt, FS_Subset DEF SchedInv
<1>2. \A e, f \in Engines : e # f => tracked[e] \cap tracked[f] = {}
  BY DEF SchedInv, Apart
<1>3. IsFiniteSet(Engines)
  BY SchedulerAssumption
<1>4. /\ IsFiniteSet(UNION {tracked[e] : e \in Engines})
      /\ SumOn([e \in Engines |-> Cardinality(tracked[e])], Engines)
           = Cardinality(UNION {tracked[e] : e \in Engines})
  <2>1. PICK t : t = tracked
    OBVIOUS
  <2>2. /\ \A e \in Engines : IsFiniteSet(t[e])
        /\ \A e, f \in Engines : e # f => t[e] \cap t[f] = {}
    BY <1>1, <1>2, <2>1
  <2>3. /\ IsFiniteSet(UNION {t[e] : e \in Engines})
        /\ SumOn([e \in Engines |-> Cardinality(t[e])], Engines)
             = Cardinality(UNION {t[e] : e \in Engines})
    BY <1>3, <2>2, SumOfSizes, SMTT(30)
  <2> QED BY <2>1, <2>3
<1> QED BY <1>4, FS_CardinalityType DEF InFlight

(* Requests at hand stay in service, *)
LEMMA ServiceStays ==
  ASSUME SchedInv, NEW e \in Engines, Proceed(e) \/ HandOver(e)
  PROVE  InService' = InService
<1>1. EngineMoves(e)
  BY DEF EngineMoves
<1>2. \A f \in Engines \ {e} : tracked'[f] \cup Channel(f)' = tracked[f] \cup Channel(f)
  BY <1>1, OthersStay DEF Channel
<1>3. /\ tracked \in [Engines -> SUBSET Requests] /\ d2d \in [Engines -> Seq(Requests)]
      /\ d2d[e] \in Seq(Requests)
  BY TypesAt DEF SchedInv, SchedTypeOK
<1>4. tracked'[e] \cup Channel(e)' = tracked[e] \cup Channel(e)
  <2>1. CASE Proceed(e) \/ ReceiveKvs(e)
    <3>1. tracked' = tracked /\ d2d' = d2d
      BY <2>1 DEF Proceed, ReceiveKvs, Start, ScheduleRunning, Preempt, EndRunning, ScheduleWaiting,
                  EndWaiting, Sleep, EndPass, ProcessBatch, PostChunked, PostDecoding, EndPost
    <3> QED BY <3>1 DEF Channel
  <2>2. CASE PostHandOff(e)
    <3> DEFINE r == Head(sched[e].batch)
    <3>1. r \in tracked[e] /\ r \in Requests
      BY <2>2, BatchShrinks DEF PostHandOff, InPost
    <3>2. tracked' = [tracked EXCEPT ![e] = @ \ {r}] /\ d2d' = [d2d EXCEPT ![e] = Append(@, r)]
      BY <2>2 DEF PostHandOff, Untracked
    <3> HIDE DEF r
    <3>3. ToSet(Append(d2d[e], r)) = ToSet(d2d[e]) \cup {r}
      BY <1>3, <3>1, QueueAppend
    <3>4. tracked'[e] = tracked[e] \ {r} /\ d2d'[e] = Append(d2d[e], r)
      BY <1>3, <3>2
    <3> QED BY <3>1, <3>3, <3>4 DEF Channel
  <2> QED BY <2>1, <2>2 DEF HandOver
<1>5. \A f \in Engines : tracked'[f] \cup Channel(f)' = tracked[f] \cup Channel(f)
  BY <1>2, <1>4
<1> QED BY <1>5 DEF InService

(* until they are finished. *)
LEMMA ServiceEnds ==
  ASSUME SchedInv, NEW e \in Engines, NEW r \in Requests, PostFinished(e, r)
  PROVE  r \in tracked[e] /\ InService' = InService \ {r}
<1>1. /\ tracked \in [Engines -> SUBSET Requests] /\ Apart
  BY DEF SchedInv, SchedTypeOK
<1>2. r \in tracked[e]
  BY BatchShrinks DEF PostFinished, InPost
<1>3. tracked' = [tracked EXCEPT ![e] = @ \ {r}] /\ d2d' = d2d
  BY DEF PostFinished, Untracked
<1>4. \A f \in Engines : Channel(f)' = Channel(f) /\ r \notin Channel(f)
  BY <1>1, <1>2, <1>3 DEF Apart, Channel
<1>5. \A f \in Engines : tracked'[f] = tracked[f] \ {r}
  <2>1. TAKE f \in Engines
  <2>2. CASE f = e
    BY <1>1, <1>3, <2>2
  <2>3. CASE f # e
    BY <1>1, <1>2, <1>3, <2>3 DEF Apart
  <2> QED BY <2>2, <2>3
<1>6. \A f \in Engines : tracked'[f] \cup Channel(f)' = (tracked[f] \cup Channel(f)) \ {r}
  BY <1>4, <1>5
<1> QED BY <1>2, <1>6 DEF InService

(***************************************************************************)
(* Every step keeps the invariant of the engines, the client's and that    *)
(* only disaggregated serving hands requests over.                         *)
(***************************************************************************)

Base == SchedInv /\ Client /\ HandedOverOnly

LEMMA EngineKeepsBase ==
  ASSUME Base, NEW e \in Engines, EngineStep(e)
  PROVE  Base'
<1>1. SchedInv /\ Client /\ HandedOverOnly /\ ~ halted
  BY DEF Base, EngineStep
<1>2. EngineMoves(e) /\ pending' = pending /\ halted' = halted
  BY DEF EngineStep, EngineMoves, Finish, clientVars
<1>3. SchedInv'
  BY <1>1, <1>2, MovesKeep
<1>4. HandedOverOnly'
  BY <1>1, <1>2, RecordsMove DEF HandedOverOnly, Onward
<1>5. \A r \in ToSet(pending) : req'[r].state = "INITIAL"
  <2>1. TAKE r \in ToSet(pending)
  <2>2. r \in Requests /\ req[r].state = "INITIAL"
    BY <1>1, QueueElements DEF Client
  <2>3. r \notin tracked[e]
    BY <1>1, <2>2, InitialIsNowhere
  <2> QED BY <1>1, <1>2, <2>2, <2>3, RecordsMove
<1>6. active' \in SUBSET Requests /\ active' = InService' /\ Cardinality(active') <= MaxConcurrency
  <2>1. CASE (Proceed(e) \/ HandOver(e)) /\ UNCHANGED clientVars
    BY <1>1, <2>1, ServiceStays DEF Client, clientVars
  <2>2. ASSUME NEW r \in Requests, Finish(e, r)
        PROVE  active' \in SUBSET Requests /\ active' = InService' /\ Cardinality(active') <= MaxConcurrency
    <3>1. active' = active \ {r} /\ InService' = InService \ {r}
      BY <1>1, <2>2, ServiceEnds DEF Finish
    <3>2. IsFiniteSet(active) /\ active \in SUBSET Requests /\ active = InService
          /\ Cardinality(active) <= MaxConcurrency
      BY <1>1, RequestAssumption, FS_Subset DEF Client
    <3>3. IsFiniteSet(active') /\ Cardinality(active') <= Cardinality(active)
      BY <3>1, <3>2, FS_Subset
    <3>4. Cardinality(active) \in Nat /\ Cardinality(active') \in Nat /\ MaxConcurrency \in Nat
      BY <3>2, <3>3, FS_CardinalityType, ServingAssumption
    <3> QED BY <3>1, <3>2, <3>3, <3>4
  <2> QED BY <2>1, <2>2 DEF EngineStep
<1>7. Client'
  BY <1>1, <1>2, <1>5, <1>6 DEF Client
<1> QED BY <1>3, <1>4, <1>7 DEF Base

LEMMA GateOpen ==
  ASSUME SchedInv, Client, ~ ExceedConcurrencyLimit, NEW r
  PROVE  Cardinality(active \cup {r}) <= MaxConcurrency
<1>1. IsFiniteSet(active)
  BY RequestAssumption, FS_Subset DEF Client
<1>2. Cardinality(active) \in Nat /\ MaxConcurrency \in Nat /\ InFlight \in Nat
  BY <1>1, InFlightIs, FS_CardinalityType, ServingAssumption
<1>3. Cardinality(active) < MaxConcurrency
  BY <1>2 DEF ExceedConcurrencyLimit, Max2
<1>4. /\ IsFiniteSet(active \cup {r})
      /\ Cardinality(active \cup {r}) = IF r \in active THEN Cardinality(active) ELSE Cardinality(active) + 1
  BY <1>1, FS_AddElement
<1> QED BY <1>2, <1>3, <1>4

LEMMA ServeKeepsBase ==
  ASSUME Base, ~ halted, Serve
  PROVE  Base'
<1> DEFINE r == Head(pending)
           q == ServedRecord(r)
           e == Selected(PrefillInstances)
<1>1. SchedInv /\ Client /\ HandedOverOnly /\ SchedTypeOK /\ Apart
  BY DEF Base, SchedInv
<1>2. e \in Engines
  BY <1>1, SelectedIsOne, ServingAssumption
<1>3. /\ r \in Requests /\ q \in RequestRecords /\ InQueue(r, q, 0) /\ q.state = "PREFILLING"
      /\ q.need_kv_transfer <=> Disaggregated
      /\ \A f \in Engines : r \notin tracked[f] /\ r \notin Channel(f)
      /\ Tail(pending) \in Seq(Requests) /\ IsInjective(Tail(pending))
      /\ ToSet(Tail(pending)) \subseteq ToSet(pending) \ {r}
  BY <1>1, NextRequest DEF Serve
<1>4. /\ Add(e, r, q) /\ pending' = Tail(pending) /\ active' = active \cup {r}
      /\ d2d' = d2d /\ kv_modeling' = kv_modeling /\ halted' = halted
      /\ ~ ExceedConcurrencyLimit
  BY DEF Serve
<1> HIDE DEF r, q, e
<1>5. \A f \in Engines : Channel(f)' = Channel(f) /\ IsInjective(d2d'[f])
  BY <1>1, <1>4 DEF Channel, Apart
<1>6. SchedInv'
  <2>1. d2d' \in [Engines -> Seq(Requests)]
    BY <1>1, <1>4 DEF SchedTypeOK
  <2> QED BY <1>1, <1>2, <1>3, <1>4, <1>5, <2>1, AddKeeps
<1>7. req'[r] = q /\ \A x \in Requests \ {r} : req'[x] = req[x]
  BY <1>1, <1>3, <1>4 DEF Add, SchedTypeOK
<1>8. HandedOverOnly'
  <2> SUFFICES ASSUME NEW x \in Requests, req'[x].need_kv_transfer PROVE Disaggregated
    BY DEF HandedOverOnly, Disaggregated
  <2> QED BY <1>1, <1>3, <1>7 DEF HandedOverOnly
<1>9. InService' = InService \cup {r}
  <2>1. \A f \in Engines : tracked'[f] = IF f = e THEN tracked[f] \cup {r} ELSE tracked[f]
    BY <1>1, <1>2, <1>4 DEF Add, SchedTypeOK
  <2>2. \A f \in Engines : tracked'[f] \cup Channel(f)'
                             = (tracked[f] \cup Channel(f)) \cup (IF f = e THEN {r} ELSE {})
    BY <1>5, <2>1
  <2> QED BY <1>2, <2>2 DEF InService
<1>10. Cardinality(active') <= MaxConcurrency
  BY <1>1, <1>4, GateOpen
<1>11. \A x \in ToSet(pending') : req'[x].state = "INITIAL"
  <2>1. TAKE x \in ToSet(pending')
  <2>2. x \in ToSet(pending) /\ x # r
    BY <1>3, <1>4
  <2>3. x \in Requests
    BY <1>1, <2>2, QueueElements DEF Client
  <2> QED BY <1>1, <1>7, <2>2, <2>3 DEF Client
<1>12. Client'
  BY <1>1, <1>3, <1>4, <1>9, <1>10, <1>11 DEF Client
<1> QED BY <1>6, <1>8, <1>12 DEF Base

LEMMA ServeRefusedKeepsBase ==
  ASSUME Base, ServeRefused
  PROVE  Base'
<1> DEFINE r == Head(pending)
           q == ServedRecord(r)
<1>1. SchedInv /\ Client /\ HandedOverOnly /\ SchedTypeOK /\ Apart
  BY DEF Base, SchedInv
<1>2. /\ r \in Requests /\ q \in RequestRecords /\ q.state = "PREFILLING"
      /\ q.need_kv_transfer <=> Disaggregated
      /\ \A f \in Engines : r \notin tracked[f] /\ r \notin Channel(f)
      /\ Tail(pending) \in Seq(Requests) /\ IsInjective(Tail(pending))
      /\ ToSet(Tail(pending)) \subseteq ToSet(pending) \ {r}
  BY <1>1, NextRequest DEF ServeRefused
<1>3. /\ req' = [req EXCEPT ![r] = q] /\ pending' = Tail(pending) /\ halted' = TRUE
      /\ UNCHANGED <<waiting, running, tracked, slots, free_blocks, sched, d2d, kv_modeling, active>>
  BY DEF ServeRefused
<1> HIDE DEF r, q
<1>4. \A f \in Engines : Channel(f)' = Channel(f) /\ IsInjective(d2d'[f])
  BY <1>1, <1>3 DEF Channel, Apart
<1>5. SchedInv'
  <2>1. d2d' \in [Engines -> Seq(Requests)]
    BY <1>1, <1>3 DEF SchedTypeOK
  <2> QED BY <1>1, <1>2, <1>3, <1>4, <2>1, RefusedKeeps
<1>6. req'[r] = q /\ \A x \in Requests \ {r} : req'[x] = req[x]
  BY <1>1, <1>2, <1>3 DEF SchedTypeOK
<1>7. HandedOverOnly'
  <2> SUFFICES ASSUME NEW x \in Requests, req'[x].need_kv_transfer PROVE Disaggregated
    BY DEF HandedOverOnly, Disaggregated
  <2> QED BY <1>1, <1>2, <1>6 DEF HandedOverOnly
<1>8. InService' = InService
  BY <1>3, <1>4 DEF InService
<1>9. \A x \in ToSet(pending') : req'[x].state = "INITIAL"
  <2>1. TAKE x \in ToSet(pending')
  <2>2. x \in ToSet(pending) /\ x # r
    BY <1>2, <1>3
  <2>3. x \in Requests
    BY <1>1, <2>2, QueueElements DEF Client
  <2> QED BY <1>1, <1>6, <2>2, <2>3 DEF Client
<1>10. Client'
  BY <1>1, <1>2, <1>3, <1>8, <1>9 DEF Client
<1> QED BY <1>5, <1>7, <1>10 DEF Base

(* The engine a KV cache is delivered to. *)
LEMMA Receiver ==
  ASSUME Base, NEW e \in Engines, d2d[e] # <<>>
  PROVE  /\ Disaggregated
         /\ Selected(DecodeInstances) \in Engines
         /\ Selected(DecodeInstances) \in EnginesOf(DecodeInstances)
<1> DEFINE r == Head(d2d[e])
<1>1. SchedTypeOK /\ Apart /\ HandedOverOnly /\ d2d[e] \in Seq(Requests)
  BY TypesAt DEF Base, SchedInv
<1>2. r \in Requests /\ r \in Channel(e)
  BY <1>1, QueueTail DEF Channel
<1>3. Disaggregated
  BY <1>1, <1>2 DEF Apart, InChannel, HandedOver, HandedOverOnly
<1> QED BY <1>1, <1>3, SelectedIsOne DEF Disaggregated

LEMMA ChannelKeepsBase ==
  ASSUME Base, NEW e \in Engines, ChannelStep(e)
  PROVE  Base'
<1> DEFINE r == Head(d2d[e])
           q == WithState(req[r], "KVS_TRANSFERRING")
           g == Selected(DecodeInstances)
<1>1. SchedInv /\ Client /\ HandedOverOnly /\ SchedTypeOK /\ Apart /\ ~ halted
  BY DEF Base, SchedInv, ChannelStep
<1>2. d2d[e] # <<>> /\ d2d' = [d2d EXCEPT ![e] = Tail(@)] /\ kv_modeling' = kv_modeling
      /\ pending' = pending /\ active' = active
  BY DEF ChannelStep, Deliver, DeliverRefused, CanDeliver, clientVars
<1>3. g \in Engines /\ Disaggregated
  BY <1>2, Receiver
<1>4. /\ r \in Requests /\ InChannel(r, req[r]) /\ r \in Channel(e) /\ req[r].need_kv_transfer
      /\ d2d' \in [Engines -> Seq(Requests)]
      /\ Channel(e)' = Channel(e) \ {r}
      /\ \A f \in Engines : r \notin tracked[f] /\ r \notin Channel(f)' /\ Channel(f)' \subseteq Channel(f)
                            /\ IsInjective(d2d'[f])
      /\ \A f \in Engines \ {e} : d2d'[f] = d2d[f]
  BY <1>1, <1>2, ChannelHead
<1>5. \/ Add(g, r, q) /\ halted' = halted
      \/ /\ req' = [req EXCEPT ![r] = WithState(@, "KVS_TRANSFERRING")] /\ halted' = TRUE
         /\ UNCHANGED <<waiting, running, tracked, slots, free_blocks, sched>>
  BY DEF ChannelStep, Deliver, DeliverRefused, clientVars
<1> HIDE DEF r, g
<1>6. q \in RequestRecords /\ InQueue(r, q, 0) /\ q.state = "KVS_TRANSFERRING"
  BY <1>1, <1>4, RecordDelivered DEF SchedTypeOK
<1> HIDE DEF q
<1>7. req' = [req EXCEPT ![r] = q]
  BY <1>1, <1>4, <1>5 DEF Add, SchedTypeOK, q
<1>8. SchedInv'
  <2>1. CASE Add(g, r, q)
    BY <1>1, <1>2, <1>3, <1>4, <1>6, <2>1, AddKeeps
  <2>2. CASE UNCHANGED <<waiting, running, tracked, slots, free_blocks, sched>>
    BY <1>1, <1>2, <1>4, <1>6, <1>7, <2>2, RefusedKeeps
  <2> QED BY <1>5, <2>1, <2>2
<1>9. \A x \in Requests \ {r} : req'[x] = req[x]
  BY <1>7
<1>10. HandedOverOnly'
  BY <1>3 DEF HandedOverOnly, Disaggregated
<1>11. \A x \in ToSet(pending') : req'[x].state = "INITIAL"
  <2>1. TAKE x \in ToSet(pending')
  <2>2. x \in Requests /\ req[x].state = "INITIAL"
    BY <1>1, <1>2, QueueElements DEF Client
  <2>3. x # r
    BY <1>4, <2>2 DEF InChannel
  <2> QED BY <1>9, <2>2, <2>3
<1>12. \A f \in Engines \ {e} : Channel(f)' = Channel(f)
  BY <1>4 DEF Channel
<1>13. InService' \subseteq InService /\ (halted' = halted => InService' = InService)
  <2>1. CASE Add(g, r, q)
    <3>1. \A f \in Engines : tracked'[f] = IF f = g THEN tracked[f] \cup {r} ELSE tracked[f]
      BY <1>1, <1>3, <2>1 DEF Add, SchedTypeOK
    <3>2. r \in InService /\ r \in InService'
      <4>1. r \in tracked[e] \cup Channel(e) /\ r \in tracked'[g]
        BY <1>3, <1>4, <3>1
      <4> QED BY <1>3, <4>1 DEF InService
    <3>3. \A f \in Engines : /\ tracked'[f] \cup Channel(f)' \subseteq (tracked[f] \cup Channel(f)) \cup {r}
                             /\ tracked[f] \cup Channel(f) \subseteq (tracked'[f] \cup Channel(f)') \cup {r}
      BY <1>4, <1>12, <3>1
    <3> QED BY <3>2, <3>3 DEF InService
  <2>2. CASE tracked' = tracked /\ halted' = TRUE
    <3>1. \A f \in Engines : tracked'[f] \cup Channel(f)' \subseteq tracked[f] \cup Channel(f)
      BY <1>4, <2>2
    <3>2. InService' \subseteq InService
      BY <3>1 DEF InService
    <3>3. halted' # halted
      BY <1>1, <2>2
    <3> QED BY <3>2, <3>3
  <2> QED BY <1>5, <2>1, <2>2
<1>14. Client'
  BY <1>1, <1>2, <1>5, <1>11, <1>13 DEF Client
<1> QED BY <1>8, <1>10, <1>14 DEF Base

(***************************************************************************)
(* Prefill engines only compute prompts, decode engines only decode.       *)
(***************************************************************************)

LEMMA AtMostOne ==
  ASSUME NEW s \in Seq(Requests)
  PROVE  /\ Len(s) <= 1 => \A x, y \in ToSet(s) : x = y
         /\ IsInjective(s) /\ (\A x, y \in ToSet(s) : x = y) => Len(s) <= 1
<1>1. /\ Len(s) \in Nat /\ ToSet(s) = {s[i] : i \in 1..Len(s)}
      /\ IsInjective(s) <=> \A i, j \in 1..Len(s) : s[i] = s[j] => i = j
  BY QueueElements
<1>2. ASSUME Len(s) <= 1 PROVE \A x, y \in ToSet(s) : x = y
  <2>1. \A i \in 1..Len(s) : i = 1
    BY <1>1, <1>2
  <2> QED BY <1>1, <2>1
<1>3. ASSUME IsInjective(s), \A x, y \in ToSet(s) : x = y, ~ (Len(s) <= 1) PROVE FALSE
  <2>1. 1 \in 1..Len(s) /\ 2 \in 1..Len(s)
    BY <1>1, <1>3
  <2>2. s[1] = s[2]
    BY <1>1, <1>3, <2>1
  <2> QED BY <1>1, <1>3, <2>1, <2>2
<1> QED BY <1>2, <1>3

(* What a prefill engine never does. *)
LEMMA OnlyPrompts ==
  ASSUME SchedInv, NEW e \in Engines, OnPrefill(e)
  PROVE  ~ Preempt(e) /\ ~ PostDecoding(e) /\ ~ ReceiveKvs(e)
<1>1. SchedTypeOK /\ Seated(e)
  BY DEF SchedInv, EngineInv
<1>2. ASSUME Preempt(e) PROVE FALSE
  <2>1. /\ sched[e].index < Len(running[e]) /\ Len(running[e]) \in Nat
        /\ sched[e].pc = "running"
    BY <1>2, VictimIsLast DEF Preempt, InRunningLoop, AtStage
  <2>2. sched[e].index = Len(sched[e].batch) + 1 /\ sched[e].batch \in Seq(Requests)
        /\ Len(running[e]) <= 1
    BY <1>1, <2>1, TypesAt DEF Seated, OnPrefill
  <2>3. Len(sched[e].batch) \in Nat
    BY <2>2
  <2> QED BY <2>1, <2>2, <2>3
<1>3. ASSUME PostDecoding(e) PROVE FALSE
  <2>1. Head(sched[e].batch) \in tracked[e]
    BY <1>3, BatchShrinks DEF PostDecoding, InPost
  <2> QED BY <1>3, <2>1 DEF PostDecoding, OnPrefill
<1>4. ASSUME ReceiveKvs(e) PROVE FALSE
  <2>1. Head(waiting[e]) \in Waiting(e)
    BY <1>1, <1>4, TypesAt, QueueTail DEF ReceiveKvs, InWaitingLoop, Waiting
  <2> QED BY <1>1, <1>4, <2>1 DEF ReceiveKvs, AwaitsKvs, OnPrefill, Seated
<1> QED BY <1>2, <1>3, <1>4

(* Scheduling a request uses up the budget or computes all of its prompt.  *)
LEMMA PromptOrBudget ==
  ASSUME SchedInv, NEW e \in Engines, NEW r \in Requests, Schedule(e, r), sched[e].budget > 0
  PROVE  /\ \A x \in Requests \ {r} : req'[x] = req[x]
         /\ req'[r].state = req[r].state /\ (req'[r].need_kv_transfer <=> req[r].need_kv_transfer)
         /\ req'[r].new_tokens > 0 => sched'[e].budget = 0
         /\ sched'[e].pc = sched[e].pc /\ sched'[e].batch = Append(sched[e].batch, r)
         /\ Batch(e)' = Batch(e) \cup {r}
<1> DEFINE n == Computed(e, r)
           q == req[r]
           b == sched[e].budget
<1>1. /\ req \in [Requests -> RequestRecords] /\ q \in RequestRecords /\ sched \in [Engines -> Locals]
      /\ sched[e] \in Locals /\ b \in Nat /\ sched[e].batch \in Seq(Requests)
  BY TypesAt DEF SchedInv, SchedTypeOK
<1>2. /\ req' = [req EXCEPT ![r] = ScheduledRecord(q, n)]
      /\ sched'[e] = [sched[e] EXCEPT !.budget = b - n, !.batch = Append(sched[e].batch, r),
                                      !.index = IF AtStage(e, "running") THEN @ + 1 ELSE @]
  BY <1>1 DEF Schedule, ScheduledRecord
<1>3. n = Min2(b, q.new_tokens) /\ q.new_tokens \in Nat
  BY <1>1 DEF Computed, RequestRecords
<1> HIDE DEF n
<1>4. /\ sched'[e].budget = b - n /\ sched'[e].batch = Append(sched[e].batch, r)
      /\ sched'[e].pc = sched[e].pc
  BY <1>1, <1>2 DEF Locals
<1>5. /\ req'[r] = ScheduledRecord(q, n) /\ \A x \in Requests \ {r} : req'[x] = req[x]
  BY <1>1, <1>2
<1> HIDE DEF q, b
<1>6. /\ req'[r].state = q.state /\ (req'[r].need_kv_transfer <=> q.need_kv_transfer)
      /\ req'[r].new_tokens = q.new_tokens - n
  BY <1>1, <1>5 DEF ScheduledRecord, RequestRecords
<1>7. req'[r].new_tokens > 0 => sched'[e].budget = 0
  <2>1. ASSUME q.new_tokens - n > 0 PROVE b - n = 0
    BY <1>1, <1>3, <2>1 DEF Min2
  <2> QED BY <1>4, <1>6, <2>1
<1>8. Batch(e)' = Batch(e) \cup {r}
  BY <1>1, <1>4, QueueAppend DEF Batch
<1> QED BY <1>4, <1>5, <1>6, <1>7, <1>8 DEF q

(* The second loop of a pass on a prefill engine starts with all running   *)
(* requests in the batch.                                                  *)
LEMMA AllInBatch ==
  ASSUME SchedInv, NEW e \in Engines, OnPrefill(e), EndRunning(e)
  PROVE  Running(e) = Batch(e)
<1>1. SchedTypeOK /\ Seated(e) /\ Healthy(e) /\ sched[e].pc = "running"
  BY DEF SchedInv, EngineInv, EndRunning, AtStage
<1>2. /\ running[e] \in Seq(Requests) /\ sched[e].batch \in Seq(Requests)
      /\ Len(running[e]) <= 1 /\ Batch(e) \subseteq Running(e)
  BY <1>1, TypesAt DEF Seated, OnPrefill
<1>3. \A x, y \in Running(e) : x = y
  BY <1>2, AtMostOne DEF Running
<1>4. CASE sched[e].batch = <<>>
  <2>1. \A x \in Waiting(e) : slots[e][x] = 0
    BY <1>1 DEF Seated, Healthy, InQueue, OnPrefill
  <2>2. running[e] = <<>>
    BY <1>4, <2>1, FirstRunningFits
  <2> QED BY <1>2, <2>2, EmptyQueue DEF Running
<1>5. CASE sched[e].batch # <<>>
  <2>1. Batch(e) # {}
    BY <1>2, <1>5, QueueElements DEF Batch
  <2> QED BY <1>2, <1>3, <2>1
<1> QED BY <1>4, <1>5

LEMMA PrefillMoves ==
  ASSUME SchedInv, NEW e \in Engines, OnPrefill(e), EngineMoves(e)
  PROVE  OnPrefill(e)'
<1>1. /\ SchedTypeOK /\ Seated(e) /\ Healthy(e)
      /\ running \in [Engines -> Seq(Requests)] /\ waiting \in [Engines -> Seq(Requests)]
      /\ tracked \in [Engines -> SUBSET Requests] /\ sched \in [Engines -> Locals]
      /\ running[e] \in Seq(Requests) /\ waiting[e] \in Seq(Requests) /\ sched[e] \in Locals
      /\ sched[e].batch \in Seq(Requests) /\ IsInjective(running[e])
      /\ Running(e) \subseteq tracked[e] /\ Waiting(e) \subseteq tracked[e]
      /\ Batch(e) \subseteq Running(e) /\ tracked[e] \subseteq Requests
  BY TypesAt DEF SchedInv, SchedTypeOK, EngineInv, Seated
<1> DEFINE Prompts == \A r \in tracked[e] : req[r].state = "PREFILLING" /\ req[r].need_kv_transfer
           One     == \A r, s \in Chunked(e) : r = s
<1>2. Prompts
  BY DEF OnPrefill
<1>3. ASSUME req' = req, tracked' = tracked, running' = running
      PROVE  Prompts' /\ Running(e)' = Running(e) /\ Chunked(e)' = Chunked(e)
  BY <1>2, <1>3 DEF Running, Chunked
<1>4. ASSUME sched'[e] = NewPass, running' = running, req' = req, tracked' = tracked, Len(running[e]) <= 1
      PROVE  OnPrefill(e)'
  <2>1. /\ sched'[e].pc = "running" /\ Batch(e)' = {}
    BY <1>4, EmptyQueue DEF NewPass, Batch
  <2> QED BY <1>3, <1>4, <2>1 DEF OnPrefill
<1>5. CASE Start(e)
  BY <1>1, <1>4, <1>5 DEF Start, AtStage, OnPrefill
<1>6. CASE ScheduleRunning(e)
  <2> DEFINE r == Current(e)
  <2>1. /\ sched[e].pc = "running" /\ Len(running[e]) <= 1 /\ sched[e].budget > 0
        /\ sched[e].index <= Len(running[e]) /\ sched[e].index = Len(sched[e].batch) + 1
        /\ running' = running /\ tracked' = tracked /\ Schedule(e, r)
    BY <1>1, <1>6 DEF ScheduleRunning, InRunningLoop, AtStage, OnPrefill, Seated
  <2>2. sched[e].index \in 1..Len(running[e])
    <3>1. Len(sched[e].batch) \in Nat /\ Len(running[e]) \in Nat
      BY <1>1
    <3> QED BY <2>1, <3>1
  <2>3. r \in Running(e) /\ r \in Requests /\ r \in tracked[e]
    <3>1. ToSet(running[e]) = {running[e][i] : i \in 1..Len(running[e])}
      BY <1>1, QueueElements
    <3>2. r \in Running(e)
      BY <2>2, <3>1 DEF Current, Running
    <3> QED BY <1>1, <3>2
  <2> HIDE DEF r
  <2>4. \A x \in Running(e) : x = r
    BY <1>1, <2>1, <2>3, AtMostOne DEF Running
  <2>5. /\ \A x \in Requests \ {r} : req'[x] = req[x]
        /\ req'[r].state = req[r].state /\ (req'[r].need_kv_transfer <=> req[r].need_kv_transfer)
        /\ req'[r].new_tokens > 0 => sched'[e].budget = 0
        /\ sched'[e].pc = sched[e].pc
    BY <2>1, <2>3, PromptOrBudget
  <2>6. Prompts'
    BY <1>1, <1>2, <2>1, <2>5
  <2>7. Running(e)' = Running(e)
    BY <2>1 DEF Running
  <2>8. Chunked(e)' \cap Batch(e)' = {} \/ sched'[e].budget = 0
    BY <2>4, <2>5, <2>7 DEF Chunked
  <2> QED BY <2>1, <2>5, <2>6, <2>8 DEF OnPrefill
<1>7. CASE EndRunning(e)
  <2>1. /\ running' = running /\ tracked' = tracked /\ req' = req /\ sched[e].pc = "running"
        /\ sched'[e].pc \in {"decide", "waiting"} /\ sched'[e].batch = sched[e].batch
        /\ sched'[e].budget = sched[e].budget
    BY <1>1, <1>7 DEF EndRunning, AtStage, Locals
  <2>2. Running(e) = Batch(e) /\ Batch(e)' = Batch(e)
    BY <1>7, <2>1, AllInBatch DEF Batch
  <2>3. One
    <3>1. \A x, y \in Running(e) : x = y
      BY <1>1, <2>1, AtMostOne DEF OnPrefill, Running
    <3> QED BY <3>1 DEF Chunked
  <2>4. Chunked(e) \cap Batch(e) = {} \/ sched[e].budget = 0
    BY <2>1 DEF OnPrefill
  <2> QED BY <1>3, <2>1, <2>2, <2>3, <2>4 DEF OnPrefill
<1>8. CASE ScheduleWaiting(e)
  <2> DEFINE r == Head(waiting[e])
  <2>1. /\ sched[e].pc = "waiting" /\ sched[e].budget > 0 /\ waiting[e] # <<>>
        /\ running' = [running EXCEPT ![e] = Append(@, r)] /\ tracked' = tracked /\ Schedule(e, r)
    BY <1>1, <1>8 DEF ScheduleWaiting, InWaitingLoop, AtStage
  <2>2. r \in Waiting(e) /\ r \in Requests /\ r \in tracked[e] /\ r \notin Running(e)
    <3>1. r \in Waiting(e)
      BY <1>1, <2>1, QueueTail DEF Waiting
    <3> QED BY <1>1, <3>1 DEF Seated
  <2> HIDE DEF r
  <2>3. Chunked(e) = {}
    BY <2>1 DEF OnPrefill, Chunked
  <2>4. /\ \A x \in Requests \ {r} : req'[x] = req[x]
        /\ req'[r].state = req[r].state /\ (req'[r].need_kv_transfer <=> req[r].need_kv_transfer)
        /\ req'[r].new_tokens > 0 => sched'[e].budget = 0
        /\ sched'[e].pc = sched[e].pc /\ Batch(e)' = Batch(e) \cup {r}
    BY <2>1, <2>2, PromptOrBudget
  <2>5. Prompts'
    BY <1>1, <1>2, <2>1, <2>4
  <2>6. Running(e)' = Running(e) \cup {r}
    <3>1. running'[e] = Append(running[e], r)
      BY <1>1, <2>1
    <3> QED BY <1>1, <2>2, <3>1, QueueAppend DEF Running
  <2>7. \A x \in Chunked(e)' : x = r /\ req'[r].new_tokens > 0
    <3>1. \A x \in Running(e) : x \in Requests \ {r} /\ ~ (req[x].new_tokens > 0)
      BY <1>1, <2>2, <2>3 DEF Chunked
    <3> QED BY <2>4, <2>6, <3>1 DEF Chunked
  <2>8. Running(e)' = Batch(e)'
    BY <2>1, <2>4, <2>6 DEF OnPrefill
  <2> QED BY <2>1, <2>4, <2>5, <2>7, <2>8 DEF OnPrefill
<1>9. CASE EndWaiting(e)
  <2>1. /\ running' = running /\ tracked' = tracked /\ req' = req /\ sched[e].pc = "waiting"
        /\ sched'[e].pc = "decide" /\ sched'[e].batch = sched[e].batch
    BY <1>1, <1>9 DEF EndWaiting, AtStage, Locals
  <2>2. Running(e) = Batch(e) /\ Batch(e)' = Batch(e) /\ One
    BY <2>1 DEF Batch, OnPrefill
  <2> QED BY <1>3, <2>1, <2>2 DEF OnPrefill
<1>10. CASE Sleep(e)
  <2>1. /\ running' = running /\ tracked' = tracked /\ req' = req /\ sched'[e].pc = "idle"
        /\ Len(running'[e]) <= 1
    BY <1>1, <1>10 DEF Sleep, Outside
  <2> QED BY <1>3, <2>1 DEF OnPrefill
<1>11. CASE EndPass(e)
  <2>1. /\ running' = running /\ tracked' = tracked /\ req' = req /\ sched[e].pc = "decide"
        /\ sched'[e] = IF sched[e].batch # <<>> THEN Outside("execute", sched[e].batch) ELSE NewPass
    BY <1>1, <1>11 DEF EndPass, AtStage
  <2>2. Running(e) = Batch(e) /\ One
    BY <2>1 DEF OnPrefill
  <2>3. CASE sched[e].batch = <<>>
    <3>1. ToSet(running[e]) = {}
      BY <2>2, <2>3, EmptyQueue DEF Running, Batch
    <3>2. running[e] = <<>>
      BY <1>1, <3>1, QueueElements
    <3>3. Len(running[e]) <= 1
      BY <3>2
    <3> QED BY <1>4, <2>1, <2>3, <3>3
  <2>4. CASE sched[e].batch # <<>>
    <3>1. sched'[e].pc = "execute" /\ Batch(e)' = Batch(e)
      BY <2>1, <2>4 DEF Outside, Batch
    <3> QED BY <1>3, <2>1, <2>2, <3>1 DEF OnPrefill
  <2> QED BY <2>3, <2>4
<1>12. CASE ProcessBatch(e) \/ PostChunked(e)
  <2>1. /\ running' = running /\ tracked' = tracked /\ req' = req
        /\ sched[e].pc \in {"execute", "post"} /\ sched'[e].pc = "post"
    BY <1>1, <1>12 DEF ProcessBatch, PostChunked, InPost, NextInBatch, AtStage, Locals
  <2>2. One
    BY <2>1 DEF OnPrefill
  <2> QED BY <1>3, <2>1, <2>2 DEF OnPrefill
<1>13. CASE EndPost(e)
  <2>1. /\ running' = running /\ tracked' = tracked /\ req' = req /\ sched[e].pc = "post"
        /\ sched'[e] = NewPass /\ sched[e].batch = <<>>
    BY <1>1, <1>13 DEF EndPost, AtStage
  <2>2. Batch(e) = {} /\ One
    BY <2>1, EmptyQueue DEF OnPrefill, Batch
  <2>3. \A x \in Running(e) : x \in Chunked(e)
    BY <1>1, <2>2 DEF Healthy, InRunning, Chunked
  <2>4. Len(running[e]) <= 1
    BY <1>1, <2>2, <2>3, AtMostOne DEF Running
  <2> QED BY <1>4, <2>1, <2>4
<1>14. ASSUME NEW r, r = Head(sched[e].batch), InPost(e), NextInBatch(e),
              running' = [running EXCEPT ![e] = RemoveFirst(@, r)], tracked' = Untracked(e, r),
              \A x \in Requests \ {r} : req'[x] = req[x]
       PROVE  OnPrefill(e)'
  <2>1. sched[e].pc = "post" /\ sched'[e].pc = "post"
    BY <1>1, <1>14 DEF InPost, AtStage, NextInBatch, Locals
  <2>2. tracked'[e] = tracked[e] \ {r} /\ running'[e] = RemoveFirst(running[e], r)
    BY <1>1, <1>14 DEF Untracked
  <2>3. Prompts'
    BY <1>1, <1>2, <1>14, <2>2
  <2>4. Running(e)' = Running(e) \ {r}
    BY <1>1, <2>2, QueueWithout DEF Running
  <2>5. Chunked(e)' \subseteq Chunked(e)
    BY <1>1, <1>14, <2>4 DEF Chunked
  <2>6. One
    BY <2>1 DEF OnPrefill
  <2> QED BY <2>1, <2>3, <2>5, <2>6 DEF OnPrefill
<1>15. CASE PostHandOff(e)
  <2> DEFINE r == Head(sched[e].batch)
  <2>1. /\ InPost(e) /\ NextInBatch(e) /\ tracked' = Untracked(e, r)
        /\ running' = [running EXCEPT ![e] = RemoveFirst(@, r)]
        /\ req' = [req EXCEPT ![r] = WithState(PrepareDecodeStep(r, Generated(r)), "PREFILL_DONE")]
    BY <1>15 DEF PostHandOff
  <2> HIDE DEF r
  <2>2. \A x \in Requests \ {r} : req'[x] = req[x]
    BY <1>1, <2>1 DEF SchedTypeOK
  <2>3. r = Head(sched[e].batch)
    BY DEF r
  <2> QED BY <1>14, <2>1, <2>2, <2>3
<1>16. ASSUME NEW r \in Requests, PostFinished(e, r) PROVE OnPrefill(e)'
  <2>1. /\ InPost(e) /\ NextInBatch(e) /\ tracked' = Untracked(e, r) /\ r = Head(sched[e].batch)
        /\ running' = [running EXCEPT ![e] = RemoveFirst(@, r)]
    BY <1>16 DEF PostFinished
  <2>2. \A x \in Requests \ {r} : req'[x] = req[x]
    BY <1>1, <1>16 DEF SchedTypeOK, PostFinished
  <2> QED BY <1>14, <2>1, <2>2
<1> HIDE DEF Prompts, One
<1> QED BY <1>5, <1>6, <1>7, <1>8, <1>9, <1>10, <1>11, <1>12, <1>13, <1>15, <1>16, OnlyPrompts
        DEF EngineMoves, Proceed, HandOver

LEMMA DecodeMoves ==
  ASSUME SchedInv, NEW e \in Engines, OnDecode(e), EngineMoves(e)
  PROVE  OnDecode(e)'
<1>1. /\ req \in [Requests -> RequestRecords] /\ tracked \in [Engines -> SUBSET Requests]
      /\ tracked[e] \subseteq Requests
      /\ Running(e) \subseteq tracked[e] /\ Waiting(e) \subseteq tracked[e]
      /\ waiting[e] \in Seq(Requests) /\ running[e] \in Seq(Requests)
  BY TypesAt DEF SchedInv, SchedTypeOK, EngineInv, Seated
<1> DEFINE Decoding == {"KVS_TRANSFERRING", "DECODING", "RECOMPUTATION"}
<1>2. \A x \in tracked[e] : req[x].state \in Decoding /\ req[x].decoded >= 1
  BY DEF OnDecode
<1>3. \A x \in tracked[e] : req'[x].decoded >= 1
  <2>1. TAKE x \in tracked[e]
  <2>2. Onward(req[x], req'[x]) /\ req[x].decoded >= 1 /\ req[x].decoded \in Nat
    BY <1>1, <1>2, RecordsMove DEF RequestRecords
  <2>3. req'[x] \in RequestRecords
    BY <1>1, MovesKeep DEF SchedInv, SchedTypeOK
  <2>4. req'[x].decoded \in Nat
    BY <2>3 DEF RequestRecords
  <2> QED BY <2>2, <2>4 DEF Onward
<1>4. ASSUME tracked'[e] \subseteq tracked[e], \A x \in tracked'[e] : req'[x].state \in Decoding
      PROVE  OnDecode(e)'
  BY <1>3, <1>4 DEF OnDecode
<1>5. ASSUME NEW r \in Requests, tracked' = tracked, \A x \in Requests \ {r} : req'[x] = req[x],
             req'[r].state \in Decoding \/ req'[r].state = req[r].state
      PROVE  OnDecode(e)'
  <2>1. \A x \in tracked[e] : req'[x].state \in Decoding
    BY <1>1, <1>2, <1>5
  <2> QED BY <1>4, <1>5, <2>1
<1>6. ASSUME tracked' = tracked, req' = req PROVE OnDecode(e)'
  BY <1>2, <1>4, <1>6
<1>7. CASE Start(e) \/ EndRunning(e) \/ EndWaiting(e) \/ Sleep(e) \/ EndPass(e) \/ ProcessBatch(e)
           \/ PostChunked(e) \/ EndPost(e)
  BY <1>6, <1>7 DEF Start, EndRunning, EndWaiting, Sleep, EndPass, ProcessBatch, PostChunked, EndPost
<1>8. ASSUME NEW r \in Requests, Schedule(e, r), tracked' = tracked PROVE OnDecode(e)'
  <2>1. /\ \A x \in Requests \ {r} : req'[x] = req[x]
        /\ req'[r].state = req[r].state
    BY <1>1, <1>8 DEF Schedule, RequestRecords
  <2> QED BY <1>5, <1>8, <2>1
<1>9. CASE ScheduleRunning(e)
  <2>1. Current(e) \in Requests
    <3>1. /\ sched[e].index <= Len(running[e]) /\ sched[e].index = Len(sched[e].batch) + 1
          /\ Len(sched[e].batch) \in Nat /\ Len(running[e]) \in Nat
      BY <1>1, <1>9, TypesAt DEF ScheduleRunning, InRunningLoop, AtStage, SchedInv, EngineInv, Seated
    <3>2. sched[e].index \in 1..Len(running[e])
      BY <3>1
    <3> QED BY <1>1, <3>2 DEF Current
  <2> QED BY <1>1, <1>8, <1>9, <2>1 DEF ScheduleRunning
<1>10. CASE ScheduleWaiting(e)
  <2>1. Head(waiting[e]) \in Requests
    BY <1>1, <1>10, QueueTail DEF ScheduleWaiting, InWaitingLoop
  <2> QED BY <1>8, <1>10, <2>1 DEF ScheduleWaiting
<1>11. CASE Preempt(e)
  <2> DEFINE r == Last(running[e])
  <2>1. r \in Requests
    BY <1>1, <1>11, VictimIsLast DEF Preempt, Running
  <2>2. req' = [req EXCEPT ![r] = PreemptedRecord(r)] /\ tracked' = tracked
    BY <1>11 DEF Preempt
  <2> HIDE DEF r
  <2>3. /\ \A x \in Requests \ {r} : req'[x] = req[x]
        /\ req'[r].state = "RECOMPUTATION"
    BY <1>1, <2>1, <2>2 DEF PreemptedRecord, RequestRecords
  <2> QED BY <1>5, <2>1, <2>2, <2>3
<1>12. CASE ReceiveKvs(e)
  <2> DEFINE r == Head(waiting[e])
  <2>1. r \in Requests
    BY <1>1, <1>12, QueueTail DEF ReceiveKvs, InWaitingLoop
  <2>2. req' = [req EXCEPT ![r].kv_transfer_done = TRUE, ![r].state = "DECODING"] /\ tracked' = tracked
    BY <1>12 DEF ReceiveKvs
  <2> HIDE DEF r
  <2>3. /\ \A x \in Requests \ {r} : req'[x] = req[x]
        /\ req'[r].state = "DECODING"
    BY <1>1, <2>1, <2>2 DEF RequestRecords
  <2> QED BY <1>5, <2>1, <2>2, <2>3
<1>13. CASE PostDecoding(e)
  <2> DEFINE r == Head(sched[e].batch)
             p == Generated(r)
             q == PrepareDecodeStep(r, p)
  <2>1. r \in tracked[e] /\ r \in Requests
    BY <1>1, <1>13, BatchShrinks DEF PostDecoding, InPost
  <2>2. /\ req' = [req EXCEPT ![r] = IF req[r].state = "DECODING" THEN q
                                     ELSE WithState(WithState(q, "PREFILL_DONE"), "DECODING")]
        /\ tracked' = tracked
    BY <1>13 DEF PostDecoding
  <2> HIDE DEF r
  <2>3. \A x \in Requests \ {r} : req'[x] = req[x]
    BY <1>1, <2>1, <2>2
  <2>4. req[r] \in RequestRecords /\ p = GeneratedRecord(r, req[r])
    BY <1>1, <2>1 DEF p, Generated, GeneratedRecord
  <2> HIDE DEF p
  <2>5. req'[r].state \in Decoding
    <3>1. /\ q.state = req[r].state
          /\ WithState(WithState(q, "PREFILL_DONE"), "DECODING").state = "DECODING"
      BY <2>1, <2>4, GeneratedOnward
    <3>2. req'[r] = IF req[r].state = "DECODING" THEN q
                    ELSE WithState(WithState(q, "PREFILL_DONE"), "DECODING")
      BY <1>1, <2>1, <2>2
    <3> QED BY <3>1, <3>2
  <2> QED BY <1>5, <2>1, <2>2, <2>3, <2>5
<1>14. ASSUME PostHandOff(e) PROVE FALSE
  <2>1. Head(sched[e].batch) \in tracked[e]
    BY <1>14, BatchShrinks DEF PostHandOff, InPost
  <2> QED BY <1>2, <1>14, <2>1 DEF PostHandOff
<1>15. ASSUME NEW r \in Requests, PostFinished(e, r) PROVE OnDecode(e)'
  <2>1. /\ tracked' = Untracked(e, r)
        /\ \A x \in Requests \ {r} : req'[x] = req[x]
    BY <1>1, <1>15 DEF PostFinished
  <2>2. tracked'[e] = tracked[e] \ {r}
    BY <1>1, <2>1 DEF Untracked
  <2>3. \A x \in tracked'[e] : req'[x].state \in Decoding
    BY <1>1, <1>2, <2>1, <2>2
  <2> QED BY <1>4, <2>2, <2>3
<1> HIDE DEF Decoding
<1> QED BY <1>7, <1>9, <1>10, <1>11, <1>12, <1>13, <1>14, <1>15
        DEF EngineMoves, Proceed, HandOver

(* An engine that nothing happens to keeps to its stage. *)
LEMMA StageStays ==
  ASSUME NEW e \in Engines, running'[e] = running[e], tracked'[e] = tracked[e],
         sched'[e] = sched[e], Running(e) \subseteq tracked[e],
         \A x \in tracked[e] : req'[x] = req[x]
  PROVE  (OnPrefill(e) => OnPrefill(e)') /\ (OnDecode(e) => OnDecode(e)')
<1>1. Running(e)' = Running(e) /\ Batch(e)' = Batch(e)
  BY DEF Running, Batch
<1>2. Chunked(e)' = Chunked(e)
  BY <1>1 DEF Chunked
<1>3. OnDecode(e) => OnDecode(e)'
  BY DEF OnDecode
<1>4. OnPrefill(e) => OnPrefill(e)'
  BY <1>1, <1>2 DEF OnPrefill
<1> QED BY <1>3, <1>4

(* A new request of the right kind does not change an engine's stage.      *)
LEMMA StageOfAdded ==
  ASSUME SchedInv, NEW g \in Engines, NEW r \in Requests, NEW q, Add(g, r, q),
         \A e \in Engines : r \notin tracked[e], NEW e \in Engines
  PROVE  /\ OnPrefill(e) /\ (e = g => q.state = "PREFILLING" /\ q.need_kv_transfer) => OnPrefill(e)'
         /\ /\ OnDecode(e)
            /\ e = g => q.state = "KVS_TRANSFERRING" /\ q.decoded >= 1
            => OnDecode(e)'
<1>1. /\ req \in [Requests -> RequestRecords] /\ tracked \in [Engines -> SUBSET Requests]
      /\ tracked[e] \subseteq Requests /\ sched \in [Engines -> Locals] /\ sched[e] \in Locals
      /\ Running(e) \subseteq tracked[e]
  BY TypesAt DEF SchedInv, SchedTypeOK, EngineInv, Seated
<1>2. /\ req' = [req EXCEPT ![r] = q] /\ running' = running
      /\ tracked' = [tracked EXCEPT ![g] = @ \cup {r}]
      /\ sched' = IF AtStage(g, "idle") THEN [sched EXCEPT ![g].pc = "ready"] ELSE sched
  BY DEF Add
<1>3. req'[r] = q /\ \A x \in tracked[e] : req'[x] = req[x]
  BY <1>1, <1>2
<1>4. CASE e # g
  <2>1. running'[e] = running[e] /\ tracked'[e] = tracked[e] /\ sched'[e] = sched[e]
    BY <1>1, <1>2, <1>4
  <2> QED BY <1>1, <1>3, <1>4, <2>1, StageStays
<1>5. CASE e = g
  <2>1. tracked'[e] = tracked[e] \cup {r}
    BY <1>1, <1>2, <1>5
  <2>2. ASSUME OnDecode(e), q.state = "KVS_TRANSFERRING", q.decoded >= 1 PROVE OnDecode(e)'
    BY <1>3, <2>1, <2>2 DEF OnDecode
  <2>3. /\ sched'[e].pc = sched[e].pc \/ (sched[e].pc = "idle" /\ sched'[e].pc = "ready")
        /\ sched'[e].batch = sched[e].batch /\ sched'[e].budget = sched[e].budget
    BY <1>1, <1>2, <1>5 DEF AtStage, Locals
  <2>4. Running(e)' = Running(e) /\ Batch(e)' = Batch(e) /\ Len(running'[e]) = Len(running[e])
    BY <1>2, <2>3 DEF Running, Batch
  <2>5. Chunked(e)' = Chunked(e)
    BY <1>1, <1>3, <2>4 DEF Chunked
  <2>6. ASSUME OnPrefill(e), q.state = "PREFILLING", q.need_kv_transfer PROVE OnPrefill(e)'
    <3>1. \A x \in tracked'[e] : req'[x].state = "PREFILLING" /\ req'[x].need_kv_transfer
      BY <1>3, <2>1, <2>6 DEF OnPrefill
    <3>2. sched[e].pc = "idle" /\ sched'[e].pc = "ready" => Len(running'[e]) <= 1
      BY <2>4, <2>6 DEF OnPrefill
    <3> QED BY <2>3, <2>4, <2>5, <2>6, <3>1, <3>2 DEF OnPrefill
  <2> QED BY <1>5, <2>2, <2>6
<1> QED BY <1>4, <1>5

(* Prefill and decode engines are different ones.                          *)
LEMMA StagesApart ==
  /\ EnginesOf(PrefillInstances) \subseteq Engines /\ EnginesOf(DecodeInstances) \subseteq Engines
  /\ EnginesOf(PrefillInstances) \cap EnginesOf(DecodeInstances) = {}
<1>1. ASSUME NEW instances \in {PrefillInstances, DecodeInstances}
      PROVE  EnginesOf(instances) \subseteq Engines
  <2>1. ASSUME NEW i \in DOMAIN instances PROVE ToSet(instances[i]) \subseteq Engines
    <3>1. instances \in Seq(Seq(Engines))
      BY ServingAssumption
    <3>2. instances[i] \in Seq(Engines)
      BY <2>1, <3>1
    <3> QED BY <3>2 DEF ToSet
  <2> QED BY <2>1 DEF EnginesOf
<1> QED BY <1>1, ServingAssumption

(***************************************************************************)
(* Every step of the simulation keeps the invariant.                       *)
(***************************************************************************)

LEMMA EngineKeepsStages ==
  ASSUME Base, Staged, NEW e \in Engines, EngineStep(e)
  PROVE  Staged'
<1>1. EngineMoves(e) /\ SchedInv
  BY DEF Base, EngineStep, EngineMoves, Finish
<1>2. ASSUME NEW f \in Engines
      PROVE  (OnPrefill(f) => OnPrefill(f)') /\ (OnDecode(f) => OnDecode(f)')
  <2>1. CASE f = e
    BY <1>1, <2>1, PrefillMoves, DecodeMoves
  <2>2. CASE f # e
    <3>1. /\ running'[f] = running[f] /\ tracked'[f] = tracked[f] /\ sched'[f] = sched[f]
          /\ \A x \in tracked[f] : req'[x] = req[x]
      BY <1>1, <2>2, OthersStay
    <3>2. Running(f) \subseteq tracked[f]
      BY <1>1 DEF SchedInv, EngineInv, Seated
    <3> QED BY <3>1, <3>2, StageStays
  <2> QED BY <2>1, <2>2
<1> QED BY <1>2, StagesApart DEF Staged, Disaggregated

LEMMA ClientKeepsStages ==
  ASSUME Base, Staged, ClientStep
  PROVE  Staged'
<1> DEFINE r == Head(pending)
           q == ServedRecord(r)
           g == Selected(PrefillInstances)
<1> SUFFICES ASSUME Disaggregated PROVE Staged'
  BY DEF Staged, Disaggregated
<1>1. SchedInv /\ Client /\ SchedTypeOK
  BY DEF Base, SchedInv
<1>2. /\ pending # <<>>
      /\ \/ Add(g, r, q)
         \/ req' = [req EXCEPT ![r] = q] /\ UNCHANGED <<running, tracked, sched>>
  BY DEF ClientStep, Serve, ServeRefused
<1>3. /\ r \in Requests /\ q.state = "PREFILLING" /\ q.need_kv_transfer
      /\ \A f \in Engines : r \notin tracked[f]
  BY <1>1, <1>2, NextRequest
<1>4. g \in Engines /\ g \in EnginesOf(PrefillInstances)
  BY <1>1, SelectedIsOne, ServingAssumption
<1> HIDE DEF r, q, g
<1>5. ASSUME NEW f \in Engines
      PROVE  (OnPrefill(f) => OnPrefill(f)') /\ (f # g /\ OnDecode(f) => OnDecode(f)')
  <2>1. CASE Add(g, r, q)
    BY <1>1, <1>3, <1>4, <2>1, StageOfAdded
  <2>2. CASE req' = [req EXCEPT ![r] = q] /\ UNCHANGED <<running, tracked, sched>>
    <3>1. \A x \in tracked[f] : req'[x] = req[x]
      BY <1>1, <1>3, <2>2 DEF SchedTypeOK
    <3>2. Running(f) \subseteq tracked[f]
      BY <1>1 DEF SchedInv, EngineInv, Seated
    <3> QED BY <2>2, <3>1, <3>2, StageStays
  <2> QED BY <1>2, <2>1, <2>2
<1>6. ASSUME NEW f \in EnginesOf(PrefillInstances) PROVE OnPrefill(f)'
  BY <1>5, <1>6, StagesApart DEF Staged
<1>7. ASSUME NEW f \in EnginesOf(DecodeInstances) PROVE OnDecode(f)'
  <2>1. f # g /\ f \in Engines
    BY <1>4, <1>7, StagesApart
  <2> QED BY <1>5, <1>7, <2>1 DEF Staged
<1> QED BY <1>6, <1>7 DEF Staged

LEMMA ChannelKeepsStages ==
  ASSUME Base, Staged, NEW e \in Engines, ChannelStep(e)
  PROVE  Staged'
<1> DEFINE r == Head(d2d[e])
           q == WithState(req[r], "KVS_TRANSFERRING")
           g == Selected(DecodeInstances)
<1>1. SchedInv /\ SchedTypeOK
  BY DEF Base, SchedInv
<1>2. /\ d2d[e] # <<>> /\ d2d' = [d2d EXCEPT ![e] = Tail(@)]
      /\ \/ Add(g, r, q)
         \/ /\ req' = [req EXCEPT ![r] = WithState(@, "KVS_TRANSFERRING")]
            /\ UNCHANGED <<running, tracked, sched>>
  BY DEF ChannelStep, Deliver, DeliverRefused, CanDeliver
<1>3. Disaggregated /\ g \in Engines /\ g \in EnginesOf(DecodeInstances)
  BY <1>2, Receiver
<1>4. r \in Requests /\ InChannel(r, req[r]) /\ \A f \in Engines : r \notin tracked[f]
  BY <1>1, <1>2, ChannelHead
<1> HIDE DEF r, g
<1>5. q.state = "KVS_TRANSFERRING" /\ q.decoded >= 1
  BY <1>1, <1>4, RecordDelivered DEF SchedTypeOK
<1> HIDE DEF q
<1>6. ASSUME NEW f \in Engines
      PROVE  (f # g /\ OnPrefill(f) => OnPrefill(f)') /\ (OnDecode(f) => OnDecode(f)')
  <2>1. CASE Add(g, r, q)
    BY <1>1, <1>3, <1>4, <1>5, <2>1, StageOfAdded
  <2>2. CASE /\ req' = [req EXCEPT ![r] = WithState(@, "KVS_TRANSFERRING")]
             /\ UNCHANGED <<running, tracked, sched>>
    <3>1. \A x \in tracked[f] : req'[x] = req[x]
      BY <1>1, <1>4, <2>2 DEF SchedTypeOK
    <3>2. Running(f) \subseteq tracked[f]
      BY <1>1 DEF SchedInv, EngineInv, Seated
    <3> QED BY <2>2, <3>1, <3>2, StageStays
  <2> QED BY <1>2, <2>1, <2>2
<1>7. ASSUME NEW f \in EnginesOf(PrefillInstances) PROVE OnPrefill(f)'
  <2>1. f # g /\ f \in Engines
    BY <1>3, <1>7, StagesApart
  <2> QED BY <1>3, <1>6, <1>7, <2>1 DEF Staged
<1>8. ASSUME NEW f \in EnginesOf(DecodeInstances) PROVE OnDecode(f)'
  BY <1>3, <1>6, <1>8, StagesApart DEF Staged
<1> QED BY <1>7, <1>8 DEF Staged

LEMMA ServStart == Init => ServInv
<1> SUFFICES ASSUME Init PROVE ServInv
  OBVIOUS
<1>1. SchedInv
  BY InitEstablishes DEF Init
<1>2. /\ req = [r \in Requests |-> NewRequest(r)] /\ running = [e \in Engines |-> <<>>]
      /\ tracked = [e \in Engines |-> {}] /\ d2d = [e \in Engines |-> <<>>]
      /\ sched = [e \in Engines |-> Outside("ready", <<>>)]
      /\ pending \in Loads /\ active = {} /\ halted = FALSE
  BY DEF Init, SchedInit
<1>3. InService = {}
  <2>1. \A e \in Engines : tracked[e] \cup Channel(e) = {}
    BY <1>2, EmptyQueue DEF Channel
  <2> QED BY <2>1 DEF InService
<1>4. pending \in Seq(Requests) /\ IsInjective(pending) /\ \A r \in ToSet(pending) : r \in Requests
  BY <1>2, QueueElements, ServingAssumption
<1>5. \A r \in Requests : req[r].state = "INITIAL" /\ ~ req[r].need_kv_transfer
  BY <1>2 DEF NewRequest
<1>6. Cardinality(active) <= MaxConcurrency
  BY <1>2, FS_EmptySet, ServingAssumption
<1>7. Client
  BY <1>2, <1>3, <1>4, <1>5, <1>6 DEF Client
<1>8. HandedOverOnly
  BY <1>5 DEF HandedOverOnly
<1>9. \A e \in Engines : OnPrefill(e) /\ OnDecode(e)
  <2>1. TAKE e \in Engines
  <2>2. sched[e].pc = "ready" /\ running[e] = <<>> /\ tracked[e] = {}
    BY <1>2 DEF Outside
  <2>3. Len(running[e]) <= 1
    BY <2>2
  <2> QED BY <2>2, <2>3 DEF OnPrefill, OnDecode
<1> QED BY <1>1, <1>7, <1>8, <1>9, StagesApart DEF ServInv, Staged

LEMMA ServStep == ServInv /\ [Next]_vars => ServInv'
<1> SUFFICES ASSUME ServInv, [Next]_vars PROVE ServInv'
  OBVIOUS
<1>1. Base /\ Staged
  BY DEF ServInv, Base
<1>2. ASSUME NEW e \in Engines, EngineStep(e) PROVE ServInv'
  BY <1>1, <1>2, EngineKeepsBase, EngineKeepsStages DEF ServInv, Base
<1>3. ASSUME NEW e \in Engines, ChannelStep(e) PROVE ServInv'
  BY <1>1, <1>3, ChannelKeepsBase, ChannelKeepsStages DEF ServInv, Base
<1>4. CASE ClientStep
  <2>1. Base'
    BY <1>1, <1>4, ServeKeepsBase, ServeRefusedKeepsBase DEF ClientStep
  <2> QED BY <1>1, <1>4, <2>1, ClientKeepsStages DEF ServInv, Base
<1>5. CASE UNCHANGED vars
  <2>1. /\ UNCHANGED schedVars
        /\ UNCHANGED <<req, running, tracked, sched, d2d, pending, active, halted>>
    BY <1>5 DEF vars, schedVars
  <2>2. SchedInv'
    BY <1>1, <2>1, StutterKeeps DEF Base
  <2>3. InService' = InService
    BY <2>1 DEF InService, Channel
  <2>4. Client' /\ HandedOverOnly'
    BY <1>1, <2>1, <2>3 DEF Base, Client, HandedOverOnly, Disaggregated
  <2>5. ASSUME NEW e \in Engines PROVE (OnPrefill(e) => OnPrefill(e)') /\ (OnDecode(e) => OnDecode(e)')
    <3>1. Running(e) \subseteq tracked[e]
      BY <1>1 DEF Base, SchedInv, EngineInv, Seated
    <3> QED BY <2>1, <3>1, StageStays
  <2>6. Staged'
    BY <1>1, <2>5, StagesApart DEF Staged, Disaggregated
  <2> QED BY <2>2, <2>4, <2>6 DEF ServInv
<1> QED BY <1>2, <1>3, <1>4, <1>5 DEF Next, Ended

LEMMA ServInvariant == Spec => []ServInv
<1> QED BY ServStart, ServStep, PTL DEF Spec

(* Admissions, hand-overs and refusals leave the pools alone.              *)
LEMMA ServUsesPools == ServInv /\ [Next]_vars => \A f \in Engines : PoolStep(f)
<1> SUFFICES ASSUME ServInv, [Next]_vars, NEW f \in Engines PROVE PoolStep(f)
  OBVIOUS
<1>1. ASSUME NEW e \in Engines, EngineStep(e) PROVE PoolStep(f)
  <2>1. EngineMoves(e)
    BY <1>1 DEF EngineStep, EngineMoves, Finish
  <2> QED BY <2>1, MovesUsePools DEF ServInv
<1>2. ASSUME slots' = slots, free_blocks' = free_blocks PROVE PoolStep(f)
  BY <1>2, PoolUntouched
<1>3. ASSUME NEW e \in Engines, ChannelStep(e) PROVE PoolStep(f)
  BY <1>2, <1>3 DEF ChannelStep, Deliver, DeliverRefused, Add
<1>4. CASE ClientStep
  BY <1>2, <1>4 DEF ClientStep, Serve, ServeRefused, Add
<1>5. CASE UNCHANGED vars
  BY <1>2, <1>5 DEF vars
<1> QED BY <1>1, <1>3, <1>4, <1>5 DEF Next, Ended

(***************************************************************************)
(* A pass meets a request it can schedule.                                 *)
(***************************************************************************)

(* An engine that computes prompts only, that serves its requests from     *)
(* beginning to end, or whose pool has room for all requests in service.   *)
Flows(e) == Disaggregated /\ e \in DecodingEngines => AmplePools

LEMMA AmpleFits ==
  ASSUME SchedInv, Client, AmplePools, NEW e \in DecodingEngines, e \in Engines, NEW r \in tracked[e],
         NEW k \in Nat, slots[e][r] + k <= InputTokens[r] + OutputTokens[r]
  PROVE  Fits(e, r, k)
<1> DEFINE T == tracked[e]
<1>1. T \in SUBSET {x \in Requests : InputTokens[x] + OutputTokens[x] <= Capacity(e)}
  <2>1. T \subseteq Requests /\ Healthy(e)
    BY TypesAt DEF SchedInv, EngineInv
  <2> QED BY <2>1 DEF Healthy, Admissible
<1>2. Cardinality(T) <= MaxConcurrency
  <2>1. T \subseteq active /\ IsFiniteSet(active) /\ Cardinality(active) <= MaxConcurrency
    <3>1. T \subseteq InService
      BY DEF InService
    <3> QED BY <3>1, RequestAssumption, FS_Subset DEF Client
  <2>2. Cardinality(T) <= Cardinality(active) /\ IsFiniteSet(T)
    BY <2>1, FS_Subset
  <2>3. Cardinality(T) \in Nat /\ Cardinality(active) \in Nat /\ MaxConcurrency \in Nat
    BY <2>1, <2>2, FS_CardinalityType, ServingAssumption
  <2> HIDE DEF T
  <2> QED BY <2>1, <2>2, <2>3
<1> HIDE DEF T
<1>3. SumOn([x \in Requests |-> BlocksFor(InputTokens[x] + OutputTokens[x])], T) <= NumBlocks[e]
  BY <1>1, <1>2 DEF AmplePools
<1> QED BY <1>3, FitsTogether DEF T

LEMMA AmpleFirstFits ==
  ASSUME SchedInv, Client, AmplePools, NEW e \in DecodingEngines, e \in Engines, sched[e].batch = <<>>
  PROVE  /\ EndRunning(e) => running[e] = <<>>
         /\ EndWaiting(e) => waiting[e] = <<>>
<1>1. SchedTypeOK /\ Seated(e) /\ Healthy(e) /\ running[e] \in Seq(Requests) /\ waiting[e] \in Seq(Requests)
  BY TypesAt DEF SchedInv, EngineInv
<1>2. ASSUME NEW r \in tracked[e], sched[e].pc \in {"running", "waiting"},
             \/ InRunning(r, req[r], slots[e][r])
             \/ InQueue(r, req[r], slots[e][r]) /\ req[r].state # "KVS_TRANSFERRING"
      PROVE  Schedulable(e, r)
  <2>1. ~ WindowBlocked(e, r)
    BY <1>2, WholeBudget
  <2>2. KvTokens(e, r) \in Nat /\ slots[e][r] + KvTokens(e, r) <= InputTokens[r] + OutputTokens[r]
    BY <1>2, WithinPeak
  <2>3. Fits(e, r, KvTokens(e, r))
    BY <2>2, AmpleFits
  <2> QED BY <2>1, <2>3 DEF Schedulable
<1>3. ASSUME EndRunning(e), running[e] # <<>> PROVE FALSE
  <2>1. sched[e].pc = "running" /\ sched[e].budget > 0
    BY <1>3, WholeBudget DEF EndRunning, AtStage
  <2>2. sched[e].index <= Len(running[e])
    <3>1. sched[e].index = Len(sched[e].batch) + 1
      BY <1>1, <2>1 DEF Seated
    <3>2. Len(running[e]) \in Nat /\ Len(running[e]) # 0 /\ Len(sched[e].batch) = 0
      BY <1>1, <1>3
    <3> QED BY <3>1, <3>2
  <2>3. InRunningLoop(e)
    BY <2>1, <2>2 DEF InRunningLoop, AtStage
  <2>4. Current(e) \in tracked[e] /\ InRunning(Current(e), req[Current(e)], slots[e][Current(e)])
    BY <2>3, CurrentIsNext
  <2>5. Schedulable(e, Current(e))
    BY <1>2, <2>1, <2>4
  <2> QED BY <1>3, <2>3, <2>5 DEF EndRunning, Schedulable
<1>4. ASSUME EndWaiting(e), waiting[e] # <<>> PROVE FALSE
  <2> DEFINE r == Head(waiting[e])
  <2>1. sched[e].pc = "waiting" /\ sched[e].budget > 0
    BY <1>4, WholeBudget DEF EndWaiting, AtStage
  <2>2. InWaitingLoop(e)
    BY <1>4, <2>1 DEF InWaitingLoop, AtStage
  <2>3. r \in tracked[e] /\ r \in Requests /\ InQueue(r, req[r], slots[e][r])
    <3>1. r \in Waiting(e)
      BY <1>1, <1>4, QueueTail DEF Waiting
    <3> QED BY <1>1, <3>1, TypesAt DEF Healthy, Seated
  <2>4. IF AwaitsKvs(r) THEN ~ Fits(e, r, InputTokens[r]) ELSE ~ Schedulable(e, r)
    BY <1>4, <2>2 DEF EndWaiting
  <2> HIDE DEF r
  <2>5. CASE AwaitsKvs(r)
    <3>1. slots[e][r] = 0
      BY <2>3, <2>5 DEF AwaitsKvs, InQueue, Prefills
    <3>2. InputTokens[r] \in Nat /\ OutputTokens[r] \in Nat
      BY <2>3, RequestAssumption
    <3>3. slots[e][r] + InputTokens[r] <= InputTokens[r] + OutputTokens[r]
      BY <3>1, <3>2
    <3> QED BY <2>3, <2>4, <2>5, <3>2, <3>3, AmpleFits
  <2>6. CASE ~ AwaitsKvs(r)
    <3>1. req[r].state # "KVS_TRANSFERRING"
      BY <2>3, <2>6 DEF AwaitsKvs, InQueue, Prefills, HandedOver
    <3> QED BY <1>2, <2>1, <2>3, <2>4, <2>6, <3>1
  <2> QED BY <2>5, <2>6
<1> QED BY <1>3, <1>4

LEMMA PromptFirstFits ==
  ASSUME SchedInv, NEW e \in Engines, OnPrefill(e)
  PROVE  /\ EndRunning(e) /\ sched[e].batch = <<>> => running[e] = <<>>
         /\ EndWaiting(e) /\ sched[e].batch = <<>> /\ running[e] = <<>> => waiting[e] = <<>>
<1>1. \A x \in Waiting(e) : slots[e][x] = 0 /\ Prefills(x, req[x])
  BY DEF SchedInv, EngineInv, Healthy, Seated, InQueue, OnPrefill
<1> QED BY <1>1, FirstRunningFits, FirstWaitingFits

(* Only one task runs at a time, and a transfer that takes no time is      *)
(* delivered while its sender is in _postprocess_batch.                    *)
Exclusive ==
    /\ \A e, f \in Engines : e # f => sched[e].pc \in Yielded \/ sched[f].pc \in Yielded
    /\ \A e \in Engines : d2d[e] # <<>> /\ ~ kv_modeling => sched[e].pc = "post"

Passes ==
    /\ Exclusive
    /\ ~ Disaggregated => Colocated
    /\ \A e \in Engines : Flows(e) => Passing(e)

LEMMA EngineKeepsExclusive ==
  ASSUME SchedInv, Exclusive, NEW e \in Engines, EngineMoves(e)
  PROVE  Exclusive'
<1>1. /\ sched \in [Engines -> Locals] /\ d2d \in [Engines -> Seq(Requests)] /\ sched[e] \in Locals
      /\ d2d[e] \in Seq(Requests)
  BY TypesAt DEF SchedInv, SchedTypeOK
<1>2. \A f \in Engines \ {e} : sched'[f] = sched[f] /\ d2d'[f] = d2d[f]
  BY OthersStay
<1>3. kv_modeling' = kv_modeling
  BY ZenonT(60) DEF EngineMoves, Proceed, HandOver, Start, ScheduleRunning, Preempt, EndRunning, ScheduleWaiting,
         EndWaiting, Sleep, EndPass, ProcessBatch, PostChunked, PostDecoding, EndPost, ReceiveKvs,
         PostHandOff, PostFinished
<1>4. \A f \in Engines \ {e} : sched[f].pc \in Yielded
  <2>1. CASE sched[e].pc \notin Yielded
    BY <2>1 DEF Exclusive
  <2>2. CASE sched[e].pc \in Yielded
    <3>1. Start(e) \/ ProcessBatch(e)
      BY <2>2, ZenonT(60) DEF EngineMoves, Proceed, HandOver, ScheduleRunning, Preempt, EndRunning,
                  ScheduleWaiting, EndWaiting, Sleep, EndPass, PostChunked, PostDecoding, EndPost,
                  ReceiveKvs, PostHandOff, PostFinished, InRunningLoop, InWaitingLoop, InPost, AtStage,
                  Yielded
    <3> QED BY <3>1 DEF Start, ProcessBatch, Turn
  <2> QED BY <2>1, <2>2
<1>5. d2d'[e] # <<>> /\ ~ kv_modeling => sched'[e].pc = "post"
  <2>1. CASE sched[e].pc = "post" /\ ~ EndPost(e)
    <3>1. \/ \E r \in Requests : PostFinished(e, r)
          \/ PostChunked(e) \/ PostDecoding(e) \/ PostHandOff(e)
      BY <2>1 DEF EngineMoves, Proceed, HandOver, Start, ScheduleRunning, Preempt, EndRunning,
                  ScheduleWaiting, EndWaiting, Sleep, EndPass, ProcessBatch, ReceiveKvs, InRunningLoop,
                  InWaitingLoop, AtStage
    <3>2. sched'[e].pc = sched[e].pc
      BY <1>1, <3>1, SMTT(40) DEF PostFinished, PostChunked, PostDecoding, PostHandOff, NextInBatch, Locals
    <3> QED BY <2>1, <3>2
  <2>2. CASE EndPost(e)
    BY <2>2 DEF EndPost, Delivered
  <2>3. CASE sched[e].pc # "post"
    <3>1. d2d'[e] = d2d[e]
      BY <2>3, ZenonT(60) DEF EngineMoves, Proceed, HandOver, Start, ScheduleRunning, Preempt, EndRunning,
                  ScheduleWaiting, EndWaiting, Sleep, EndPass, ProcessBatch, ReceiveKvs, PostHandOff,
                  PostFinished, PostChunked, PostDecoding, EndPost, InPost, AtStage
    <3> QED BY <2>3, <3>1 DEF Exclusive
  <2> QED BY <2>1, <2>2, <2>3
<1>6. \A f \in Engines : d2d'[f] # <<>> /\ ~ kv_modeling' => sched'[f].pc = "post"
  BY <1>2, <1>3, <1>5 DEF Exclusive
<1>7. \A f, g \in Engines : f # g => sched'[f].pc \in Yielded \/ sched'[g].pc \in Yielded
  BY <1>2, <1>4
<1> QED BY <1>6, <1>7 DEF Exclusive

(* Requests that join an engine find it waiting for its turn, or in        *)
(* _postprocess_batch.                                                     *)
LEMMA AddKeepsExclusive ==
  ASSUME SchedTypeOK, Exclusive, NEW g \in Engines, NEW r, NEW q, Add(g, r, q), kv_modeling' = kv_modeling,
         \A f \in Engines : d2d'[f] # <<>> => d2d[f] # <<>>
  PROVE  Exclusive'
<1>1. sched \in [Engines -> Locals]
  BY DEF SchedTypeOK
<1>2. \A f \in Engines : sched'[f].pc = sched[f].pc \/ (sched[f].pc = "idle" /\ sched'[f].pc = "ready")
  <2>1. TAKE f \in Engines
  <2>2. sched[f] \in Locals
    BY <1>1
  <2> QED BY <1>1, <2>2 DEF Add, AtStage, Locals
<1>3. \A f \in Engines : sched[f].pc \in Yielded => sched'[f].pc \in Yielded
  BY <1>2 DEF Yielded
<1>4. \A f \in Engines : sched[f].pc = "post" => sched'[f].pc = "post"
  BY <1>2
<1> QED BY <1>3, <1>4 DEF Exclusive

LEMMA PassesStep ==
  ASSUME ServInv, Passes, [Next]_vars
  PROVE  Passes'
<1>1. SchedInv /\ SchedTypeOK /\ Client /\ Base /\ Exclusive
  BY DEF ServInv, SchedInv, Base, Passes
<1>2. ASSUME NEW e \in Engines, EngineStep(e) PROVE Passes'
  <2>1. EngineMoves(e)
    BY <1>2 DEF EngineStep, EngineMoves, Finish
  <2>2. Exclusive'
    BY <1>1, <2>1, EngineKeepsExclusive
  <2>3. ~ Disaggregated => Colocated'
    BY <1>1, <2>1, ColocatedMoves DEF Passes
  <2>4. ASSUME NEW f \in Engines, Flows(f) PROVE Passing(f)'
    <3>1. /\ EndRunning(f) /\ sched[f].batch = <<>> => running[f] = <<>>
          /\ EndWaiting(f) /\ sched[f].batch = <<>> /\ running[f] = <<>> => waiting[f] = <<>>
      <4>1. CASE ~ Disaggregated
        BY <1>1, <4>1, ColocatedFirstFits DEF Passes
      <4>2. CASE Disaggregated /\ f \in DecodingEngines
        BY <1>1, <2>4, <4>2, AmpleFirstFits DEF Flows
      <4>3. CASE Disaggregated /\ f \notin DecodingEngines
        <5>1. OnPrefill(f)
          BY <4>3 DEF DecodingEngines, ServInv, Staged
        <5> QED BY <1>1, <5>1, PromptFirstFits
      <4> QED BY <4>1, <4>2, <4>3
    <3>2. Passing(f)
      BY <2>4 DEF Passes
    <3> QED BY <1>1, <2>1, <3>1, <3>2, PassingMoves
  <2> QED BY <2>2, <2>3, <2>4 DEF Passes, Disaggregated, Flows, DecodingEngines, AmplePools,
                                  Capacity
<1>3. ASSUME NEW e \in Engines, ChannelStep(e) PROVE Passes'
  <2> DEFINE r == Head(d2d[e])
             q == WithState(req[r], "KVS_TRANSFERRING")
             g == Selected(DecodeInstances)
  <2>1. /\ d2d[e] # <<>> /\ d2d' = [d2d EXCEPT ![e] = Tail(@)] /\ kv_modeling' = kv_modeling
        /\ Add(g, r, q) \/ UNCHANGED <<waiting, running, sched>>
        /\ kv_modeling => Quiet
    BY <1>3 DEF ChannelStep, Deliver, DeliverRefused, CanDeliver
  <2>2. Disaggregated /\ g \in Engines
    BY <1>1, <2>1, Receiver
  <2>3. \A f \in Engines : d2d'[f] # <<>> => d2d[f] # <<>>
    BY <1>1, <2>1 DEF SchedTypeOK
  <2> HIDE DEF r, q, g
  <2>4. sched[g].pc \notin {"running", "waiting", "decide"}
    <3>1. CASE kv_modeling
      BY <2>1, <2>2, <3>1 DEF Quiet, Yielded
    <3>2. CASE ~ kv_modeling
      BY <1>1, <2>1, <2>2, <3>2 DEF Exclusive, Yielded
    <3> QED BY <3>1, <3>2
  <2>5. Exclusive'
    <3>1. CASE Add(g, r, q)
      BY <1>1, <2>1, <2>2, <2>3, <3>1, AddKeepsExclusive
    <3>2. CASE UNCHANGED <<waiting, running, sched>>
      BY <1>1, <2>1, <2>3, <3>2 DEF Exclusive
    <3> QED BY <2>1, <3>1, <3>2
  <2>6. ASSUME NEW f \in Engines, Flows(f) PROVE Passing(f)'
    <3>1. Passing(f)
      BY <2>6 DEF Passes
    <3>2. CASE Add(g, r, q)
      BY <1>1, <2>2, <2>4, <3>1, <3>2, PassingAdded
    <3>3. CASE UNCHANGED <<waiting, running, sched>>
      BY <3>1, <3>3 DEF Passing
    <3> QED BY <2>1, <3>2, <3>3
  <2> QED BY <2>2, <2>5, <2>6 DEF Passes, Disaggregated, Flows, DecodingEngines, AmplePools,
                                  Capacity
<1>4. CASE ClientStep
  <2> DEFINE r == Head(pending)
             q == ServedRecord(r)
             g == Selected(PrefillInstances)
  <2>1. /\ pending # <<>> /\ Quiet /\ d2d' = d2d /\ kv_modeling' = kv_modeling
        /\ Add(g, r, q) \/ UNCHANGED <<waiting, running, sched>>
        /\ req' = [req EXCEPT ![r] = q]
    BY <1>4 DEF ClientStep, Serve, ServeRefused, Add
  <2>2. r \in Requests /\ q.state = "PREFILLING" /\ (q.need_kv_transfer <=> Disaggregated)
    BY <1>1, <2>1, NextRequest
  <2>3. g \in Engines
    BY <1>1, SelectedIsOne, ServingAssumption
  <2>4. ~ Disaggregated => Colocated'
    <3> SUFFICES ASSUME ~ Disaggregated PROVE Colocated'
      OBVIOUS
    <3>1. Colocated /\ req \in [Requests -> RequestRecords]
      BY <1>1 DEF Passes, SchedTypeOK
    <3>2. ~ q.kv_transfer_done
      BY <2>2, <3>1 DEF Colocated, ServedRecord, WithState, RequestRecords
    <3> HIDE DEF r, q
    <3>3. Stays(req'[r]) /\ \A x \in Requests \ {r} : req'[x] = req[x]
      BY <2>1, <2>2, <3>1, <3>2 DEF Stays
    <3> QED BY <3>1, <3>3, ColocatedAgain
  <2> HIDE DEF r, q, g
  <2>5. Exclusive'
    <3>1. CASE Add(g, r, q)
      BY <1>1, <2>1, <2>3, <3>1, AddKeepsExclusive
    <3>2. CASE UNCHANGED <<waiting, running, sched>>
      BY <1>1, <2>1, <3>2 DEF Exclusive
    <3> QED BY <2>1, <3>1, <3>2
  <2>6. ASSUME NEW f \in Engines, Flows(f) PROVE Passing(f)'
    <3>1. Passing(f) /\ sched[f].pc \notin {"running", "waiting", "decide"}
      BY <2>1, <2>6 DEF Passes, Quiet, Yielded
    <3>2. CASE Add(g, r, q)
      BY <1>1, <2>3, <3>1, <3>2, PassingAdded
    <3>3. CASE UNCHANGED <<waiting, running, sched>>
      BY <3>1, <3>3 DEF Passing
    <3> QED BY <2>1, <3>2, <3>3
  <2> QED BY <2>4, <2>5, <2>6 DEF Passes, Disaggregated, Flows, DecodingEngines, AmplePools,
                                  Capacity
<1>5. CASE UNCHANGED vars
  BY <1>5 DEF Passes, Exclusive, Colocated, Passing, vars, Disaggregated, Flows, DecodingEngines, AmplePools,
              Capacity
<1> QED BY <1>2, <1>3, <1>4, <1>5 DEF Next, Ended

LEMMA PassesInvariant == Spec => [](ServInv /\ Passes)
<1>1. Init => ServInv /\ Passes
  <2> SUFFICES ASSUME Init PROVE ServInv /\ Passes
    OBVIOUS
  <2>1. /\ req = [r \in Requests |-> NewRequest(r)] /\ sched = [e \in Engines |-> Outside("ready", <<>>)]
        /\ d2d = [e \in Engines |-> <<>>]
    BY DEF Init, SchedInit
  <2>2. Colocated
    BY <2>1 DEF NewRequest, Colocated
  <2>3. \A e \in Engines : Passing(e)
    BY <2>1 DEF Outside, Passing
  <2>4. Exclusive
    BY <2>1 DEF Outside, Exclusive, Yielded
  <2> QED BY <2>2, <2>3, <2>4, ServStart DEF Passes
<1>2. (ServInv /\ Passes) /\ [Next]_vars => (ServInv /\ Passes)'
  BY ServStep, PassesStep
<1> QED BY <1>1, <1>2, PTL DEF Spec

(* What a pass of a flowing engine promises. *)
FlowingProgress ==
    \A e \in Engines : Flows(e) => (AtStage(e, "decide") /\ Line(e) # <<>> => sched[e].batch # <<>>)

LEMMA PassesFollow == Passes => FlowingProgress
<1> SUFFICES ASSUME Passes, NEW e \in Engines, Flows(e), AtStage(e, "decide"), Line(e) # <<>>
             PROVE  sched[e].batch # <<>>
  BY DEF FlowingProgress
<1>1. ASSUME running[e] = <<>>, waiting[e] = <<>> PROVE FALSE
  BY <1>1 DEF Line
<1> QED BY <1>1 DEF Passes, Passing, AtStage

(***************************************************************************)
(* With ample pools nothing is ever preempted, and every sequence is as    *)
(* long as the tokens generated so far make it.                            *)
(***************************************************************************)

(* A decoding sequence counts the prompt, the tokens generated so far      *)
(* except the last one, and the window that is computed next.              *)
Straight(r, q) ==
    /\ q.state # "RECOMPUTATION"
    /\ q.state \in {"PREFILL_DONE", "KVS_TRANSFERRING", "DECODING"} =>
          q.seq_len + q.new_tokens = InputTokens[r] + q.decoded + DecodeQueryLen - 1

StraightOn == \A r \in Requests : Straight(r, req[r])

(* What a step that has computed all of a request's tokens leaves.         *)
LEMMA PreparedStraight ==
  ASSUME NEW r \in Requests, NEW q \in RequestRecords, NEW held \in Nat, InBatch(r, q, held),
         q.new_tokens = 0, GeneratedRecord(r, q).decoded < OutputTokens[r], Straight(r, q),
         NEW p, p = PrepareDecodeStep(r, GeneratedRecord(r, q))
  PROVE  /\ Straight(r, p)
         /\ \A s \in {"PREFILL_DONE", "DECODING"} : Straight(r, WithState(p, s))
<1> DEFINE g == GeneratedRecord(r, q)
<1>1. /\ g \in RequestRecords /\ g.state = q.state /\ q.state \in {"PREFILLING", "RECOMPUTATION", "DECODING"}
      /\ g.seq_len = held
      /\ q.state = "PREFILLING" => g.seq_len = InputTokens[r] /\ g.decoded = 1
      /\ q.state = "DECODING" => g.decoded = q.decoded + q.accepted
  BY RecordGenerated
<1>2. g.decoded < OutputTokens[r]
  OBVIOUS
<1> HIDE DEF g
<1>3. /\ p \in RequestRecords /\ p.new_tokens = DecodeQueryLen
      /\ p.state = g.state /\ p.decoded = g.decoded /\ p.seq_len = g.seq_len
  BY <1>1, <1>2, RecordPrepared DEF g
<1>4. /\ DecodeQueryLen \in Nat /\ InputTokens[r] \in Nat
      /\ q.decoded \in Nat /\ q.accepted \in Nat /\ q.seq_len \in Nat
  BY Sized DEF RequestsAreSized, RequestRecords
<1>5. q.state # "RECOMPUTATION"
  BY DEF Straight
<1>6. p.seq_len + p.new_tokens = InputTokens[r] + p.decoded + DecodeQueryLen - 1
  <2>1. CASE q.state = "PREFILLING"
    BY <1>1, <1>3, <1>4, <2>1
  <2>2. CASE q.state = "DECODING"
    <3>1. held + DecodeQueryLen = q.seq_len + q.accepted
      BY <2>2 DEF InBatch, Prefills
    <3>2. q.seq_len + 0 = InputTokens[r] + q.decoded + DecodeQueryLen - 1
      BY <2>2 DEF Straight
    <3>3. p.seq_len = held /\ p.new_tokens = DecodeQueryLen /\ p.decoded = q.decoded + q.accepted
      BY <1>1, <1>3, <2>2
    <3> QED BY <1>4, <3>1, <3>2, <3>3
  <2> QED BY <1>1, <1>5, <2>1, <2>2
<1>7. Straight(r, p)
  BY <1>1, <1>3, <1>5, <1>6 DEF Straight
<1>8. ASSUME NEW s \in {"PREFILL_DONE", "DECODING"} PROVE Straight(r, WithState(p, s))
  <2>1. /\ WithState(p, s).state = s /\ WithState(p, s).seq_len = p.seq_len
        /\ WithState(p, s).new_tokens = p.new_tokens /\ WithState(p, s).decoded = p.decoded
    BY <1>3 DEF WithState, RequestRecords
  <2> QED BY <1>6, <2>1 DEF Straight
<1> QED BY <1>7, <1>8

(* An engine whose pool holds the peaks of all its requests does not       *)
(* preempt.                                                                *)
LEMMA AmpleNeverPreempts ==
  ASSUME ServInv, AmplePools, NEW e \in Engines
  PROVE  ~ Preempt(e)
<1>1. SchedInv /\ SchedTypeOK /\ Client
  BY DEF ServInv, SchedInv
<1>2. CASE e \in DecodingEngines
  <2> SUFFICES ASSUME Preempt(e) PROVE FALSE
    OBVIOUS
  <2> DEFINE r == Current(e)
             k == KvTokens(e, r)
  <2>1. InRunningLoop(e) /\ ~ Fits(e, r, k)
    BY DEF Preempt
  <2>2. r \in tracked[e] /\ InRunning(r, req[r], slots[e][r])
    BY <1>1, <2>1, CurrentIsNext
  <2>3. k \in Nat /\ slots[e][r] + k <= InputTokens[r] + OutputTokens[r]
    BY <1>1, <2>2, WithinPeak
  <2> HIDE DEF r, k
  <2> QED BY <1>1, <1>2, <2>1, <2>2, <2>3, AmpleFits
<1>3. CASE e \notin DecodingEngines
  <2>1. Disaggregated /\ e \in EnginesOf(PrefillInstances)
    BY <1>3 DEF DecodingEngines
  <2>2. OnPrefill(e)
    BY <2>1 DEF ServInv, Staged
  <2> QED BY <1>1, <2>2, OnlyPrompts
<1> QED BY <1>2, <1>3

LEMMA EngineKeepsStraight ==
  ASSUME SchedInv, NEW e \in Engines, EngineMoves(e), ~ Preempt(e), StraightOn
  PROVE  StraightOn'
<1>1. /\ req \in [Requests -> RequestRecords] /\ SchedTypeOK /\ Healthy(e) /\ Seated(e)
      /\ waiting[e] \in Seq(Requests) /\ \A r \in Requests : slots[e][r] \in Nat
  BY TypesAt DEF SchedInv, SchedTypeOK, EngineInv
<1>2. ASSUME NEW r \in Requests, NEW p, Straight(r, p), req' = [req EXCEPT ![r] = p]
      PROVE  StraightOn'
  <2>1. req'[r] = p /\ \A x \in Requests \ {r} : req'[x] = req[x]
    BY <1>1, <1>2
  <2> QED BY <1>2, <2>1 DEF StraightOn
<1>3. ASSUME NEW r \in Requests, Schedule(e, r) PROVE StraightOn'
  <2> DEFINE n == Computed(e, r)
             p == ScheduledRecord(req[r], n)
  <2>1. req' = [req EXCEPT ![r] = p]
    BY <1>1, <1>3 DEF Schedule, ScheduledRecord
  <2>2. n \in Nat /\ n <= req[r].new_tokens
    <3>1. sched[e].budget \in Nat /\ req[r].new_tokens \in Nat
      BY <1>1, TypesAt DEF RequestRecords
    <3> QED BY <3>1 DEF Computed, Min2
  <2> HIDE DEF n
  <2>3. /\ p.state = req[r].state /\ p.decoded = req[r].decoded
        /\ p.seq_len = req[r].seq_len + n /\ p.new_tokens = req[r].new_tokens - n
    BY <1>1 DEF ScheduledRecord, RequestRecords
  <2>4. p.seq_len + p.new_tokens = req[r].seq_len + req[r].new_tokens
    <3>1. req[r].seq_len \in Nat /\ req[r].new_tokens \in Nat
      BY <1>1 DEF RequestRecords
    <3> HIDE DEF p
    <3> QED BY <2>2, <2>3, <3>1
  <2>5. Straight(r, p)
    BY <2>3, <2>4 DEF StraightOn, Straight
  <2> HIDE DEF p
  <2> QED BY <1>2, <2>1, <2>5
<1>4. CASE Start(e) \/ EndRunning(e) \/ EndWaiting(e) \/ Sleep(e) \/ EndPass(e) \/ ProcessBatch(e)
           \/ PostChunked(e) \/ EndPost(e)
  <2>1. req' = req
    BY <1>4 DEF Start, EndRunning, EndWaiting, Sleep, EndPass, ProcessBatch, PostChunked, EndPost
  <2> QED BY <2>1 DEF StraightOn
<1>5. CASE ScheduleRunning(e)
  BY <1>3, <1>5, CurrentIsNext DEF ScheduleRunning
<1>6. CASE ScheduleWaiting(e)
  <2>1. Head(waiting[e]) \in Requests
    BY <1>1, <1>6, QueueTail DEF ScheduleWaiting, InWaitingLoop
  <2> QED BY <1>3, <1>6, <2>1 DEF ScheduleWaiting
<1>7. CASE ReceiveKvs(e)
  <2> DEFINE r == Head(waiting[e])
             p == [req[r] EXCEPT !.kv_transfer_done = TRUE, !.state = "DECODING"]
  <2>1. r \in Requests /\ req[r].state = "KVS_TRANSFERRING"
    BY <1>1, <1>7, QueueTail DEF ReceiveKvs, InWaitingLoop, AwaitsKvs
  <2>2. req' = [req EXCEPT ![r].kv_transfer_done = TRUE, ![r].state = "DECODING"]
    BY <1>7 DEF ReceiveKvs
  <2> HIDE DEF r
  <2>3. req' = [req EXCEPT ![r] = p]
    BY <1>1, <2>1, <2>2
  <2>4. /\ p.state = "DECODING" /\ p.decoded = req[r].decoded
        /\ p.seq_len = req[r].seq_len /\ p.new_tokens = req[r].new_tokens
    BY <1>1, <2>1 DEF RequestRecords
  <2>5. Straight(r, p)
    BY <2>1, <2>4 DEF StraightOn, Straight
  <2> HIDE DEF p
  <2> QED BY <1>2, <2>1, <2>3, <2>5
<1>8. CASE PostDecoding(e) \/ PostHandOff(e)
  <2> DEFINE r == Head(sched[e].batch)
             p == PrepareDecodeStep(r, GeneratedRecord(r, req[r]))
  <2>1. /\ r \in Requests /\ r \in Batch(e) /\ req[r].new_tokens = 0
        /\ ~ (GeneratedRecord(r, req[r]).decoded >= OutputTokens[r])
    <3>1. /\ r \in Requests /\ r \in Batch(e)
      BY <1>8, BatchShrinks DEF PostDecoding, PostHandOff, InPost
    <3>2. Unfinished(r)
      BY <1>8 DEF PostDecoding, PostHandOff
    <3> HIDE DEF r
    <3> QED BY <3>1, <3>2 DEF Unfinished, Complete, Generated, GeneratedRecord
  <2>2. \/ req' = [req EXCEPT ![r] = p]
        \/ \E s \in {"PREFILL_DONE", "DECODING"} : req' = [req EXCEPT ![r] = WithState(p, s)]
    <3>1. WithState(WithState(p, "PREFILL_DONE"), "DECODING") = WithState(p, "DECODING")
      BY DEF WithState
    <3>2. p = PrepareDecodeStep(r, Generated(r))
      BY DEF Generated, GeneratedRecord
    <3> HIDE DEF p, r
    <3>3. CASE PostDecoding(e)
      <4>1. req' = [req EXCEPT ![r] = IF req[r].state = "DECODING" THEN p
                                      ELSE WithState(WithState(p, "PREFILL_DONE"), "DECODING")]
        BY <3>2, <3>3 DEF PostDecoding, r
      <4> QED BY <3>1, <4>1
    <3>4. CASE PostHandOff(e)
      <4>1. req' = [req EXCEPT ![r] = WithState(p, "PREFILL_DONE")]
        BY <3>2, <3>4 DEF PostHandOff, r
      <4> QED BY <4>1
    <3> QED BY <1>8, <3>3, <3>4
  <2> HIDE DEF r
  <2>3. Straight(r, p) /\ \A s \in {"PREFILL_DONE", "DECODING"} : Straight(r, WithState(p, s))
    <3>1. InBatch(r, req[r], slots[e][r]) /\ req[r] \in RequestRecords /\ slots[e][r] \in Nat
      BY <1>1, <2>1 DEF Healthy
    <3>2. Straight(r, req[r])
      BY <2>1 DEF StraightOn
    <3>3. GeneratedRecord(r, req[r]).decoded < OutputTokens[r]
      <4>1. GeneratedRecord(r, req[r]).decoded \in Nat
        BY <2>1, <3>1, RecordGenerated DEF RequestRecords
      <4>2. OutputTokens[r] \in Nat
        BY <2>1, RequestAssumption
      <4> QED BY <2>1, <4>1, <4>2
    <3> HIDE DEF p
    <3> QED BY <2>1, <3>1, <3>2, <3>3, PreparedStraight DEF p
  <2> HIDE DEF p
  <2> QED BY <1>2, <2>1, <2>2, <2>3
<1>9. ASSUME NEW r \in Requests, PostFinished(e, r) PROVE StraightOn'
  <2>1. PICK p : req' = [req EXCEPT ![r] = WithState(p, "DECODE_DONE")] /\ DOMAIN p = DOMAIN req[r]
    <3> DEFINE g == GeneratedRecord(r, req[r])
    <3>1. req' = [req EXCEPT ![r] = WithState(IF req[r].state = "PREFILLING"
                                              THEN WithState(g, "PREFILL_DONE") ELSE g, "DECODE_DONE")]
      BY <1>9 DEF PostFinished, Generated, GeneratedRecord
    <3>2. DOMAIN g = DOMAIN req[r]
      BY DEF GeneratedRecord, CompleteGenerationStep
    <3> HIDE DEF g
    <3>3. DOMAIN WithState(g, "PREFILL_DONE") = DOMAIN req[r]
      BY <3>2 DEF WithState
    <3> QED BY <3>1, <3>2, <3>3
  <2>2. WithState(p, "DECODE_DONE").state = "DECODE_DONE"
    <3>1. "state" \in DOMAIN p
      BY <1>1, <2>1 DEF RequestRecords
    <3> QED BY <3>1 DEF WithState
  <2> QED BY <1>2, <2>1, <2>2 DEF Straight
<1> QED BY <1>4, <1>5, <1>6, <1>7, <1>8, <1>9 DEF EngineMoves, Proceed, HandOver

LEMMA StraightStep ==
  ASSUME ServInv, AmplePools, StraightOn, [Next]_vars
  PROVE  StraightOn'
<1>1. SchedInv /\ SchedTypeOK /\ Client /\ req \in [Requests -> RequestRecords]
  BY DEF ServInv, SchedInv, SchedTypeOK
<1>2. ASSUME NEW r \in Requests, NEW p, Straight(r, p), req' = [req EXCEPT ![r] = p]
      PROVE  StraightOn'
  <2>1. req'[r] = p /\ \A x \in Requests \ {r} : req'[x] = req[x]
    BY <1>1, <1>2
  <2> QED BY <1>2, <2>1 DEF StraightOn
<1>3. ASSUME NEW e \in Engines, EngineStep(e) PROVE StraightOn'
  <2>1. EngineMoves(e)
    BY <1>3 DEF EngineStep, EngineMoves, Finish
  <2> QED BY <1>1, <2>1, AmpleNeverPreempts, EngineKeepsStraight
<1>4. ASSUME NEW e \in Engines, ChannelStep(e) PROVE StraightOn'
  <2> DEFINE r == Head(d2d[e])
             q == WithState(req[r], "KVS_TRANSFERRING")
  <2>1. d2d[e] # <<>> /\ d2d' = [d2d EXCEPT ![e] = Tail(@)]
    BY <1>4 DEF ChannelStep, Deliver, DeliverRefused, CanDeliver
  <2>2. r \in Requests /\ InChannel(r, req[r])
    BY <1>1, <2>1, ChannelHead
  <2>3. req' = [req EXCEPT ![r] = q]
    <3>1. req' = [req EXCEPT ![r] = q] \/ req' = [req EXCEPT ![r] = WithState(@, "KVS_TRANSFERRING")]
      BY <1>4 DEF ChannelStep, Deliver, DeliverRefused, Add
    <3> HIDE DEF r
    <3> QED BY <1>1, <2>2, <3>1
  <2> HIDE DEF r
  <2>4. /\ q.state = "KVS_TRANSFERRING" /\ q.decoded = req[r].decoded
        /\ q.seq_len = req[r].seq_len /\ q.new_tokens = req[r].new_tokens
    BY <1>1, <2>2 DEF WithState, RequestRecords
  <2>5. Straight(r, q)
    BY <2>2, <2>4 DEF StraightOn, Straight, InChannel
  <2> HIDE DEF q
  <2> QED BY <1>2, <2>2, <2>3, <2>5
<1>5. CASE ClientStep
  <2> DEFINE r == Head(pending)
             q == ServedRecord(r)
  <2>1. pending # <<>> /\ req' = [req EXCEPT ![r] = q]
    BY <1>5 DEF ClientStep, Serve, ServeRefused, Add
  <2>2. r \in Requests /\ q.state = "PREFILLING"
    BY <1>1, <2>1, NextRequest
  <2> HIDE DEF r, q
  <2>3. Straight(r, q)
    BY <2>2 DEF Straight
  <2> QED BY <1>2, <2>1, <2>2, <2>3
<1>6. CASE UNCHANGED vars
  BY <1>6 DEF StraightOn, vars
<1> QED BY <1>3, <1>4, <1>5, <1>6 DEF Next, Ended

(* Without preemptions no batch under way holds a sequence longer than the *)
(* prompt, the output and a decode window, less two: the first token comes *)
(* with the prompt, and the last one is never computed with.               *)
LEMMA StraightFollows ==
  ASSUME ServInv, StraightOn, NEW e \in Engines, AtStage(e, "execute"),
         NEW r \in ToSet(sched[e].batch)
  PROVE  req[r].seq_len <= InputTokens[r] + OutputTokens[r] + DecodeQueryLen - 2
<1> DEFINE q == req[r]
<1>1. /\ r \in Batch(e) /\ r \in Requests /\ q \in RequestRecords
      /\ InBatch(r, q, slots[e][r])
  BY TypesAt DEF ServInv, SchedInv, SchedTypeOK, EngineInv, Healthy, Batch
<1>2. /\ q.seq_len \in Nat /\ q.new_tokens \in Nat /\ q.decoded \in Nat
      /\ InputTokens[r] \in Nat /\ OutputTokens[r] \in Nat \ {0} /\ DecodeQueryLen \in Nat \ {0}
  BY <1>1, Sized DEF RequestsAreSized, RequestRecords
<1>3. Straight(r, q) /\ q.decoded < OutputTokens[r]
  BY <1>1 DEF StraightOn, InBatch
<1> HIDE DEF q
<1>4. CASE q.state = "DECODING"
  <2>1. q.new_tokens = 0 /\ q.seq_len + q.new_tokens = InputTokens[r] + q.decoded + DecodeQueryLen - 1
    BY <1>1, <1>3, <1>4 DEF InBatch, Prefills, Straight
  <2> QED BY <1>2, <1>3, <2>1 DEF q
<1>5. CASE q.state # "DECODING"
  <2>1. q.decoded = 0 /\ q.seq_len + q.new_tokens = InputTokens[r] + q.decoded
    BY <1>1, <1>3, <1>5 DEF InBatch, Prefills, Straight
  <2> QED BY <1>2, <2>1 DEF q
<1> QED BY <1>4, <1>5

LEMMA StraightInvariant ==
  ASSUME AmplePools
  PROVE  Spec => [](ServInv /\ StraightOn)
<1>1. Init => ServInv /\ StraightOn
  <2> SUFFICES ASSUME Init PROVE ServInv /\ StraightOn
    OBVIOUS
  <2>1. req = [r \in Requests |-> NewRequest(r)]
    BY DEF Init, SchedInit
  <2>2. \A r \in Requests : req[r].state = "INITIAL"
    BY <2>1 DEF NewRequest
  <2> QED BY <2>2, ServStart DEF StraightOn, Straight
<1>2. (ServInv /\ StraightOn) /\ [Next]_vars => (ServInv /\ StraightOn)'
  BY ServStep, StraightStep
<1> QED BY <1>1, <1>2, PTL DEF Spec

(***************************************************************************)
(* The theorems.                                                           *)
(***************************************************************************)

(* Records, queues, the client's requests and the active ones keep their   *)
(* types.                                                                  *)
THEOREM Types == Spec => []TypeOK
<1>1. ServInv => TypeOK
  BY DEF ServInv, SchedInv, Client, TypeOK
<1> QED BY <1>1, ServInvariant, PTL

(* The concurrency gate (exceed_concurrency_limit): as long as no          *)
(* exception has been raised the active requests are the ones that are in  *)
(* an engine or on their way to one, and there are never more than         *)
(* max_concurrency, however admissions, hand-overs and completions         *)
(* interleave.                                                             *)
THEOREM Gate == Spec => []GateIsTight
<1>1. ASSUME ServInv PROVE GateIsTight
  <2>1. SchedInv /\ Client
    BY <1>1 DEF ServInv
  <2>2. InService = UNION {tracked[e] \cup ToSet(d2d[e]) : e \in Engines}
    BY DEF InService, Channel
  <2> DEFINE T == UNION {tracked[e] : e \in Engines}
  <2>3. T \subseteq InService
    BY DEF InService
  <2>4. T \subseteq active /\ IsFiniteSet(active) /\ Cardinality(active) <= MaxConcurrency
    BY <2>1, <2>3, RequestAssumption, FS_Subset DEF Client
  <2>5. Cardinality(T) <= Cardinality(active) /\ IsFiniteSet(T)
    BY <2>4, FS_Subset
  <2>6. InFlight = Cardinality(T)
    BY <2>1, InFlightIs
  <2> HIDE DEF T
  <2>7. InFlight \in Nat /\ Cardinality(active) \in Nat /\ MaxConcurrency \in Nat
    BY <2>4, <2>5, <2>6, FS_CardinalityType, ServingAssumption
  <2>8. InFlight <= MaxConcurrency
    BY <2>4, <2>5, <2>6, <2>7
  <2>9. ~ halted => active = UNION {tracked[e] \cup ToSet(d2d[e]) : e \in Engines}
    BY <2>1, <2>2 DEF Client
  <2> QED BY <2>4, <2>8, <2>9 DEF GateIsTight
<1> QED BY <1>1, ServInvariant, PTL

(* When prefill and decode are disaggregated, prefill engines hold only    *)
(* requests whose prompt is being computed - none is preempted or decoded  *)
(* there - and decode engines only requests that have a first token.       *)
THEOREM Separated == Spec => []StagesSeparated
<1>1. ServInv => StagesSeparated
  BY DEF ServInv, Staged, OnPrefill, OnDecode, StagesSeparated
<1> QED BY <1>1, ServInvariant, PTL

(* A prefill engine never asks for the prediction of a sequence longer     *)
(* than a prompt.                                                          *)
THEOREM PrefillIsPredictable ==
  Spec => [](Disaggregated =>
               \A e \in EnginesOf(PrefillInstances) : AtStage(e, "execute") =>
                 \A r \in ToSet(sched[e].batch) : req[r].seq_len <= InputTokens[r])
<1>1. ASSUME ServInv, Disaggregated, NEW e \in EnginesOf(PrefillInstances),
             NEW r \in ToSet(sched[e].batch)
      PROVE  req[r].seq_len <= InputTokens[r]
  <2>1. e \in Engines
    BY <1>1, StagesApart
  <2>2. Batch(e) \subseteq Running(e) /\ Running(e) \subseteq tracked[e] /\ Running(e) \subseteq Requests
    BY <1>1, <2>1, TypesAt DEF ServInv, SchedInv, EngineInv, Seated
  <2>3. r \in Requests /\ req[r] \in RequestRecords /\ InBatch(r, req[r], slots[e][r])
    BY <1>1, <2>1, <2>2 DEF ServInv, SchedInv, EngineInv, Healthy, Batch, SchedTypeOK
  <2>4. req[r].state = "PREFILLING"
    BY <1>1, <2>2 DEF ServInv, Staged, OnPrefill, Batch
  <2>5. req[r].seq_len + req[r].new_tokens = InputTokens[r] + 0
    BY <2>3, <2>4 DEF InBatch, Prefills
  <2>6. req[r].seq_len \in Nat /\ req[r].new_tokens \in Nat /\ InputTokens[r] \in Nat
    BY <2>3, RequestAssumption DEF RequestRecords
  <2> QED BY <2>5, <2>6
<1>2. ServInv => (Disaggregated =>
               \A e \in EnginesOf(PrefillInstances) : AtStage(e, "execute") =>
                 \A r \in ToSet(sched[e].batch) : req[r].seq_len <= InputTokens[r])
  BY <1>1
<1> QED BY <1>2, ServInvariant, PTL

(* Prefill engines, engines that serve requests from beginning to end and, *)
(* when the pools are ample, decode engines schedule something in every    *)
(* pass over a non-empty engine: none of them spins without yielding.      *)
THEOREM FlowingEnginesProgress == Spec => []FlowingProgress
BY PassesInvariant, PassesFollow, PTL

(* No scheduler of the deployment spins without yielding, provided that a  *)
(* disaggregated one has ample pools.  With smaller pools decode engines   *)
(* do: two requests whose prompts have arrived can keep each other from    *)
(* their first decode step (run PdLivelock).                               *)
THEOREM ProgressInService ==
  ASSUME Disaggregated => AmplePools
  PROVE  Spec => []PassMakesProgress
<1>1. Passes => PassMakesProgress
  BY PassesFollow DEF FlowingProgress, Flows, PassMakesProgress
<1> QED BY <1>1, PassesInvariant, PTL

(* With ample pools (room for the peaks of as many requests as the gate    *)
(* lets in) no engine ever preempts a request to compute it again: what    *)
(* the gate, admission and the load balancers promise together.            *)
THEOREM NoRecomputation ==
  ASSUME AmplePools
  PROVE  Spec => [](\A r \in Requests : req[r].state # "RECOMPUTATION")
<1>1. ServInv /\ StraightOn => \A r \in Requests : req[r].state # "RECOMPUTATION"
  BY DEF StraightOn, Straight
<1> QED BY <1>1, StraightInvariant, PTL

(* With ample pools and decode steps of one token (no MTP heads), no batch *)
(* that is handed to the model runner holds a sequence longer than a       *)
(* request's last step can have.  Without one of the two hypotheses the    *)
(* code breaks this: a window reaches beyond the last token, and a         *)
(* recomputation is given one token too many.                              *)
THEOREM Predictable ==
  ASSUME AmplePools, DecodeQueryLen = 1
  PROVE  Spec => []PredictableBatch
<1>1. ASSUME ServInv, StraightOn PROVE PredictableBatch
  <2> SUFFICES ASSUME NEW e \in Engines, AtStage(e, "execute"), NEW r \in ToSet(sched[e].batch)
               PROVE  req[r].seq_len <= InputTokens[r] + OutputTokens[r] - 1
    BY DEF PredictableBatch
  <2>1. req[r].seq_len <= InputTokens[r] + OutputTokens[r] + 1 - 2
    BY <1>1, StraightFollows
  <2>2. r \in Requests /\ req[r].seq_len \in Nat
    <3>1. SchedTypeOK /\ r \in Requests
      BY <1>1, TypesAt DEF ServInv, SchedInv, Batch
    <3> QED BY <3>1 DEF SchedTypeOK, RequestRecords
  <2>3. InputTokens[r] \in Nat /\ OutputTokens[r] \in Nat
    BY <2>2, RequestAssumption
  <2> QED BY <2>1, <2>2, <2>3
<1>2. ServInv /\ StraightOn => PredictableBatch
  BY <1>1
<1> QED BY <1>2, StraightInvariant, PTL

(* Served through the gate and the channels, too, every engine uses its    *)
(* pool as the KV-cache manager allows it.                                 *)
THEOREM PoolsInService == Spec => UsesPools
<1>1. Init => \A e \in Engines : EnginePool(e)!PoolInit
  BY PoolsStart DEF Init
<1>2. ServInv /\ [Next]_vars
        => [\A e \in Engines : [EnginePool(e)!PoolNext]_(EnginePool(e)!poolVars)]_schedVars
  BY ServUsesPools DEF PoolStep
<1> QED BY <1>1, <1>2, ServInvariant, PTL DEF Spec, UsesPools

(* What is true of the engines when requests stay where they arrive is     *)
(* also true when they are admitted through the gate, handed over through  *)
(* the channels and refused.                                               *)
THEOREM EnginesInService ==
  Spec => [](/\ OnePlacePerRequest /\ SlotsMatchSequence /\ PoolAccounts
             /\ BudgetRespected /\ NoSchedulerError /\ ExactOutput
             /\ PredictableWithinWindow)
<1>1. ServInv => /\ OnePlacePerRequest /\ SlotsMatchSequence /\ PoolAccounts
                 /\ BudgetRespected /\ NoSchedulerError /\ ExactOutput
                 /\ PredictableWithinWindow
  BY OnePlaceFollows, SlotsFollow, PoolFollows, BudgetFollows, NoErrorFollows, ExactFollows,
     WindowFollows
     DEF ServInv
<1> QED BY <1>1, ServInvariant, PTL
=============================================================================
