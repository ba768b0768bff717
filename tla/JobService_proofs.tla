--------------------------- MODULE JobService_proofs ---------------------------
(***************************************************************************)
(* For any jobs, workers and parameters: the statuses of the jobs move as  *)
(* JobLifecycle promises, no work is done twice, and a job that has        *)
(* succeeded has its records.                                              *)
(*                                                                         *)
(* Whoever moves a status is the writer thread, the insertion of a row or  *)
(* the sweep, so the invariant follows what is known of a job's status     *)
(* from where its worker is to the write that this worker has queued       *)
(* (JobInv); then the types of what the threads hold (TypeInv); then what  *)
(* each stage, and each queued write, knows of the records (RecordInv).    *)
(***************************************************************************)
EXTENDS JobService, Collections_proofs

(* Positions of the write queue; the item that is being executed is at 0.  *)
Slots == (IF writing = None THEN {} ELSE {0}) \cup 1..Len(writes)
Slot(i) == IF i = 0 THEN writing ELSE writes[i]

(* Writes that leave the status alone; points behind the end of run_job.   *)
Silent == {"clone", "progress", "records", "logs"}
LastPoints == LastWrites \cup {"end"}

(* The statuses a job may have while its worker, or a write, is at a stage. *)
Expected(stage) ==
    IF stage = "running" THEN {"pending"}
    ELSE IF stage = "unexpected" THEN Active
    ELSE IF stage \in LastPoints THEN Statuses \ {"absent", "interrupted"}
    ELSE {"running"}

Holds(c, j) == c.pc # "idle" /\ c.job = j

WorkerFits(c, st) ==
    /\ {"pc", "sent", "job", "rows"} \subseteq DOMAIN c
    /\ c.pc \in Stages /\ c.sent \in BOOLEAN
    /\ c.sent => c.pc \in WriteStages
    /\ c.pc # "idle" => c.job \in Jobs /\ st[c.job] \in Expected(c.pc)

(* A write agrees with the worker that waits for it.  One that nobody waits *)
(* for only reports progress, or its worker is past all but last writes.    *)
ItemFits(x, st, wk) ==
    /\ DOMAIN x = {"waiter", "call"}
    /\ x.waiter \in Workers \cup {None}
    /\ x.call.pc \in WriteStages /\ x.call.job \in Jobs
    /\ st[x.call.job] \in Expected(x.call.pc)
    /\ \A w \in Workers :
          /\ x.waiter = w =>
                /\ wk[w].sent /\ wk[w].pc = x.call.pc
                /\ wk[w].job = x.call.job /\ wk[w].rows = x.call.rows
          /\ x.waiter # w /\ Holds(wk[w], x.call.job) =>
                x.call.pc = "progress" \/ wk[w].pc \in LastPoints

(* Nobody works for job j yet. *)
Unowned(j) ==
    /\ status[j] = "pending"
    /\ \A w \in Workers : ~Holds(worker[w], j)
    /\ \A i \in Slots : Slot(i).call.job # j

InQueue(j) == \E i \in 1..Len(pq) : pq[i] = j

Shapes ==
    /\ status \in [Jobs -> Statuses]
    /\ DOMAIN request = Jobs /\ DOMAIN worker = Workers
    /\ pq \in Seq(Jobs)
    /\ \E S : writes \in Seq(S)

WorkersFit == \A w \in Workers : WorkerFits(worker[w], status)
OneHolder ==
    \A v, w \in Workers : \A j \in Jobs :
        Holds(worker[v], j) /\ Holds(worker[w], j) => v = w
ItemsFit == \A i \in Slots : ItemFits(Slot(i), status, worker)
OneItem ==
    \A i, k \in Slots : Slot(i).waiter = Slot(k).waiter /\ Slot(i).waiter # None => i = k
Attended ==
    \A i \in 1..Len(writes) : writes[i].waiter # None \/ writes[i].call.pc \in LastWrites
QueueFits ==
    /\ \A j \in Jobs : InQueue(j) => Unowned(j)
    /\ \A i, k \in 1..Len(pq) : pq[i] = pq[k] => i = k
RequestsFit ==
    \A j \in Jobs :
        /\ request[j] \in {"new", "inflight", "count", "add"} => status[j] = "absent"
        /\ request[j] = "schedule" => Unowned(j) /\ ~InQueue(j)
DownIsEmpty ==
    phase = "down" =>
        /\ pq = <<>> /\ writes = <<>> /\ writing = None
        /\ \A w \in Workers : worker[w].pc = "idle"
        /\ \A j \in Jobs : request[j] \notin Asking \ {"new"}
OneInFlight ==
    \A j, k \in Jobs : InFlight(j) /\ InFlight(k) /\ SameParams(j, k) => j = k

JobInv ==
    /\ Shapes /\ WorkersFit /\ OneHolder
    /\ ItemsFit /\ OneItem /\ Attended
    /\ QueueFits /\ RequestsFit /\ DownIsEmpty /\ OneInFlight

-----------------------------------------------------------------------------
(* Stages and statuses. *)

LEMMA StageFacts ==
  /\ \A s \in Stages : Expected(s) \subseteq Statuses \ {"absent", "interrupted"}
  /\ Expected("running") = {"pending"}
  /\ Expected("unexpected") = Active
  /\ \A s \in LastPoints : Expected(s) = Statuses \ {"absent", "interrupted"}
  /\ \A s \in Stages \ (LastPoints \cup {"running", "unexpected"}) : Expected(s) = {"running"}
  /\ WriteStages \subseteq Stages /\ LastWrites \subseteq WriteStages
  /\ LastPoints \subseteq Stages /\ "idle" \notin WriteStages \cup LastPoints
  /\ LastPoints \cap Silent = {}
BY DEF Expected, Stages, WriteStages, LastWrites, EscapedWrites, LastPoints, Silent, Statuses, Active, Terminal

(* What an item takes from its waiter moving on, when nobody waits for it. *)
LEMMA AfterFacts ==
  ASSUME NEW s \in WriteStages
  PROVE  /\ AfterWrite(s) \in Stages \ {"idle"}
         /\ AfterTimeout(s) \in Stages \ {"idle"}
         /\ AfterRaise(s) \in Stages \ {"idle"}
         /\ s = "progress" \/ AfterTimeout(s) \in LastPoints
         /\ s \in LastWrites => AfterWrite(s) = "end" /\ AfterTimeout(s) = "end"
                                /\ AfterRaise(s) = "end"
         /\ Expected(s) \subseteq Expected(AfterTimeout(s))
         /\ Expected(s) \subseteq Expected(AfterRaise(s))
         /\ s \in Silent => Expected(s) \subseteq Expected(AfterWrite(s))
BY DEF Expected, Stages, WriteStages, LastWrites, EscapedWrites, LastPoints, Silent, Statuses, Active, Terminal,
       AfterWrite, AfterTimeout, AfterRaise, AfterFailure

LEMMA InitFits == Init => JobInv
<1> SUFFICES ASSUME Init PROVE JobInv
  OBVIOUS
<1>1. Slots = {} /\ writes = <<>> /\ pq = <<>>
  BY DEF Init, Slots
<1>2. Shapes
  <2>1. status \in [Jobs -> Statuses]
    BY DEF Init, StoreInit, LifecycleInit, Statuses
  <2>2. DOMAIN request = Jobs /\ DOMAIN worker = Workers
    BY DEF Init
  <2>3. pq \in Seq(Jobs) /\ writes \in Seq({})
    BY <1>1
  <2> QED
    BY <2>1, <2>2, <2>3 DEF Shapes
<1>3. WorkersFit /\ OneHolder
  BY DEF Init, WorkersFit, WorkerFits, OneHolder, Holds, Idle, Stages
<1>4. ItemsFit /\ OneItem /\ Attended
  BY <1>1 DEF ItemsFit, OneItem, Attended
<1>5. QueueFits
  BY <1>1 DEF QueueFits, InQueue
<1>6. RequestsFit /\ DownIsEmpty /\ OneInFlight
  BY DEF Init, StoreInit, LifecycleInit, RequestsFit, DownIsEmpty, OneInFlight, InFlight, Active
<1> QED
  BY <1>2, <1>3, <1>4, <1>5, <1>6 DEF JobInv

-----------------------------------------------------------------------------
(* Steps of one worker. *)

(* Worker w is at another stage, for the same job; no other worker moves.  *)
Moved(w, stage) ==
    /\ DOMAIN worker' = Workers
    /\ {"pc", "sent", "job", "rows"} \subseteq DOMAIN worker'[w]
    /\ worker'[w].pc = stage /\ worker'[w].sent = FALSE /\ worker'[w].job = worker[w].job
    /\ \A v \in Workers \ {w} : worker'[v] = worker[v]

(* What is queued is for a job that somebody worked for before. *)
CallsAreOwned ==
    \A i \in Slots' : \/ \E k \in Slots : Slot(i)'.call.job = Slot(k).call.job
                      \/ \E w \in Workers : Holds(worker[w], Slot(i)'.call.job)

(* A job nobody works for and one that has no row keep their status, and   *)
(* no job becomes active.                                                  *)
StatusesStay ==
    \A j \in Jobs : /\ Unowned(j) \/ status[j] = "absent" => status'[j] = status[j]
                    /\ status'[j] \in Active => status[j] \in Active

LEMMA ResumedMoves ==
  ASSUME Shapes, WorkersFit, NEW w \in Workers, NEW stage,
         worker' = [worker EXCEPT ![w] = Resumed(@, stage)]
  PROVE  Moved(w, stage)
<1>1. DOMAIN worker = Workers /\ {"pc", "sent", "job", "rows"} \subseteq DOMAIN worker[w]
  BY DEF Shapes, WorkersFit, WorkerFits
<1>2. worker'[w] = Resumed(worker[w], stage) /\ DOMAIN worker' = Workers
      /\ \A v \in Workers \ {w} : worker'[v] = worker[v]
  BY <1>1
<1>3. LET c == Resumed(worker[w], stage)
      IN  /\ {"pc", "sent", "job", "rows"} \subseteq DOMAIN c
          /\ c.pc = stage /\ c.sent = FALSE /\ c.job = worker[w].job
  BY <1>1 DEF Resumed, Idle
<1> QED
  BY <1>2, <1>3 DEF Moved

LEMMA WorkersAfterMove ==
  ASSUME JobInv, NEW w \in Workers, NEW stage \in Stages \ {"idle"}, Moved(w, stage),
         worker[w].pc # "idle", status[worker[w].job] \in Expected(stage), status' = status
  PROVE  /\ WorkersFit' /\ OneHolder'
         /\ \A v \in Workers : \A j \in Jobs : Holds(worker'[v], j) <=> Holds(worker[v], j)
<1>1. \A v \in Workers : WorkerFits(worker[v], status)
  BY DEF JobInv, WorkersFit
<1>2. \A v \in Workers : \A j \in Jobs : Holds(worker'[v], j) <=> Holds(worker[v], j)
  BY DEF Moved, Holds
<1>3. WorkersFit'
  BY <1>1 DEF Moved, WorkersFit, WorkerFits
<1>4. OneHolder'
  BY <1>2 DEF JobInv, OneHolder
<1> QED
  BY <1>2, <1>3, <1>4

LEMMA ItemAfterMove ==
  ASSUME NEW x, NEW st, ItemFits(x, st, worker), NEW w \in Workers, NEW stage, Moved(w, stage),
         worker[w].pc # "idle", stage # "idle",
         worker[w].pc \in LastPoints => stage \in LastPoints, x.waiter # w
  PROVE  ItemFits(x, st, worker')
BY DEF ItemFits, Moved, Holds

(* The waiter of an item goes on without it. *)
LEMMA ItemDetached ==
  ASSUME NEW x, ItemFits(x, status, worker), NEW w \in Workers, NEW stage, Moved(w, stage),
         x.waiter = w, x.call.pc = "progress" \/ stage \in LastPoints
  PROVE  ItemFits([x EXCEPT !.waiter = None], status, worker')
<1> DEFINE y == [x EXCEPT !.waiter = None]
<1>1. DOMAIN y = {"waiter", "call"} /\ y.waiter = None /\ y.call = x.call
  BY DEF ItemFits
<1>2. None \notin Workers
  BY ServiceAssumption
<1>3. ASSUME NEW v \in Workers, Holds(worker'[v], x.call.job)
      PROVE  x.call.pc = "progress" \/ worker'[v].pc \in LastPoints
  <2>1. CASE v = w
    BY <2>1 DEF Moved
  <2>2. CASE v # w
    BY <1>3, <2>2 DEF Moved, ItemFits
  <2> QED
    BY <2>1, <2>2
<1> HIDE DEF y
<1>4. ItemFits(y, status, worker')
  BY <1>1, <1>2, <1>3 DEF ItemFits
<1> QED
  BY <1>4 DEF y

LEMMA UnownedStays ==
  ASSUME NEW j \in Jobs, Unowned(j), status'[j] = status[j], CallsAreOwned,
         \A v \in Workers : Holds(worker'[v], j) => Holds(worker[v], j)
  PROVE  Unowned(j)'
BY DEF Unowned, CallsAreOwned

LEMMA OthersStay ==
  ASSUME JobInv, StatusesStay, params' = params, request' = request, pq' = pq,
         phase' # "down", CallsAreOwned,
         \A v \in Workers : \A j \in Jobs : Holds(worker'[v], j) => Holds(worker[v], j)
  PROVE  QueueFits' /\ RequestsFit' /\ DownIsEmpty' /\ OneInFlight'
<1>1. \A j \in Jobs : Unowned(j) => Unowned(j)'
  BY UnownedStays DEF StatusesStay
<1>2. \A j \in Jobs : InQueue(j)' <=> InQueue(j)
  BY DEF InQueue
<1>3. QueueFits'
  BY <1>1, <1>2 DEF JobInv, QueueFits
<1>4. RequestsFit'
  BY <1>1, <1>2 DEF JobInv, RequestsFit, StatusesStay
<1>5. OneInFlight'
  BY DEF JobInv, OneInFlight, InFlight, SameParams, StatusesStay
<1> QED
  BY <1>3, <1>4, <1>5 DEF DownIsEmpty

(* A worker goes on, and the queue is left alone. *)
LEMMA WorkerMoves ==
  ASSUME JobInv, NEW w \in Workers, NEW stage \in Stages \ {"idle"}, Moved(w, stage),
         worker[w].pc # "idle", ~worker[w].sent, status[worker[w].job] \in Expected(stage),
         worker[w].pc \in LastPoints => stage \in LastPoints, phase # "down",
         UNCHANGED <<status, params, request, pq, writes, writing, phase>>
  PROVE  JobInv'
<1>1. Slots' = Slots /\ \A i \in Slots : Slot(i)' = Slot(i)
  BY DEF Slots, Slot
<1>2. CallsAreOwned
  BY <1>1 DEF CallsAreOwned
<1>3. /\ WorkersFit' /\ OneHolder'
      /\ \A v \in Workers : \A j \in Jobs : Holds(worker'[v], j) <=> Holds(worker[v], j)
  BY WorkersAfterMove
<1>4. Shapes'
  BY DEF JobInv, Shapes, Moved
<1>5. ItemsFit'
  <2>1. \A i \in Slots : ItemFits(Slot(i), status, worker) /\ Slot(i).waiter # w
    BY DEF JobInv, ItemsFit, ItemFits
  <2>2. \A i \in Slots : ItemFits(Slot(i), status, worker')
    BY <2>1, ItemAfterMove
  <2> QED
    BY <1>1, <2>2 DEF ItemsFit
<1>6. OneItem' /\ Attended'
  BY <1>1 DEF JobInv, OneItem, Attended
<1>7. QueueFits' /\ RequestsFit' /\ DownIsEmpty' /\ OneInFlight'
  BY <1>2, <1>3, OthersStay DEF StatusesStay
<1> QED
  BY <1>3, <1>4, <1>5, <1>6, <1>7 DEF JobInv

-----------------------------------------------------------------------------
(* The writer thread. *)

LEMMA TakeWriteFits ==
  ASSUME JobInv, TakeWrite
  PROVE  JobInv'
<1>1. /\ writing = None /\ writes # <<>> /\ writing' = Head(writes) /\ writes' = Tail(writes)
      /\ phase # "down"
      /\ UNCHANGED <<status, params, request, pq, worker, phase>>
  BY DEF TakeWrite, store, manager, server
<1>2. PICK S : writes \in Seq(S)
  BY DEF JobInv, Shapes
<1>3. \A i \in Slots' : i + 1 \in Slots /\ i + 1 \in 1..Len(writes) /\ Slot(i)' = Slot(i + 1)
                        /\ i \in Nat
  BY <1>1, <1>2 DEF Slots, Slot
<1>4. CallsAreOwned
  BY <1>3 DEF CallsAreOwned
<1>5. Shapes'
  <2>1. writes' \in Seq(S)
    BY <1>1, <1>2
  <2> QED
    BY <1>1, <2>1 DEF JobInv, Shapes
<1>6. WorkersFit' /\ OneHolder'
  BY <1>1 DEF JobInv, WorkersFit, OneHolder
<1>7. ItemsFit'
  BY <1>1, <1>3 DEF JobInv, ItemsFit
<1>8. OneItem'
  <2>1. ASSUME NEW i \in Slots', NEW k \in Slots', Slot(i)'.waiter = Slot(k)'.waiter,
               Slot(i)'.waiter # None
        PROVE  i = k
    <3>1. i + 1 = k + 1
      BY <1>3, <2>1 DEF JobInv, OneItem
    <3> QED
      BY <1>3, <3>1
  <2> QED
    BY <2>1 DEF OneItem
<1>9. Attended'
  <2>1. \A i \in 1..Len(writes') : i + 1 \in 1..Len(writes) /\ writes'[i] = writes[i + 1]
    BY <1>1, <1>2
  <2> QED
    BY <2>1 DEF JobInv, Attended
<1>10. QueueFits' /\ RequestsFit' /\ DownIsEmpty' /\ OneInFlight'
  BY <1>1, <1>4, OthersStay DEF StatusesStay
<1> QED
  BY <1>5, <1>6, <1>7, <1>8, <1>9, <1>10 DEF JobInv

(* What a write does to the status of its job. *)
LEMMA ApplyEffect ==
  ASSUME Shapes, NEW call, Apply(call), call.pc \in WriteStages, call.job \in Jobs,
         status[call.job] \in Expected(call.pc)
  PROVE  /\ params' = params
         /\ status' \in [Jobs -> Statuses]
         /\ \A k \in Jobs \ {call.job} : status'[k] = status[k]
         /\ call.pc \in Silent => status' = status
         /\ status'[call.job] \in Expected(AfterWrite(call.pc))
         /\ status'[call.job] \in Active => status[call.job] \in Active
         /\ [LifecycleNext]_lifecycleVars
<1> DEFINE j == call.job
<1>1. CASE call.pc \in Silent
  <2>1. UNCHANGED <<status, params>>
    BY <1>1 DEF Apply, Silent, LastWrites, EscapedWrites, AddRecords, store
  <2>2. status[j] \in Expected(AfterWrite(call.pc))
    BY <1>1, AfterFacts
  <2> QED
    BY <2>1, <2>2 DEF Shapes, lifecycleVars
<1>2. CASE call.pc \notin Silent
  <2> DEFINE t == CASE call.pc = "running"             -> "running"
                    [] call.pc \in {"succeed", "reuse"} -> "succeeded"
                    [] call.pc = "cancel"               -> "cancelled"
                    [] OTHER                            -> "failed"
  <2>1. status' = [status EXCEPT ![j] = t] /\ params' = params
    BY <1>2 DEF Apply, SetStatus, Silent, WriteStages, LastWrites, EscapedWrites
  <2>2. t \in Statuses /\ t \in Expected(AfterWrite(call.pc))
    BY <1>2 DEF AfterWrite, Expected, LastPoints, LastWrites, EscapedWrites, Statuses, Active, Terminal, Silent,
       WriteStages
  <2>3. \/ t = status[j]
        \/ t \in Allowed(status[j]) \ {"interrupted"}
        \/ t = "failed" /\ status[j] \in {"pending", "succeeded", "cancelled"}
    BY <1>2 DEF Expected, Allowed, LastPoints, LastWrites, EscapedWrites, Statuses, Active, Terminal, Silent,
       WriteStages
  <2>4. t \in Active => status[j] \in Active
    BY <1>2 DEF Expected, Active, LastPoints, LastWrites, EscapedWrites
  <2> HIDE DEF t
  <2>5. [LifecycleNext]_lifecycleVars
    <3>1. CASE t = status[j]
      <4>1. status' = status
        BY <2>1, <3>1 DEF Shapes
      <4> QED
        BY <2>1, <4>1 DEF lifecycleVars
    <3>2. CASE t \in Allowed(status[j]) \ {"interrupted"}
      BY <2>1, <3>2 DEF LifecycleNext, Transition
    <3>3. CASE t = "failed" /\ status[j] \in {"pending", "succeeded", "cancelled"}
      BY <2>1, <3>3 DEF LifecycleNext, WriteTrouble
    <3> QED
      BY <2>3, <3>1, <3>2, <3>3
  <2> QED
    BY <1>2, <2>1, <2>2, <2>4, <2>5 DEF Shapes
<1> QED
  BY <1>1, <1>2

(* A write comes to its end, and its waiter goes on.                       *)
LEMMA ItemDone ==
  ASSUME JobInv, phase # "down", writing # None, NEW stage \in Stages \ {"idle"},
         Resume(writing, stage), writing' = None,
         status' \in [Jobs -> Statuses], params' = params,
         UNCHANGED <<request, pq, writes, phase>>,
         \A k \in Jobs \ {writing.call.job} : status'[k] = status[k],
         writing.call.pc \in Silent => status' = status,
         status'[writing.call.job] \in Expected(stage),
         status'[writing.call.job] \in Active => status[writing.call.job] \in Active,
         writing.call.pc \in LastWrites => stage = "end"
  PROVE  JobInv'
<1> DEFINE j == writing.call.job
           s == writing.call.pc
<1>1. ItemFits(writing, status, worker)
  BY DEF JobInv, ItemsFit, Slots, Slot
<1>2. PICK S : writes \in Seq(S)
  BY DEF JobInv, Shapes
<1>3. /\ Slots' = 1..Len(writes) /\ Slots = {0} \cup 1..Len(writes)
      /\ \A i \in Slots' : i # 0 /\ Slot(i)' = writes[i] /\ Slot(i) = writes[i]
  BY <1>2 DEF Slots, Slot
<1>4. \A v \in Workers \ {writing.waiter} : worker'[v] = worker[v]
  BY DEF Resume, JobInv, Shapes
<1>5. writing.waiter # None => writing.waiter \in Workers /\ Moved(writing.waiter, stage)
  BY <1>1, ResumedMoves DEF Resume, ItemFits, JobInv
<1>6. \A v \in Workers : \A k \in Jobs : Holds(worker'[v], k) <=> Holds(worker[v], k)
  <2>1. ASSUME NEW v \in Workers, v = writing.waiter
        PROVE  worker'[v].job = worker[v].job /\ worker'[v].pc # "idle" /\ worker[v].pc # "idle"
    BY <1>1, <1>5, <2>1, ServiceAssumption, StageFacts DEF Moved, ItemFits
  <2> QED
    BY <1>4, <2>1 DEF Holds
<1>7. status'[j] \in Statuses \ {"absent", "interrupted"} /\ status[j] # "absent" /\ j \in Jobs
      /\ s \in WriteStages
  BY <1>1, StageFacts DEF ItemFits
<1>8. Shapes'
  <2>1. DOMAIN worker' = Workers
    BY <1>5 DEF Resume, Moved, JobInv, Shapes
  <2> QED
    BY <2>1 DEF JobInv, Shapes
<1>9. WorkersFit'
  <2> SUFFICES ASSUME NEW v \in Workers PROVE WorkerFits(worker'[v], status')
    BY DEF WorkersFit
  <2>1. WorkerFits(worker[v], status)
    BY DEF JobInv, WorkersFit
  <2>2. CASE v = writing.waiter
    <3>1. Moved(v, stage) /\ worker[v].job = j
      BY <1>1, <1>5, <2>2, ServiceAssumption DEF ItemFits
    <3> QED
      BY <1>7, <3>1 DEF WorkerFits, Moved
  <2>3. CASE v # writing.waiter /\ ~Holds(worker[v], j)
    BY <1>4, <2>1, <2>3 DEF WorkerFits, Holds
  <2>4. CASE v # writing.waiter /\ Holds(worker[v], j)
    <3>1. worker'[v] = worker[v] /\ (s = "progress" \/ worker[v].pc \in LastPoints)
      BY <1>1, <1>4, <2>4 DEF ItemFits
    <3>2. CASE s = "progress"
      BY <2>1, <3>1, <3>2 DEF Silent
    <3>3. CASE worker[v].pc \in LastPoints
      BY <1>7, <2>1, <2>4, <3>1, <3>3, StageFacts DEF WorkerFits, Holds
    <3> QED
      BY <3>1, <3>2, <3>3
  <2> QED
    BY <2>2, <2>3, <2>4
<1>10. OneHolder'
  BY <1>6 DEF JobInv, OneHolder
<1>11. \A i \in Slots' : Slot(i).waiter # writing.waiter \/ Slot(i).waiter = None
  <2>1. Slot(0) = writing
    BY DEF Slot
  <2> QED
    BY <1>3, <2>1 DEF JobInv, OneItem
<1>12. ItemsFit'
  <2> SUFFICES ASSUME NEW i \in Slots' PROVE ItemFits(Slot(i), status', worker')
    BY <1>3 DEF ItemsFit
  <2> DEFINE y == Slot(i)
  <2>1. ItemFits(y, status, worker)
    BY <1>3 DEF JobInv, ItemsFit
  <2>2. y.waiter # None \/ y.call.pc \in LastWrites
    BY <1>3 DEF JobInv, Attended
  <2>3. y.waiter # writing.waiter \/ y.waiter = None
    BY <1>11
  <2> SUFFICES ItemFits(y, status', worker')
    OBVIOUS
  <2> HIDE DEF y
  <2>4. status'[y.call.job] \in Expected(y.call.pc)
    <3>1. CASE y.call.job # j \/ s \in Silent
      BY <2>1, <3>1 DEF ItemFits
    <3>2. CASE y.call.pc \in LastPoints /\ y.call.job = j
      BY <1>7, <3>2, StageFacts
    <3>3. CASE y.waiter # None /\ y.call.job = j /\ s \notin Silent
      <4>1. PICK v \in Workers : v = y.waiter
        BY <2>1, <3>3 DEF ItemFits
      <4>2. worker[v].pc = y.call.pc /\ Holds(worker[v], j)
        BY <2>1, <3>3, <4>1, StageFacts DEF ItemFits, Holds
      <4>3. y.call.pc \in LastPoints
        BY <1>1, <2>3, <3>3, <4>1, <4>2 DEF ItemFits, Silent
      <4> QED
        BY <3>2, <3>3, <4>3
    <3> QED
      BY <2>2, <3>1, <3>2, <3>3 DEF LastPoints
  <2>5. ItemFits(y, status', worker)
    BY <2>1, <2>4 DEF ItemFits
  <2>6. CASE writing.waiter = None
    BY <2>5, <2>6 DEF Resume
  <2>7. CASE writing.waiter # None
    <3>1. PICK w \in Workers : w = writing.waiter /\ Moved(w, stage)
      BY <1>5, <2>7
    <3>2. worker[w].pc = s /\ y.waiter # w
      BY <1>1, <2>3, <3>1, ServiceAssumption DEF ItemFits
    <3>3. worker[w].pc \in LastPoints => stage \in LastPoints
      BY <1>7, <3>2 DEF LastPoints, LastWrites, EscapedWrites, WriteStages
    <3>4. worker[w].pc # "idle"
      BY <1>7, <3>2, StageFacts
    <3> QED
      BY <2>5, <3>1, <3>2, <3>3, <3>4, ItemAfterMove
  <2> QED
    BY <2>6, <2>7
<1>13. OneItem' /\ Attended'
  BY <1>3 DEF JobInv, OneItem, Attended
<1>14. QueueFits' /\ RequestsFit' /\ DownIsEmpty' /\ OneInFlight'
  <2>1. CallsAreOwned
    BY <1>3 DEF CallsAreOwned
  <2>2. StatusesStay
    <3>1. ~Unowned(j)
      BY <1>3 DEF Unowned, Slot
    <3> QED
      BY <1>7, <3>1 DEF StatusesStay
  <2> QED
    BY <1>6, <2>1, <2>2, OthersStay
<1> QED
  BY <1>8, <1>9, <1>10, <1>12, <1>13, <1>14 DEF JobInv

LEMMA CommitFits ==
  ASSUME JobInv, Commit
  PROVE  JobInv' /\ [LifecycleNext]_lifecycleVars
<1>1. ItemFits(writing, status, worker) /\ Shapes /\ writing # None /\ phase # "down"
  BY DEF Commit, JobInv, ItemsFit, Slots, Slot
<1>2. writing.call.pc \in WriteStages /\ writing.call.job \in Jobs
      /\ status[writing.call.job] \in Expected(writing.call.pc)
  BY <1>1 DEF ItemFits
<1>3. /\ Apply(writing.call) /\ Resume(writing, AfterWrite(writing.call.pc)) /\ writing' = None
      /\ UNCHANGED <<request, pq, writes, phase>>
  BY DEF Commit, manager, server
<1>4. /\ params' = params /\ status' \in [Jobs -> Statuses]
      /\ \A k \in Jobs \ {writing.call.job} : status'[k] = status[k]
      /\ writing.call.pc \in Silent => status' = status
      /\ status'[writing.call.job] \in Expected(AfterWrite(writing.call.pc))
      /\ status'[writing.call.job] \in Active => status[writing.call.job] \in Active
      /\ [LifecycleNext]_lifecycleVars
  BY <1>1, <1>2, <1>3, ApplyEffect
<1>5. AfterWrite(writing.call.pc) \in Stages \ {"idle"}
      /\ (writing.call.pc \in LastWrites => AfterWrite(writing.call.pc) = "end")
  BY <1>2, AfterFacts
<1> QED
  BY <1>1, <1>3, <1>4, <1>5, ItemDone

LEMMA WriteRaisesFits ==
  ASSUME JobInv, WriteRaises
  PROVE  JobInv'
<1>1. ItemFits(writing, status, worker) /\ Shapes /\ writing # None /\ phase # "down"
  BY DEF WriteRaises, JobInv, ItemsFit, Slots, Slot
<1>2. writing.call.pc \in WriteStages /\ writing.call.job \in Jobs
      /\ status[writing.call.job] \in Expected(writing.call.pc)
  BY <1>1 DEF ItemFits
<1>3. /\ Resume(writing, AfterRaise(writing.call.pc)) /\ writing' = None
      /\ UNCHANGED <<status, params, request, pq, writes, phase>>
  BY DEF WriteRaises, manager, server, store
<1>4. /\ AfterRaise(writing.call.pc) \in Stages \ {"idle"}
      /\ (writing.call.pc \in LastWrites => AfterRaise(writing.call.pc) = "end")
      /\ status[writing.call.job] \in Expected(AfterRaise(writing.call.pc))
  BY <1>2, AfterFacts
<1>5. status' \in [Jobs -> Statuses]
  BY <1>1, <1>3 DEF Shapes
<1> QED
  BY <1>1, <1>3, <1>4, <1>5, ItemDone

-----------------------------------------------------------------------------
(* The worker's side of the write queue. *)

LEMMA RemoveAtFacts ==
  ASSUME NEW S, NEW q \in Seq(S), NEW i \in 1..Len(q)
  PROVE  /\ RemoveAt(q, i) \in Seq(S) /\ Len(RemoveAt(q, i)) = Len(q) - 1
         /\ \A k \in 1..(Len(q) - 1) : RemoveAt(q, i)[k] = q[IF k < i THEN k ELSE k + 1]
<1> DEFINE a == SubSeq(q, 1, i - 1)
           b == SubSeq(q, i + 1, Len(q))
<1>1. a \in Seq(S) /\ Len(a) = i - 1 /\ \A k \in 1..(i - 1) : a[k] = q[k]
  OBVIOUS
<1>2. b \in Seq(S) /\ Len(b) = Len(q) - i /\ \A k \in 1..(Len(q) - i) : b[k] = q[i + k]
  OBVIOUS
<1>3. RemoveAt(q, i) = a \o b
  BY DEF RemoveAt
<1> HIDE DEF a, b
<1>4. a \o b \in Seq(S) /\ Len(a \o b) = Len(q) - 1
  <2>1. i \in Nat /\ Len(q) \in Nat
    OBVIOUS
  <2>2. a \o b \in Seq(S) /\ Len(a \o b) = Len(a) + Len(b)
    BY <1>1, <1>2, ConcatProperties
  <2>3. (i - 1) + (Len(q) - i) = Len(q) - 1
    BY <2>1
  <2>4. Len(a) + Len(b) = (i - 1) + (Len(q) - i)
    BY <1>1, <1>2
  <2> QED
    BY <2>2, <2>3, <2>4
<1>5. ASSUME NEW k \in 1..(Len(q) - 1)
      PROVE  (a \o b)[k] = q[IF k < i THEN k ELSE k + 1]
  <2>1. CASE k < i
    BY <1>1, <1>2, <2>1
  <2>2. CASE ~ k < i
    <3>1. (a \o b)[k] = b[k - Len(a)]
      BY <1>1, <1>2, <2>2
    <3>2. k - Len(a) \in 1..(Len(q) - i) /\ i + (k - Len(a)) = k + 1
      BY <1>1, <2>2
    <3> QED
      BY <1>2, <2>2, <3>1, <3>2
  <2> QED
    BY <2>1, <2>2
<1> QED
  BY <1>3, <1>4, <1>5

(* Worker w has given up: each item is one that was there before, w does   *)
(* not wait for it, or it is one that w has left.                          *)
LeftBy(w, i, k) ==
    \/ Slot(i)' = Slot(k) /\ Slot(k).waiter # w
    \/ Slot(i)' = [Slot(k) EXCEPT !.waiter = None] /\ Slot(k).waiter = w

LEMMA WaitEnds ==
  ASSUME JobInv, NEW w \in Workers, GiveUp(w), Shapes',
         \A i \in Slots' : \E k \in Slots : LeftBy(w, i, k),
         OneItem', Attended'
  PROVE  JobInv'
<1> DEFINE n == AfterTimeout(worker[w].pc)
<1>1. /\ phase # "down" /\ phase' # "down" /\ worker[w].sent
      /\ worker' = [worker EXCEPT ![w] = Resumed(@, n)]
      /\ UNCHANGED <<status, params, request, pq>>
  BY DEF GiveUp, store, manager, server
<1>2. WorkerFits(worker[w], status) /\ worker[w].pc \in WriteStages /\ worker[w].pc # "idle"
  BY <1>1, StageFacts DEF JobInv, WorkersFit, WorkerFits
<1>3. /\ n \in Stages \ {"idle"} /\ status[worker[w].job] \in Expected(n)
      /\ worker[w].pc = "progress" \/ n \in LastPoints
      /\ worker[w].pc \in LastPoints => n \in LastPoints
  BY <1>2, AfterFacts, StageFacts DEF WorkerFits, LastPoints
<1> HIDE DEF n
<1>4. Moved(w, n)
  BY <1>1, ResumedMoves DEF JobInv
<1>5. /\ WorkersFit' /\ OneHolder'
      /\ \A v \in Workers : \A j \in Jobs : Holds(worker'[v], j) <=> Holds(worker[v], j)
  BY <1>1, <1>2, <1>3, <1>4, WorkersAfterMove
<1>6. ItemsFit'
  <2> SUFFICES ASSUME NEW i \in Slots' PROVE ItemFits(Slot(i)', status, worker')
    BY <1>1 DEF ItemsFit
  <2>1. PICK k \in Slots : LeftBy(w, i, k)
    OBVIOUS
  <2>2. ItemFits(Slot(k), status, worker)
    BY DEF JobInv, ItemsFit
  <2>3. CASE Slot(i)' = Slot(k) /\ Slot(k).waiter # w
    <3>1. ItemFits(Slot(k), status, worker')
      BY <1>2, <1>3, <1>4, <2>2, <2>3, ItemAfterMove
    <3> QED
      BY <2>3, <3>1
  <2>4. CASE Slot(i)' = [Slot(k) EXCEPT !.waiter = None] /\ Slot(k).waiter = w
    <3>1. Slot(k).call.pc = worker[w].pc
      BY <2>2, <2>4 DEF ItemFits
    <3>2. ItemFits([Slot(k) EXCEPT !.waiter = None], status, worker')
      BY <1>3, <1>4, <2>2, <2>4, <3>1, ItemDetached
    <3> QED
      BY <2>4, <3>2
  <2> QED
    BY <2>1, <2>3, <2>4 DEF LeftBy
<1>7. CallsAreOwned
  <2>1. ASSUME NEW i \in Slots', NEW k \in Slots, LeftBy(w, i, k)
        PROVE  Slot(i)'.call = Slot(k).call
    BY <2>1 DEF LeftBy, JobInv, ItemsFit, ItemFits
  <2> QED
    BY <2>1 DEF CallsAreOwned
<1>8. QueueFits' /\ RequestsFit' /\ DownIsEmpty' /\ OneInFlight'
  BY <1>1, <1>5, <1>7, OthersStay DEF StatusesStay
<1> QED
  BY <1>5, <1>6, <1>8 DEF JobInv

LEMMA GiveUpFits ==
  ASSUME JobInv, NEW w \in Workers, GiveUp(w)
  PROVE  JobInv'
<1>1. /\ Shapes /\ status' = status /\ request' = request /\ pq' = pq
      /\ DOMAIN worker' = Workers
      /\ worker[w].sent /\ None # w
  BY ServiceAssumption DEF GiveUp, store, manager, JobInv, Shapes
<1>2. PICK S : writes \in Seq(S)
  BY <1>1 DEF Shapes
<1>3. \A i, k \in Slots : Slot(i).waiter = w /\ Slot(k).waiter = w => i = k
  BY <1>1 DEF JobInv, OneItem
<1>4. CASE /\ writing # None /\ writing.waiter = w
           /\ writing' = [writing EXCEPT !.waiter = None] /\ writes' = writes
  <2>1. Slots' \subseteq Slots /\ 0 \in Slots /\ Slot(0).waiter = w /\ Slot(0)' = writing'
        /\ \A i \in Slots' \ {0} : Slot(i)' = Slot(i)
    BY <1>4 DEF Slots, Slot
  <2>2. \A i \in Slots' : LeftBy(w, i, i)
    BY <1>3, <1>4, <2>1 DEF LeftBy, Slot
  <2>3. Shapes'
    BY <1>1, <1>4 DEF Shapes
  <2>4. OneItem'
    <3>1. writing'.waiter = None
      BY <1>4, <2>1 DEF JobInv, ItemsFit, ItemFits, Slot
    <3> QED
      BY <2>1, <3>1 DEF JobInv, OneItem
  <2>5. Attended'
    BY <1>4 DEF JobInv, Attended
  <2> QED
    BY <2>1, <2>2, <2>3, <2>4, <2>5, WaitEnds
<1>5. ASSUME NEW i \in DOMAIN writes, writes[i].waiter = w, writing' = writing,
             worker[w].pc \in LastWrites, writes' = [writes EXCEPT ![i].waiter = None]
      PROVE  JobInv'
  <2>1. /\ i \in Slots /\ i # 0 /\ Slots' = Slots /\ Slot(i).waiter = w
        /\ Slot(i)' = [Slot(i) EXCEPT !.waiter = None]
        /\ \A k \in Slots \ {i} : Slot(k)' = Slot(k)
    BY <1>2, <1>5 DEF Slots, Slot
  <2>2. \A k \in Slots' : LeftBy(w, k, k)
    BY <1>3, <2>1 DEF LeftBy
  <2>3. /\ ItemFits(Slot(i), status, worker)
        /\ Slot(i)'.waiter = None /\ Slot(i)'.call.pc = worker[w].pc
    BY <2>1 DEF JobInv, ItemsFit, ItemFits
  <2>4. Shapes'
    <3>1. writes' \in Seq(S \cup {writes'[i]})
      BY <1>2, <1>5
    <3> QED
      BY <1>1, <3>1 DEF Shapes
  <2>5. OneItem'
    <3>1. ASSUME NEW k \in Slots, NEW l \in Slots, Slot(k)'.waiter = Slot(l)'.waiter,
                 Slot(k)'.waiter # None
          PROVE  k = l
      <4>1. Slot(k)' = Slot(k) /\ Slot(l)' = Slot(l)
        BY <2>1, <2>3, <3>1
      <4> QED
        BY <3>1, <4>1 DEF JobInv, OneItem
    <3> QED
      BY <2>1, <3>1 DEF OneItem
  <2>6. Attended'
    <3>1. \A k \in 1..Len(writes') : k \in 1..Len(writes) /\ Slot(k)' = writes'[k]
                                     /\ Slot(k) = writes[k] /\ k \in Slots
      BY <1>2, <1>5 DEF Slots, Slot
    <3> QED
      BY <1>5, <2>1, <2>3, <3>1 DEF JobInv, Attended
  <2> QED
    BY <2>1, <2>2, <2>4, <2>5, <2>6, WaitEnds
<1>6. ASSUME NEW i \in DOMAIN writes, writes[i].waiter = w, writing' = writing,
             writes' = RemoveAt(writes, i)
      PROVE  JobInv'
  <2> DEFINE f(k) == IF k < i THEN k ELSE k + 1
  <2>1. /\ i \in 1..Len(writes) /\ writes' \in Seq(S)
        /\ \A k \in 1..Len(writes') : k # 0 /\ f(k) \in 1..Len(writes) /\ writes'[k] = writes[f(k)]
                                      /\ f(k) # i /\ f(k) # 0
        /\ \A k, l \in 1..Len(writes') : f(k) = f(l) => k = l
    BY <1>2, <1>6, RemoveAtFacts
  <2> DEFINE g(k) == IF k = 0 THEN 0 ELSE f(k)
  <2>2. /\ \A k \in Slots' : g(k) \in Slots /\ Slot(k)' = Slot(g(k)) /\ g(k) # i
        /\ \A k, l \in Slots' : g(k) = g(l) => k = l
    BY <1>6, <2>1 DEF Slots, Slot
  <2> HIDE DEF f, g
  <2>3. i \in Slots /\ Slot(i).waiter = w
    BY <1>6, <2>1 DEF Slots, Slot
  <2>4. \A k \in Slots' : LeftBy(w, k, g(k))
    BY <1>3, <2>2, <2>3 DEF LeftBy
  <2>5. Shapes'
    BY <1>1, <2>1 DEF Shapes
  <2>6. OneItem'
    BY <2>2 DEF JobInv, OneItem
  <2>7. Attended'
    BY <2>1 DEF JobInv, Attended
  <2> QED
    BY <2>2, <2>4, <2>5, <2>6, <2>7, WaitEnds
<1> QED
  BY <1>4, <1>5, <1>6 DEF GiveUp

LEMMA ResumedShape ==
  ASSUME NEW c, {"pc", "sent", "job", "rows"} \subseteq DOMAIN c, NEW stage
  PROVE  /\ {"pc", "sent", "job", "rows"} \subseteq DOMAIN Resumed(c, stage)
         /\ Resumed(c, stage).pc = stage /\ Resumed(c, stage).sent = FALSE
         /\ Resumed(c, stage).job = c.job
BY DEF Resumed, Idle

(* All who wait in the queue go on; who waits for the writer does not. *)
LEMMA CancelWritesFits ==
  ASSUME JobInv, CancelWrites
  PROVE  JobInv'
<1> DEFINE waiting == {writes[i].waiter : i \in DOMAIN writes}
           after(w) == AfterRaise(worker[w].pc)
<1>1. /\ phase' # "down" /\ writes' = <<>> /\ writing' = writing
      /\ worker' = [w \in Workers |->
            IF w \in waiting THEN Resumed(worker[w], after(w)) ELSE worker[w]]
      /\ UNCHANGED <<status, params, request, pq>>
  BY DEF CancelWrites, store, manager
<1>2. PICK S : writes \in Seq(S)
  BY DEF JobInv, Shapes
<1>3. Slots' \subseteq Slots /\ \A i \in Slots' : i = 0 /\ Slot(i)' = Slot(i)
  BY <1>1 DEF Slots, Slot
<1>4. \A w \in Workers : WorkerFits(worker[w], status)
  BY DEF JobInv, WorkersFit
<1>5. ASSUME NEW w \in Workers, w \in waiting
      PROVE  worker[w].sent /\ \A k \in Slots' : Slot(k).waiter # w
  <2>1. PICK i \in 1..Len(writes) : writes[i].waiter = w
    BY <1>2, <1>5
  <2>2. i \in Slots /\ Slot(i) = writes[i] /\ i # 0
    BY <2>1 DEF Slots, Slot
  <2>3. worker[w].sent
    BY <2>1, <2>2 DEF JobInv, ItemsFit, ItemFits
  <2>4. \A k \in Slots' : Slot(k).waiter # w
    BY <1>3, <2>1, <2>2, ServiceAssumption DEF JobInv, OneItem
  <2> QED
    BY <2>3, <2>4
<1>6. ASSUME NEW w \in Workers, w \in waiting
      PROVE  /\ worker[w].pc \in WriteStages /\ worker[w].pc # "idle"
             /\ after(w) \in Stages \ {"idle"} /\ status[worker[w].job] \in Expected(after(w))
             /\ worker[w].pc \in LastPoints => after(w) \in LastPoints
  <2>1. worker[w].pc \in WriteStages /\ worker[w].pc # "idle"
        /\ status[worker[w].job] \in Expected(worker[w].pc)
    BY <1>4, <1>5, <1>6, StageFacts DEF WorkerFits
  <2> QED
    BY <2>1, AfterFacts DEF LastPoints, WriteStages, LastWrites, EscapedWrites
<1> HIDE DEF waiting, after
<1>7. /\ DOMAIN worker' = Workers
      /\ \A w \in Workers : w \notin waiting => worker'[w] = worker[w]
      /\ \A w \in Workers : w \in waiting =>
            /\ {"pc", "sent", "job", "rows"} \subseteq DOMAIN worker'[w]
            /\ worker'[w].pc = after(w) /\ worker'[w].sent = FALSE
            /\ worker'[w].job = worker[w].job
  <2>1. \A w \in Workers : {"pc", "sent", "job", "rows"} \subseteq DOMAIN worker[w]
    BY <1>4 DEF WorkerFits
  <2> QED
    BY <1>1, <2>1, ResumedShape, ZenonT(40)
<1>8. \A w \in Workers : \A j \in Jobs : Holds(worker'[w], j) <=> Holds(worker[w], j)
  BY <1>6, <1>7 DEF Holds
<1>9. Shapes'
  <2>1. writes' \in Seq(S)
    BY <1>1
  <2> QED
    BY <1>1, <1>7, <2>1 DEF JobInv, Shapes
<1>10. WorkersFit'
  BY <1>1, <1>4, <1>6, <1>7 DEF WorkersFit, WorkerFits
<1>11. OneHolder'
  BY <1>8 DEF JobInv, OneHolder
<1>12. ItemsFit'
  <2> SUFFICES ASSUME NEW i \in Slots' PROVE ItemFits(Slot(i), status, worker')
    BY <1>1, <1>3 DEF ItemsFit
  <2>1. ItemFits(Slot(i), status, worker)
    BY <1>3 DEF JobInv, ItemsFit
  <2> DEFINE y == Slot(i)
  <2>2. \A w \in Workers : w \in waiting => y.waiter # w
    BY <1>5
  <2> SUFFICES ItemFits(y, status, worker')
    OBVIOUS
  <2>3. ItemFits(y, status, worker)
    BY <2>1
  <2> HIDE DEF y
  <2>4. ASSUME NEW w \in Workers
        PROVE  /\ y.waiter = w =>
                    /\ worker'[w].sent /\ worker'[w].pc = y.call.pc
                    /\ worker'[w].job = y.call.job /\ worker'[w].rows = y.call.rows
               /\ y.waiter # w /\ Holds(worker'[w], y.call.job) =>
                    y.call.pc = "progress" \/ worker'[w].pc \in LastPoints
    <3>1. CASE w \notin waiting
      BY <1>7, <2>3, <3>1 DEF ItemFits
    <3>2. CASE w \in waiting
      BY <1>6, <1>7, <1>8, <2>2, <2>3, <3>2 DEF ItemFits
    <3> QED
      BY <3>1, <3>2
  <2> QED
    BY <2>3, <2>4 DEF ItemFits
<1>13. OneItem' /\ Attended'
  BY <1>1, <1>3 DEF OneItem, Attended
<1>14. QueueFits' /\ RequestsFit' /\ DownIsEmpty' /\ OneInFlight'
  BY <1>1, <1>3, <1>8, OthersStay DEF StatusesStay, CallsAreOwned
<1> QED
  BY <1>9, <1>10, <1>11, <1>12, <1>13, <1>14 DEF JobInv

(* A worker at a stage is not waiting for a write. *)
LEMMA AtFacts ==
  ASSUME JobInv, NEW w \in Workers, NEW stage, At(w, stage), stage # "idle"
  PROVE  /\ phase # "down" /\ worker[w].pc = stage /\ ~worker[w].sent
         /\ {"pc", "sent", "job", "rows"} \subseteq DOMAIN worker[w] /\ DOMAIN worker = Workers
         /\ worker[w].job \in Jobs /\ status[worker[w].job] \in Expected(stage)
BY DEF At, JobInv, Shapes, WorkersFit, WorkerFits

LEMMA QueuesFits ==
  ASSUME JobInv, NEW w \in Workers, worker[w].pc \in WriteStages, ~worker[w].sent,
         phase # "down", worker[w].job \in Jobs,
         writes' = Append(writes, [waiter |-> w, call |-> worker[w]]),
         worker' = [worker EXCEPT ![w].sent = TRUE],
         UNCHANGED <<status, params, request, pq, writing, phase>>
  PROVE  JobInv'
<1>1. PICK S : writes \in Seq(S)
  BY DEF JobInv, Shapes
<1>m. PICK m \in Nat : m = Len(writes) + 1
  BY <1>1
<1>x. PICK x : x = [waiter |-> w, call |-> worker[w]]
  OBVIOUS
<1>2. writes \in Seq(S \cup {x})
  BY <1>1
<1>3. writes' \in Seq(S \cup {x}) /\ Len(writes') = m
      /\ \A i \in 1..m : writes'[i] = IF i = m THEN x ELSE writes[i]
  BY <1>m, <1>x, <1>2
<1>4. /\ Slots' = Slots \cup {m} /\ m \notin Slots /\ Slot(m)' = x
      /\ \A i \in Slots : Slot(i)' = Slot(i)
  BY <1>m, <1>1, <1>3 DEF Slots, Slot
<1>5. \A v \in Workers : WorkerFits(worker[v], status)
  BY DEF JobInv, WorkersFit
<1>6. /\ DOMAIN worker' = Workers /\ {"pc", "sent", "job", "rows"} \subseteq DOMAIN worker'[w]
      /\ worker'[w].pc = worker[w].pc /\ worker'[w].job = worker[w].job /\ worker'[w].sent
      /\ worker'[w].sent \in BOOLEAN
      /\ \A v \in Workers \ {w} : worker'[v] = worker[v]
  BY <1>5 DEF JobInv, Shapes, WorkerFits
<1>7. \A v \in Workers : \A j \in Jobs : Holds(worker'[v], j) <=> Holds(worker[v], j)
  BY <1>6 DEF Holds
<1>8. Shapes'
  BY <1>3, <1>6 DEF JobInv, Shapes
<1>9. WorkersFit' /\ OneHolder'
  <2>1. \A v \in Workers : WorkerFits(worker'[v], status)
    BY <1>5, <1>6, ZenonT(40) DEF WorkerFits
  <2> QED
    BY <1>7, <2>1 DEF JobInv, WorkersFit, OneHolder
<1>10. x.waiter = w /\ x.call = worker[w] /\ DOMAIN x = {"waiter", "call"}
  BY <1>x
<1>11. Holds(worker[w], x.call.job)
  BY <1>10, StageFacts DEF Holds
<1>12. \A i \in Slots : ItemFits(Slot(i), status, worker) /\ Slot(i).waiter # w
  BY DEF JobInv, ItemsFit, ItemFits
<1>13. ItemsFit'
  <2>1. ASSUME NEW i \in Slots PROVE ItemFits(Slot(i), status, worker')
    <3> DEFINE y == Slot(i)
    <3>1. ItemFits(y, status, worker) /\ y.waiter # w
      BY <1>12
    <3> SUFFICES ItemFits(y, status, worker')
      OBVIOUS
    <3> HIDE DEF y
    <3>2. \A v \in Workers : worker'[v].pc = worker[v].pc /\ worker'[v].job = worker[v].job
      BY <1>6
    <3> QED
      BY <1>6, <3>1, <3>2 DEF ItemFits, Holds
  <2>2. ItemFits(x, status, worker')
    <3>1. \A v \in Workers \ {w} : ~Holds(worker'[v], x.call.job)
      BY <1>7, <1>10, <1>11 DEF JobInv, OneHolder
    <3>2. status[x.call.job] \in Expected(x.call.pc)
      BY <1>5, <1>10, StageFacts DEF WorkerFits
    <3> QED
      BY <1>6, <1>10, <3>1, <3>2 DEF ItemFits
  <2> QED
    BY <1>4, <2>1, <2>2 DEF ItemsFit
<1>14. OneItem'
  BY <1>4, <1>10, <1>12 DEF JobInv, OneItem
<1>15. Attended'
  BY <1>m, <1>3, <1>10, ServiceAssumption DEF JobInv, Attended
<1>16. QueueFits' /\ RequestsFit' /\ DownIsEmpty' /\ OneInFlight'
  <2>1. CallsAreOwned
    BY <1>4, <1>11 DEF CallsAreOwned
  <2> QED
    BY <1>7, <2>1, OthersStay DEF StatusesStay
<1> QED
  BY <1>8, <1>9, <1>13, <1>14, <1>15, <1>16 DEF JobInv

LEMMA EnqueueFits ==
  ASSUME JobInv, NEW w \in Workers, Enqueue(w)
  PROVE  JobInv'
<1>1. PICK stage \in WriteStages : At(w, stage)
  BY DEF Enqueue
<1>2. /\ phase # "down" /\ worker[w].pc = stage /\ ~worker[w].sent /\ stage # "idle"
      /\ worker[w].job \in Jobs /\ status[worker[w].job] \in Expected(stage)
  BY <1>1, AtFacts, StageFacts
<1>3. UNCHANGED <<status, params, request, pq, writing, phase>>
  BY DEF Enqueue, store, manager, server
<1>4. CASE phase \notin {"rejecting", "cancelled"}
  BY <1>2, <1>3, <1>4, QueuesFits DEF Enqueue
<1>5. CASE phase \in {"rejecting", "cancelled"}
  <2>1. writes' = writes /\ Moved(w, AfterRaise(stage))
    BY <1>2, <1>5, ResumedMoves DEF Enqueue, Goto, JobInv
  <2>2. stage \in LastPoints => AfterRaise(stage) \in LastPoints
    BY AfterFacts DEF LastPoints, WriteStages, LastWrites, EscapedWrites
  <2>3. AfterRaise(stage) \in Stages \ {"idle"}
        /\ status[worker[w].job] \in Expected(AfterRaise(stage))
    BY <1>2, AfterFacts
  <2> QED
    BY <1>2, <1>3, <2>1, <2>2, <2>3, WorkerMoves
<1> QED
  BY <1>4, <1>5

-----------------------------------------------------------------------------
(* Taking a job, going on with it, and leaving it. *)

LEMMA DrainOneFits ==
  ASSUME JobInv, NEW w \in Workers, DrainOne(w)
  PROVE  JobInv'
<1>1. /\ phase # "down" /\ phase' # "down" /\ worker[w].pc = "idle" /\ ~worker[w].sent
      /\ pq # <<>> /\ pq' = Tail(pq)
      /\ worker' = [worker EXCEPT ![w] = [Idle EXCEPT !.pc = "running", !.job = Head(pq)]]
      /\ UNCHANGED <<status, params, request, writes, writing>>
  BY DEF DrainOne, At, store, queue, server
<1>2. PICK h \in Jobs : h = Head(pq) /\ InQueue(h) /\ h = pq[1]
  BY <1>1 DEF JobInv, Shapes, InQueue
<1>3. Unowned(h) /\ status[h] = "pending"
  BY <1>2 DEF JobInv, QueueFits, Unowned
<1>4. /\ DOMAIN worker' = Workers /\ {"pc", "sent", "job", "rows"} \subseteq DOMAIN worker'[w]
      /\ worker'[w].pc = "running" /\ worker'[w].sent = FALSE /\ worker'[w].job = h
      /\ \A v \in Workers \ {w} : worker'[v] = worker[v]
  BY <1>1, <1>2 DEF JobInv, Shapes, Idle
<1>5. \A v \in Workers : \A j \in Jobs :
         Holds(worker'[v], j) <=> Holds(worker[v], j) \/ (v = w /\ j = h)
  BY <1>1, <1>4 DEF Holds
<1>6. /\ Slots' = Slots /\ \A i \in Slots : Slot(i)' = Slot(i)
  BY <1>1 DEF Slots, Slot
<1>7. /\ pq' \in Seq(Jobs)
      /\ \A i \in 1..Len(pq') : i + 1 \in 1..Len(pq) /\ pq'[i] = pq[i + 1] /\ i \in Nat
  BY <1>1 DEF JobInv, Shapes
<1>8. \A j \in Jobs : InQueue(j)' => InQueue(j) /\ j # h
  <2> SUFFICES ASSUME NEW i \in 1..Len(pq') PROVE pq'[i] = pq[i + 1] /\ pq[i + 1] # h
                                                  /\ i + 1 \in 1..Len(pq)
    BY DEF InQueue
  <2>1. 1 \in 1..Len(pq) /\ i + 1 # 1 /\ i + 1 \in 1..Len(pq)
    BY <1>1, <1>7 DEF JobInv, Shapes
  <2> QED
    BY <1>2, <1>7, <2>1 DEF JobInv, QueueFits
<1>9. Shapes'
  BY <1>1, <1>4, <1>7 DEF JobInv, Shapes
<1>10. WorkersFit'
  <2>1. h \in Jobs /\ status[h] \in Expected("running") /\ "running" \in Stages
    BY <1>3, StageFacts DEF Stages, WriteStages
  <2>2. \A v \in Workers : WorkerFits(worker'[v], status)
    BY <1>4, <2>1 DEF JobInv, WorkersFit, WorkerFits
  <2> QED
    BY <1>1, <2>2 DEF WorkersFit
<1>11. OneHolder'
  BY <1>3, <1>5 DEF JobInv, OneHolder, Unowned
<1>12. ItemsFit'
  <2> SUFFICES ASSUME NEW i \in Slots PROVE ItemFits(Slot(i), status, worker')
    BY <1>1, <1>6 DEF ItemsFit
  <2> DEFINE y == Slot(i)
  <2>1. ItemFits(y, status, worker) /\ y.call.job # h
    BY <1>3 DEF JobInv, ItemsFit, Unowned
  <2> SUFFICES ItemFits(y, status, worker')
    OBVIOUS
  <2> HIDE DEF y
  <2>2. y.waiter # w /\ ~Holds(worker'[w], y.call.job)
    BY <1>1, <1>4, <2>1 DEF ItemFits, Holds
  <2> QED
    BY <1>4, <2>1, <2>2 DEF ItemFits
<1>13. OneItem' /\ Attended'
  BY <1>1, <1>6 DEF JobInv, OneItem, Attended
<1>14. \A j \in Jobs : Unowned(j) /\ j # h => Unowned(j)'
  BY <1>1, <1>5, <1>6 DEF Unowned
<1>15. QueueFits'
  <2>1. \A j \in Jobs : InQueue(j)' => Unowned(j)'
    BY <1>8, <1>14 DEF JobInv, QueueFits
  <2>2. ASSUME NEW i \in 1..Len(pq'), NEW k \in 1..Len(pq'), pq'[i] = pq'[k]
        PROVE  i = k
    <3>1. i + 1 = k + 1
      BY <1>7, <2>2 DEF JobInv, QueueFits
    <3> QED
      BY <1>7, <3>1
  <2> QED
    BY <2>1, <2>2 DEF QueueFits
<1>16. RequestsFit'
  BY <1>1, <1>2, <1>8, <1>14 DEF JobInv, RequestsFit
<1>17. DownIsEmpty' /\ OneInFlight'
  BY <1>1 DEF JobInv, DownIsEmpty, OneInFlight, InFlight, SameParams
<1> QED
  BY <1>9, <1>10, <1>11, <1>12, <1>13, <1>15, <1>16, <1>17 DEF JobInv

LEMMA EndJobFits ==
  ASSUME JobInv, NEW w \in Workers, EndJob(w)
  PROVE  JobInv'
<1>1. /\ phase # "down" /\ phase' # "down" /\ ~worker[w].sent
      /\ worker' = [worker EXCEPT ![w] = Idle]
      /\ UNCHANGED <<status, params, request, pq, writes, writing>>
  BY AtFacts DEF EndJob, At, store, queue, server
<1>2. /\ DOMAIN worker' = Workers /\ WorkerFits(worker'[w], status) /\ worker'[w].pc = "idle"
      /\ \A v \in Workers \ {w} : worker'[v] = worker[v]
  BY <1>1 DEF JobInv, Shapes, WorkerFits, Idle, Stages
<1>3. \A v \in Workers : \A j \in Jobs : Holds(worker'[v], j) => Holds(worker[v], j)
  BY <1>2 DEF Holds
<1>4. /\ Slots' = Slots /\ \A i \in Slots : Slot(i)' = Slot(i)
  BY <1>1 DEF Slots, Slot
<1>5. Shapes'
  BY <1>1, <1>2 DEF JobInv, Shapes
<1>6. WorkersFit' /\ OneHolder'
  BY <1>1, <1>2, <1>3 DEF JobInv, WorkersFit, OneHolder
<1>7. ItemsFit'
  <2> SUFFICES ASSUME NEW i \in Slots PROVE ItemFits(Slot(i), status, worker')
    BY <1>1, <1>4 DEF ItemsFit
  <2> DEFINE y == Slot(i)
  <2>1. ItemFits(y, status, worker) /\ y.waiter # w
    BY <1>1 DEF JobInv, ItemsFit, ItemFits
  <2> SUFFICES ItemFits(y, status, worker')
    OBVIOUS
  <2> HIDE DEF y
  <2> QED
    BY <1>2, <2>1 DEF ItemFits, Holds
<1>8. OneItem' /\ Attended'
  BY <1>1, <1>4 DEF JobInv, OneItem, Attended
<1>9. QueueFits' /\ RequestsFit' /\ DownIsEmpty' /\ OneInFlight'
  BY <1>1, <1>3, <1>4, OthersStay DEF StatusesStay, CallsAreOwned
<1> QED
  BY <1>5, <1>6, <1>7, <1>8, <1>9 DEF JobInv

(* run_job between its writes: the job is running and stays so. *)
LEMMA RunStepMoves ==
  ASSUME JobInv, NEW w \in Workers, NEW from, At(w, from), NEW to, Moved(w, to),
         from \in {"lookup", "start", "simulate", "collect", "judge"},
         to \in {"start", "clone", "fail", "progress", "collect", "cancel", "records", "succeed"},
         UNCHANGED <<store, request, manager, queue, server>>
  PROVE  JobInv'
<1>1. UNCHANGED <<status, params, request, pq, writes, writing, phase>>
  BY DEF store, manager, queue, server
<1>2. /\ from \in Stages \ {"idle"} /\ from \notin LastPoints /\ Expected(from) = {"running"}
      /\ to \in Stages \ {"idle"} /\ Expected(to) = {"running"}
  BY DEF Stages, WriteStages, LastPoints, LastWrites, EscapedWrites, Expected
<1>3. /\ phase # "down" /\ worker[w].pc = from /\ ~worker[w].sent
      /\ status[worker[w].job] \in Expected(from)
  BY <1>2, AtFacts
<1> QED
  BY <1>1, <1>2, <1>3, WorkerMoves

LEMMA RunStepFits ==
  ASSUME JobInv, NEW w \in Workers,
         LookUp(w) \/ Start(w) \/ Simulate(w) \/ SimulateFails(w) \/ Collect(w) \/ Judge(w)
  PROVE  JobInv'
<1>1. ASSUME NEW stage, Goto(w, stage) PROVE Moved(w, stage)
  BY <1>1, ResumedMoves DEF Goto, JobInv
<1>2. ASSUME NEW stage, stage # "idle", At(w, stage)
      PROVE  {"pc", "sent", "job", "rows"} \subseteq DOMAIN worker[w] /\ DOMAIN worker = Workers
             /\ worker[w].sent = FALSE
  BY <1>2, AtFacts DEF JobInv, WorkersFit, WorkerFits
<1>3. CASE LookUp(w)
  <2>1. Moved(w, "start") \/ Moved(w, "clone")
    BY <1>1, <1>2, <1>3 DEF LookUp, Moved
  <2> QED
    BY <1>3, <2>1, RunStepMoves DEF LookUp
<1>4. CASE Start(w)
  <2>1. Moved(w, "progress") \/ Moved(w, "fail")
    BY <1>1, <1>2, <1>4 DEF Start, Moved
  <2> QED
    BY <1>4, <2>1, RunStepMoves DEF Start
<1>5. CASE Simulate(w)
  <2>1. Moved(w, "collect")
    BY <1>2, <1>5, ZenonT(40) DEF Simulate, Moved
  <2> QED
    BY <1>5, <2>1, RunStepMoves DEF Simulate
<1>6. CASE SimulateFails(w)
  <2>1. Moved(w, "fail") \/ Moved(w, "collect")
    BY <1>1, <1>2, <1>6 DEF SimulateFails, Moved
  <2> QED
    BY <1>6, <2>1, RunStepMoves DEF SimulateFails
<1>7. CASE Collect(w)
  <2>1. Moved(w, "cancel") \/ Moved(w, "fail") \/ Moved(w, "records")
    BY <1>1, <1>2, <1>7, ZenonT(40) DEF Collect, Moved
  <2> QED
    BY <1>7, <2>1, RunStepMoves DEF Collect
<1>8. CASE Judge(w)
  <2>1. Verdict(w) \in {"fail", "cancel", "succeed"}
    BY DEF Verdict
  <2> QED
    BY <1>1, <1>8, <2>1, RunStepMoves DEF Judge
<1> QED
  BY <1>3, <1>4, <1>5, <1>6, <1>7, <1>8

-----------------------------------------------------------------------------
(* Requests. *)

(* Workers and writes are left alone, and so are the jobs they are for. *)
LEMMA WorkStays ==
  ASSUME JobInv, UNCHANGED <<worker, writes, writing>>, status' \in [Jobs -> Statuses],
         \A j \in Jobs : status[j] # "absent" => status'[j] = status[j]
  PROVE  /\ WorkersFit' /\ OneHolder' /\ ItemsFit' /\ OneItem' /\ Attended'
         /\ Slots' = Slots /\ \A i \in Slots : Slot(i)' = Slot(i)
         /\ \A j \in Jobs : Unowned(j) => Unowned(j)'
<1>1. /\ Slots' = Slots /\ \A i \in Slots : Slot(i)' = Slot(i)
  BY DEF Slots, Slot
<1>2. \A s \in Stages : "absent" \notin Expected(s)
  BY StageFacts
<1>3. WorkersFit'
  <2>1. ASSUME NEW w \in Workers PROVE WorkerFits(worker[w], status')
    BY <1>2 DEF JobInv, WorkersFit, WorkerFits
  <2> QED
    BY <2>1 DEF WorkersFit
<1>4. ItemsFit'
  <2> SUFFICES ASSUME NEW i \in Slots PROVE ItemFits(Slot(i), status', worker)
    BY <1>1 DEF ItemsFit
  <2> DEFINE y == Slot(i)
  <2>1. ItemFits(y, status, worker)
    BY DEF JobInv, ItemsFit
  <2> SUFFICES ItemFits(y, status', worker)
    OBVIOUS
  <2> HIDE DEF y
  <2> QED
    BY <1>2, <2>1, StageFacts DEF ItemFits
<1>5. OneHolder' /\ OneItem' /\ Attended'
  BY <1>1 DEF JobInv, OneHolder, OneItem, Attended
<1>6. \A j \in Jobs : Unowned(j) => Unowned(j)'
  BY <1>1 DEF Unowned
<1> QED
  BY <1>1, <1>3, <1>4, <1>5, <1>6

(* Nothing changes that the invariant looks at, but the phase. *)
LEMMA NothingMoves ==
  ASSUME JobInv, UNCHANGED <<status, params, request, worker, pq, writes, writing>>,
         phase' # "down" \/ phase' = phase
  PROVE  JobInv'
<1>1. status' \in [Jobs -> Statuses] /\ Shapes'
  BY DEF JobInv, Shapes
<1>2. /\ WorkersFit' /\ OneHolder' /\ ItemsFit' /\ OneItem' /\ Attended'
      /\ \A j \in Jobs : Unowned(j) => Unowned(j)'
  BY <1>1, WorkStays
<1>3. QueueFits' /\ RequestsFit' /\ DownIsEmpty' /\ OneInFlight'
  BY <1>2 DEF JobInv, QueueFits, InQueue, RequestsFit, DownIsEmpty, OneInFlight, InFlight,
              SameParams
<1> QED
  BY <1>1, <1>2, <1>3 DEF JobInv

Before == {"new", "inflight", "count", "add"}

LEMMA RequestMoves ==
  ASSUME JobInv, NEW j \in Jobs, NEW stage, request' = [request EXCEPT ![j] = stage],
         UNCHANGED <<status, params, worker, pq, writes, writing, phase>>, phase # "down",
         stage # "schedule", stage \in Before => request[j] \in Before
  PROVE  JobInv'
<1>1. status' \in [Jobs -> Statuses] /\ Shapes'
  BY DEF JobInv, Shapes
<1>2. /\ WorkersFit' /\ OneHolder' /\ ItemsFit' /\ OneItem' /\ Attended'
      /\ \A k \in Jobs : Unowned(k) => Unowned(k)'
  BY <1>1, WorkStays
<1>3. RequestsFit'
  <2>1. \A k \in Jobs : request'[k] = IF k = j THEN stage ELSE request[k]
    BY DEF JobInv, Shapes
  <2>2. \A k \in Jobs : request'[k] \in Before => request[k] \in Before
    BY <2>1
  <2>3. \A k \in Jobs : request'[k] = "schedule" => request[k] = "schedule"
    BY <2>1
  <2> QED
    BY <1>2, <2>2, <2>3 DEF JobInv, RequestsFit, InQueue, Before
<1>4. QueueFits' /\ DownIsEmpty' /\ OneInFlight'
  BY <1>2 DEF JobInv, QueueFits, InQueue, DownIsEmpty, OneInFlight, InFlight, SameParams
<1> QED
  BY <1>1, <1>2, <1>3, <1>4 DEF JobInv

(* The row is new: nobody works for it.  It is the only one in flight.     *)
LEMMA AddFits ==
  ASSUME JobInv, NEW j \in Jobs, Add(j)
  PROVE  JobInv' /\ Create(j) /\ params' = params
<1>1. /\ phase # "down" /\ phase' # "down" /\ request[j] = "add" /\ InFlightLike(j) = {}
      /\ status' = [status EXCEPT ![j] = "pending"]
      /\ request' = [request EXCEPT ![j] = "schedule"]
      /\ UNCHANGED <<params, worker, pq, writes, writing>>
  BY DEF Add, Asks, Proceed, InsertJob, manager, queue, server
<1>2. status[j] = "absent"
  BY <1>1 DEF JobInv, RequestsFit
<1>3. /\ status' \in [Jobs -> Statuses] /\ status'[j] = "pending"
      /\ \A k \in Jobs \ {j} : status'[k] = status[k]
  BY <1>1 DEF JobInv, Shapes, Statuses, Active
<1>4. Shapes'
  BY <1>1, <1>3 DEF JobInv, Shapes
<1>5. /\ WorkersFit' /\ OneHolder' /\ ItemsFit' /\ OneItem' /\ Attended'
      /\ Slots' = Slots /\ \A i \in Slots : Slot(i)' = Slot(i)
      /\ \A k \in Jobs : Unowned(k) => Unowned(k)'
  BY <1>1, <1>2, <1>3, WorkStays
<1>6. Unowned(j)'
  <2>1. \A w \in Workers : ~Holds(worker[w], j)
    BY <1>2, StageFacts DEF JobInv, WorkersFit, WorkerFits, Holds
  <2>2. \A i \in Slots : Slot(i).call.job # j
    BY <1>2, StageFacts DEF JobInv, ItemsFit, ItemFits
  <2> QED
    BY <1>1, <1>3, <1>5, <2>1, <2>2 DEF Unowned
<1>7. ~InQueue(j) /\ \A k \in Jobs : InQueue(k)' <=> InQueue(k)
  BY <1>1, <1>2 DEF JobInv, QueueFits, InQueue, Unowned
<1>8. QueueFits'
  BY <1>1, <1>5, <1>7 DEF JobInv, QueueFits
<1>9. RequestsFit'
  <2>1. \A k \in Jobs : request'[k] = IF k = j THEN "schedule" ELSE request[k]
    BY <1>1 DEF JobInv, Shapes
  <2> QED
    BY <1>3, <1>5, <1>6, <1>7, <2>1 DEF JobInv, RequestsFit
<1>10. \A k \in Jobs : InFlight(k) => ~SameParams(j, k)
  BY <1>1 DEF InFlightLike
<1>11. OneInFlight'
  <2>1. \A k \in Jobs \ {j} : InFlight(k)' => InFlight(k)
    BY <1>3 DEF InFlight
  <2>2. \A k \in Jobs \ {j} : InFlight(k)' => params[k] # params[j]
    BY <1>10, <2>1 DEF SameParams
  <2> QED
    BY <1>1, <2>1, <2>2 DEF JobInv, OneInFlight, SameParams
<1>12. DownIsEmpty'
  BY <1>1 DEF DownIsEmpty
<1>13. Create(j)
  BY <1>1, <1>2, <1>10 DEF Create
<1> QED
  BY <1>1, <1>4, <1>5, <1>8, <1>9, <1>11, <1>12, <1>13 DEF JobInv

LEMMA ScheduleFits ==
  ASSUME JobInv, NEW j \in Jobs, Schedule(j)
  PROVE  JobInv'
<1>1. /\ phase # "down" /\ request[j] = "schedule"
      /\ UNCHANGED <<status, params, worker, writes, writing, phase>>
  BY DEF Schedule, Asks, store, queue, server
<1>2. CASE phase # "up"
  BY <1>1, <1>2, RequestMoves DEF Schedule, Proceed, Before
<1>3. CASE phase = "up"
  <2>1. pq' = Append(pq, j) /\ request' = [request EXCEPT ![j] = "dispatch"]
    BY <1>3 DEF Schedule, Proceed
  <2>2. /\ pq' \in Seq(Jobs) /\ Len(pq') = Len(pq) + 1 /\ Len(pq) \in Nat
        /\ \A i \in 1..Len(pq') : pq'[i] = IF i = Len(pq) + 1 THEN j ELSE pq[i]
    BY <2>1 DEF JobInv, Shapes
  <2>3. Unowned(j) /\ ~InQueue(j)
    BY <1>1 DEF JobInv, RequestsFit
  <2>4. Shapes' /\ status' \in [Jobs -> Statuses]
    BY <1>1, <2>1, <2>2 DEF JobInv, Shapes
  <2>5. /\ WorkersFit' /\ OneHolder' /\ ItemsFit' /\ OneItem' /\ Attended'
        /\ \A k \in Jobs : Unowned(k) => Unowned(k)'
    BY <1>1, <2>4, WorkStays
  <2>6. \A k \in Jobs : InQueue(k)' => InQueue(k) \/ k = j
    BY <2>2 DEF InQueue
  <2>7. QueueFits'
    <3>1. \A k \in Jobs : InQueue(k)' => Unowned(k)'
      BY <2>3, <2>5, <2>6 DEF JobInv, QueueFits
    <3>2. \A i \in 1..Len(pq) : pq[i] # j
      BY <2>3 DEF InQueue
    <3>3. \A i, k \in 1..Len(pq') : pq'[i] = pq'[k] => i = k
      BY <2>2, <3>2 DEF JobInv, QueueFits
    <3> QED
      BY <3>1, <3>3 DEF QueueFits
  <2>8. RequestsFit'
    <3>1. \A k \in Jobs : request'[k] = IF k = j THEN "dispatch" ELSE request[k]
      BY <2>1 DEF JobInv, Shapes
    <3> QED
      BY <1>1, <2>5, <2>6, <3>1 DEF JobInv, RequestsFit
  <2>9. DownIsEmpty' /\ OneInFlight'
    BY <1>1 DEF JobInv, DownIsEmpty, OneInFlight, InFlight, SameParams
  <2> QED
    BY <2>4, <2>5, <2>7, <2>8, <2>9 DEF JobInv
<1> QED
  BY <1>2, <1>3

LEMMA RequestFits ==
  ASSUME JobInv, NEW j \in Jobs,
         \/ FindSucceeded(j) \/ FindInFlight(j) \/ CheckLimit(j) \/ AddConflicts(j)
         \/ Dispatch(j) \/ ResolveConflict(j) \/ ResolveByCache(j)
  PROVE  JobInv'
<1>1. /\ phase # "down"
      /\ UNCHANGED <<status, params, worker, pq, writes, writing, phase>>
  BY DEF FindSucceeded, FindInFlight, CheckLimit, AddConflicts, Dispatch, ResolveConflict,
         ResolveByCache, Asks, store, manager, queue, server
<1>2. \E stage \in Asking \cup Answers :
         /\ request' = [request EXCEPT ![j] = stage]
         /\ stage # "schedule"
         /\ stage \in Before => request[j] \in Before
  BY DEF FindSucceeded, FindInFlight, CheckLimit, AddConflicts, Dispatch, ResolveConflict,
         ResolveByCache, Asks, Proceed, Asking, Answers, Before
<1> QED
  BY <1>1, <1>2, RequestMoves

-----------------------------------------------------------------------------
(* The server goes down and comes back. *)

LEMMA DownFits ==
  ASSUME JobInv, Down
  PROVE  JobInv'
<1>1. /\ writes' = <<>> /\ writing' = None /\ pq' = <<>> /\ Slots' = {}
      /\ worker' = [w \in Workers |-> Idle]
      /\ request' = [j \in Jobs |-> IF request[j] \in Asking \ {"new"} THEN "lost" ELSE request[j]]
      /\ UNCHANGED <<status, params>>
  BY DEF Down, Slots, store
<1>2. Shapes'
  <2>1. writes' \in Seq({}) /\ pq' \in Seq(Jobs)
    BY <1>1
  <2> QED
    BY <1>1, <2>1 DEF JobInv, Shapes
<1>3. WorkersFit' /\ OneHolder'
  BY <1>1 DEF WorkersFit, WorkerFits, OneHolder, Holds, Idle, Stages
<1>4. ItemsFit' /\ OneItem' /\ Attended' /\ QueueFits'
  BY <1>1 DEF ItemsFit, OneItem, Attended, QueueFits, InQueue
<1>5. RequestsFit' /\ \A j \in Jobs : request'[j] \notin Asking \ {"new"}
  BY <1>1 DEF JobInv, RequestsFit, Asking
<1>6. DownIsEmpty' /\ OneInFlight'
  BY <1>1, <1>5 DEF JobInv, DownIsEmpty, OneInFlight, InFlight, SameParams, Idle
<1> QED
  BY <1>2, <1>3, <1>4, <1>5, <1>6 DEF JobInv

LEMMA BootFits ==
  ASSUME JobInv, Boot
  PROVE  JobInv' /\ Sweep /\ params' = params
<1>1. /\ phase' # "down" /\ Sweep
      /\ status' = [j \in Jobs |-> IF InFlight(j) THEN "interrupted" ELSE status[j]]
      /\ UNCHANGED <<params, request, worker, pq, writes, writing>>
  BY DEF Boot, SweepInterrupted, Sweep, manager, queue
<1>2. /\ pq = <<>> /\ writes = <<>> /\ writing = None /\ Slots' = {}
      /\ \A w \in Workers : worker[w].pc = "idle"
      /\ \A j \in Jobs : request[j] \notin Asking \ {"new"}
  BY <1>1 DEF JobInv, DownIsEmpty, Boot, Slots
<1>3. Shapes'
  BY <1>1 DEF JobInv, Shapes, Statuses, Terminal
<1>4. WorkersFit' /\ OneHolder'
  BY <1>1, <1>2 DEF JobInv, WorkersFit, WorkerFits, OneHolder, Holds
<1>5. ItemsFit' /\ OneItem' /\ Attended' /\ QueueFits'
  BY <1>1, <1>2 DEF ItemsFit, OneItem, Attended, QueueFits, InQueue
<1>6. RequestsFit'
  BY <1>1, <1>2 DEF JobInv, RequestsFit, Asking, InFlight, Active
<1>7. DownIsEmpty' /\ OneInFlight'
  BY <1>1 DEF DownIsEmpty, OneInFlight, InFlight, Active
<1> QED
  BY <1>1, <1>3, <1>4, <1>5, <1>6, <1>7 DEF JobInv

-----------------------------------------------------------------------------
(* Each step keeps the invariant, and is a step of JobLifecycle or leaves  *)
(* the statuses alone.                                                     *)
LEMMA StepFits ==
  ASSUME JobInv, [Next]_vars
  PROVE  JobInv' /\ [LifecycleNext]_lifecycleVars
<1>1. ASSUME NEW j \in Jobs, FindSucceeded(j) \/ RequestStep(j) \/ RequestCancel(j)
      PROVE  JobInv' /\ [LifecycleNext]_lifecycleVars
  <2>1. CASE Add(j)
    BY <2>1, AddFits DEF LifecycleNext
  <2>2. CASE Schedule(j)
    BY <2>2, ScheduleFits DEF Schedule, store, lifecycleVars
  <2>3. CASE RequestCancel(j)
    BY <2>3, NothingMoves DEF RequestCancel, store, queue, server, lifecycleVars
  <2>4. CASE \/ FindSucceeded(j) \/ FindInFlight(j) \/ CheckLimit(j) \/ AddConflicts(j)
             \/ Dispatch(j) \/ ResolveConflict(j) \/ ResolveByCache(j)
    <3>1. UNCHANGED lifecycleVars
      BY <2>4 DEF FindSucceeded, FindInFlight, CheckLimit, AddConflicts, Dispatch,
                  ResolveConflict, ResolveByCache, store, lifecycleVars
    <3> QED
      BY <2>4, <3>1, RequestFits
  <2> QED
    BY <1>1, <2>1, <2>2, <2>3, <2>4 DEF RequestStep
<1>2. ASSUME NEW w \in Workers, WorkerStep(w) \/ GiveUp(w)
      PROVE  JobInv' /\ [LifecycleNext]_lifecycleVars
  <2>1. JobInv'
    BY <1>2, DrainOneFits, EnqueueFits, RunStepFits, EndJobFits, GiveUpFits DEF WorkerStep
  <2>2. UNCHANGED lifecycleVars
    BY <1>2 DEF WorkerStep, DrainOne, Enqueue, LookUp, Start, Simulate, SimulateFails, Collect,
                Judge, EndJob, GiveUp, store, lifecycleVars
  <2> QED
    BY <2>1, <2>2
<1>3. CASE WriterStep
  <2>1. CASE Commit
    BY <2>1, CommitFits
  <2>2. CASE TakeWrite \/ WriteRaises
    <3>1. UNCHANGED lifecycleVars
      BY <2>2 DEF TakeWrite, WriteRaises, store, lifecycleVars
    <3> QED
      BY <2>2, <3>1, TakeWriteFits, WriteRaisesFits
  <2> QED
    BY <1>3, <2>1, <2>2 DEF WriterStep
<1>4. CASE BeginShutdown \/ NextPhase \/ AtRest \/ UNCHANGED vars
  <2>1. /\ UNCHANGED <<status, params, request, worker, pq, writes, writing>>
        /\ phase' # "down" \/ phase' = phase
    BY <1>4 DEF BeginShutdown, NextPhase, AtRest, vars, store, manager, queue
  <2> QED
    BY <2>1, NothingMoves DEF lifecycleVars
<1>5. CASE Crash \/ Exit
  <2>1. Down
    BY <1>5 DEF Crash, Exit
  <2> QED
    BY <2>1, DownFits DEF Down, store, lifecycleVars
<1>6. CASE CancelWrites
  BY <1>6, CancelWritesFits DEF CancelWrites, store, lifecycleVars
<1>7. CASE Boot
  BY <1>7, BootFits DEF LifecycleNext
<1> QED
  BY <1>1, <1>2, <1>3, <1>4, <1>5, <1>6, <1>7 DEF Next, ServerStep

(* In every reachable state the status of a job fits whoever works for it  *)
(* or has queued a write for it, and one worker at most holds a job.       *)
THEOREM JobInvHolds == Spec => []JobInv
<1>1. Init => JobInv
  BY InitFits
<1>2. JobInv /\ [Next]_vars => JobInv'
  BY StepFits
<1> QED
  BY <1>1, <1>2, PTL DEF Spec

(* A worker in run_job, behind its first write, has a job that is running, *)
(* one job in flight has its parameters, and one worker has this job: no   *)
(* work is done twice.                                                     *)
THEOREM WorkIsDoneOnce == Spec => []NoDuplicateWork
<1>1. JobInv => NoDuplicateWork
  <2> SUFFICES ASSUME JobInv, NEW v \in Workers, NEW w \in Workers, InRun(v), InRun(w),
                      SameParams(worker[v].job, worker[w].job)
               PROVE  v = w
    BY DEF NoDuplicateWork
  <2>1. ASSUME NEW u \in Workers, InRun(u)
        PROVE  /\ worker[u].job \in Jobs /\ Holds(worker[u], worker[u].job)
               /\ InFlight(worker[u].job)
    <3>1. WorkerFits(worker[u], status)
      BY DEF JobInv, WorkersFit
    <3>2. worker[u].pc # "idle" /\ Expected(worker[u].pc) = {"running"}
      BY <2>1 DEF InRun, Expected, LastPoints, LastWrites, EscapedWrites
    <3> QED
      BY <3>1, <3>2 DEF WorkerFits, Holds, InFlight, Active
  <2>2. worker[v].job = worker[w].job
    BY <2>1 DEF JobInv, OneInFlight
  <2> QED
    BY <2>1, <2>2 DEF JobInv, OneHolder
<1> QED
  BY <1>1, JobInvHolds, PTL

(* The job service, with its timeouts, failed writes, shutdowns and        *)
(* crashes, moves the statuses of jobs as JobLifecycle allows.             *)
THEOREM LifecycleIsKept == Spec => ImplementsLifecycle
<1>1. Init => LifecycleInit
  BY DEF Init, StoreInit
<1>2. JobInv /\ [Next]_vars => [LifecycleNext]_lifecycleVars
  BY StepFits
<1> QED
  BY <1>1, <1>2, JobInvHolds, PTL DEF Spec, ImplementsLifecycle, LifecycleSpec

-----------------------------------------------------------------------------
(***************************************************************************)
(* Types.                                                                  *)
(***************************************************************************)

(* Requests between the two halves of _schedule: the job is queued, and    *)
(* its call of _drain_one is still to come.                                *)
Dispatching == {j \in Jobs : request[j] = "dispatch"}

-----------------------------------------------------------------------------
(* Counts of records. *)

LEMMA BlankFacts ==
  /\ Nothing \in Counts /\ Blank \in [Cases -> Counts]
  /\ \A c \in Cases : Blank[c] = Nothing
  /\ \A n \in Counts : n = Nothing <=> n.failed + n.good <= 0
BY DEF Nothing, Blank, Counts

LEMMA PlusFacts ==
  ASSUME NEW m \in Counts, NEW n \in Counts
  PROVE  Plus(m, n) \in Counts /\ Plus(Nothing, n) = n
BY DEF Plus, Counts, Nothing

LEMMA TimesFacts ==
  ASSUME NEW k \in Nat, NEW n \in Counts
  PROVE  /\ Times(k, n) \in Counts /\ Times(k, Nothing) = Nothing
         /\ k = 1 => Times(k, n) = n
         /\ n # Nothing => Times(k, n).failed + Times(k, n).good >= k
<1>1. PICK f \in Nat, g \in Nat : n = [failed |-> f, good |-> g]
  BY DEF Counts
<1>2. k * f \in Nat /\ k * g \in Nat /\ k * 0 = 0 /\ (k = 1 => k * f = f /\ k * g = g)
  OBVIOUS
<1>3. Times(k, n) = [failed |-> k * f, good |-> k * g] /\ Times(k, Nothing) = Nothing
  BY <1>1, <1>2 DEF Times, Nothing
<1>4. ASSUME n # Nothing PROVE k * f + k * g >= k
  <2>1. f + g >= 1
    BY <1>1, <1>4 DEF Nothing
  <2>2. k * f + k * g = k * (f + g)
    OBVIOUS
  <2>3. k * (f + g) >= k
    BY <2>1
  <2> QED BY <2>2, <2>3
<1>5. Times(k, n) \in Counts
  BY <1>2, <1>3 DEF Counts
<1>6. k = 1 => Times(k, n) = n
  BY <1>1, <1>2, <1>3
<1> QED BY <1>3, <1>4, <1>5, <1>6

(* Results: as many as come out are at least as many as are computed,      *)
(* unless one may have no record.                                          *)
LEMMA YieldFacts ==
  ASSUME NEW k \in Nat, NEW n \in Yields(k)
  PROVE  n \in Nat /\ (k = 0 => n = 0) /\ (0 \notin RowsPerCase => n >= k)
<1>1. PICK g \in [1..k -> RowsPerCase] : n = SumOn(g, 1..k)
  BY DEF Yields
<1>2. IsFiniteSet(1..k) /\ \A i \in 1..k : g[i] \in Nat
  <2>1. IsFiniteSet(1..k)
    BY FS_Interval
  <2>2. RowsPerCase \subseteq Nat
    BY ServiceAssumption
  <2> QED BY <1>1, <2>1, <2>2
<1>3. n \in Nat
  BY <1>1, <1>2, SumNat
<1>4. k = 0 => n = 0
  <2>1. k = 0 => 1..k = {}
    OBVIOUS
  <2> QED BY <1>1, <2>1, SumEmpty
<1>5. ASSUME 0 \notin RowsPerCase PROVE n >= k
  <2>1. \A i \in 1..k : g[i] \in Nat /\ g[i] >= 1
    BY <1>2, <1>5
  <2>2. SumOn(g, 1..k) >= Cardinality(1..k)
    BY <1>2, <2>1, SumOfPositive
  <2>3. Cardinality(1..k) = k
    BY FS_Interval
  <2> QED BY <1>1, <2>2, <2>3
<1> QED BY <1>3, <1>4, <1>5

LEMMA OutcomeFacts ==
  ASSUME NEW m \in Nat, NEW n \in CaseOutcomes(m)
  PROVE  /\ n \in Counts /\ (m = 0 => n = Nothing)
         /\ n.failed + n.good >= m \/ 0 \in RowsPerCase
<1>f. PICK f \in 0..m : n \in {[failed |-> f, good |-> g] : g \in Yields(m - f)}
  BY DEF CaseOutcomes
<1>1. PICK g \in Yields(m - f) : n = [failed |-> f, good |-> g]
  BY <1>f
<1>2. m - f \in Nat /\ f \in Nat
  BY <1>1
<1>3. g \in Nat /\ (m - f = 0 => g = 0) /\ (0 \notin RowsPerCase => g >= m - f)
  BY <1>2, YieldFacts
<1> QED BY <1>1, <1>2, <1>3 DEF Counts, Nothing

-----------------------------------------------------------------------------
StoreTyped ==
    /\ params \in Submissions
    /\ records = [j \in Jobs |-> records[j]]
    /\ completed \in Seq(Jobs)
    /\ Succeeded \subseteq ToSet(completed)

(* No more calls of _drain_one, made or to come, than queued jobs. *)
QueueCovers ==
    /\ drains \in Nat /\ IsFiniteSet(Dispatching)
    /\ drains + Cardinality(Dispatching) <= Len(pq)

CallsTyped ==
    /\ worker \in [Workers -> Locals]
    /\ writes \in Seq(Items)
    /\ writing \in Items \cup {None}

RestTyped ==
    /\ request \in [Jobs -> Asking \cup Answers]
    /\ flag \in [Jobs -> {"none", "clear", "requested"}]
    /\ phase \in Phases /\ stops \in 0..MaxStops
    /\ abandoned \subseteq Jobs

TypeInv == StoreTyped /\ QueueCovers /\ CallsTyped /\ RestTyped

LEMMA TypeInit == Init => TypeInv
<1> SUFFICES ASSUME Init PROVE TypeInv
  OBVIOUS
<1>1. StoreTyped
  <2>1. Succeeded = {}
    BY DEF Init, StoreInit, LifecycleInit, Succeeded
  <2>2. completed = <<>> /\ completed \in Seq(Jobs)
    BY DEF Init, StoreInit
  <2> QED BY <2>1, <2>2 DEF Init, StoreInit, LifecycleInit, StoreTyped
<1>2. QueueCovers
  <2>1. Dispatching = {} /\ drains = 0 /\ pq = <<>>
    BY DEF Init, Dispatching
  <2> QED BY <2>1, FS_EmptySet DEF QueueCovers
<1>3. CallsTyped
  <2>1. Idle \in Locals
    BY BlankFacts DEF Idle, Locals, Stages
  <2>2. writes = <<>> /\ writes \in Seq(Items)
    BY DEF Init
  <2> QED BY <2>1, <2>2 DEF Init, CallsTyped
<1>4. RestTyped
  BY ServiceAssumption DEF Init, RestTyped, Asking, Phases
<1> QED BY <1>1, <1>2, <1>3, <1>4 DEF TypeInv

(* The last of some completed jobs is one of them. *)
LEMMA MostRecentIsOne ==
  ASSUME completed \in Seq(Jobs), NEW S \in SUBSET ToSet(completed), S # {}
  PROVE  MostRecent(S) \in S
<1> DEFINE I == {i \in DOMAIN completed : completed[i] \in S}
<1>1. DOMAIN completed = 1..Len(completed) /\ Len(completed) \in Nat
      /\ ToSet(completed) = {completed[i] : i \in 1..Len(completed)}
  BY QueueElements
<1>2. I \in SUBSET (0..Len(completed)) /\ I # {}
  BY <1>1
<1>3. Max(I) \in I
  <2> HIDE DEF I
  <2> QED BY <1>1, <1>2, MaxOf
<1> QED BY <1>3 DEF MostRecent

LEMMA ResumedTyped ==
  ASSUME NEW x \in Locals, NEW stage \in Stages
  PROVE  /\ Resumed(x, stage) \in Locals
         /\ Resumed(x, stage).pc = stage /\ Resumed(x, stage).job = x.job
BY BlankFacts DEF Resumed, Locals, Idle

(* Where a worker goes when a write is over. *)
LEMMA StagesAfter ==
  ASSUME NEW x \in Locals, x.pc \in WriteStages
  PROVE  /\ Resumed(x, AfterWrite(x.pc)) \in Locals
         /\ Resumed(x, AfterTimeout(x.pc)) \in Locals
         /\ Resumed(x, AfterRaise(x.pc)) \in Locals
BY AfterFacts, ResumedTyped

-----------------------------------------------------------------------------
LEMMA StoreStays ==
  ASSUME StoreTyped, UNCHANGED store
  PROVE  StoreTyped'
BY DEF StoreTyped, store, Succeeded

LEMMA RestIsTyped ==
  ASSUME JobInv, CallsTyped, RestTyped, [Next]_vars
  PROVE  RestTyped'
<1> USE DEF RestTyped
<1>1. ASSUME NEW j \in Jobs, FindSucceeded(j) \/ RequestStep(j) \/ RequestCancel(j)
      PROVE  RestTyped'
  <2>1. UNCHANGED <<server, abandoned>>
    BY <1>1 DEF RequestStep, FindSucceeded, FindInFlight, CheckLimit, Add, AddConflicts, Schedule,
         Dispatch, ResolveConflict, ResolveByCache, RequestCancel
  <2>2. \/ request' = request
        \/ \E stage \in Asking \cup Answers : request' = [request EXCEPT ![j] = stage]
    BY <1>1 DEF RequestStep, FindSucceeded, FindInFlight, CheckLimit, Add, AddConflicts, Schedule,
         Dispatch, ResolveConflict, ResolveByCache, RequestCancel, Proceed, Asking, Answers
  <2>3. flag' = flag \/ \E f \in {"clear", "requested"} : flag' = [flag EXCEPT ![j] = f]
    BY <1>1 DEF RequestStep, FindSucceeded, FindInFlight, CheckLimit, Add, AddConflicts, Schedule,
         Dispatch, ResolveConflict, ResolveByCache, RequestCancel, manager
  <2> QED BY <2>1, <2>2, <2>3 DEF server
<1>2. ASSUME NEW w \in Workers, WorkerStep(w) \/ GiveUp(w)
      PROVE  RestTyped'
  <2>1. UNCHANGED <<server, abandoned, request>>
    BY <1>2 DEF WorkerStep, DrainOne, Enqueue, LookUp, Start, Simulate, SimulateFails, Collect,
                Judge, EndJob, GiveUp
  <2>2. flag' = flag \/ \E j : flag' = [flag EXCEPT ![j] = "none"]
    BY <1>2 DEF WorkerStep, DrainOne, Enqueue, LookUp, Start, Simulate, SimulateFails, Collect,
                Judge, EndJob, GiveUp, manager
  <2> QED BY <2>1, <2>2 DEF server
<1>3. CASE WriterStep
  <2>1. UNCHANGED <<server, request, flag>>
    BY <1>3 DEF WriterStep, TakeWrite, Commit, WriteRaises, manager
  <2>2. abandoned' \subseteq Jobs
    <3>1. writing # None => writing.call.job \in Jobs
      BY DEF JobInv, ItemsFit, ItemFits, Slots, Slot
    <3> QED BY <1>3, <3>1 DEF WriterStep, TakeWrite, Commit, WriteRaises
  <2> QED BY <2>1, <2>2 DEF server
<1>4. CASE BeginShutdown \/ NextPhase \/ CancelWrites \/ Boot
  <2>1. UNCHANGED <<request, flag, abandoned>> /\ phase' \in Phases
    BY <1>4 DEF BeginShutdown, NextPhase, CancelWrites, Boot, manager, Phases
  <2>2. stops' \in 0..MaxStops
    BY <1>4, ServiceAssumption DEF BeginShutdown, NextPhase, CancelWrites, Boot
  <2> QED BY <2>1, <2>2
<1>5. CASE Exit \/ Crash
  <2>1. Down
    BY <1>5 DEF Exit, Crash
  <2>2. stops' \in 0..MaxStops
    BY <1>5, ServiceAssumption DEF Exit, Crash
  <2>3. request' \in [Jobs -> Asking \cup Answers] /\ phase' \in Phases
        /\ flag' \in [Jobs -> {"none", "clear", "requested"}] /\ abandoned' = abandoned
    BY <2>1 DEF Down, Answers, Phases
  <2> QED BY <2>2, <2>3
<1>6. CASE AtRest \/ UNCHANGED vars
  BY <1>6 DEF AtRest, vars
<1> QED BY <1>1, <1>2, <1>3, <1>4, <1>5, <1>6 DEF Next, ServerStep

(* One worker goes on. *)
LEMMA WorkerTyped ==
  ASSUME CallsTyped, NEW w \in Workers, NEW x \in Locals, worker' = [worker EXCEPT ![w] = x],
         UNCHANGED queue
  PROVE  CallsTyped'
BY DEF CallsTyped, queue

LEMMA GotoTyped ==
  ASSUME CallsTyped, NEW w \in Workers, NEW stage \in Stages, Goto(w, stage), UNCHANGED queue
  PROVE  CallsTyped'
<1>1. worker[w] \in Locals
  BY DEF CallsTyped
<1>2. worker' = [worker EXCEPT ![w] = Resumed(worker[w], stage)]
  BY DEF Goto
<1> QED BY <1>1, <1>2, ResumedTyped, WorkerTyped

LEMMA CachedTyped ==
  ASSUME StoreTyped, \A j \in Jobs : records[j] \in [Cases -> Counts], NEW c \in Cases
  PROVE  CachedRecords(c) \in Counts
<1> DEFINE sources == {j \in Succeeded : records[j][c] # Nothing}
<1>1. CASE sources # {}
  <2>1. sources \subseteq ToSet(completed) /\ sources \subseteq Jobs /\ completed \in Seq(Jobs)
    BY DEF StoreTyped, Succeeded
  <2>2. MostRecent(sources) \in Jobs
    <3> HIDE DEF sources
    <3> QED BY <1>1, <2>1, MostRecentIsOne
  <2>3. CachedRecords(c) = records[MostRecent(sources)][c]
    BY <1>1 DEF CachedRecords
  <2> HIDE DEF sources
  <2> QED BY <2>2, <2>3
<1>2. CASE sources = {}
  BY <1>2, BlankFacts DEF CachedRecords
<1> QED BY <1>1, <1>2

(* What the subprocess reports: nothing for a case that it skips. *)
LEMMA SimulateEffect ==
  ASSUME StoreTyped, NEW w \in Workers, Simulate(w), worker[w].job \in Jobs
  PROVE  \E rows \in [Cases -> Counts], skipped \in SUBSET Cases :
            /\ worker' = [worker EXCEPT ![w].pc = "collect", ![w].cached = skipped, ![w].rows = rows]
            /\ skipped = CasesOf(worker[w].job) \cap worker[w].cached
            /\ \A c \in Cases :
                  IF c \in skipped THEN rows[c] = Nothing
                  ELSE rows[c] \in CaseOutcomes(params[worker[w].job][c])
<1>1. PICK job \in Jobs : job = worker[w].job
  OBVIOUS
<1> DEFINE skipped == CasesOf(worker[w].job) \cap worker[w].cached
           runs    == [c \in Cases |-> IF c \in skipped THEN 0 ELSE params[worker[w].job][c]]
<1>2. PICK rows \in [Cases -> UNION {CaseOutcomes(runs[c]) : c \in Cases}] :
         /\ \A c \in Cases : rows[c] \in CaseOutcomes(runs[c])
         /\ worker' = [worker EXCEPT ![w].pc = "collect", ![w].cached = skipped, ![w].rows = rows]
  BY DEF Simulate
<1>3. skipped \in SUBSET Cases
  BY DEF CasesOf
<1>4. \A c \in Cases : runs[c] = (IF c \in skipped THEN 0 ELSE params[job][c]) /\ runs[c] \in Nat
  BY <1>1, StoreAssumption DEF StoreTyped
<1>5. PICK K : K = skipped
  OBVIOUS
<1> HIDE DEF skipped, runs
<1>6. \A c \in Cases : /\ rows[c] \in Counts
                      /\ IF c \in K THEN rows[c] = Nothing ELSE rows[c] \in CaseOutcomes(params[job][c])
  BY <1>2, <1>4, <1>5, OutcomeFacts
<1>7. rows \in [Cases -> Counts]
  BY <1>2, <1>6
<1>8. /\ worker' = [worker EXCEPT ![w].pc = "collect", ![w].cached = K, ![w].rows = rows]
      /\ K = CasesOf(worker[w].job) \cap worker[w].cached /\ K \in SUBSET Cases
  BY <1>2, <1>3, <1>5 DEF skipped
<1> QED BY <1>1, <1>6, <1>7, <1>8

LEMMA RunTyped ==
  ASSUME JobInv, StoreTyped, CallsTyped, \A j \in Jobs : records[j] \in [Cases -> Counts],
         NEW w \in Workers,
         \/ DrainOne(w) \/ LookUp(w) \/ Start(w) \/ Simulate(w) \/ SimulateFails(w)
         \/ Collect(w) \/ Judge(w) \/ EndJob(w)
  PROVE  CallsTyped'
<1>1. /\ worker[w] \in Locals /\ worker[w].job \in Jobs \cup {None}
      /\ worker[w].pc \in Stages \ {"idle"} => worker[w].job \in Jobs
  BY DEF CallsTyped, Locals, JobInv, WorkersFit, WorkerFits
<1>2. UNCHANGED queue
  BY DEF DrainOne, LookUp, Start, Simulate, SimulateFails, Collect, Judge, EndJob
<1>s. {"idle", "start", "clone", "fail", "progress", "collect", "cancel", "records", "succeed",
       "running"} \subseteq Stages
  BY DEF Stages, WriteStages
<1>3. CASE DrainOne(w)
  <2>1. Head(pq) \in Jobs
    BY <1>3 DEF DrainOne, JobInv, Shapes
  <2>2. [Idle EXCEPT !.pc = "running", !.job = Head(pq)] \in Locals
    BY <2>1, <1>s, BlankFacts DEF Idle, Locals
  <2> QED BY <1>2, <1>3, <2>2, WorkerTyped DEF DrainOne
<1>4. CASE LookUp(w)
  <2> DEFINE like == SucceededLike(worker[w].job)
  <2>1. CASE like = {}
    BY <1>2, <1>4, <1>s, <2>1, GotoTyped DEF LookUp
  <2>2. CASE like # {}
    <3>1. like \subseteq ToSet(completed) /\ like \subseteq Jobs /\ completed \in Seq(Jobs)
      BY DEF SucceededLike, StoreTyped, Succeeded
    <3>2. MostRecent(like) \in Jobs
      <4> HIDE DEF like
      <4> QED BY <2>2, <3>1, MostRecentIsOne
    <3>3. worker' = [worker EXCEPT ![w] = [worker[w] EXCEPT !.pc = "clone", !.source = MostRecent(like)]]
      BY <1>4, <2>2 DEF LookUp, CallsTyped
    <3>4. [worker[w] EXCEPT !.pc = "clone", !.source = MostRecent(like)] \in Locals
      <4> HIDE DEF like
      <4> QED BY <1>1, <1>s, <3>2 DEF Locals
    <3> QED BY <1>2, <3>3, <3>4, WorkerTyped
  <2> QED BY <2>1, <2>2
<1>5. CASE Start(w)
  <2>1. CASE worker' = [worker EXCEPT ![w].pc = "progress", ![w].cached = CachedCases]
    <3>1. CachedCases \in SUBSET Cases
      BY DEF CachedCases
    <3>2. worker' = [worker EXCEPT ![w] = [worker[w] EXCEPT !.pc = "progress", !.cached = CachedCases]]
      BY <2>1 DEF CallsTyped
    <3>3. [worker[w] EXCEPT !.pc = "progress", !.cached = CachedCases] \in Locals
      BY <1>1, <1>s, <3>1 DEF Locals
    <3> QED BY <1>2, <3>2, <3>3, WorkerTyped
  <2> QED BY <1>2, <1>5, <1>s, <2>1, GotoTyped DEF Start
<1>6. CASE Simulate(w)
  <2>1. PICK rows \in [Cases -> Counts], skipped \in SUBSET Cases :
           worker' = [worker EXCEPT ![w].pc = "collect", ![w].cached = skipped, ![w].rows = rows]
    <3>1. worker[w].job \in Jobs
      BY <1>1, <1>6 DEF Simulate, At, Stages
    <3> QED BY <1>6, <3>1, SimulateEffect
  <2>6. worker' = [worker EXCEPT ![w] = [worker[w] EXCEPT !.pc = "collect", !.cached = skipped, !.rows = rows]]
    BY <2>1 DEF CallsTyped
  <2>7. [worker[w] EXCEPT !.pc = "collect", !.cached = skipped, !.rows = rows] \in Locals
    BY <1>1, <1>s, <2>1 DEF Locals
  <2> QED BY <1>2, <2>6, <2>7, WorkerTyped
<1>7. CASE SimulateFails(w)
  <2>1. CASE worker' = [worker EXCEPT ![w].pc = "collect", ![w].cached = {}]
    <3>2. worker' = [worker EXCEPT ![w] = [worker[w] EXCEPT !.pc = "collect", !.cached = {}]]
      BY <2>1 DEF CallsTyped
    <3>3. [worker[w] EXCEPT !.pc = "collect", !.cached = {}] \in Locals
      BY <1>1, <1>s DEF Locals
    <3> QED BY <1>2, <3>2, <3>3, WorkerTyped
  <2> QED BY <1>2, <1>7, <1>s, <2>1, GotoTyped DEF SimulateFails
<1>8. CASE Collect(w)
  <2> DEFINE rows == AllRecords(w)
  <2>1. rows \in [Cases -> Counts]
    <3>j. worker[w].job \in Jobs
      BY <1>1, <1>8 DEF Collect, At, Stages
    <3>1. ASSUME NEW c \in Cases
          PROVE  CachedRecords(c) \in Counts /\ params[worker[w].job][c] \in Nat
      BY <3>j, CachedTyped, StoreAssumption DEF StoreTyped
    <3>2. worker[w].rows \in [Cases -> Counts]
      BY <1>1 DEF Locals
    <3>3. \A c \in Cases : Times(params[worker[w].job][c], CachedRecords(c)) \in Counts
      BY <3>1, TimesFacts
    <3> QED BY <3>2, <3>3 DEF AllRecords
  <2>2. CASE worker' = [worker EXCEPT ![w].pc = "records", ![w].rows = rows, ![w].cached = {}]
    <3> HIDE DEF rows
    <3>2. worker' = [worker EXCEPT ![w] = [worker[w] EXCEPT !.pc = "records", !.rows = rows, !.cached = {}]]
      BY <2>2 DEF CallsTyped
    <3>3. [worker[w] EXCEPT !.pc = "records", !.rows = rows, !.cached = {}] \in Locals
      BY <1>1, <1>s, <2>1 DEF Locals
    <3> QED BY <1>2, <3>2, <3>3, WorkerTyped
  <2> QED BY <1>2, <1>8, <1>s, <2>2, GotoTyped DEF Collect
<1>9. CASE Judge(w)
  <2>1. Verdict(w) \in Stages
    BY <1>s DEF Verdict
  <2> QED BY <1>2, <1>9, <2>1, GotoTyped DEF Judge
<1>10. CASE EndJob(w)
  <2>1. Idle \in Locals
    BY <1>s, BlankFacts DEF Idle, Locals
  <2> QED BY <1>2, <1>10, <2>1, WorkerTyped DEF EndJob
<1> QED BY <1>3, <1>4, <1>5, <1>6, <1>7, <1>8, <1>9, <1>10

LEMMA WritesTyped ==
  ASSUME JobInv, CallsTyped, NEW w \in Workers, Enqueue(w) \/ GiveUp(w)
  PROVE  CallsTyped'
<1>1. worker[w] \in Locals
  BY DEF CallsTyped
<1>2. worker[w].pc \in WriteStages
  BY DEF Enqueue, GiveUp, At, JobInv, WorkersFit, WorkerFits
<1>3. CASE Enqueue(w)
  <2>1. writing' = writing
    BY <1>3 DEF Enqueue
  <2>2. CASE Goto(w, AfterRaise(worker[w].pc)) /\ writes' = writes
    <3>1. AfterRaise(worker[w].pc) \in Stages
      BY <1>2, AfterFacts
    <3> QED BY <2>1, <2>2, <3>1, GotoTyped DEF queue
  <2>3. CASE /\ writes' = Append(writes, [waiter |-> w, call |-> worker[w]])
             /\ worker' = [worker EXCEPT ![w].sent = TRUE]
    <3>1. [waiter |-> w, call |-> worker[w]] \in Items
      BY <1>1 DEF Items
    <3>2. writes' \in Seq(Items)
      BY <2>3, <3>1 DEF CallsTyped
    <3>3. worker' \in [Workers -> Locals]
      BY <1>1, <2>3 DEF CallsTyped, Locals
    <3> QED BY <2>1, <3>2, <3>3 DEF CallsTyped
  <2> QED BY <1>3, <2>2, <2>3 DEF Enqueue
<1>4. CASE GiveUp(w)
  <2>1. worker' \in [Workers -> Locals]
    <3>1. worker' = [worker EXCEPT ![w] = Resumed(worker[w], AfterTimeout(worker[w].pc))]
      BY <1>4 DEF GiveUp
    <3> QED BY <1>1, <1>2, <3>1, StagesAfter DEF CallsTyped
  <2>2. ASSUME NEW x \in Items PROVE [x EXCEPT !.waiter = None] \in Items
    BY DEF Items
  <2>3. CASE /\ writing # None /\ writing' = [writing EXCEPT !.waiter = None]
             /\ writes' = writes
    BY <2>1, <2>2, <2>3 DEF CallsTyped
  <2>4. ASSUME NEW i \in DOMAIN writes, writing' = writing,
               \/ writes' = [writes EXCEPT ![i].waiter = None]
               \/ writes' = RemoveAt(writes, i)
        PROVE  CallsTyped'
    <3>1. writes \in Seq(Items) /\ i \in 1..Len(writes) /\ writes[i] \in Items
      BY <2>4 DEF CallsTyped
    <3>2. CASE writes' = RemoveAt(writes, i)
      BY <2>1, <2>4, <3>1, <3>2, RemoveAtFacts DEF CallsTyped
    <3>3. CASE writes' = [writes EXCEPT ![i].waiter = None]
      <4>1. writes' \in Seq(Items)
        BY <2>2, <3>1, <3>3
      <4> QED BY <2>1, <2>4, <4>1 DEF CallsTyped
    <3> QED BY <2>4, <3>2, <3>3
  <2> QED BY <1>4, <2>3, <2>4 DEF GiveUp
<1> QED BY <1>3, <1>4

LEMMA ResumeTyped ==
  ASSUME JobInv, CallsTyped, writing # None, NEW stage \in Stages, Resume(writing, stage),
         writing' = None, writes' = writes
  PROVE  CallsTyped'
<1>1. writing.waiter \in Workers \cup {None}
  BY DEF CallsTyped, Items
<1>2. worker' \in [Workers -> Locals]
  <2>1. CASE writing.waiter = None
    BY <2>1 DEF Resume, CallsTyped
  <2>2. CASE writing.waiter # None
    <3>1. PICK w \in Workers : w = writing.waiter
      BY <1>1, <2>2
    <3>2. worker[w] \in Locals /\ worker' = [worker EXCEPT ![w] = Resumed(worker[w], stage)]
      BY <2>2, <3>1 DEF Resume, CallsTyped
    <3> QED BY <3>2, ResumedTyped DEF CallsTyped
  <2> QED BY <2>1, <2>2
<1> QED BY <1>2 DEF CallsTyped

LEMMA CallsAreTyped ==
  ASSUME JobInv, StoreTyped, CallsTyped, \A j \in Jobs : records[j] \in [Cases -> Counts],
         [Next]_vars
  PROVE  CallsTyped'
<1>1. CASE UNCHANGED <<worker, queue>>
  BY <1>1 DEF CallsTyped, queue
<1>2. ASSUME NEW w \in Workers, WorkerStep(w) \/ GiveUp(w)
      PROVE  CallsTyped'
  BY <1>2, RunTyped, WritesTyped DEF WorkerStep
<1>3. CASE TakeWrite
  <2>1. writes \in Seq(Items) /\ writes # <<>>
    BY <1>3 DEF TakeWrite, CallsTyped
  <2>2. Head(writes) \in Items /\ Tail(writes) \in Seq(Items)
    BY <2>1
  <2> QED BY <1>3, <2>2 DEF TakeWrite, CallsTyped
<1>4. CASE Commit \/ WriteRaises
  <2>1. writing # None /\ writing' = None /\ writes' = writes
    BY <1>4 DEF Commit, WriteRaises
  <2>2. writing.call.pc \in WriteStages
    BY <2>1 DEF JobInv, ItemsFit, ItemFits, Slots, Slot
  <2>3. AfterWrite(writing.call.pc) \in Stages /\ AfterRaise(writing.call.pc) \in Stages
    BY <2>2, AfterFacts
  <2> QED BY <1>4, <2>1, <2>3, ResumeTyped DEF Commit, WriteRaises
<1>5. CASE CancelWrites
  <2> DEFINE waiting == {writes[i].waiter : i \in DOMAIN writes}
  <2>1. /\ writes' = <<>> /\ writing' = writing
        /\ worker' = [w \in Workers |->
              IF w \in waiting THEN Resumed(worker[w], AfterRaise(worker[w].pc)) ELSE worker[w]]
    BY <1>5 DEF CancelWrites
  <2>2. ASSUME NEW w \in Workers, w \in waiting
        PROVE  Resumed(worker[w], AfterRaise(worker[w].pc)) \in Locals
    <3>1. PICK i \in DOMAIN writes : w = writes[i].waiter
      BY <2>2
    <3>2. i \in Slots /\ Slot(i) = writes[i]
      BY DEF Slots, Slot, CallsTyped
    <3>3. worker[w].pc \in WriteStages
      BY <3>1, <3>2 DEF JobInv, ItemsFit, ItemFits, WorkersFit, WorkerFits
    <3> QED BY <3>3, StagesAfter DEF CallsTyped
  <2>3. \A w \in Workers : worker'[w] \in Locals
    <3> HIDE DEF waiting
    <3> QED BY <2>1, <2>2 DEF CallsTyped
  <2>4. worker' \in [Workers -> Locals]
    <3> HIDE DEF waiting
    <3> QED BY <2>1, <2>3
  <2>5. writes' \in Seq(Items)
    BY <2>1
  <2> QED BY <2>1, <2>4, <2>5 DEF CallsTyped
<1>6. CASE Exit \/ Crash
  <2>1. Idle \in Locals
    BY BlankFacts DEF Idle, Locals, Stages
  <2>2. worker' = [w \in Workers |-> Idle] /\ writes' = <<>> /\ writing' = None
    BY <1>6 DEF Exit, Crash, Down
  <2>3. writes' \in Seq(Items)
    BY <2>2
  <2> QED BY <2>1, <2>2, <2>3 DEF CallsTyped
<1>7. ASSUME NEW j \in Jobs, FindSucceeded(j) \/ RequestStep(j) \/ RequestCancel(j)
      PROVE  UNCHANGED <<worker, queue>>
  BY <1>7 DEF RequestStep, FindSucceeded, FindInFlight, CheckLimit, Add, AddConflicts, Schedule,
         Dispatch, ResolveConflict, ResolveByCache, RequestCancel
<1>8. CASE BeginShutdown \/ NextPhase \/ Boot \/ AtRest \/ UNCHANGED vars
  BY <1>1, <1>8 DEF BeginShutdown, NextPhase, Boot, AtRest, vars, queue
<1> QED BY <1>1, <1>2, <1>3, <1>4, <1>5, <1>6, <1>7, <1>8 DEF Next, ServerStep, WriterStep

(* Whatever is queued is dispatched once, or its caller gets an error. *)
LEMMA QueueStaysCovered ==
  ASSUME JobInv, QueueCovers, [Next]_vars
  PROVE  QueueCovers'
<1>1. CASE UNCHANGED <<request, drains, pq>>
  <2>1. Dispatching' = Dispatching
    BY <1>1 DEF Dispatching
  <2> QED BY <1>1, <2>1 DEF QueueCovers
<1>n. Len(pq) \in Nat /\ drains \in Nat /\ IsFiniteSet(Dispatching)
      /\ Cardinality(Dispatching) \in Nat
      /\ drains + Cardinality(Dispatching) <= Len(pq)
      /\ DOMAIN request = Jobs
  BY FS_CardinalityType DEF QueueCovers, JobInv, Shapes
<1>2. ASSUME NEW j \in Jobs, NEW stage, request' = [request EXCEPT ![j] = stage],
             request[j] # "dispatch", stage # "dispatch", UNCHANGED <<drains, pq>>
      PROVE  QueueCovers'
  <2>1. Dispatching' = Dispatching
    BY <1>n, <1>2 DEF Dispatching
  <2> QED BY <1>2, <2>1 DEF QueueCovers
<1>3. ASSUME NEW j \in Jobs, Schedule(j), phase = "up"
      PROVE  QueueCovers'
  <2>1. request[j] = "schedule" /\ request' = [request EXCEPT ![j] = "dispatch"]
        /\ drains' = drains /\ pq' = Append(pq, j)
    BY <1>3 DEF Schedule, Asks, Proceed
  <2>2. j \notin Dispatching /\ Dispatching' = Dispatching \cup {j}
    BY <1>n, <2>1 DEF Dispatching
  <2>3. IsFiniteSet(Dispatching') /\ Cardinality(Dispatching') = Cardinality(Dispatching) + 1
    BY <1>n, <2>2, FS_AddElement
  <2>4. Len(pq') = Len(pq) + 1
    BY <2>1 DEF JobInv, Shapes
  <2>5. drains' + Cardinality(Dispatching') <= Len(pq')
    BY <1>n, <2>1, <2>3, <2>4
  <2> QED BY <1>n, <2>1, <2>3, <2>5 DEF QueueCovers
<1>4. ASSUME NEW j \in Jobs, Dispatch(j)
      PROVE  QueueCovers'
  <2>1. request[j] = "dispatch" /\ pq' = pq
        /\ (drains' = drains + 1 \/ drains' = drains)
        /\ \E stage \in {"answered", "error"} : request' = [request EXCEPT ![j] = stage]
    BY <1>4 DEF Dispatch, Asks, Proceed
  <2>2. j \in Dispatching /\ Dispatching' = Dispatching \ {j}
    BY <1>n, <2>1 DEF Dispatching
  <2>3. IsFiniteSet(Dispatching') /\ Cardinality(Dispatching') = Cardinality(Dispatching) - 1
        /\ Cardinality(Dispatching') \in Nat
    BY <1>n, <2>2, FS_RemoveElement, FS_CardinalityType
  <2>4. drains' \in Nat /\ drains' + Cardinality(Dispatching') <= Len(pq')
    BY <1>n, <2>1, <2>3
  <2> QED BY <2>3, <2>4 DEF QueueCovers
<1>5. ASSUME NEW w \in Workers, DrainOne(w)
      PROVE  QueueCovers'
  <2>1. drains > 0 /\ pq # <<>> /\ drains' = drains - 1 /\ pq' = Tail(pq) /\ request' = request
    BY <1>5 DEF DrainOne
  <2>2. Dispatching' = Dispatching
    BY <2>1 DEF Dispatching
  <2>3. Len(pq') = Len(pq) - 1
    BY <2>1 DEF JobInv, Shapes
  <2>4. drains' \in Nat /\ drains' + Cardinality(Dispatching) <= Len(pq')
    BY <1>n, <2>1, <2>3
  <2> QED BY <1>n, <2>2, <2>4 DEF QueueCovers
<1>6. CASE Exit \/ Crash
  <2>1. Dispatching' = {} /\ drains' = 0 /\ pq' = <<>>
    BY <1>6 DEF Exit, Crash, Down, Dispatching, Asking
  <2> QED BY <2>1, FS_EmptySet DEF QueueCovers
<1>7. ASSUME NEW j \in Jobs, FindSucceeded(j) \/ RequestStep(j) \/ RequestCancel(j)
      PROVE  QueueCovers'
  <2>1. CASE \/ FindSucceeded(j) \/ FindInFlight(j) \/ CheckLimit(j) \/ Add(j) \/ AddConflicts(j)
             \/ ResolveConflict(j) \/ ResolveByCache(j)
             \/ (Schedule(j) /\ phase # "up")
    <3>1. UNCHANGED <<drains, pq>> /\ request[j] # "dispatch"
          /\ \E stage : stage # "dispatch" /\ request' = [request EXCEPT ![j] = stage]
      BY <2>1 DEF FindSucceeded, FindInFlight, CheckLimit, Add, AddConflicts, Schedule,
         ResolveConflict, ResolveByCache, Asks, Proceed, manager
    <3> QED BY <1>2, <3>1
  <2>2. CASE RequestCancel(j)
    BY <1>1, <2>2 DEF RequestCancel
  <2> QED BY <1>3, <1>4, <1>7, <2>1, <2>2 DEF RequestStep
<1>8. ASSUME NEW w \in Workers, WorkerStep(w) \/ GiveUp(w), ~ DrainOne(w)
      PROVE  UNCHANGED <<request, drains, pq>>
  BY <1>8 DEF WorkerStep, Enqueue, LookUp, Start, Simulate, SimulateFails, Collect,
                Judge, EndJob, GiveUp, manager
<1>9. CASE WriterStep \/ BeginShutdown \/ NextPhase \/ CancelWrites \/ Boot \/ AtRest \/ UNCHANGED vars
  BY <1>1, <1>9 DEF WriterStep, TakeWrite, Commit, WriteRaises, BeginShutdown, NextPhase, CancelWrites,
     Boot, AtRest, vars, manager
<1> QED BY <1>1, <1>5, <1>6, <1>7, <1>8, <1>9 DEF Next, ServerStep

(* A job that becomes succeeded is noted as completed. *)
LEMMA StoreIsTyped ==
  ASSUME JobInv, StoreTyped, [Next]_vars
  PROVE  StoreTyped'
<1>d. DOMAIN status = Jobs
  BY DEF JobInv, Shapes
<1>1. ASSUME NEW j \in Jobs, NEW s, SetStatus(j, s)
      PROVE  StoreTyped'
  <2>1. params' = params /\ records' = records
    BY <1>1 DEF SetStatus
  <2>2. Succeeded' \subseteq Succeeded \cup (IF s = "succeeded" THEN {j} ELSE {})
    BY <1>d, <1>1 DEF SetStatus, Succeeded
  <2>3. CASE s = "succeeded"
    <3>1. completed' = Append(completed, j)
      BY <1>1, <2>3 DEF SetStatus
    <3>2. completed' \in Seq(Jobs) /\ ToSet(completed') = ToSet(completed) \cup {j}
      BY <3>1, QueueAppend DEF StoreTyped
    <3> QED BY <2>1, <2>2, <2>3, <3>2 DEF StoreTyped
  <2>4. CASE s # "succeeded"
    BY <1>1, <2>1, <2>2, <2>4 DEF SetStatus, StoreTyped
  <2> QED BY <2>3, <2>4
<1>2. ASSUME NEW j \in Jobs, NEW rows, AddRecords(j, rows)
      PROVE  StoreTyped'
  BY <1>2 DEF AddRecords, StoreTyped, Succeeded
<1>3. CASE Commit
  <2>1. writing.call.job \in Jobs /\ Apply(writing.call)
    BY <1>3 DEF Commit, JobInv, ItemsFit, ItemFits, Slots, Slot
  <2>2. CASE \E s : SetStatus(writing.call.job, s)
    BY <1>1, <2>1, <2>2
  <2>3. CASE \E rows : AddRecords(writing.call.job, rows)
    BY <1>2, <2>1, <2>3
  <2> QED BY <2>1, <2>2, <2>3, StoreStays DEF Apply
<1>4. ASSUME NEW j \in Jobs, Add(j)
      PROVE  StoreTyped'
  <2>1. status' = [status EXCEPT ![j] = "pending"] /\ UNCHANGED <<params, records, completed>>
    BY <1>4 DEF Add, InsertJob
  <2>2. Succeeded' \subseteq Succeeded
    BY <1>d, <2>1 DEF Succeeded
  <2> QED BY <2>1, <2>2 DEF StoreTyped
<1>5. CASE Boot
  <2>1. UNCHANGED <<params, records, completed>> /\ Succeeded' \subseteq Succeeded
    BY <1>5 DEF Boot, SweepInterrupted, Sweep, Succeeded
  <2> QED BY <2>1 DEF StoreTyped
<1>6. CASE UNCHANGED store
  BY <1>6, StoreStays
<1>7. ASSUME NEW j \in Jobs, FindSucceeded(j) \/ RequestStep(j) \/ RequestCancel(j), ~ Add(j)
      PROVE  UNCHANGED store
  BY <1>7 DEF RequestStep, FindSucceeded, FindInFlight, CheckLimit, AddConflicts, Schedule,
         Dispatch, ResolveConflict, ResolveByCache, RequestCancel
<1>8. ASSUME NEW w \in Workers, WorkerStep(w) \/ GiveUp(w)
      PROVE  UNCHANGED store
  BY <1>8 DEF WorkerStep, DrainOne, Enqueue, LookUp, Start, Simulate, SimulateFails, Collect,
                Judge, EndJob, GiveUp
<1>9. CASE \/ TakeWrite \/ WriteRaises \/ BeginShutdown \/ NextPhase \/ CancelWrites
           \/ Exit \/ Crash \/ AtRest \/ UNCHANGED vars
  BY <1>6, <1>9 DEF TakeWrite, WriteRaises, BeginShutdown, NextPhase, CancelWrites, Exit, Crash,
     Down, AtRest, vars, store
<1> QED BY <1>3, <1>4, <1>5, <1>6, <1>7, <1>8, <1>9 DEF Next, ServerStep, WriterStep

-----------------------------------------------------------------------------
(***************************************************************************)
(* Result records.                                                         *)
(***************************************************************************)

Ended(j) == status[j] \in {"succeeded", "failed"}

(* What the subprocess has computed: nothing of a skipped case. *)
Computed(x) ==
    /\ x.cached \subseteq CasesOf(x.job)
    /\ \A c \in Cases : IF c \in x.cached THEN x.rows[c] = Nothing
                       ELSE x.rows[c] \in CaseOutcomes(params[x.job][c])

(* The rows to be stored, of the cases of the job only. *)
Collected(x) ==
    \A c \in Cases : IF c \in CasesOf(x.job) THEN Accounts(x.job, c, x.rows[c])
                    ELSE x.rows[c] = Nothing

Copies(x) ==
    /\ x.source \in Jobs /\ SameParams(x.job, x.source)
    /\ Ended(x.source) /\ HasAll(x.source) /\ AnyGood(records[x.source])

Early       == {"running", "lookup", "start", "progress", "simulate"}
Unwritten   == Early \cup {"collect", "records", "clone"}
Written     == {"logs", "judge", "succeed", "reuse"}

(* What a worker knows of the records at its stage, and a write it has queued. *)
CallReady(x) ==
    /\ x.pc \in Early => x.rows = Blank
    /\ x.pc \in {"progress", "simulate", "collect"} =>
          \A c \in x.cached : \E k \in Jobs : Ended(k) /\ records[k][c] # Nothing
    /\ x.pc = "collect" => (x.rows = Blank /\ x.cached = {}) \/ Computed(x)
    /\ x.pc = "records" => Collected(x)
    /\ x.pc = "clone" => Copies(x)
    /\ x.pc \in Written => HasAll(x.job)
    /\ x.pc \in {"logs", "judge"} => records[x.job] = x.rows
    /\ x.pc \in {"succeed", "reuse"} => AnyGood(records[x.job])

CallsReady ==
    /\ \A w \in Workers : CallReady(worker[w])
    /\ \A i \in Slots : CallReady(Slot(i).call)

(* A job has no records before its worker has written them. *)
Unrecorded ==
    /\ \A j \in Jobs : status[j] \in {"absent", "pending"} => records[j] = Blank
    /\ \A w \in Workers : worker[w].pc \in Unwritten => records[worker[w].job] = Blank

RecordsTyped == \A j \in Jobs : records[j] \in [Cases -> Counts]
CasesBelong == \A j \in Jobs : \A c \in Cases \ CasesOf(j) : records[j][c] = Nothing

RecordInv == RecordsTyped /\ CasesBelong /\ CallsReady /\ Unrecorded /\ SucceededIsComplete

ServiceInv == JobInv /\ TypeInv /\ RecordInv

-----------------------------------------------------------------------------
(* Ended jobs keep their records, and failed ones stay failed. *)
StoreGrows ==
    /\ params' = params
    /\ \A k \in Jobs : Ended(k) => Ended(k)' /\ records'[k] = records[k]
    /\ \A k \in Jobs : status[k] = "failed" => status'[k] = "failed"

LEMMA StoreGrowing == UNCHANGED store => StoreGrows
BY DEF store, StoreGrows, Ended

LEMMA WithdrawnStays ==
  ASSUME StoreGrows, NEW c, Withdrawn(c)
  PROVE  Withdrawn(c)'
<1>1. PICK k \in Jobs : status[k] = "failed" /\ records[k][c] # Nothing
  BY DEF Withdrawn
<1>2. status'[k] = "failed" /\ records'[k] = records[k]
  BY <1>1 DEF StoreGrows, Ended
<1> QED BY <1>1, <1>2 DEF Withdrawn

LEMMA AccountsStays ==
  ASSUME StoreGrows, NEW j, NEW c, NEW n, Accounts(j, c, n)
  PROVE  Accounts(j, c, n)'
<1>1. params' = params /\ (NeverRepeated(c)' <=> NeverRepeated(c))
  BY DEF StoreGrows, NeverRepeated
<1>2. CASE n = Nothing /\ Withdrawn(c)
  BY <1>2, WithdrawnStays DEF Accounts
<1>3. CASE /\ n.failed + n.good >= params[j][c] \/ 0 \in RowsPerCase
           /\ NeverRepeated(c) => n \in CaseOutcomes(1)
  BY <1>1, <1>3 DEF Accounts
<1> QED BY <1>2, <1>3 DEF Accounts

LEMMA HasAllStays ==
  ASSUME StoreGrows, NEW j \in Jobs, HasAll(j), records'[j] = records[j]
  PROVE  HasAll(j)'
<1>1. CasesOf(j)' = CasesOf(j)
  BY DEF CasesOf, StoreGrows
<1>2. ASSUME NEW c \in CasesOf(j) PROVE Accounts(j, c, records[j][c])'
  <2>1. PICK n : n = records[j][c]
    OBVIOUS
  <2>2. Accounts(j, c, n)'
    BY <2>1, AccountsStays DEF HasAll
  <2> QED BY <2>1, <2>2
<1> QED BY <1>1, <1>2 DEF HasAll

LEMMA CallStays ==
  ASSUME StoreGrows, NEW x, CallReady(x), x.pc # "idle" => x.job \in Jobs,
         x.pc \in Written => records'[x.job] = records[x.job]
  PROVE  CallReady(x)'
<1>p. params' = params
  BY DEF StoreGrows
<1>1. ASSUME NEW c, NEW k \in Jobs, Ended(k), records[k][c] # Nothing
      PROVE  Ended(k)' /\ records'[k][c] # Nothing
  BY <1>1 DEF StoreGrows
<1>2. ASSUME x.pc \in {"progress", "simulate", "collect"}
      PROVE  (\A c \in x.cached : \E k \in Jobs : Ended(k) /\ records[k][c] # Nothing)'
  BY <1>1, <1>2 DEF CallReady
<1>c. CasesOf(x.job)' = CasesOf(x.job)
  BY <1>p DEF CasesOf
<1>3. Computed(x) => Computed(x)'
  BY <1>p, <1>c DEF Computed
<1>4. Collected(x) => Collected(x)'
  BY <1>c, AccountsStays DEF Collected
<1>5. Copies(x) => Copies(x)'
  BY <1>p, HasAllStays DEF Copies, StoreGrows, SameParams, AnyGood
<1>6. x.pc \in Written => HasAll(x.job)'
  BY HasAllStays DEF CallReady, Written
<1>7. /\ x.pc \in {"logs", "judge"} => records'[x.job] = x.rows
      /\ x.pc \in {"succeed", "reuse"} => AnyGood(records'[x.job])
  BY DEF CallReady, Written
<1> QED BY <1>2, <1>3, <1>4, <1>5, <1>6, <1>7 DEF CallReady

(* Where nothing is known of the records. *)
Plain == {"idle", "fail", "cancel", "unexpected", "end"} \cup LastWrites

LEMMA PlainIsReady ==
  ASSUME NEW x, x.pc \in Plain
  PROVE  CallReady(x) /\ x.pc \notin Unwritten
BY DEF Plain, LastWrites, EscapedWrites, CallReady, Early, Unwritten, Written

LEMMA PlainAfter ==
  ASSUME NEW s \in WriteStages
  PROVE  AfterTimeout(s) \in Plain /\ AfterRaise(s) \in Plain
BY DEF WriteStages, LastWrites, EscapedWrites, AfterTimeout, AfterRaise, AfterFailure, Plain

-----------------------------------------------------------------------------
(* Steps that leave the tables alone. *)
ReadyAt(x) == CallReady(x) /\ (x.pc \in Unwritten => records[x.job] = Blank)

LEMMA ReadyStep ==
  ASSUME ServiceInv, UNCHANGED store,
         \A w \in Workers : \E x : x = worker'[w] /\ ReadyAt(x),
         \A i \in Slots' : \E x : x = Slot(i)'.call /\ CallReady(x)
  PROVE  RecordInv'
<1>1. UNCHANGED <<status, params, records, completed>>
  BY DEF store
<1>2. ASSUME NEW x PROVE CallReady(x)' <=> CallReady(x)
  BY <1>1 DEF CallReady, Ended, CasesOf, Computed, Collected, Withdrawn, Copies, SameParams,
     HasAll, Accounts, NeverRepeated
<1>3. RecordsTyped' /\ CasesBelong' /\ SucceededIsComplete'
  BY <1>1 DEF ServiceInv, RecordInv, RecordsTyped, CasesBelong, SucceededIsComplete, Succeeded,
     CasesOf, HasAll, Accounts, NeverRepeated, Withdrawn
<1>4. CallsReady'
  <2>1. ASSUME NEW w \in Workers PROVE CallReady(worker[w])'
    <3>1. PICK x : x = worker'[w] /\ CallReady(x)
      BY DEF ReadyAt
    <3>2. CallReady(x)'
      BY <1>2, <3>1
    <3> QED BY <3>1, <3>2
  <2>2. ASSUME NEW i \in Slots' PROVE CallReady(Slot(i).call)'
    <3>1. PICK x : x = Slot(i)'.call /\ CallReady(x)
      OBVIOUS
    <3>2. CallReady(x)'
      BY <1>2, <3>1
    <3> QED BY <3>1, <3>2
  <2> QED BY <2>1, <2>2 DEF CallsReady
<1>5. Unrecorded'
  BY <1>1 DEF ServiceInv, RecordInv, Unrecorded, ReadyAt
<1> QED BY <1>3, <1>4, <1>5 DEF RecordInv

LEMMA RecordInit == Init => RecordInv
<1> SUFFICES ASSUME Init PROVE RecordInv
  OBVIOUS
<1>1. \A j \in Jobs : records[j] = Blank /\ status[j] = "absent"
  BY DEF Init, StoreInit, LifecycleInit
<1>2. RecordsTyped /\ CasesBelong /\ SucceededIsComplete
  BY <1>1, BlankFacts DEF RecordsTyped, CasesBelong, SucceededIsComplete, Succeeded
<1>3. Slots = {} /\ \A w \in Workers : worker[w] = Idle
  BY DEF Init, Slots
<1>4. CallReady(Idle) /\ Idle.pc \notin Unwritten
  BY PlainIsReady DEF Idle, Plain
<1> QED BY <1>1, <1>2, <1>3, <1>4 DEF RecordInv, CallsReady, Unrecorded

(* Calls that are queued are calls that were queued, or stages of workers. *)
KnownCalls ==
    \A i \in Slots' : \/ \E k \in Slots : Slot(i)'.call = Slot(k).call
                      \/ \E v \in Workers : Slot(i)'.call = worker[v]

LEMMA KnownAreReady ==
  ASSUME ServiceInv, KnownCalls
  PROVE  \A i \in Slots' : \E x : x = Slot(i)'.call /\ CallReady(x)
BY DEF KnownCalls, ServiceInv, RecordInv, CallsReady

LEMMA OneReady ==
  ASSUME ServiceInv, UNCHANGED store, KnownCalls, NEW w \in Workers, NEW x,
         worker' = [worker EXCEPT ![w] = x], ReadyAt(x)
  PROVE  RecordInv'
<1>1. \A v \in Workers : ReadyAt(worker[v])
  BY DEF ServiceInv, RecordInv, CallsReady, Unrecorded, ReadyAt
<1>2. \A v \in Workers : worker'[v] = IF v = w THEN x ELSE worker[v]
  BY DEF ServiceInv, TypeInv, CallsTyped
<1>3. \A v \in Workers : \E y : y = worker'[v] /\ ReadyAt(y)
  BY <1>1, <1>2
<1> QED BY <1>3, KnownAreReady, ReadyStep

LEMMA SameCalls == UNCHANGED queue => KnownCalls
<1> SUFFICES ASSUME UNCHANGED queue PROVE KnownCalls
  OBVIOUS
<1>1. Slots' = Slots /\ \A i \in Slots : Slot(i)' = Slot(i)
  BY DEF queue, Slots, Slot
<1> QED BY <1>1 DEF KnownCalls

LEMMA GotoPlain ==
  ASSUME ServiceInv, UNCHANGED store, KnownCalls, NEW w \in Workers, NEW stage \in Plain,
         worker' = [worker EXCEPT ![w] = Resumed(@, stage)]
  PROVE  RecordInv'
<1> DEFINE x == Resumed(worker[w], stage)
<1>1. x.pc = stage
  BY ResumedShape DEF ServiceInv, TypeInv, CallsTyped, Locals
<1>2. worker' = [worker EXCEPT ![w] = x]
  OBVIOUS
<1>3. ReadyAt(x)
  <2> HIDE DEF x
  <2> QED BY <1>1, PlainIsReady DEF ReadyAt
<1> HIDE DEF x
<1> QED BY <1>2, <1>3, OneReady

LEMMA LookUpRecords ==
  ASSUME ServiceInv, NEW w \in Workers, LookUp(w)
  PROVE  RecordInv'
<1>1. /\ At(w, "lookup") /\ UNCHANGED <<store, queue>> /\ worker[w].pc = "lookup"
      /\ worker[w] \in Locals /\ worker[w].job \in Jobs
      /\ ReadyAt(worker[w])
  BY AtFacts DEF LookUp, At, ServiceInv, TypeInv, CallsTyped, RecordInv, CallsReady, Unrecorded, ReadyAt
<1> DEFINE like == SucceededLike(worker[w].job)
<1>2. CASE like = {}
  <2> DEFINE x == Resumed(worker[w], "start")
  <2>1. worker' = [worker EXCEPT ![w] = x]
    BY <1>2 DEF LookUp, Goto
  <2>2. x = [worker[w] EXCEPT !.pc = "start", !.sent = FALSE]
    BY DEF Resumed, LastWrites, EscapedWrites
  <2>3. ReadyAt(x)
    BY <1>1, <2>2 DEF ReadyAt, CallReady, Locals, Early, Unwritten, Written
  <2> HIDE DEF x
  <2> QED BY <1>1, <2>1, <2>3, OneReady, SameCalls
<1>3. CASE like # {}
  <2>1. PICK s : s = MostRecent(like)
    OBVIOUS
  <2>2. s \in like
    <3>1. like \subseteq ToSet(completed) /\ completed \in Seq(Jobs)
      BY DEF SucceededLike, ServiceInv, TypeInv, StoreTyped
    <3> HIDE DEF like
    <3> QED BY <1>3, <2>1, <3>1, MostRecentIsOne
  <2>3. s \in Succeeded /\ s \in Jobs /\ status[s] = "succeeded" /\ SameParams(worker[w].job, s)
    BY <2>2 DEF SucceededLike, Succeeded
  <2>4. HasAll(s) /\ AnyGood(records[s])
    BY <2>3 DEF ServiceInv, RecordInv, SucceededIsComplete
  <2> DEFINE x == [worker[w] EXCEPT !.pc = "clone", !.source = s]
  <2>5. worker' = [worker EXCEPT ![w] = x]
    BY <1>3, <2>1 DEF LookUp, ServiceInv, TypeInv, CallsTyped
  <2>6. x.pc = "clone" /\ x.job = worker[w].job /\ x.source = s
    BY <1>1 DEF Locals
  <2>7. ReadyAt(x)
    <3>1. Copies(x)
      BY <2>3, <2>4, <2>6 DEF Copies, Ended
    <3>2. records[x.job] = Blank
      BY <1>1, <2>6 DEF ReadyAt, Unwritten, Early
    <3> HIDE DEF x
    <3> QED BY <2>6, <3>1, <3>2 DEF ReadyAt, CallReady, Early, Written
  <2> HIDE DEF x
  <2> QED BY <1>1, <2>5, <2>7, OneReady, SameCalls
<1> QED BY <1>2, <1>3

LEMMA StartRecords ==
  ASSUME ServiceInv, NEW w \in Workers, Start(w)
  PROVE  RecordInv'
<1>1. /\ At(w, "start") /\ UNCHANGED <<store, queue>> /\ worker[w].pc = "start"
      /\ worker[w] \in Locals /\ worker[w].job \in Jobs
      /\ ReadyAt(worker[w])
  BY AtFacts DEF Start, At, ServiceInv, TypeInv, CallsTyped, RecordInv, CallsReady, Unrecorded, ReadyAt
<1>2. CASE Goto(w, "fail")
  BY <1>1, <1>2, GotoPlain, SameCalls DEF Goto, Plain
<1>3. CASE worker' = [worker EXCEPT ![w].pc = "progress", ![w].cached = CachedCases]
  <2> DEFINE x == [worker[w] EXCEPT !.pc = "progress", !.cached = CachedCases]
  <2>1. worker' = [worker EXCEPT ![w] = x]
    BY <1>3 DEF ServiceInv, TypeInv, CallsTyped
  <2>2. x.pc = "progress" /\ x.job = worker[w].job /\ x.rows = worker[w].rows /\ x.cached = CachedCases
    BY <1>1 DEF Locals
  <2>3. \A c \in CachedCases : \E k \in Jobs : Ended(k) /\ records[k][c] # Nothing
    BY DEF CachedCases, Succeeded, Ended
  <2>4. ReadyAt(x)
    <3>1. x.rows = Blank /\ records[x.job] = Blank
      BY <1>1, <2>2 DEF ReadyAt, CallReady, Early, Unwritten
    <3> HIDE DEF x
    <3> QED BY <2>2, <2>3, <3>1 DEF ReadyAt, CallReady, Written
  <2> HIDE DEF x
  <2> QED BY <1>1, <2>1, <2>4, OneReady, SameCalls
<1> QED BY <1>2, <1>3 DEF Start

LEMMA SimulateRecords ==
  ASSUME ServiceInv, NEW w \in Workers, Simulate(w) \/ SimulateFails(w)
  PROVE  RecordInv'
<1>1. /\ At(w, "simulate") /\ UNCHANGED <<store, queue>> /\ worker[w].pc = "simulate"
      /\ worker[w] \in Locals /\ worker[w].job \in Jobs
      /\ ReadyAt(worker[w])
  BY AtFacts DEF Simulate, SimulateFails, At, ServiceInv, TypeInv, CallsTyped, RecordInv, CallsReady,
     Unrecorded, ReadyAt
<1>2. CASE Goto(w, "fail")
  BY <1>1, <1>2, GotoPlain, SameCalls DEF Goto, Plain
<1>3. CASE worker' = [worker EXCEPT ![w].pc = "collect", ![w].cached = {}]
  <2> DEFINE x == [worker[w] EXCEPT !.pc = "collect", !.cached = {}]
  <2>1. worker' = [worker EXCEPT ![w] = x]
    BY <1>3 DEF ServiceInv, TypeInv, CallsTyped
  <2>2. x.pc = "collect" /\ x.job = worker[w].job /\ x.rows = worker[w].rows /\ x.cached = {}
    BY <1>1 DEF Locals
  <2>3. ReadyAt(x)
    <3>1. x.rows = Blank /\ records[x.job] = Blank
      BY <1>1, <2>2 DEF ReadyAt, CallReady, Early, Unwritten
    <3> HIDE DEF x
    <3> QED BY <2>2, <3>1 DEF ReadyAt, CallReady, Written, Early
  <2> HIDE DEF x
  <2> QED BY <1>1, <2>1, <2>3, OneReady, SameCalls
<1>4. CASE Simulate(w)
  <2>j. PICK job \in Jobs : job = worker[w].job
    BY <1>1
  <2>1. PICK rows \in [Cases -> Counts], K \in SUBSET Cases :
           /\ worker' = [worker EXCEPT ![w].pc = "collect", ![w].cached = K, ![w].rows = rows]
           /\ K = CasesOf(job) \cap worker[w].cached
           /\ \A c \in Cases : IF c \in K THEN rows[c] = Nothing
                              ELSE rows[c] \in CaseOutcomes(params[job][c])
    BY <1>1, <1>4, <2>j, SimulateEffect DEF ServiceInv, TypeInv
  <2> DEFINE x == [worker[w] EXCEPT !.pc = "collect", !.cached = K, !.rows = rows]
  <2>2. worker' = [worker EXCEPT ![w] = x]
    BY <2>1 DEF ServiceInv, TypeInv, CallsTyped
  <2>3. x.pc = "collect" /\ x.job = job /\ x.rows = rows /\ x.cached = K
    BY <1>1, <2>j DEF Locals
  <2>4. \A c \in K : \E k \in Jobs : Ended(k) /\ records[k][c] # Nothing
    BY <1>1, <2>1 DEF ReadyAt, CallReady
  <2>6. ReadyAt(x)
    <3>1. records[x.job] = Blank
      BY <1>1, <2>3, <2>j DEF ReadyAt, Early, Unwritten
    <3> HIDE DEF x
    <3>2. Computed(x)
      BY <2>1, <2>3 DEF Computed
    <3> QED BY <2>3, <2>4, <3>1, <3>2 DEF ReadyAt, CallReady, Written, Early
  <2> HIDE DEF x
  <2> QED BY <1>1, <2>2, <2>6, OneReady, SameCalls
<1> QED BY <1>2, <1>3, <1>4 DEF SimulateFails

(* A skipped case has records in the job it is copied from, or there are   *)
(* none to copy any more.                                                  *)
LEMMA CachedRecordsAre ==
  ASSUME ServiceInv, NEW c \in Cases, \E k \in Jobs : Ended(k) /\ records[k][c] # Nothing
  PROVE  /\ CachedRecords(c) \in Counts
         /\ \/ CachedRecords(c) # Nothing /\ (NeverRepeated(c) => CachedRecords(c) \in CaseOutcomes(1))
            \/ CachedRecords(c) = Nothing /\ Withdrawn(c)
<1> DEFINE sources == {j \in Succeeded : records[j][c] # Nothing}
<1>1. CASE sources = {}
  <2>1. CachedRecords(c) = Nothing
    BY <1>1 DEF CachedRecords
  <2>2. Withdrawn(c)
    BY <1>1 DEF Withdrawn, Ended, Succeeded
  <2> QED BY <2>1, <2>2, BlankFacts
<1>2. CASE sources # {}
  <2>1. PICK s : s = MostRecent(sources)
    OBVIOUS
  <2>2. s \in sources
    <3>1. sources \subseteq ToSet(completed) /\ completed \in Seq(Jobs)
      BY DEF ServiceInv, TypeInv, StoreTyped
    <3> HIDE DEF sources
    <3> QED BY <1>2, <2>1, <3>1, MostRecentIsOne
  <2>3. CachedRecords(c) = records[s][c]
    BY <1>2, <2>1 DEF CachedRecords
  <2>4. s \in Succeeded /\ s \in Jobs /\ records[s][c] # Nothing
    BY <2>2 DEF Succeeded
  <2>5. c \in CasesOf(s)
    BY <2>4 DEF ServiceInv, RecordInv, CasesBelong
  <2>6. Accounts(s, c, records[s][c])
    BY <2>4, <2>5 DEF ServiceInv, RecordInv, SucceededIsComplete, HasAll
  <2>7. records[s][c] \in Counts
    BY <2>4 DEF ServiceInv, RecordInv, RecordsTyped
  <2> QED BY <2>3, <2>4, <2>6, <2>7 DEF Accounts
<1> QED BY <1>1, <1>2

(* What the job gets of a case: computed, or copied. *)
LEMMA ComputedAccounts ==
  ASSUME ServiceInv, NEW j \in Jobs, NEW c \in CasesOf(j), NEW n \in CaseOutcomes(params[j][c])
  PROVE  Accounts(j, c, n)
<1>1. params[j][c] \in Nat /\ params[j][c] > 0 /\ (NeverRepeated(c) => params[j][c] = 1)
  BY StoreAssumption DEF CasesOf, NeverRepeated, ServiceInv, TypeInv, StoreTyped
<1>2. n.failed + n.good >= params[j][c] \/ 0 \in RowsPerCase
  BY <1>1, OutcomeFacts
<1> QED BY <1>1, <1>2 DEF Accounts

LEMMA CopiedAccounts ==
  ASSUME ServiceInv, NEW j \in Jobs, NEW c \in CasesOf(j),
         \E k \in Jobs : Ended(k) /\ records[k][c] # Nothing
  PROVE  Accounts(j, c, Times(params[j][c], CachedRecords(c)))
<1>1. c \in Cases /\ params[j][c] \in Nat /\ params[j][c] > 0
      /\ (NeverRepeated(c) => params[j][c] = 1)
  BY StoreAssumption DEF CasesOf, NeverRepeated, ServiceInv, TypeInv, StoreTyped
<1>2. PICK n : n = CachedRecords(c)
  OBVIOUS
<1>3. /\ n \in Counts
      /\ \/ n # Nothing /\ (NeverRepeated(c) => n \in CaseOutcomes(1))
         \/ n = Nothing /\ Withdrawn(c)
  BY <1>1, <1>2, CachedRecordsAre
<1>4. CASE n = Nothing /\ Withdrawn(c)
  <2>1. Times(params[j][c], n) = Nothing
    BY <1>1, <1>3, <1>4, TimesFacts
  <2> QED BY <1>2, <1>4, <2>1 DEF Accounts
<1>5. CASE n # Nothing /\ (NeverRepeated(c) => n \in CaseOutcomes(1))
  <2>1. PICK t : t = Times(params[j][c], n)
    OBVIOUS
  <2>2. t.failed + t.good >= params[j][c] /\ (params[j][c] = 1 => t = n)
    BY <1>1, <1>3, <1>5, <2>1, TimesFacts
  <2> QED BY <1>1, <1>2, <1>5, <2>1, <2>2 DEF Accounts
<1> QED BY <1>3, <1>4, <1>5

LEMMA CollectRecords ==
  ASSUME ServiceInv, NEW w \in Workers, Collect(w)
  PROVE  RecordInv'
<1>1. /\ At(w, "collect") /\ UNCHANGED <<store, queue>> /\ worker[w].pc = "collect"
      /\ worker[w] \in Locals /\ worker[w].job \in Jobs
      /\ ReadyAt(worker[w])
  BY AtFacts DEF Collect, At, ServiceInv, TypeInv, CallsTyped, RecordInv, CallsReady,
     Unrecorded, ReadyAt
<1>2. CASE \E stage \in {"cancel", "fail"} : Goto(w, stage)
  BY <1>1, <1>2, GotoPlain, SameCalls DEF Goto, Plain
<1>3. ASSUME NEW rows, rows = AllRecords(w), rows # Blank,
             worker' = [worker EXCEPT ![w].pc = "records", ![w].rows = rows, ![w].cached = {}]
      PROVE  RecordInv'
  <2>y. PICK y : y = worker[w]
    OBVIOUS
  <2>c. /\ y.pc = "collect" /\ y \in Locals /\ CallReady(y) /\ records[y.job] = Blank
        /\ y.job \in Jobs
    BY <1>1, <2>y DEF ReadyAt, Unwritten
  <2>r. rows = [c \in Cases |-> IF c \in y.cached THEN Times(params[y.job][c], CachedRecords(c))
                               ELSE y.rows[c]]
    BY <1>3, <2>y DEF AllRecords
  <2>1. Computed(y)
    <3>1. ~ (y.rows = Blank /\ y.cached = {})
      <4>1. SUFFICES ASSUME y.rows = Blank, y.cached = {} PROVE FALSE
        OBVIOUS
      <4>2. rows = Blank
        BY <2>r, <4>1 DEF Blank
      <4> QED BY <1>3, <4>2
    <3> QED BY <2>c, <3>1 DEF CallReady
  <2>2. ASSUME NEW c \in Cases
        PROVE  IF c \in CasesOf(y.job) THEN Accounts(y.job, c, rows[c]) ELSE rows[c] = Nothing
    <3>1. CASE c \in y.cached
      <4>1. c \in CasesOf(y.job) /\ rows[c] = Times(params[y.job][c], CachedRecords(c))
        BY <2>1, <2>r, <3>1 DEF Computed
      <4>2. \E k \in Jobs : Ended(k) /\ records[k][c] # Nothing
        BY <2>c, <3>1 DEF CallReady
      <4> QED BY <2>c, <4>1, <4>2, CopiedAccounts
    <3>2. CASE c \notin y.cached
      <4>1. rows[c] = y.rows[c] /\ rows[c] \in CaseOutcomes(params[y.job][c])
        BY <2>1, <2>r, <3>2 DEF Computed
      <4>2. CASE c \in CasesOf(y.job)
        BY <2>c, <4>1, <4>2, ComputedAccounts
      <4>3. CASE c \notin CasesOf(y.job)
        <5>1. params[y.job][c] = 0
          BY <2>c, <4>3, StoreAssumption DEF CasesOf, ServiceInv, TypeInv, StoreTyped
        <5> QED BY <4>1, <4>3, <5>1, OutcomeFacts
      <4> QED BY <4>2, <4>3
    <3> QED BY <3>1, <3>2
  <2> DEFINE x == [worker[w] EXCEPT !.pc = "records", !.rows = rows, !.cached = {}]
  <2>3. worker' = [worker EXCEPT ![w] = x]
    BY <1>3 DEF ServiceInv, TypeInv, CallsTyped
  <2>4. x.pc = "records" /\ x.job = y.job /\ x.rows = rows
    BY <1>1, <2>y DEF Locals
  <2>7. ReadyAt(x)
    <3> HIDE DEF x
    <3>1. Collected(x)
      BY <2>2, <2>4 DEF Collected
    <3> QED BY <2>4, <2>c, <3>1 DEF ReadyAt, CallReady, Written, Early
  <2> HIDE DEF x
  <2> QED BY <1>1, <2>3, <2>7, OneReady, SameCalls
<1> QED BY <1>2, <1>3 DEF Collect

LEMMA JudgeRecords ==
  ASSUME ServiceInv, NEW w \in Workers, Judge(w)
  PROVE  RecordInv'
<1>1. /\ At(w, "judge") /\ UNCHANGED <<store, queue>> /\ worker[w].pc = "judge"
      /\ worker[w] \in Locals /\ worker[w].job \in Jobs
      /\ ReadyAt(worker[w])
  BY AtFacts DEF Judge, At, ServiceInv, TypeInv, CallsTyped, RecordInv, CallsReady,
     Unrecorded, ReadyAt
<1>2. CASE \E stage \in {"cancel", "fail"} : Goto(w, stage)
  BY <1>1, <1>2, GotoPlain, SameCalls DEF Goto, Plain
<1>3. CASE Goto(w, "succeed")
  <2> DEFINE x == Resumed(worker[w], "succeed")
  <2>1. worker' = [worker EXCEPT ![w] = x]
    BY <1>3 DEF Goto
  <2>2. x.pc = "succeed" /\ x.job = worker[w].job
    <3>1. "succeed" \in Stages
      BY DEF Stages, WriteStages
    <3> QED BY <1>1, <3>1, ResumedTyped
  <2>3. HasAll(worker[w].job) /\ AnyGood(records[worker[w].job])
    <3>1. AnyGood(worker[w].rows)
      <4>1. Verdict(w) = "succeed"
        <5>1. "succeed" \in Stages /\ Verdict(w) \in Stages
          BY DEF Stages, WriteStages, Verdict
        <5>2. worker'[w].pc = "succeed"
          BY <1>1, <1>3, <5>1, ResumedTyped DEF Goto, ServiceInv, TypeInv, CallsTyped
        <5>3. worker'[w].pc = Verdict(w)
          BY <1>1, <5>1, ResumedTyped DEF Judge, Goto, ServiceInv, TypeInv, CallsTyped
        <5> QED BY <5>2, <5>3
      <4> QED BY <4>1 DEF Verdict
    <3> QED BY <1>1, <3>1 DEF ReadyAt, CallReady, Written
  <2>4. ReadyAt(x)
    <3> HIDE DEF x
    <3> QED BY <2>2, <2>3 DEF ReadyAt, CallReady, Written, Early, Unwritten
  <2> HIDE DEF x
  <2> QED BY <1>1, <2>1, <2>4, OneReady, SameCalls
<1>4. Verdict(w) \in {"fail", "cancel", "succeed"}
  BY DEF Verdict
<1> QED BY <1>2, <1>3, <1>4 DEF Judge

LEMMA TakeAndLeaveRecords ==
  ASSUME ServiceInv, NEW w \in Workers, DrainOne(w) \/ EndJob(w)
  PROVE  RecordInv'
<1>1. UNCHANGED <<store, queue>>
  BY DEF DrainOne, EndJob
<1>2. CASE EndJob(w)
  <2>1. ReadyAt(Idle)
    BY PlainIsReady DEF Idle, Plain, ReadyAt
  <2> QED BY <1>1, <1>2, <2>1, OneReady, SameCalls DEF EndJob
<1>3. CASE DrainOne(w)
  <2>1. PICK h \in Jobs : h = Head(pq) /\ status[h] = "pending"
    <3>1. pq # <<>> /\ pq \in Seq(Jobs)
      BY <1>3 DEF DrainOne, ServiceInv, JobInv, Shapes
    <3>2. Head(pq) \in Jobs /\ pq[1] = Head(pq) /\ 1 \in 1..Len(pq)
      BY <3>1
    <3>3. InQueue(Head(pq))
      BY <3>2 DEF InQueue
    <3>4. status[Head(pq)] = "pending"
      BY <3>2, <3>3 DEF ServiceInv, JobInv, QueueFits, Unowned
    <3> QED BY <3>2, <3>4
  <2> DEFINE x == [Idle EXCEPT !.pc = "running", !.job = h]
  <2>2. worker' = [worker EXCEPT ![w] = x]
    BY <1>3, <2>1 DEF DrainOne
  <2>3. x.pc = "running" /\ x.job = h /\ x.rows = Blank
    BY DEF Idle
  <2>4. ReadyAt(x)
    <3>1. records[h] = Blank
      BY <2>1 DEF ServiceInv, RecordInv, Unrecorded
    <3> HIDE DEF x
    <3> QED BY <2>3, <3>1 DEF ReadyAt, CallReady, Written, Early
  <2> HIDE DEF x
  <2> QED BY <1>1, <2>2, <2>4, OneReady, SameCalls
<1> QED BY <1>2, <1>3

LEMMA EnqueueRecords ==
  ASSUME ServiceInv, NEW w \in Workers, Enqueue(w)
  PROVE  RecordInv'
<1>1. UNCHANGED store /\ writing' = writing /\ worker[w].pc \in WriteStages
      /\ worker[w] \in Locals /\ ReadyAt(worker[w]) /\ writes \in Seq(Items)
  BY DEF Enqueue, At, ServiceInv, TypeInv, CallsTyped, RecordInv, CallsReady, Unrecorded, ReadyAt
<1>2. CASE Goto(w, AfterRaise(worker[w].pc)) /\ writes' = writes
  <2>1. KnownCalls
    BY <1>1, <1>2, SameCalls DEF queue
  <2>2. AfterRaise(worker[w].pc) \in Plain
    BY <1>1, PlainAfter
  <2> QED BY <1>1, <1>2, <2>1, <2>2, GotoPlain DEF Goto
<1>3. CASE /\ writes' = Append(writes, [waiter |-> w, call |-> worker[w]])
           /\ worker' = [worker EXCEPT ![w].sent = TRUE]
  <2>i. PICK item : item = [waiter |-> w, call |-> worker[w]]
    OBVIOUS
  <2>c. item.call = worker[w] /\ item \in Items
    BY <1>1, <2>i DEF Items
  <2>1. /\ Len(writes') = Len(writes) + 1 /\ Len(writes) \in Nat
        /\ \A i \in 1..Len(writes') : writes'[i] = IF i = Len(writes) + 1 THEN item ELSE writes[i]
    BY <1>1, <1>3, <2>c, <2>i
  <2>2. KnownCalls
    <3> SUFFICES ASSUME NEW i \in Slots'
                 PROVE  \/ \E k \in Slots : Slot(i)'.call = Slot(k).call
                        \/ \E v \in Workers : Slot(i)'.call = worker[v]
      BY DEF KnownCalls
    <3>1. CASE i = 0
      BY <1>1, <2>1, <3>1 DEF Slots, Slot
    <3>2. CASE i # 0 /\ i = Len(writes) + 1
      BY <2>1, <2>c, <3>2 DEF Slots, Slot
    <3>3. CASE i # 0 /\ i # Len(writes) + 1
      BY <2>1, <3>3 DEF Slots, Slot
    <3> QED BY <3>1, <3>2, <3>3
  <2> DEFINE x == [worker[w] EXCEPT !.sent = TRUE]
  <2>3. worker' = [worker EXCEPT ![w] = x]
    BY <1>3 DEF ServiceInv, TypeInv, CallsTyped
  <2>y. PICK y : y = worker[w]
    OBVIOUS
  <2>4. x.pc = y.pc /\ x.job = y.job /\ x.rows = y.rows /\ x.cached = y.cached /\ x.source = y.source
    BY <1>1, <2>y DEF Locals
  <2>5. ReadyAt(x)
    <3>1. ReadyAt(y)
      BY <1>1, <2>y
    <3> HIDE DEF x
    <3> QED BY <2>4, <3>1 DEF ReadyAt, CallReady, Computed, Collected, Copies
  <2> HIDE DEF x
  <2> QED BY <1>1, <2>2, <2>3, <2>5, OneReady
<1> QED BY <1>2, <1>3 DEF Enqueue

LEMMA GiveUpRecords ==
  ASSUME ServiceInv, NEW w \in Workers, GiveUp(w)
  PROVE  RecordInv'
<1>1. UNCHANGED store /\ worker[w].pc \in WriteStages /\ writes \in Seq(Items)
      /\ writing \in Items \cup {None}
  BY DEF GiveUp, ServiceInv, TypeInv, CallsTyped, JobInv, WorkersFit, WorkerFits
<1>2. AfterTimeout(worker[w].pc) \in Plain
  BY <1>1, PlainAfter
<1>3. KnownCalls
  <2>1. ASSUME NEW x \in Items PROVE [x EXCEPT !.waiter = None].call = x.call
    BY DEF Items
  <2>2. CASE writing # None /\ writing' = [writing EXCEPT !.waiter = None] /\ writes' = writes
    <3>1. writing'.call = writing.call
      BY <1>1, <2>1, <2>2
    <3>2. \A i \in Slots' : i \in Slots /\ Slot(i)'.call = Slot(i).call
      BY <2>2, <3>1 DEF Slots, Slot
    <3> QED BY <3>2 DEF KnownCalls
  <2>3. ASSUME NEW i \in DOMAIN writes, writing' = writing,
               writes' = [writes EXCEPT ![i].waiter = None]
        PROVE  KnownCalls
    <3>1. writes[i] \in Items /\ Len(writes') = Len(writes)
      BY <1>1, <2>3
    <3>2. \A k \in 1..Len(writes') : writes'[k].call = writes[k].call
      BY <1>1, <2>1, <2>3, <3>1
    <3>3. \A k \in Slots' : k \in Slots /\ Slot(k)'.call = Slot(k).call
      BY <2>3, <3>1, <3>2 DEF Slots, Slot
    <3> QED BY <3>3 DEF KnownCalls
  <2>4. ASSUME NEW i \in DOMAIN writes, writing' = writing, writes' = RemoveAt(writes, i)
        PROVE  KnownCalls
    <3> DEFINE f(k) == IF k < i THEN k ELSE k + 1
    <3>1. /\ i \in 1..Len(writes) /\ Len(writes') = Len(writes) - 1 /\ Len(writes) \in Nat
          /\ \A k \in 1..Len(writes) - 1 : writes'[k] = writes[f(k)]
      <4>1. i \in 1..Len(writes) /\ Len(writes) \in Nat
        BY <1>1, <2>4
      <4>2. /\ Len(RemoveAt(writes, i)) = Len(writes) - 1
            /\ \A k \in 1..(Len(writes) - 1) :
                  RemoveAt(writes, i)[k] = IF k < i THEN writes[k] ELSE writes[k + 1]
        BY <1>1, <4>1, RemoveAtFacts
      <4> QED BY <2>4, <4>1, <4>2
    <3>2. \A k \in 1..Len(writes') : f(k) \in 1..Len(writes) /\ k # 0 /\ f(k) # 0 /\ writes'[k] = writes[f(k)]
      BY <3>1
    <3> HIDE DEF f
    <3>3. ASSUME NEW k \in Slots' PROVE \E l \in Slots : Slot(k)'.call = Slot(l).call
      <4>1. CASE k = 0
        BY <2>4, <3>2, <4>1 DEF Slots, Slot
      <4>2. CASE k # 0
        BY <3>2, <4>2 DEF Slots, Slot
      <4> QED BY <4>1, <4>2
    <3> QED BY <3>3 DEF KnownCalls
  <2> QED BY <2>2, <2>3, <2>4 DEF GiveUp
<1> QED BY <1>1, <1>2, <1>3, GotoPlain DEF GiveUp

-----------------------------------------------------------------------------
(* Writes leave the queue, and their waiters go on. *)
LEMMA WaitersAre ==
  ASSUME JobInv, NEW i \in Slots, NEW w \in Workers, Slot(i).waiter = w
  PROVE  /\ worker[w].sent /\ worker[w].pc = Slot(i).call.pc /\ worker[w].job = Slot(i).call.job
         /\ worker[w].rows = Slot(i).call.rows
         /\ worker[w].pc \in WriteStages
BY DEF JobInv, ItemsFit, ItemFits

LEMMA PlainAgain ==
  ASSUME NEW x \in Locals, NEW stage \in Plain
  PROVE  ReadyAt(Resumed(x, stage))
<1>1. Resumed(x, stage).pc = stage
  <2>1. stage \in Stages
    BY DEF Plain, Stages, WriteStages
  <2> QED BY <2>1, ResumedTyped
<1>2. PICK y : y = Resumed(x, stage)
  OBVIOUS
<1>3. ReadyAt(y)
  BY <1>1, <1>2, PlainIsReady DEF ReadyAt
<1> QED BY <1>2, <1>3

LEMMA TakeWriteRecords ==
  ASSUME ServiceInv, TakeWrite
  PROVE  RecordInv'
<1>1. /\ writing = None /\ writes # <<>> /\ writing' = Head(writes) /\ writes' = Tail(writes)
      /\ worker' = worker /\ UNCHANGED store /\ writes \in Seq(Items)
  BY DEF TakeWrite, ServiceInv, TypeInv, CallsTyped
<1>2. \A i \in Slots' : i + 1 \in Slots /\ Slot(i)' = Slot(i + 1)
  BY <1>1 DEF Slots, Slot
<1>3. KnownCalls
  BY <1>2 DEF KnownCalls
<1>4. \A w \in Workers : ReadyAt(worker[w])
  BY DEF ServiceInv, RecordInv, CallsReady, Unrecorded, ReadyAt
<1>5. \A w \in Workers : \E x : x = worker'[w] /\ ReadyAt(x)
  BY <1>1, <1>4
<1> QED BY <1>1, <1>3, <1>5, KnownAreReady, ReadyStep

LEMMA CancelWritesRecords ==
  ASSUME ServiceInv, CancelWrites
  PROVE  RecordInv'
<1> DEFINE waiting == {writes[i].waiter : i \in DOMAIN writes}
<1>1. /\ writes' = <<>> /\ writing' = writing /\ UNCHANGED store
      /\ worker' = [w \in Workers |->
            IF w \in waiting THEN Resumed(worker[w], AfterRaise(worker[w].pc)) ELSE worker[w]]
  BY DEF CancelWrites
<1>2. KnownCalls
  <2>1. \A i \in Slots' : i = 0 /\ writing # None
    BY <1>1 DEF Slots
  <2> QED BY <1>1, <2>1 DEF KnownCalls, Slots, Slot
<1>3. ASSUME NEW w \in Workers, w \in waiting
      PROVE  ReadyAt(Resumed(worker[w], AfterRaise(worker[w].pc)))
  <2>1. PICK i \in DOMAIN writes : w = writes[i].waiter
    BY <1>3
  <2>2. i \in Slots /\ Slot(i) = writes[i]
    BY DEF Slots, Slot, ServiceInv, TypeInv, CallsTyped
  <2>3. worker[w].pc \in WriteStages
    BY <2>1, <2>2, WaitersAre DEF ServiceInv
  <2>4. AfterRaise(worker[w].pc) \in Plain /\ worker[w] \in Locals
    BY <2>3, PlainAfter DEF ServiceInv, TypeInv, CallsTyped
  <2> QED BY <2>4, PlainAgain
<1>4. ASSUME NEW w \in Workers PROVE ReadyAt(worker[w])
  BY DEF ServiceInv, RecordInv, CallsReady, Unrecorded, ReadyAt
<1>5. \A w \in Workers : \E x : x = worker'[w] /\ ReadyAt(x)
  <2> HIDE DEF waiting
  <2> QED BY <1>1, <1>3, <1>4
<1> QED BY <1>1, <1>2, <1>5, KnownAreReady, ReadyStep

(* What the writer thread has executed is gone from the queue, and whoever *)
(* waited for it goes on.                                                  *)
LEMMA ResumedWorkers ==
  ASSUME ServiceInv, writing # None, writing' = None, writes' = writes, NEW stage,
         Resume(writing, stage)
  PROVE  /\ 0 \in Slots /\ Slot(0) = writing
         /\ writing.call \in Locals /\ writing.call.pc \in WriteStages
         /\ writing.call.job \in Jobs /\ CallReady(writing.call)
         /\ status[writing.call.job] \in Expected(writing.call.pc)
         /\ \A i \in Slots' : i \in Slots /\ i # 0 /\ Slot(i)' = Slot(i)
         /\ \A w \in Workers :
              worker'[w] = IF w = writing.waiter THEN Resumed(worker[w], stage) ELSE worker[w]
<1>1. 0 \in Slots /\ Slot(0) = writing
  BY DEF Slots, Slot
<1>2. /\ writing.call \in Locals /\ writing.call.pc \in WriteStages
      /\ writing.call.job \in Jobs /\ CallReady(writing.call)
      /\ status[writing.call.job] \in Expected(writing.call.pc)
      /\ writing.waiter \in Workers \cup {None}
  <2>1. ItemFits(writing, status, worker)
    BY <1>1 DEF ServiceInv, JobInv, ItemsFit
  <2>2. CallReady(writing.call)
    BY <1>1 DEF ServiceInv, RecordInv, CallsReady
  <2>3. writing \in Items
    BY DEF ServiceInv, TypeInv, CallsTyped
  <2> QED BY <2>1, <2>2, <2>3 DEF ItemFits, Items
<1>3. \A i \in Slots' : i \in Slots /\ i # 0 /\ Slot(i)' = Slot(i)
  <2>1. writes \in Seq(Items)
    BY DEF ServiceInv, TypeInv, CallsTyped
  <2> QED BY <2>1 DEF Slots, Slot
<1>4. \A w \in Workers :
         worker'[w] = IF w = writing.waiter THEN Resumed(worker[w], stage) ELSE worker[w]
  BY <1>2, ServiceAssumption DEF Resume, ServiceInv, TypeInv, CallsTyped
<1> QED BY <1>1, <1>2, <1>3, <1>4

LEMMA WriteRaisesRecords ==
  ASSUME ServiceInv, WriteRaises
  PROVE  RecordInv'
<1> DEFINE stage == AfterRaise(writing.call.pc)
<1>1. /\ writing # None /\ writing' = None /\ writes' = writes /\ UNCHANGED store
      /\ Resume(writing, stage)
  BY DEF WriteRaises
<1>2. /\ 0 \in Slots /\ Slot(0) = writing /\ writing.call.pc \in WriteStages
      /\ \A i \in Slots' : i \in Slots /\ i # 0 /\ Slot(i)' = Slot(i)
      /\ \A w \in Workers :
            worker'[w] = IF w = writing.waiter THEN Resumed(worker[w], stage) ELSE worker[w]
  <2> HIDE DEF stage
  <2> QED BY <1>1, ResumedWorkers
<1>3. KnownCalls
  BY <1>2 DEF KnownCalls
<1>4. ASSUME NEW w \in Workers PROVE ReadyAt(worker[w]) /\ ReadyAt(Resumed(worker[w], stage))
  <2>1. stage \in Plain /\ worker[w] \in Locals
    BY <1>2, PlainAfter DEF ServiceInv, TypeInv, CallsTyped
  <2>2. ReadyAt(worker[w])
    BY DEF ServiceInv, RecordInv, CallsReady, Unrecorded, ReadyAt
  <2> HIDE DEF stage
  <2> QED BY <2>1, <2>2, PlainAgain
<1>5. \A w \in Workers : \E x : x = worker'[w] /\ ReadyAt(x)
  <2> HIDE DEF stage
  <2> QED BY <1>2, <1>4
<1> QED BY <1>1, <1>3, <1>5, KnownAreReady, ReadyStep

LEMMA DownRecords ==
  ASSUME ServiceInv, Down
  PROVE  RecordInv'
<1>1. /\ Slots' = {} /\ UNCHANGED store /\ \A w \in Workers : worker'[w] = Idle
  BY DEF Down, Slots
<1>2. ReadyAt(Idle)
  BY PlainIsReady DEF Idle, Plain, ReadyAt
<1> QED BY <1>1, <1>2, ReadyStep

LEMMA NoRecords ==
  ASSUME ServiceInv, UNCHANGED <<store, worker, queue>>
  PROVE  RecordInv'
<1>1. \A w \in Workers : ReadyAt(worker[w])
  BY DEF ServiceInv, RecordInv, CallsReady, Unrecorded, ReadyAt
<1>2. \A w \in Workers : \E x : x = worker'[w] /\ ReadyAt(x)
  BY <1>1
<1> QED BY <1>2, SameCalls, KnownAreReady, ReadyStep

-----------------------------------------------------------------------------
(* Steps that change the tables. *)

LEMMA GrowthStep ==
  ASSUME ServiceInv, StoreGrows, RecordsTyped', CasesBelong',
         \A w \in Workers : \E x : /\ x = worker'[w] /\ CallReady(x)'
                                   /\ x.pc \in Unwritten => records'[x.job] = Blank,
         \A i \in Slots' : \E x : x = Slot(i)'.call /\ CallReady(x)',
         \A j \in Jobs : status'[j] \in {"absent", "pending"} =>
              status[j] \in {"absent", "pending"} /\ records'[j] = records[j],
         \A j \in Jobs : status'[j] = "succeeded" => status[j] = "succeeded" \/ (HasAll(j) /\ AnyGood(records[j]))'
  PROVE  RecordInv'
<1>1. CallsReady'
  <2>1. ASSUME NEW w \in Workers PROVE CallReady(worker[w])'
    <3>1. PICK x : x = worker'[w] /\ CallReady(x)'
      OBVIOUS
    <3> QED BY <3>1
  <2>2. ASSUME NEW i \in Slots' PROVE CallReady(Slot(i).call)'
    <3>1. PICK x : x = Slot(i)'.call /\ CallReady(x)'
      OBVIOUS
    <3> QED BY <3>1
  <2> QED BY <2>1, <2>2 DEF CallsReady
<1>2. Unrecorded'
  BY DEF ServiceInv, RecordInv, Unrecorded
<1>3. SucceededIsComplete'
  <2>1. ASSUME NEW j \in Jobs, status'[j] = "succeeded"
        PROVE  HasAll(j)' /\ AnyGood(records'[j])
    <3>1. CASE status[j] = "succeeded"
      <4>1. HasAll(j) /\ AnyGood(records[j])
        BY <3>1 DEF ServiceInv, RecordInv, SucceededIsComplete, Succeeded
      <4>2. records'[j] = records[j]
        BY <3>1 DEF StoreGrows, Ended
      <4> QED BY <4>1, <4>2, HasAllStays
    <3> QED BY <2>1, <3>1
  <2> QED BY <2>1 DEF SucceededIsComplete, Succeeded
<1> QED BY <1>1, <1>2, <1>3 DEF RecordInv

LEMMA KnownJobs ==
  ASSUME ServiceInv
  PROVE  /\ \A w \in Workers : worker[w].pc # "idle" => worker[w].job \in Jobs
         /\ \A i \in Slots : Slot(i).call.job \in Jobs
BY DEF ServiceInv, JobInv, WorkersFit, WorkerFits, ItemsFit, ItemFits

(* No records are written. *)
LEMMA StatusStep ==
  ASSUME ServiceInv, StoreGrows, records' = records, KnownCalls,
         \A w \in Workers : \E x : x = worker'[w] /\ ReadyAt(x) /\ (x.pc # "idle" => x.job \in Jobs),
         \A j \in Jobs : status'[j] \in {"absent", "pending"} => status[j] \in {"absent", "pending"},
         \A j \in Jobs : status'[j] = "succeeded" => status[j] = "succeeded" \/ (HasAll(j) /\ AnyGood(records[j]))
  PROVE  RecordInv'
<1>1. RecordsTyped' /\ CasesBelong'
  BY DEF ServiceInv, RecordInv, RecordsTyped, CasesBelong, CasesOf, StoreGrows
<1>2. ASSUME NEW w \in Workers
      PROVE  \E x : /\ x = worker'[w] /\ CallReady(x)'
                    /\ x.pc \in Unwritten => records'[x.job] = Blank
  <2>1. PICK x : x = worker'[w] /\ ReadyAt(x) /\ (x.pc # "idle" => x.job \in Jobs)
    OBVIOUS
  <2>2. CallReady(x)'
    BY <2>1, CallStays DEF ReadyAt
  <2> QED BY <2>1, <2>2 DEF ReadyAt
<1>3. ASSUME NEW i \in Slots'
      PROVE  \E x : x = Slot(i)'.call /\ CallReady(x)'
  <2>1. PICK x : x = Slot(i)'.call /\ CallReady(x) /\ (x.pc # "idle" => x.job \in Jobs)
    <3>1. CASE \E k \in Slots : Slot(i)'.call = Slot(k).call
      BY <3>1, KnownJobs DEF ServiceInv, RecordInv, CallsReady
    <3>2. CASE \E v \in Workers : Slot(i)'.call = worker[v]
      BY <3>2, KnownJobs DEF ServiceInv, RecordInv, CallsReady
    <3> QED BY <3>1, <3>2 DEF KnownCalls
  <2>2. CallReady(x)'
    BY <2>1, CallStays
  <2> QED BY <2>1, <2>2
<1>4. \A j \in Jobs : HasAll(j) /\ AnyGood(records[j]) => (HasAll(j) /\ AnyGood(records[j]))'
  BY HasAllStays
<1> QED BY <1>1, <1>2, <1>3, <1>4, GrowthStep

-----------------------------------------------------------------------------
LEMMA WorkersKnow ==
  ASSUME ServiceInv, NEW w \in Workers
  PROVE  ReadyAt(worker[w]) /\ worker[w] \in Locals /\ (worker[w].pc # "idle" => worker[w].job \in Jobs)
BY KnownJobs DEF ServiceInv, TypeInv, CallsTyped, RecordInv, CallsReady, Unrecorded, ReadyAt

LEMMA AddRecord ==
  ASSUME ServiceInv, NEW j \in Jobs, Add(j)
  PROVE  RecordInv'
<1>1. /\ status' = [status EXCEPT ![j] = "pending"]
      /\ UNCHANGED <<params, records, worker, queue>>
      /\ status[j] = "absent" /\ DOMAIN status = Jobs
  BY DEF Add, Asks, InsertJob, ServiceInv, JobInv, RequestsFit, Shapes
<1>2. StoreGrows
  BY <1>1 DEF StoreGrows, Ended
<1>3. \A w \in Workers : \E x : x = worker'[w] /\ ReadyAt(x) /\ (x.pc # "idle" => x.job \in Jobs)
  BY <1>1, WorkersKnow
<1>4. KnownCalls
  BY <1>1, SameCalls
<1> QED BY <1>1, <1>2, <1>3, <1>4, StatusStep

LEMMA BootRecords ==
  ASSUME ServiceInv, Boot
  PROVE  RecordInv'
<1>1. /\ status' = [j \in Jobs |-> IF InFlight(j) THEN "interrupted" ELSE status[j]]
      /\ UNCHANGED <<params, records, worker, queue>>
  BY DEF Boot, SweepInterrupted, Sweep
<1>2. StoreGrows
  BY <1>1 DEF StoreGrows, Ended, InFlight, Active
<1>3. \A w \in Workers : \E x : x = worker'[w] /\ ReadyAt(x) /\ (x.pc # "idle" => x.job \in Jobs)
  BY <1>1, WorkersKnow
<1>4. KnownCalls
  BY <1>1, SameCalls
<1> QED BY <1>1, <1>2, <1>3, <1>4, StatusStep

(* What its waiter knows when a write is done that leaves the records alone. *)
LEMMA ReadyAfterWrite ==
  ASSUME NEW x \in Locals, x.pc \in WriteStages \ {"clone", "records"}, ReadyAt(x), x.job \in Jobs
  PROVE  ReadyAt(Resumed(x, AfterWrite(x.pc))) /\ Resumed(x, AfterWrite(x.pc)).job \in Jobs
<1> DEFINE stage == AfterWrite(x.pc)
<1>1. PICK z : z = Resumed(x, stage)
  OBVIOUS
<1>2. CASE stage \in Plain
  <2>1. stage \in Stages
    BY <1>2 DEF Plain, Stages, WriteStages
  <2> HIDE DEF stage
  <2>2. Resumed(x, stage).job = x.job /\ ReadyAt(Resumed(x, stage))
    BY <1>2, <2>1, PlainAgain, ResumedTyped
  <2> QED BY <2>2 DEF stage
<1>3. CASE x.pc \in {"running", "progress", "logs"}
  <2>1. /\ x.pc = "running" => stage = "lookup"
        /\ x.pc = "progress" => stage = "simulate"
        /\ x.pc = "logs" => stage = "judge"
    BY DEF AfterWrite
  <2>2. z = [x EXCEPT !.pc = stage, !.sent = FALSE]
    BY <1>1, <1>3, <2>1 DEF Resumed, LastWrites, EscapedWrites
  <2>3. z.pc = stage /\ z.rows = x.rows /\ z.cached = x.cached /\ z.job = x.job
    BY <2>2 DEF Locals
  <2>4. ReadyAt(z)
    BY <1>3, <2>1, <2>3 DEF ReadyAt, CallReady, Early, Unwritten, Written
  <2> QED BY <1>1, <2>3, <2>4
<1>4. x.pc \in {"running", "progress", "logs"} \/ stage \in Plain
  BY DEF AfterWrite, Plain, WriteStages
<1> QED BY <1>2, <1>3, <1>4

LEMMA SilentCommit ==
  ASSUME ServiceInv, Commit, writing.call.pc \notin {"clone", "records"},
         StoreGrows, records' = records,
         \A j \in Jobs : status'[j] \in {"absent", "pending"} => status[j] \in {"absent", "pending"},
         \A j \in Jobs : status'[j] = "succeeded" => status[j] = "succeeded" \/ (HasAll(j) /\ AnyGood(records[j]))
  PROVE  RecordInv'
<1> DEFINE stage == AfterWrite(writing.call.pc)
<1>1. /\ writing # None /\ writing' = None /\ writes' = writes
      /\ Resume(writing, stage)
  BY DEF Commit
<1>2. /\ 0 \in Slots /\ Slot(0) = writing
      /\ \A i \in Slots' : i \in Slots /\ i # 0 /\ Slot(i)' = Slot(i)
      /\ \A w \in Workers :
            worker'[w] = IF w = writing.waiter THEN Resumed(worker[w], stage) ELSE worker[w]
  <2> HIDE DEF stage
  <2> QED BY <1>1, ResumedWorkers
<1>3. KnownCalls
  BY <1>2 DEF KnownCalls
<1>4. ASSUME NEW w \in Workers
      PROVE  \E x : x = worker'[w] /\ ReadyAt(x) /\ (x.pc # "idle" => x.job \in Jobs)
  <2>1. CASE w = writing.waiter
    <3>1. /\ worker[w].pc = writing.call.pc /\ worker[w].pc \in WriteStages
          /\ worker[w].pc # "idle"
      BY <1>2, <2>1, WaitersAre DEF ServiceInv, WriteStages, LastWrites, EscapedWrites
    <3>2. worker'[w] = Resumed(worker[w], AfterWrite(worker[w].pc))
      BY <1>2, <2>1, <3>1
    <3>3. ReadyAt(worker[w]) /\ worker[w] \in Locals /\ worker[w].job \in Jobs
      BY <3>1, WorkersKnow
    <3> QED BY <3>1, <3>2, <3>3, ReadyAfterWrite
  <2>2. CASE w # writing.waiter
    BY <1>2, <2>2, WorkersKnow
  <2> QED BY <2>1, <2>2
<1> QED BY <1>3, <1>4, StatusStep

LEMMA StatusCommit ==
  ASSUME ServiceInv, Commit, writing.call.pc \notin Silent
  PROVE  RecordInv'
<1>y. PICK y : y = writing.call
  OBVIOUS
<1>1. /\ y \in Locals /\ y.pc \in WriteStages \ Silent /\ y.job \in Jobs /\ CallReady(y)
      /\ status[y.job] \in Expected(y.pc) /\ Apply(y)
  <2>1. writing # None /\ writing' = None /\ writes' = writes /\ Apply(writing.call)
        /\ \E stage : Resume(writing, stage)
    BY DEF Commit
  <2> QED BY <1>y, <2>1, ResumedWorkers
<1>2. PICK s : /\ SetStatus(y.job, s)
               /\ \/ y.pc = "running" /\ s = "running"
                  \/ y.pc \in {"succeed", "reuse"} /\ s = "succeeded"
                  \/ y.pc = "cancel" /\ s = "cancelled"
                  \/ y.pc \in {"fail", "unexpected"} \cup LastWrites /\ s = "failed"
  BY <1>1 DEF Apply, Silent, WriteStages, LastWrites, EscapedWrites
<1>3. /\ status' = [status EXCEPT ![y.job] = s] /\ params' = params /\ records' = records
      /\ DOMAIN status = Jobs
  BY <1>2 DEF SetStatus, ServiceInv, JobInv, Shapes
<1>4. /\ s \in {"running", "cancelled", "succeeded"} => status[y.job] \in {"pending", "running"}
      /\ s = "succeeded" => HasAll(y.job) /\ AnyGood(records[y.job])
      /\ s \notin {"absent", "pending"}
  BY <1>1, <1>2 DEF Expected, LastPoints, LastWrites, EscapedWrites, CallReady, Written
<1>5. StoreGrows
  BY <1>2, <1>3, <1>4 DEF StoreGrows, Ended
<1>6. y.pc \notin {"clone", "records"}
  BY <1>1 DEF Silent
<1> QED BY <1>y, <1>1, <1>3, <1>4, <1>5, <1>6, SilentCommit

LEMMA ReportCommit ==
  ASSUME ServiceInv, Commit, writing.call.pc \in {"progress", "logs"}
  PROVE  RecordInv'
<1>1. UNCHANGED store
  BY DEF Commit, Apply, LastWrites, EscapedWrites
<1> QED BY <1>1, StoreGrowing, SilentCommit DEF store

(* The records of a job, once all are written. *)
LEMMA RowsArrive ==
  ASSUME ServiceInv, StoreGrows, NEW x \in Locals, x.job \in Jobs,
         status[x.job] = "running", CallReady(x),
         \/ x.pc = "clone" /\ AddRecords(x.job, records[x.source])
         \/ x.pc = "records" /\ AddRecords(x.job, x.rows)
  PROVE  /\ records'[x.job] \in [Cases -> Counts]
         /\ \A c \in Cases \ CasesOf(x.job) : records'[x.job][c] = Nothing
         /\ records[x.job] = Blank =>
              /\ HasAll(x.job)'
              /\ x.pc = "clone" => AnyGood(records'[x.job])
              /\ x.pc = "records" => records'[x.job] = x.rows
<1>1. PICK j \in Jobs : j = x.job
  OBVIOUS
<1>t. records[j] \in [Cases -> Counts]
      /\ \A c \in Cases \ CasesOf(j) : records[j][c] = Nothing
  BY DEF ServiceInv, RecordInv, RecordsTyped, CasesBelong
<1>p. params' = params /\ DOMAIN records = Jobs /\ CasesOf(j)' = CasesOf(j)
  BY DEF StoreGrows, CasesOf, ServiceInv, TypeInv, StoreTyped
<1>2. PICK B : /\ records' = [records EXCEPT ![j] = [c \in Cases |-> Plus(@[c], B[c])]]
               /\ \/ x.pc = "clone" /\ B = records[x.source]
                  \/ x.pc = "records" /\ B = x.rows
  BY <1>1 DEF AddRecords
<1>3. records'[j] = [c \in Cases |-> Plus(records[j][c], B[c])]
  BY <1>2, <1>p
<1>4. /\ B \in [Cases -> Counts]
      /\ \A c \in Cases : IF c \in CasesOf(j) THEN Accounts(j, c, B[c]) ELSE B[c] = Nothing
      /\ x.pc = "clone" => AnyGood(B)
  <2>1. CASE x.pc = "clone"
    <3>1. PICK s \in Jobs : s = x.source /\ params[s] = params[j] /\ HasAll(s) /\ AnyGood(records[s])
      BY <1>1, <2>1 DEF CallReady, Copies, SameParams
    <3>2. /\ records[s] \in [Cases -> Counts] /\ CasesOf(s) = CasesOf(j)
          /\ \A c \in Cases \ CasesOf(s) : records[s][c] = Nothing
      BY <3>1 DEF ServiceInv, RecordInv, RecordsTyped, CasesBelong, CasesOf
    <3>3. B = records[s]
      BY <1>2, <2>1, <3>1
    <3>4. \A c \in CasesOf(s) : Accounts(j, c, B[c])
      BY <3>1, <3>3 DEF HasAll, Accounts
    <3> QED BY <3>1, <3>2, <3>3, <3>4
  <2>2. CASE x.pc = "records"
    BY <1>1, <1>2, <2>2 DEF CallReady, Locals, Collected
  <2> QED BY <1>2, <2>1, <2>2
<1>5. ASSUME NEW c \in Cases
      PROVE  /\ Plus(records[j][c], B[c]) \in Counts
             /\ records[j][c] = Nothing => Plus(records[j][c], B[c]) = B[c]
  BY <1>t, <1>4, PlusFacts
<1>6. records'[j] \in [Cases -> Counts]
  BY <1>3, <1>5
<1>7. \A c \in Cases \ CasesOf(j) : records'[j][c] = Nothing
  BY <1>t, <1>3, <1>4, <1>5
<1>8. ASSUME records[j] = Blank
      PROVE  records'[j] = B /\ HasAll(j)'
  <2>1. \A c \in Cases : records'[j][c] = B[c]
    BY <1>3, <1>5, <1>8, BlankFacts
  <2>2. records'[j] = B
    BY <1>4, <1>6, <2>1
  <2>3. ASSUME NEW c \in CasesOf(j) PROVE Accounts(j, c, records[j][c])'
    <3>1. PICK n : n = B[c]
      OBVIOUS
    <3>2. Accounts(j, c, n)
      BY <1>4, <2>3, <3>1 DEF CasesOf
    <3>3. Accounts(j, c, n)'
      BY <3>2, AccountsStays
    <3> QED BY <2>2, <3>1, <3>3
  <2> QED BY <1>p, <2>2, <2>3 DEF HasAll
<1> QED BY <1>1, <1>2, <1>4, <1>6, <1>7, <1>8

-----------------------------------------------------------------------------
(* Records are written while the job runs; whoever else holds the job, or  *)
(* has queued a write for it, is past all but last writes.                 *)
LEMMA RecordsCommit ==
  ASSUME ServiceInv, Commit, writing.call.pc \in {"clone", "records"}
  PROVE  RecordInv'
<1> DEFINE stage == AfterWrite(writing.call.pc)
<1>y. PICK y : y = writing.call
  OBVIOUS
<1>j. PICK j : j = y.job
  OBVIOUS
<1>1. /\ writing # None /\ writing' = None /\ writes' = writes
      /\ Resume(writing, stage) /\ Apply(y)
  BY <1>y DEF Commit
<1>2. /\ 0 \in Slots /\ Slot(0) = writing
      /\ y \in Locals /\ y.pc \in {"clone", "records"} /\ j \in Jobs /\ CallReady(y)
      /\ status[j] \in Expected(y.pc)
      /\ \A i \in Slots' : i \in Slots /\ i # 0 /\ Slot(i)' = Slot(i)
      /\ \A w \in Workers :
            worker'[w] = IF w = writing.waiter THEN Resumed(worker[w], stage) ELSE worker[w]
  <2> HIDE DEF stage
  <2> QED BY <1>y, <1>j, <1>1, ResumedWorkers
<1>3. status[j] = "running"
  BY <1>2 DEF Expected, LastPoints, LastWrites, EscapedWrites
<1>4. \/ y.pc = "clone" /\ AddRecords(j, records[y.source])
      \/ y.pc = "records" /\ AddRecords(j, y.rows)
  BY <1>1, <1>2, <1>j DEF Apply, LastWrites, EscapedWrites
<1>5. /\ params' = params /\ status' = status /\ DOMAIN records = Jobs
      /\ \A k \in Jobs \ {j} : records'[k] = records[k]
  BY <1>4 DEF AddRecords, ServiceInv, TypeInv, StoreTyped
<1>6. StoreGrows
  BY <1>3, <1>5 DEF StoreGrows, Ended
<1>7. /\ records'[j] \in [Cases -> Counts]
      /\ \A c \in Cases \ CasesOf(j) : records'[j][c] = Nothing
      /\ records[j] = Blank =>
           /\ HasAll(j)'
           /\ y.pc = "clone" => AnyGood(records'[j])
           /\ y.pc = "records" => records'[j] = y.rows
  BY <1>2, <1>3, <1>4, <1>6, <1>j, RowsArrive
<1>8. RecordsTyped' /\ CasesBelong'
  <2>1. \A k \in Jobs \ {j} : /\ records'[k] \in [Cases -> Counts]
                              /\ \A c \in Cases \ CasesOf(k) : records'[k][c] = Nothing
    BY <1>5 DEF ServiceInv, RecordInv, RecordsTyped, CasesBelong
  <2>2. \A k \in Jobs : CasesOf(k)' = CasesOf(k)
    BY <1>5 DEF CasesOf
  <2> QED BY <1>5, <1>7, <2>1, <2>2 DEF RecordsTyped, CasesBelong
<1>9. ASSUME NEW w \in Workers, w # writing.waiter, Holds(worker[w], j)
      PROVE  worker[w].pc \in LastPoints
  BY <1>2, <1>9, <1>y, <1>j DEF ServiceInv, JobInv, ItemsFit, ItemFits
<1>l. LastPoints \cap (Written \cup Unwritten) = {} /\ LastWrites \cap (Written \cup Unwritten) = {}
  BY DEF LastPoints, LastWrites, EscapedWrites, Written, Unwritten, Early
<1>10. ASSUME NEW w \in Workers
       PROVE  \E x : /\ x = worker'[w] /\ CallReady(x)'
                     /\ x.pc \in Unwritten => records'[x.job] = Blank
  <2>1. CASE w = writing.waiter
    <3>1. worker[w].pc = y.pc /\ worker[w].job = j /\ worker[w].rows = y.rows /\ worker[w] \in Locals
      BY <1>2, <1>y, <1>j, <2>1, WaitersAre, WorkersKnow DEF ServiceInv
    <3>2. records[j] = Blank
      BY <1>2, <3>1, WorkersKnow DEF ReadyAt, Unwritten
    <3>3. /\ stage = IF y.pc = "clone" THEN "reuse" ELSE "logs"
          /\ stage \in Stages
      BY <1>2, <1>y DEF AfterWrite, Stages, WriteStages
    <3>4. PICK x : x = worker'[w] /\ x.pc = stage /\ x.job = j /\ (stage = "logs" => x.rows = y.rows)
      <4>1. stage = "logs" => Resumed(worker[w], stage).rows = worker[w].rows
        BY <3>1 DEF Resumed, LastWrites, EscapedWrites, Locals
      <4> HIDE DEF stage
      <4> QED BY <1>2, <2>1, <3>1, <3>3, <4>1, ResumedTyped
    <3>5. /\ HasAll(j)' /\ (stage = "reuse" => AnyGood(records'[j]))
          /\ (stage = "logs" => records'[j] = x.rows)
      <4> HIDE DEF stage
      <4> QED BY <1>2, <1>7, <3>2, <3>3, <3>4
    <3> HIDE DEF stage
    <3>6. CallReady(x)'
      BY <3>3, <3>4, <3>5 DEF CallReady, Early, Written
    <3>7. x.pc \notin Unwritten
        BY <3>3, <3>4 DEF Unwritten, Early
    <3> QED BY <3>4, <3>6, <3>7
  <2>2. CASE w # writing.waiter
    <3>1. PICK x : x = worker[w] /\ x = worker'[w]
      BY <1>2, <2>2
    <3>2. ReadyAt(x) /\ (x.pc # "idle" => x.job \in Jobs)
      BY <3>1, WorkersKnow
    <3>3. x.pc \in Written \cup Unwritten => x.job \in Jobs \ {j}
      <4>1. "idle" \notin Written \cup Unwritten
        BY DEF Written, Unwritten, Early
      <4> QED BY <1>9, <1>l, <2>2, <3>1, <3>2, <4>1 DEF Holds
    <3>4. CallReady(x)'
      BY <1>5, <1>6, <3>2, <3>3, CallStays DEF ReadyAt
    <3>5. x.pc \in Unwritten => records'[x.job] = Blank
      BY <1>5, <3>2, <3>3 DEF ReadyAt
    <3> QED BY <3>1, <3>4, <3>5
  <2> QED BY <2>1, <2>2
<1>11. ASSUME NEW i \in Slots'
       PROVE  \E x : x = Slot(i)'.call /\ CallReady(x)'
  <2>1. i \in Slots /\ i # 0 /\ Slot(i)' = Slot(i)
    BY <1>2
  <2>2. PICK x : x = Slot(i).call
    OBVIOUS
  <2>3. CallReady(x) /\ x.job \in Jobs /\ ItemFits(Slot(i), status, worker)
    BY <2>1, <2>2, KnownJobs DEF ServiceInv, RecordInv, CallsReady, JobInv, ItemsFit
  <2>4. x.pc \in Written => x.job # j
    <3>1. CASE Slot(i).waiter = None
      <4>1. x.pc \in LastWrites
        BY <2>1, <2>2, <3>1 DEF ServiceInv, JobInv, Attended, Slots, Slot
      <4> QED BY <1>l, <4>1
    <3>2. CASE Slot(i).waiter # None
      <4>1. PICK v \in Workers : v = Slot(i).waiter
        BY <2>3, <3>2 DEF ItemFits
      <4>2. v # writing.waiter
        BY <1>2, <2>1, <3>2, <4>1 DEF ServiceInv, JobInv, OneItem
      <4>3. worker[v].pc = x.pc /\ worker[v].job = x.job
        BY <2>2, <2>3, <4>1 DEF ItemFits
      <4>4. x.job = j /\ x.pc # "idle" => x.pc \in LastPoints
        BY <1>9, <4>2, <4>3 DEF Holds
      <4>5. "idle" \notin Written
        BY DEF Written
      <4> QED BY <1>l, <4>4, <4>5
    <3> QED BY <3>1, <3>2
  <2>5. CallReady(x)'
    BY <1>5, <1>6, <2>3, <2>4, CallStays
  <2> QED BY <2>1, <2>2, <2>5
<1>12. \A k \in Jobs : status'[k] \in {"absent", "pending"} =>
          status[k] \in {"absent", "pending"} /\ records'[k] = records[k]
  BY <1>3, <1>5
<1>13. \A k \in Jobs : status'[k] = "succeeded" => status[k] = "succeeded"
  BY <1>5
<1> QED BY <1>6, <1>8, <1>10, <1>11, <1>12, <1>13, GrowthStep

LEMMA RecordNext ==
  ASSUME ServiceInv, [Next]_vars
  PROVE  RecordInv'
<1>1. ASSUME NEW j \in Jobs, FindSucceeded(j) \/ RequestStep(j) \/ RequestCancel(j)
      PROVE  RecordInv'
  <2>1. CASE Add(j)
    BY <2>1, AddRecord
  <2>2. CASE ~ Add(j)
    <3>1. UNCHANGED <<store, worker, queue>>
      BY <1>1, <2>2 DEF RequestStep, FindSucceeded, FindInFlight, CheckLimit, AddConflicts, Schedule,
         Dispatch, ResolveConflict, ResolveByCache, RequestCancel
    <3> QED BY <3>1, NoRecords
  <2> QED BY <2>1, <2>2
<1>2. ASSUME NEW w \in Workers, WorkerStep(w) \/ GiveUp(w)
      PROVE  RecordInv'
  BY <1>2, TakeAndLeaveRecords, EnqueueRecords, LookUpRecords, StartRecords, SimulateRecords,
     CollectRecords, JudgeRecords, GiveUpRecords DEF WorkerStep
<1>3. CASE WriterStep
  BY <1>3, TakeWriteRecords, WriteRaisesRecords, RecordsCommit, ReportCommit, StatusCommit
     DEF WriterStep, Silent
<1>4. CASE BeginShutdown \/ NextPhase \/ AtRest \/ UNCHANGED vars
  <2>1. UNCHANGED <<store, worker, queue>>
    BY <1>4 DEF BeginShutdown, NextPhase, AtRest, vars, store, queue
  <2> QED BY <2>1, NoRecords
<1>5. CASE Crash \/ Exit
  BY <1>5, DownRecords DEF Crash, Exit
<1>6. CASE CancelWrites
  BY <1>6, CancelWritesRecords
<1>7. CASE Boot
  BY <1>7, BootRecords
<1> QED BY <1>1, <1>2, <1>3, <1>4, <1>5, <1>6, <1>7 DEF Next, ServerStep

-----------------------------------------------------------------------------
(* In every reachable state what a worker, or a write it has queued, takes *)
(* for granted of the result records holds.                                *)
THEOREM ServiceInvHolds == Spec => []ServiceInv
<1>1. Init => ServiceInv
  BY InitFits, TypeInit, RecordInit DEF ServiceInv
<1>2. ServiceInv /\ [Next]_vars => ServiceInv'
  <2> SUFFICES ASSUME ServiceInv, [Next]_vars PROVE ServiceInv'
    OBVIOUS
  <2>1. JobInv /\ StoreTyped /\ QueueCovers /\ CallsTyped /\ RestTyped
        /\ \A j \in Jobs : records[j] \in [Cases -> Counts]
    BY DEF ServiceInv, TypeInv, RecordInv, RecordsTyped
  <2>2. JobInv'
    BY <2>1, StepFits
  <2>3. TypeInv'
    BY <2>1, StoreIsTyped, QueueStaysCovered, CallsAreTyped, RestIsTyped DEF TypeInv
  <2>4. RecordInv'
    BY RecordNext
  <2> QED BY <2>2, <2>3, <2>4 DEF ServiceInv
<1> QED
  BY <1>1, <1>2, PTL DEF Spec

(* Tables, queue, threads and requests have their types, and a worker that *)
(* starts a call of _drain_one finds a job in the queue.                   *)
THEOREM ServiceIsTyped == Spec => []TypeOK
<1>1. ServiceInv => TypeOK
  <2> SUFFICES ASSUME ServiceInv PROVE TypeOK
    OBVIOUS
  <2>1. status \in [Jobs -> Statuses] /\ pq \in Seq(Jobs)
    BY DEF ServiceInv, JobInv, Shapes
  <2>2. drains \in 0..Len(pq)
    <3>1. Cardinality(Dispatching) \in Nat
      BY FS_CardinalityType DEF ServiceInv, TypeInv, QueueCovers
    <3>2. Len(pq) \in Nat
      BY <2>1
    <3> QED BY <3>1, <3>2 DEF ServiceInv, TypeInv, QueueCovers
  <2>3. records \in [Jobs -> [Cases -> Counts]]
    BY DEF ServiceInv, TypeInv, StoreTyped, RecordInv, RecordsTyped
  <2> QED BY <2>1, <2>2, <2>3 DEF TypeOK, ServiceInv, TypeInv, StoreTyped, CallsTyped, RestTyped
<1> QED
  BY <1>1, ServiceInvHolds, PTL

(* A job that has succeeded has a result, and of each of its cases what    *)
(* the runner gives for it, whatever was skipped, copied, timed out or     *)
(* interrupted, unless a job that it was to copy from has failed after it  *)
(* had succeeded.                                                          *)
THEOREM ResultsAreComplete == Spec => []SucceededIsComplete
<1>1. ServiceInv => SucceededIsComplete
  BY DEF ServiceInv, RecordInv
<1> QED
  BY <1>1, ServiceInvHolds, PTL

-----------------------------------------------------------------------------
(***************************************************************************)
(* The records of a job are written once, and whole.                       *)
(***************************************************************************)

(* The transaction that writes the records of a job. *)
WritesRecords == Commit /\ writing.call.pc \in {"clone", "records"}

(* It has a job without records before it, also when its worker has given *)
(* up waiting.                                                            *)
UnderWay ==
    writing # None /\ writing.call.pc \in {"clone", "records"} =>
        records[writing.call.job] = Blank

(* No other step touches them. *)
LEMMA RecordsElsewhere ==
  ASSUME ServiceInv, [Next]_vars, ~ WritesRecords
  PROVE  records' = records
<1>1. ASSUME NEW j \in Jobs, FindSucceeded(j) \/ RequestStep(j) \/ RequestCancel(j)
      PROVE  records' = records
  BY <1>1 DEF RequestStep, FindSucceeded, FindInFlight, CheckLimit, Add, InsertJob, AddConflicts,
     Schedule, Dispatch, ResolveConflict, ResolveByCache, RequestCancel, store
<1>2. ASSUME NEW w \in Workers, WorkerStep(w) \/ GiveUp(w)
      PROVE  records' = records
  BY <1>2 DEF WorkerStep, DrainOne, Enqueue, LookUp, Start, Simulate, SimulateFails, Collect,
     Judge, EndJob, GiveUp, store
<1>3. CASE Commit
  <2>1. writing # None /\ Apply(writing.call) /\ writing.call.pc \notin {"clone", "records"}
    BY <1>3 DEF Commit, WritesRecords
  <2>2. UNCHANGED store \/ \E s : SetStatus(writing.call.job, s)
    BY <2>1 DEF Apply
  <2> QED BY <2>2 DEF SetStatus, store
<1>4. CASE \/ TakeWrite \/ WriteRaises \/ BeginShutdown \/ NextPhase \/ CancelWrites
           \/ Exit \/ Crash \/ Boot \/ AtRest \/ UNCHANGED vars
  BY <1>4 DEF TakeWrite, WriteRaises, BeginShutdown, NextPhase, CancelWrites, Exit, Crash, Down,
     Boot, SweepInterrupted, AtRest, vars, store
<1> QED BY <1>1, <1>2, <1>3, <1>4 DEF Next, ServerStep, WriterStep

(* Only a write that its worker waits for reaches the head of the queue. *)
LEMMA UnderWayFromTheQueue ==
  ASSUME ServiceInv, TakeWrite, writing'.call.pc \in {"clone", "records"}
  PROVE  records[writing'.call.job] = Blank
<1>1. 1 \in Slots /\ 1 \in 1..Len(writes) /\ Slot(1) = writing'
  <2>1. writes \in Seq({writes[i] : i \in 1..Len(writes)}) /\ writes # <<>> /\ writing' = Head(writes)
    BY DEF TakeWrite, ServiceInv, JobInv, Shapes
  <2> QED BY <2>1 DEF Slots, Slot
<1>2. writes[1].waiter # None
  BY <1>1 DEF ServiceInv, JobInv, Attended, Slot, LastWrites, EscapedWrites
<1>3. ItemFits(Slot(1), status, worker)
  BY <1>1 DEF ServiceInv, JobInv, ItemsFit
<1>4. PICK w \in Workers : w = writing'.waiter
  BY <1>1, <1>2, <1>3 DEF ItemFits, Slot
<1>5. worker[w].pc = writing'.call.pc /\ worker[w].job = writing'.call.job
  BY <1>1, <1>3, <1>4 DEF ItemFits
<1> QED BY <1>5 DEF ServiceInv, RecordInv, Unrecorded, Unwritten

LEMMA UnderWayStep ==
  ASSUME ServiceInv, UnderWay, [Next]_vars
  PROVE  UnderWay'
<1> SUFFICES ASSUME writing' # None, writing'.call.pc \in {"clone", "records"}
             PROVE  records'[writing'.call.job] = Blank
  BY DEF UnderWay
<1>1. ~ WritesRecords
  BY DEF WritesRecords, Commit
<1>2. records' = records
  BY <1>1, RecordsElsewhere
<1>3. TakeWrite \/ (writing # None /\ writing'.call = writing.call)
  <2>1. ASSUME NEW j \in Jobs, FindSucceeded(j) \/ RequestStep(j) \/ RequestCancel(j)
        PROVE  writing' = writing
    BY <2>1 DEF RequestStep, FindSucceeded, FindInFlight, CheckLimit, Add, AddConflicts,
       Schedule, Dispatch, ResolveConflict, ResolveByCache, RequestCancel, queue
  <2>2. ASSUME NEW w \in Workers, WorkerStep(w)
        PROVE  writing' = writing
    BY <2>2 DEF WorkerStep, DrainOne, Enqueue, LookUp, Start, Simulate, SimulateFails, Collect,
       Judge, EndJob, queue
  <2>3. ASSUME NEW w \in Workers, GiveUp(w)
        PROVE  writing # None /\ writing'.call = writing.call
    <3>1. CASE writing' = writing
      BY <3>1
    <3>2. CASE writing # None /\ writing' = [writing EXCEPT !.waiter = None]
      <4>1. 0 \in Slots /\ Slot(0) = writing
        BY <3>2 DEF Slots, Slot
      <4>2. DOMAIN writing = {"waiter", "call"}
        BY <4>1 DEF ServiceInv, JobInv, ItemsFit, ItemFits
      <4> QED BY <3>2, <4>2
    <3> QED BY <2>3, <3>1, <3>2 DEF GiveUp
  <2>4. CASE Commit \/ WriteRaises \/ Exit \/ Crash
    BY <2>4 DEF Commit, WriteRaises, Exit, Crash, Down
  <2>5. CASE \/ BeginShutdown \/ NextPhase \/ CancelWrites \/ Boot \/ AtRest \/ UNCHANGED vars
    BY <2>5 DEF BeginShutdown, NextPhase, CancelWrites, Boot, AtRest, vars, queue
  <2> QED BY <2>1, <2>2, <2>3, <2>4, <2>5 DEF Next, ServerStep, WriterStep
<1>4. CASE TakeWrite
  BY <1>2, <1>4, UnderWayFromTheQueue
<1> QED BY <1>2, <1>3, <1>4 DEF UnderWay

(* The transaction leaves a running job with a record of every case. *)
LEMMA RecordsArriveWhole ==
  ASSUME ServiceInv, UnderWay, WritesRecords, NEW j \in Jobs, records'[j] # records[j]
  PROVE  status[j] = "running" /\ records[j] = Blank /\ HasAll(j)'
<1>y. PICK y : y = writing.call
  OBVIOUS
<1>1. /\ 0 \in Slots /\ Slot(0) = writing /\ writing # None /\ Apply(y)
      /\ y.pc \in {"clone", "records"}
  BY <1>y DEF WritesRecords, Commit, Slots, Slot
<1>2. y \in Locals /\ y.job \in Jobs /\ CallReady(y) /\ status[y.job] \in Expected(y.pc)
  <2>1. /\ writing' = None /\ writes' = writes
        /\ \E stage : Resume(writing, stage)
    BY DEF WritesRecords, Commit
  <2> QED BY <1>y, <1>1, <2>1, ResumedWorkers
<1>3. status[y.job] = "running"
  BY <1>1, <1>2 DEF Expected, LastPoints, LastWrites, EscapedWrites
<1>4. \/ y.pc = "clone" /\ AddRecords(y.job, records[y.source])
      \/ y.pc = "records" /\ AddRecords(y.job, y.rows)
  BY <1>1 DEF Apply, LastWrites, EscapedWrites
<1>5. /\ params' = params /\ status' = status /\ DOMAIN records = Jobs
      /\ \A k \in Jobs \ {y.job} : records'[k] = records[k]
  BY <1>4 DEF AddRecords, ServiceInv, TypeInv, StoreTyped
<1>6. StoreGrows
  BY <1>3, <1>5 DEF StoreGrows, Ended
<1>7. j = y.job /\ records[j] = Blank
  BY <1>1, <1>5, <1>y DEF UnderWay
<1>8. HasAll(y.job)'
  BY <1>2, <1>3, <1>4, <1>6, <1>7, RowsArrive
<1> QED BY <1>3, <1>7, <1>8

(* The result records of a job appear in one step, while the job runs, and *)
(* for each of its cases; before that step it has none and after it they   *)
(* never change: not by a second write of a worker that has timed out, and *)
(* not when the job ends, is swept or is copied from.                      *)
THEOREM RecordsArriveOnce == Spec => RecordsWrittenOnce
<1>1. Init => UnderWay
  BY DEF Init, UnderWay
<1>2. ServiceInv /\ UnderWay /\ [Next]_vars => UnderWay'
  BY UnderWayStep
<1>3. ServiceInv /\ UnderWay /\ [Next]_vars => [WrittenOnce]_vars
  BY RecordsElsewhere, RecordsArriveWhole DEF WrittenOnce
<1> QED
  BY <1>1, <1>2, <1>3, ServiceInvHolds, PTL DEF Spec, RecordsWrittenOnce

=============================================================================
