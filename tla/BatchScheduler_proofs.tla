------------------------ MODULE BatchScheduler_proofs ------------------------
(***************************************************************************)
(* Proofs about BatchScheduler.  The inductive invariant SchedInv says for *)
(* every request what its record and its KV slots are like at the place it *)
(* is in: in a waiting queue, running, in the batch under way, in a        *)
(* channel; and for every engine that its queues, its pool and its budget  *)
(* add up.  A step of one engine concerns one request, so each action is   *)
(* shown to put its request in the right place (StepKeeps, OtherEngines).  *)
(*                                                                         *)
(* SchedInv is kept by all actions of engines, also those that hand        *)
(* requests over, so the proofs about Serving build on it.  Two more       *)
(* facts are for requests that stay on their engine: a pass that ends with *)
(* an empty batch has met no request (PassInv), and the queues keep their  *)
(* order (OrderKept).  At last, each engine uses its pool as KVPool allows *)
(* (UsesPools).                                                            *)
(***************************************************************************)
EXTENDS BatchScheduler, KVBlocks_proofs, Collections_proofs

(***************************************************************************)
(* What is true of each request.                                           *)
(***************************************************************************)

(* What the record q of a request r must be like for the scheduler to go   *)
(* on with it; n is the number of its KV slots.                            *)

(* Its next decode step is set up: the window keeps at least one token and *)
(* no more than are still to be generated.                                 *)
DecodeReady(r, q) ==
    /\ q.accepted >= 1
    /\ q.accepted <= OutputTokens[r] - q.decoded

(* Its prompt has been prefilled elsewhere and its KV cache is not here. *)
HandedOver(r, q) ==
    /\ q.decoded >= 1 /\ DecodeReady(r, q)
    /\ q.seq_len = InputTokens[r]
    /\ q.new_tokens = DecodeQueryLen
    /\ q.need_kv_transfer /\ ~ q.kv_transfer_done

(* It computes its prompt, or again all it had computed when preempted. *)
Prefills(r, q) ==
    /\ q.state \in {"PREFILLING", "RECOMPUTATION"}
    /\ q.state = "PREFILLING" => q.decoded = 0 /\ ~ q.kv_transfer_done
    /\ q.seq_len + q.new_tokens = InputTokens[r] + q.decoded

InChannel(r, q) == q.decoded < OutputTokens[r] /\ HandedOver(r, q) /\ q.state = "PREFILL_DONE"

InQueue(r, q, n) ==
    /\ q.decoded < OutputTokens[r]
    /\ \/ Prefills(r, q) /\ q.seq_len = 0 /\ n = 0
       \/ q.state = "KVS_TRANSFERRING" /\ HandedOver(r, q) /\ n = 0
       \/ /\ q.state = "DECODING" /\ DecodeReady(r, q)
          /\ q.new_tokens = DecodeQueryLen
          /\ q.kv_transfer_done
          /\ q.seq_len = InputTokens[r] /\ n = q.seq_len

(* Running, and not in the batch under way. *)
InRunning(r, q, n) ==
    /\ q.decoded < OutputTokens[r]
    /\ q.new_tokens > 0
    /\ n = q.seq_len
    /\ \/ Prefills(r, q)
       \/ /\ q.state = "DECODING" /\ DecodeReady(r, q)
          /\ q.new_tokens = DecodeQueryLen
          /\ q.seq_len <= InputTokens[r] + q.decoded

(* Running, and in the batch under way. *)
InBatch(r, q, n) ==
    /\ q.decoded < OutputTokens[r]
    /\ q.query_len <= q.seq_len
    /\ \/ Prefills(r, q) /\ n = q.seq_len
       \/ /\ q.state = "DECODING" /\ DecodeReady(r, q)
          /\ q.new_tokens = 0
          /\ q.query_len = DecodeQueryLen
          /\ q.seq_len <= InputTokens[r] + q.decoded + DecodeQueryLen
          /\ n + DecodeQueryLen = q.seq_len + q.accepted

Running(e) == ToSet(running[e])
Waiting(e) == ToSet(waiting[e])
Batch(e)   == ToSet(sched[e].batch)
Channel(e) == ToSet(d2d[e])

(* The queues of an engine hold its requests once each, and the batch is   *)
(* taken from the running ones; in the first loop it is a prefix of them.  *)
Seated(e) ==
    /\ IsInjective(running[e]) /\ IsInjective(waiting[e]) /\ IsInjective(sched[e].batch)
    /\ Running(e) \cap Waiting(e) = {}
    /\ tracked[e] = Running(e) \cup Waiting(e)
    /\ Batch(e) \subseteq Running(e)
    /\ sched[e].pc \in {"ready", "idle"} => sched[e].batch = <<>>
    /\ sched[e].pc = "running" =>
          /\ sched[e].index = Len(sched[e].batch) + 1
          /\ Len(sched[e].batch) <= Len(running[e])
          /\ \A i \in 1..Len(sched[e].batch) : sched[e].batch[i] = running[e][i]

Healthy(e) ==
    /\ \A r \in Requests \ tracked[e] : slots[e][r] = 0
    /\ \A r \in Waiting(e) : InQueue(r, req[r], slots[e][r])
    /\ \A r \in Running(e) \ Batch(e) : InRunning(r, req[r], slots[e][r])
    /\ \A r \in Batch(e) : InBatch(r, req[r], slots[e][r])
    /\ \A r \in tracked[e] : Admissible(e, r)

BatchTokens(e) == SumOn([r \in Requests |-> req[r].query_len], Batch(e))
HeldBlocks(e)  == SumOn([r \in Requests |-> BlocksFor(slots[e][r])], Requests)

Accounted(e) ==
    /\ free_blocks[e] + HeldBlocks(e) = NumBlocks[e]
    /\ sched[e].pc \in {"running", "waiting", "decide"} =>
          BatchTokens(e) + sched[e].budget = MaxTokensBudget
    /\ sched[e].pc = "execute" => BatchTokens(e) <= MaxTokensBudget

(* No request is in two engines or channels, and what is in a channel, at  *)
(* the client or done is as it should be.                                  *)
Apart ==
    /\ \A e \in Engines : IsInjective(d2d[e])
    /\ \A e, f \in Engines : tracked[e] \cap Channel(f) = {}
    /\ \A e, f \in Engines : e # f => tracked[e] \cap tracked[f] = {} /\ Channel(e) \cap Channel(f) = {}
    /\ \A e \in Engines : \A r \in Channel(e) : InChannel(r, req[r])
    /\ \A r \in Requests :
          /\ req[r].state = "INITIAL" => req[r] = NewRequest(r)
          /\ req[r].state = "DECODE_DONE" => req[r].decoded = OutputTokens[r]

EngineInv(e) == Seated(e) /\ Healthy(e) /\ Accounted(e)

SchedInv == SchedTypeOK /\ Apart /\ \A e \in Engines : EngineInv(e)

(***************************************************************************)
(* What the scheduler does to the record of a request.                     *)
(***************************************************************************)

(* The record q after n of its tokens have been scheduled. *)
ScheduledRecord(q, n) ==
    [q EXCEPT !.query_len = n, !.seq_len = @ + n, !.new_tokens = @ - n]

RequestsAreSized ==
    /\ IsFiniteSet(Requests)
    /\ DecodeQueryLen \in Nat \ {0}
    /\ Scale \in Nat \ {0} /\ AvgDecodeTokens \in Nat
    /\ \A r \in Requests : InputTokens[r] \in Nat \ {0} /\ OutputTokens[r] \in Nat \ {0}

LEMMA Sized == RequestsAreSized
<1>1. AvgDecodeTokens \in Nat
  <2>1. Scale \in Nat /\ AvgDecodeTokens \in Int /\ Scale <= AvgDecodeTokens
    <3> DEFINE k == DecodeQueryLen * Scale
    <3>1. AvgDecodeTokens \in Scale .. k /\ Scale \in Nat
      BY RequestAssumption
    <3> HIDE DEF k
    <3> QED BY <3>1
  <2> QED BY <2>1
<1> QED BY <1>1, RequestAssumption DEF RequestsAreSized

(* What Schedule takes and stores. *)
LEMMA RecordScheduled ==
  ASSUME NEW r \in Requests, NEW q \in RequestRecords, NEW held \in Nat,
         \/ InRunning(r, q, held)
         \/ InQueue(r, q, held) /\ q.state # "KVS_TRANSFERRING",
         NEW budget \in Nat, budget > 0,
         ~ (q.state = "DECODING" /\ budget < q.new_tokens),
         NEW n, n = Min2(budget, q.new_tokens),
         NEW k, k = IF q.state = "DECODING" THEN q.accepted ELSE n
  PROVE  /\ n \in Nat \ {0} /\ n <= budget /\ n <= q.new_tokens /\ k \in Nat
         /\ ScheduledRecord(q, n) \in RequestRecords
         /\ ScheduledRecord(q, n).query_len = n
         /\ ScheduledRecord(q, n).state \notin {"INITIAL", "DECODE_DONE"}
         /\ InBatch(r, ScheduledRecord(q, n), held + k)
<1> USE DEF RequestRecords
<1>1. RequestsAreSized
  BY Sized
<1>2. q.new_tokens > 0
  BY <1>1 DEF RequestsAreSized, InRunning, InQueue, Prefills, HandedOver
<1>3. n \in Nat \ {0} /\ n <= budget /\ n <= q.new_tokens
  BY <1>2 DEF Min2
<1>4. k \in Nat
  BY <1>3
<1>5. ScheduledRecord(q, n) \in RequestRecords
  <2>1. q.seq_len + n \in Nat /\ q.new_tokens - n \in Nat
    BY <1>3
  <2> QED BY <1>3, <2>1 DEF ScheduledRecord
<1>6. /\ ScheduledRecord(q, n).state = q.state /\ ScheduledRecord(q, n).decoded = q.decoded
      /\ ScheduledRecord(q, n).accepted = q.accepted
      /\ ScheduledRecord(q, n).query_len = n
      /\ ScheduledRecord(q, n).seq_len = q.seq_len + n
      /\ ScheduledRecord(q, n).new_tokens = q.new_tokens - n
      /\ ScheduledRecord(q, n).kv_transfer_done = q.kv_transfer_done
  BY DEF ScheduledRecord
<1>7. q.decoded < OutputTokens[r] /\ q.decoded \in Nat /\ OutputTokens[r] \in Nat
  BY <1>1 DEF InRunning, InQueue, RequestsAreSized
<1>8. CASE q.state = "DECODING"
  <2>1. /\ DecodeReady(r, q) /\ q.new_tokens = DecodeQueryLen /\ held = q.seq_len
        /\ q.seq_len <= InputTokens[r] + q.decoded
    BY <1>1, <1>8 DEF InRunning, InQueue, Prefills, RequestsAreSized
  <2>2. n = DecodeQueryLen /\ k = q.accepted
    BY <1>8, <2>1 DEF Min2
  <2>3. DecodeReady(r, ScheduledRecord(q, n))
    BY <1>6, <2>1 DEF DecodeReady
  <2>4. DecodeQueryLen \in Nat /\ InputTokens[r] \in Nat
    BY <1>1 DEF RequestsAreSized
  <2> HIDE DEF ScheduledRecord
  <2> QED BY <1>3, <1>4, <1>5, <1>6, <1>7, <1>8, <2>1, <2>2, <2>3, <2>4 DEF InBatch
<1>9. CASE q.state # "DECODING"
  <2>1. Prefills(r, q) /\ held = q.seq_len /\ k = n
    BY <1>9 DEF InRunning, InQueue, Prefills
  <2>2. Prefills(r, ScheduledRecord(q, n))
    BY <1>1, <1>3, <1>6, <1>7, <2>1 DEF Prefills, RequestsAreSized
  <2> QED BY <1>3, <1>4, <1>5, <1>6, <1>7, <2>1, <2>2 DEF InBatch, Prefills
<1> QED BY <1>8, <1>9

(* What Preempt stores. *)
LEMMA RecordPreempted ==
  ASSUME NEW r \in Requests, NEW q \in RequestRecords, q.decoded < OutputTokens[r],
         NEW p, p = [q EXCEPT !.state = "RECOMPUTATION", !.new_tokens = InputTokens[r] + q.decoded,
                              !.seq_len = 0, !.query_len = 0]
  PROVE  p \in RequestRecords /\ InQueue(r, p, 0) /\ p.state = "RECOMPUTATION"
<1>1. InputTokens[r] \in Nat /\ InputTokens[r] + q.decoded \in Nat /\ OutputTokens[r] \in Nat
  BY Sized DEF RequestsAreSized, RequestRecords
<1>2. p \in RequestRecords
  BY <1>1 DEF RequestRecords, RequestStates
<1>3. /\ p.state = "RECOMPUTATION" /\ p.decoded = q.decoded /\ p.seq_len = 0
      /\ p.new_tokens = InputTokens[r] + q.decoded
  BY DEF RequestRecords
<1>4. Prefills(r, p)
  BY <1>1, <1>3 DEF Prefills
<1> QED BY <1>2, <1>3, <1>4 DEF InQueue

(* What ReceiveKvs stores. *)
LEMMA RecordReceived ==
  ASSUME NEW r \in Requests, NEW q \in RequestRecords, NEW held \in Nat, InQueue(r, q, held),
         q.state = "KVS_TRANSFERRING",
         NEW p, p = [q EXCEPT !.kv_transfer_done = TRUE, !.state = "DECODING"]
  PROVE  /\ p \in RequestRecords /\ held = 0 /\ InQueue(r, p, InputTokens[r])
         /\ p.state = "DECODING"
BY Sized DEF RequestsAreSized, RequestRecords, RequestStates, InQueue, Prefills, HandedOver, DecodeReady

(* A request in the batch that still has tokens to compute goes on running *)
(* as it is.                                                               *)
LEMMA RecordChunked ==
  ASSUME NEW r \in Requests, NEW q \in RequestRecords, NEW held \in Nat, InBatch(r, q, held),
         q.new_tokens # 0
  PROVE  InRunning(r, q, held)
BY DEF RequestRecords, InBatch, InRunning

(* The record after complete_generation_step, as PostDecoding and          *)
(* PostFinished use it.                                                    *)
GeneratedRecord(r, q) ==
    LET c == CompleteGenerationStep(r, q)
    IN  IF q.state = "DECODING"
        THEN [c EXCEPT !.seq_len = @ - (c.query_len - GeneratedTokens(r, q))]
        ELSE c

LEMMA RecordGenerated ==
  ASSUME NEW r \in Requests, NEW q \in RequestRecords, NEW held \in Nat, InBatch(r, q, held),
         q.new_tokens = 0,
         NEW g, g = GeneratedRecord(r, q)
  PROVE  /\ g \in RequestRecords
         /\ g.state = q.state /\ q.state \in {"PREFILLING", "RECOMPUTATION", "DECODING"}
         /\ g.need_kv_transfer <=> q.need_kv_transfer
         /\ g.kv_transfer_done <=> q.kv_transfer_done
         /\ g.seq_len = held /\ g.seq_len <= InputTokens[r] + g.decoded
         /\ g.decoded <= OutputTokens[r]
         /\ q.state = "PREFILLING" => g.seq_len = InputTokens[r] /\ g.decoded = 1
         /\ q.state = "DECODING" => g.decoded = q.decoded + q.accepted
         /\ g.decoded >= OutputTokens[r] => q.state # "RECOMPUTATION"
<1> DEFINE k == GeneratedTokens(r, q)
           d == q.decoded + k
           x == CASE q.state = "DECODING"   -> Max2(q.next_expected, d * Scale)
                  [] q.state = "PREFILLING" -> d * Scale
                  [] OTHER                  -> q.expected
           c == [q EXCEPT !.decoded = d, !.expected = x]
<1>1. /\ InputTokens[r] \in Nat \ {0} /\ OutputTokens[r] \in Nat \ {0} /\ Scale \in Nat
      /\ DecodeQueryLen \in Nat
  BY Sized DEF RequestsAreSized
<1>2. /\ q.decoded \in Nat /\ q.decoded < OutputTokens[r] /\ q.seq_len \in Nat /\ q.query_len \in Nat
      /\ q.expected \in Nat /\ q.next_expected \in Nat /\ q.accepted \in Nat
  BY DEF RequestRecords, InBatch
<1>3. q.state \in {"PREFILLING", "RECOMPUTATION", "DECODING"}
  BY DEF InBatch, Prefills
<1>4. c = CompleteGenerationStep(r, q)
  BY DEF CompleteGenerationStep
<1>5. /\ k \in Nat
      /\ q.state = "DECODING" => k = q.accepted /\ q.accepted >= 1 /\ q.accepted <= OutputTokens[r] - q.decoded
      /\ q.state = "PREFILLING" => k = 1 /\ q.decoded = 0
      /\ q.state = "RECOMPUTATION" => k = 0
  BY <1>1, <1>2, <1>3 DEF InBatch, Prefills, DecodeReady, GeneratedTokens, Min2, Max2
<1> HIDE DEF k
<1>6. d \in Nat /\ d <= OutputTokens[r]
  BY <1>1, <1>2, <1>3, <1>5
<1>7. x \in Nat
  <2>1. d * Scale \in Nat
    <3> HIDE DEF d
    <3> QED BY <1>1, <1>6
  <2> HIDE DEF d
  <2> QED BY <1>2, <1>3, <2>1 DEF Max2
<1> HIDE DEF x
<1>8. /\ c \in RequestRecords /\ c.state = q.state /\ c.decoded = d /\ c.seq_len = q.seq_len
      /\ c.query_len = q.query_len
      /\ c.need_kv_transfer = q.need_kv_transfer /\ c.kv_transfer_done = q.kv_transfer_done
  <2> HIDE DEF d
  <2> QED BY <1>6, <1>7 DEF RequestRecords
<1> HIDE DEF c
<1>9. CASE q.state = "DECODING"
  <2>1. g = [c EXCEPT !.seq_len = @ - (c.query_len - k)]
    BY <1>4, <1>9 DEF GeneratedRecord, k
  <2>2. /\ q.query_len = DecodeQueryLen /\ held + DecodeQueryLen = q.seq_len + q.accepted
        /\ q.seq_len <= InputTokens[r] + q.decoded + DecodeQueryLen
    BY <1>9 DEF InBatch, Prefills
  <2>3. c.seq_len - (c.query_len - k) = held
    BY <1>1, <1>2, <1>5, <1>8, <1>9, <2>2
  <2>4. /\ g \in RequestRecords /\ g.state = q.state /\ g.decoded = d /\ g.seq_len = held
        /\ g.need_kv_transfer = q.need_kv_transfer /\ g.kv_transfer_done = q.kv_transfer_done
    BY <1>8, <2>1, <2>3 DEF RequestRecords
  <2>5. held <= InputTokens[r] + d
    BY <1>1, <1>2, <1>5, <1>9, <2>2
  <2>6. d = q.decoded + q.accepted
    BY <1>5, <1>9
  <2> HIDE DEF d
  <2> QED BY <1>6, <1>9, <2>4, <2>5, <2>6
<1>10. CASE q.state # "DECODING"
  <2>1. g = c
    BY <1>4, <1>10 DEF GeneratedRecord
  <2>2. Prefills(r, q) /\ held = q.seq_len
    BY <1>10 DEF InBatch
  <2>3. held = InputTokens[r] + q.decoded /\ (q.state = "PREFILLING" => ~ q.kv_transfer_done)
    BY <1>1, <1>2, <2>2 DEF Prefills
  <2>4. q.state = "PREFILLING" => held = InputTokens[r] /\ d = 1 /\ held <= InputTokens[r] + d
    BY <1>1, <1>5, <2>3
  <2>5. q.state = "RECOMPUTATION" => d = q.decoded /\ d < OutputTokens[r] /\ held <= InputTokens[r] + d
    BY <1>1, <1>2, <1>5, <2>3
  <2>6. ~ (d >= OutputTokens[r] /\ d < OutputTokens[r])
    BY <1>1, <1>6
  <2> HIDE DEF d
  <2> QED BY <1>3, <1>6, <1>8, <1>10, <2>1, <2>2, <2>3, <2>4, <2>5, <2>6
<1> QED BY <1>9, <1>10

LEMMA RecordPrepared ==
  ASSUME NEW r \in Requests, NEW q \in RequestRecords, q.decoded < OutputTokens[r],
         NEW p, p = PrepareDecodeStep(r, q)
  PROVE  /\ p \in RequestRecords
         /\ DecodeReady(r, p) /\ p.new_tokens = DecodeQueryLen
         /\ p.state = q.state /\ p.decoded = q.decoded /\ p.seq_len = q.seq_len
         /\ p.need_kv_transfer = q.need_kv_transfer /\ p.kv_transfer_done = q.kv_transfer_done
<1> DEFINE all  == OutputTokens[r] * Scale
           next == Min2(all, q.expected + AvgDecodeTokens)
           w    == next \div Scale
           a    == Max2(1, w - q.decoded)
<1>1. /\ OutputTokens[r] \in Nat /\ Scale \in Nat \ {0} /\ AvgDecodeTokens \in Nat
      /\ DecodeQueryLen \in Nat /\ q.expected \in Nat /\ q.decoded \in Nat
  BY Sized DEF RequestsAreSized, RequestRecords
<1>2. all \in Nat
  BY <1>1
<1>3. next \in Nat /\ next <= all
  <2> HIDE DEF all
  <2> QED BY <1>1, <1>2 DEF Min2
<1>4. w \in Nat /\ Scale * w <= next
  <2> HIDE DEF next
  <2> QED BY <1>1, <1>3, DivBounds
<1>5. w <= OutputTokens[r]
  <2> DEFINE sw == Scale * w
  <2>1. SUFFICES ASSUME w >= OutputTokens[r] + 1 PROVE FALSE
    <3> HIDE DEF w
    <3> QED BY <1>1, <1>4
  <2>2. sw >= Scale * (OutputTokens[r] + 1)
    <3> HIDE DEF w
    <3> QED BY <1>1, <1>4, <2>1
  <2>3. Scale * (OutputTokens[r] + 1) = all + Scale
    BY <1>1
  <2>4. sw <= all /\ sw \in Int
    <3> HIDE DEF w, next, all
    <3> QED BY <1>1, <1>2, <1>3, <1>4
  <2> HIDE DEF sw, all
  <2> QED BY <1>1, <1>2, <2>2, <2>3, <2>4
<1>6. p = [q EXCEPT !.accepted = a, !.next_expected = next, !.new_tokens = DecodeQueryLen]
  BY DEF PrepareDecodeStep
<1> HIDE DEF w
<1>7. a \in Nat /\ a >= 1 /\ a <= OutputTokens[r] - q.decoded
  BY <1>1, <1>4, <1>5 DEF Max2
<1> HIDE DEF next, a
<1>8. /\ p \in RequestRecords
      /\ p.new_tokens = DecodeQueryLen /\ p.accepted = a
      /\ p.state = q.state /\ p.decoded = q.decoded /\ p.seq_len = q.seq_len
      /\ p.need_kv_transfer = q.need_kv_transfer /\ p.kv_transfer_done = q.kv_transfer_done
  BY <1>1, <1>3, <1>6, <1>7 DEF RequestRecords
<1> QED BY <1>7, <1>8 DEF DecodeReady

(* What PostDecoding stores. *)
LEMMA RecordGoesOn ==
  ASSUME NEW r \in Requests, NEW q \in RequestRecords, NEW held \in Nat, InBatch(r, q, held),
         q.new_tokens = 0, GeneratedRecord(r, q).decoded < OutputTokens[r],
         NEW p, p = PrepareDecodeStep(r, GeneratedRecord(r, q)),
         NEW o, o = IF q.state = "DECODING" THEN p
                    ELSE WithState(WithState(p, "PREFILL_DONE"), "DECODING")
  PROVE  o \in RequestRecords /\ InRunning(r, o, held) /\ o.state = "DECODING"
<1> DEFINE g == GeneratedRecord(r, q)
<1>1. /\ g \in RequestRecords /\ g.state = q.state /\ g.seq_len = held
      /\ g.seq_len <= InputTokens[r] + g.decoded
  BY RecordGenerated
<1> HIDE DEF g
<1>2. /\ p \in RequestRecords
      /\ DecodeReady(r, p) /\ p.new_tokens = DecodeQueryLen
      /\ p.state = g.state /\ p.decoded = g.decoded /\ p.seq_len = g.seq_len
  BY <1>1, RecordPrepared DEF g
<1>3. /\ o \in RequestRecords /\ o.state = "DECODING"
      /\ o.new_tokens = p.new_tokens /\ o.accepted = p.accepted
      /\ o.decoded = p.decoded /\ o.seq_len = p.seq_len
  BY <1>1, <1>2 DEF WithState, RequestRecords, RequestStates
<1>4. DecodeQueryLen \in Nat \ {0} /\ g.decoded < OutputTokens[r]
  BY Sized DEF RequestsAreSized, g
<1> QED BY <1>1, <1>2, <1>3, <1>4 DEF InRunning, DecodeReady

(* What PostHandOff stores. *)
LEMMA RecordHandedOver ==
  ASSUME NEW r \in Requests, NEW q \in RequestRecords, NEW held \in Nat, InBatch(r, q, held),
         q.new_tokens = 0, GeneratedRecord(r, q).decoded < OutputTokens[r],
         q.state = "PREFILLING", q.need_kv_transfer,
         NEW o, o = WithState(PrepareDecodeStep(r, GeneratedRecord(r, q)), "PREFILL_DONE")
  PROVE  o \in RequestRecords /\ InChannel(r, o)
<1> DEFINE g == GeneratedRecord(r, q)
           p == PrepareDecodeStep(r, g)
<1>1. /\ g \in RequestRecords /\ g.state = q.state /\ g.seq_len = InputTokens[r] /\ g.decoded = 1
      /\ g.need_kv_transfer /\ ~ g.kv_transfer_done
  <2>1. /\ g \in RequestRecords /\ g.state = q.state /\ g.seq_len = InputTokens[r] /\ g.decoded = 1
        /\ g.need_kv_transfer <=> q.need_kv_transfer
        /\ g.kv_transfer_done <=> q.kv_transfer_done
    BY RecordGenerated
  <2>2. ~ q.kv_transfer_done
    BY DEF InBatch, Prefills
  <2> QED BY <2>1, <2>2
<1>2. g.decoded < OutputTokens[r]
  OBVIOUS
<1> HIDE DEF g
<1>3. /\ p \in RequestRecords
      /\ DecodeReady(r, p) /\ p.new_tokens = DecodeQueryLen
      /\ p.decoded = g.decoded /\ p.seq_len = g.seq_len
      /\ p.need_kv_transfer = g.need_kv_transfer /\ p.kv_transfer_done = g.kv_transfer_done
  BY <1>1, <1>2, RecordPrepared
<1>4. o = WithState(p, "PREFILL_DONE")
  BY DEF g
<1> HIDE DEF p
<1>5. /\ o \in RequestRecords /\ o.state = "PREFILL_DONE"
      /\ o.new_tokens = p.new_tokens /\ o.accepted = p.accepted
      /\ o.decoded = p.decoded /\ o.seq_len = p.seq_len
      /\ o.need_kv_transfer = p.need_kv_transfer /\ o.kv_transfer_done = p.kv_transfer_done
  BY <1>3, <1>4 DEF WithState, RequestRecords, RequestStates
<1>6. 1 \in Nat /\ g.decoded >= 1
  BY <1>1
<1> QED BY <1>1, <1>2, <1>3, <1>5, <1>6 DEF InChannel, HandedOver, DecodeReady

(* What PostFinished stores. *)
LEMMA RecordFinished ==
  ASSUME NEW r \in Requests, NEW q \in RequestRecords, NEW held \in Nat, InBatch(r, q, held),
         q.new_tokens = 0, GeneratedRecord(r, q).decoded >= OutputTokens[r],
         NEW p, p = IF q.state = "PREFILLING" THEN WithState(GeneratedRecord(r, q), "PREFILL_DONE")
                    ELSE GeneratedRecord(r, q),
         NEW o, o = WithState(p, "DECODE_DONE")
  PROVE  /\ o \in RequestRecords /\ o.state = "DECODE_DONE"
         /\ o.decoded = OutputTokens[r]
<1> DEFINE g == GeneratedRecord(r, q)
<1>1. g \in RequestRecords /\ g.decoded <= OutputTokens[r]
  BY RecordGenerated
<1>2. g.decoded >= OutputTokens[r]
  OBVIOUS
<1>3. p = IF q.state = "PREFILLING" THEN WithState(g, "PREFILL_DONE") ELSE g
  OBVIOUS
<1> HIDE DEF g
<1>4. OutputTokens[r] \in Nat /\ g.decoded \in Nat
  BY <1>1, Sized DEF RequestsAreSized, RequestRecords
<1>5. g.decoded = OutputTokens[r]
  BY <1>1, <1>2, <1>4
<1> QED BY <1>1, <1>3, <1>5 DEF WithState, RequestRecords, RequestStates

(***************************************************************************)
(* Steps of one engine do not disturb the others.                          *)
(***************************************************************************)

(* Only engine e and the record of r change. *)
StepOn(e, r) ==
    /\ \A x \in Requests \ {r} : req'[x] = req[x]
    /\ \A f \in Engines \ {e} :
          /\ running'[f] = running[f] /\ waiting'[f] = waiting[f] /\ tracked'[f] = tracked[f]
          /\ slots'[f] = slots[f] /\ free_blocks'[f] = free_blocks[f]
          /\ sched'[f] = sched[f]

LEMMA TypesAt ==
  ASSUME SchedTypeOK, NEW e \in Engines
  PROVE  /\ running[e] \in Seq(Requests) /\ waiting[e] \in Seq(Requests)
         /\ d2d[e] \in Seq(Requests)
         /\ tracked[e] \subseteq Requests
         /\ slots[e] \in [Requests -> Nat] /\ free_blocks[e] \in Nat
         /\ sched[e] \in Locals /\ sched[e].pc \in Stages /\ sched[e].index \in Nat
         /\ sched[e].budget \in Nat /\ sched[e].batch \in Seq(Requests)
         /\ Running(e) \subseteq Requests /\ Waiting(e) \subseteq Requests
         /\ Batch(e) \subseteq Requests /\ Channel(e) \subseteq Requests
         /\ IsFiniteSet(Batch(e)) /\ IsFiniteSet(Requests)
<1>1. /\ running[e] \in Seq(Requests) /\ waiting[e] \in Seq(Requests)
      /\ d2d[e] \in Seq(Requests)
      /\ tracked[e] \subseteq Requests
      /\ slots[e] \in [Requests -> Nat] /\ free_blocks[e] \in Nat
      /\ sched[e] \in Locals
  BY DEF SchedTypeOK
<1>2. /\ sched[e].pc \in Stages /\ sched[e].index \in Nat
      /\ sched[e].budget \in Nat /\ sched[e].batch \in Seq(Requests)
  BY <1>1 DEF Locals
<1>3. /\ Running(e) \subseteq Requests /\ Waiting(e) \subseteq Requests
      /\ Batch(e) \subseteq Requests /\ Channel(e) \subseteq Requests
  BY <1>1, <1>2, QueueElements DEF Running, Waiting, Batch, Channel
<1>4. IsFiniteSet(Requests)
  BY RequestAssumption
<1>5. IsFiniteSet(Batch(e))
  BY <1>3, <1>4, FS_Subset
<1> QED BY <1>1, <1>2, <1>3, <1>4, <1>5

(* Sums over requests that the step does not touch. *)
LEMMA SameTokens ==
  ASSUME NEW B \in SUBSET Requests, NEW r, r \notin B,
         \A x \in Requests \ {r} : req'[x] = req[x]
  PROVE  SumOn([x \in Requests |-> req'[x].query_len], B) = SumOn([x \in Requests |-> req[x].query_len], B)
<1>1. IsFiniteSet(B)
  BY RequestAssumption, FS_Subset
<1> DEFINE f == [x \in Requests |-> req[x].query_len]
           g == [x \in Requests |-> req'[x].query_len]
<1>2. \A x \in B : g[x] = f[x]
  OBVIOUS
<1> HIDE DEF f, g
<1>3. SumOn(g, B) = SumOn(f, B)
  BY <1>1, <1>2, SumCongruent
<1> QED BY <1>3 DEF f, g

LEMMA EngineUntouched ==
  ASSUME SchedTypeOK, NEW f \in Engines, EngineInv(f), NEW r, r \notin tracked[f],
         running'[f] = running[f], waiting'[f] = waiting[f], tracked'[f] = tracked[f],
         slots'[f] = slots[f], free_blocks'[f] = free_blocks[f], sched'[f] = sched[f],
         \A x \in Requests \ {r} : req'[x] = req[x]
  PROVE  EngineInv(f)'
<1>1. /\ running'[f] = running[f] /\ waiting'[f] = waiting[f] /\ tracked'[f] = tracked[f]
      /\ slots'[f] = slots[f] /\ free_blocks'[f] = free_blocks[f] /\ sched'[f] = sched[f]
      /\ \A x \in Requests \ {r} : req'[x] = req[x]
  OBVIOUS
<1>2. Running(f)' = Running(f) /\ Waiting(f)' = Waiting(f) /\ Batch(f)' = Batch(f)
  BY <1>1 DEF Running, Waiting, Batch
<1>3. Seated(f)'
  BY <1>1, <1>2 DEF EngineInv, Seated
<1>4. /\ Running(f) \subseteq tracked[f] /\ Waiting(f) \subseteq tracked[f]
      /\ Batch(f) \subseteq tracked[f] /\ tracked[f] \subseteq Requests
  BY TypesAt DEF EngineInv, Seated
<1>5. \A x \in tracked[f] : req'[x] = req[x]
  BY <1>1, <1>4
<1>6. Healthy(f)'
  <2>1. \A x \in Requests \ tracked'[f] : slots'[f][x] = 0
    BY <1>1 DEF EngineInv, Healthy
  <2>2. \A x \in Waiting(f)' : InQueue(x, req'[x], slots'[f][x])
    BY <1>1, <1>2, <1>4, <1>5 DEF EngineInv, Healthy
  <2>3. \A x \in Running(f)' \ Batch(f)' : InRunning(x, req'[x], slots'[f][x])
    BY <1>1, <1>2, <1>4, <1>5 DEF EngineInv, Healthy
  <2>4. \A x \in Batch(f)' : InBatch(x, req'[x], slots'[f][x])
    BY <1>1, <1>2, <1>4, <1>5 DEF EngineInv, Healthy
  <2>5. \A x \in tracked'[f] : Admissible(f, x)
    BY <1>1 DEF EngineInv, Healthy
  <2> QED BY <2>1, <2>2, <2>3, <2>4, <2>5 DEF Healthy, Admissible, Capacity
<1>7. BatchTokens(f)' = BatchTokens(f)
  BY <1>1, <1>2, <1>4, SameTokens DEF BatchTokens
<1>8. HeldBlocks(f)' = HeldBlocks(f)
  BY <1>1 DEF HeldBlocks
<1>9. Accounted(f)'
  BY <1>1, <1>7, <1>8 DEF EngineInv, Accounted
<1> QED BY <1>3, <1>6, <1>9 DEF EngineInv

LEMMA OtherEngines ==
  ASSUME SchedTypeOK, NEW e \in Engines, NEW r, StepOn(e, r),
         NEW f \in Engines, f # e, EngineInv(f), r \notin tracked[f]
  PROVE  EngineInv(f)'
BY EngineUntouched DEF StepOn

(* A step of engine e on one of its requests keeps the whole invariant if  *)
(* it keeps what is said of e.                                             *)
LEMMA StepKeeps ==
  ASSUME SchedInv, NEW e \in Engines, NEW r \in tracked[e], StepOn(e, r),
         SchedTypeOK', EngineInv(e)', tracked'[e] \subseteq tracked[e], d2d' = d2d,
         req'[r].state # "INITIAL",
         req'[r].state = "DECODE_DONE" => req'[r].decoded = OutputTokens[r]
  PROVE  SchedInv'
<1>1. SchedTypeOK /\ Apart
  BY DEF SchedInv
<1>2. \A f \in Engines \ {e} : r \notin tracked[f]
  BY <1>1 DEF Apart
<1>3. \A f \in Engines : EngineInv(f)'
  <2>1. TAKE f \in Engines
  <2>2. CASE f # e
    BY <1>1, <1>2, <2>2, OtherEngines DEF SchedInv
  <2> QED BY <2>2
<1>4. \A f \in Engines : Channel(f)' = Channel(f) /\ Channel(f) \subseteq Requests /\ r \notin Channel(f)
  BY <1>1, TypesAt DEF Apart, Channel
<1>5. \A f \in Engines : tracked'[f] \subseteq tracked[f]
  BY DEF StepOn
<1>6. \A x \in Requests \ {r} : req'[x] = req[x]
  BY DEF StepOn
<1>7. Apart'
  <2>1. \A f \in Engines : IsInjective(d2d'[f])
    BY <1>1 DEF Apart
  <2>2. \A f, g \in Engines : tracked'[f] \cap Channel(g)' = {}
    BY <1>1, <1>4, <1>5 DEF Apart
  <2>3. \A f, g \in Engines : f # g => tracked'[f] \cap tracked'[g] = {} /\ Channel(f)' \cap Channel(g)' = {}
    BY <1>1, <1>4, <1>5 DEF Apart
  <2>4. \A f \in Engines : \A x \in Channel(f)' : InChannel(x, req'[x])
    <3>1. TAKE f \in Engines
    <3>2. TAKE x \in Channel(f)'
    <3>3. x \in Channel(f) /\ x \in Requests \ {r}
      BY <1>4
    <3>4. InChannel(x, req[x])
      BY <1>1, <3>3 DEF Apart
    <3> QED BY <1>6, <3>3, <3>4
  <2>5. \A x \in Requests :
           /\ req'[x].state = "INITIAL" => req'[x] = NewRequest(x)
           /\ req'[x].state = "DECODE_DONE" => req'[x].decoded = OutputTokens[x]
    <3>1. TAKE x \in Requests
    <3>2. CASE x = r
      BY <3>2
    <3>3. CASE x # r
      <4>1. req'[x] = req[x]
        BY <1>6, <3>3
      <4> QED BY <1>1, <4>1 DEF Apart
    <3> QED BY <3>2, <3>3
  <2> QED BY <2>1, <2>2, <2>3, <2>4, <2>5 DEF Apart
<1> QED BY <1>3, <1>7 DEF SchedInv

(***************************************************************************)
(* Steps that change only where a scheduler is.                            *)
(***************************************************************************)

LEMMA LocalStep ==
  ASSUME SchedInv, NEW e \in Engines,
         NEW l \in Locals, sched' = [sched EXCEPT ![e] = l],
         UNCHANGED <<req, waiting, running, tracked, slots, free_blocks, d2d, kv_modeling>>,
         l.batch = sched[e].batch,
         l.pc \in {"ready", "idle", "running"} => l.batch = <<>>,
         l.pc = "running" => l.index = 1,
         l.pc \in {"running", "waiting", "decide"} => BatchTokens(e) + l.budget = MaxTokensBudget,
         l.pc = "execute" => BatchTokens(e) <= MaxTokensBudget
  PROVE  SchedInv'
<1>1. SchedTypeOK /\ Apart /\ \A f \in Engines : EngineInv(f)
  BY DEF SchedInv
<1>2. SchedTypeOK'
  BY <1>1 DEF SchedTypeOK
<1>3. Apart'
  BY <1>1 DEF Apart, Channel
<1>4. sched'[e] = l
  BY <1>1 DEF SchedTypeOK
<1>5. \A f \in Engines : f # e => sched'[f] = sched[f]
  BY <1>1 DEF SchedTypeOK
<1>6. \A f \in Engines : sched'[f].batch = sched[f].batch
  BY <1>4, <1>5
<1>7. \A f \in Engines : Running(f)' = Running(f) /\ Waiting(f)' = Waiting(f) /\ Batch(f)' = Batch(f)
  BY <1>6 DEF Running, Waiting, Batch
<1>8. \A f \in Engines : Healthy(f)'
  BY <1>1, <1>7 DEF EngineInv, Healthy, Admissible, Capacity
<1>9. \A f \in Engines : BatchTokens(f)' = BatchTokens(f) /\ HeldBlocks(f)' = HeldBlocks(f)
  BY <1>7 DEF BatchTokens, HeldBlocks
<1>10. \A f \in Engines : f # e => Seated(f)' /\ Accounted(f)'
  BY <1>1, <1>5, <1>7, <1>9 DEF EngineInv, Seated, Accounted
<1>11. Seated(e)'
  <2>1. Seated(e)
    BY <1>1 DEF EngineInv
  <2>2. /\ IsInjective(running'[e]) /\ IsInjective(waiting'[e]) /\ IsInjective(sched'[e].batch)
        /\ Running(e)' \cap Waiting(e)' = {}
        /\ tracked'[e] = Running(e)' \cup Waiting(e)'
        /\ Batch(e)' \subseteq Running(e)'
    BY <1>6, <1>7, <2>1 DEF Seated
  <2>3. sched'[e].pc \in {"ready", "idle"} => sched'[e].batch = <<>>
    BY <1>4
  <2>4. ASSUME sched'[e].pc = "running"
        PROVE  /\ sched'[e].index = Len(sched'[e].batch) + 1
               /\ Len(sched'[e].batch) <= Len(running'[e])
               /\ \A i \in 1..Len(sched'[e].batch) : sched'[e].batch[i] = running'[e][i]
    <3>1. sched'[e].index = 1 /\ Len(sched'[e].batch) = 0
      BY <1>4, <2>4
    <3>2. Len(running'[e]) \in Nat
      BY <1>1, TypesAt
    <3> QED BY <3>1, <3>2
  <2> QED BY <2>2, <2>3, <2>4 DEF Seated
<1>12. Accounted(e)'
  <2>1. free_blocks[e] + HeldBlocks(e) = NumBlocks[e]
    BY <1>1 DEF EngineInv, Accounted
  <2> QED BY <1>4, <1>9, <2>1 DEF Accounted
<1> QED BY <1>2, <1>3, <1>8, <1>10, <1>11, <1>12 DEF SchedInv, EngineInv

LEMMA EmptyBatchTokens ==
  ASSUME NEW e \in Engines, sched[e].batch = <<>>
  PROVE  BatchTokens(e) = 0
BY SumEmpty, EmptyQueue DEF BatchTokens, Batch

LEMMA LocalSteps ==
  ASSUME SchedInv, NEW e \in Engines,
         \/ Start(e) \/ EndRunning(e) \/ EndWaiting(e) \/ Sleep(e) \/ EndPass(e)
         \/ ProcessBatch(e) \/ EndPost(e)
  PROVE  SchedInv'
<1> DEFINE l == sched[e]
<1>1. SchedTypeOK /\ Seated(e) /\ Accounted(e) /\ sched \in [Engines -> Locals]
  BY DEF SchedInv, EngineInv, SchedTypeOK
<1>2. /\ l \in Locals /\ l.pc \in Stages /\ l.index \in Nat
      /\ l.budget \in Nat /\ l.batch \in Seq(Requests)
  BY <1>1, TypesAt
<1>3. /\ NewPass \in Locals /\ NewPass.pc = "running" /\ NewPass.index = 1
      /\ NewPass.budget = MaxTokensBudget /\ NewPass.batch = <<>>
  BY SchedulerAssumption DEF NewPass, Locals, Stages
<1>4. \A s \in Stages : LET o == Outside(s, l.batch)
                        IN  o \in Locals /\ o.pc = s /\ o.batch = l.batch
  BY <1>2, SchedulerAssumption DEF Outside, Locals
<1>5. \A s \in Stages : LET o == [l EXCEPT !.pc = s]
                        IN  /\ o \in Locals /\ o.pc = s /\ o.batch = l.batch /\ o.budget = l.budget
                            /\ [sched EXCEPT ![e].pc = s] = [sched EXCEPT ![e] = o]
  BY <1>1, <1>2 DEF Locals
<1>6. MaxTokensBudget \in Nat
  BY SchedulerAssumption
<1>7. ASSUME l.batch = <<>>, sched' = [sched EXCEPT ![e] = NewPass],
             UNCHANGED <<req, waiting, running, tracked, slots, free_blocks, d2d, kv_modeling>>
      PROVE  SchedInv'
  <2>1. BatchTokens(e) + NewPass.budget = MaxTokensBudget
    BY <1>3, <1>6, <1>7, EmptyBatchTokens
  <2> QED BY <1>3, <1>7, <2>1, LocalStep
<1>8. ASSUME NEW s \in {"waiting", "decide", "post"}, sched' = [sched EXCEPT ![e].pc = s],
             l.pc \in {"running", "waiting"} \/ s = "post",
             UNCHANGED <<req, waiting, running, tracked, slots, free_blocks, d2d, kv_modeling>>
      PROVE  SchedInv'
  <2> DEFINE o == [l EXCEPT !.pc = s]
  <2>1. /\ o \in Locals /\ o.pc = s /\ o.batch = l.batch /\ o.budget = l.budget
        /\ sched' = [sched EXCEPT ![e] = o]
    BY <1>5, <1>8 DEF Stages
  <2>2. s # "post" => BatchTokens(e) + o.budget = MaxTokensBudget
    BY <1>1, <1>8, <2>1 DEF Accounted
  <2> HIDE DEF o
  <2> QED BY <1>8, <2>1, <2>2, LocalStep
<1>9. CASE Start(e)
  BY <1>1, <1>7, <1>9 DEF Start, AtStage, Seated
<1>10. CASE EndRunning(e)
  BY <1>8, <1>10 DEF EndRunning, AtStage
<1>11. CASE EndWaiting(e)
  BY <1>8, <1>11 DEF EndWaiting, AtStage
<1>12. CASE Sleep(e)
  <2>1. Batch(e) = {} /\ running[e] = <<>>
    BY <1>1, <1>12, EmptyQueue DEF Sleep, Seated, Running
  <2>2. l.batch = <<>>
    BY <1>2, <2>1, QueueElements DEF Batch
  <2> DEFINE o == Outside("idle", l.batch)
  <2>3. o \in Locals /\ o.pc = "idle" /\ o.batch = l.batch /\ sched' = [sched EXCEPT ![e] = o]
    BY <1>4, <1>12, <2>2 DEF Sleep, Stages, Yielded
  <2> HIDE DEF o
  <2> QED BY <1>12, <2>2, <2>3, LocalStep DEF Sleep
<1>13. CASE EndPass(e)
  <2>1. CASE l.batch = <<>>
    BY <1>7, <1>13, <2>1 DEF EndPass
  <2>2. CASE l.batch # <<>>
    <3> DEFINE o == Outside("execute", l.batch)
    <3>1. o \in Locals /\ o.pc = "execute" /\ o.batch = l.batch /\ sched' = [sched EXCEPT ![e] = o]
      BY <1>4, <1>13, <2>2 DEF EndPass, Stages, Yielded
    <3>2. BatchTokens(e) + l.budget = MaxTokensBudget
      BY <1>1, <1>13 DEF EndPass, AtStage, Accounted
    <3>3. BatchTokens(e) \in Nat
      <4>1. IsFiniteSet(Batch(e)) /\ Batch(e) \subseteq Requests
        BY <1>1, TypesAt
      <4> DEFINE f == [r \in Requests |-> req[r].query_len]
      <4>2. \A r \in Batch(e) : f[r] \in Nat
        BY <1>1, <4>1 DEF SchedTypeOK, RequestRecords
      <4> HIDE DEF f
      <4>3. SumOn(f, Batch(e)) \in Nat
        BY <4>1, <4>2, SumNat
      <4> QED BY <4>3 DEF BatchTokens, f
    <3>4. BatchTokens(e) <= MaxTokensBudget
      BY <1>2, <1>6, <3>2, <3>3
    <3> HIDE DEF o
    <3> QED BY <1>13, <3>1, <3>4, LocalStep DEF EndPass
  <2> QED BY <2>1, <2>2
<1>14. CASE ProcessBatch(e)
  BY <1>8, <1>14 DEF ProcessBatch, AtStage
<1>15. CASE EndPost(e)
  BY <1>7, <1>15 DEF EndPost, AtStage
<1> QED BY <1>9, <1>10, <1>11, <1>12, <1>13, <1>14, <1>15

(***************************************************************************)
(* Scheduling a request.                                                   *)
(***************************************************************************)

LEMMA ArrayUpdate ==
  ASSUME NEW S, NEW T, NEW V, NEW f \in [S -> [T -> V]], NEW s \in S, NEW t \in T, NEW v \in V,
         NEW g, g = [f EXCEPT ![s][t] = v]
  PROVE  /\ g \in [S -> [T -> V]]
         /\ g[s][t] = v
         /\ \A u \in T \ {t} : g[s][u] = f[s][u]
         /\ \A x \in S \ {s} : g[x] = f[x]
OBVIOUS

(* The pool when the slots of r go from held to n and the count of free    *)
(* blocks follows.                                                         *)
LEMMA PoolUpdate ==
  ASSUME SchedTypeOK, NEW e \in Engines, free_blocks[e] + HeldBlocks(e) = NumBlocks[e],
         NEW r \in Requests, NEW n \in Nat,
         slots'[e] = [slots[e] EXCEPT ![r] = n],
         free_blocks'[e] = free_blocks[e] - BlocksFor(n) + BlocksFor(slots[e][r])
  PROVE  free_blocks'[e] + HeldBlocks(e)' = NumBlocks[e]
<1> DEFINE f == [x \in Requests |-> BlocksFor(slots[e][x])]
           g == [x \in Requests |-> BlocksFor(slots'[e][x])]
<1>1. slots[e] \in [Requests -> Nat] /\ free_blocks[e] \in Nat /\ IsFiniteSet(Requests)
  BY TypesAt
<1>2. slots'[e][r] = n /\ \A x \in Requests \ {r} : slots'[e][x] = slots[e][x]
  BY <1>1
<1>3. \A x \in Requests : f[x] \in Nat
  BY <1>1, BlocksForBounds
<1>4. g[r] = BlocksFor(n) /\ f[r] = BlocksFor(slots[e][r]) /\ \A x \in Requests \ {r} : g[x] = f[x]
  BY <1>2
<1>5. BlocksFor(n) \in Nat /\ g[r] \in Nat
  BY <1>4, BlocksForBounds
<1> HIDE DEF f, g
<1>6. SumOn(g, Requests) = SumOn(f, Requests) - f[r] + g[r]
  <2>1. IsFiniteSet(Requests) /\ g[r] \in Nat /\ \A x \in Requests \ {r} : g[x] = f[x]
    BY <1>1, <1>4, <1>5
  <2> QED BY <1>3, <2>1, SumUpdate
<1>7. SumOn(f, Requests) \in Nat
  BY <1>1, <1>3, SumNat
<1>8. HeldBlocks(e) = SumOn(f, Requests) /\ HeldBlocks(e)' = SumOn(g, Requests)
  BY DEF HeldBlocks, f, g
<1> DEFINE a == SumOn(f, Requests)
           b == SumOn(g, Requests)
           c == BlocksFor(n)
           d == BlocksFor(slots[e][r])
<1>9. a \in Nat /\ b = a - d + c /\ c \in Nat /\ d \in Nat
  BY <1>3, <1>4, <1>5, <1>6, <1>7
<1>10. free_blocks'[e] = free_blocks[e] - c + d /\ free_blocks[e] + a = NumBlocks[e]
  BY <1>8
<1> HIDE DEF a, b, c, d
<1>11. free_blocks'[e] + b = NumBlocks[e]
  BY <1>1, <1>9, <1>10
<1> QED BY <1>8, <1>11 DEF b

(* What one call of Schedule changes. *)
Scheduled(e, r) ==
    /\ req' \in [Requests -> RequestRecords]
    /\ slots' \in [Engines -> [Requests -> Nat]]
    /\ free_blocks' \in [Engines -> Nat]
    /\ sched' \in [Engines -> Locals]
    /\ \A x \in Requests \ {r} : req'[x] = req[x] /\ slots'[e][x] = slots[e][x]
    /\ \A f \in Engines \ {e} :
          slots'[f] = slots[f] /\ free_blocks'[f] = free_blocks[f] /\ sched'[f] = sched[f]
    /\ InBatch(r, req'[r], slots'[e][r])
    /\ req'[r].state \notin {"INITIAL", "DECODE_DONE"}
    /\ sched'[e].pc = sched[e].pc /\ sched'[e].batch = Append(sched[e].batch, r)
    /\ sched'[e].index = IF AtStage(e, "running") THEN sched[e].index + 1 ELSE sched[e].index
    /\ Batch(e)' = Batch(e) \cup {r}
    /\ IsInjective(sched'[e].batch)
    /\ Accounted(e)'

LEMMA ScheduleEffect ==
  ASSUME SchedInv, NEW e \in Engines, NEW r \in tracked[e], r \notin Batch(e),
         ~ AwaitsKvs(r), sched[e].budget > 0, sched[e].pc \in {"running", "waiting"},
         Schedulable(e, r), Schedule(e, r)
  PROVE  Scheduled(e, r)
<1> DEFINE n    == Computed(e, r)
           k    == KvTokens(e, r)
           held == slots[e][r]
           l    == sched[e]
           q    == req[r]
<1>1. /\ SchedTypeOK /\ Seated(e) /\ Healthy(e) /\ Accounted(e)
      /\ r \in Requests
  BY TypesAt DEF SchedInv, EngineInv
<1>2. /\ q \in RequestRecords /\ held \in Nat /\ l.budget \in Nat /\ l.budget > 0
      /\ l \in Locals /\ l.batch \in Seq(Requests) /\ l.index \in Nat /\ free_blocks[e] \in Nat
  BY <1>1, TypesAt DEF SchedTypeOK
<1>3. \/ InRunning(r, q, held)
      \/ InQueue(r, q, held) /\ q.state # "KVS_TRANSFERRING"
  <2>1. CASE r \in Running(e)
    BY <1>1, <2>1 DEF Healthy
  <2>2. CASE r \in Waiting(e)
    <3>1. InQueue(r, q, held)
      BY <1>1, <2>2 DEF Healthy
    <3>2. q.state # "KVS_TRANSFERRING"
      BY <3>1 DEF InQueue, Prefills, HandedOver, AwaitsKvs
    <3> QED BY <3>1, <3>2
  <2> QED BY <1>1, <2>1, <2>2 DEF Seated
<1>4. /\ n = Min2(l.budget, q.new_tokens)
      /\ k = IF q.state = "DECODING" THEN q.accepted ELSE n
      /\ ~ (q.state = "DECODING" /\ l.budget < q.new_tokens)
  BY DEF Computed, KvTokens, Schedulable, WindowBlocked
<1>5. /\ n \in Nat \ {0} /\ n <= l.budget /\ k \in Nat
      /\ ScheduledRecord(q, n) \in RequestRecords
      /\ ScheduledRecord(q, n).query_len = n
      /\ ScheduledRecord(q, n).state \notin {"INITIAL", "DECODE_DONE"}
      /\ InBatch(r, ScheduledRecord(q, n), held + k)
  <2> HIDE DEF n, k, q, held, l
  <2> QED BY <1>1, <1>2, <1>3, <1>4, RecordScheduled
<1>6. req' = [req EXCEPT ![r] = ScheduledRecord(q, n)]
  <2>1. req' = [req EXCEPT ![r].query_len = n, ![r].seq_len = @ + n, ![r].new_tokens = @ - n]
    BY DEF Schedule
  <2> HIDE DEF n
  <2> QED BY <1>1, <1>2, <2>1 DEF ScheduledRecord, SchedTypeOK, RequestRecords
<1>7. sched' = [sched EXCEPT ![e] = [l EXCEPT !.budget = @ - n, !.batch = Append(@, r),
                                              !.index = IF AtStage(e, "running") THEN @ + 1 ELSE @]]
  <2>1. sched' = [sched EXCEPT ![e].budget = @ - n,
                               ![e].batch = Append(@, r),
                               ![e].index = IF AtStage(e, "running") THEN @ + 1 ELSE @]
    BY DEF Schedule
  <2> HIDE DEF n
  <2> QED BY <1>1, <1>2, <2>1 DEF SchedTypeOK, Locals
<1>8. /\ slots' = [slots EXCEPT ![e][r] = held + k]
      /\ free_blocks' = [free_blocks EXCEPT ![e] = @ - (BlocksFor(held + k) - BlocksFor(held))]
      /\ BlocksFor(held + k) - BlocksFor(held) <= free_blocks[e]
  BY DEF Schedule, Allocate, NewBlocks, Schedulable, Fits
<1> HIDE DEF n, k
<1>9. /\ req' \in [Requests -> RequestRecords] /\ req'[r] = ScheduledRecord(q, n)
      /\ \A x \in Requests \ {r} : req'[x] = req[x]
  BY <1>1, <1>5, <1>6 DEF SchedTypeOK
<1>10. /\ slots' \in [Engines -> [Requests -> Nat]] /\ slots'[e][r] = held + k
       /\ \A x \in Requests \ {r} : slots'[e][x] = slots[e][x]
       /\ \A f \in Engines \ {e} : slots'[f] = slots[f]
  <2>1. held + k \in Nat /\ slots \in [Engines -> [Requests -> Nat]]
    BY <1>1, <1>2, <1>5 DEF SchedTypeOK
  <2> HIDE DEF held
  <2> QED BY <1>1, <1>8, <2>1, ArrayUpdate
<1>11. BlocksFor(held) \in Nat /\ BlocksFor(held + k) \in Nat
  <2>1. held \in Nat /\ held + k \in Nat
    BY <1>2, <1>5
  <2> HIDE DEF held
  <2> QED BY <2>1, BlocksForBounds
<1>12. /\ free_blocks' \in [Engines -> Nat]
       /\ free_blocks'[e] = free_blocks[e] - BlocksFor(held + k) + BlocksFor(held)
       /\ \A f \in Engines \ {e} : free_blocks'[f] = free_blocks[f]
  <2> DEFINE a == BlocksFor(held)
             b == BlocksFor(held + k)
  <2>1. a \in Nat /\ b \in Nat /\ b - a <= free_blocks[e] /\ free_blocks \in [Engines -> Nat]
        /\ free_blocks' = [free_blocks EXCEPT ![e] = @ - (b - a)]
    BY <1>1, <1>8, <1>11 DEF SchedTypeOK
  <2> HIDE DEF a, b
  <2>2. free_blocks[e] - (b - a) \in Nat /\ free_blocks[e] - (b - a) = free_blocks[e] - b + a
    BY <1>2, <2>1
  <2>3. free_blocks' \in [Engines -> Nat] /\ free_blocks'[e] = free_blocks[e] - b + a
    BY <2>1, <2>2
  <2> QED BY <2>1, <2>3 DEF a, b
<1>13. /\ Append(l.batch, r) \in Seq(Requests)
       /\ ToSet(Append(l.batch, r)) = ToSet(l.batch) \cup {r}
       /\ IsInjective(Append(l.batch, r))
  BY <1>1, <1>2, QueueAppend DEF Seated, Batch
<1>14. /\ sched' \in [Engines -> Locals]
       /\ sched'[e].pc = l.pc /\ sched'[e].batch = Append(l.batch, r)
       /\ sched'[e].budget = l.budget - n
       /\ sched'[e].index = IF AtStage(e, "running") THEN l.index + 1 ELSE l.index
       /\ \A f \in Engines \ {e} : sched'[f] = sched[f]
  <2>1. l.budget - n \in Nat
    BY <1>2, <1>5
  <2> DEFINE o == [l EXCEPT !.budget = @ - n, !.batch = Append(@, r),
                            !.index = IF AtStage(e, "running") THEN @ + 1 ELSE @]
  <2>2. /\ o \in Locals /\ o.pc = l.pc /\ o.batch = Append(l.batch, r) /\ o.budget = l.budget - n
        /\ o.index = IF AtStage(e, "running") THEN l.index + 1 ELSE l.index
    <3> DEFINE i == IF AtStage(e, "running") THEN l.index + 1 ELSE l.index
    <3>1. i \in Nat /\ o = [l EXCEPT !.budget = @ - n, !.batch = Append(@, r), !.index = i]
      BY <1>2
    <3> HIDE DEF l, i, o
    <3>2. o \in Locals /\ o.pc = l.pc /\ o.batch = Append(l.batch, r) /\ o.budget = l.budget - n /\ o.index = i
      BY <1>2, <1>13, <2>1, <3>1 DEF Locals
    <3> QED BY <3>2 DEF i
  <2>3. sched' = [sched EXCEPT ![e] = o] /\ sched \in [Engines -> Locals]
    BY <1>1, <1>7 DEF SchedTypeOK
  <2> HIDE DEF o, l
  <2>4. sched' \in [Engines -> Locals] /\ sched'[e] = o /\ \A f \in Engines \ {e} : sched'[f] = sched[f]
    BY <2>2, <2>3
  <2> QED BY <2>2, <2>4
<1>15. Batch(e)' = Batch(e) \cup {r}
  BY <1>13, <1>14 DEF Batch
<1>16. BatchTokens(e)' = BatchTokens(e) + n /\ BatchTokens(e) \in Nat
  <2> DEFINE f == [x \in Requests |-> req[x].query_len]
             g == [x \in Requests |-> req'[x].query_len]
             B == Batch(e) \cup {r}
  <2>1. Batch(e) \in SUBSET Requests /\ B \in SUBSET Requests /\ IsFiniteSet(Batch(e)) /\ IsFiniteSet(B)
    BY <1>1, TypesAt, RequestAssumption, FS_Subset
  <2>2. \A x \in Requests : f[x] \in Nat /\ g[x] \in Nat
    BY <1>1, <1>9 DEF SchedTypeOK, RequestRecords
  <2>3. g[r] = n
    BY <1>1, <1>5, <1>9
  <2>4. SumOn(g, Batch(e)) = SumOn(f, Batch(e))
    BY <1>9, <2>1, SameTokens
  <2>5. B \ {r} = Batch(e)
    OBVIOUS
  <2> HIDE DEF f, g
  <2>6. SumOn(g, B) = g[r] + SumOn(g, B \ {r})
    <3> HIDE DEF B
    <3>1. r \in B
      BY DEF B
    <3> QED BY <2>1, <2>2, <3>1, SumRemove
  <2>7. SumOn(f, Batch(e)) \in Nat
    BY <2>1, <2>2, SumNat
  <2>8. BatchTokens(e) = SumOn(f, Batch(e)) /\ BatchTokens(e)' = SumOn(g, B)
    BY <1>15 DEF BatchTokens, f, g
  <2>9. SumOn(g, B) = n + SumOn(f, Batch(e))
    BY <2>3, <2>4, <2>5, <2>6
  <2> HIDE DEF B
  <2>10. n + SumOn(f, Batch(e)) = SumOn(f, Batch(e)) + n
    BY <1>5, <2>7
  <2> QED BY <2>7, <2>8, <2>9, <2>10
<1>17. Accounted(e)'
  <2>1. free_blocks'[e] + HeldBlocks(e)' = NumBlocks[e]
    <3>1. slots'[e] = [slots[e] EXCEPT ![r] = held + k]
      BY <1>1, <1>8 DEF SchedTypeOK
    <3>2. held + k \in Nat
      BY <1>2, <1>5
    <3> QED BY <1>1, <1>12, <3>1, <3>2, PoolUpdate DEF Accounted
  <2>2. BatchTokens(e)' + sched'[e].budget = MaxTokensBudget
    <3>1. BatchTokens(e) + l.budget = MaxTokensBudget
      BY <1>1 DEF Accounted
    <3> QED BY <1>2, <1>5, <1>14, <1>16, <3>1
  <2>3. sched'[e].pc \in {"running", "waiting"}
    BY <1>14
  <2> QED BY <2>1, <2>2, <2>3 DEF Accounted
<1> QED BY <1>5, <1>9, <1>10, <1>12, <1>13, <1>14, <1>15, <1>17 DEF Scheduled

LEMMA ScheduleRunningKeeps ==
  ASSUME SchedInv, NEW e \in Engines, ScheduleRunning(e)
  PROVE  SchedInv'
<1> DEFINE r == Current(e)
           b == sched[e].batch
           i == sched[e].index
<1>1. /\ SchedTypeOK /\ Seated(e) /\ Healthy(e) /\ InRunningLoop(e)
      /\ UNCHANGED <<waiting, running, tracked, d2d, kv_modeling>>
  BY DEF SchedInv, EngineInv, ScheduleRunning
<1>2. /\ b \in Seq(Requests) /\ running[e] \in Seq(Requests) /\ i \in Nat /\ Len(b) \in Nat
      /\ Len(running[e]) \in Nat
  BY <1>1, TypesAt
<1>3. i = Len(b) + 1 /\ i <= Len(running[e]) /\ \A j \in 1..Len(b) : b[j] = running[e][j]
  BY <1>1 DEF Seated, InRunningLoop, AtStage
<1>4. r = running[e][i] /\ i \in 1..Len(running[e])
  BY <1>2, <1>3 DEF Current
<1>5. /\ r \in Running(e)
      /\ \A j, k \in 1..Len(running[e]) : running[e][j] = running[e][k] => j = k
  <2>1. /\ ToSet(running[e]) = {running[e][j] : j \in 1..Len(running[e])}
        /\ IsInjective(running[e]) <=>
              \A j, k \in 1..Len(running[e]) : running[e][j] = running[e][k] => j = k
    BY <1>2, QueueElements
  <2> QED BY <1>1, <1>4, <2>1 DEF Running, Seated
<1>6. r \notin Batch(e)
  <2>1. Batch(e) = {b[j] : j \in 1..Len(b)}
    BY <1>2, QueueElements DEF Batch
  <2>2. \A j \in 1..Len(b) : j # i /\ j \in 1..Len(running[e])
    BY <1>2, <1>3
  <2>3. \A j \in 1..Len(b) : b[j] # r
    BY <1>3, <1>4, <1>5, <2>2
  <2> QED BY <2>1, <2>3
<1>7. r \in tracked[e] /\ r \in Requests
  BY <1>1, <1>5, TypesAt DEF Seated
<1>8. ~ AwaitsKvs(r)
  BY <1>1, <1>5, <1>6 DEF Healthy, InRunning, Prefills, AwaitsKvs
<1> HIDE DEF r
<1>9. Scheduled(e, r)
  BY <1>1, <1>6, <1>7, <1>8, ScheduleEffect DEF ScheduleRunning, InRunningLoop, AtStage, r
<1>10. SchedTypeOK'
  BY <1>1, <1>9 DEF SchedTypeOK, Scheduled
<1>11. Running(e)' = Running(e) /\ Waiting(e)' = Waiting(e) /\ Batch(e)' = Batch(e) \cup {r}
  BY <1>1, <1>9 DEF Running, Waiting, Scheduled
<1>12. Seated(e)'
  <2>1. /\ sched'[e].pc = "running" /\ sched'[e].batch = Append(b, r) /\ sched'[e].index = i + 1
        /\ IsInjective(sched'[e].batch)
    BY <1>1, <1>9 DEF Scheduled, InRunningLoop, AtStage
  <2>2. /\ Len(Append(b, r)) = Len(b) + 1 /\ Append(b, r)[Len(b) + 1] = r
        /\ \A j \in 1..Len(b) : Append(b, r)[j] = b[j]
    BY <1>2, <1>7, AppendProperties
  <2>3. \A j \in 1..Len(b) + 1 : Append(b, r)[j] = running[e][j]
    <3>1. TAKE j \in 1..Len(b) + 1
    <3>2. j \in 1..Len(b) \/ j = Len(b) + 1
      BY <1>2
    <3> QED BY <1>3, <1>4, <2>2, <3>2
  <2>4. /\ sched'[e].index = Len(sched'[e].batch) + 1
        /\ Len(sched'[e].batch) <= Len(running'[e])
        /\ \A j \in 1..Len(sched'[e].batch) : sched'[e].batch[j] = running'[e][j]
    BY <1>1, <1>2, <1>3, <2>1, <2>2, <2>3
  <2> QED BY <1>1, <1>5, <1>11, <2>1, <2>4 DEF Seated
<1>13. Healthy(e)'
  <2>1. \A x \in Requests \ {r} : req'[x] = req[x] /\ slots'[e][x] = slots[e][x]
    BY <1>9 DEF Scheduled
  <2>2. InBatch(r, req'[r], slots'[e][r])
    BY <1>9 DEF Scheduled
  <2>3. r \notin Waiting(e) /\ Waiting(e) \subseteq Requests /\ Running(e) \subseteq Requests
        /\ Batch(e) \subseteq Requests
    BY <1>1, <1>5, TypesAt DEF Seated
  <2> QED BY <1>1, <1>6, <1>7, <1>11, <2>1, <2>2, <2>3 DEF Healthy, Admissible, Capacity
<1>14. StepOn(e, r)
  BY <1>1, <1>9 DEF StepOn, Scheduled
<1>15. EngineInv(e)'
  BY <1>9, <1>12, <1>13 DEF EngineInv, Scheduled
<1> QED BY <1>1, <1>7, <1>9, <1>10, <1>14, <1>15, StepKeeps DEF Scheduled

LEMMA ScheduleWaitingKeeps ==
  ASSUME SchedInv, NEW e \in Engines, ScheduleWaiting(e)
  PROVE  SchedInv'
<1> DEFINE r == Head(waiting[e])
           b == sched[e].batch
<1>1. /\ SchedTypeOK /\ Seated(e) /\ Healthy(e) /\ InWaitingLoop(e) /\ ~ AwaitsKvs(r)
      /\ waiting' = [waiting EXCEPT ![e] = Tail(@)]
      /\ running' = [running EXCEPT ![e] = Append(@, r)]
      /\ UNCHANGED <<tracked, d2d, kv_modeling>>
  BY DEF SchedInv, EngineInv, ScheduleWaiting
<1>2. waiting[e] \in Seq(Requests) /\ running[e] \in Seq(Requests) /\ waiting[e] # <<>>
  BY <1>1, TypesAt DEF InWaitingLoop
<1>3. /\ r \in Requests /\ Tail(waiting[e]) \in Seq(Requests)
      /\ Waiting(e) = ToSet(Tail(waiting[e])) \cup {r} /\ r \notin ToSet(Tail(waiting[e]))
      /\ IsInjective(Tail(waiting[e]))
  BY <1>1, <1>2, QueueTail DEF Waiting, Seated
<1>4. r \in tracked[e] /\ r \notin Running(e) /\ r \notin Batch(e)
  BY <1>1, <1>3 DEF Seated
<1>5. Scheduled(e, r)
  BY <1>1, <1>4, ScheduleEffect DEF ScheduleWaiting, InWaitingLoop, AtStage
<1> HIDE DEF r
<1>6. /\ waiting' \in [Engines -> Seq(Requests)] /\ waiting'[e] = Tail(waiting[e])
      /\ \A f \in Engines \ {e} : waiting'[f] = waiting[f]
  BY <1>1, <1>3 DEF SchedTypeOK
<1>7. /\ Append(running[e], r) \in Seq(Requests)
      /\ ToSet(Append(running[e], r)) = Running(e) \cup {r}
      /\ IsInjective(Append(running[e], r))
  BY <1>1, <1>2, <1>3, <1>4, QueueAppend DEF Seated, Running
<1>8. /\ running' \in [Engines -> Seq(Requests)] /\ running'[e] = Append(running[e], r)
      /\ \A f \in Engines \ {e} : running'[f] = running[f]
  BY <1>1, <1>7 DEF SchedTypeOK
<1>9. SchedTypeOK'
  BY <1>1, <1>5, <1>6, <1>8 DEF SchedTypeOK, Scheduled
<1>10. /\ Running(e)' = Running(e) \cup {r} /\ Waiting(e)' = Waiting(e) \ {r}
       /\ Batch(e)' = Batch(e) \cup {r}
  BY <1>3, <1>5, <1>6, <1>7, <1>8 DEF Running, Waiting, Scheduled
<1>11. Seated(e)'
  <2>1. sched'[e].pc = "waiting" /\ IsInjective(sched'[e].batch)
    BY <1>1, <1>5 DEF Scheduled, InWaitingLoop, AtStage
  <2>2. tracked'[e] = Running(e)' \cup Waiting(e)' /\ Running(e)' \cap Waiting(e)' = {}
        /\ Batch(e)' \subseteq Running(e)'
    BY <1>1, <1>3, <1>10 DEF Seated
  <2> QED BY <1>3, <1>6, <1>7, <1>8, <2>1, <2>2 DEF Seated
<1>12. Healthy(e)'
  <2>1. \A x \in Requests \ {r} : req'[x] = req[x] /\ slots'[e][x] = slots[e][x]
    BY <1>5 DEF Scheduled
  <2>2. InBatch(r, req'[r], slots'[e][r])
    BY <1>5 DEF Scheduled
  <2>3. Waiting(e) \subseteq Requests /\ Running(e) \subseteq Requests /\ Batch(e) \subseteq Requests
    BY <1>1, TypesAt
  <2> QED BY <1>1, <1>4, <1>10, <2>1, <2>2, <2>3 DEF Healthy, Admissible, Capacity
<1>13. StepOn(e, r)
  BY <1>1, <1>5, <1>6, <1>8 DEF StepOn, Scheduled
<1>14. EngineInv(e)'
  BY <1>5, <1>11, <1>12 DEF EngineInv, Scheduled
<1> QED BY <1>1, <1>4, <1>5, <1>9, <1>13, <1>14, StepKeeps DEF Scheduled

LEMMA NoBlocksForNone == BlocksFor(0) = 0
<1>1. 0 \in 0..BlockSize
  BY BlockSizeAssumption
<1> QED BY <1>1, BlocksForFew

(* What Release changes. *)
LEMMA ReleaseEffect ==
  ASSUME SchedInv, NEW e \in Engines, NEW r \in Requests, Release(e, r)
  PROVE  /\ slots' \in [Engines -> [Requests -> Nat]] /\ slots'[e][r] = 0
         /\ \A x \in Requests \ {r} : slots'[e][x] = slots[e][x]
         /\ free_blocks' \in [Engines -> Nat]
         /\ \A f \in Engines \ {e} : slots'[f] = slots[f] /\ free_blocks'[f] = free_blocks[f]
         /\ free_blocks'[e] + HeldBlocks(e)' = NumBlocks[e]
<1>1. SchedTypeOK /\ free_blocks[e] + HeldBlocks(e) = NumBlocks[e]
  BY DEF SchedInv, EngineInv, Accounted
<1>2. slots \in [Engines -> [Requests -> Nat]] /\ free_blocks \in [Engines -> Nat]
  BY <1>1 DEF SchedTypeOK
<1>3. /\ slots' = [slots EXCEPT ![e][r] = 0]
      /\ free_blocks' = [free_blocks EXCEPT ![e] = @ + BlocksFor(slots[e][r])]
  BY DEF Release
<1>4. /\ slots' \in [Engines -> [Requests -> Nat]] /\ slots'[e][r] = 0
      /\ \A x \in Requests \ {r} : slots'[e][x] = slots[e][x]
      /\ \A f \in Engines \ {e} : slots'[f] = slots[f]
  BY <1>2, <1>3, ArrayUpdate
<1> DEFINE b == BlocksFor(slots[e][r])
<1>5. b \in Nat
  <2>1. slots[e][r] \in Nat
    BY <1>2
  <2> QED BY <2>1, BlocksForBounds
<1> HIDE DEF b
<1>6. free_blocks' = [free_blocks EXCEPT ![e] = @ + b]
  BY <1>3 DEF b
<1>7. /\ free_blocks' \in [Engines -> Nat] /\ free_blocks'[e] = free_blocks[e] + b
      /\ \A f \in Engines \ {e} : free_blocks'[f] = free_blocks[f]
  BY <1>2, <1>5, <1>6
<1>8. free_blocks'[e] = free_blocks[e] - BlocksFor(0) + b /\ 0 \in Nat
  BY <1>2, <1>5, <1>7, NoBlocksForNone
<1>9. slots'[e] = [slots[e] EXCEPT ![r] = 0]
  BY <1>2, <1>3
<1>10. free_blocks'[e] + HeldBlocks(e)' = NumBlocks[e]
  BY <1>1, <1>8, <1>9, PoolUpdate DEF b
<1> QED BY <1>4, <1>7, <1>10

(***************************************************************************)
(* Preemption and the arrival of KV caches.                                *)
(***************************************************************************)

(* In the first loop the last running request is not in the batch, unless  *)
(* it is the one at hand.                                                  *)
LEMMA VictimIsLast ==
  ASSUME SchedInv, NEW e \in Engines, InRunningLoop(e), Last(running[e]) # Current(e)
  PROVE  /\ Last(running[e]) \in Running(e) \ Batch(e)
         /\ sched[e].index < Len(running[e]) /\ Len(running[e]) \in Nat
<1> DEFINE v == Last(running[e])
           b == sched[e].batch
           i == sched[e].index
           n == Len(running[e])
<1>1. SchedTypeOK /\ Seated(e)
  BY DEF SchedInv, EngineInv
<1>2. /\ b \in Seq(Requests) /\ running[e] \in Seq(Requests) /\ i \in Nat /\ Len(b) \in Nat
      /\ n \in Nat
  BY <1>1, TypesAt
<1>3. i = Len(b) + 1 /\ i <= n /\ \A j \in 1..Len(b) : b[j] = running[e][j]
  BY <1>1 DEF Seated, InRunningLoop, AtStage
<1>4. v = running[e][n] /\ i # n
  BY DEF Last, Current
<1>5. i < n /\ n \in 1..n /\ \A j \in 1..Len(b) : j \in 1..n /\ j # n
  BY <1>2, <1>3, <1>4
<1>6. /\ ToSet(running[e]) = {running[e][j] : j \in 1..n}
      /\ \A j, k \in 1..n : running[e][j] = running[e][k] => j = k
      /\ ToSet(b) = {b[j] : j \in 1..Len(b)}
  BY <1>1, <1>2, QueueElements DEF Seated
<1>7. v \in Running(e)
  BY <1>4, <1>5, <1>6 DEF Running
<1>8. \A j \in 1..Len(b) : b[j] # v
  BY <1>3, <1>4, <1>5, <1>6
<1> QED BY <1>2, <1>5, <1>6, <1>7, <1>8 DEF Batch

LEMMA PreemptKeeps ==
  ASSUME SchedInv, NEW e \in Engines, Preempt(e)
  PROVE  SchedInv'
<1> DEFINE v == Last(running[e])
           b == sched[e].batch
           t == RemoveFirst(running[e], v)
<1>1. /\ SchedTypeOK /\ Seated(e) /\ Healthy(e) /\ Accounted(e) /\ InRunningLoop(e) /\ v # Current(e)
      /\ running' = [running EXCEPT ![e] = t]
      /\ waiting' = [waiting EXCEPT ![e] = <<v>> \o waiting[e]]
      /\ req' = [req EXCEPT ![v] = PreemptedRecord(v)]
      /\ Release(e, v)
      /\ sched' = [sched EXCEPT ![e].preempted = TRUE, ![e].batch = RemoveFirst(@, v)]
      /\ UNCHANGED <<tracked, d2d, kv_modeling>>
  BY DEF SchedInv, EngineInv, Preempt, PutBack
<1>2. /\ b \in Seq(Requests) /\ running[e] \in Seq(Requests) /\ waiting[e] \in Seq(Requests)
      /\ sched[e] \in Locals /\ sched[e].index \in Nat /\ sched[e].budget \in Nat
      /\ Len(b) \in Nat
  BY <1>1, TypesAt
<1>3. v \in Running(e) \ Batch(e) /\ sched[e].index < Len(running[e]) /\ Len(running[e]) \in Nat
  BY <1>1, VictimIsLast
<1>4. v \in Requests /\ v \in tracked[e] /\ v \notin Waiting(e)
  BY <1>1, <1>3, TypesAt DEF Seated
<1>5. /\ t \in Seq(Requests) /\ ToSet(t) = Running(e) \ {v} /\ IsInjective(t)
  BY <1>1, <1>2, QueueWithout DEF Seated, Running
<1>6. Len(t) = Len(running[e]) - 1 /\ \A j \in 1..Len(running[e]) - 1 : t[j] = running[e][j]
  <2>1. running[e] # <<>>
    BY <1>2, <1>3
  <2> QED BY <1>1, <1>2, <2>1, QueueWithoutLast DEF Seated
<1>7. /\ <<v>> \o waiting[e] \in Seq(Requests)
      /\ ToSet(<<v>> \o waiting[e]) = Waiting(e) \cup {v}
      /\ IsInjective(<<v>> \o waiting[e])
  BY <1>1, <1>2, <1>4, QueuePush DEF Seated, Waiting
<1>8. RemoveFirst(b, v) = b
  BY <1>1, <1>2, <1>3, QueueWithout DEF Seated, Batch
<1> HIDE DEF v, t
<1>9. /\ running' \in [Engines -> Seq(Requests)] /\ running'[e] = t
      /\ \A f \in Engines \ {e} : running'[f] = running[f]
  BY <1>1, <1>5 DEF SchedTypeOK
<1>10. /\ waiting' \in [Engines -> Seq(Requests)] /\ waiting'[e] = <<v>> \o waiting[e]
       /\ \A f \in Engines \ {e} : waiting'[f] = waiting[f]
  BY <1>1, <1>7 DEF SchedTypeOK
<1>11. /\ req[v] \in RequestRecords
       /\ InRunning(v, req[v], slots[e][v])
  BY <1>1, <1>3, <1>4 DEF SchedTypeOK, Healthy
<1>12. /\ PreemptedRecord(v) \in RequestRecords /\ InQueue(v, PreemptedRecord(v), 0)
       /\ PreemptedRecord(v).state = "RECOMPUTATION"
  <2>1. req[v].decoded < OutputTokens[v]
    BY <1>11 DEF InRunning
  <2> QED BY <1>4, <1>11, <2>1, RecordPreempted DEF PreemptedRecord
<1>13. /\ req' \in [Requests -> RequestRecords] /\ req'[v] = PreemptedRecord(v)
       /\ \A x \in Requests \ {v} : req'[x] = req[x]
  BY <1>1, <1>4, <1>12 DEF SchedTypeOK
<1>14. /\ slots' \in [Engines -> [Requests -> Nat]] /\ slots'[e][v] = 0
       /\ \A x \in Requests \ {v} : slots'[e][x] = slots[e][x]
       /\ free_blocks' \in [Engines -> Nat]
       /\ \A f \in Engines \ {e} : slots'[f] = slots[f] /\ free_blocks'[f] = free_blocks[f]
       /\ free_blocks'[e] + HeldBlocks(e)' = NumBlocks[e]
  BY <1>1, <1>4, ReleaseEffect
<1>15. /\ sched' \in [Engines -> Locals]
       /\ sched'[e].pc = sched[e].pc /\ sched'[e].index = sched[e].index
       /\ sched'[e].budget = sched[e].budget /\ sched'[e].batch = b
       /\ \A f \in Engines \ {e} : sched'[f] = sched[f]
  <2> DEFINE o == [sched[e] EXCEPT !.preempted = TRUE, !.batch = b]
  <2>1. sched' = [sched EXCEPT ![e] = o] /\ sched \in [Engines -> Locals]
    BY <1>1, <1>8 DEF SchedTypeOK
  <2>2. /\ o \in Locals /\ o.pc = sched[e].pc /\ o.index = sched[e].index
        /\ o.budget = sched[e].budget /\ o.batch = b
    BY <1>2 DEF Locals
  <2> HIDE DEF o
  <2> QED BY <2>1, <2>2
<1>16. SchedTypeOK'
  BY <1>1, <1>9, <1>10, <1>13, <1>14, <1>15 DEF SchedTypeOK
<1>17. /\ Running(e)' = Running(e) \ {v} /\ Waiting(e)' = Waiting(e) \cup {v}
       /\ Batch(e)' = Batch(e)
  BY <1>5, <1>7, <1>9, <1>10, <1>15 DEF Running, Waiting, Batch
<1>18. Seated(e)'
  <2>1. sched'[e].pc = "running"
    BY <1>1, <1>15 DEF InRunningLoop, AtStage
  <2>2. tracked'[e] = Running(e)' \cup Waiting(e)' /\ Running(e)' \cap Waiting(e)' = {}
        /\ Batch(e)' \subseteq Running(e)'
    BY <1>1, <1>3, <1>4, <1>17 DEF Seated
  <2>3. /\ sched[e].index = Len(b) + 1
        /\ \A i \in 1..Len(b) : b[i] = running[e][i]
    BY <1>1 DEF Seated, InRunningLoop, AtStage
  <2>4. /\ Len(b) <= Len(t)
        /\ \A i \in 1..Len(b) : b[i] = t[i]
    <3>1. \A i \in 1..Len(b) : i \in 1..Len(running[e]) - 1
      BY <1>2, <1>3, <2>3
    <3>2. Len(b) <= Len(t)
      BY <1>2, <1>3, <1>6, <2>3
    <3>3. \A i \in 1..Len(b) : t[i] = running[e][i]
      BY <1>6, <3>1
    <3> QED BY <2>3, <3>2, <3>3
  <2>5. IsInjective(b)
    BY <1>1 DEF Seated
  <2> QED BY <1>5, <1>7, <1>9, <1>10, <1>15, <2>1, <2>2, <2>3, <2>4, <2>5 DEF Seated
<1>19. Healthy(e)'
  <2>1. Waiting(e) \subseteq Requests /\ Running(e) \subseteq Requests /\ Batch(e) \subseteq Requests
    BY <1>1, TypesAt
  <2> QED BY <1>1, <1>3, <1>4, <1>12, <1>13, <1>14, <1>17, <2>1, ZenonT(40) DEF Healthy, Admissible, Capacity
<1>20. Accounted(e)'
  <2>1. BatchTokens(e)' = BatchTokens(e)
    <3>1. Batch(e) \in SUBSET Requests /\ v \notin Batch(e)
      BY <1>1, <1>3, TypesAt
    <3> QED BY <1>13, <1>17, <3>1, SameTokens DEF BatchTokens
  <2> QED BY <1>1, <1>14, <1>15, <2>1 DEF Accounted
<1>21. StepOn(e, v)
  BY <1>1, <1>9, <1>10, <1>13, <1>14, <1>15 DEF StepOn
<1>22. EngineInv(e)'
  BY <1>18, <1>19, <1>20 DEF EngineInv
<1> QED BY <1>1, <1>4, <1>12, <1>13, <1>16, <1>21, <1>22, StepKeeps

LEMMA ReceiveKvsKeeps ==
  ASSUME SchedInv, NEW e \in Engines, ReceiveKvs(e)
  PROVE  SchedInv'
<1> DEFINE r == Head(waiting[e])
           n == InputTokens[r]
           p == [req[r] EXCEPT !.kv_transfer_done = TRUE, !.state = "DECODING"]
<1>1. /\ SchedTypeOK /\ Seated(e) /\ Healthy(e) /\ Accounted(e) /\ InWaitingLoop(e) /\ AwaitsKvs(r)
      /\ Fits(e, r, n)
      /\ Allocate(e, r, n)
      /\ req' = [req EXCEPT ![r].kv_transfer_done = TRUE, ![r].state = "DECODING"]
      /\ UNCHANGED <<waiting, running, tracked, sched, d2d, kv_modeling>>
  BY DEF SchedInv, EngineInv, ReceiveKvs
<1>2. waiting[e] \in Seq(Requests) /\ waiting[e] # <<>> /\ free_blocks[e] \in Nat
  BY <1>1, TypesAt DEF InWaitingLoop
<1>3. r \in Waiting(e) /\ r \in Requests
  BY <1>2, QueueTail DEF Waiting
<1>4. r \in tracked[e] /\ r \notin Running(e) /\ r \notin Batch(e)
  BY <1>1, <1>3 DEF Seated
<1> HIDE DEF r
<1>5. /\ req[r] \in RequestRecords /\ slots[e][r] \in Nat /\ InQueue(r, req[r], slots[e][r])
      /\ req[r].state = "KVS_TRANSFERRING" /\ n \in Nat
  BY <1>1, <1>3, RequestAssumption DEF SchedTypeOK, Healthy, AwaitsKvs
<1>6. /\ p \in RequestRecords /\ slots[e][r] = 0 /\ InQueue(r, p, n)
      /\ p.state = "DECODING"
  BY <1>3, <1>5, RecordReceived, ZenonT(40)
<1>7. /\ req' \in [Requests -> RequestRecords] /\ req'[r] = p
      /\ \A x \in Requests \ {r} : req'[x] = req[x]
  <2>1. req' = [req EXCEPT ![r] = p]
    BY <1>1, <1>3 DEF SchedTypeOK
  <2> HIDE DEF p
  <2> QED BY <1>1, <1>3, <1>6, <2>1 DEF SchedTypeOK
<1> HIDE DEF n, p
<1>8. /\ slots' = [slots EXCEPT ![e][r] = n]
      /\ free_blocks' = [free_blocks EXCEPT ![e] = @ - (BlocksFor(n) - BlocksFor(0))]
      /\ BlocksFor(n) - BlocksFor(0) <= free_blocks[e]
  <2>1. 0 + n = n
    BY <1>5
  <2>2. /\ slots' = [slots EXCEPT ![e][r] = @ + n]
        /\ free_blocks' = [free_blocks EXCEPT ![e] = @ - NewBlocks(slots[e][r], n)]
        /\ NewBlocks(slots[e][r], n) <= free_blocks[e]
    BY <1>1 DEF Allocate, Fits
  <2>3. NewBlocks(slots[e][r], n) = BlocksFor(n) - BlocksFor(0)
    BY <1>6, <2>1 DEF NewBlocks
  <2>4. slots[e][r] + n = n
    BY <1>6, <2>1
  <2> QED BY <2>2, <2>3, <2>4
<1>9. /\ slots' \in [Engines -> [Requests -> Nat]] /\ slots'[e][r] = n
      /\ \A x \in Requests \ {r} : slots'[e][x] = slots[e][x]
      /\ \A f \in Engines \ {e} : slots'[f] = slots[f]
  <2>1. slots \in [Engines -> [Requests -> Nat]]
    BY <1>1 DEF SchedTypeOK
  <2> QED BY <1>3, <1>5, <1>8, <2>1, ArrayUpdate
<1> DEFINE b == BlocksFor(n)
<1>10. b \in Nat
  BY <1>5, BlocksForBounds
<1> HIDE DEF b
<1>11. free_blocks' = [free_blocks EXCEPT ![e] = @ - b] /\ b <= free_blocks[e]
  <2>1. b - BlocksFor(0) = b
    BY <1>10, NoBlocksForNone
  <2> QED BY <1>8, <2>1 DEF b
<1>12. /\ free_blocks' \in [Engines -> Nat]
       /\ free_blocks'[e] = free_blocks[e] - b
       /\ \A f \in Engines \ {e} : free_blocks'[f] = free_blocks[f]
  BY <1>1, <1>2, <1>10, <1>11 DEF SchedTypeOK
<1>13. SchedTypeOK'
  BY <1>1, <1>7, <1>9, <1>12 DEF SchedTypeOK
<1>14. Running(e)' = Running(e) /\ Waiting(e)' = Waiting(e) /\ Batch(e)' = Batch(e)
  BY <1>1 DEF Running, Waiting, Batch
<1>15. Seated(e)'
  BY <1>1, <1>14 DEF Seated
<1>16. Healthy(e)'
  <2>1. Waiting(e) \subseteq Requests /\ Running(e) \subseteq Requests /\ Batch(e) \subseteq Requests
    BY <1>1, TypesAt
  <2> QED BY <1>1, <1>4, <1>6, <1>7, <1>9, <1>14, <2>1 DEF Healthy, Admissible, Capacity
<1>17. Accounted(e)'
  <2>1. BatchTokens(e)' = BatchTokens(e)
    <3>1. Batch(e) \in SUBSET Requests
      BY <1>1, TypesAt
    <3> QED BY <1>4, <1>7, <1>14, <3>1, SameTokens DEF BatchTokens
  <2>2. free_blocks'[e] + HeldBlocks(e)' = NumBlocks[e]
    <3>1. slots'[e] = [slots[e] EXCEPT ![r] = n]
      BY <1>1, <1>8 DEF SchedTypeOK
    <3>2. free_blocks'[e] = free_blocks[e] - b + BlocksFor(slots[e][r])
      BY <1>2, <1>6, <1>10, <1>12, NoBlocksForNone
    <3>3. free_blocks[e] + HeldBlocks(e) = NumBlocks[e]
      BY <1>1 DEF Accounted
    <3> QED BY <1>1, <1>3, <1>5, <3>1, <3>2, <3>3, PoolUpdate DEF b
  <2> QED BY <1>1, <2>1, <2>2 DEF Accounted
<1>18. StepOn(e, r)
  BY <1>1, <1>7, <1>9, <1>12 DEF StepOn
<1>19. EngineInv(e)'
  BY <1>15, <1>16, <1>17 DEF EngineInv
<1> QED BY <1>1, <1>4, <1>6, <1>7, <1>13, <1>18, <1>19, StepKeeps

(***************************************************************************)
(* The batch has been processed.                                           *)
(***************************************************************************)

(* NextInBatch drops the head of the batch. *)
LEMMA BatchShrinks ==
  ASSUME SchedInv, NEW e \in Engines, sched[e].batch # <<>>, NextInBatch(e)
  PROVE  LET r == Head(sched[e].batch)
         IN  /\ r \in Running(e) /\ r \in tracked[e] /\ r \in Requests /\ r \notin Waiting(e)
             /\ r \in Batch(e) /\ Batch(e)' = Batch(e) \ {r}
             /\ sched' \in [Engines -> Locals]
             /\ sched'[e].pc = sched[e].pc /\ IsInjective(sched'[e].batch)
             /\ \A f \in Engines \ {e} : sched'[f] = sched[f]
<1> DEFINE b == sched[e].batch
           r == Head(b)
<1>1. SchedTypeOK /\ Seated(e)
  BY DEF SchedInv, EngineInv
<1>2. b \in Seq(Requests) /\ sched[e] \in Locals /\ sched \in [Engines -> Locals]
  BY <1>1, TypesAt DEF SchedTypeOK
<1>3. /\ r \in Requests /\ Tail(b) \in Seq(Requests)
      /\ ToSet(b) = ToSet(Tail(b)) \cup {r}
      /\ IsInjective(Tail(b)) /\ r \notin ToSet(Tail(b))
  BY <1>1, <1>2, QueueTail DEF Seated
<1> DEFINE o == [sched[e] EXCEPT !.batch = Tail(b)]
<1>4. sched' = [sched EXCEPT ![e] = o]
  BY <1>2 DEF NextInBatch
<1>5. o \in Locals /\ o.pc = sched[e].pc /\ o.batch = Tail(b)
  BY <1>2, <1>3 DEF Locals
<1> HIDE DEF o, r
<1>6. /\ sched' \in [Engines -> Locals] /\ sched'[e] = o
      /\ \A f \in Engines \ {e} : sched'[f] = sched[f]
  BY <1>2, <1>4, <1>5
<1>7. Batch(e)' = Batch(e) \ {r} /\ r \in Batch(e)
  BY <1>3, <1>5, <1>6 DEF Batch
<1>8. r \in Running(e) /\ r \in tracked[e] /\ r \notin Waiting(e)
  BY <1>1, <1>7 DEF Seated
<1> QED BY <1>3, <1>5, <1>6, <1>7, <1>8 DEF r

(* The request at hand goes on running. *)
LEMMA MoveOn ==
  ASSUME SchedInv, NEW e \in Engines, InPost(e), NextInBatch(e),
         UNCHANGED <<waiting, running, tracked, slots, free_blocks, d2d, kv_modeling>>,
         NEW r, r = Head(sched[e].batch),
         req' \in [Requests -> RequestRecords],
         \A x \in Requests \ {r} : req'[x] = req[x],
         InRunning(r, req'[r], slots[e][r])
  PROVE  SchedInv'
<1>1. SchedTypeOK /\ Seated(e) /\ Healthy(e) /\ Accounted(e) /\ sched[e].pc = "post" /\ sched[e].batch # <<>>
  BY DEF SchedInv, EngineInv, InPost, AtStage
<1>2. /\ r \in Running(e) /\ r \in tracked[e] /\ r \in Requests /\ r \notin Waiting(e)
      /\ r \in Batch(e) /\ Batch(e)' = Batch(e) \ {r}
      /\ sched' \in [Engines -> Locals]
      /\ sched'[e].pc = sched[e].pc /\ IsInjective(sched'[e].batch)
      /\ \A f \in Engines \ {e} : sched'[f] = sched[f]
  BY <1>1, BatchShrinks
<1>3. SchedTypeOK'
  BY <1>1, <1>2 DEF SchedTypeOK
<1>4. Running(e)' = Running(e) /\ Waiting(e)' = Waiting(e)
  BY DEF Running, Waiting
<1>5. Seated(e)'
  BY <1>1, <1>2, <1>4 DEF Seated
<1>6. Healthy(e)'
  <2>1. Waiting(e) \subseteq Requests /\ Running(e) \subseteq Requests /\ Batch(e) \subseteq Requests
    BY <1>1, TypesAt
  <2> QED BY <1>1, <1>2, <1>4, <2>1 DEF Healthy, Admissible, Capacity
<1>7. Accounted(e)'
  BY <1>1, <1>2 DEF Accounted, HeldBlocks
<1>8. StepOn(e, r)
  BY <1>2 DEF StepOn
<1>9. req'[r].state \notin {"INITIAL", "DECODE_DONE"}
  BY DEF InRunning, Prefills
<1> QED BY <1>2, <1>3, <1>5, <1>6, <1>7, <1>8, <1>9, StepKeeps DEF EngineInv

LEMMA PostChunkedKeeps ==
  ASSUME SchedInv, NEW e \in Engines, PostChunked(e)
  PROVE  SchedInv'
<1> DEFINE r == Head(sched[e].batch)
<1>1. SchedTypeOK /\ Healthy(e) /\ sched[e].batch # <<>>
  BY DEF SchedInv, EngineInv, PostChunked, InPost
<1>2. r \in Requests /\ r \in Batch(e)
  BY <1>1, BatchShrinks DEF PostChunked
<1>3. InRunning(r, req[r], slots[e][r])
  <2>1. req[r] \in RequestRecords /\ slots[e][r] \in Nat /\ InBatch(r, req[r], slots[e][r])
    BY <1>1, <1>2 DEF SchedTypeOK, Healthy
  <2>2. req[r].new_tokens # 0
    BY DEF PostChunked
  <2> HIDE DEF r
  <2> QED BY <1>2, <2>1, <2>2, RecordChunked
<1>4. req' = req /\ req \in [Requests -> RequestRecords]
  BY <1>1 DEF PostChunked, SchedTypeOK
<1> HIDE DEF r
<1>5. r = Head(sched[e].batch)
  BY DEF r
<1> QED BY <1>3, <1>4, <1>5, MoveOn DEF PostChunked

LEMMA PostDecodingKeeps ==
  ASSUME SchedInv, NEW e \in Engines, PostDecoding(e)
  PROVE  SchedInv'
<1> DEFINE r == Head(sched[e].batch)
           p == PrepareDecodeStep(r, GeneratedRecord(r, req[r]))
           o == IF req[r].state = "DECODING" THEN p
                ELSE WithState(WithState(p, "PREFILL_DONE"), "DECODING")
<1>1. SchedTypeOK /\ Healthy(e) /\ sched[e].batch # <<>>
  BY DEF SchedInv, EngineInv, PostDecoding, InPost
<1>2. r \in Requests /\ r \in Batch(e)
  BY <1>1, BatchShrinks DEF PostDecoding
<1>3. Generated(r) = GeneratedRecord(r, req[r])
  BY DEF Generated, GeneratedRecord
<1>4. req' = [req EXCEPT ![r] = o]
  BY <1>3 DEF PostDecoding
<1>5. /\ req[r] \in RequestRecords /\ slots[e][r] \in Nat /\ InBatch(r, req[r], slots[e][r])
      /\ GeneratedRecord(r, req[r]).decoded \in Nat
  <2>1. req[r] \in RequestRecords /\ slots[e][r] \in Nat /\ InBatch(r, req[r], slots[e][r])
    BY <1>1, <1>2 DEF SchedTypeOK, Healthy
  <2>2. req[r].new_tokens = 0
    BY DEF PostDecoding, Unfinished
  <2> HIDE DEF r
  <2>3. GeneratedRecord(r, req[r]) \in RequestRecords
    BY <1>2, <2>1, <2>2, RecordGenerated
  <2> QED BY <2>1, <2>3 DEF RequestRecords
<1>6. req[r].new_tokens = 0 /\ GeneratedRecord(r, req[r]).decoded < OutputTokens[r]
  <2>1. req[r].new_tokens = 0 /\ ~ (GeneratedRecord(r, req[r]).decoded >= OutputTokens[r])
    BY <1>3 DEF PostDecoding, Unfinished, Complete
  <2>2. OutputTokens[r] \in Nat
    BY <1>2, RequestAssumption
  <2> HIDE DEF r
  <2> QED BY <1>5, <2>1, <2>2
<1>7. o \in RequestRecords /\ InRunning(r, o, slots[e][r])
  <2> HIDE DEF r
  <2> QED BY <1>2, <1>5, <1>6, RecordGoesOn
<1> HIDE DEF r, o
<1>8. /\ req' \in [Requests -> RequestRecords] /\ req'[r] = o
      /\ \A x \in Requests \ {r} : req'[x] = req[x]
  BY <1>1, <1>2, <1>4, <1>7 DEF SchedTypeOK
<1>9. r = Head(sched[e].batch)
  BY DEF r
<1> QED BY <1>7, <1>8, <1>9, MoveOn DEF PostDecoding

(* The request at hand leaves the engine. *)
LEMMA Leave ==
  ASSUME SchedInv, NEW e \in Engines, InPost(e), NextInBatch(e),
         NEW r, r = Head(sched[e].batch),
         Release(e, r),
         running' = [running EXCEPT ![e] = RemoveFirst(@, r)],
         tracked' = Untracked(e, r),
         waiting' = waiting, kv_modeling' = kv_modeling,
         req' \in [Requests -> RequestRecords],
         \A x \in Requests \ {r} : req'[x] = req[x],
         d2d' \in [Engines -> Seq(Requests)]
  PROVE  /\ SchedTypeOK' /\ StepOn(e, r) /\ EngineInv(e)'
         /\ r \in Requests /\ r \in tracked[e] /\ tracked'[e] = tracked[e] \ {r}
<1>1. SchedTypeOK /\ Seated(e) /\ Healthy(e) /\ Accounted(e) /\ sched[e].pc = "post" /\ sched[e].batch # <<>>
  BY DEF SchedInv, EngineInv, InPost, AtStage
<1>2. /\ r \in Running(e) /\ r \in tracked[e] /\ r \in Requests /\ r \notin Waiting(e)
      /\ r \in Batch(e) /\ Batch(e)' = Batch(e) \ {r}
      /\ sched' \in [Engines -> Locals]
      /\ sched'[e].pc = sched[e].pc /\ IsInjective(sched'[e].batch)
      /\ \A f \in Engines \ {e} : sched'[f] = sched[f]
  BY <1>1, BatchShrinks
<1> DEFINE t == RemoveFirst(running[e], r)
<1>3. t \in Seq(Requests) /\ ToSet(t) = Running(e) \ {r} /\ IsInjective(t)
  <2>1. running[e] \in Seq(Requests)
    BY <1>1, TypesAt
  <2> QED BY <1>1, <2>1, QueueWithout DEF Seated, Running
<1>4. running' = [running EXCEPT ![e] = t]
  OBVIOUS
<1> HIDE DEF t
<1>5. /\ running' \in [Engines -> Seq(Requests)] /\ running'[e] = t
      /\ \A f \in Engines \ {e} : running'[f] = running[f]
  BY <1>1, <1>3, <1>4 DEF SchedTypeOK
<1>6. /\ tracked' \in [Engines -> SUBSET Requests] /\ tracked'[e] = tracked[e] \ {r}
      /\ \A f \in Engines \ {e} : tracked'[f] = tracked[f]
  BY <1>1 DEF SchedTypeOK, Untracked
<1>7. /\ slots' \in [Engines -> [Requests -> Nat]] /\ slots'[e][r] = 0
      /\ \A x \in Requests \ {r} : slots'[e][x] = slots[e][x]
      /\ free_blocks' \in [Engines -> Nat]
      /\ \A f \in Engines \ {e} : slots'[f] = slots[f] /\ free_blocks'[f] = free_blocks[f]
      /\ free_blocks'[e] + HeldBlocks(e)' = NumBlocks[e]
  BY <1>2, ReleaseEffect
<1>8. SchedTypeOK'
  BY <1>1, <1>2, <1>5, <1>6, <1>7 DEF SchedTypeOK
<1>9. Running(e)' = Running(e) \ {r} /\ Waiting(e)' = Waiting(e)
  BY <1>3, <1>5 DEF Running, Waiting
<1>10. Seated(e)'
  <2>1. tracked'[e] = Running(e)' \cup Waiting(e)' /\ Running(e)' \cap Waiting(e)' = {}
        /\ Batch(e)' \subseteq Running(e)'
    BY <1>1, <1>2, <1>6, <1>9 DEF Seated
  <2>2. IsInjective(running'[e]) /\ IsInjective(waiting'[e]) /\ IsInjective(sched'[e].batch)
        /\ sched'[e].pc = "post"
    BY <1>1, <1>2, <1>3, <1>5 DEF Seated
  <2> QED BY <2>1, <2>2 DEF Seated
<1>11. Healthy(e)'
  <2>1. Waiting(e) \subseteq Requests /\ Running(e) \subseteq Requests /\ Batch(e) \subseteq Requests
    BY <1>1, TypesAt
  <2>2. \A x \in Requests \ tracked'[e] : slots'[e][x] = 0
    BY <1>1, <1>6, <1>7 DEF Healthy
  <2>3. \A x \in Running(e) \ {r} : req'[x] = req[x] /\ slots'[e][x] = slots[e][x]
    BY <1>7, <2>1
  <2>4. \A x \in Waiting(e) : req'[x] = req[x] /\ slots'[e][x] = slots[e][x]
    BY <1>2, <1>7, <2>1
  <2>5. \A x \in Waiting(e)' : InQueue(x, req'[x], slots'[e][x])
    BY <1>1, <1>9, <2>4 DEF Healthy
  <2>6. \A x \in Running(e)' \ Batch(e)' : InRunning(x, req'[x], slots'[e][x])
    BY <1>1, <1>2, <1>9, <2>3 DEF Healthy
  <2>7. \A x \in Batch(e)' : InBatch(x, req'[x], slots'[e][x])
    BY <1>1, <1>2, <2>3 DEF Healthy, Seated
  <2>8. \A x \in tracked'[e] : Admissible(e, x)
    BY <1>1, <1>6 DEF Healthy
  <2> QED BY <2>2, <2>5, <2>6, <2>7, <2>8 DEF Healthy, Admissible, Capacity
<1>12. Accounted(e)'
  BY <1>1, <1>2, <1>7 DEF Accounted
<1>13. StepOn(e, r)
  BY <1>2, <1>5, <1>6, <1>7 DEF StepOn
<1> QED BY <1>2, <1>6, <1>8, <1>10, <1>11, <1>12, <1>13 DEF EngineInv

LEMMA PostFinishedKeeps ==
  ASSUME SchedInv, NEW e \in Engines, NEW r \in Requests, PostFinished(e, r)
  PROVE  SchedInv'
<1> DEFINE p == IF req[r].state = "PREFILLING" THEN WithState(GeneratedRecord(r, req[r]), "PREFILL_DONE")
                ELSE GeneratedRecord(r, req[r])
           o == WithState(p, "DECODE_DONE")
<1>1. SchedTypeOK /\ Healthy(e) /\ sched[e].batch # <<>> /\ r = Head(sched[e].batch)
  BY DEF SchedInv, EngineInv, PostFinished, InPost
<1>2. r \in Batch(e)
  BY <1>1, BatchShrinks DEF PostFinished
<1>3. Generated(r) = GeneratedRecord(r, req[r])
  BY DEF Generated, GeneratedRecord
<1>4. /\ req' = [req EXCEPT ![r] = o]
      /\ req[r].new_tokens = 0 /\ GeneratedRecord(r, req[r]).decoded >= OutputTokens[r]
  BY <1>3 DEF PostFinished, Complete
<1>5. req[r] \in RequestRecords /\ slots[e][r] \in Nat /\ InBatch(r, req[r], slots[e][r])
  BY <1>1, <1>2 DEF SchedTypeOK, Healthy
<1>6. o \in RequestRecords /\ o.state = "DECODE_DONE" /\ o.decoded = OutputTokens[r]
  BY <1>4, <1>5, RecordFinished
<1> HIDE DEF o
<1>7. /\ req' \in [Requests -> RequestRecords] /\ req'[r] = o
      /\ \A x \in Requests \ {r} : req'[x] = req[x]
  BY <1>1, <1>4, <1>6 DEF SchedTypeOK
<1>8. d2d' = d2d /\ d2d' \in [Engines -> Seq(Requests)]
  BY <1>1 DEF PostFinished, SchedTypeOK
<1>9. /\ SchedTypeOK' /\ StepOn(e, r) /\ EngineInv(e)'
      /\ r \in tracked[e] /\ tracked'[e] = tracked[e] \ {r}
  BY <1>1, <1>7, <1>8, Leave DEF PostFinished
<1> QED BY <1>6, <1>7, <1>8, <1>9, StepKeeps

LEMMA PostHandOffKeeps ==
  ASSUME SchedInv, NEW e \in Engines, PostHandOff(e)
  PROVE  SchedInv'
<1> DEFINE r == Head(sched[e].batch)
           o == WithState(PrepareDecodeStep(r, GeneratedRecord(r, req[r])), "PREFILL_DONE")
<1>1. /\ SchedTypeOK /\ Apart /\ Healthy(e) /\ sched[e].batch # <<>>
      /\ \A f \in Engines : EngineInv(f)
  BY DEF SchedInv, EngineInv, PostHandOff, InPost
<1>2. r \in Requests /\ r \in Batch(e) /\ r \in tracked[e]
  BY <1>1, BatchShrinks DEF PostHandOff
<1>3. Generated(r) = GeneratedRecord(r, req[r])
  BY DEF Generated, GeneratedRecord
<1>4. req' = [req EXCEPT ![r] = o]
  BY <1>3 DEF PostHandOff
<1>5. req[r] \in RequestRecords /\ slots[e][r] \in Nat /\ InBatch(r, req[r], slots[e][r])
  BY <1>1, <1>2 DEF SchedTypeOK, Healthy
<1>6. /\ req[r].new_tokens = 0 /\ ~ (GeneratedRecord(r, req[r]).decoded >= OutputTokens[r])
      /\ req[r].state = "PREFILLING" /\ req[r].need_kv_transfer
  BY <1>3 DEF PostHandOff, Unfinished, Complete
<1>7. /\ d2d' = [d2d EXCEPT ![e] = Append(@, r)] /\ InPost(e) /\ NextInBatch(e) /\ Release(e, r)
      /\ running' = [running EXCEPT ![e] = RemoveFirst(@, r)]
      /\ tracked' = Untracked(e, r) /\ waiting' = waiting /\ kv_modeling' = kv_modeling
  BY DEF PostHandOff
<1>8. r = Head(sched[e].batch)
  OBVIOUS
<1> HIDE DEF r
<1>9. GeneratedRecord(r, req[r]).decoded < OutputTokens[r]
  <2>1. GeneratedRecord(r, req[r]) \in RequestRecords
    BY <1>2, <1>5, <1>6, RecordGenerated
  <2>2. OutputTokens[r] \in Nat /\ GeneratedRecord(r, req[r]).decoded \in Nat
    BY <1>2, <2>1, RequestAssumption DEF RequestRecords
  <2> QED BY <1>6, <2>2
<1>10. o \in RequestRecords /\ InChannel(r, o)
  BY <1>2, <1>5, <1>6, <1>9, RecordHandedOver
<1> HIDE DEF o
<1>11. /\ req' \in [Requests -> RequestRecords] /\ req'[r] = o
       /\ \A x \in Requests \ {r} : req'[x] = req[x]
  BY <1>1, <1>2, <1>4, <1>10 DEF SchedTypeOK
<1>12. r \notin Channel(e) /\ \A f \in Engines \ {e} : r \notin tracked[f]
  BY <1>1, <1>2 DEF Apart
<1>13. /\ d2d' \in [Engines -> Seq(Requests)] /\ Channel(e)' = Channel(e) \cup {r}
       /\ IsInjective(d2d'[e])
       /\ \A f \in Engines \ {e} : d2d'[f] = d2d[f]
  <2>1. d2d[e] \in Seq(Requests) /\ d2d \in [Engines -> Seq(Requests)]
    BY <1>1 DEF SchedTypeOK
  <2>2. /\ Append(d2d[e], r) \in Seq(Requests)
        /\ ToSet(Append(d2d[e], r)) = Channel(e) \cup {r}
        /\ IsInjective(Append(d2d[e], r))
    BY <1>1, <1>2, <1>12, <2>1, QueueAppend DEF Apart, Channel
  <2>3. d2d'[e] = Append(d2d[e], r)
    BY <1>7, <2>1
  <2> QED BY <1>7, <2>1, <2>2, <2>3 DEF Channel
<1>14. /\ SchedTypeOK' /\ StepOn(e, r) /\ EngineInv(e)' /\ tracked'[e] = tracked[e] \ {r}
  BY <1>7, <1>8, <1>11, <1>13, Leave
<1>15. \A f \in Engines : EngineInv(f)'
  <2>1. TAKE f \in Engines
  <2>2. CASE f # e
    BY <1>1, <1>12, <1>14, <2>2, OtherEngines
  <2> QED BY <1>14, <2>2
<1>16. /\ \A f \in Engines : Channel(f) \subseteq Requests /\ r \notin Channel(f)
       /\ \A f \in Engines \ {e} : Channel(f)' = Channel(f) /\ tracked'[f] = tracked[f]
  BY <1>1, <1>2, <1>13, <1>14, TypesAt DEF Apart, Channel, StepOn
<1>17. Apart'
  <2>1. \A f \in Engines : IsInjective(d2d'[f])
    BY <1>1, <1>13 DEF Apart
  <2>2. \A f, g \in Engines : tracked'[f] \cap Channel(g)' = {}
    <3>1. TAKE f, g \in Engines
    <3>2. tracked[f] \cap Channel(g) = {}
      BY <1>1 DEF Apart
    <3>3. r \notin tracked'[f] /\ tracked'[f] \subseteq tracked[f]
      BY <1>12, <1>14, <1>16
    <3>4. Channel(g)' \subseteq Channel(g) \cup {r}
      BY <1>13, <1>16
    <3> QED BY <3>2, <3>3, <3>4
  <2>3. \A f, g \in Engines : f # g => tracked'[f] \cap tracked'[g] = {} /\ Channel(f)' \cap Channel(g)' = {}
    BY <1>1, <1>13, <1>14, <1>16 DEF Apart
  <2>4. \A f \in Engines : \A x \in Channel(f)' : InChannel(x, req'[x])
    <3>1. TAKE f \in Engines
    <3>2. TAKE x \in Channel(f)'
    <3>3. CASE x = r
      BY <1>10, <1>11, <3>3
    <3>4. CASE x # r
      <4>1. x \in Channel(f) /\ x \in Requests
        BY <1>13, <1>16, <3>4
      <4>2. req'[x] = req[x]
        BY <1>11, <3>4, <4>1
      <4>3. InChannel(x, req[x])
        BY <1>1, <4>1 DEF Apart
      <4> QED BY <4>2, <4>3
    <3> QED BY <3>3, <3>4
  <2>5. \A x \in Requests :
           /\ req'[x].state = "INITIAL" => req'[x] = NewRequest(x)
           /\ req'[x].state = "DECODE_DONE" => req'[x].decoded = OutputTokens[x]
    <3>1. TAKE x \in Requests
    <3>2. CASE x = r
      BY <1>10, <1>11, <3>2 DEF InChannel
    <3>3. CASE x # r
      <4>1. req'[x] = req[x]
        BY <1>11, <3>3
      <4> QED BY <1>1, <4>1 DEF Apart
    <3> QED BY <3>2, <3>3
  <2> QED BY <2>1, <2>2, <2>3, <2>4, <2>5 DEF Apart
<1> QED BY <1>14, <1>15, <1>17 DEF SchedInv

(***************************************************************************)
(* Requests enter an engine.                                               *)
(***************************************************************************)

(* A request that is nowhere queues up on engine e.                        *)
LEMMA AddKeeps ==
  ASSUME SchedInv, NEW e \in Engines, NEW r \in Requests, NEW q \in RequestRecords, Add(e, r, q),
         \A f \in Engines : r \notin tracked[f] /\ r \notin Channel(f)' /\ Channel(f)' \subseteq Channel(f)
                            /\ IsInjective(d2d'[f]),
         InQueue(r, q, 0), d2d' \in [Engines -> Seq(Requests)], kv_modeling' = kv_modeling
  PROVE  SchedInv'
<1>1. /\ SchedTypeOK /\ Apart /\ Seated(e) /\ Healthy(e) /\ Accounted(e)
      /\ \A f \in Engines : EngineInv(f)
  BY DEF SchedInv, EngineInv
<1>2. /\ Admissible(e, r)
      /\ req' = [req EXCEPT ![r] = q]
      /\ waiting' = [waiting EXCEPT ![e] = Append(@, r)]
      /\ tracked' = [tracked EXCEPT ![e] = @ \cup {r}]
      /\ sched' = IF AtStage(e, "idle") THEN [sched EXCEPT ![e].pc = "ready"] ELSE sched
      /\ UNCHANGED <<running, slots, free_blocks>>
  BY DEF Add
<1>3. /\ waiting[e] \in Seq(Requests) /\ sched[e] \in Locals /\ r \notin tracked[e]
      /\ tracked[e] \subseteq Requests
  BY <1>1, TypesAt
<1>4. r \notin Waiting(e) /\ r \notin Running(e) /\ r \notin Batch(e)
  BY <1>1, <1>3 DEF Seated
<1>5. /\ Append(waiting[e], r) \in Seq(Requests)
      /\ ToSet(Append(waiting[e], r)) = Waiting(e) \cup {r}
      /\ IsInjective(Append(waiting[e], r))
  BY <1>1, <1>3, <1>4, QueueAppend DEF Seated, Waiting
<1>6. /\ waiting' \in [Engines -> Seq(Requests)] /\ waiting'[e] = Append(waiting[e], r)
      /\ \A f \in Engines \ {e} : waiting'[f] = waiting[f]
  BY <1>1, <1>2, <1>5 DEF SchedTypeOK
<1>7. /\ req' \in [Requests -> RequestRecords] /\ req'[r] = q
      /\ \A x \in Requests \ {r} : req'[x] = req[x]
  BY <1>1, <1>2 DEF SchedTypeOK
<1>8. /\ tracked' \in [Engines -> SUBSET Requests] /\ tracked'[e] = tracked[e] \cup {r}
      /\ \A f \in Engines \ {e} : tracked'[f] = tracked[f]
  BY <1>1, <1>2 DEF SchedTypeOK
<1>9. /\ sched' \in [Engines -> Locals]
      /\ sched'[e].batch = sched[e].batch /\ sched'[e].index = sched[e].index
      /\ sched'[e].budget = sched[e].budget
      /\ sched'[e].pc = sched[e].pc \/ (sched[e].pc = "idle" /\ sched'[e].pc = "ready")
      /\ \A f \in Engines \ {e} : sched'[f] = sched[f]
  <2>1. sched \in [Engines -> Locals]
    BY <1>1 DEF SchedTypeOK
  <2>2. CASE AtStage(e, "idle")
    <3> DEFINE o == [sched[e] EXCEPT !.pc = "ready"]
    <3>1. sched' = [sched EXCEPT ![e] = o]
      BY <1>2, <2>1, <2>2
    <3>2. /\ o \in Locals /\ o.pc = "ready" /\ o.batch = sched[e].batch /\ o.index = sched[e].index
          /\ o.budget = sched[e].budget
      BY <1>3 DEF Locals, Stages, Yielded
    <3> HIDE DEF o
    <3> QED BY <2>1, <2>2, <3>1, <3>2 DEF AtStage
  <2>3. CASE ~ AtStage(e, "idle")
    <3>1. sched' = sched
      BY <1>2, <2>3
    <3>2. sched'[e] = sched[e] /\ \A f \in Engines : sched'[f] = sched[f]
      BY <3>1
    <3> QED BY <2>1, <3>1, <3>2
  <2> QED BY <2>2, <2>3
<1>10. SchedTypeOK'
  BY <1>1, <1>2, <1>6, <1>7, <1>8, <1>9 DEF SchedTypeOK
<1>11. Running(e)' = Running(e) /\ Waiting(e)' = Waiting(e) \cup {r} /\ Batch(e)' = Batch(e)
  BY <1>2, <1>5, <1>6, <1>9 DEF Running, Waiting, Batch
<1>12. Seated(e)'
  <2>1. tracked'[e] = Running(e)' \cup Waiting(e)' /\ Running(e)' \cap Waiting(e)' = {}
        /\ Batch(e)' \subseteq Running(e)'
    BY <1>1, <1>4, <1>8, <1>11 DEF Seated
  <2>2. IsInjective(running'[e]) /\ IsInjective(waiting'[e]) /\ IsInjective(sched'[e].batch)
    BY <1>1, <1>2, <1>5, <1>6, <1>9 DEF Seated
  <2>3. sched'[e].pc \in {"ready", "idle"} => sched'[e].batch = <<>>
    BY <1>1, <1>9 DEF Seated
  <2>4. ASSUME sched'[e].pc = "running"
        PROVE  /\ sched'[e].index = Len(sched'[e].batch) + 1
               /\ Len(sched'[e].batch) <= Len(running'[e])
               /\ \A i \in 1..Len(sched'[e].batch) : sched'[e].batch[i] = running'[e][i]
    <3>1. sched[e].pc = "running"
      BY <1>9, <2>4
    <3> QED BY <1>1, <1>2, <1>9, <3>1 DEF Seated
  <2> QED BY <2>1, <2>2, <2>3, <2>4 DEF Seated
<1>13. Healthy(e)'
  <2>1. Waiting(e) \subseteq Requests /\ Running(e) \subseteq Requests /\ Batch(e) \subseteq Requests
    BY <1>1, TypesAt
  <2>2. slots[e][r] = 0
    BY <1>1, <1>3 DEF Healthy
  <2>3. \A x \in Requests \ tracked'[e] : slots'[e][x] = 0
    BY <1>1, <1>2, <1>8 DEF Healthy
  <2>4. \A x \in Waiting(e)' : InQueue(x, req'[x], slots'[e][x])
    <3>1. TAKE x \in Waiting(e)'
    <3>2. CASE x = r
      BY <1>2, <1>7, <2>2, <3>2
    <3>3. CASE x # r
      BY <1>1, <1>2, <1>7, <1>11, <2>1, <3>3 DEF Healthy
    <3> QED BY <3>2, <3>3
  <2>5. \A x \in Running(e) : req'[x] = req[x]
    BY <1>4, <1>7, <2>1
  <2>6. \A x \in Running(e)' \ Batch(e)' : InRunning(x, req'[x], slots'[e][x])
    BY <1>1, <1>2, <1>11, <2>5 DEF Healthy
  <2>7. \A x \in Batch(e)' : InBatch(x, req'[x], slots'[e][x])
    BY <1>1, <1>2, <1>11, <2>5 DEF Healthy, Seated
  <2>8. \A x \in tracked'[e] : Admissible(e, x)
    BY <1>1, <1>2, <1>8 DEF Healthy
  <2> QED BY <2>3, <2>4, <2>6, <2>7, <2>8 DEF Healthy, Admissible, Capacity
<1>14. Accounted(e)'
  <2>1. BatchTokens(e)' = BatchTokens(e)
    <3>1. Batch(e) \in SUBSET Requests
      BY <1>1, TypesAt
    <3> QED BY <1>4, <1>7, <1>11, <3>1, SameTokens DEF BatchTokens
  <2>2. HeldBlocks(e)' = HeldBlocks(e)
    BY <1>2 DEF HeldBlocks
  <2> QED BY <1>1, <1>2, <1>9, <2>1, <2>2 DEF Accounted
<1>15. StepOn(e, r)
  BY <1>2, <1>6, <1>7, <1>8, <1>9 DEF StepOn
<1>16. \A f \in Engines : EngineInv(f)'
  <2>1. TAKE f \in Engines
  <2>2. CASE f # e
    BY <1>1, <1>15, <2>2, OtherEngines
  <2> QED BY <1>12, <1>13, <1>14, <2>2 DEF EngineInv
<1>17. Apart'
  <2>1. \A f \in Engines : IsInjective(d2d'[f])
    OBVIOUS
  <2>2. \A f, g \in Engines : tracked'[f] \cap Channel(g)' = {}
    <3>1. TAKE f, g \in Engines
    <3>2. tracked[f] \cap Channel(g) = {} /\ Channel(g)' \subseteq Channel(g) /\ r \notin Channel(g)'
      BY <1>1 DEF Apart
    <3>3. tracked'[f] \subseteq tracked[f] \cup {r}
      BY <1>8
    <3> QED BY <3>2, <3>3
  <2>3. \A f, g \in Engines : f # g => tracked'[f] \cap tracked'[g] = {} /\ Channel(f)' \cap Channel(g)' = {}
    <3>1. TAKE f, g \in Engines
    <3>2. HAVE f # g
    <3>3. /\ tracked[f] \cap tracked[g] = {} /\ Channel(f) \cap Channel(g) = {}
          /\ Channel(f)' \subseteq Channel(f) /\ Channel(g)' \subseteq Channel(g)
          /\ r \notin tracked[f] /\ r \notin tracked[g]
      BY <1>1, <3>2 DEF Apart
    <3> QED BY <1>8, <3>2, <3>3
  <2>4. \A f \in Engines : \A x \in Channel(f)' : InChannel(x, req'[x])
    <3>1. TAKE f \in Engines
    <3>2. TAKE x \in Channel(f)'
    <3>3. x \in Channel(f) /\ x # r /\ x \in Requests
      BY <1>1, TypesAt
    <3>4. InChannel(x, req[x]) /\ req'[x] = req[x]
      BY <1>1, <1>7, <3>3 DEF Apart
    <3> QED BY <3>4
  <2>5. \A x \in Requests :
           /\ req'[x].state = "INITIAL" => req'[x] = NewRequest(x)
           /\ req'[x].state = "DECODE_DONE" => req'[x].decoded = OutputTokens[x]
    <3>1. TAKE x \in Requests
    <3>2. CASE x = r
      BY <1>7, <3>2 DEF InQueue, Prefills
    <3>3. CASE x # r
      <4>1. req'[x] = req[x]
        BY <1>7, <3>3
      <4> QED BY <1>1, <4>1 DEF Apart
    <3> QED BY <3>2, <3>3
  <2> QED BY <2>1, <2>2, <2>3, <2>4, <2>5 DEF Apart
<1> QED BY <1>10, <1>16, <1>17 DEF SchedInv

(* A request that has just arrived is in no engine and in no channel.      *)
LEMMA InitialIsNowhere ==
  ASSUME SchedInv, NEW r \in Requests, req[r].state = "INITIAL", NEW e \in Engines
  PROVE  r \notin tracked[e] /\ r \notin Channel(e)
<1>1. Apart /\ Seated(e) /\ Healthy(e)
  BY DEF SchedInv, EngineInv
<1>2. r \notin Waiting(e)
  BY <1>1 DEF Healthy, InQueue, Prefills
<1>3. r \notin Running(e)
  BY <1>1 DEF Healthy, InRunning, InBatch, Prefills
<1>4. r \notin Channel(e)
  BY <1>1 DEF Apart, InChannel
<1> QED BY <1>1, <1>2, <1>3, <1>4 DEF Seated

(* Its record when it begins to compute its prompt. *)
LEMMA RecordServed ==
  ASSUME NEW r \in Requests, NEW q, q = NewRequest(r), NEW b \in BOOLEAN,
         NEW p, \/ p = WithState(q, "PREFILLING")
                \/ p = [WithState(q, "PREFILLING") EXCEPT !.need_kv_transfer = b]
  PROVE  p \in RequestRecords /\ InQueue(r, p, 0)
<1>1. InputTokens[r] \in Nat \ {0} /\ OutputTokens[r] \in Nat \ {0}
  BY RequestAssumption
<1>2. q \in RequestRecords
  BY <1>1 DEF NewRequest, RequestRecords, RequestStates
<1>3. /\ q.decoded = 0 /\ q.seq_len = 0 /\ q.new_tokens = InputTokens[r]
      /\ ~ q.kv_transfer_done
  BY DEF NewRequest
<1> DEFINE s == WithState(q, "PREFILLING")
<1>4. /\ s \in RequestRecords /\ s.state = "PREFILLING" /\ s.decoded = 0 /\ s.seq_len = 0
      /\ s.new_tokens = InputTokens[r] /\ ~ s.kv_transfer_done
  BY <1>2, <1>3 DEF WithState, RequestRecords, RequestStates
<1> HIDE DEF s
<1>5. /\ p \in RequestRecords /\ p.state = "PREFILLING" /\ p.decoded = 0 /\ p.seq_len = 0
      /\ p.new_tokens = InputTokens[r] /\ ~ p.kv_transfer_done
  <2>1. CASE p = s
    BY <1>4, <2>1
  <2>2. CASE p = [s EXCEPT !.need_kv_transfer = b]
    BY <1>4, <2>2 DEF RequestRecords
  <2> QED BY <2>1, <2>2 DEF s
<1> QED BY <1>1, <1>5 DEF InQueue, Prefills

LEMMA ArriveKeeps ==
  ASSUME SchedInv, NEW e \in Engines, NEW r \in Requests, Arrive(e, r)
  PROVE  SchedInv'
<1> DEFINE q == WithState(req[r], "PREFILLING")
<1>1. SchedTypeOK /\ Apart
  BY DEF SchedInv
<1>2. req[r].state = "INITIAL" /\ Add(e, r, q) /\ UNCHANGED <<d2d, kv_modeling>>
  BY DEF Arrive
<1>3. req[r] = NewRequest(r)
  BY <1>1, <1>2 DEF Apart
<1>5. q \in RequestRecords /\ InQueue(r, q, 0)
  BY <1>3, RecordServed
<1> HIDE DEF q
<1>6. \A f \in Engines : r \notin tracked[f] /\ r \notin Channel(f)
  BY <1>2, InitialIsNowhere
<1>7. \A f \in Engines : Channel(f)' = Channel(f) /\ IsInjective(d2d'[f])
  BY <1>1, <1>2 DEF Channel, Apart
<1>8. d2d' \in [Engines -> Seq(Requests)] /\ kv_modeling' = kv_modeling
  BY <1>1, <1>2 DEF SchedTypeOK
<1> QED BY <1>2, <1>5, <1>6, <1>7, <1>8, AddKeeps

LEMMA InitEstablishes == SchedInit => SchedInv
<1> SUFFICES ASSUME SchedInit PROVE SchedInv
  OBVIOUS
<1> USE DEF SchedInit
<1>1. MaxTokensBudget \in Nat /\ NumBlocks \in [Engines -> Nat]
  BY SchedulerAssumption
<1>2. \A r \in Requests : NewRequest(r) \in RequestRecords
  BY RequestAssumption DEF NewRequest, RequestRecords, RequestStates
<1>3. <<>> \in Seq(Requests)
  BY EmptySeq
<1>4. Outside("ready", <<>>) \in Locals
  BY <1>1, <1>3 DEF Outside, Locals, Stages, Yielded
<1>5. SchedTypeOK
  <2>1. req \in [Requests -> RequestRecords]
    BY <1>2
  <2>2. waiting \in [Engines -> Seq(Requests)] /\ running \in [Engines -> Seq(Requests)] /\ d2d \in [Engines -> Seq(Requests)]
    BY <1>3
  <2>3. sched \in [Engines -> Locals]
    BY <1>4
  <2>4. tracked \in [Engines -> SUBSET Requests] /\ slots \in [Engines -> [Requests -> Nat]]
        /\ free_blocks \in [Engines -> Nat] /\ kv_modeling \in KvTransferModes
    BY <1>1
  <2> QED BY <2>1, <2>2, <2>3, <2>4 DEF SchedTypeOK
<1>6. \A e \in Engines : /\ Running(e) = {} /\ Waiting(e) = {} /\ Channel(e) = {} /\ Batch(e) = {}
                         /\ IsInjective(running[e]) /\ IsInjective(waiting[e]) /\ IsInjective(d2d[e])
                         /\ IsInjective(sched[e].batch) /\ tracked[e] = {}
                         /\ sched[e].pc = "ready" /\ sched[e].batch = <<>>
  BY EmptyQueue DEF Running, Waiting, Channel, Batch, Outside
<1>7. Apart
  <2>1. \A r \in Requests : /\ req[r].state = "INITIAL" => req[r] = NewRequest(r)
                            /\ req[r].state = "DECODE_DONE" => req[r].decoded = OutputTokens[r]
    BY DEF NewRequest
  <2> QED BY <1>6, <2>1 DEF Apart
<1>8. ASSUME NEW e \in Engines PROVE EngineInv(e)
  <2>1. Seated(e)
    BY <1>6 DEF Seated
  <2>2. Healthy(e)
    BY <1>6 DEF Healthy
  <2>3. HeldBlocks(e) = 0
    <3> DEFINE f == [r \in Requests |-> BlocksFor(slots[e][r])]
    <3>1. \A r \in Requests : f[r] = 0
      BY NoBlocksForNone
    <3>2. IsFiniteSet(Requests)
      BY RequestAssumption
    <3> HIDE DEF f
    <3>3. SumOn(f, Requests) = 0
      <4>1. CASE Requests = {}
        BY <4>1, SumEmpty
      <4>2. CASE Requests # {}
        <5>1. PICK r \in Requests : TRUE
          BY <4>2
        <5>2. \A x \in Requests : f[x] \in Nat
          BY <3>1
        <5>3. \A x \in Requests \ {r} : f[x] = 0
          BY <3>1
        <5> QED BY <3>1, <3>2, <5>1, <5>2, <5>3, SumBounds
      <4> QED BY <4>1, <4>2
    <3> QED BY <3>3 DEF HeldBlocks, f
  <2>4. Accounted(e)
    BY <1>1, <1>6, <2>3 DEF Accounted
  <2> QED BY <2>1, <2>2, <2>4 DEF EngineInv
<1> QED BY <1>5, <1>7, <1>8 DEF SchedInv

(***************************************************************************)
(* The scheduler keeps the invariant.                                      *)
(***************************************************************************)

LEMMA ProceedKeeps ==
  ASSUME SchedInv, NEW e \in Engines, Proceed(e)
  PROVE  SchedInv'
BY LocalSteps, ScheduleRunningKeeps, PreemptKeeps, ScheduleWaitingKeeps, PostChunkedKeeps,
   PostDecodingKeeps DEF Proceed

LEMMA HandOverKeeps ==
  ASSUME SchedInv, NEW e \in Engines, HandOver(e)
  PROVE  SchedInv'
BY ReceiveKvsKeeps, PostHandOffKeeps DEF HandOver

(* The steps of an engine.                                                 *)
EngineMoves(e) == Proceed(e) \/ HandOver(e) \/ \E r \in Requests : PostFinished(e, r)

LEMMA MovesKeep ==
  ASSUME SchedInv, NEW e \in Engines, EngineMoves(e)
  PROVE  SchedInv'
BY ProceedKeeps, HandOverKeeps, PostFinishedKeeps DEF EngineMoves

LEMMA StutterKeeps == SchedInv /\ UNCHANGED schedVars => SchedInv'
<1> SUFFICES ASSUME SchedInv, UNCHANGED schedVars PROVE SchedInv'
  OBVIOUS
<1>1. UNCHANGED <<req, waiting, running, tracked, slots, free_blocks, sched, d2d, kv_modeling>>
  BY DEF schedVars
<1>2. \A e \in Engines :
         /\ Running(e)' = Running(e) /\ Waiting(e)' = Waiting(e) /\ Batch(e)' = Batch(e)
         /\ Channel(e)' = Channel(e)
  BY <1>1 DEF Running, Waiting, Batch, Channel
<1>3. SchedTypeOK' /\ Apart'
  BY <1>1, <1>2 DEF SchedInv, SchedTypeOK, Apart
<1>4. ASSUME NEW e \in Engines PROVE EngineInv(e)'
  <2>1. Seated(e) /\ Healthy(e) /\ Accounted(e)
    BY DEF SchedInv, EngineInv
  <2>2. BatchTokens(e)' = BatchTokens(e) /\ HeldBlocks(e)' = HeldBlocks(e)
    BY <1>1, <1>2 DEF BatchTokens, HeldBlocks
  <2> QED BY <1>1, <1>2, <2>1, <2>2 DEF EngineInv, Seated, Healthy, Accounted, Admissible, Capacity
<1> QED BY <1>3, <1>4 DEF SchedInv

LEMMA SchedStep == SchedInv /\ [SchedNext]_schedVars => SchedInv'
<1> SUFFICES ASSUME SchedInv, [SchedNext]_schedVars PROVE SchedInv'
  OBVIOUS
<1>1. ASSUME NEW e \in Engines, Proceed(e) PROVE SchedInv'
  BY <1>1, ProceedKeeps
<1>2. ASSUME NEW e \in Engines, NEW r \in Requests, PostFinished(e, r) PROVE SchedInv'
  BY <1>2, PostFinishedKeeps
<1>3. ASSUME NEW e \in Engines, NEW r \in Requests, Arrive(e, r) PROVE SchedInv'
  BY <1>3, ArriveKeeps
<1>4. CASE UNCHANGED schedVars
  BY <1>4, StutterKeeps
<1> QED BY <1>1, <1>2, <1>3, <1>4 DEF SchedNext, Over

LEMMA SchedInvariant == SchedSpec => []SchedInv
<1> QED BY InitEstablishes, SchedStep, PTL DEF SchedSpec

(***************************************************************************)
(* What the invariant says.                                                *)
(***************************************************************************)

LEMMA OnePlaceFollows == SchedInv => OnePlacePerRequest
<1> SUFFICES ASSUME SchedInv PROVE OnePlacePerRequest
  OBVIOUS
<1>1. SchedTypeOK /\ Apart /\ \A e \in Engines : Seated(e)
  BY DEF SchedInv, EngineInv
<1>2. ASSUME NEW e \in Engines
      PROVE  tracked[e] = ToSet(Line(e)) /\ IsInjective(Line(e))
  <2> DEFINE s == running[e]
             t == waiting[e]
             u == s \o t
  <2>1. s \in Seq(Requests) /\ t \in Seq(Requests)
    BY <1>1, TypesAt
  <2>2. Len(s) \in Nat /\ Len(t) \in Nat
    BY <2>1
  <2>3. /\ u \in Seq(Requests) /\ Len(u) = Len(s) + Len(t)
        /\ \A i \in 1..Len(s) + Len(t) : u[i] = IF i <= Len(s) THEN s[i] ELSE t[i - Len(s)]
    BY <2>1, ConcatProperties
  <2>4. /\ Running(e) = {s[i] : i \in 1..Len(s)} /\ Waiting(e) = {t[i] : i \in 1..Len(t)}
        /\ \A i, j \in 1..Len(s) : s[i] = s[j] => i = j
        /\ \A i, j \in 1..Len(t) : t[i] = t[j] => i = j
    BY <1>1, <2>1, QueueElements DEF Running, Waiting, Seated
  <2>5. Running(e) \cap Waiting(e) = {} /\ tracked[e] = Running(e) \cup Waiting(e)
    BY <1>1 DEF Seated
  <2> HIDE DEF s, t, u
  <2>6. /\ ToSet(u) = {u[i] : i \in 1..Len(s) + Len(t)}
        /\ IsInjective(u) <=> \A i, j \in 1..Len(s) + Len(t) : u[i] = u[j] => i = j
    BY <2>3, QueueElements
  <2>7. \A i \in 1..Len(s) : i \in 1..Len(s) + Len(t) /\ u[i] = s[i]
    BY <2>2, <2>3
  <2>8. \A i \in 1..Len(t) : Len(s) + i \in 1..Len(s) + Len(t) /\ u[Len(s) + i] = t[i]
    <3>1. TAKE i \in 1..Len(t)
    <3>2. Len(s) + i \in 1..Len(s) + Len(t) /\ ~ (Len(s) + i <= Len(s)) /\ (Len(s) + i) - Len(s) = i
      BY <2>2
    <3> QED BY <2>3, <3>2
  <2>9. \A i \in 1..Len(s) + Len(t) :
           \/ i \in 1..Len(s) /\ u[i] = s[i]
           \/ i - Len(s) \in 1..Len(t) /\ u[i] = t[i - Len(s)]
    BY <2>2, <2>3
  <2>10. ToSet(u) = Running(e) \cup Waiting(e)
    <3>1. ToSet(u) \subseteq Running(e) \cup Waiting(e)
      BY <2>4, <2>6, <2>9
    <3>2. Running(e) \subseteq ToSet(u)
      BY <2>4, <2>6, <2>7
    <3>3. Waiting(e) \subseteq ToSet(u)
      BY <2>4, <2>6, <2>8, SMTT(30)
    <3> QED BY <3>1, <3>2, <3>3
  <2>11. \A i, j \in 1..Len(s) + Len(t) : u[i] = u[j] => i = j
    <3>1. TAKE i, j \in 1..Len(s) + Len(t)
    <3>2. HAVE u[i] = u[j]
    <3>3. i \in Int /\ j \in Int
      BY <2>2
    <3>4. CASE i \in 1..Len(s) /\ j \in 1..Len(s)
      BY <2>4, <2>7, <3>2, <3>4
    <3>5. CASE i \notin 1..Len(s) /\ j \notin 1..Len(s)
      <4>1. /\ i - Len(s) \in 1..Len(t) /\ u[i] = t[i - Len(s)]
            /\ j - Len(s) \in 1..Len(t) /\ u[j] = t[j - Len(s)]
        BY <2>9, <3>5
      <4>2. i - Len(s) = j - Len(s)
        BY <2>4, <3>2, <4>1
      <4> QED BY <2>2, <3>3, <4>2
    <3>6. CASE i \in 1..Len(s) /\ j \notin 1..Len(s)
      <4>1. u[i] \in Running(e) /\ u[j] \in Waiting(e)
        BY <2>4, <2>7, <2>9, <3>6
      <4> QED BY <2>5, <3>2, <4>1
    <3>7. CASE i \notin 1..Len(s) /\ j \in 1..Len(s)
      <4>1. u[j] \in Running(e) /\ u[i] \in Waiting(e)
        BY <2>4, <2>7, <2>9, <3>7
      <4> QED BY <2>5, <3>2, <4>1
    <3> QED BY <3>4, <3>5, <3>6, <3>7
  <2> QED BY <2>5, <2>6, <2>10, <2>11 DEF Line, u, s, t
<1>3. /\ \A e \in Engines : IsInjective(d2d[e])
      /\ \A e, f \in Engines : tracked[e] \cap ToSet(d2d[f]) = {}
      /\ \A e \in Engines : \A f \in Engines \ {e} :
            tracked[e] \cap tracked[f] = {} /\ ToSet(d2d[e]) \cap ToSet(d2d[f]) = {}
  BY <1>1 DEF Apart, Channel
<1> QED BY <1>2, <1>3 DEF OnePlacePerRequest

LEMMA SlotsFollow == SchedInv => SlotsMatchSequence
<1> SUFFICES ASSUME SchedInv, NEW e \in Engines, NEW r \in Requests
             PROVE  LET q        == req[r]
                        rejected == IF q.state = "DECODING" /\ q.new_tokens = 0
                                    THEN q.query_len - q.accepted ELSE 0
                    IN  IF r \in ToSet(running[e]) THEN slots[e][r] = q.seq_len - rejected
                        ELSE slots[e][r] \in {0} \cup (IF r \in tracked[e] /\ q.kv_transfer_done
                                                        THEN {q.seq_len} ELSE {})
  BY DEF SlotsMatchSequence
<1> DEFINE q == req[r]
           n == slots[e][r]
<1>1. SchedTypeOK /\ Seated(e) /\ Healthy(e)
  BY DEF SchedInv, EngineInv
<1>2. q \in RequestRecords /\ n \in Nat /\ DecodeQueryLen \in Nat
  BY <1>1, RequestAssumption DEF SchedTypeOK
<1>3. q.seq_len \in Nat /\ q.query_len \in Nat /\ q.accepted \in Nat
  BY <1>2 DEF RequestRecords
<1>4. CASE r \in Running(e) \ Batch(e)
  <2>1. q.new_tokens > 0 /\ n = q.seq_len
    BY <1>1, <1>4 DEF Healthy, InRunning
  <2> HIDE DEF q, n
  <2>2. n = q.seq_len - 0 /\ q.new_tokens # 0
    BY <1>2, <1>3, <2>1 DEF RequestRecords
  <2> QED BY <1>4, <2>2 DEF Running, q, n
<1>5. CASE r \in Batch(e)
  <2>1. InBatch(r, q, n) /\ r \in Running(e)
    BY <1>1, <1>5 DEF Healthy, Seated
  <2>2. CASE q.state = "DECODING"
    <3>1. q.new_tokens = 0 /\ q.query_len = DecodeQueryLen /\ n + DecodeQueryLen = q.seq_len + q.accepted
      BY <2>1, <2>2 DEF InBatch, Prefills
    <3>2. n = q.seq_len - (q.query_len - q.accepted)
      <4> HIDE DEF q, n
      <4> QED BY <1>2, <1>3, <3>1
    <3> QED BY <2>1, <2>2, <3>1, <3>2 DEF Running
  <2>3. CASE q.state # "DECODING"
    <3>1. n = q.seq_len - 0
      <4> HIDE DEF q, n
      <4> QED BY <1>3, <2>1, <2>3 DEF InBatch
    <3> QED BY <2>1, <2>3, <3>1 DEF Running
  <2> QED BY <2>2, <2>3
<1>6. CASE r \in Waiting(e)
  <2>1. InQueue(r, q, n) /\ r \notin Running(e) /\ r \in tracked[e]
    BY <1>1, <1>6 DEF Healthy, Seated
  <2> QED BY <2>1 DEF InQueue, Running
<1>7. CASE r \notin tracked[e]
  <2>1. n = 0 /\ r \notin Running(e)
    BY <1>1, <1>7 DEF Healthy, Seated
  <2> QED BY <2>1 DEF Running
<1> QED BY <1>1, <1>4, <1>5, <1>6, <1>7 DEF Seated

LEMMA PoolFollows == SchedInv => PoolAccounts
<1> SUFFICES ASSUME SchedInv, NEW e \in Engines
             PROVE  /\ free_blocks[e] + SumOn([r \in Requests |-> BlocksFor(slots[e][r])], Requests) = NumBlocks[e]
                    /\ \A r \in Requests : slots[e][r] <= InputTokens[r] + OutputTokens[r]
  BY DEF PoolAccounts
<1>1. SchedTypeOK /\ Seated(e) /\ Healthy(e) /\ Accounted(e)
  BY DEF SchedInv, EngineInv
<1>2. ASSUME NEW r \in Requests
      PROVE  slots[e][r] <= InputTokens[r] + OutputTokens[r]
  <2> DEFINE q == req[r]
             n == slots[e][r]
  <2>1. /\ q \in RequestRecords /\ n \in Nat /\ DecodeQueryLen \in Nat
        /\ InputTokens[r] \in Nat /\ OutputTokens[r] \in Nat
    BY <1>1, RequestAssumption DEF SchedTypeOK
  <2>2. q.seq_len \in Nat /\ q.new_tokens \in Nat /\ q.accepted \in Nat /\ q.decoded \in Nat
    BY <2>1 DEF RequestRecords
  <2> HIDE DEF q, n
  <2>3. ASSUME InRunning(r, q, n) \/ InBatch(r, q, n) \/ InQueue(r, q, n)
        PROVE  n <= InputTokens[r] + OutputTokens[r]
    BY <2>1, <2>2, <2>3 DEF InRunning, InBatch, InQueue, Prefills, DecodeReady
  <2>4. ASSUME n = 0 PROVE n <= InputTokens[r] + OutputTokens[r]
    BY <2>1, <2>4
  <2>5. \/ InRunning(r, q, n) \/ InBatch(r, q, n) \/ InQueue(r, q, n)
        \/ n = 0
    BY <1>1 DEF Healthy, Seated, q, n
  <2> QED BY <2>3, <2>4, <2>5 DEF n
<1> QED BY <1>1, <1>2 DEF Accounted, HeldBlocks

LEMMA BudgetFollows == SchedInv => BudgetRespected
BY DEF SchedInv, EngineInv, Accounted, BatchTokens, Batch, BudgetRespected, AtStage

LEMMA NoErrorFollows == SchedInv => NoSchedulerError
<1> SUFFICES ASSUME SchedInv, NEW e \in Engines
             PROVE  /\ InRunningLoop(e) => Computed(e, Current(e)) > 0
                    /\ InWaitingLoop(e) => Computed(e, Head(waiting[e])) > 0
                    /\ IsInjective(sched[e].batch)
                    /\ sched[e].pc \in {"execute", "post"} =>
                          \A r \in ToSet(sched[e].batch) :
                             /\ r \in ToSet(running[e])
                             /\ req[r].state \in {"PREFILLING", "DECODING", "RECOMPUTATION"}
                             /\ req[r].query_len <= req[r].seq_len
                             /\ req[r].state = "DECODING" =>
                                   req[r].new_tokens = 0 /\ req[r].query_len = DecodeQueryLen
  BY DEF NoSchedulerError
<1>1. SchedTypeOK /\ Seated(e) /\ Healthy(e)
  BY DEF SchedInv, EngineInv
<1>2. ASSUME InRunningLoop(e) PROVE Computed(e, Current(e)) > 0
  <2> DEFINE b == sched[e].batch
             i == sched[e].index
  <2>1. /\ b \in Seq(Requests) /\ running[e] \in Seq(Requests) /\ i \in Nat /\ Len(b) \in Nat
        /\ Len(running[e]) \in Nat /\ sched[e].budget \in Nat
    BY <1>1, TypesAt
  <2>2. i = Len(b) + 1 /\ i <= Len(running[e]) /\ \A j \in 1..Len(b) : b[j] = running[e][j]
    BY <1>1, <1>2 DEF Seated, InRunningLoop, AtStage
  <2>3. i \in 1..Len(running[e]) /\ \A j \in 1..Len(b) : j # i /\ j \in 1..Len(running[e])
    BY <2>1, <2>2
  <2>4. /\ ToSet(running[e]) = {running[e][j] : j \in 1..Len(running[e])}
        /\ \A j, k \in 1..Len(running[e]) : running[e][j] = running[e][k] => j = k
        /\ ToSet(b) = {b[j] : j \in 1..Len(b)}
    BY <1>1, <2>1, QueueElements DEF Seated
  <2>5. Current(e) \in Running(e) \ Batch(e)
    <3>1. \A j \in 1..Len(b) : b[j] # running[e][i]
      BY <2>2, <2>3, <2>4
    <3> QED BY <2>3, <2>4, <3>1 DEF Current, Running, Batch
  <2>6. Current(e) \in Requests /\ req[Current(e)] \in RequestRecords
    BY <1>1, <2>5, TypesAt DEF SchedTypeOK
  <2>7. req[Current(e)].new_tokens > 0 /\ sched[e].budget > 0
    BY <1>1, <1>2, <2>5 DEF Healthy, InRunning, InRunningLoop
  <2>8. req[Current(e)].new_tokens \in Nat
    BY <2>6 DEF RequestRecords
  <2> QED BY <2>1, <2>7, <2>8 DEF Computed, Min2
<1>3. ASSUME InWaitingLoop(e) PROVE Computed(e, Head(waiting[e])) > 0
  <2> DEFINE r == Head(waiting[e])
  <2>1. waiting[e] \in Seq(Requests) /\ waiting[e] # <<>> /\ sched[e].budget \in Nat /\ sched[e].budget > 0
    BY <1>1, <1>3, TypesAt DEF InWaitingLoop
  <2>2. r \in Waiting(e) /\ r \in Requests
    BY <2>1, QueueTail DEF Waiting
  <2> HIDE DEF r
  <2>3. InQueue(r, req[r], slots[e][r]) /\ req[r] \in RequestRecords
    BY <1>1, <2>2 DEF Healthy, SchedTypeOK
  <2>4. req[r].new_tokens \in Nat /\ req[r].decoded \in Nat
        /\ InputTokens[r] \in Nat \ {0} /\ DecodeQueryLen \in Nat \ {0}
    BY <2>2, <2>3, RequestAssumption DEF RequestRecords
  <2>5. req[r].new_tokens > 0
    BY <2>3, <2>4, SMTT(30) DEF InQueue, Prefills, HandedOver
  <2>6. Computed(e, r) > 0
    BY <2>1, <2>4, <2>5 DEF Computed, Min2
  <2> QED BY <2>6 DEF r
<1>4. ASSUME NEW r \in ToSet(sched[e].batch)
      PROVE  /\ r \in ToSet(running[e])
             /\ req[r].state \in {"PREFILLING", "DECODING", "RECOMPUTATION"}
             /\ req[r].query_len <= req[r].seq_len
             /\ req[r].state = "DECODING" =>
                   req[r].new_tokens = 0 /\ req[r].query_len = DecodeQueryLen
  <2>1. r \in Batch(e)
    BY <1>4 DEF Batch
  <2> QED BY <1>1, <2>1 DEF Healthy, Seated, Running, InBatch, Prefills
<1> QED BY <1>1, <1>2, <1>3, <1>4 DEF Seated

LEMMA ExactFollows == SchedInv => ExactOutput
<1> SUFFICES ASSUME SchedInv, NEW r \in Requests, Finished(r)
             PROVE  /\ req[r].decoded = OutputTokens[r]
                    /\ \A e \in Engines : slots[e][r] = 0 /\ r \notin tracked[e]
  BY DEF ExactOutput
<1>1. req[r].state = "DECODE_DONE"
  BY DEF Finished
<1>2. req[r].decoded = OutputTokens[r]
  BY <1>1 DEF SchedInv, Apart
<1>3. ASSUME NEW e \in Engines PROVE slots[e][r] = 0 /\ r \notin tracked[e]
  <2>1. Seated(e) /\ Healthy(e)
    BY DEF SchedInv, EngineInv
  <2>2. r \notin Waiting(e)
    BY <1>1, <2>1 DEF Healthy, InQueue, Prefills
  <2>3. r \notin Running(e)
    BY <1>1, <2>1 DEF Healthy, InRunning, InBatch, Prefills
  <2>4. r \notin tracked[e]
    BY <2>1, <2>2, <2>3 DEF Seated
  <2> QED BY <2>1, <2>4 DEF Healthy
<1> QED BY <1>2, <1>3

(***************************************************************************)
(* First come, first served.                                               *)
(***************************************************************************)

(* What is in both s and t comes in the same order. *)
KeepsOrder(s, t) ==
    \A i, j \in 1..Len(s) : \A k, l \in 1..Len(t) :
        (i < j /\ s[i] = t[k] /\ s[j] = t[l]) => k < l

LEMMA OrderSame ==
  ASSUME NEW S, NEW s \in Seq(S), IsInjective(s)
  PROVE  KeepsOrder(s, s)
<1>1. Len(s) \in Nat /\ \A i, j \in 1..Len(s) : s[i] = s[j] => i = j
  BY QueueElements
<1> QED BY <1>1 DEF KeepsOrder

LEMMA OrderAppend ==
  ASSUME NEW S, NEW s \in Seq(S), IsInjective(s), NEW x \in S, x \notin ToSet(s)
  PROVE  KeepsOrder(s, Append(s, x))
<1> DEFINE t == Append(s, x)
<1>1. /\ Len(s) \in Nat /\ \A i, j \in 1..Len(s) : s[i] = s[j] => i = j
      /\ \A i \in 1..Len(s) : s[i] # x
  BY QueueElements
<1>2. /\ Len(t) = Len(s) + 1
      /\ \A i \in 1..Len(s) : t[i] = s[i]
      /\ t[Len(s) + 1] = x
  BY AppendProperties
<1> HIDE DEF t
<1>3. ASSUME NEW i \in 1..Len(s), NEW k \in 1..Len(s) + 1, s[i] = t[k]
      PROVE  k = i
  <2>1. k \in 1..Len(s) \/ k = Len(s) + 1
    BY <1>1
  <2> QED BY <1>1, <1>2, <1>3, <2>1
<1> QED BY <1>1, <1>2, <1>3 DEF KeepsOrder, t

LEMMA OrderGap ==
  ASSUME NEW S, NEW s \in Seq(S), IsInjective(s), NEW t, Len(t) = Len(s) - 1,
         NEW p \in 1..Len(s),
         \A k \in 1..Len(s) - 1 : t[k] = IF k < p THEN s[k] ELSE s[k + 1]
  PROVE  KeepsOrder(s, t)
<1>1. Len(s) \in Nat /\ \A i, j \in 1..Len(s) : s[i] = s[j] => i = j
  BY QueueElements
<1>2. ASSUME NEW i \in 1..Len(s), NEW k \in 1..Len(s) - 1, s[i] = t[k]
      PROVE  i = IF k < p THEN k ELSE k + 1
  <2>1. k \in 1..Len(s) /\ k + 1 \in 1..Len(s)
    BY <1>1
  <2> QED BY <1>1, <1>2, <2>1
<1>3. ASSUME NEW i \in 1..Len(s), NEW j \in 1..Len(s), NEW k \in 1..Len(s) - 1, NEW l \in 1..Len(s) - 1,
             i < j, s[i] = t[k], s[j] = t[l]
      PROVE  k < l
  <2>1. i = (IF k < p THEN k ELSE k + 1) /\ j = IF l < p THEN l ELSE l + 1
    BY <1>2, <1>3
  <2>2. i \in Int /\ j \in Int /\ k \in Int /\ l \in Int /\ p \in Int
    BY <1>1
  <2> QED BY <1>3, <2>1, <2>2
<1> QED BY <1>3 DEF KeepsOrder

(* The elements of a concatenation. *)
LEMMA Joined ==
  ASSUME NEW S, NEW s \in Seq(S), NEW t \in Seq(S)
  PROVE  /\ s \o t \in Seq(S) /\ Len(s) \in Nat /\ Len(t) \in Nat
         /\ Len(s \o t) = Len(s) + Len(t)
         /\ \A i \in 1..Len(s) : (s \o t)[i] = s[i]
         /\ \A i \in Len(s) + 1 .. Len(s) + Len(t) : (s \o t)[i] = t[i - Len(s)]
<1> DEFINE u == s \o t
<1>1. Len(s) \in Nat /\ Len(t) \in Nat
  OBVIOUS
<1>2. /\ u \in Seq(S) /\ Len(u) = Len(s) + Len(t)
      /\ \A i \in 1..Len(s) + Len(t) : u[i] = IF i <= Len(s) THEN s[i] ELSE t[i - Len(s)]
  BY ConcatProperties
<1> HIDE DEF u
<1>3. \A i \in 1..Len(s) : u[i] = s[i]
  BY <1>1, <1>2
<1>4. \A i \in Len(s) + 1 .. Len(s) + Len(t) : u[i] = t[i - Len(s)]
  BY <1>1, <1>2
<1> QED BY <1>1, <1>2, <1>3, <1>4 DEF u

(* The victim of a preemption moves from the end of the running queue to   *)
(* the head of the waiting queue: the line stays as it is.                 *)
LEMMA LineOfPreempted ==
  ASSUME NEW S, NEW s \in Seq(S), IsInjective(s), s # <<>>, NEW w \in Seq(S)
  PROVE  RemoveFirst(s, Last(s)) \o (<<Last(s)>> \o w) = s \o w
<1> DEFINE v == Last(s)
           t == RemoveFirst(s, v)
           x == <<v>> \o w
           n == Len(s)
           m == Len(w)
<1>1. /\ t \in Seq(S) /\ Len(t) = n - 1 /\ \A i \in 1..n - 1 : t[i] = s[i]
      /\ v \in S /\ v = s[n] /\ n \in Nat \ {0} /\ m \in Nat
  <2>1. v \in ToSet(s) /\ ToSet(s) \subseteq S /\ v = s[n] /\ m \in Nat
    BY QueueWithoutLast, QueueElements DEF Last
  <2> QED BY <2>1, QueueWithoutLast, QueueWithout
<1>2. /\ x \in Seq(S) /\ Len(x) = m + 1 /\ x[1] = v /\ \A i \in 1..m : x[i + 1] = w[i]
  BY <1>1, QueuePush
<1> HIDE DEF v, t, x
<1>3. /\ t \o x \in Seq(S)
      /\ Len(t \o x) = Len(t) + Len(x)
      /\ \A i \in 1..Len(t) : (t \o x)[i] = t[i]
      /\ \A i \in Len(t) + 1 .. Len(t) + Len(x) : (t \o x)[i] = x[i - Len(t)]
  <2>1. t \in Seq(S) /\ x \in Seq(S)
    BY <1>1, <1>2
  <2> QED BY <2>1, Joined
<1>4. /\ s \o w \in Seq(S) /\ Len(s \o w) = n + m
      /\ \A i \in 1..n : (s \o w)[i] = s[i]
      /\ \A i \in n + 1 .. n + m : (s \o w)[i] = w[i - n]
  BY Joined
<1> HIDE DEF n, m
<1>5. Len(t \o x) = n + m
  BY <1>1, <1>2, <1>3
<1>6. ASSUME NEW i \in 1..n + m PROVE (t \o x)[i] = (s \o w)[i]
  <2>1. CASE i < n
    BY <1>1, <1>3, <1>4, <2>1
  <2>2. CASE i = n
    <3>1. i \in Len(t) + 1 .. Len(t) + Len(x) /\ i - Len(t) = 1 /\ i \in 1..n
      BY <1>1, <1>2, <2>2
    <3> QED BY <1>1, <1>2, <1>3, <1>4, <2>2, <3>1
  <2>3. CASE i > n
    <3>1. /\ i \in Len(t) + 1 .. Len(t) + Len(x) /\ i - n \in 1..m /\ i - Len(t) = (i - n) + 1
          /\ i \in n + 1 .. n + m
      BY <1>1, <1>2, <2>3
    <3>2. x[(i - n) + 1] = w[i - n]
      BY <1>2, <3>1
    <3> QED BY <1>3, <1>4, <3>1, <3>2
  <2>4. i < n \/ i = n \/ i > n
    BY <1>1
  <2> QED BY <2>1, <2>2, <2>3, <2>4
<1>7. t \o x = s \o w
  BY <1>3, <1>4, <1>5, <1>6, SeqEqual
<1> QED BY <1>7 DEF t, x, v

(* Scheduling the first waiting request moves it the other way. *)
LEMMA LineOfScheduled ==
  ASSUME NEW S, NEW s \in Seq(S), NEW w \in Seq(S), w # <<>>
  PROVE  Append(s, Head(w)) \o Tail(w) = s \o w
<1> DEFINE h == Head(w)
           t == Append(s, h)
           x == Tail(w)
           n == Len(s)
           m == Len(w)
<1>1. /\ h \in S /\ h = w[1] /\ x \in Seq(S) /\ Len(x) = m - 1 /\ \A i \in 1..m - 1 : x[i] = w[i + 1]
      /\ m \in Nat \ {0} /\ n \in Nat
  BY QueueTail
<1>2. /\ t \in Seq(S) /\ Len(t) = n + 1 /\ \A i \in 1..n : t[i] = s[i]
      /\ t[n + 1] = h
  BY <1>1, AppendProperties
<1> HIDE DEF h, t, x
<1>3. /\ t \o x \in Seq(S)
      /\ Len(t \o x) = Len(t) + Len(x)
      /\ \A i \in 1..Len(t) : (t \o x)[i] = t[i]
      /\ \A i \in Len(t) + 1 .. Len(t) + Len(x) : (t \o x)[i] = x[i - Len(t)]
  BY <1>1, <1>2, Joined, ZenonT(40)
<1>4. /\ s \o w \in Seq(S) /\ Len(s \o w) = n + m
      /\ \A i \in 1..n : (s \o w)[i] = s[i]
      /\ \A i \in n + 1 .. n + m : (s \o w)[i] = w[i - n]
  BY Joined
<1> HIDE DEF n, m
<1>5. Len(t \o x) = n + m
  BY <1>1, <1>2, <1>3
<1>6. ASSUME NEW i \in 1..n + m PROVE (t \o x)[i] = (s \o w)[i]
  <2>1. CASE i <= n
    BY <1>1, <1>2, <1>3, <1>4, <2>1
  <2>2. CASE i = n + 1
    <3>1. i \in 1..Len(t) /\ i - n = 1 /\ i \in n + 1 .. n + m
      BY <1>1, <1>2, <2>2
    <3> QED BY <1>1, <1>2, <1>3, <1>4, <2>2, <3>1
  <2>3. CASE i > n + 1
    <3>1. /\ i \in Len(t) + 1 .. Len(t) + Len(x) /\ i - Len(t) \in 1..m - 1 /\ (i - Len(t)) + 1 = i - n
          /\ i \in n + 1 .. n + m
      BY <1>1, <1>2, <2>3
    <3>2. x[i - Len(t)] = w[(i - Len(t)) + 1]
      BY <1>1, <3>1
    <3> QED BY <1>3, <1>4, <3>1, <3>2
  <2>4. i <= n \/ i = n + 1 \/ i > n + 1
    BY <1>1
  <2> QED BY <2>1, <2>2, <2>3, <2>4
<1>7. t \o x = s \o w
  BY <1>3, <1>4, <1>5, <1>6, SeqEqual
<1> QED BY <1>7 DEF t, x, h

(* A running request that leaves lets the others close up. *)
LEMMA LineOfRemoved ==
  ASSUME NEW S, NEW s \in Seq(S), NEW w \in Seq(S), IsInjective(s), IsInjective(s \o w),
         NEW r \in ToSet(s)
  PROVE  KeepsOrder(s \o w, RemoveFirst(s, r) \o w)
<1> DEFINE t == RemoveFirst(s, r)
           n == Len(s)
           m == Len(w)
<1>1. PICK p \in 1..n : /\ t \in Seq(S) /\ Len(t) = n - 1
                        /\ \A i \in 1..n - 1 : t[i] = IF i < p THEN s[i] ELSE s[i + 1]
  BY QueueRemove
<1> HIDE DEF t
<1>2. n \in Nat /\ m \in Nat
  OBVIOUS
<1> DEFINE c == s \o w
           d == t \o w
<1>3. /\ d \in Seq(S) /\ Len(d) = Len(t) + m
      /\ \A i \in 1..Len(t) : d[i] = t[i]
      /\ \A i \in Len(t) + 1 .. Len(t) + m : d[i] = w[i - Len(t)]
  BY <1>1, Joined
<1>4. /\ c \in Seq(S) /\ Len(c) = n + m /\ IsInjective(c)
      /\ \A i \in 1..n : c[i] = s[i]
      /\ \A i \in n + 1 .. n + m : c[i] = w[i - n]
  BY Joined
<1> HIDE DEF n, m, c, d
<1>5. Len(d) = n + m - 1 /\ p \in 1..n + m /\ p \in Int
  BY <1>1, <1>2, <1>3
<1>6. ASSUME NEW k \in 1..n + m - 1
      PROVE  d[k] = IF k < p THEN c[k] ELSE c[k + 1]
  <2>1. CASE k <= n - 1
    <3>1. k \in 1..n - 1 /\ k \in 1..n /\ k + 1 \in 1..n
      BY <1>2, <2>1
    <3>2. d[k] = t[k] /\ t[k] = (IF k < p THEN s[k] ELSE s[k + 1])
      BY <1>1, <1>3, <3>1
    <3>3. c[k] = s[k] /\ c[k + 1] = s[k + 1]
      BY <1>4, <3>1
    <3> QED BY <3>2, <3>3
  <2>2. CASE k >= n
    <3>1. /\ k \in Len(t) + 1 .. Len(t) + m /\ k - Len(t) = (k + 1) - n /\ ~ (k < p)
          /\ k + 1 \in n + 1 .. n + m
      BY <1>1, <1>2, <2>2
    <3>2. d[k] = w[(k + 1) - n]
      BY <1>3, <3>1
    <3>3. c[k + 1] = w[(k + 1) - n]
      BY <1>4, <3>1
    <3> QED BY <3>1, <3>2, <3>3
  <2> QED BY <1>2, <2>1, <2>2
<1>7. KeepsOrder(c, d)
  <2>1. Len(d) = Len(c) - 1 /\ p \in 1..Len(c)
    BY <1>2, <1>4, <1>5
  <2>2. \A k \in 1..Len(c) - 1 : d[k] = IF k < p THEN c[k] ELSE c[k + 1]
    BY <1>2, <1>4, <1>6
  <2> QED BY <1>4, <2>1, <2>2, OrderGap
<1> QED BY <1>7 DEF t, c, d

LEMMA LineKept ==
  ASSUME SchedInv, NEW e \in Engines, running'[e] = running[e], waiting'[e] = waiting[e]
  PROVE  KeepsOrder(Line(e), NextLine(e))
<1>1. OnePlacePerRequest /\ running[e] \in Seq(Requests) /\ waiting[e] \in Seq(Requests)
  BY OnePlaceFollows, TypesAt DEF SchedInv
<1>2. Line(e) \in Seq(Requests) /\ IsInjective(Line(e))
  BY <1>1, Joined DEF Line, OnePlacePerRequest
<1>3. NextLine(e) = Line(e)
  BY DEF NextLine, Line
<1> QED BY <1>2, <1>3, OrderSame

LEMMA OrderKept ==
  ASSUME SchedInv, [SchedNext]_schedVars, NEW e \in Engines
  PROVE  KeepsOrder(Line(e), NextLine(e))
<1>1. /\ SchedTypeOK /\ Seated(e) /\ OnePlacePerRequest
      /\ running[e] \in Seq(Requests) /\ waiting[e] \in Seq(Requests)
      /\ running \in [Engines -> Seq(Requests)] /\ waiting \in [Engines -> Seq(Requests)]
  BY OnePlaceFollows DEF SchedInv, EngineInv, SchedTypeOK
<1>2. Line(e) \in Seq(Requests) /\ IsInjective(Line(e)) /\ ToSet(Line(e)) = tracked[e]
  BY <1>1, Joined DEF Line, OnePlacePerRequest
<1>3. IsInjective(running[e])
  BY <1>1 DEF Seated
<1>4. CASE UNCHANGED schedVars
  BY <1>4, LineKept DEF schedVars
<1>5. ASSUME NEW f \in Engines, Proceed(f)
      PROVE  KeepsOrder(Line(e), NextLine(e))
  <2>1. CASE \/ Start(f) \/ ScheduleRunning(f) \/ EndRunning(f) \/ EndWaiting(f) \/ Sleep(f) \/ EndPass(f)
             \/ ProcessBatch(f) \/ PostChunked(f) \/ PostDecoding(f) \/ EndPost(f)
    <3>1. running' = running /\ waiting' = waiting
      BY <2>1 DEF Start, ScheduleRunning, EndRunning, EndWaiting, Sleep, EndPass, ProcessBatch,
                  PostChunked, PostDecoding, EndPost
    <3> QED BY <3>1, LineKept
  <2>2. CASE Preempt(f)
    <3>1. CASE f # e
      <4>1. running'[e] = running[e] /\ waiting'[e] = waiting[e]
        BY <1>1, <2>2, <3>1 DEF Preempt
      <4> QED BY <4>1, LineKept
    <3>2. CASE f = e
      <4> DEFINE v == Last(running[e])
      <4>1. /\ running'[e] = RemoveFirst(running[e], v) /\ waiting'[e] = <<v>> \o waiting[e]
            /\ InRunningLoop(e) /\ v # Current(e)
        BY <1>1, <2>2, <3>2 DEF Preempt, PutBack
      <4>2. running[e] # <<>>
        <5>1. sched[e].index < Len(running[e]) /\ Len(running[e]) \in Nat /\ sched[e].index \in Nat
          BY <1>1, <4>1, VictimIsLast, TypesAt
        <5> QED BY <1>1, <5>1
      <4>3. NextLine(e) = Line(e)
        BY <1>1, <1>3, <4>1, <4>2, LineOfPreempted DEF NextLine, Line
      <4> QED BY <1>2, <4>3, OrderSame
    <3> QED BY <3>1, <3>2
  <2>3. CASE ScheduleWaiting(f)
    <3>1. CASE f # e
      <4>1. running'[e] = running[e] /\ waiting'[e] = waiting[e]
        BY <1>1, <2>3, <3>1 DEF ScheduleWaiting
      <4> QED BY <4>1, LineKept
    <3>2. CASE f = e
      <4>1. /\ running'[e] = Append(running[e], Head(waiting[e])) /\ waiting'[e] = Tail(waiting[e])
            /\ waiting[e] # <<>>
        BY <1>1, <2>3, <3>2 DEF ScheduleWaiting, InWaitingLoop
      <4>2. NextLine(e) = Line(e)
        BY <1>1, <4>1, LineOfScheduled DEF NextLine, Line
      <4> QED BY <1>2, <4>2, OrderSame
    <3> QED BY <3>1, <3>2
  <2> QED BY <1>5, <2>1, <2>2, <2>3 DEF Proceed
<1>6. ASSUME NEW f \in Engines, NEW r \in Requests, PostFinished(f, r)
      PROVE  KeepsOrder(Line(e), NextLine(e))
  <2>1. waiting' = waiting /\ running' = [running EXCEPT ![f] = RemoveFirst(@, r)]
    BY <1>6 DEF PostFinished
  <2>2. CASE f # e
    BY <1>1, <2>1, <2>2, LineKept
  <2>3. CASE f = e
    <3>1. running'[e] = RemoveFirst(running[e], r)
      BY <1>1, <2>1, <2>3
    <3>2. r \in ToSet(running[e])
      BY <1>6, <2>3, BatchShrinks DEF PostFinished, InPost, Running
    <3>3. IsInjective(running[e] \o waiting[e])
      BY <1>2 DEF Line
    <3>4. KeepsOrder(running[e] \o waiting[e], RemoveFirst(running[e], r) \o waiting[e])
      BY <1>1, <1>3, <3>2, <3>3, LineOfRemoved
    <3> QED BY <2>1, <3>1, <3>4 DEF NextLine, Line
  <2> QED BY <2>2, <2>3
<1>7. ASSUME NEW f \in Engines, NEW r \in Requests, Arrive(f, r)
      PROVE  KeepsOrder(Line(e), NextLine(e))
  <2>1. /\ running' = running /\ waiting' = [waiting EXCEPT ![f] = Append(@, r)]
        /\ r \notin tracked[f]
    BY <1>7 DEF Arrive, Add
  <2>2. CASE f # e
    BY <1>1, <2>1, <2>2, LineKept
  <2>3. CASE f = e
    <3>1. NextLine(e) = running[e] \o Append(waiting[e], r)
      BY <1>1, <2>1, <2>3 DEF NextLine
    <3>2. running[e] \o Append(waiting[e], r) = Append(Line(e), r)
      <4>1. /\ Append(waiting[e], r) = waiting[e] \o <<r>> /\ <<r>> \in Seq(Requests)
            /\ Append(Line(e), r) = Line(e) \o <<r>>
        BY <1>1, <1>2, AppendIsConcat
      <4> QED BY <1>1, <4>1, ConcatAssociative DEF Line
    <3>3. KeepsOrder(Line(e), Append(Line(e), r))
      BY <1>2, <2>1, <2>3, OrderAppend
    <3> QED BY <3>1, <3>2, <3>3
  <2> QED BY <2>2, <2>3
<1> QED BY <1>4, <1>5, <1>6, <1>7 DEF SchedNext, Over

(***************************************************************************)
(* Progress of a pass on an engine that keeps its requests.                *)
(***************************************************************************)

(* No request is meant to be handed over. *)
Colocated ==
    \A r \in Requests :
        ~ req[r].need_kv_transfer /\ ~ req[r].kv_transfer_done /\ req[r].state # "KVS_TRANSFERRING"

(* What a pass has done so far if its batch is still empty: there was      *)
(* nothing running, then nothing waiting either.                           *)
Passing(e) ==
    /\ sched[e].pc = "running" /\ sched[e].preempted => running[e] # <<>>
    /\ sched[e].pc = "waiting" /\ sched[e].batch = <<>> => running[e] = <<>>
    /\ sched[e].pc = "decide" /\ sched[e].batch = <<>> => running[e] = <<>> /\ waiting[e] = <<>>

PassInv == Colocated /\ \A e \in Engines : Passing(e)

(* The request at hand in the first loop is not in the batch yet.          *)
LEMMA CurrentIsNext ==
  ASSUME SchedInv, NEW e \in Engines, InRunningLoop(e)
  PROVE  /\ Current(e) \in Running(e) \ Batch(e)
         /\ Current(e) \in tracked[e] /\ Current(e) \in Requests
         /\ InRunning(Current(e), req[Current(e)], slots[e][Current(e)])
<1> DEFINE b == sched[e].batch
           i == sched[e].index
           n == Len(running[e])
<1>1. SchedTypeOK /\ Seated(e) /\ Healthy(e)
  BY DEF SchedInv, EngineInv
<1>2. /\ b \in Seq(Requests) /\ running[e] \in Seq(Requests) /\ i \in Nat /\ Len(b) \in Nat
      /\ n \in Nat
  BY <1>1, TypesAt
<1>3. i = Len(b) + 1 /\ i <= n /\ \A j \in 1..Len(b) : b[j] = running[e][j]
  BY <1>1 DEF Seated, InRunningLoop, AtStage
<1>4. Current(e) = running[e][i] /\ i \in 1..n /\ \A j \in 1..Len(b) : j \in 1..n /\ j # i
  <2>1. Current(e) = running[e][i]
    BY DEF Current
  <2> HIDE DEF b, i, n
  <2> QED BY <1>2, <1>3, <2>1
<1>5. /\ ToSet(running[e]) = {running[e][j] : j \in 1..n}
      /\ \A j, k \in 1..n : running[e][j] = running[e][k] => j = k
      /\ ToSet(b) = {b[j] : j \in 1..Len(b)}
  BY <1>1, <1>2, QueueElements DEF Seated
<1>6. Current(e) \in Running(e)
  BY <1>4, <1>5 DEF Running
<1>7. \A j \in 1..Len(b) : b[j] # Current(e)
  BY <1>3, <1>4, <1>5
<1>8. Current(e) \in Running(e) \ Batch(e)
  BY <1>5, <1>6, <1>7 DEF Batch
<1> QED BY <1>1, <1>2, <1>4, <1>8 DEF Healthy, Seated

(* The slots a request at hand is to be given stay within its peak. *)
LEMMA WithinPeak ==
  ASSUME SchedInv, NEW e \in Engines, NEW r \in tracked[e],
         \/ InRunning(r, req[r], slots[e][r])
         \/ InQueue(r, req[r], slots[e][r]) /\ req[r].state # "KVS_TRANSFERRING"
  PROVE  /\ KvTokens(e, r) \in Nat /\ slots[e][r] \in Nat
         /\ slots[e][r] + KvTokens(e, r) <= InputTokens[r] + OutputTokens[r]
<1> DEFINE q    == req[r]
           held == slots[e][r]
           k    == KvTokens(e, r)
           b    == sched[e].budget
<1>1. /\ r \in Requests /\ q \in RequestRecords /\ held \in Nat /\ b \in Nat
      /\ InputTokens[r] \in Nat /\ OutputTokens[r] \in Nat
  <2>1. SchedTypeOK /\ r \in Requests
    BY TypesAt DEF SchedInv
  <2> QED BY <2>1, TypesAt, RequestAssumption DEF SchedTypeOK
<1>2. q.seq_len \in Nat /\ q.new_tokens \in Nat /\ q.accepted \in Nat /\ q.decoded \in Nat
  BY <1>1 DEF RequestRecords
<1>3. k = IF q.state = "DECODING" THEN q.accepted ELSE Min2(b, q.new_tokens)
  BY DEF KvTokens, Computed
<1>4. /\ q.decoded < OutputTokens[r] /\ held = q.seq_len
      /\ \/ Prefills(r, q)
         \/ q.state = "DECODING" /\ DecodeReady(r, q) /\ q.seq_len <= InputTokens[r] + q.decoded
  <2>1. CASE InRunning(r, q, held)
    BY <2>1 DEF InRunning
  <2>2. CASE InQueue(r, q, held) /\ q.state # "KVS_TRANSFERRING"
    BY <1>1, <1>2, <2>2 DEF InQueue
  <2> QED BY <2>1, <2>2
<1> HIDE DEF q, held, k, b
<1>5. CASE q.state = "DECODING"
  <2>1. k = q.accepted /\ q.accepted <= OutputTokens[r] - q.decoded /\ q.seq_len <= InputTokens[r] + q.decoded
    BY <1>3, <1>4, <1>5 DEF Prefills, DecodeReady
  <2> QED BY <1>1, <1>2, <1>4, <2>1 DEF q, held, k
<1>6. CASE q.state # "DECODING"
  <2>1. k = Min2(b, q.new_tokens) /\ q.seq_len + q.new_tokens = InputTokens[r] + q.decoded
    BY <1>3, <1>4, <1>6 DEF Prefills
  <2>2. k \in Nat /\ k <= q.new_tokens
    BY <1>1, <1>2, <2>1 DEF Min2
  <2> QED BY <1>1, <1>2, <1>4, <2>1, <2>2 DEF held, k
<1> QED BY <1>5, <1>6

(* A request fits whenever the peaks of all requests of the engine do.     *)
LEMMA FitsTogether ==
  ASSUME SchedInv, NEW e \in Engines, NEW r \in tracked[e], NEW k \in Nat,
         slots[e][r] + k <= InputTokens[r] + OutputTokens[r],
         SumOn([x \in Requests |-> BlocksFor(InputTokens[x] + OutputTokens[x])], tracked[e])
           <= NumBlocks[e]
  PROVE  Fits(e, r, k)
<1> DEFINE T == tracked[e]
           f == [x \in Requests |-> BlocksFor(slots[e][x])]
           p == [x \in Requests |-> BlocksFor(InputTokens[x] + OutputTokens[x])]
           h == slots[e][r]
           a == BlocksFor(h)
           b == BlocksFor(h + k)
           g == [f EXCEPT ![r] = b]
<1>1. /\ SchedTypeOK /\ Healthy(e) /\ PoolAccounts /\ r \in Requests /\ T \in SUBSET Requests
      /\ IsFiniteSet(Requests) /\ slots[e] \in [Requests -> Nat] /\ free_blocks[e] \in Nat
      /\ NumBlocks[e] \in Nat
      /\ \A x \in Requests : InputTokens[x] \in Nat /\ OutputTokens[x] \in Nat
  BY TypesAt, PoolFollows, RequestAssumption, SchedulerAssumption DEF SchedInv, EngineInv
<1>2. a \in Nat /\ b \in Nat /\ h \in Nat /\ h + k \in Nat
  <2>1. h \in Nat /\ h + k \in Nat
    BY <1>1
  <2> HIDE DEF h
  <2> QED BY <2>1, BlocksForBounds
<1>3. \A x \in Requests : f[x] \in Nat /\ p[x] \in Nat /\ f[x] <= p[x]
  <2>1. TAKE x \in Requests
  <2> DEFINE m == slots[e][x]
             n == InputTokens[x] + OutputTokens[x]
  <2>2. m \in Nat /\ n \in Nat /\ m <= n
    <3>1. slots[e][x] <= InputTokens[x] + OutputTokens[x]
      BY <1>1 DEF PoolAccounts
    <3> QED BY <1>1, <3>1
  <2>3. f[x] = BlocksFor(m) /\ p[x] = BlocksFor(n)
    OBVIOUS
  <2> HIDE DEF m, n, f, p
  <2> QED BY <2>2, <2>3, BlocksForBounds, BlocksForMonotone
<1>4. b <= p[r]
  <2> DEFINE n == InputTokens[r] + OutputTokens[r]
  <2>1. n \in Nat /\ h + k <= n /\ p[r] = BlocksFor(n)
    BY <1>1
  <2> HIDE DEF n, h, p
  <2> QED BY <1>2, <2>1, BlocksForMonotone
<1>5. \A x \in Requests \ T : f[x] = 0
  BY <1>1, NoBlocksForNone DEF Healthy
<1>6. f[r] = a /\ free_blocks[e] + SumOn(f, Requests) = NumBlocks[e]
  BY <1>1 DEF PoolAccounts
<1>7. SumOn(p, T) <= NumBlocks[e]
  OBVIOUS
<1> HIDE DEF f, p, a, b, h, T
<1>8. \A x \in Requests \ {r} : g[x] = f[x]
  BY DEF f
<1>9. g[r] = b
  BY <1>1 DEF f
<1> HIDE DEF g
<1>10. SumOn(g, Requests) = SumOn(f, Requests) - f[r] + g[r]
  <2>1. g[r] \in Nat /\ \A x \in Requests : f[x] \in Nat
    BY <1>2, <1>3, <1>9
  <2> QED BY <1>1, <1>8, <2>1, SumUpdate
<1>11. SumOn(g, Requests) <= SumOn(p, T)
  <2>1. r \in T
    BY DEF T
  <2>2. \A x \in Requests : g[x] \in Nat /\ p[x] \in Nat
    BY <1>2, <1>3, <1>8, <1>9
  <2>3. \A x \in T : g[x] <= p[x]
    BY <1>1, <1>3, <1>4, <1>8, <1>9
  <2>4. \A x \in Requests \ T : g[x] = 0
    BY <1>5, <1>8, <2>1
  <2> QED BY <1>1, <2>2, <2>3, <2>4, SumMonotone
<1>12. SumOn(f, Requests) \in Nat /\ SumOn(p, T) \in Nat
  <2>1. IsFiniteSet(T)
    BY <1>1, FS_Subset
  <2> QED BY <1>1, <1>3, <2>1, SumNat
<1>13. b - a <= free_blocks[e]
  BY <1>1, <1>2, <1>6, <1>7, <1>9, <1>10, <1>11, <1>12
<1> QED BY <1>13 DEF Fits, NewBlocks, a, b, h

(* A request that is the only one to hold slots can always be scheduled.   *)
LEMMA FitsAlone ==
  ASSUME SchedInv, NEW e \in Engines, NEW r \in tracked[e],
         \A x \in Requests \ {r} : slots[e][x] = 0,
         \/ InRunning(r, req[r], slots[e][r])
         \/ InQueue(r, req[r], slots[e][r]) /\ Prefills(r, req[r]),
         sched[e].budget = MaxTokensBudget
  PROVE  Schedulable(e, r)
<1> DEFINE q    == req[r]
           held == slots[e][r]
           k    == KvTokens(e, r)
           all  == InputTokens[r] + OutputTokens[r]
<1>1. SchedTypeOK /\ Healthy(e) /\ Accounted(e) /\ r \in Requests
  BY TypesAt DEF SchedInv, EngineInv
<1>2. /\ q \in RequestRecords /\ held \in Nat /\ free_blocks[e] \in Nat
      /\ slots[e] \in [Requests -> Nat] /\ IsFiniteSet(Requests)
      /\ InputTokens[r] \in Nat /\ OutputTokens[r] \in Nat /\ DecodeQueryLen \in Nat
      /\ MaxTokensBudget \in Nat /\ MaxTokensBudget >= DecodeQueryLen /\ NumBlocks[e] \in Nat
      /\ BlockSize \in Nat \ {0}
  BY <1>1, TypesAt, RequestAssumption, SchedulerAssumption, BlockSizeAssumption DEF SchedTypeOK
<1>3. /\ q.seq_len \in Nat /\ q.new_tokens \in Nat /\ q.accepted \in Nat /\ q.decoded \in Nat
  BY <1>2 DEF RequestRecords
<1>4. /\ k = IF q.state = "DECODING" THEN q.accepted ELSE Min2(sched[e].budget, q.new_tokens)
      /\ WindowBlocked(e, r) <=> q.state = "DECODING" /\ sched[e].budget < q.new_tokens
  BY DEF KvTokens, Computed, WindowBlocked
<1>5. /\ q.decoded < OutputTokens[r] /\ held = q.seq_len
      /\ \/ Prefills(r, q)
         \/ /\ q.state = "DECODING" /\ DecodeReady(r, q) /\ q.new_tokens = DecodeQueryLen
            /\ q.seq_len <= InputTokens[r] + q.decoded
  BY DEF InRunning, InQueue, Prefills, HandedOver
<1> HIDE DEF k, q, held
<1>6. ~ WindowBlocked(e, r)
  BY <1>2, <1>3, <1>4, <1>5 DEF Prefills
<1>7. k \in Nat /\ held + k \in Nat /\ held + k <= all /\ all \in Nat
  <2>1. CASE q.state = "DECODING"
    BY <1>2, <1>3, <1>4, <1>5, <2>1 DEF Prefills, DecodeReady
  <2>2. CASE q.state # "DECODING"
    <3>1. k = Min2(MaxTokensBudget, q.new_tokens) /\ q.seq_len + q.new_tokens = InputTokens[r] + q.decoded
      BY <1>4, <1>5, <2>2 DEF Prefills
    <3> QED BY <1>2, <1>3, <1>5, <3>1 DEF Min2
  <2> QED BY <2>1, <2>2
<1>8. all <= NumBlocks[e] * BlockSize
  BY <1>1 DEF Healthy, Admissible, Capacity
<1> DEFINE c == NumBlocks[e] * BlockSize
<1>9. held + k <= NumBlocks[e] * BlockSize
  <2>1. c \in Nat
    BY <1>2
  <2>2. all <= c
    BY <1>8
  <2> HIDE DEF c, all
  <2>3. held + k <= c
    BY <1>7, <2>1, <2>2
  <2> QED BY <2>3 DEF c
<1>10. BlocksFor(held + k) <= NumBlocks[e]
  BY <1>2, <1>7, <1>9, BlocksForAtMost
<1>11. HeldBlocks(e) = BlocksFor(held)
  <2> DEFINE f == [x \in Requests |-> BlocksFor(slots[e][x])]
  <2>1. \A x \in Requests : f[x] \in Nat
    BY <1>2, BlocksForBounds
  <2>2. \A x \in Requests \ {r} : f[x] = 0
    BY NoBlocksForNone
  <2>3. f[r] = BlocksFor(held)
    BY <1>1 DEF held
  <2> HIDE DEF f
  <2>4. SumOn(f, Requests) = f[r]
    BY <1>1, <1>2, <2>1, <2>2, SumBounds
  <2> QED BY <2>3, <2>4 DEF HeldBlocks, f
<1>12. free_blocks[e] + BlocksFor(held) = NumBlocks[e]
  BY <1>1, <1>11 DEF Accounted
<1> DEFINE a == BlocksFor(held)
           b == BlocksFor(held + k)
<1>13. a \in Nat /\ b \in Nat
  BY <1>2, <1>7, BlocksForBounds
<1>14. b - a <= free_blocks[e]
  <2>1. b <= NumBlocks[e] /\ free_blocks[e] + a = NumBlocks[e]
    BY <1>10, <1>12
  <2> HIDE DEF a, b
  <2> QED BY <1>2, <1>13, <2>1
<1>15. Fits(e, r, k)
  BY <1>14 DEF Fits, NewBlocks, held
<1> QED BY <1>6, <1>15 DEF Schedulable, k

(***************************************************************************)
(* Requests that are not handed over stay that way.                        *)
(***************************************************************************)

(* What Colocated says of the record q of a request. *)
Stays(q) == ~ q.need_kv_transfer /\ ~ q.kv_transfer_done /\ q.state # "KVS_TRANSFERRING"

(* Completing a step and preparing the next one do not send it away. *)
LEMMA GeneratedStays ==
  ASSUME NEW r, NEW q \in RequestRecords, Stays(q)
  PROVE  /\ Stays(GeneratedRecord(r, q)) /\ GeneratedRecord(r, q).state = q.state
         /\ Stays(PrepareDecodeStep(r, GeneratedRecord(r, q)))
         /\ \A s \in {"PREFILL_DONE", "DECODING", "DECODE_DONE"} :
               /\ Stays(WithState(GeneratedRecord(r, q), s))
               /\ Stays(WithState(PrepareDecodeStep(r, GeneratedRecord(r, q)), s))
<1> DEFINE c == CompleteGenerationStep(r, q)
           k == GeneratedTokens(r, q)
           d == [c EXCEPT !.seq_len = @ - (c.query_len - k)]
<1>1. /\ DOMAIN c = DOMAIN q /\ c.need_kv_transfer = q.need_kv_transfer
      /\ c.kv_transfer_done = q.kv_transfer_done /\ c.state = q.state
  BY DEF CompleteGenerationStep, RequestRecords
<1>2. DOMAIN q = {"state", "decoded", "accepted", "expected", "next_expected", "new_tokens",
                  "seq_len", "query_len", "need_kv_transfer", "kv_transfer_done"}
  BY DEF RequestRecords
<1> HIDE DEF c, k
<1>3. /\ DOMAIN d = DOMAIN q /\ d.need_kv_transfer = q.need_kv_transfer
      /\ d.kv_transfer_done = q.kv_transfer_done /\ d.state = q.state
  BY <1>1, <1>2
<1> DEFINE g == GeneratedRecord(r, q)
<1>4. g = IF q.state = "DECODING" THEN d ELSE c
  BY DEF GeneratedRecord, c, k
<1> HIDE DEF d, g
<1>5. /\ DOMAIN g = DOMAIN q /\ g.need_kv_transfer = q.need_kv_transfer
      /\ g.kv_transfer_done = q.kv_transfer_done /\ g.state = q.state
  BY <1>1, <1>3, <1>4
<1> DEFINE p == PrepareDecodeStep(r, g)
<1>6. /\ DOMAIN p = DOMAIN q /\ p.need_kv_transfer = q.need_kv_transfer
      /\ p.kv_transfer_done = q.kv_transfer_done /\ p.state = q.state
  BY <1>2, <1>5 DEF PrepareDecodeStep
<1> HIDE DEF p
<1>7. Stays(g) /\ Stays(p)
  BY <1>5, <1>6 DEF Stays
<1>8. \A s \in {"PREFILL_DONE", "DECODING", "DECODE_DONE"} : Stays(WithState(g, s)) /\ Stays(WithState(p, s))
  BY <1>2, <1>5, <1>6 DEF Stays, WithState
<1> QED BY <1>5, <1>7, <1>8 DEF g, p

LEMMA ColocatedAgain ==
  ASSUME Colocated, NEW r, \A x \in Requests \ {r} : req'[x] = req[x], Stays(req'[r])
  PROVE  Colocated'
<1> SUFFICES ASSUME NEW x \in Requests PROVE Stays(req'[x])
  BY DEF Colocated, Stays
<1> QED BY DEF Colocated, Stays

LEMMA ColocatedMoves ==
  ASSUME SchedInv, Colocated, NEW e \in Engines, EngineMoves(e)
  PROVE  Colocated'
<1>1. req \in [Requests -> RequestRecords] /\ \A x \in Requests : Stays(req[x])
  BY DEF SchedInv, SchedTypeOK, Colocated, Stays
<1>2. ASSUME req' = req PROVE Colocated'
  BY <1>2 DEF Colocated
<1>3. ASSUME NEW r \in Requests, NEW p, Stays(p), req' = [req EXCEPT ![r] = p]
      PROVE  Colocated'
  <2>1. req'[r] = p /\ \A x \in Requests \ {r} : req'[x] = req[x]
    BY <1>1, <1>3
  <2> QED BY <1>3, <2>1, ColocatedAgain
<1>4. ASSUME NEW r \in Requests, Schedule(e, r)
      PROVE  Colocated'
  <2> DEFINE p == ScheduledRecord(req[r], Computed(e, r))
  <2>1. req' = [req EXCEPT ![r] = p]
    BY <1>1, <1>4 DEF Schedule, ScheduledRecord
  <2>2. Stays(p)
    BY <1>1 DEF ScheduledRecord, Stays, RequestRecords
  <2> QED BY <1>3, <2>1, <2>2
<1>5. CASE Proceed(e)
  <2>1. CASE \/ Start(e) \/ EndRunning(e) \/ EndWaiting(e) \/ Sleep(e) \/ EndPass(e)
             \/ ProcessBatch(e) \/ PostChunked(e) \/ EndPost(e)
    <3>1. req' = req
      BY <2>1 DEF Start, EndRunning, EndWaiting, Sleep, EndPass, ProcessBatch, PostChunked, EndPost
    <3> QED BY <1>2, <3>1
  <2>2. CASE ScheduleRunning(e)
    <3>1. Current(e) \in Requests
      <4>1. /\ sched[e].index \in Nat /\ running[e] \in Seq(Requests)
            /\ Seated(e) /\ AtStage(e, "running") /\ sched[e].index <= Len(running[e])
            /\ sched[e].batch \in Seq(Requests)
        BY <2>2, TypesAt DEF SchedInv, EngineInv, ScheduleRunning, InRunningLoop
      <4>2. sched[e].index = Len(sched[e].batch) + 1 /\ Len(sched[e].batch) \in Nat
        BY <4>1 DEF Seated, AtStage
      <4>3. sched[e].index \in 1..Len(running[e])
        BY <4>1, <4>2
      <4> QED BY <4>1, <4>3 DEF Current
    <3> QED BY <1>4, <2>2, <3>1 DEF ScheduleRunning
  <2>3. CASE ScheduleWaiting(e)
    <3>1. Head(waiting[e]) \in Requests
      BY <2>3, TypesAt, QueueTail DEF SchedInv, ScheduleWaiting, InWaitingLoop
    <3> QED BY <1>4, <2>3, <3>1 DEF ScheduleWaiting
  <2>4. CASE Preempt(e)
    <3> DEFINE v == Last(running[e])
    <3>1. v \in Requests
      BY <2>4, VictimIsLast, TypesAt DEF Preempt, SchedInv
    <3>2. req' = [req EXCEPT ![v] = PreemptedRecord(v)]
      BY <2>4 DEF Preempt
    <3> HIDE DEF v
    <3>3. Stays(PreemptedRecord(v))
      BY <1>1, <3>1 DEF PreemptedRecord, Stays, RequestRecords
    <3> QED BY <1>3, <3>1, <3>2, <3>3
  <2>5. CASE PostDecoding(e)
    <3> DEFINE r == Head(sched[e].batch)
               p == PrepareDecodeStep(r, GeneratedRecord(r, req[r]))
    <3>1. r \in Requests
      BY <2>5, BatchShrinks DEF PostDecoding, InPost
    <3>2. req' = [req EXCEPT ![r] = IF req[r].state = "DECODING" THEN p
                                    ELSE WithState(WithState(p, "PREFILL_DONE"), "DECODING")]
      BY <2>5 DEF PostDecoding, Generated, GeneratedRecord
    <3> HIDE DEF r
    <3>3. Stays(p) /\ Stays(WithState(p, "DECODING"))
      BY <1>1, <3>1, GeneratedStays
    <3>4. WithState(WithState(p, "PREFILL_DONE"), "DECODING") = WithState(p, "DECODING")
      BY DEF WithState
    <3> QED BY <1>3, <3>1, <3>2, <3>3, <3>4
  <2> QED BY <1>5, <2>1, <2>2, <2>3, <2>4, <2>5 DEF Proceed
<1>6. ASSUME NEW r \in Requests, PostFinished(e, r) PROVE Colocated'
  <2> DEFINE g == GeneratedRecord(r, req[r])
  <2>1. req' = [req EXCEPT ![r] = WithState(IF req[r].state = "PREFILLING"
                                            THEN WithState(g, "PREFILL_DONE") ELSE g, "DECODE_DONE")]
    BY <1>6 DEF PostFinished, Generated, GeneratedRecord
  <2>2. Stays(WithState(g, "DECODE_DONE"))
    BY <1>1, GeneratedStays
  <2>3. WithState(WithState(g, "PREFILL_DONE"), "DECODE_DONE") = WithState(g, "DECODE_DONE")
    BY DEF WithState
  <2> QED BY <1>3, <2>1, <2>2, <2>3
<1>7. ASSUME HandOver(e) PROVE FALSE
  <2>1. ASSUME ReceiveKvs(e) PROVE FALSE
    <3>1. Head(waiting[e]) \in Requests
      BY <2>1, TypesAt, QueueTail DEF SchedInv, ReceiveKvs, InWaitingLoop
    <3> QED BY <1>1, <2>1, <3>1 DEF ReceiveKvs, AwaitsKvs, Stays
  <2>2. ASSUME PostHandOff(e) PROVE FALSE
    <3>1. Head(sched[e].batch) \in Requests
      BY <2>2, BatchShrinks DEF PostHandOff, InPost
    <3> QED BY <1>1, <2>2, <3>1 DEF PostHandOff, Stays
  <2> QED BY <1>7, <2>1, <2>2 DEF HandOver
<1> QED BY <1>5, <1>6, <1>7 DEF EngineMoves

LEMMA ColocatedKept ==
  ASSUME SchedInv, Colocated, [SchedNext]_schedVars
  PROVE  Colocated'
<1>1. ASSUME NEW e \in Engines, EngineMoves(e) PROVE Colocated'
  BY <1>1, ColocatedMoves
<1>2. ASSUME NEW e \in Engines, NEW r \in Requests, Arrive(e, r) PROVE Colocated'
  <2>1. req \in [Requests -> RequestRecords]
    BY DEF SchedInv, SchedTypeOK
  <2>2. req' = [req EXCEPT ![r] = WithState(req[r], "PREFILLING")]
    BY <1>2 DEF Arrive, Add
  <2>3. Stays(WithState(req[r], "PREFILLING"))
    BY <2>1 DEF Colocated, WithState, Stays, RequestRecords
  <2>4. Stays(req'[r]) /\ \A x \in Requests \ {r} : req'[x] = req[x]
    BY <2>1, <2>2, <2>3
  <2> QED BY <2>4, ColocatedAgain
<1>3. CASE UNCHANGED schedVars
  BY <1>3 DEF Colocated, schedVars
<1> QED BY <1>1, <1>2, <1>3 DEF SchedNext, Over, EngineMoves

(***************************************************************************)
(* Progress of a pass.                                                     *)
(***************************************************************************)

(* As long as the batch is empty the whole budget is left, which is enough *)
(* for a decode window.                                                    *)
LEMMA WholeBudget ==
  ASSUME SchedInv, NEW e \in Engines, sched[e].pc \in {"running", "waiting"}, sched[e].batch = <<>>
  PROVE  /\ sched[e].budget = MaxTokensBudget /\ sched[e].budget > 0
         /\ \A r \in tracked[e] :
               \/ InRunning(r, req[r], slots[e][r])
               \/ InQueue(r, req[r], slots[e][r]) /\ req[r].state # "KVS_TRANSFERRING"
               => ~ WindowBlocked(e, r)
<1>1. SchedTypeOK /\ Accounted(e) /\ sched[e].budget \in Nat
  BY TypesAt DEF SchedInv, EngineInv
<1>2. MaxTokensBudget \in Nat \ {0} /\ MaxTokensBudget >= DecodeQueryLen /\ DecodeQueryLen \in Nat
  <2>1. MaxTokensBudget \in Nat /\ MaxTokensBudget >= DecodeQueryLen /\ DecodeQueryLen \in Nat \ {0}
    BY SchedulerAssumption, RequestAssumption
  <2> QED BY <2>1
<1>3. sched[e].budget = MaxTokensBudget
  <2>1. BatchTokens(e) + sched[e].budget = MaxTokensBudget
    BY <1>1 DEF Accounted
  <2> QED BY <1>1, <1>2, <2>1, EmptyBatchTokens
<1>4. ASSUME NEW r \in tracked[e],
             \/ InRunning(r, req[r], slots[e][r])
             \/ InQueue(r, req[r], slots[e][r]) /\ req[r].state # "KVS_TRANSFERRING"
      PROVE  ~ WindowBlocked(e, r)
  <2>1. req[r].state = "DECODING" => req[r].new_tokens = DecodeQueryLen
    BY <1>4 DEF InRunning, InQueue, Prefills
  <2> QED BY <1>2, <1>3, <2>1 DEF WindowBlocked
<1> QED BY <1>2, <1>3, <1>4

(* A pass that has an empty batch when a loop ends has met no request:     *)
(* the first one it met would have had the pool and the budget to itself.  *)
LEMMA FirstRunningFits ==
  ASSUME SchedInv, NEW e \in Engines, \A x \in Waiting(e) : slots[e][x] = 0,
         EndRunning(e), sched[e].batch = <<>>
  PROVE  running[e] = <<>>
<1> SUFFICES ASSUME running[e] # <<>> PROVE FALSE
  OBVIOUS
<1> DEFINE s == running[e]
           r == Current(e)
<1>1. SchedTypeOK /\ Seated(e) /\ Healthy(e) /\ Accounted(e) /\ AtStage(e, "running")
  BY DEF SchedInv, EngineInv, EndRunning
<1>2. s \in Seq(Requests) /\ Len(s) \in Nat \ {0} /\ sched[e].budget \in Nat
      /\ MaxTokensBudget \in Nat \ {0}
  <2>1. MaxTokensBudget \in Nat /\ MaxTokensBudget >= DecodeQueryLen /\ DecodeQueryLen \in Nat \ {0}
    BY SchedulerAssumption, RequestAssumption
  <2>2. MaxTokensBudget \in Nat \ {0}
    BY <2>1
  <2> QED BY <1>1, <2>2, TypesAt, QueueTail
<1>3. sched[e].index = 1 /\ r = s[1] /\ Batch(e) = {}
  BY <1>1, EmptyQueue DEF Seated, AtStage, Current, Batch
<1>4. sched[e].budget = MaxTokensBudget
  <2>1. BatchTokens(e) + sched[e].budget = MaxTokensBudget
    BY <1>1 DEF Accounted, AtStage
  <2> QED BY <1>2, <2>1, EmptyBatchTokens
<1>5. /\ ToSet(s) = {s[i] : i \in 1..Len(s)}
      /\ ToSet(s) \subseteq Requests
  BY <1>2, QueueElements
<1>6. InRunningLoop(e)
  BY <1>1, <1>2, <1>3, <1>4 DEF InRunningLoop
<1>7. r \in Running(e) /\ r \in tracked[e] /\ r \in Requests
  <2>1. 1 \in 1..Len(s)
    BY <1>2
  <2>2. r \in ToSet(s)
    BY <1>3, <1>5, <2>1
  <2> QED BY <1>1, <1>5, <2>2 DEF Seated, Running
<1>8. InRunning(r, req[r], slots[e][r])
  BY <1>1, <1>3, <1>7 DEF Healthy
<1>9. ~ WindowBlocked(e, r)
  <2>1. req[r] \in RequestRecords
    BY <1>1, <1>7 DEF SchedTypeOK
  <2>2. req[r].state = "DECODING" => req[r].new_tokens = DecodeQueryLen
    BY <1>8 DEF InRunning, Prefills
  <2>3. MaxTokensBudget \in Nat /\ MaxTokensBudget >= DecodeQueryLen /\ DecodeQueryLen \in Nat
    BY SchedulerAssumption, RequestAssumption
  <2> HIDE DEF r
  <2> QED BY <1>4, <2>2, <2>3 DEF WindowBlocked
<1>10. ~ Schedulable(e, r) /\ Last(s) = r
  BY <1>6, <1>9 DEF EndRunning
<1>11. Running(e) = {r}
  <2>1. s[Len(s)] = s[1]
    BY <1>3, <1>10 DEF Last
  <2>2. \A i, j \in 1..Len(s) : s[i] = s[j] => i = j
    BY <1>1, <1>2, QueueElements DEF Seated
  <2>3. Len(s) = 1
    <3>1. 1 \in 1..Len(s) /\ Len(s) \in 1..Len(s)
      BY <1>2
    <3> QED BY <2>1, <2>2, <3>1
  <2> QED BY <1>3, <1>5, <2>3 DEF Running
<1>12. \A x \in Requests \ {r} : slots[e][x] = 0
  BY <1>1, <1>11 DEF Healthy, Seated
<1> HIDE DEF r
<1> QED BY <1>4, <1>7, <1>8, <1>10, <1>12, FitsAlone

LEMMA FirstWaitingFits ==
  ASSUME SchedInv, NEW e \in Engines, \A x \in Waiting(e) : Prefills(x, req[x]),
         EndWaiting(e), sched[e].batch = <<>>, running[e] = <<>>
  PROVE  waiting[e] = <<>>
<1> SUFFICES ASSUME waiting[e] # <<>> PROVE FALSE
  OBVIOUS
<1> DEFINE r == Head(waiting[e])
<1>1. SchedTypeOK /\ Seated(e) /\ Healthy(e) /\ Accounted(e) /\ AtStage(e, "waiting")
  BY DEF SchedInv, EngineInv, EndWaiting
<1>2. sched[e].budget \in Nat /\ MaxTokensBudget \in Nat \ {0}
  <2>1. MaxTokensBudget \in Nat /\ MaxTokensBudget >= DecodeQueryLen /\ DecodeQueryLen \in Nat \ {0}
    BY SchedulerAssumption, RequestAssumption
  <2> QED BY <1>1, <2>1, TypesAt
<1>3. Running(e) = {} /\ tracked[e] = Waiting(e)
  BY <1>1, EmptyQueue DEF Running, Seated
<1>4. sched[e].budget = MaxTokensBudget
  <2>1. BatchTokens(e) + sched[e].budget = MaxTokensBudget
    BY <1>1 DEF Accounted, AtStage
  <2> QED BY <1>2, <2>1, EmptyBatchTokens
<1>5. r \in Waiting(e) /\ r \in Requests
  BY <1>1, TypesAt, QueueTail DEF Waiting
<1>6. \A x \in Waiting(e) : slots[e][x] = 0 /\ InQueue(x, req[x], slots[e][x]) /\ Prefills(x, req[x])
  BY <1>1 DEF Healthy, InQueue, Prefills
<1>7. \A x \in Requests : slots[e][x] = 0
  BY <1>1, <1>3, <1>6 DEF Healthy
<1>8. Schedulable(e, r)
  <2> HIDE DEF r
  <2> QED BY <1>3, <1>4, <1>5, <1>6, <1>7, FitsAlone
<1>9. InWaitingLoop(e) /\ ~ AwaitsKvs(r)
  BY <1>1, <1>2, <1>4, <1>5, <1>6 DEF InWaitingLoop, AwaitsKvs, Prefills
<1> QED BY <1>8, <1>9 DEF EndWaiting

LEMMA PassingMoves ==
  ASSUME SchedInv, NEW e \in Engines, Passing(e), NEW f \in Engines, EngineMoves(f),
         EndRunning(e) /\ sched[e].batch = <<>> => running[e] = <<>>,
         EndWaiting(e) /\ sched[e].batch = <<>> /\ running[e] = <<>> => waiting[e] = <<>>
  PROVE  Passing(e)'
<1>1. /\ SchedTypeOK
      /\ sched[e] \in Locals /\ running[e] \in Seq(Requests) /\ sched[e].batch \in Seq(Requests)
      /\ sched \in [Engines -> Locals] /\ running \in [Engines -> Seq(Requests)]
      /\ waiting \in [Engines -> Seq(Requests)]
  BY TypesAt DEF SchedInv, SchedTypeOK
<1>2. ASSUME running'[e] = running[e], waiting'[e] = waiting[e], sched'[e] = sched[e]
      PROVE  Passing(e)'
  BY <1>1, <1>2 DEF Passing
<1>3. ASSUME sched'[e].pc \notin {"running", "waiting", "decide"}
      PROVE  Passing(e)'
  BY <1>3 DEF Passing
<1>4. ASSUME sched'[e] = NewPass PROVE Passing(e)'
  BY <1>4 DEF Passing, NewPass
<1>5. CASE Proceed(f)
  <2>1. CASE f # e
    <3>1. running'[e] = running[e] /\ waiting'[e] = waiting[e] /\ sched'[e] = sched[e]
      BY <1>1, <1>5, <2>1
         DEF Proceed, Start, ScheduleRunning, Preempt, EndRunning, ScheduleWaiting, EndWaiting, Sleep,
             EndPass, ProcessBatch, PostChunked, PostDecoding, EndPost, Schedule, NextInBatch
    <3> QED BY <1>2, <3>1
  <2>2. CASE f = e
    <3>1. CASE Start(e) \/ EndPost(e)
      BY <1>1, <1>4, <3>1 DEF Start, EndPost
    <3>2. CASE ScheduleRunning(e)
      <4>1. /\ running' = running /\ AtStage(e, "running")
            /\ sched'[e].pc = sched[e].pc /\ sched'[e].preempted = sched[e].preempted
        BY <1>1, <3>2 DEF ScheduleRunning, InRunningLoop, Schedule, Locals
      <4> QED BY <1>1, <4>1 DEF Passing, AtStage
    <3>3. CASE Preempt(e)
      <4> DEFINE s == running[e]
                 t == RemoveFirst(s, Last(s))
      <4>1. /\ running'[e] = t /\ InRunningLoop(e) /\ Last(s) # Current(e)
            /\ sched'[e].pc = sched[e].pc
        BY <1>1, <3>3 DEF Preempt, Locals
      <4>2. sched[e].index < Len(s) /\ Len(s) \in Nat /\ sched[e].index \in Nat
            /\ sched[e].index = Len(sched[e].batch) + 1 /\ Len(sched[e].batch) \in Nat
        BY <1>1, <4>1, VictimIsLast, TypesAt DEF SchedInv, EngineInv, Seated, InRunningLoop, AtStage
      <4>3. IsInjective(s) /\ s # <<>>
        BY <4>2 DEF SchedInv, EngineInv, Seated
      <4>4. Len(t) = Len(s) - 1
        BY <1>1, <4>3, QueueWithoutLast
      <4>5. Len(t) # 0
        <5> DEFINE n == Len(s)
                   m == Len(sched[e].batch)
                   i == sched[e].index
                   l == Len(t)
        <5>1. i < n /\ n \in Nat /\ i = m + 1 /\ m \in Nat /\ l = n - 1
          BY <4>2, <4>4
        <5> HIDE DEF n, m, i, l
        <5>2. l # 0
          BY <5>1
        <5> QED BY <5>2 DEF l
      <4>6. running'[e] # <<>>
        <5> HIDE DEF t
        <5> QED BY <4>1, <4>5
      <4>7. sched'[e].pc = "running"
        BY <4>1 DEF InRunningLoop, AtStage
      <4> QED BY <4>6, <4>7 DEF Passing
    <3>4. CASE EndRunning(e)
      <4>1. /\ running' = running /\ waiting' = waiting /\ sched[e].pc = "running"
            /\ sched'[e].pc = IF sched[e].preempted THEN "decide" ELSE "waiting"
            /\ sched'[e].batch = sched[e].batch
        BY <1>1, <3>4 DEF EndRunning, AtStage, Locals
      <4>2. sched[e].batch = <<>> => running[e] = <<>>
        BY <3>4
      <4> QED BY <1>1, <4>1, <4>2 DEF Passing
    <3>5. CASE ScheduleWaiting(e)
      <4> DEFINE r == Head(waiting[e])
      <4>1. sched'[e].batch = Append(sched[e].batch, r) /\ sched'[e].pc = "waiting"
        BY <1>1, <3>5 DEF ScheduleWaiting, InWaitingLoop, AtStage, Schedule, Locals
      <4>2. Append(sched[e].batch, r) # <<>>
        <5> HIDE DEF r
        <5>1. /\ Len(Append(sched[e].batch, r)) = Len(sched[e].batch) + 1
              /\ Len(sched[e].batch) \in Nat /\ Len(<<>>) = 0
          BY <1>1
        <5>2. Len(Append(sched[e].batch, r)) # 0
          BY <5>1
        <5> QED BY <5>1, <5>2
      <4> QED BY <4>1, <4>2 DEF Passing
    <3>6. CASE EndWaiting(e)
      <4>1. /\ running' = running /\ waiting' = waiting /\ sched[e].pc = "waiting"
            /\ sched'[e].pc = "decide" /\ sched'[e].batch = sched[e].batch
        BY <1>1, <3>6 DEF EndWaiting, AtStage, Locals
      <4>2. sched[e].batch = <<>> => running[e] = <<>> /\ waiting[e] = <<>>
        BY <3>6, <4>1 DEF Passing
      <4> QED BY <4>1, <4>2 DEF Passing
    <3>7. CASE Sleep(e) \/ ProcessBatch(e)
      <4>1. sched'[e].pc \in {"idle", "post"}
        BY <1>1, <3>7 DEF Sleep, ProcessBatch, Outside, Locals
      <4> QED BY <1>3, <4>1
    <3>8. CASE EndPass(e)
      <4>1. sched'[e] = NewPass \/ sched'[e].pc = "execute"
        BY <1>1, <3>8 DEF EndPass, Outside
      <4> QED BY <1>3, <1>4, <4>1
    <3>9. CASE PostChunked(e) \/ PostDecoding(e)
      <4>1. sched'[e].pc = "post"
        BY <1>1, <3>9 DEF PostChunked, PostDecoding, InPost, AtStage, NextInBatch, Locals
      <4> QED BY <1>3, <4>1
    <3> QED BY <1>5, <2>2, <3>1, <3>2, <3>3, <3>4, <3>5, <3>6, <3>7, <3>8, <3>9 DEF Proceed
  <2> QED BY <2>1, <2>2
<1>6. CASE HandOver(f)
  <2>1. CASE f # e
    <3>1. running'[e] = running[e] /\ waiting'[e] = waiting[e] /\ sched'[e] = sched[e]
      BY <1>1, <1>6, <2>1 DEF HandOver, ReceiveKvs, PostHandOff, NextInBatch
    <3> QED BY <1>2, <3>1
  <2>2. CASE f = e /\ ReceiveKvs(e)
    BY <1>2, <2>2 DEF ReceiveKvs
  <2>3. CASE f = e /\ PostHandOff(e)
    <3>1. sched'[e].pc = "post"
      BY <1>1, <2>3 DEF PostHandOff, InPost, AtStage, NextInBatch, Locals
    <3> QED BY <1>3, <3>1
  <2> QED BY <1>6, <2>1, <2>2, <2>3 DEF HandOver
<1>7. ASSUME NEW r \in Requests, PostFinished(f, r) PROVE Passing(e)'
  <2>1. CASE f # e
    <3>1. running'[e] = running[e] /\ waiting'[e] = waiting[e] /\ sched'[e] = sched[e]
      BY <1>1, <1>7, <2>1 DEF PostFinished, NextInBatch
    <3> QED BY <1>2, <3>1
  <2>2. CASE f = e
    <3>1. sched'[e].pc = "post"
      BY <1>1, <1>7, <2>2 DEF PostFinished, InPost, AtStage, NextInBatch, Locals
    <3> QED BY <1>3, <3>1
  <2> QED BY <2>1, <2>2
<1> QED BY <1>5, <1>6, <1>7 DEF EngineMoves

(* A request that joins an engine that waits for its turn. *)
LEMMA PassingAdded ==
  ASSUME SchedTypeOK, NEW g \in Engines, NEW r, NEW q, Add(g, r, q), NEW e \in Engines, Passing(e),
         e = g => sched[e].pc \notin {"running", "waiting", "decide"}
  PROVE  Passing(e)'
<1>1. sched \in [Engines -> Locals] /\ waiting \in [Engines -> Seq(Requests)] /\ sched[e] \in Locals
  BY TypesAt DEF SchedTypeOK
<1>2. CASE e # g
  <2>1. running'[e] = running[e] /\ waiting'[e] = waiting[e] /\ sched'[e] = sched[e]
    BY <1>1, <1>2 DEF Add
  <2> QED BY <2>1 DEF Passing
<1>3. CASE e = g
  <2>1. sched'[e].pc = sched[e].pc \/ sched'[e].pc = "ready"
    BY <1>1, <1>3 DEF Add, Locals
  <2>2. sched'[e].pc \notin {"running", "waiting", "decide"}
    BY <1>3, <2>1
  <2> QED BY <2>2 DEF Passing
<1> QED BY <1>2, <1>3

(* Requests that stay where they are queue up with all to compute. *)
LEMMA ColocatedFirstFits ==
  ASSUME SchedInv, Colocated, NEW e \in Engines
  PROVE  /\ EndRunning(e) /\ sched[e].batch = <<>> => running[e] = <<>>
         /\ EndWaiting(e) /\ sched[e].batch = <<>> /\ running[e] = <<>> => waiting[e] = <<>>
<1>1. \A x \in Waiting(e) : slots[e][x] = 0 /\ Prefills(x, req[x])
  <2>1. SchedTypeOK /\ Healthy(e)
    BY DEF SchedInv, EngineInv
  <2> QED BY <2>1, TypesAt DEF Healthy, InQueue, Colocated
<1> QED BY <1>1, FirstRunningFits, FirstWaitingFits

LEMMA PassingKept ==
  ASSUME SchedInv, PassInv, [SchedNext]_schedVars, NEW e \in Engines
  PROVE  Passing(e)'
<1>1. SchedTypeOK /\ Passing(e) /\ Colocated
  BY DEF SchedInv, PassInv
<1>2. ASSUME NEW f \in Engines, EngineMoves(f) PROVE Passing(e)'
  BY <1>1, <1>2, ColocatedFirstFits, PassingMoves
<1>3. ASSUME NEW f \in Engines, NEW r \in Requests, Arrive(f, r) PROVE Passing(e)'
  <2>1. sched[e].pc \notin {"running", "waiting", "decide"} /\ Add(f, r, WithState(req[r], "PREFILLING"))
    BY <1>3 DEF Arrive, Quiet, Yielded
  <2> QED BY <1>1, <2>1, PassingAdded
<1>4. CASE UNCHANGED schedVars
  BY <1>1, <1>4 DEF schedVars, Passing
<1> QED BY <1>2, <1>3, <1>4 DEF SchedNext, Over, EngineMoves

LEMMA PassInvariant == SchedSpec => [](SchedInv /\ PassInv)
<1>1. SchedInit => SchedInv /\ PassInv
  <2> SUFFICES ASSUME SchedInit PROVE SchedInv /\ PassInv
    OBVIOUS
  <2>1. Colocated
    BY DEF SchedInit, NewRequest, Colocated
  <2>2. \A e \in Engines : Passing(e)
    BY DEF SchedInit, Outside, Passing
  <2> QED BY <2>1, <2>2, InitEstablishes DEF PassInv
<1>2. (SchedInv /\ PassInv) /\ [SchedNext]_schedVars => (SchedInv /\ PassInv)'
  BY SchedStep, ColocatedKept, PassingKept DEF PassInv
<1> QED BY <1>1, <1>2, PTL DEF SchedSpec

LEMMA ProgressFollows == SchedInv /\ PassInv => PassMakesProgress
<1> SUFFICES ASSUME SchedInv, PassInv, NEW e \in Engines, AtStage(e, "decide"), Line(e) # <<>>
             PROVE  sched[e].batch # <<>>
  BY DEF PassMakesProgress
<1>1. ASSUME running[e] = <<>>, waiting[e] = <<>> PROVE FALSE
  BY <1>1 DEF Line
<1> QED BY <1>1 DEF PassInv, Passing, AtStage

(***************************************************************************)
(* Engines use their pools as the KV-cache manager allows it.              *)
(***************************************************************************)

(* A step of the pool of engine f, or none. *)
PoolStep(f) == [EnginePool(f)!PoolNext]_(EnginePool(f)!poolVars)

LEMMA PoolUntouched ==
  ASSUME NEW f \in Engines, slots'[f] = slots[f], free_blocks'[f] = free_blocks[f]
  PROVE  PoolStep(f)
BY DEF PoolStep, EnginePool!poolVars

LEMMA PoolGives ==
  ASSUME SchedTypeOK, NEW e \in Engines, NEW r \in Requests, NEW n \in 1..Capacity(e),
         Fits(e, r, n), Allocate(e, r, n), NEW f \in Engines
  PROVE  PoolStep(f)
<1>1. slots \in [Engines -> [Requests -> Nat]] /\ free_blocks \in [Engines -> Nat]
  BY DEF SchedTypeOK
<1>2. CASE f # e
  BY <1>1, <1>2, PoolUntouched DEF Allocate
<1>3. CASE f = e
  <2>1. EnginePool(e)!NewBlocks(slots[e][r], n) = NewBlocks(slots[e][r], n)
    BY DEF EnginePool!NewBlocks, EnginePool!BlocksFor, NewBlocks, BlocksFor
  <2>2. /\ slots'[e] = [slots[e] EXCEPT ![r] = @ + n]
        /\ free_blocks'[e] = free_blocks[e] - NewBlocks(slots[e][r], n)
    BY <1>1 DEF Allocate
  <2>3. EnginePool(e)!PoolAllocate(r, n)
    BY <2>1, <2>2 DEF Fits, EnginePool!PoolAllocate
  <2> QED BY <1>3, <2>3 DEF PoolStep, EnginePool!PoolNext
<1> QED BY <1>2, <1>3

LEMMA PoolTakesBack ==
  ASSUME SchedTypeOK, NEW e \in Engines, NEW r \in Requests, Release(e, r), NEW f \in Engines
  PROVE  PoolStep(f)
<1>1. slots \in [Engines -> [Requests -> Nat]] /\ free_blocks \in [Engines -> Nat]
  BY DEF SchedTypeOK
<1>2. CASE f # e
  BY <1>1, <1>2, PoolUntouched DEF Release
<1>3. CASE f = e
  <2>1. EnginePool(e)!BlocksFor(slots[e][r]) = BlocksFor(slots[e][r])
    BY DEF EnginePool!BlocksFor, BlocksFor
  <2>2. /\ slots'[e] = [slots[e] EXCEPT ![r] = 0]
        /\ free_blocks'[e] = free_blocks[e] + BlocksFor(slots[e][r])
    BY <1>1 DEF Release
  <2>3. EnginePool(e)!PoolFree(r)
    BY <2>1, <2>2 DEF EnginePool!PoolFree
  <2> QED BY <1>3, <2>3 DEF PoolStep, EnginePool!PoolNext
<1> QED BY <1>2, <1>3

(* The request at hand asks for at least one slot and never for more than  *)
(* the pool has.                                                           *)
LEMMA AsksWithinPool ==
  ASSUME SchedInv, NEW e \in Engines, NEW r \in tracked[e], sched[e].budget > 0,
         \/ InRunning(r, req[r], slots[e][r])
         \/ InQueue(r, req[r], slots[e][r]) /\ req[r].state # "KVS_TRANSFERRING"
  PROVE  KvTokens(e, r) \in 1..Capacity(e)
<1> DEFINE k == KvTokens(e, r)
           h == slots[e][r]
           q == req[r]
<1>1. k \in Nat /\ h \in Nat /\ h + k <= InputTokens[r] + OutputTokens[r]
  BY WithinPeak
<1>2. InputTokens[r] + OutputTokens[r] <= Capacity(e) /\ r \in Requests
  <2>1. SchedTypeOK /\ Healthy(e)
    BY DEF SchedInv, EngineInv
  <2> QED BY <2>1, TypesAt DEF Healthy, Admissible
<1>3. /\ InputTokens[r] \in Nat /\ OutputTokens[r] \in Nat /\ Capacity(e) \in Nat
      /\ DecodeQueryLen \in Nat \ {0}
  <2>1. NumBlocks[e] \in Nat /\ BlockSize \in Nat
    BY SchedulerAssumption, BlockSizeAssumption
  <2> QED BY <1>2, <2>1, Sized DEF RequestsAreSized, Capacity
<1>4. k >= 1
  <2>1. q \in RequestRecords /\ sched[e].budget \in Nat
    BY <1>2, TypesAt DEF SchedInv, SchedTypeOK
  <2>2. q.new_tokens \in Nat /\ q.new_tokens > 0 /\ (q.state = "DECODING" => q.accepted >= 1)
    <3>1. q.new_tokens \in Nat /\ q.seq_len \in Nat /\ q.decoded \in Nat /\ InputTokens[r] \in Nat \ {0}
      BY <1>2, <2>1, Sized DEF RequestRecords, RequestsAreSized
    <3>2. CASE InRunning(r, q, h)
      BY <3>1, <3>2 DEF InRunning, DecodeReady, Prefills
    <3>3. CASE InQueue(r, q, h) /\ q.state # "KVS_TRANSFERRING"
      BY <1>3, <3>1, <3>3 DEF InQueue, DecodeReady, Prefills
    <3> QED BY <3>2, <3>3
  <2>3. k = IF q.state = "DECODING" THEN q.accepted ELSE Min2(sched[e].budget, q.new_tokens)
    BY DEF KvTokens, Computed
  <2> HIDE DEF q, k
  <2> QED BY <2>1, <2>2, <2>3 DEF Min2
<1> HIDE DEF k, h
<1>5. k <= Capacity(e)
  BY <1>1, <1>2, <1>3
<1>6. k \in 1..Capacity(e)
  BY <1>1, <1>3, <1>4, <1>5
<1> QED BY <1>6 DEF k

LEMMA MovesUsePools ==
  ASSUME SchedInv, NEW e \in Engines, EngineMoves(e), NEW f \in Engines
  PROVE  PoolStep(f)
<1>1. /\ SchedTypeOK /\ Seated(e) /\ Healthy(e) /\ waiting[e] \in Seq(Requests)
      /\ Running(e) \subseteq tracked[e] /\ Waiting(e) \subseteq tracked[e] /\ tracked[e] \subseteq Requests
  BY TypesAt DEF SchedInv, EngineInv, Seated
<1>2. ASSUME NEW r \in tracked[e], Fits(e, r, KvTokens(e, r)), Schedule(e, r), sched[e].budget > 0,
             \/ InRunning(r, req[r], slots[e][r])
             \/ InQueue(r, req[r], slots[e][r]) /\ req[r].state # "KVS_TRANSFERRING"
      PROVE  PoolStep(f)
  <2>1. KvTokens(e, r) \in 1..Capacity(e)
    BY <1>2, AsksWithinPool
  <2>2. r \in Requests /\ Allocate(e, r, KvTokens(e, r))
    BY <1>1, <1>2 DEF Schedule
  <2> QED BY <1>1, <1>2, <2>1, <2>2, PoolGives
<1>3. CASE \/ Start(e) \/ EndRunning(e) \/ EndWaiting(e) \/ Sleep(e) \/ EndPass(e)
           \/ ProcessBatch(e) \/ PostChunked(e) \/ PostDecoding(e) \/ EndPost(e)
  <2>1. slots' = slots /\ free_blocks' = free_blocks
    BY <1>3 DEF Start, EndRunning, EndWaiting, Sleep, EndPass, ProcessBatch, PostChunked, PostDecoding,
                EndPost
  <2> QED BY <2>1, PoolUntouched
<1>4. CASE ScheduleRunning(e)
  <2>1. Current(e) \in tracked[e] /\ InRunning(Current(e), req[Current(e)], slots[e][Current(e)])
    BY <1>4, CurrentIsNext DEF ScheduleRunning
  <2> QED BY <1>2, <1>4, <2>1 DEF ScheduleRunning, Schedulable, InRunningLoop
<1>5. CASE ScheduleWaiting(e) \/ ReceiveKvs(e)
  <2> DEFINE r == Head(waiting[e])
  <2>1. r \in Waiting(e) /\ sched[e].budget > 0
    BY <1>1, <1>5, QueueTail DEF ScheduleWaiting, ReceiveKvs, InWaitingLoop, Waiting
  <2>2. r \in tracked[e] /\ r \in Requests /\ InQueue(r, req[r], slots[e][r])
    BY <1>1, <2>1 DEF Healthy
  <2>3. CASE ScheduleWaiting(e)
    <3>1. ~ AwaitsKvs(r) /\ Schedulable(e, r) /\ Schedule(e, r)
      BY <2>3 DEF ScheduleWaiting
    <3> HIDE DEF r
    <3>2. req[r].state # "KVS_TRANSFERRING"
      BY <2>2, <3>1 DEF AwaitsKvs, InQueue, Prefills, HandedOver
    <3> QED BY <1>2, <2>1, <2>2, <3>1, <3>2 DEF Schedulable
  <2>4. CASE ReceiveKvs(e)
    <3>1. Fits(e, r, InputTokens[r]) /\ Allocate(e, r, InputTokens[r])
      BY <2>4 DEF ReceiveKvs
    <3> HIDE DEF r
    <3>2. InputTokens[r] \in 1..Capacity(e)
      <4>1. InputTokens[r] + OutputTokens[r] <= Capacity(e)
        BY <1>1, <2>2 DEF Healthy, Admissible
      <4>2. InputTokens[r] \in Nat \ {0} /\ OutputTokens[r] \in Nat /\ NumBlocks[e] \in Nat /\ BlockSize \in Nat
        BY <2>2, Sized, SchedulerAssumption, BlockSizeAssumption DEF RequestsAreSized
      <4>3. Capacity(e) \in Nat
        BY <4>2 DEF Capacity
      <4> QED BY <4>1, <4>2, <4>3
    <3> QED BY <1>1, <2>2, <3>1, <3>2, PoolGives
  <2> QED BY <1>5, <2>3, <2>4
<1>6. CASE Preempt(e)
  <2>1. Last(running[e]) \in Requests
    BY <1>1, <1>6, VictimIsLast DEF Preempt
  <2> QED BY <1>1, <1>6, <2>1, PoolTakesBack DEF Preempt
<1>7. CASE PostHandOff(e)
  <2>1. Head(sched[e].batch) \in Requests
    BY <1>7, BatchShrinks DEF PostHandOff, InPost
  <2> QED BY <1>1, <1>7, <2>1, PoolTakesBack DEF PostHandOff
<1>8. ASSUME NEW r \in Requests, PostFinished(e, r) PROVE PoolStep(f)
  BY <1>1, <1>8, PoolTakesBack DEF PostFinished
<1> QED BY <1>3, <1>4, <1>5, <1>6, <1>7, <1>8 DEF EngineMoves, Proceed, HandOver

LEMMA PoolsStart == SchedInit => \A e \in Engines : EnginePool(e)!PoolInit
<1> SUFFICES ASSUME SchedInit, NEW e \in Engines PROVE EnginePool(e)!PoolInit
  OBVIOUS
<1>1. slots = [f \in Engines |-> [r \in Requests |-> 0]] /\ free_blocks = NumBlocks
  BY DEF SchedInit
<1>2. slots[e] = [r \in Requests |-> 0] /\ free_blocks[e] = NumBlocks[e]
  BY <1>1
<1> QED BY <1>2 DEF EnginePool!PoolInit

LEMMA SchedUsesPools == SchedInv /\ [SchedNext]_schedVars => \A f \in Engines : PoolStep(f)
<1> SUFFICES ASSUME SchedInv, [SchedNext]_schedVars, NEW f \in Engines PROVE PoolStep(f)
  OBVIOUS
<1>1. ASSUME NEW e \in Engines, Proceed(e) PROVE PoolStep(f)
  BY <1>1, MovesUsePools DEF EngineMoves
<1>2. ASSUME NEW e \in Engines, NEW r \in Requests, PostFinished(e, r) PROVE PoolStep(f)
  BY <1>2, MovesUsePools DEF EngineMoves
<1>3. ASSUME NEW e \in Engines, NEW r \in Requests, Arrive(e, r) PROVE PoolStep(f)
  <2>1. slots' = slots /\ free_blocks' = free_blocks
    BY <1>3 DEF Arrive, Add
  <2> QED BY <2>1, PoolUntouched
<1>4. CASE UNCHANGED schedVars
  BY <1>4, PoolUntouched DEF schedVars
<1> QED BY <1>1, <1>2, <1>3, <1>4 DEF SchedNext, Over

(***************************************************************************)
(* The theorems.                                                           *)
(***************************************************************************)

(* Records, queues, slots and counters keep their types: in particular no  *)
(* count of free blocks, budget or token count ever becomes negative.      *)
THEOREM SchedTypes == SchedSpec => []SchedTypeOK
<1>1. SchedInv => SchedTypeOK
  BY DEF SchedInv
<1> QED BY <1>1, SchedInvariant, PTL

(* The requests dict of each engine (BatchScheduler.requests) holds        *)
(* exactly the requests of its two queues, and add, preemption and         *)
(* _postprocess_batch never leave a request queued twice or on two         *)
(* engines.                                                                *)
THEOREM OnePlace == SchedSpec => []OnePlacePerRequest
BY SchedInvariant, OnePlaceFollows, PTL

(* Through chunked prefills, preemption, recomputation and decode windows  *)
(* with rejected tokens, a running request holds the KV slots of its       *)
(* sequence and any other request none, or those of its received cache.    *)
THEOREM Slots == SchedSpec => []SlotsMatchSequence
BY SchedInvariant, SlotsFollow, PTL

(* Free and held blocks of each pool add up to the pool, whatever was      *)
(* allocated, preempted and released, and no request exceeds the peak that *)
(* add checked against the pool.                                           *)
THEOREM Pool == SchedSpec => []PoolAccounts
BY SchedInvariant, PoolFollows, PTL

(* A batch that _schedule sends to the model computes no more tokens than  *)
(* max_tokens_budget, also after preempted requests have left it.          *)
THEOREM Budget == SchedSpec => []BudgetRespected
BY SchedInvariant, BudgetFollows, PTL

(* The exceptions and assertions of _schedule and _postprocess_batch       *)
(* cannot be raised.                                                       *)
THEOREM NoError == SchedSpec => []NoSchedulerError
BY SchedInvariant, NoErrorFollows, PTL

(* A request that _postprocess_batch declares done has exactly the output  *)
(* it was asked for, and nothing of it is left on any engine.              *)
THEOREM Exact == SchedSpec => []ExactOutput
BY SchedInvariant, ExactFollows, PTL

(* PredictableBatch with its exceptions: only a decode step can hand       *)
(* predict_next_batch a longer sequence than a request's last step should  *)
(* have, and only by the tokens of one decode window.                      *)
PredictableWithinWindow ==
    \A e \in Engines : AtStage(e, "execute") =>
        \A r \in ToSet(sched[e].batch) :
            LET excess == req[r].seq_len - (InputTokens[r] + OutputTokens[r] - 1)
            IN  excess <= IF req[r].state = "DECODING" THEN DecodeQueryLen ELSE 0

LEMMA WindowFollows == SchedInv => PredictableWithinWindow
<1> SUFFICES ASSUME SchedInv, NEW e \in Engines, NEW r \in ToSet(sched[e].batch)
             PROVE  req[r].seq_len - (InputTokens[r] + OutputTokens[r] - 1)
                      <= IF req[r].state = "DECODING" THEN DecodeQueryLen ELSE 0
  BY DEF PredictableWithinWindow
<1>1. r \in Requests /\ req[r] \in RequestRecords /\ InBatch(r, req[r], slots[e][r])
  <2>1. Batch(e) \subseteq Requests
    BY TypesAt DEF SchedInv, EngineInv, Seated
  <2> QED BY <2>1 DEF SchedInv, EngineInv, Healthy, Batch, SchedTypeOK
<1>2. PICK q : q = req[r]
  OBVIOUS
<1>3. /\ q.seq_len \in Nat /\ q.new_tokens \in Nat /\ q.decoded \in Nat
      /\ InputTokens[r] \in Nat /\ OutputTokens[r] \in Nat /\ DecodeQueryLen \in Nat
  BY <1>1, <1>2, RequestAssumption DEF RequestRecords
<1>4. q.decoded < OutputTokens[r]
  BY <1>1, <1>2 DEF InBatch
<1>5. CASE q.state = "DECODING"
  <2>1. q.seq_len <= InputTokens[r] + q.decoded + DecodeQueryLen
    BY <1>1, <1>2, <1>5 DEF InBatch, Prefills
  <2>2. q.seq_len - (InputTokens[r] + OutputTokens[r] - 1) <= DecodeQueryLen
    BY <1>3, <1>4, <2>1
  <2> QED BY <1>2, <1>5, <2>2
<1>6. CASE q.state # "DECODING"
  <2>1. q.seq_len + q.new_tokens = InputTokens[r] + q.decoded
    BY <1>1, <1>2, <1>6 DEF InBatch, Prefills
  <2>2. q.seq_len - (InputTokens[r] + OutputTokens[r] - 1) <= 0
    BY <1>3, <1>4, <2>1
  <2> QED BY <1>2, <1>6, <2>2
<1> QED BY <1>5, <1>6

(* By how much PredictableBatch can fail, and where: the bound that a      *)
(* table of predictions must cover, preemptions included.                  *)
THEOREM NearlyPredictable == SchedSpec => []PredictableWithinWindow
BY SchedInvariant, WindowFollows, PTL

(* A pass over a non-empty engine ends with a non-empty batch, so the loop *)
(* of the scheduler never spins without yielding: a request that has the   *)
(* pool and the budget to itself can always be scheduled, because add has  *)
(* compared its peak with the pool.                                        *)
THEOREM Progress == SchedSpec => []PassMakesProgress
BY PassInvariant, ProgressFollows, PTL

(* Every engine is a user of the KV-cache manager as the manager's         *)
(* specification allows it, so what is proved of the manager holds for the *)
(* pool of each engine: a step allocates at least one slot and no more     *)
(* than there are blocks for, gives back all that a request holds, or      *)
(* leaves the pool alone.                                                  *)
THEOREM Pools == SchedSpec => UsesPools
<1>1. SchedInit => \A e \in Engines : EnginePool(e)!PoolInit
  BY PoolsStart
<1>2. SchedInv /\ [SchedNext]_schedVars
        => [\A e \in Engines : [EnginePool(e)!PoolNext]_(EnginePool(e)!poolVars)]_schedVars
  BY SchedUsesPools DEF PoolStep
<1> QED BY <1>1, <1>2, SchedInvariant, PTL DEF SchedSpec, UsesPools

(* The pool of each engine, on its own, is a run of the KV-cache manager's *)
(* specification: the scheduler refines it engine by engine.               *)
THEOREM PoolOfEngine ==
  ASSUME NEW e \in Engines
  PROVE  SchedSpec => EnginePool(e)!PoolSpec
<1>1. SchedInit => EnginePool(e)!PoolInit
  BY PoolsStart
<1>2. SchedInv /\ [SchedNext]_schedVars => [EnginePool(e)!PoolNext]_(EnginePool(e)!poolVars)
  BY SchedUsesPools DEF PoolStep
<1> QED BY <1>1, <1>2, SchedInvariant, PTL DEF SchedSpec, EnginePool!PoolSpec

(* No step of any engine, preemption of the last running request and its   *)
(* return to the head of the waiting queue included, lets a request        *)
(* overtake another one.                                                   *)
THEOREM Order == SchedSpec => NoOvertaking
<1>1. SchedInv /\ [SchedNext]_schedVars =>
        [\A e \in Engines :
          \A i, j \in 1..Len(Line(e)) : \A k, l \in 1..Len(NextLine(e)) :
             (i < j /\ Line(e)[i] = NextLine(e)[k] /\ Line(e)[j] = NextLine(e)[l]) => k < l]_schedVars
  BY OrderKept DEF KeepsOrder
<1> QED BY <1>1, SchedInvariant, PTL DEF SchedSpec, NoOvertaking
=============================================================================
