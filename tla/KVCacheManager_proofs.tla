----------------------- MODULE KVCacheManager_proofs -----------------------
(***************************************************************************)
(* Proofs about KVCacheManager, for every number of blocks, block size and *)
(* set of requests.                                                        *)
(***************************************************************************)
EXTENDS KVCacheManager, KVBlocks_proofs, SequenceTheorems

(* Front drops the last element of a non-empty sequence and nothing else. *)
LEMMA FrontProperties ==
  ASSUME NEW S, NEW s \in Seq(S), s # <<>>
  PROVE  /\ Len(s) \in Nat \ {0}
         /\ Front(s) \in Seq(S)
         /\ Len(Front(s)) = Len(s) - 1
         /\ \A i \in 1..Len(s) - 1 : Front(s)[i] = s[i]
         /\ Last(s) \in S
<1>1. Len(s) \in Nat \ {0} /\ \A i \in 1..Len(s) : s[i] \in S
  OBVIOUS
<1>2. \A i \in 1..Len(s) - 1 : s[i] \in S
  BY <1>1
<1> DEFINE k == Len(s) - 1
<1>3. k \in Int /\ 1 \in Int
  BY <1>1
<1> HIDE DEF k
<1>4. /\ SubSeq(s, 1, k) \in Seq(S)
      /\ Len(SubSeq(s, 1, k)) = IF 1 <= k THEN k - 1 + 1 ELSE 0
      /\ \A i \in 1..k - 1 + 1 : SubSeq(s, 1, k)[i] = s[1 + i - 1]
  <2>1. \A i \in 1..k : s[i] \in S
    BY <1>2 DEF k
  <2> QED BY <1>3, <2>1, SubSeqProperties, SMTT(30)
<1>5. k \in Nat
  BY <1>1 DEF k
<1>6. /\ Len(SubSeq(s, 1, k)) = k
      /\ \A i \in 1..k : SubSeq(s, 1, k)[i] = s[i]
  BY <1>4, <1>5
<1> QED BY <1>1, <1>4, <1>6 DEF Front, Last, k

LEMMA TypeStep == TypeOK /\ [Next]_vars => TypeOK'
<1> SUFFICES ASSUME TypeOK, [Next]_vars PROVE TypeOK'
  OBVIOUS
<1> USE BlockSizeAssumption, ManagerAssumption DEF TypeOK, Blocks, Calls, Min2, Last
<1>1. ASSUME NEW r \in Requests, NEW n \in 1..MaxNewTokens, AllocateSlots(r, n)
      PROVE  TypeOK'
  <2>1. TailSlots(r) \in 0..BlockSize
    BY DEF TailSlots
  <2> DEFINE take == Min2(n, TailSlots(r))
  <2>2. take \in 0..BlockSize /\ take <= TailSlots(r) /\ n - take \in Nat
    BY <2>1
  <2>3. call' \in Calls
    BY <1>1, <2>2, BlocksForBounds DEF AllocateSlots
  <2>4. free_slots' \in [Blocks -> 0..BlockSize]
    <3>1. CASE req_blocks[r] = <<>>
      BY <1>1, <3>1 DEF AllocateSlots
    <3>2. CASE req_blocks[r] # <<>>
      <4>1. Last(req_blocks[r]) \in Blocks
        BY <3>2
      <4>2. free_slots' = [free_slots EXCEPT ![Last(req_blocks[r])] = @ - take]
        BY <1>1, <3>2 DEF AllocateSlots
      <4>3. TailSlots(r) = free_slots[Last(req_blocks[r])]
        BY <3>2 DEF TailSlots
      <4>4. free_slots[Last(req_blocks[r])] - take \in 0..BlockSize
        <5> HIDE DEF take, Last
        <5> QED BY <2>1, <2>2, <4>3
      <4> QED BY <4>1, <4>2, <4>4
    <3> QED BY <3>1, <3>2
  <2> QED BY <1>1, <2>3, <2>4 DEF AllocateSlots
<1>2. ASSUME NEW r \in Requests, NEW n \in 1..MaxNewTokens, RefuseSlots(r, n)
      PROVE  TypeOK'
  BY <1>2 DEF RefuseSlots
<1>3. CASE PopBlock
  <2> DEFINE bid  == Last(free_block_ids)
  <2> DEFINE take == Min2(call.remaining, free_slots[bid])
  <2>1. bid \in Blocks /\ Len(free_block_ids) \in Nat \ {0}
    BY <1>3, FrontProperties DEF PopBlock
  <2>2. take \in 0..BlockSize /\ take <= free_slots[bid] /\ call.remaining - take \in Nat
    BY <2>1
  <2>3. free_block_ids' \in Seq(Blocks)
    BY <1>3, FrontProperties DEF PopBlock, StackPopped
  <2>4. free_slots' \in [Blocks -> 0..BlockSize]
    <3>1. free_slots' = [free_slots EXCEPT ![bid] = @ - take]
      BY <1>3 DEF PopBlock
    <3>2. free_slots[bid] \in 0..BlockSize /\ free_slots[bid] - take \in 0..BlockSize
      <4>1. free_slots[bid] \in 0..BlockSize
        BY <2>1
      <4> HIDE DEF take, bid
      <4> QED BY <4>1, <2>2, SMTT(30)
    <3> QED BY <2>1, <3>1, <3>2
  <2>5. req_blocks' \in [Requests -> Seq(Blocks)]
    BY <1>3, <2>1 DEF PopBlock
  <2>6. call' \in Calls
    <3>1. call' = [call EXCEPT !.remaining = @ - take, !.need = @ - 1]
      BY <1>3 DEF PopBlock
    <3>2. call.need - 1 \in Nat
      BY <1>3 DEF PopBlock
    <3> HIDE DEF take
    <3> QED BY <2>2, <3>1, <3>2
  <2> QED BY <2>3, <2>4, <2>5, <2>6
<1>4. ASSUME NEW r \in Requests, Free(r) PROVE TypeOK'
  BY <1>4 DEF Free, Emptied, StackWith
<1>5. CASE UNCHANGED vars
  BY <1>5 DEF vars
<1> QED BY <1>1, <1>2, <1>3, <1>4, <1>5 DEF Next

(* The manager's variables keep their types. *)
THEOREM TypeCorrect == Spec => []TypeOK
<1>1. Init => TypeOK
  BY BlockSizeAssumption, ManagerAssumption DEF Init, TypeOK, Blocks, Calls
<1> QED BY <1>1, TypeStep, PTL DEF Spec

-----------------------------------------------------------------------------
(* What the steps that move blocks do to the stack and to the lists.       *)

(* The last block of the stack becomes the last one of the caller. *)
PopMoves(caller, bid) ==
    /\ caller = call.req
    /\ bid = Last(free_block_ids)
    /\ Len(free_block_ids) \in Nat \ {0}
    /\ bid = free_block_ids[Len(free_block_ids)]
    /\ Len(free_block_ids') = Len(free_block_ids) - 1
    /\ \A i \in 1..Len(free_block_ids) - 1 : free_block_ids'[i] = free_block_ids[i]
    /\ \A r \in Requests \ {caller} : req_blocks'[r] = req_blocks[r]
    /\ Len(req_blocks[caller]) \in Nat
    /\ Len(req_blocks'[caller]) = Len(req_blocks[caller]) + 1
    /\ req_blocks'[caller][Len(req_blocks[caller]) + 1] = bid
    /\ \A i \in 1..Len(req_blocks[caller]) : req_blocks'[caller][i] = req_blocks[caller][i]

(* The blocks of q go on top of the stack. *)
FreeMoves(q) ==
    /\ \A r \in Requests \ {q} : req_blocks'[r] = req_blocks[r]
    /\ Len(req_blocks'[q]) = 0
    /\ Len(free_block_ids) \in Nat /\ Len(req_blocks[q]) \in Nat
    /\ Len(free_block_ids') = Len(free_block_ids) + Len(req_blocks[q])
    /\ \A i \in 1..Len(free_block_ids) : free_block_ids'[i] = free_block_ids[i]
    /\ \A i \in 1..Len(req_blocks[q]) :
          free_block_ids'[Len(free_block_ids) + i] = req_blocks[q][i]

LEMMA PopEffect ==
  ASSUME TypeOK, PopBlock
  PROVE  \E caller \in Requests, bid \in Blocks : PopMoves(caller, bid)
<1>1. PICK caller \in Requests, bid \in Blocks :
         caller = call.req /\ bid = Last(free_block_ids)
  BY FrontProperties DEF PopBlock, TypeOK, Calls
<1> DEFINE k   == Len(free_block_ids)
           old == req_blocks[caller]
<1>2. /\ k \in Nat \ {0}
      /\ old \in Seq(Blocks)
      /\ Len(free_block_ids') = k - 1
      /\ \A i \in 1..k - 1 : free_block_ids'[i] = free_block_ids[i]
  BY FrontProperties DEF PopBlock, StackPopped, TypeOK
<1>3. req_blocks' = [req_blocks EXCEPT ![caller] = Append(old, bid)]
  BY <1>1 DEF PopBlock
<1>4. /\ \A r \in Requests \ {caller} : req_blocks'[r] = req_blocks[r]
      /\ req_blocks'[caller] = Append(old, bid)
  BY <1>3 DEF TypeOK
<1>5. /\ Len(Append(old, bid)) = Len(old) + 1
      /\ Append(old, bid)[Len(old) + 1] = bid
      /\ \A i \in 1..Len(old) : Append(old, bid)[i] = old[i]
      /\ Len(old) \in Nat
  <2> HIDE DEF old
  <2> QED BY <1>2
<1>6. bid = free_block_ids[k]
  BY <1>1 DEF Last
<1>7. /\ \A r \in Requests \ {caller} : req_blocks'[r] = req_blocks[r]
      /\ Len(req_blocks'[caller]) = Len(old) + 1
      /\ req_blocks'[caller][Len(old) + 1] = bid
      /\ \A i \in 1..Len(old) : req_blocks'[caller][i] = old[i]
      /\ Len(old) \in Nat
  <2> HIDE DEF old
  <2> QED BY <1>4, <1>5
<1>8. PopMoves(caller, bid)
  BY <1>1, <1>2, <1>6, <1>7 DEF PopMoves
<1> QED BY <1>8

LEMMA FreeEffect ==
  ASSUME TypeOK, NEW q \in Requests, Free(q)
  PROVE  FreeMoves(q)
<1> DEFINE f == free_block_ids
           h == req_blocks[q]
<1>1. /\ f \in Seq(Blocks) /\ h \in Seq(Blocks)
      /\ free_block_ids' = f \o h
      /\ \A r \in Requests \ {q} : req_blocks'[r] = req_blocks[r]
      /\ req_blocks'[q] = <<>>
  BY DEF Free, StackWith, TypeOK
<1>2. /\ Len(f \o h) = Len(f) + Len(h)
      /\ Len(f) \in Nat /\ Len(h) \in Nat
      /\ \A i \in 1..Len(f) : (f \o h)[i] = f[i]
      /\ \A i \in 1..Len(h) : (f \o h)[Len(f) + i] = h[i]
  <2> HIDE DEF f, h
  <2> QED BY <1>1
<1> QED BY <1>1, <1>2 DEF FreeMoves

-----------------------------------------------------------------------------

(* A block of the pool that was free or held before a step of the manager  *)
(* is free or held after it: the manager's bookkeeping loses no block.     *)
THEOREM NothingLost == Spec => []NoBlockLost
<1>1. Init => NoBlockLost
  <2> SUFFICES ASSUME Init, NEW b \in Blocks PROVE IsFree(b)
    BY DEF NoBlockLost
  <2>1. /\ Len(free_block_ids) = NumBlocks
        /\ b + 1 \in 1..NumBlocks
        /\ free_block_ids[b + 1] = b
    BY ManagerAssumption DEF Init, Blocks
  <2> QED BY <2>1 DEF IsFree
<1>2. TypeOK /\ NoBlockLost /\ [Next]_vars => NoBlockLost'
  <2> SUFFICES ASSUME TypeOK, NoBlockLost, [Next]_vars, NEW b \in Blocks
               PROVE  IsFree(b)' \/ \E r \in Requests : Held(r, b)'
    BY DEF NoBlockLost, Blocks
  <2>1. IsFree(b) \/ \E r \in Requests : Held(r, b)
    BY DEF NoBlockLost
  <2>2. CASE UNCHANGED <<free_block_ids, req_blocks>>
    BY <2>1, <2>2 DEF IsFree, Held
  <2>3. CASE PopBlock
    <3>1. PICK caller \in Requests, bid \in Blocks : PopMoves(caller, bid)
      BY <2>3, PopEffect
    <3>2. Held(caller, bid)'
      <4> DEFINE m == Len(req_blocks[caller]) + 1
      <4>1. m \in 1..Len(req_blocks'[caller]) /\ req_blocks'[caller][m] = bid
        BY <3>1 DEF PopMoves
      <4> HIDE DEF m
      <4> QED BY <4>1 DEF Held
    <3>3. CASE IsFree(b)
      <4>1. PICK i \in 1..Len(free_block_ids) : free_block_ids[i] = b
        BY <3>3 DEF IsFree
      <4>2. CASE i = Len(free_block_ids)
        BY <3>1, <3>2, <4>1, <4>2 DEF PopMoves
      <4>3. CASE i # Len(free_block_ids)
        <5>1. /\ Len(free_block_ids) \in Nat
              /\ Len(free_block_ids') = Len(free_block_ids) - 1
              /\ \A j \in 1..Len(free_block_ids) - 1 : free_block_ids'[j] = free_block_ids[j]
          BY <3>1 DEF PopMoves
        <5>2. i \in 1..Len(free_block_ids')
          BY <4>1, <4>3, <5>1
        <5>3. free_block_ids'[i] = b
          BY <4>1, <4>3, <5>1
        <5> QED BY <5>2, <5>3 DEF IsFree
      <4> QED BY <4>2, <4>3
    <3>4. ASSUME NEW r \in Requests, Held(r, b) PROVE Held(r, b)'
      <4>1. PICK i \in 1..Len(req_blocks[r]) : req_blocks[r][i] = b
        BY <3>4 DEF Held
      <4>2. CASE r = caller
        <5>1. i \in 1..Len(req_blocks'[r]) /\ req_blocks'[r][i] = b
          BY <3>1, <4>1, <4>2 DEF PopMoves
        <5> QED BY <5>1 DEF Held
      <4>3. CASE r # caller
        BY <3>1, <4>1, <4>3 DEF Held, PopMoves
      <4> QED BY <4>2, <4>3
    <3> QED BY <2>1, <3>3, <3>4
  <2>4. ASSUME NEW q \in Requests, Free(q)
        PROVE  IsFree(b)' \/ \E r \in Requests : Held(r, b)'
    <3>1. FreeMoves(q)
      BY <2>4, FreeEffect
    <3>2. CASE IsFree(b)
      BY <3>1, <3>2 DEF IsFree, FreeMoves
    <3>3. CASE Held(q, b)
      <4>1. PICK i \in 1..Len(req_blocks[q]) : req_blocks[q][i] = b
        BY <3>3 DEF Held
      <4>2. /\ Len(free_block_ids) + i \in 1..Len(free_block_ids')
            /\ free_block_ids'[Len(free_block_ids) + i] = b
        BY <3>1, <4>1 DEF FreeMoves
      <4> QED BY <4>2 DEF IsFree
    <3>4. ASSUME NEW r \in Requests \ {q}, Held(r, b) PROVE Held(r, b)'
      BY <3>1, <3>4 DEF Held, FreeMoves
    <3> QED BY <2>1, <3>2, <3>3, <3>4
  <2> QED BY <2>2, <2>3, <2>4 DEF Next, AllocateSlots, RefuseSlots, vars
<1> QED BY <1>1, <1>2, TypeCorrect, PTL DEF Spec

-----------------------------------------------------------------------------

(* The stack and the lists of the requests never share a block, and none   *)
(* of them has a block twice: every move takes a block from exactly one    *)
(* place to another.                                                       *)
LEMMA SharedStep == TypeOK /\ NoBlockShared /\ [Next]_vars => NoBlockShared'
<1> SUFFICES ASSUME TypeOK, NoBlockShared, [Next]_vars PROVE NoBlockShared'
  OBVIOUS
<1>1. /\ \A i, j \in 1..Len(free_block_ids) : free_block_ids[i] = free_block_ids[j] => i = j
      /\ \A r \in Requests : \A i \in 1..Len(req_blocks[r]) :
            \A j \in 1..Len(free_block_ids) : free_block_ids[j] # req_blocks[r][i]
      /\ \A r, s \in Requests :
            \A i \in 1..Len(req_blocks[r]) : \A j \in 1..Len(req_blocks[s]) :
               req_blocks[r][i] = req_blocks[s][j] => r = s /\ i = j
  BY DEF NoBlockShared, IsFree
<1>2. CASE UNCHANGED <<free_block_ids, req_blocks>>
  BY <1>2, <1>1 DEF NoBlockShared, IsFree
<1>3. CASE PopBlock
  <2>1. PICK caller \in Requests, bid \in Blocks : PopMoves(caller, bid)
    BY <1>3, PopEffect
  <2> DEFINE k == Len(free_block_ids)
             m == Len(req_blocks[caller])
  <2>2. /\ k \in Nat \ {0} /\ m \in Nat
        /\ Len(free_block_ids') = k - 1
        /\ \A j \in 1..k - 1 : free_block_ids'[j] = free_block_ids[j]
        /\ bid = free_block_ids[k]
    BY <2>1 DEF PopMoves
  <2>3. \A i, j \in 1..Len(free_block_ids') : free_block_ids'[i] = free_block_ids'[j] => i = j
    BY <1>1, <2>2
  (* Where a block held after the step comes from. *)
  <2>4. ASSUME NEW r \in Requests, NEW i \in 1..Len(req_blocks'[r])
        PROVE  \/ r = caller /\ i = m + 1 /\ req_blocks'[r][i] = bid
               \/ i \in 1..Len(req_blocks[r]) /\ req_blocks'[r][i] = req_blocks[r][i]
    <3>1. CASE r = caller
      <4>1. CASE i = m + 1
        BY <2>1, <3>1, <4>1 DEF PopMoves
      <4>2. CASE i # m + 1
        BY <2>1, <3>1, <4>2 DEF PopMoves
      <4> QED BY <4>1, <4>2
    <3>2. CASE r # caller
      BY <2>1, <3>2 DEF PopMoves
    <3> QED BY <3>1, <3>2
  <2>5. ASSUME NEW r \in Requests, NEW i \in 1..Len(req_blocks'[r]),
               NEW j \in 1..Len(free_block_ids')
        PROVE  free_block_ids'[j] # req_blocks'[r][i]
    <3>1. j \in 1..k - 1 /\ free_block_ids'[j] = free_block_ids[j]
      BY <2>2
    <3>2. CASE req_blocks'[r][i] = bid
      BY <1>1, <2>2, <3>1, <3>2
    <3>3. CASE i \in 1..Len(req_blocks[r]) /\ req_blocks'[r][i] = req_blocks[r][i]
      BY <1>1, <2>2, <3>1, <3>3
    <3> QED BY <2>4, <3>2, <3>3
  <2>6. ASSUME NEW r \in Requests, NEW s \in Requests,
               NEW i \in 1..Len(req_blocks'[r]), NEW j \in 1..Len(req_blocks'[s]),
               req_blocks'[r][i] = req_blocks'[s][j]
        PROVE  r = s /\ i = j
    <3>1. \A q \in Requests : \A n \in 1..Len(req_blocks[q]) : req_blocks[q][n] # bid
      BY <1>1, <2>2
    <3>2. \/ r = caller /\ i = m + 1 /\ req_blocks'[r][i] = bid
          \/ i \in 1..Len(req_blocks[r]) /\ req_blocks'[r][i] = req_blocks[r][i]
      BY <2>4
    <3>3. \/ s = caller /\ j = m + 1 /\ req_blocks'[s][j] = bid
          \/ j \in 1..Len(req_blocks[s]) /\ req_blocks'[s][j] = req_blocks[s][j]
      BY <2>4
    <3> QED BY <1>1, <2>6, <3>1, <3>2, <3>3
  <2> QED BY <2>3, <2>5, <2>6 DEF NoBlockShared, IsFree
<1>4. ASSUME NEW q \in Requests, Free(q) PROVE NoBlockShared'
  <2>1. FreeMoves(q)
    BY <1>4, FreeEffect
  <2> DEFINE k == Len(free_block_ids)
             m == Len(req_blocks[q])
  <2>2. /\ k \in Nat /\ m \in Nat
        /\ Len(free_block_ids') = k + m
        /\ \A j \in 1..k : free_block_ids'[j] = free_block_ids[j]
        /\ \A j \in 1..m : free_block_ids'[k + j] = req_blocks[q][j]
    BY <2>1 DEF FreeMoves
  (* Where a block on the stack after the step comes from. *)
  <2>3. ASSUME NEW j \in 1..k + m
        PROVE  \/ j \in 1..k /\ free_block_ids'[j] = free_block_ids[j]
               \/ \E n \in 1..m : j = k + n /\ free_block_ids'[j] = req_blocks[q][n]
    <3>1. CASE j <= k
      BY <2>2, <3>1
    <3>2. CASE j > k
      <4>1. j - k \in 1..m /\ k + (j - k) = j
        BY <2>2, <3>2
      <4> QED BY <2>2, <4>1
    <3> QED BY <2>2, <3>1, <3>2
  <2>4. \A r \in Requests : \A i \in 1..Len(req_blocks'[r]) :
           r # q /\ i \in 1..Len(req_blocks[r]) /\ req_blocks'[r][i] = req_blocks[r][i]
    BY <2>1 DEF FreeMoves
  <2>5. ASSUME NEW i \in 1..k + m, NEW j \in 1..k + m, free_block_ids'[i] = free_block_ids'[j]
        PROVE  i = j
    <3> USE <2>2
    <3>1. CASE i \in 1..k /\ j \in 1..k
      BY <1>1, <2>5, <3>1
    <3>2. ASSUME NEW n \in 1..m, free_block_ids'[i] = req_blocks[q][n], j \in 1..k
          PROVE  FALSE
      <4>1. free_block_ids[j] # req_blocks[q][n]
        BY <1>1, <3>2
      <4> QED BY <2>5, <3>2, <4>1
    <3>3. ASSUME NEW n \in 1..m, free_block_ids'[j] = req_blocks[q][n], i \in 1..k
          PROVE  FALSE
      <4>1. free_block_ids[i] # req_blocks[q][n]
        BY <1>1, <3>3
      <4> QED BY <2>5, <3>3, <4>1
    <3>4. ASSUME NEW n \in 1..m, NEW l \in 1..m, i = k + n, j = k + l,
                 free_block_ids'[i] = req_blocks[q][n], free_block_ids'[j] = req_blocks[q][l]
          PROVE  i = j
      <4>1. n = l
        BY <1>1, <2>5, <3>4
      <4> QED BY <3>4, <4>1
    <3> QED BY <2>3, <3>1, <3>2, <3>3, <3>4
  <2>6. ASSUME NEW r \in Requests, NEW i \in 1..Len(req_blocks'[r]), NEW j \in 1..k + m
        PROVE  free_block_ids'[j] # req_blocks'[r][i]
    <3>1. r # q /\ i \in 1..Len(req_blocks[r]) /\ req_blocks'[r][i] = req_blocks[r][i]
      BY <2>4
    <3>2. CASE j \in 1..k /\ free_block_ids'[j] = free_block_ids[j]
      BY <1>1, <3>1, <3>2
    <3>3. ASSUME NEW n \in 1..m, free_block_ids'[j] = req_blocks[q][n]
          PROVE  free_block_ids'[j] # req_blocks'[r][i]
      BY <1>1, <3>1, <3>3
    <3> QED BY <2>3, <3>2, <3>3
  <2>7. \A r, s \in Requests :
           \A i \in 1..Len(req_blocks'[r]) : \A j \in 1..Len(req_blocks'[s]) :
              req_blocks'[r][i] = req_blocks'[s][j] => r = s /\ i = j
    BY <1>1, <2>4
  <2> QED BY <2>2, <2>5, <2>6, <2>7 DEF NoBlockShared, IsFree
<1> QED BY <1>2, <1>3, <1>4 DEF Next, AllocateSlots, RefuseSlots, vars

(* At any time a block is in at most one place: no two requests, and no    *)
(* request and the stack, ever share one.                                  *)
THEOREM NeverShared == Spec => []NoBlockShared
<1>1. Init => NoBlockShared
  BY ManagerAssumption DEF Init, NoBlockShared, IsFree
<1> QED BY <1>1, SharedStep, TypeCorrect, PTL DEF Spec

-----------------------------------------------------------------------------
(* Room left in the blocks, and the call under way.                        *)

(* A block that is held is not empty: no request has a block it does not   *)
(* need.                                                                   *)
HeldHasTokens ==
    \A r \in Requests : \A i \in 1..Len(req_blocks[r]) :
        free_slots[req_blocks[r][i]] < BlockSize

(* The loop of the call pops what the tokens that remain take, the stack   *)
(* has it, and nothing is popped before the tail is full.                  *)
CallFits ==
    /\ call.need = BlocksFor(call.remaining)
    /\ call.need <= Len(free_block_ids)
    /\ call.need > 0 => TailSlots(call.req) = 0

RoomInv == TypeOK /\ NoBlockShared /\ OnlyTailHasRoom /\ HeldHasTokens /\ CallFits

LEMMA RoomInit == Init => RoomInv
<1> SUFFICES ASSUME Init PROVE RoomInv
  OBVIOUS
<1>1. TypeOK
  BY BlockSizeAssumption, ManagerAssumption DEF Init, TypeOK, Blocks, Calls
<1>2. NoBlockShared
  BY ManagerAssumption DEF Init, NoBlockShared, IsFree
<1>3. OnlyTailHasRoom /\ HeldHasTokens
  BY ManagerAssumption, BlockSizeAssumption DEF Init, OnlyTailHasRoom, HeldHasTokens, Blocks
<1>4. CallFits
  <2>1. BlocksFor(0) = 0
    BY BlocksForFew, BlockSizeAssumption
  <2> QED
    BY <2>1, ManagerAssumption DEF Init, CallFits
<1> QED
  BY <1>1, <1>2, <1>3, <1>4 DEF RoomInv

(* The tail of a request: the last of its blocks, if it has one.           *)
LEMMA TailFacts ==
  ASSUME RoomInv, NEW r \in Requests
  PROVE  /\ TailSlots(r) \in Nat /\ TailSlots(r) < BlockSize
         /\ Len(req_blocks[r]) \in Nat
         /\ Len(req_blocks[r]) = 0 <=> req_blocks[r] = <<>>
         /\ Len(req_blocks[r]) = 0 => TailSlots(r) = 0
         /\ Len(req_blocks[r]) # 0 =>
               /\ Last(req_blocks[r]) = req_blocks[r][Len(req_blocks[r])]
               /\ Last(req_blocks[r]) \in Blocks
               /\ TailSlots(r) = free_slots[Last(req_blocks[r])]
<1>1. req_blocks[r] \in Seq(Blocks) /\ free_slots \in [Blocks -> 0..BlockSize]
  BY DEF RoomInv, TypeOK
<1>2. CASE req_blocks[r] = <<>>
  BY <1>2, BlockSizeAssumption DEF TailSlots
<1>3. CASE req_blocks[r] # <<>>
  <2> DEFINE k == Len(req_blocks[r])
  <2>1. k \in Nat \ {0} /\ k \in 1..k /\ req_blocks[r][k] \in Blocks
    BY <1>1, <1>3
  <2>2. free_slots[req_blocks[r][k]] \in 0..BlockSize /\ free_slots[req_blocks[r][k]] < BlockSize
    BY <1>1, <2>1 DEF RoomInv, HeldHasTokens
  <2>3. Last(req_blocks[r]) = req_blocks[r][k] /\ TailSlots(r) = free_slots[req_blocks[r][k]]
    BY <1>3 DEF TailSlots, Last
  <2> QED
    BY <1>3, <2>1, <2>2, <2>3, BlockSizeAssumption
<1> QED
  BY <1>2, <1>3

(* Slots a request has, and the blocks they take. *)
LEMMA PromiseFacts ==
  ASSUME RoomInv, NEW r \in Requests, Idle
  PROVE  /\ call.remaining = 0
         /\ PromisedSlots(r) = Len(req_blocks[r]) * BlockSize - TailSlots(r)
         /\ PromisedSlots(r) \in Nat
         /\ BlocksFor(PromisedSlots(r)) = Len(req_blocks[r])
         /\ UnpromisedBlocks = Len(free_block_ids)
<1>1. call.remaining = 0
  <2>1. call.remaining \in Nat /\ BlocksFor(call.remaining) = 0 /\ BlockSize \in Nat \ {0}
    BY BlockSizeAssumption DEF RoomInv, TypeOK, Calls, CallFits, Idle
  <2>2. call.remaining <= BlockSize * BlocksFor(call.remaining)
    BY <2>1, BlocksForBounds
  <2> QED
    BY <2>1, <2>2
<1> DEFINE k == Len(req_blocks[r])
           t == TailSlots(r)
<1>2. k \in Nat /\ t \in Nat /\ t < BlockSize /\ (k = 0 => t = 0)
  BY TailFacts
<1>3. PromisedSlots(r) = k * BlockSize - t + 0
  BY <1>1 DEF PromisedSlots
<1> HIDE DEF k, t
<1>4. BlocksFor(k * BlockSize - t) = k
  <2>1. t >= t
    BY <1>2
  <2> QED
    BY <1>2, <2>1, NewBlocksBehindTail
<1>5. k * BlockSize - t \in Nat
  <2>1. BlockSize \in Nat \ {0}
    BY BlockSizeAssumption
  <2> DEFINE c == k * BlockSize
  <2>2. c \in Nat /\ (k # 0 => c >= BlockSize) /\ (k = 0 => c = 0)
    BY <1>2, <2>1
  <2> HIDE DEF c
  <2>3. c - t \in Nat
    BY <1>2, <2>1, <2>2
  <2> QED
    BY <2>3 DEF c
<1>6. UnpromisedBlocks = Len(free_block_ids)
  BY DEF UnpromisedBlocks, Idle, RoomInv, TypeOK
<1> QED
  BY <1>1, <1>3, <1>4, <1>5, <1>6 DEF k, t

(* The step of allocate_slots before its loop only fills the tail block. *)
LEMMA FillEffect ==
  ASSUME RoomInv, NEW r \in Requests, NEW n \in 1..MaxNewTokens, AllocateSlots(r, n)
  PROVE  \E take \in Nat :
            /\ take <= TailSlots(r)
            /\ n - take \in Nat
            /\ n < TailSlots(r) => take = n
            /\ n >= TailSlots(r) => take = TailSlots(r)
            /\ call' = [req |-> r, remaining |-> n - take,
                        need |-> BlocksFor(n - take), result |-> "blocks"]
            /\ \A b \in Blocks :
                  \/ free_slots'[b] = free_slots[b]
                  \/ /\ Len(req_blocks[r]) # 0
                     /\ b = Last(req_blocks[r])
                     /\ free_slots'[b] = TailSlots(r) - take
            /\ Len(req_blocks[r]) # 0 =>
                  free_slots'[Last(req_blocks[r])] = TailSlots(r) - take
<1> DEFINE t    == TailSlots(r)
           take == Min2(n, t)
<1>1. /\ t \in Nat
      /\ Len(req_blocks[r]) = 0 <=> req_blocks[r] = <<>>
      /\ Len(req_blocks[r]) # 0 => Last(req_blocks[r]) \in Blocks /\ t = free_slots[Last(req_blocks[r])]
  BY TailFacts
<1>2. n \in Nat
  BY ManagerAssumption
<1>3. /\ free_slots' = IF req_blocks[r] = <<>> THEN free_slots
                       ELSE [free_slots EXCEPT ![Last(req_blocks[r])] = @ - take]
      /\ call' = [req |-> r, remaining |-> n - take,
                  need |-> BlocksFor(n - take), result |-> "blocks"]
  BY DEF AllocateSlots
<1>4. free_slots \in [Blocks -> 0..BlockSize]
  BY DEF RoomInv, TypeOK
<1>5. take \in Nat /\ take <= t /\ n - take \in Nat /\ (n < t => take = n) /\ (n >= t => take = t)
  <2> HIDE DEF t
  <2> QED BY <1>1, <1>2 DEF Min2
<1>6. /\ \A b \in Blocks : \/ free_slots'[b] = free_slots[b]
                           \/ /\ Len(req_blocks[r]) # 0
                              /\ b = Last(req_blocks[r])
                              /\ free_slots'[b] = t - take
      /\ Len(req_blocks[r]) # 0 => free_slots'[Last(req_blocks[r])] = t - take
  <2> HIDE DEF t, take
  <2>1. CASE req_blocks[r] = <<>>
    BY <1>1, <1>3, <2>1
  <2>2. CASE req_blocks[r] # <<>>
    BY <1>1, <1>3, <1>4, <2>2
  <2> QED BY <2>1, <2>2
<1> QED BY <1>3, <1>5, <1>6

(* Taking one more block: what the loop of allocate_slots does to the room *)
(* left.  The block was empty, and the tail it comes behind was full.      *)
PopFills(caller, bid, take) ==
    /\ PopMoves(caller, bid)
    /\ free_slots[bid] = BlockSize
    /\ free_slots' = [free_slots EXCEPT ![bid] = BlockSize - take]
    /\ TailSlots(caller) = 0
    /\ call.remaining \in Nat /\ call.need \in Nat /\ call.need > 0
    /\ call' = [call EXCEPT !.remaining = call.remaining - take, !.need = call.need - 1]
    /\ call.remaining - take \in Nat
    /\ call.need = 1 \/ take = BlockSize
    /\ BlocksFor(call.remaining - take) = call.need - 1

LEMMA PopRoom ==
  ASSUME RoomInv, PopBlock
  PROVE  \E caller \in Requests, bid \in Blocks, take \in 1..BlockSize :
            PopFills(caller, bid, take)
<1>1. PICK caller \in Requests, bid \in Blocks : PopMoves(caller, bid)
  BY PopEffect DEF RoomInv
<1> DEFINE q    == call.remaining
           take == Min2(q, BlockSize)
<1>2. free_slots[bid] = BlockSize
  BY <1>1 DEF PopMoves, RoomInv, OnlyTailHasRoom
<1>3. /\ free_slots' = [free_slots EXCEPT ![bid] = free_slots[bid] - take]
      /\ call' = [call EXCEPT !.remaining = q - take, !.need = call.need - 1]
  BY <1>1, <1>2 DEF PopBlock, PopMoves
<1>4. /\ q \in Nat /\ call.need \in Nat /\ call.need > 0 /\ call.need = BlocksFor(q)
      /\ TailSlots(caller) = 0
      /\ BlockSize \in Nat \ {0}
  BY <1>1, BlockSizeAssumption DEF PopBlock, RoomInv, TypeOK, Calls, CallFits, PopMoves
<1>5. q # 0
  BY <1>4, BlocksForFew
<1>6. /\ take \in 1..BlockSize /\ q - take \in Nat
      /\ call.need = 1 \/ take = BlockSize
      /\ BlocksFor(q - take) = call.need - 1
  <2>1. CASE q < BlockSize
    <3>1. take = q /\ q \in 1..BlockSize /\ q - take = 0
      BY <1>4, <1>5, <2>1 DEF Min2
    <3>2. call.need = 1 /\ BlocksFor(0) = 0
      BY <1>4, <1>5, <2>1, BlocksForFew
    <3> QED BY <3>1, <3>2
  <2>2. CASE q >= BlockSize
    <3>1. take = BlockSize /\ BlockSize \in 1..BlockSize /\ q - take \in Nat
      BY <1>4, <2>2 DEF Min2
    <3>2. BlocksFor(q - BlockSize) = call.need - 1
      BY <1>4, <2>2, BlocksForMinusOne
    <3> QED BY <3>1, <3>2
  <2> QED BY <1>4, <2>1, <2>2
<1>7. PopFills(caller, bid, take)
  BY <1>1, <1>2, <1>3, <1>4, <1>6 DEF PopFills
<1> QED BY <1>6, <1>7

(* Where the blocks are, in the form the proofs below use. *)
LEMMA Apart ==
  ASSUME RoomInv
  PROVE  /\ \A r, s \in Requests : \A i \in 1..Len(req_blocks[r]) : \A j \in 1..Len(req_blocks[s]) :
               req_blocks[r][i] = req_blocks[s][j] => r = s /\ i = j
         /\ \A i, j \in 1..Len(free_block_ids) : free_block_ids[i] = free_block_ids[j] => i = j
         /\ \A r \in Requests : \A i \in 1..Len(req_blocks[r]) : \A j \in 1..Len(free_block_ids) :
               free_block_ids[j] # req_blocks[r][i]
         /\ Len(free_block_ids) \in Nat
         /\ \A i \in 1..Len(free_block_ids) :
               free_block_ids[i] \in Blocks /\ free_slots[free_block_ids[i]] = BlockSize
         /\ \A r \in Requests :
               /\ Len(req_blocks[r]) \in Nat
               /\ \A i \in 1..Len(req_blocks[r]) :
                     /\ req_blocks[r][i] \in Blocks
                     /\ free_slots[req_blocks[r][i]] < BlockSize
                     /\ free_slots[req_blocks[r][i]] \in Nat
               /\ \A i \in 1..Len(req_blocks[r]) - 1 : free_slots[req_blocks[r][i]] = 0
<1>1. /\ free_block_ids \in Seq(Blocks)
      /\ req_blocks \in [Requests -> Seq(Blocks)]
      /\ free_slots \in [Blocks -> 0..BlockSize]
  BY DEF RoomInv, TypeOK
<1>2. ASSUME NEW r \in Requests
      PROVE  /\ Len(req_blocks[r]) \in Nat
             /\ \A i \in 1..Len(req_blocks[r]) :
                   /\ req_blocks[r][i] \in Blocks
                   /\ free_slots[req_blocks[r][i]] < BlockSize
                   /\ free_slots[req_blocks[r][i]] \in Nat
  <2>1. req_blocks[r] \in Seq(Blocks)
    BY <1>1
  <2>2. \A i \in 1..Len(req_blocks[r]) : req_blocks[r][i] \in Blocks
    BY <2>1
  <2>3. \A b \in Blocks : free_slots[b] \in Nat
    BY <1>1, BlockSizeAssumption
  <2> QED BY <2>1, <2>2, <2>3 DEF RoomInv, HeldHasTokens
<1>3. \A i \in 1..Len(free_block_ids) : free_block_ids[i] \in Blocks
  BY <1>1
<1> QED BY <1>1, <1>2, <1>3 DEF RoomInv, NoBlockShared, IsFree, OnlyTailHasRoom

(* Filling a tail leaves the other tails alone, *)
LEMMA FillTails ==
  ASSUME RoomInv, NEW r \in Requests, NEW n \in 1..MaxNewTokens, AllocateSlots(r, n),
         NEW take \in Nat, take <= TailSlots(r),
         Len(req_blocks[r]) # 0 => free_slots'[Last(req_blocks[r])] = TailSlots(r) - take,
         \A b \in Blocks : \/ free_slots'[b] = free_slots[b]
                           \/ /\ Len(req_blocks[r]) # 0
                              /\ b = Last(req_blocks[r])
                              /\ free_slots'[b] = TailSlots(r) - take
  PROVE  /\ TailSlots(r)' = TailSlots(r) - take
         /\ \A s \in Requests \ {r} : TailSlots(s)' = TailSlots(s)
<1>1. req_blocks' = req_blocks
  BY DEF AllocateSlots
<1>2. TailSlots(r) \in Nat
  BY TailFacts
<1>3. TailSlots(r)' = TailSlots(r) - take
  <2>1. CASE Len(req_blocks[r]) = 0
    <3>1. req_blocks[r] = <<>> /\ TailSlots(r) = 0
      BY <2>1, TailFacts
    <3> QED BY <1>1, <1>2, <3>1 DEF TailSlots
  <2>2. CASE Len(req_blocks[r]) # 0
    <3>1. req_blocks[r] # <<>>
      BY <2>2, TailFacts
    <3> QED BY <1>1, <2>2, <3>1 DEF TailSlots
  <2> QED BY <2>1, <2>2
<1>4. ASSUME NEW s \in Requests \ {r} PROVE TailSlots(s)' = TailSlots(s)
  <2>1. CASE req_blocks[s] = <<>>
    BY <1>1, <2>1 DEF TailSlots
  <2>2. CASE req_blocks[s] # <<>>
    <3> DEFINE i == Len(req_blocks[s])
               k == Len(req_blocks[r])
    <3>1. /\ Last(req_blocks[s]) = req_blocks[s][i]
          /\ Last(req_blocks[s]) \in Blocks
          /\ i \in Nat /\ i # 0 /\ k \in Nat
      BY <2>2, TailFacts
    <3>2. k # 0 => Last(req_blocks[r]) = req_blocks[r][k]
      BY TailFacts
    <3>3. k # 0 => Last(req_blocks[r]) # Last(req_blocks[s])
      BY <3>1, <3>2, Apart
    <3>4. free_slots'[Last(req_blocks[s])] = free_slots[Last(req_blocks[s])]
      BY <3>1, <3>3
    <3> QED BY <1>1, <2>2, <3>4 DEF TailSlots
  <2> QED BY <2>1, <2>2
<1> QED BY <1>3, <1>4

(* and keeps the room invariant. *)
LEMMA FillStep ==
  ASSUME RoomInv, NEW r \in Requests, NEW n \in 1..MaxNewTokens, AllocateSlots(r, n)
  PROVE  OnlyTailHasRoom' /\ HeldHasTokens' /\ CallFits'
<1>1. PICK take \in Nat :
         /\ take <= TailSlots(r)
         /\ n - take \in Nat
         /\ n < TailSlots(r) => take = n
         /\ n >= TailSlots(r) => take = TailSlots(r)
         /\ call' = [req |-> r, remaining |-> n - take,
                     need |-> BlocksFor(n - take), result |-> "blocks"]
         /\ \A b \in Blocks :
               \/ free_slots'[b] = free_slots[b]
               \/ /\ Len(req_blocks[r]) # 0
                  /\ b = Last(req_blocks[r])
                  /\ free_slots'[b] = TailSlots(r) - take
         /\ Len(req_blocks[r]) # 0 =>
               free_slots'[Last(req_blocks[r])] = TailSlots(r) - take
  BY FillEffect
<1>2. /\ free_block_ids' = free_block_ids /\ req_blocks' = req_blocks
      /\ n <= Len(free_block_ids) * BlockSize + TailSlots(r)
  BY DEF AllocateSlots, CanHold
<1>3. TailSlots(r) \in Nat /\ TailSlots(r) < BlockSize /\ Len(req_blocks[r]) \in Nat
      /\ (Len(req_blocks[r]) # 0 => Last(req_blocks[r]) = req_blocks[r][Len(req_blocks[r])])
  BY TailFacts
<1>4. n \in Nat \ {0} /\ BlockSize \in Nat \ {0} /\ Len(free_block_ids) \in Nat
  BY ManagerAssumption, BlockSizeAssumption, Apart
<1>5. ASSUME NEW s \in Requests, NEW i \in 1..Len(req_blocks[s]) - 1
      PROVE  free_slots'[req_blocks[s][i]] = 0
  <2>1. Len(req_blocks[s]) \in Nat /\ i \in 1..Len(req_blocks[s]) /\ req_blocks[s][i] \in Blocks
        /\ free_slots[req_blocks[s][i]] = 0
    BY Apart
  <2>2. ~ (Len(req_blocks[r]) # 0 /\ req_blocks[s][i] = Last(req_blocks[r]))
    <3> SUFFICES ASSUME Len(req_blocks[r]) # 0, req_blocks[s][i] = req_blocks[r][Len(req_blocks[r])]
                 PROVE  FALSE
      BY <1>3
    <3>1. Len(req_blocks[r]) \in 1..Len(req_blocks[r])
      BY <1>3
    <3>2. s = r /\ i = Len(req_blocks[r])
      BY <2>1, <3>1, Apart
    <3> QED BY <2>1, <3>2
  <2> QED BY <1>1, <2>1, <2>2
<1>6. ASSUME NEW i \in 1..Len(free_block_ids)
      PROVE  free_slots'[free_block_ids[i]] = BlockSize
  <2>1. free_block_ids[i] \in Blocks /\ free_slots[free_block_ids[i]] = BlockSize
    BY Apart
  <2>2. ~ (Len(req_blocks[r]) # 0 /\ free_block_ids[i] = Last(req_blocks[r]))
    <3>1. Len(req_blocks[r]) # 0 => Len(req_blocks[r]) \in 1..Len(req_blocks[r])
      BY <1>3
    <3> QED BY <1>3, <3>1, Apart
  <2> QED BY <1>1, <2>1, <2>2
<1>7. OnlyTailHasRoom'
  BY <1>2, <1>5, <1>6 DEF OnlyTailHasRoom
<1>8. HeldHasTokens'
  <2> SUFFICES ASSUME NEW s \in Requests, NEW i \in 1..Len(req_blocks[s])
               PROVE  free_slots'[req_blocks[s][i]] < BlockSize
    BY <1>2 DEF HeldHasTokens
  <2>1. req_blocks[s][i] \in Blocks /\ free_slots[req_blocks[s][i]] < BlockSize
    BY Apart
  <2>2. TailSlots(r) - take < BlockSize
    BY <1>1, <1>3, <1>4
  <2> QED BY <1>1, <2>1, <2>2
<1>9. CallFits'
  <2>1. TailSlots(r)' = TailSlots(r) - take
    BY <1>1, FillTails
  <2>2. CASE n < TailSlots(r)
    <3>1. n - take = 0 /\ BlocksFor(0) = 0
      BY <1>1, <1>4, <2>2, BlocksForFew
    <3>2. call'.need = 0 /\ call'.remaining = 0
      BY <1>1, <3>1
    <3> QED BY <1>2, <1>4, <3>1, <3>2 DEF CallFits
  <2>3. CASE n >= TailSlots(r)
    <3> DEFINE m == n - TailSlots(r)
               c == Len(free_block_ids) * BlockSize
    <3>1. take = TailSlots(r) /\ m \in Nat
      BY <1>1, <2>3
    <3>2. m <= c
      <4>1. c \in Nat
        BY <1>4
      <4> HIDE DEF c
      <4>2. n <= c + TailSlots(r)
        BY <1>2 DEF c
      <4> QED BY <1>3, <1>4, <4>1, <4>2
    <3>3. BlocksFor(m) <= Len(free_block_ids)
      <4> HIDE DEF m
      <4> QED BY <1>4, <3>1, <3>2, BlocksForAtMost
    <3>4. call' = [req |-> r, remaining |-> m, need |-> BlocksFor(m), result |-> "blocks"]
      BY <1>1, <3>1
    <3>5. TailSlots(r)' = 0
      BY <1>3, <2>1, <3>1
    <3> HIDE DEF m
    <3>6. call'.req = r /\ call'.remaining = m /\ call'.need = BlocksFor(m)
      BY <3>4
    <3>7. TailSlots(call.req)' = 0
      BY <3>5, <3>6 DEF TailSlots
    <3> QED BY <1>2, <3>3, <3>6, <3>7 DEF CallFits
  <2> QED BY <1>3, <1>4, <2>2, <2>3
<1> QED BY <1>7, <1>8, <1>9

(* A pop changes the room of one block only: it becomes the caller's tail, *)
(* so the tails of the others stay as they are.                            *)
LEMMA PopTails ==
  ASSUME RoomInv, NEW caller \in Requests, NEW bid \in Blocks, NEW take \in 1..BlockSize,
         PopFills(caller, bid, take)
  PROVE  /\ free_slots'[bid] = BlockSize - take
         /\ \A b \in Blocks \ {bid} : free_slots'[b] = free_slots[b]
         /\ \A r \in Requests : \A i \in 1..Len(req_blocks[r]) : req_blocks[r][i] # bid
         /\ TailSlots(caller)' = BlockSize - take
         /\ \A s \in Requests \ {caller} : TailSlots(s)' = TailSlots(s)
<1>1. /\ free_slots'[bid] = BlockSize - take
      /\ \A b \in Blocks \ {bid} : free_slots'[b] = free_slots[b]
  BY DEF PopFills, RoomInv, TypeOK
<1>2. \A r \in Requests : \A i \in 1..Len(req_blocks[r]) : req_blocks[r][i] # bid
  <2>1. Len(free_block_ids) \in 1..Len(free_block_ids) /\ bid = free_block_ids[Len(free_block_ids)]
    BY DEF PopFills, PopMoves
  <2> QED BY <2>1, Apart
<1>3. TailSlots(caller)' = BlockSize - take
  <2> DEFINE k == Len(req_blocks[caller])
  <2>1. /\ Len(req_blocks'[caller]) = k + 1 /\ k \in Nat
        /\ req_blocks'[caller][k + 1] = bid
    BY DEF PopFills, PopMoves
  <2>2. req_blocks'[caller] # <<>>
    BY <2>1
  <2>3. TailSlots(caller)' = free_slots'[req_blocks'[caller][Len(req_blocks'[caller])]]
    BY <2>2 DEF TailSlots, Last
  <2> QED BY <1>1, <2>1, <2>3
<1>4. ASSUME NEW s \in Requests \ {caller} PROVE TailSlots(s)' = TailSlots(s)
  <2>1. req_blocks'[s] = req_blocks[s]
    BY DEF PopFills, PopMoves
  <2>2. CASE req_blocks[s] = <<>>
    BY <2>1, <2>2 DEF TailSlots
  <2>3. CASE req_blocks[s] # <<>>
    <3>1. /\ Last(req_blocks[s]) = req_blocks[s][Len(req_blocks[s])]
          /\ Last(req_blocks[s]) \in Blocks
          /\ Len(req_blocks[s]) \in 1..Len(req_blocks[s])
      BY <2>3, TailFacts
    <3>2. Last(req_blocks[s]) # bid
      BY <1>2, <3>1
    <3> QED BY <1>1, <2>1, <2>3, <3>1, <3>2 DEF TailSlots
  <2> QED BY <2>2, <2>3
<1> QED BY <1>1, <1>2, <1>3, <1>4

LEMMA PopStep ==
  ASSUME RoomInv, PopBlock
  PROVE  OnlyTailHasRoom' /\ HeldHasTokens' /\ CallFits'
<1>1. PICK caller \in Requests, bid \in Blocks, take \in 1..BlockSize :
         PopFills(caller, bid, take)
  BY PopRoom
<1> DEFINE k == Len(free_block_ids)
           m == Len(req_blocks[caller])
<1>2. /\ k \in Nat \ {0} /\ m \in Nat
      /\ bid = free_block_ids[k]
      /\ Len(free_block_ids') = k - 1
      /\ \A j \in 1..k - 1 : free_block_ids'[j] = free_block_ids[j]
      /\ \A r \in Requests \ {caller} : req_blocks'[r] = req_blocks[r]
      /\ Len(req_blocks'[caller]) = m + 1
      /\ req_blocks'[caller][m + 1] = bid
      /\ \A i \in 1..m : req_blocks'[caller][i] = req_blocks[caller][i]
      /\ caller = call.req
  BY <1>1 DEF PopFills, PopMoves
<1>3. /\ free_slots'[bid] = BlockSize - take
      /\ \A b \in Blocks \ {bid} : free_slots'[b] = free_slots[b]
      /\ \A r \in Requests : \A i \in 1..Len(req_blocks[r]) : req_blocks[r][i] # bid
      /\ TailSlots(caller)' = BlockSize - take
  BY <1>1, PopTails
<1>4. BlockSize \in Nat \ {0} /\ take \in Nat /\ BlockSize - take < BlockSize
  BY BlockSizeAssumption
<1>5. m # 0 => free_slots[req_blocks[caller][m]] = 0
  <2> SUFFICES ASSUME m # 0 PROVE free_slots[req_blocks[caller][m]] = 0
    OBVIOUS
  <2>1. TailSlots(caller) = 0
    BY <1>1 DEF PopFills
  <2> QED BY <2>1, TailFacts
<1>6. ASSUME NEW s \in Requests, NEW i \in 1..Len(req_blocks'[s]) - 1
      PROVE  free_slots'[req_blocks'[s][i]] = 0
  <2>1. CASE s = caller
    <3>1. i \in 1..m /\ req_blocks'[s][i] = req_blocks[s][i]
      BY <1>2, <2>1
    <3>2. req_blocks[s][i] \in Blocks /\ req_blocks[s][i] # bid
      BY <1>3, <2>1, <3>1, Apart
    <3>3. free_slots[req_blocks[s][i]] = 0
      <4>1. CASE i = m
        BY <1>5, <2>1, <3>1, <4>1
      <4>2. CASE i # m
        <5>1. i \in 1..Len(req_blocks[s]) - 1
          BY <1>2, <2>1, <3>1, <4>2
        <5> QED BY <5>1, Apart
      <4> QED BY <4>1, <4>2
    <3> QED BY <1>3, <3>1, <3>2, <3>3
  <2>2. CASE s # caller
    <3>1. req_blocks'[s] = req_blocks[s] /\ i \in 1..Len(req_blocks[s]) - 1
      BY <1>2, <2>2
    <3>2. /\ i \in 1..Len(req_blocks[s])
          /\ req_blocks[s][i] \in Blocks /\ free_slots[req_blocks[s][i]] = 0
      BY <3>1, Apart
    <3>3. req_blocks[s][i] # bid
      BY <1>3, <3>2
    <3> QED BY <1>3, <3>1, <3>2, <3>3
  <2> QED BY <2>1, <2>2
<1>7. ASSUME NEW j \in 1..Len(free_block_ids')
      PROVE  free_slots'[free_block_ids'[j]] = BlockSize
  <2>1. j \in 1..k /\ j # k /\ k \in 1..k /\ free_block_ids'[j] = free_block_ids[j]
    BY <1>2
  <2>2. /\ free_block_ids[j] \in Blocks /\ free_slots[free_block_ids[j]] = BlockSize
        /\ free_block_ids[j] # bid
    BY <1>2, <2>1, Apart
  <2> QED BY <1>3, <2>1, <2>2
<1>8. OnlyTailHasRoom'
  BY <1>6, <1>7 DEF OnlyTailHasRoom
<1>9. ASSUME NEW s \in Requests, NEW i \in 1..Len(req_blocks'[s])
      PROVE  free_slots'[req_blocks'[s][i]] < BlockSize
  <2>1. CASE s = caller /\ i = m + 1
    BY <1>2, <1>3, <1>4, <2>1
  <2>2. CASE ~ (s = caller /\ i = m + 1)
    <3>1. i \in 1..Len(req_blocks[s]) /\ req_blocks'[s][i] = req_blocks[s][i]
      BY <1>2, <2>2, SMTT(30)
    <3>2. /\ req_blocks[s][i] \in Blocks /\ free_slots[req_blocks[s][i]] < BlockSize
          /\ req_blocks[s][i] # bid
      BY <1>3, <3>1, Apart
    <3> QED BY <1>3, <3>1, <3>2
  <2> QED BY <2>1, <2>2
<1>10. HeldHasTokens'
  BY <1>9 DEF HeldHasTokens
<1>11. CallFits'
  <2>1. /\ call.need \in Nat /\ call.need > 0
        /\ call' = [call EXCEPT !.remaining = call.remaining - take, !.need = call.need - 1]
        /\ call.need = 1 \/ take = BlockSize
        /\ BlocksFor(call.remaining - take) = call.need - 1
    BY <1>1 DEF PopFills
  <2>2. call \in Calls /\ call.need <= k
    BY DEF RoomInv, TypeOK, CallFits
  <2>3. /\ call'.req = caller
        /\ call'.remaining = call.remaining - take
        /\ call'.need = call.need - 1
    BY <1>2, <2>1, <2>2 DEF Calls
  <2>4. TailSlots(call.req)' = BlockSize - take
    BY <1>3, <2>3 DEF TailSlots
  <2>5. call'.need > 0 => TailSlots(call.req)' = 0
    <3> HIDE DEF k
    <3> QED BY <1>4, <2>1, <2>3, <2>4
  <2>6. call'.need <= Len(free_block_ids')
    BY <1>2, <2>1, <2>2, <2>3
  <2> QED BY <2>1, <2>3, <2>5, <2>6 DEF CallFits
<1> QED BY <1>8, <1>10, <1>11

(* free leaves the room of the blocks of the others as it is. *)
LEMMA FreeTails ==
  ASSUME RoomInv, NEW q \in Requests, Free(q)
  PROVE  /\ \A b \in Blocks : free_slots'[b] \in {free_slots[b], BlockSize}
         /\ \A i \in 1..Len(req_blocks[q]) : free_slots'[req_blocks[q][i]] = BlockSize
         /\ \A r \in Requests \ {q} : \A i \in 1..Len(req_blocks[r]) :
               free_slots'[req_blocks[r][i]] = free_slots[req_blocks[r][i]]
         /\ TailSlots(q)' = 0
         /\ \A s \in Requests \ {q} : TailSlots(s)' = TailSlots(s)
<1>1. free_slots' = Emptied(q)
  BY DEF Free
<1>2. \A b \in Blocks : free_slots'[b] \in {free_slots[b], BlockSize}
  BY <1>1 DEF Emptied
<1>3. \A i \in 1..Len(req_blocks[q]) : free_slots'[req_blocks[q][i]] = BlockSize
  BY <1>1, Apart DEF Emptied
<1>4. ASSUME NEW r \in Requests \ {q}, NEW i \in 1..Len(req_blocks[r])
      PROVE  free_slots'[req_blocks[r][i]] = free_slots[req_blocks[r][i]]
  <2>1. req_blocks[r][i] \in Blocks
    BY Apart
  <2>2. \A j \in 1..Len(req_blocks[q]) : req_blocks[q][j] # req_blocks[r][i]
    BY Apart
  <2> QED BY <1>1, <2>1, <2>2 DEF Emptied
<1>5. /\ \A r \in Requests \ {q} : req_blocks'[r] = req_blocks[r]
      /\ req_blocks'[q] = <<>>
  BY DEF Free, RoomInv, TypeOK
<1>6. TailSlots(q)' = 0
  BY <1>5 DEF TailSlots
<1>7. ASSUME NEW s \in Requests \ {q} PROVE TailSlots(s)' = TailSlots(s)
  <2>1. CASE req_blocks[s] = <<>>
    BY <1>5, <2>1 DEF TailSlots
  <2>2. CASE req_blocks[s] # <<>>
    <3>1. /\ Last(req_blocks[s]) = req_blocks[s][Len(req_blocks[s])]
          /\ Len(req_blocks[s]) \in 1..Len(req_blocks[s])
      BY <2>2, TailFacts
    <3>2. free_slots'[Last(req_blocks[s])] = free_slots[Last(req_blocks[s])]
      BY <1>4, <3>1
    <3> QED BY <1>5, <2>2, <3>2 DEF TailSlots
  <2> QED BY <2>1, <2>2
<1> QED BY <1>2, <1>3, <1>4, <1>6, <1>7

LEMMA FreeStep ==
  ASSUME RoomInv, NEW q \in Requests, Free(q)
  PROVE  OnlyTailHasRoom' /\ HeldHasTokens' /\ CallFits'
<1> DEFINE k == Len(free_block_ids)
           m == Len(req_blocks[q])
<1>1. /\ k \in Nat /\ m \in Nat
      /\ \A r \in Requests \ {q} : req_blocks'[r] = req_blocks[r]
      /\ Len(req_blocks'[q]) = 0
      /\ Len(free_block_ids') = k + m
      /\ \A j \in 1..k : free_block_ids'[j] = free_block_ids[j]
      /\ \A j \in 1..m : free_block_ids'[k + j] = req_blocks[q][j]
  BY FreeEffect DEF FreeMoves, RoomInv
<1>2. /\ \A b \in Blocks : free_slots'[b] \in {free_slots[b], BlockSize}
      /\ \A i \in 1..m : free_slots'[req_blocks[q][i]] = BlockSize
      /\ \A r \in Requests \ {q} : \A i \in 1..Len(req_blocks[r]) :
            free_slots'[req_blocks[r][i]] = free_slots[req_blocks[r][i]]
  BY FreeTails
<1>3. \A s \in Requests : \A i \in 1..Len(req_blocks'[s]) - 1 :
         free_slots'[req_blocks'[s][i]] = 0
  <2> SUFFICES ASSUME NEW s \in Requests, NEW i \in 1..Len(req_blocks'[s]) - 1
               PROVE  free_slots'[req_blocks'[s][i]] = 0
    OBVIOUS
  <2>1. s # q /\ req_blocks'[s] = req_blocks[s]
    BY <1>1
  <2>2. i \in 1..Len(req_blocks[s]) /\ free_slots[req_blocks[s][i]] = 0
    BY <2>1, Apart
  <2> QED BY <1>2, <2>1, <2>2
<1>4. ASSUME NEW j \in 1..Len(free_block_ids')
      PROVE  free_slots'[free_block_ids'[j]] = BlockSize
  <2>1. CASE j <= k
    <3>1. j \in 1..k /\ free_block_ids'[j] = free_block_ids[j]
      BY <1>1, <2>1
    <3>2. free_block_ids[j] \in Blocks /\ free_slots[free_block_ids[j]] = BlockSize
      BY <3>1, Apart
    <3> QED BY <1>2, <3>1, <3>2
  <2>2. CASE j > k
    <3>1. j - k \in 1..m /\ k + (j - k) = j
      BY <1>1, <2>2
    <3> QED BY <1>1, <1>2, <3>1
  <2> QED BY <1>1, <2>1, <2>2
<1>5. OnlyTailHasRoom'
  BY <1>3, <1>4 DEF OnlyTailHasRoom
<1>6. HeldHasTokens'
  <2> SUFFICES ASSUME NEW s \in Requests, NEW i \in 1..Len(req_blocks'[s])
               PROVE  free_slots'[req_blocks'[s][i]] < BlockSize
    BY DEF HeldHasTokens
  <2>1. s # q /\ req_blocks'[s] = req_blocks[s]
    BY <1>1
  <2>2. i \in 1..Len(req_blocks[s]) /\ free_slots[req_blocks[s][i]] < BlockSize
    BY <2>1, Apart
  <2> QED BY <1>2, <2>1, <2>2
<1>7. CallFits'
  <2>1. call' = call /\ call.need = 0 /\ call.need = BlocksFor(call.remaining)
    BY DEF Free, Idle, RoomInv, CallFits
  <2> QED BY <1>1, <2>1 DEF CallFits
<1> QED BY <1>5, <1>6, <1>7

LEMMA RoomStep == RoomInv /\ [Next]_vars => RoomInv'
<1> SUFFICES ASSUME RoomInv, [Next]_vars PROVE OnlyTailHasRoom' /\ HeldHasTokens' /\ CallFits'
  BY TypeStep, SharedStep DEF RoomInv
<1>1. ASSUME NEW r \in Requests, NEW n \in 1..MaxNewTokens, AllocateSlots(r, n)
      PROVE  OnlyTailHasRoom' /\ HeldHasTokens' /\ CallFits'
  BY <1>1, FillStep
<1>2. ASSUME NEW r \in Requests, NEW n \in 1..MaxNewTokens, RefuseSlots(r, n)
      PROVE  OnlyTailHasRoom' /\ HeldHasTokens' /\ CallFits'
  <2>1. /\ free_block_ids' = free_block_ids /\ req_blocks' = req_blocks
        /\ free_slots' = free_slots
        /\ call' = [req |-> r, remaining |-> 0, need |-> 0, result |-> "none"]
    BY <1>2 DEF RefuseSlots
  <2>2. OnlyTailHasRoom' /\ HeldHasTokens'
    BY <2>1 DEF RoomInv, OnlyTailHasRoom, HeldHasTokens
  <2>3. call'.need = 0 /\ call'.remaining = 0 /\ BlocksFor(0) = 0 /\ Len(free_block_ids) \in Nat
    BY <2>1, BlocksForFew, BlockSizeAssumption, Apart
  <2> QED BY <2>1, <2>2, <2>3 DEF CallFits
<1>3. CASE PopBlock
  BY <1>3, PopStep
<1>4. ASSUME NEW q \in Requests, Free(q)
      PROVE  OnlyTailHasRoom' /\ HeldHasTokens' /\ CallFits'
  BY <1>4, FreeStep
<1>5. CASE UNCHANGED vars
  BY <1>5 DEF vars, RoomInv, OnlyTailHasRoom, HeldHasTokens, CallFits, TailSlots
<1> QED BY <1>1, <1>2, <1>3, <1>4, <1>5 DEF Next

(* A request lays its tokens out without holes, and a block goes back to   *)
(* the stack empty: only the last block a request holds has room left.     *)
THEOREM NoHoles == Spec => []OnlyTailHasRoom
<1>1. RoomInv => OnlyTailHasRoom
  BY DEF RoomInv
<1> QED BY <1>1, RoomInit, RoomStep, PTL DEF Spec

-----------------------------------------------------------------------------
(* The refinement: a call takes effect in the abstract pool when it passes *)
(* the check, and the pops of its loop are stutters.                       *)

(* The blocks the loop pops are the ones the abstract pool counts. *)
LEMMA CallBlocks ==
  ASSUME NEW k \in Nat, NEW t \in Nat, t < BlockSize, k = 0 => t = 0,
         NEW n \in Nat, NEW take \in Nat,
         n < t => take = n, n >= t => take = t,
         NEW held \in Int, held = k * BlockSize - t
  PROVE  NewBlocks(held, n) = BlocksFor(n - take)
<1>1. CASE n >= t
  <2>1. n - t \in Nat
    BY <1>1
  <2>2. BlocksFor(n - t) \in Nat
    BY <2>1, BlocksForBounds
  <2>3. /\ BlocksFor(k * BlockSize - t) = k
        /\ BlocksFor(k * BlockSize - t + n) = k + BlocksFor(n - t)
    BY <1>1, NewBlocksBehindTail
  <2>4. k + BlocksFor(n - t) - k = BlocksFor(n - t)
    BY <2>2
  <2>5. BlocksFor(held) = k /\ BlocksFor(held + n) = k + BlocksFor(n - t)
    BY <2>3
  <2>6. NewBlocks(held, n) = k + BlocksFor(n - t) - k
    BY <2>5, <2>2 DEF NewBlocks
  <2>7. take = t
    BY <1>1
  <2> QED BY <2>4, <2>6, <2>7
<1>2. CASE n < t
  <2>1. t - n \in Nat /\ t - n < BlockSize /\ k # 0 /\ n - take = 0 /\ 0 >= 0 /\ t >= t
    BY <1>2, BlockSizeAssumption
  <2> DEFINE u == t - n
  <2>2. BlocksFor(k * BlockSize - t) = k
    BY NewBlocksBehindTail, <2>1
  <2>3. BlocksFor(k * BlockSize - u) = k
    <3>1. u \in Nat /\ u < BlockSize /\ (k = 0 => u = 0) /\ u >= u
      BY <2>1
    <3> HIDE DEF u
    <3> QED BY <3>1, NewBlocksBehindTail
  <2>4. k * BlockSize - u = k * BlockSize - t + n
    <3> DEFINE c == k * BlockSize
    <3>1. c \in Int
      BY BlockSizeAssumption
    <3> HIDE DEF c
    <3>2. c - (t - n) = c - t + n
      BY <3>1
    <3> QED BY <3>2 DEF c
  <2>5. BlocksFor(0) = 0
    BY BlocksForFew, BlockSizeAssumption
  <2>6. BlocksFor(held) = k /\ BlocksFor(held + n) = k
    BY <2>2, <2>3, <2>4
  <2> HIDE DEF u
  <2> QED BY <2>1, <2>5, <2>6 DEF NewBlocks
<1> QED BY <1>1, <1>2

(* The abstract counterpart of each step, on the mapped variables. *)
MappedSlots == [r \in Requests |-> PromisedSlots(r)]

LEMMA AllocateMaps ==
  ASSUME RoomInv, NEW r \in Requests, NEW n \in 1..MaxNewTokens, AllocateSlots(r, n)
  PROVE  Pool!PoolAllocate(r, n)
<1>1. PICK take \in Nat :
         /\ take <= TailSlots(r)
         /\ n - take \in Nat
         /\ n < TailSlots(r) => take = n
         /\ n >= TailSlots(r) => take = TailSlots(r)
         /\ call' = [req |-> r, remaining |-> n - take,
                     need |-> BlocksFor(n - take), result |-> "blocks"]
         /\ \A b \in Blocks :
               \/ free_slots'[b] = free_slots[b]
               \/ /\ Len(req_blocks[r]) # 0
                  /\ b = Last(req_blocks[r])
                  /\ free_slots'[b] = TailSlots(r) - take
         /\ Len(req_blocks[r]) # 0 =>
               free_slots'[Last(req_blocks[r])] = TailSlots(r) - take
  BY FillEffect
<1>2. /\ TailSlots(r)' = TailSlots(r) - take
      /\ \A s \in Requests \ {r} : TailSlots(s)' = TailSlots(s)
  BY <1>1, FillTails
<1>3. Idle /\ free_block_ids' = free_block_ids /\ req_blocks' = req_blocks
  BY DEF AllocateSlots
<1>4. \A s \in Requests :
         /\ call.remaining = 0
         /\ PromisedSlots(s) = Len(req_blocks[s]) * BlockSize - TailSlots(s)
         /\ PromisedSlots(s) \in Nat
         /\ UnpromisedBlocks = Len(free_block_ids)
  BY <1>3, PromiseFacts
<1>5. n \in Nat \ {0} /\ BlockSize \in Nat \ {0} /\ Len(free_block_ids) \in Nat
  BY ManagerAssumption, BlockSizeAssumption, Apart
<1>6. /\ call'.req = r /\ call'.remaining = n - take
      /\ call'.need = BlocksFor(n - take)
  BY <1>1
<1>7. PromisedSlots(r)' = PromisedSlots(r) + n
  <2> DEFINE c == Len(req_blocks[r]) * BlockSize
             t == TailSlots(r)
  <2>1. c \in Int /\ t \in Nat
    BY <1>5, TailFacts
  <2>2. PromisedSlots(r)' = c - (t - take) + (n - take)
    BY <1>2, <1>3, <1>6 DEF PromisedSlots
  <2>3. PromisedSlots(r) = c - t
    BY <1>4
  <2> HIDE DEF c, t
  <2> QED BY <1>5, <2>1, <2>2, <2>3
<1>8. ASSUME NEW s \in Requests \ {r} PROVE PromisedSlots(s)' = PromisedSlots(s)
  <2> DEFINE c == Len(req_blocks[s]) * BlockSize
             t == TailSlots(s)
  <2>1. c \in Int /\ t \in Nat
    BY <1>5, TailFacts
  <2>2. PromisedSlots(s)' = c - t + 0
    BY <1>2, <1>3, <1>6 DEF PromisedSlots
  <2>3. PromisedSlots(s) = c - t
    BY <1>4
  <2> HIDE DEF c, t
  <2> QED BY <2>1, <2>2, <2>3
<1>9. MappedSlots' = [MappedSlots EXCEPT ![r] = @ + n]
  BY <1>7, <1>8 DEF MappedSlots
<1>10. NewBlocks(MappedSlots[r], n) = BlocksFor(n - take)
  <2>1. MappedSlots[r] = Len(req_blocks[r]) * BlockSize - TailSlots(r)
    BY <1>4 DEF MappedSlots
  <2>2. /\ Len(req_blocks[r]) \in Nat /\ TailSlots(r) \in Nat /\ TailSlots(r) < BlockSize
        /\ (Len(req_blocks[r]) = 0 => TailSlots(r) = 0)
    BY TailFacts
  <2> DEFINE k == Len(req_blocks[r])
             t == TailSlots(r)
             held == MappedSlots[r]
  <2>3. /\ k \in Nat /\ t \in Nat /\ t < BlockSize /\ (k = 0 => t = 0)
        /\ held \in Int /\ held = k * BlockSize - t
        /\ n \in Nat /\ (n < t => take = n) /\ (n >= t => take = t)
    BY <1>1, <1>4, <1>5, <2>1, <2>2
  <2> HIDE DEF k, t, held
  <2>4. NewBlocks(held, n) = BlocksFor(n - take)
    BY <2>3, CallBlocks
  <2> QED BY <2>4 DEF held
<1>11. UnpromisedBlocks' = UnpromisedBlocks - NewBlocks(MappedSlots[r], n)
  BY <1>3, <1>4, <1>6, <1>10 DEF UnpromisedBlocks
<1>12. NewBlocks(MappedSlots[r], n) <= UnpromisedBlocks
  <2>1. CallFits'
    BY FillStep
  <2> QED BY <1>3, <1>4, <1>6, <1>10, <2>1 DEF CallFits
<1> QED BY <1>9, <1>11, <1>12 DEF Pool!PoolAllocate, Pool!NewBlocks, Pool!BlocksFor,
          NewBlocks, BlocksFor, MappedSlots

LEMMA FreeMaps ==
  ASSUME RoomInv, NEW q \in Requests, Free(q)
  PROVE  Pool!PoolFree(q)
<1>1. Idle /\ call' = call
  BY DEF Free
<1>2. \A s \in Requests :
         /\ call.remaining = 0
         /\ PromisedSlots(s) = Len(req_blocks[s]) * BlockSize - TailSlots(s)
         /\ PromisedSlots(s) \in Nat
         /\ BlocksFor(PromisedSlots(s)) = Len(req_blocks[s])
         /\ UnpromisedBlocks = Len(free_block_ids)
  BY <1>1, PromiseFacts
<1>3. /\ \A r \in Requests \ {q} : req_blocks'[r] = req_blocks[r]
      /\ Len(req_blocks'[q]) = 0
      /\ Len(free_block_ids) \in Nat /\ Len(req_blocks[q]) \in Nat
      /\ Len(free_block_ids') = Len(free_block_ids) + Len(req_blocks[q])
  BY FreeEffect DEF FreeMoves, RoomInv
<1>4. /\ TailSlots(q)' = 0
      /\ \A s \in Requests \ {q} : TailSlots(s)' = TailSlots(s)
  BY FreeTails
<1>5. PromisedSlots(q)' = 0
  BY <1>1, <1>2, <1>3, <1>4, BlockSizeAssumption DEF PromisedSlots
<1>6. ASSUME NEW s \in Requests \ {q} PROVE PromisedSlots(s)' = PromisedSlots(s)
  BY <1>1, <1>3, <1>4 DEF PromisedSlots
<1>7. MappedSlots' = [MappedSlots EXCEPT ![q] = 0]
  BY <1>5, <1>6 DEF MappedSlots
<1>8. UnpromisedBlocks' = UnpromisedBlocks + BlocksFor(MappedSlots[q])
  <2>1. MappedSlots[q] = PromisedSlots(q) /\ call.need = 0
    BY <1>1 DEF MappedSlots, Idle
  <2>2. UnpromisedBlocks' = Len(free_block_ids') - 0
    BY <1>1, <2>1 DEF UnpromisedBlocks
  <2>3. UnpromisedBlocks = Len(free_block_ids) /\ BlocksFor(MappedSlots[q]) = Len(req_blocks[q])
    BY <1>2, <2>1
  <2> QED BY <1>3, <2>2, <2>3
<1> QED BY <1>7, <1>8 DEF Pool!PoolFree, Pool!BlocksFor, BlocksFor, MappedSlots

LEMMA PopMaps ==
  ASSUME RoomInv, PopBlock
  PROVE  MappedSlots' = MappedSlots /\ UnpromisedBlocks' = UnpromisedBlocks
<1>1. PICK caller \in Requests, bid \in Blocks, take \in 1..BlockSize :
         PopFills(caller, bid, take)
  BY PopRoom
<1>2. /\ caller = call.req
      /\ Len(free_block_ids) \in Nat
      /\ Len(free_block_ids') = Len(free_block_ids) - 1
      /\ \A r \in Requests \ {caller} : req_blocks'[r] = req_blocks[r]
      /\ Len(req_blocks[caller]) \in Nat
      /\ Len(req_blocks'[caller]) = Len(req_blocks[caller]) + 1
      /\ TailSlots(caller) = 0
      /\ call.remaining \in Nat /\ call.need \in Nat
      /\ call' = [call EXCEPT !.remaining = call.remaining - take, !.need = call.need - 1]
  BY <1>1 DEF PopFills, PopMoves
<1>3. call'.req = caller /\ call'.remaining = call.remaining - take /\ call'.need = call.need - 1
  BY <1>2 DEF RoomInv, TypeOK, Calls
<1>4. /\ TailSlots(caller)' = BlockSize - take
      /\ \A s \in Requests \ {caller} : TailSlots(s)' = TailSlots(s)
  BY <1>1, PopTails
<1>5. BlockSize \in Nat \ {0} /\ take \in Nat
  BY BlockSizeAssumption
<1>6. PromisedSlots(caller)' = PromisedSlots(caller)
  <2> DEFINE c == Len(req_blocks[caller]) * BlockSize
  <2>1. c \in Int
    BY <1>2, <1>5
  <2>2. (Len(req_blocks[caller]) + 1) * BlockSize = c + BlockSize
    BY <1>2, <1>5
  <2>3. PromisedSlots(caller)' = c + BlockSize - (BlockSize - take) + (call.remaining - take)
    <3>1. PromisedSlots(caller)' = Len(req_blocks'[caller]) * BlockSize - TailSlots(caller)'
                + IF call'.req = caller THEN call'.remaining ELSE 0
      BY DEF PromisedSlots
    <3>2. Len(req_blocks'[caller]) * BlockSize = c + BlockSize
      BY <1>2, <2>2
    <3>3. (IF call'.req = caller THEN call'.remaining ELSE 0) = call.remaining - take
      BY <1>3
    <3> HIDE DEF c
    <3> QED BY <1>2, <1>4, <1>5, <2>1, <3>1, <3>2, <3>3
  <2>4. PromisedSlots(caller) = c - 0 + call.remaining
    BY <1>2 DEF PromisedSlots
  <2> HIDE DEF c
  <2> QED BY <1>2, <1>5, <2>1, <2>3, <2>4
<1>7. ASSUME NEW s \in Requests \ {caller} PROVE PromisedSlots(s)' = PromisedSlots(s)
  BY <1>2, <1>3, <1>4 DEF PromisedSlots
<1>8. MappedSlots' = MappedSlots
  BY <1>6, <1>7 DEF MappedSlots
<1>9. UnpromisedBlocks' = UnpromisedBlocks
  BY <1>2, <1>3 DEF UnpromisedBlocks
<1> QED BY <1>8, <1>9

LEMMA RefuseMaps ==
  ASSUME RoomInv, NEW r \in Requests, NEW n \in 1..MaxNewTokens, RefuseSlots(r, n)
  PROVE  /\ MappedSlots' = MappedSlots
         /\ UnpromisedBlocks' = UnpromisedBlocks
         /\ NewBlocks(PromisedSlots(r), n) > UnpromisedBlocks
<1>1. /\ Idle /\ ~ CanHold(r, n)
      /\ free_block_ids' = free_block_ids /\ req_blocks' = req_blocks
      /\ free_slots' = free_slots
      /\ call'.remaining = 0 /\ call'.need = 0
  BY DEF RefuseSlots
<1>2. \A s \in Requests :
         /\ call.remaining = 0
         /\ PromisedSlots(s) = Len(req_blocks[s]) * BlockSize - TailSlots(s)
         /\ PromisedSlots(s) \in Nat
         /\ UnpromisedBlocks = Len(free_block_ids)
  BY <1>1, PromiseFacts
<1>3. \A s \in Requests : PromisedSlots(s)' = PromisedSlots(s)
  BY <1>1, <1>2 DEF PromisedSlots, TailSlots
<1>4. UnpromisedBlocks' = UnpromisedBlocks
  BY <1>1 DEF UnpromisedBlocks, Idle
<1> DEFINE t == TailSlots(r)
           f == Len(free_block_ids)
           k == Len(req_blocks[r])
<1>5. /\ n \in Nat /\ BlockSize \in Nat \ {0} /\ f \in Nat
      /\ k \in Nat /\ t \in Nat /\ t < BlockSize /\ (k = 0 => t = 0)
  BY ManagerAssumption, BlockSizeAssumption, Apart, TailFacts
<1>6. n > f * BlockSize + t
  BY <1>1, <1>5 DEF CanHold
<1>7. n >= t /\ n - t \in Nat /\ n - t > f * BlockSize
  <2> DEFINE c == f * BlockSize
  <2>1. c \in Nat
    BY <1>5
  <2> HIDE DEF c, f, t
  <2>2. n > c + t
    BY <1>6 DEF c
  <2>3. n >= t /\ n - t \in Nat /\ n - t > c
    BY <1>5, <2>1, <2>2
  <2> QED BY <2>3 DEF c
<1> HIDE DEF t, f, k
<1>8. NewBlocks(k * BlockSize - t, n) = BlocksFor(n - t)
  <2>1. PICK x \in Nat, y \in Nat, z \in Nat :
           x = k /\ y = t /\ z = n /\ y < BlockSize /\ (x = 0 => y = 0) /\ z >= y
    BY <1>5, <1>7, Zenon
  <2>2. /\ BlocksFor(x * BlockSize - y) = x
        /\ BlocksFor(x * BlockSize - y + z) = x + BlocksFor(z - y)
    BY <2>1, NewBlocksBehindTail
  <2>3. PICK m \in Nat : m = BlocksFor(z - y)
    BY <1>7, <2>1, BlocksForBounds, Zenon
  <2>4. x + m - x = m
    OBVIOUS
  <2>5. NewBlocks(x * BlockSize - y, z) = x + m - x
    BY <2>2, <2>3 DEF NewBlocks
  <2> QED BY <2>1, <2>3, <2>4, <2>5, Zenon
<1>9. BlocksFor(n - t) > f
  <2> DEFINE m == BlocksFor(n - t)
  <2>1. m \in Nat /\ n - t <= BlockSize * m
    BY <1>7, BlocksForBounds
  <2> HIDE DEF m
  <2>2. SUFFICES ASSUME m <= f PROVE FALSE
    BY <1>5, <2>1 DEF m
  <2>3. BlockSize * m <= f * BlockSize
    BY <1>5, <2>1, <2>2
  <2> DEFINE c == f * BlockSize
             b == BlockSize * m
  <2>4. c \in Int /\ b \in Int
    BY <1>5, <2>1
  <2> HIDE DEF b, c
  <2> QED BY <1>7, <2>1, <2>3, <2>4 DEF b, c
<1>10. NewBlocks(PromisedSlots(r), n) > UnpromisedBlocks
  BY <1>2, <1>8, <1>9 DEF t, f, k
<1> QED BY <1>3, <1>4, <1>10 DEF MappedSlots

(* The manager does what the abstract pool promises: each call takes       *)
(* effect at once and whole, for exactly the slots asked for, however its  *)
(* blocks are found one by one.                                            *)
THEOREM ManagerIsAPool == Spec => ImplementsPool
<1>1. Init => Pool!PoolInit
  <2> SUFFICES ASSUME Init PROVE Pool!PoolInit
    OBVIOUS
  <2>1. \A r \in Requests : PromisedSlots(r) = 0
    BY BlockSizeAssumption DEF Init, PromisedSlots, TailSlots
  <2>2. UnpromisedBlocks = NumBlocks
    BY ManagerAssumption DEF Init, UnpromisedBlocks
  <2> QED BY <2>1, <2>2 DEF Pool!PoolInit
<1>2. RoomInv /\ [Next]_vars => [Pool!PoolNext]_(Pool!poolVars)
  <2> SUFFICES ASSUME RoomInv, [Next]_vars
               PROVE  Pool!PoolNext \/ UNCHANGED Pool!poolVars
    OBVIOUS
  <2>1. ASSUME NEW r \in Requests, NEW n \in 1..MaxNewTokens, AllocateSlots(r, n)
        PROVE  Pool!PoolNext
    BY <2>1, AllocateMaps DEF Pool!PoolNext
  <2>2. ASSUME NEW q \in Requests, Free(q)
        PROVE  Pool!PoolNext
    BY <2>2, FreeMaps DEF Pool!PoolNext
  <2>3. CASE MappedSlots' = MappedSlots /\ UnpromisedBlocks' = UnpromisedBlocks
    BY <2>3 DEF Pool!poolVars, MappedSlots
  <2>4. CASE UNCHANGED vars
    <3>1. MappedSlots' = MappedSlots /\ UnpromisedBlocks' = UnpromisedBlocks
      BY <2>4 DEF vars, MappedSlots, UnpromisedBlocks, PromisedSlots, TailSlots
    <3> QED BY <2>3, <3>1
  <2> QED BY <2>1, <2>2, <2>3, <2>4, PopMaps, RefuseMaps DEF Next
<1> QED BY <1>1, <1>2, RoomInit, RoomStep, PTL DEF Spec, ImplementsPool, Pool!PoolSpec

(* allocate_slots returns None only when the request's tokens take more    *)
(* blocks than nobody has been promised: never because of fragmentation.   *)
THEOREM RefusalIsJustified == Spec => RefusedOnlyWhenFull
<1>1. RoomInv /\ [Next]_vars =>
         [\A r \in Requests, n \in 1..MaxNewTokens :
             RefuseSlots(r, n) => NewBlocks(PromisedSlots(r), n) > UnpromisedBlocks]_vars
  BY RefuseMaps
<1> QED BY <1>1, RoomInit, RoomStep, PTL DEF Spec, RefusedOnlyWhenFull

=============================================================================
