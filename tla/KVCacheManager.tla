--------------------------- MODULE KVCacheManager ---------------------------
(***************************************************************************)
(* serving_cast/kv_cache_manager.py: the slot allocator of one engine.     *)
(*                                                                         *)
(* Blocks are their ids.  free_block_ids is used as a stack (pop() takes   *)
(* the last id, free() appends), req_blocks keeps for each request the ids *)
(* it holds in the order it got them, and free_slots counts the slots left *)
(* in each block.  A request without an entry in the Python dict and one   *)
(* whose list is empty behave alike, so req_blocks is total here.          *)
(*                                                                         *)
(* allocate_slots is modelled step by step: first the check and the fill   *)
(* of the tail block, then one step per block popped, with the locals of   *)
(* the call in `call`.  The manager has one caller, so no other call       *)
(* starts before the loop of the current one has ended.                    *)
(***************************************************************************)
EXTENDS KVBlocks, SequencesExt

CONSTANTS Requests,    (* requests that may hold slots                   *)
          NumBlocks,   (* blocks of the pool                             *)
          MaxNewTokens (* bound on the tokens of one allocate_slots call *)

ASSUME ManagerAssumption ==
    /\ NumBlocks \in Nat
    /\ MaxNewTokens \in Nat

VARIABLES free_block_ids, (* stack of the ids nobody holds               *)
          req_blocks,     (* ids each request holds, oldest first        *)
          free_slots,     (* slots left in each block                    *)
          call            (* locals of the allocate_slots call under way *)

vars == <<free_block_ids, req_blocks, free_slots, call>>

Blocks == 0 .. NumBlocks - 1

(* need is the number of blocks the loop still has to pop: 0 when no call  *)
(* is under way.  result is what the last call returned: a list of new     *)
(* blocks, or None.                                                        *)
Calls == [req : Requests, remaining : Nat, need : Nat, result : {"blocks", "none"}]

Idle == call.need = 0

Min2(a, b) == IF a < b THEN a ELSE b

(* A slip: the tail block is never filled up. *)
TailSlotsUnused(r) == 0

(* A slip: the tail block is taken to be empty. *)
TailSlotsStale(r) == IF req_blocks[r] = <<>> THEN 0 ELSE BlockSize

(* Slots left in the last block a request holds. *)
TailSlots(r) == IF req_blocks[r] = <<>> THEN 0 ELSE free_slots[Last(req_blocks[r])]

(* A slip: the check ignores the tail block. *)
CanHoldInNewBlocks(r, n) == n <= Len(free_block_ids) * BlockSize

(* The pool and the request's tail block together have n slots. *)
CanHold(r, n) == n <= Len(free_block_ids) * BlockSize + TailSlots(r)

(* A slip: the block is read but not taken off the stack. *)
StackNotPopped == free_block_ids

StackPopped == Front(free_block_ids)

(* A slip: the first block of the request is forgotten. *)
StackWithoutFirst(r) == free_block_ids \o SubSeq(req_blocks[r], 2, Len(req_blocks[r]))

(* The blocks of the request pushed back in the order it got them. *)
StackWith(r) == free_block_ids \o req_blocks[r]

(* A slip: the blocks given back stay filled. *)
StillFilled(r) == free_slots

(* Slots left once the blocks of the request are emptied. *)
Emptied(r) ==
    [b \in Blocks |-> IF \E i \in 1..Len(req_blocks[r]) : req_blocks[r][i] = b
                      THEN BlockSize ELSE free_slots[b]]

-----------------------------------------------------------------------------

Init ==
    /\ free_block_ids = [i \in 1..NumBlocks |-> i - 1]
    /\ req_blocks = [r \in Requests |-> <<>>]
    /\ free_slots = [b \in Blocks |-> BlockSize]
    /\ call \in [req : Requests, remaining : {0}, need : {0}, result : {"blocks"}]

(* allocate_slots up to its loop: the pool holds the tokens asked for, the *)
(* tail block takes what it can.                                           *)
AllocateSlots(r, n) ==
    /\ Idle
    /\ CanHold(r, n)
    /\ LET take == Min2(n, TailSlots(r))
       IN  /\ free_slots' = IF req_blocks[r] = <<>> THEN free_slots
                            ELSE [free_slots EXCEPT ![Last(req_blocks[r])] = @ - take]
           /\ call' = [req |-> r, remaining |-> n - take,
                       need |-> BlocksFor(n - take), result |-> "blocks"]
    /\ UNCHANGED <<free_block_ids, req_blocks>>

(* allocate_slots returns None and has changed nothing. *)
RefuseSlots(r, n) ==
    /\ Idle
    /\ ~ CanHold(r, n)
    /\ call' = [req |-> r, remaining |-> 0, need |-> 0, result |-> "none"]
    /\ UNCHANGED <<free_block_ids, req_blocks, free_slots>>

(* One iteration of the loop that pops blocks. *)
PopBlock ==
    /\ call.need > 0
    /\ free_block_ids # <<>>
    /\ LET bid  == Last(free_block_ids)
           take == Min2(call.remaining, free_slots[bid])
       IN  /\ free_block_ids' = StackPopped
           /\ free_slots' = [free_slots EXCEPT ![bid] = @ - take]
           /\ req_blocks' = [req_blocks EXCEPT ![call.req] = Append(@, bid)]
           /\ call' = [call EXCEPT !.remaining = @ - take, !.need = @ - 1]

(* free: every block of the request is emptied and pushed back, in order. *)
Free(r) ==
    /\ Idle
    /\ free_slots' = Emptied(r)
    /\ free_block_ids' = StackWith(r)
    /\ req_blocks' = [req_blocks EXCEPT ![r] = <<>>]
    /\ UNCHANGED call

Next ==
    \/ \E r \in Requests, n \in 1..MaxNewTokens : AllocateSlots(r, n)
    \/ \E r \in Requests, n \in 1..MaxNewTokens : RefuseSlots(r, n)
    \/ PopBlock
    \/ \E r \in Requests : Free(r)

Spec == Init /\ [][Next]_vars

-----------------------------------------------------------------------------

TypeOK ==
    /\ free_block_ids \in Seq(Blocks)
    /\ req_blocks \in [Requests -> Seq(Blocks)]
    /\ free_slots \in [Blocks -> 0..BlockSize]
    /\ call \in Calls

Held(r, b) == \E i \in 1..Len(req_blocks[r]) : req_blocks[r][i] = b
IsFree(b) == \E i \in 1..Len(free_block_ids) : free_block_ids[i] = b

(* No block is lost: every block of the pool is on the free stack or held  *)
(* by some request, also between two pops of one allocation.               *)
NoBlockLost == \A b \in Blocks : IsFree(b) \/ \E r \in Requests : Held(r, b)

(* No block is given out twice: no id is twice on the stack, or on the     *)
(* stack and held, or held by two requests or twice by one.                *)
NoBlockShared ==
    /\ \A i, j \in 1..Len(free_block_ids) : free_block_ids[i] = free_block_ids[j] => i = j
    /\ \A r \in Requests : \A i \in 1..Len(req_blocks[r]) : ~ IsFree(req_blocks[r][i])
    /\ \A r, s \in Requests : \A i \in 1..Len(req_blocks[r]) : \A j \in 1..Len(req_blocks[s]) :
          req_blocks[r][i] = req_blocks[s][j] => r = s /\ i = j

(* Only the last block a request holds may have room left: tokens are laid *)
(* out without holes, and a block on the stack is always empty.            *)
OnlyTailHasRoom ==
    /\ \A r \in Requests : \A i \in 1..Len(req_blocks[r]) - 1 :
          free_slots[req_blocks[r][i]] = 0
    /\ \A i \in 1..Len(free_block_ids) : free_slots[free_block_ids[i]] = BlockSize

(* Slots a request has been given, the ones its running call has already   *)
(* been promised included, and blocks not promised to anyone.              *)
PromisedSlots(r) ==
    Len(req_blocks[r]) * BlockSize - TailSlots(r)
        + IF call.req = r THEN call.remaining ELSE 0
UnpromisedBlocks == Len(free_block_ids) - call.need

Pool == INSTANCE KVPool WITH
            slots <- [r \in Requests |-> PromisedSlots(r)],
            free_blocks <- UnpromisedBlocks

(* The manager implements the abstract pool: each call takes effect at     *)
(* once and whole, for exactly the slots asked for.                        *)
ImplementsPool == Pool!PoolSpec

(* allocate_slots answers None only when the pool really cannot hold the   *)
(* request's tokens: a refusal is never an artefact of fragmentation.      *)
RefusedOnlyWhenFull ==
    [][\A r \in Requests, n \in 1..MaxNewTokens :
          RefuseSlots(r, n) => NewBlocks(PromisedSlots(r), n) > UnpromisedBlocks]_vars
=============================================================================
