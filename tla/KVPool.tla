------------------------------- MODULE KVPool -------------------------------
(***************************************************************************)
(* What the KV-cache manager of serving_cast promises its callers: a pool  *)
(* of NumBlocks blocks, from which a request is given exactly the token    *)
(* slots it asked for, in whole blocks and reusing the tail of its last    *)
(* block, or nothing at all.  Which blocks a request gets is left out:     *)
(* that is what KVCacheManager adds, and KVCacheManager implements this.   *)
(***************************************************************************)
EXTENDS KVBlocks

CONSTANTS Requests,    (* requests that may hold slots                   *)
          NumBlocks,   (* blocks of the pool                             *)
          MaxNewTokens (* bound on the tokens of one allocate_slots call *)

VARIABLES slots,      (* token slots each request has been given *)
          free_blocks (* number of blocks nobody holds           *)

poolVars == <<slots, free_blocks>>

PoolInit == /\ slots = [r \in Requests |-> 0]
            /\ free_blocks = NumBlocks

(* The request is given n more slots. *)
PoolAllocate(r, n) ==
    /\ NewBlocks(slots[r], n) <= free_blocks
    /\ slots' = [slots EXCEPT ![r] = @ + n]
    /\ free_blocks' = free_blocks - NewBlocks(slots[r], n)

(* Everything the request holds goes back to the pool. *)
PoolFree(r) ==
    /\ slots' = [slots EXCEPT ![r] = 0]
    /\ free_blocks' = free_blocks + BlocksFor(slots[r])

PoolNext == \E r \in Requests :
                \/ \E n \in 1..MaxNewTokens : PoolAllocate(r, n)
                \/ PoolFree(r)

PoolSpec == PoolInit /\ [][PoolNext]_poolVars
=============================================================================
