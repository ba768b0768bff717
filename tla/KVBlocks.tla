------------------------------ MODULE KVBlocks ------------------------------
(***************************************************************************)
(* Arithmetic of a KV cache that is handed out in whole blocks: how many   *)
(* blocks a number of token slots takes.  Shared by the allocator, by the  *)
(* abstract pool it implements and by the batch scheduler.                 *)
(***************************************************************************)
EXTENDS Integers

CONSTANT BlockSize (* token slots of a block *)

ASSUME BlockSizeAssumption == BlockSize \in Nat \ {0}

(* Blocks that n slots occupy. *)
BlocksFor(n) == (n + BlockSize - 1) \div BlockSize

(* Blocks that a request holding `held` slots needs on top of those it has *)
(* to be given n more slots.                                               *)
NewBlocks(held, n) == BlocksFor(held + n) - BlocksFor(held)
=============================================================================
