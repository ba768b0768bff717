-------------------------- MODULE MCKVCacheManager --------------------------
(***************************************************************************)
(* Instance of KVCacheManager for TLC.  Four blocks of two slots and       *)
(* three requests: a request can hold several blocks, a call can fill a    *)
(* tail and pop two blocks, and the pool can be exhausted.                 *)
(***************************************************************************)
EXTENDS KVCacheManager

CONSTANTS r1, r2, r3

MCRequests == {r1, r2, r3}
=============================================================================
