-------------------------------- MODULE Sums --------------------------------
(***************************************************************************)
(* Sums over finite sets: what Python writes as sum(...) over a queue or   *)
(* a dict, or accumulates in a loop.                                       *)
(***************************************************************************)
EXTENDS FiniteSetsExt

(* The sum of f[x] for the elements x of S. *)
SumOn(f, S) == MapThenSumSet(LAMBDA x : f[x], S)
=============================================================================
