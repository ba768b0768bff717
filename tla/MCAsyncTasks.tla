----------------------------- MODULE MCAsyncTasks -----------------------------
(***************************************************************************)
(* Instances of AsyncTasks: two workers, the fewest the program accepts, and *)
(* two predicted batches.                                                   *)
(***************************************************************************)
EXTENDS AsyncTasks

=============================================================================
