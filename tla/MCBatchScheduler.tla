-------------------------- MODULE MCBatchScheduler --------------------------
(***************************************************************************)
(* Instances of BatchScheduler for TLC: one engine, four requests of       *)
(* different lengths, of which the last ends with its prefill, a pool too  *)
(* small for all of them at once and a token budget that cuts prompts      *)
(* computed together, and those of recomputations.                         *)
(***************************************************************************)
EXTENDS BatchScheduler

MCRequests == 1..4
MCInput  == <<3, 2, 3, 2>>
MCOutput == <<3, 4, 2, 1>>

(* Requests of one length, as FixedLengthLoadGen makes them. *)
MCThree       == 1..3
MCFixedInput  == <<4, 4, 4>>
MCFixedOutput == <<4, 4, 4>>

MCBlocks == [e \in Engines |-> 4]
=============================================================================
