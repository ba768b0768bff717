------------------------------ MODULE MCServing ------------------------------
(***************************************************************************)
(* Instances of Serving for TLC: prefill engines p1 and p2, each an        *)
(* instance, and decode engines d1 and d2, together one.                   *)
(***************************************************************************)
EXTENDS Serving

CONSTANTS p1, p2, d1, d2

(* The prompts of requests 2 and 3 fill whole blocks, the one of 1 does    *)
(* not; the budget of 4 tokens cuts prompts that are batched together.     *)
(* Request 4 fits the prefill but no decode engine, 5 neither; request 6   *)
(* is over with its prefill, before any hand-over.                         *)
MCRequests == 1..6
MCInput  == <<3, 4, 2, 2, 4, 3>>
MCOutput == <<3, 3, 2, 13, 17, 1>>
MCLoads  == {<<1, 2, 3>>, <<3, 6, 1>>, <<2, 4, 1>>, <<3, 1, 5>>}

(* Requests of one length, as FixedLengthLoadGen makes them. *)
MCThree       == 1..3
MCThreeLoads  == {<<1, 2, 3>>}
MCFixedInput  == <<4, 4, 4>>
MCFixedOutput == <<5, 5, 5>>

MCPrefill == << <<p1>> >>
MCTwoPrefills == << <<p1>>, <<p2>> >>
MCDecode == << <<d1>> >>
MCTwoEngines == << <<d1, d2>> >>

MCFivePools  == [e \in Engines |-> 5]
MCLargePools == [e \in Engines |-> IF e \in {p1, p2} THEN 10 ELSE 7]

(* The instance with large pools is one of those that sequences without    *)
(* preemption and without decode windows are proved for.                   *)
ASSUME LargePoolsAreAmple == NumBlocks = MCLargePools => DecodeQueryLen = 1 /\ AmplePools
=============================================================================
