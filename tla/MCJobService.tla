---------------------------- MODULE MCJobService ----------------------------
(***************************************************************************)
(* Instances of JobService: jobs of one or two cases.                      *)
(***************************************************************************)
EXTENDS JobService

CONSTANTS a, b, j1, j2

Each(S)  == [c \in Cases |-> IF c \in S THEN 1 ELSE 0]

(* Two equal submissions. *)
MCTwins == {(j1 :> Each({a})) @@ (j2 :> Each({a}))}

(* Also: the second has the case of the first twice. *)
MCSubmissions == MCTwins \cup {(j1 :> Each({a})) @@ (j2 :> [Each({a}) EXCEPT ![a] = 2])}

(* The first has the case of the second and one more. *)
MCPartial == {(j1 :> Each({a, b})) @@ (j2 :> Each({b}))}

MCWorkersAlike == Permutations(Workers)
=============================================================================
