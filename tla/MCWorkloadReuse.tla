--------------------------- MODULE MCWorkloadReuse ---------------------------
(***************************************************************************)
(* Instances of WorkloadReuse for TLC: a prefill and a decode pool of one  *)
(* worker each, two models, three workloads, and two hardware profiles     *)
(* that ask for the same things.                                           *)
(***************************************************************************)
EXTENDS WorkloadReuse

CONSTANTS a, b, m1, m2, k1, k2, k3

MCPoolOf == [w \in Workers |-> IF w = a THEN "prefill" ELSE "decode"]

(* Templates weigh 1; k1 and k2 weigh 2; k3 is larger than the cache. *)
MCSize == [e \in Entries |-> CASE e[1] = "template" -> 1
                               [] e[2] = k3         -> 5
                               [] OTHER             -> 2]

Task(m, keys) == [model |-> m, keys |-> keys]

(* Pools that meet on the same models and workloads. *)
MCTasks == [p \in Pools |-> IF p = "decode" THEN << Task(m1, <<k1, k2>>) >>
                            ELSE << Task(m1, <<k1, k3>>), Task(m2, <<k2>>) >>]
MCRounds == << MCTasks, MCTasks >>
=============================================================================
