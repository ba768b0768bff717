----------------------------- MODULE JobLifecycle -----------------------------
(***************************************************************************)
(* What the job service of the web UI promises about the status of a job:  *)
(* the moves models/enums.py allows, at most one job in flight for the     *)
(* same parameters, and a sweep at startup that leaves none in flight.     *)
(* Two moves are not in the table of enums.py and still happen, because    *)
(* JobRepository.update applies an illegal move after logging it; they are *)
(* an action of their own here, and there is no third.                     *)
(***************************************************************************)
EXTENDS FiniteSets

CONSTANTS Jobs,    (* identities of jobs                                    *)
          Submissions (* what the jobs may be asked to compute, for all jobs *)

VARIABLES status,  (* the status of each job's row, "absent" without a row   *)
          params   (* what each job is to compute; equal params, equal hash  *)

lifecycleVars == <<status, params>>

Active   == {"pending", "running"}
Terminal == {"succeeded", "failed", "cancelled", "interrupted"}
Statuses == Active \cup Terminal \cup {"absent"}

Allowed(from) ==
    CASE from = "pending" -> {"running", "cancelled", "interrupted"}
      [] from = "running" -> Terminal
      [] OTHER            -> {}

InFlight(j) == status[j] \in Active
SameParams(j, k) == params[j] = params[k]

LifecycleInit ==
    /\ status = [j \in Jobs |-> "absent"]
    /\ params \in Submissions

Create(j) ==
    /\ status[j] = "absent"
    /\ \A k \in Jobs : SameParams(j, k) => ~InFlight(k)
    /\ status' = [status EXCEPT ![j] = "pending"]

(* "interrupted" is written by the sweep only. *)
Transition(j) ==
    \E s \in Allowed(status[j]) \ {"interrupted"} : status' = [status EXCEPT ![j] = s]

(* A job is reported as failed because its writes took too long or raised: *)
(* one that has not been marked as running yet, or one whose end was       *)
(* recorded after all.                                                     *)
WriteTrouble(j) ==
    /\ status[j] \in {"pending", "succeeded", "cancelled"}
    /\ status' = [status EXCEPT ![j] = "failed"]

Sweep == status' = [j \in Jobs |-> IF InFlight(j) THEN "interrupted" ELSE status[j]]

LifecycleNext ==
    /\ Sweep \/ \E j \in Jobs : Create(j) \/ Transition(j) \/ WriteTrouble(j)
    /\ UNCHANGED params

LifecycleSpec == LifecycleInit /\ [][LifecycleNext]_lifecycleVars
=============================================================================
