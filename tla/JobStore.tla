------------------------------- MODULE JobStore -------------------------------
(***************************************************************************)
(* The tables jobs and result_records of the web UI, and what the          *)
(* repositories of services/repositories.py do to them.  Each operator is  *)
(* one transaction.  The parameters of a job are the cases they expand to, *)
(* with how often each occurs: a value listed twice is a case repeated.    *)
(* Two jobs have the same params_hash when these are equal, and a case has *)
(* one case_hash in all jobs (all jobs are of one module).                 *)
(***************************************************************************)
EXTENDS Integers, SequencesExt, JobLifecycle

CONSTANT Cases      (* cases the parameters of jobs expand to              *)

ASSUME StoreAssumption ==
    /\ Submissions \subseteq [Jobs -> [Cases -> Nat]]
    /\ \A p \in Submissions : \A j \in Jobs : \E c \in Cases : p[j][c] > 0

VARIABLES records,  (* of each job, how many records it has of each case   *)
          completed (* jobs in the order in which they have succeeded      *)

store == <<status, params, records, completed>>

CasesOf(j) == {c \in Cases : params[j][c] > 0}

(* The records with one case_hash: results, and errors in their place. *)
Counts  == [failed : Nat, good : Nat]
Nothing == [failed |-> 0, good |-> 0]
Blank   == [c \in Cases |-> Nothing]

Plus(m, n)  == [failed |-> m.failed + n.failed, good |-> m.good + n.good]
Times(k, n) == [failed |-> k * n.failed, good |-> k * n.good]

StoreInit ==
    /\ LifecycleInit
    /\ records = [j \in Jobs |-> Blank]
    /\ completed = <<>>

Succeeded == {j \in Jobs : status[j] = "succeeded"}

(* The most recently completed of some succeeded jobs. *)
MostRecent(S) == completed[Max({i \in DOMAIN completed : completed[i] \in S})]

(* find_succeeded_by_params_hash and find_inflight_by_params_hash. *)
SucceededLike(j) == {k \in Succeeded : SameParams(j, k)}
InFlightLike(j)  == {k \in Jobs : InFlight(k) /\ SameParams(j, k)}

CountInFlight == Cardinality({j \in Jobs : InFlight(j)})

(* succeeded_case_hashes_for_module: it is the job that has succeeded. *)
CachedCases == {c \in Cases : \E j \in Succeeded : records[j][c] # Nothing}

(* get_succeeded_records_by_case_hash, of the most recent such job. *)
CachedRecords(c) ==
    LET sources == {j \in Succeeded : records[j][c] # Nothing}
    IN  IF sources = {} THEN Nothing ELSE records[MostRecent(sources)][c]

(* A slip: the table has no unique index. *)
InsertJobUnchecked(j) ==
    /\ status' = [status EXCEPT ![j] = "pending"]
    /\ UNCHANGED <<params, records, completed>>

(* JobRepository.add: the unique index refuses a second row in flight. *)
InsertJob(j) ==
    /\ InFlightLike(j) = {}
    /\ status' = [status EXCEPT ![j] = "pending"]
    /\ UNCHANGED <<params, records, completed>>

(* JobRepository.update with a status. *)
SetStatus(j, s) ==
    /\ status' = [status EXCEPT ![j] = s]
    /\ completed' = IF s = "succeeded" THEN Append(completed, j) ELSE completed
    /\ UNCHANGED <<params, records>>

(* ResultRepository.add_many and clone_records: each record is a new row. *)
AddRecords(j, rows) ==
    /\ records' = [records EXCEPT ![j] = [c \in Cases |-> Plus(@[c], rows[c])]]
    /\ UNCHANGED <<status, params, completed>>

(* A slip: jobs that were still waiting are not swept. *)
SweepRunningOnly ==
    /\ status' = [j \in Jobs |-> IF status[j] = "running" THEN "interrupted" ELSE status[j]]
    /\ UNCHANGED <<params, records, completed>>

(* A slip: every job without a result is swept. *)
SweepUnsuccessful ==
    /\ status' = [j \in Jobs |-> IF status[j] \in {"absent", "succeeded"} THEN status[j]
                                 ELSE "interrupted"]
    /\ UNCHANGED <<params, records, completed>>

(* sweep_interrupted. *)
SweepInterrupted == Sweep /\ UNCHANGED <<params, records, completed>>
=============================================================================
