---------------------------- MODULE WorkloadCache ----------------------------
(***************************************************************************)
(* serving_cast/service/workload_cache.py, class WorkloadCache: the cache  *)
(* of model templates and captured workloads that the worker processes of  *)
(* a multi-device search share.  Templates and workloads have one budget   *)
(* of entries and bytes and one least-recently-used order.  A workload     *)
(* that is not stored is captured by one worker at a time: the worker that *)
(* claims the key gets a lease, others wait, and a lease that has become   *)
(* too old is taken away by whoever looks at it next.                      *)
(*                                                                         *)
(* Every method runs under the condition's lock, so it is one step.  Keys  *)
(* are abstract, an entry is known by its size.  A worker holds at most    *)
(* one lease and forgets its token when the capture ends, so the worker    *)
(* stands for its token.  Of a lease's age it only matters whether it has  *)
(* reached the timeout: stale.  The counters of the summary are left out.  *)
(***************************************************************************)
EXTENDS Integers, SequencesExt, Sums

CONSTANTS Workers,    (* worker processes                              *)
          NoOne,      (* not a worker                                  *)
          Models,     (* model keys                                    *)
          Workloads,  (* workload keys                                 *)
          Size,       (* bytes of each entry once serialised           *)
          MaxEntries, (* max_entries                                   *)
          MaxBytes    (* max_bytes                                     *)

Template(m) == <<"template", m>>
Workload(k) == <<"workload", k>>
Entries == {Template(m) : m \in Models} \cup {Workload(k) : k \in Workloads}

ASSUME CacheAssumption ==
    /\ NoOne \notin Workers
    /\ Models # {}
    /\ Size \in [Entries -> Nat]
    /\ MaxEntries \in Nat \ {0}
    /\ MaxBytes \in Nat

VARIABLES stored,        (* entries in _templates and _workloads            *)
          lru,           (* _lru, least recently used first                 *)
          current_bytes, (* _current_bytes                                  *)
          inflight,      (* who holds the lease of each workload            *)
          stale          (* workloads whose lease has reached the timeout   *)

entryVars == <<stored, lru, current_bytes>>
leaseVars == <<inflight, stale>>
cacheVars == <<stored, lru, current_bytes, inflight, stale>>

-----------------------------------------------------------------------------
(* Entries.                                                                *)

Bytes(S) == SumOn(Size, S)

(* A slip: the old position stays in the order. *)
TouchedTwice(e) == Append(lru, e)

(* The order after a use of e. *)
Touched(e) == Append(RemoveFirst(lru, e), e)

(* A slip: a full cache counts as overfull. *)
OverfullWhenFull(entries, bytes) == entries >= MaxEntries \/ bytes > MaxBytes

Overfull(entries, bytes) == entries > MaxEntries \/ bytes > MaxBytes

Oldest(order, n) == ToSet(SubSeq(order, 1, n))

(* How many of the oldest entries go so that the rest fits. *)
Surplus(order, bytes) ==
    CHOOSE n \in 0..Len(order) :
        /\ ~ Overfull(Len(order) - n, bytes - Bytes(Oldest(order, n)))
        /\ \A i \in 0..n-1 : Overfull(Len(order) - i, bytes - Bytes(Oldest(order, i)))

Use(e) ==
    /\ lru' = IF e \in stored THEN Touched(e) ELSE lru
    /\ UNCHANGED <<stored, current_bytes>>

(* A slip: a new entry is not counted. *)
BytesWithout(e) == current_bytes

BytesWith(e) == current_bytes + Size[e]

(* A new entry comes in and old ones make room for it.  A previous entry   *)
(* of the same key would be replaced (_store_workload_locked); but while a *)
(* workload is leased it is not stored, and set_workload, which stores     *)
(* without a lease, is a helper of tests.                                  *)
Store(e) ==
    LET n    == Surplus(Touched(e), BytesWith(e))
        gone == Oldest(Touched(e), n)
    IN  /\ stored' = (stored \cup {e}) \ gone
        /\ lru' = SubSeq(Touched(e), n + 1, Len(Touched(e)))
        /\ current_bytes' = BytesWith(e) - Bytes(gone)

GetTemplate(m) == Use(Template(m)) /\ UNCHANGED leaseVars

SetTemplate(m) ==
    /\ IF Template(m) \in stored \/ Size[Template(m)] > MaxBytes THEN Use(Template(m))
       ELSE Store(Template(m))
    /\ UNCHANGED leaseVars

-----------------------------------------------------------------------------
(* Leases.                                                                 *)

(* Nobody holds a lease of k that still counts. *)
Unclaimed(k) == inflight[k] = NoOne \/ k \in stale

ClaimHit(k) ==
    /\ Workload(k) \in stored
    /\ Use(Workload(k))
    /\ UNCHANGED leaseVars

ClaimWait(k) ==
    /\ Workload(k) \notin stored
    /\ ~ Unclaimed(k)
    /\ UNCHANGED cacheVars

ClaimOwner(w, k) ==
    /\ Workload(k) \notin stored
    /\ Unclaimed(k)
    /\ inflight' = [inflight EXCEPT ![k] = w]
    /\ stale' = stale \ {k}
    /\ UNCHANGED entryVars

(* A slip: a waiter does not look at the age of the lease. *)
WaitOverWhenReleased(k) == inflight[k] = NoOne

(* The loop of wait_workload ends. *)
WaitOver(k) == Unclaimed(k)

Release(k) ==
    /\ inflight' = [inflight EXCEPT ![k] = NoOne]
    /\ stale' = stale \ {k}

(* wait_workload returns: what it returns is whether k is stored. *)
WaitWorkload(k) ==
    /\ WaitOver(k)
    /\ Use(Workload(k))
    /\ Release(k)

(* A slip: any worker's call counts as the owner's. *)
AnyoneOwns(w, k) == TRUE

Owns(w, k) == inflight[k] = w

PublishWorkload(w, k) ==
    IF ~ Owns(w, k) THEN UNCHANGED cacheVars
    ELSE /\ IF Size[Workload(k)] > MaxBytes THEN UNCHANGED entryVars ELSE Store(Workload(k))
         /\ Release(k)

(* A slip: the lease is left to its timeout. *)
AbandonNothing(w, k) == UNCHANGED cacheVars

AbandonWorkload(w, k) ==
    /\ IF Owns(w, k) THEN Release(k) ELSE UNCHANGED leaseVars
    /\ UNCHANGED entryVars

(* Time passes and the lease of k reaches the timeout. *)
LeaseAges(k) ==
    /\ inflight[k] # NoOne
    /\ k \notin stale
    /\ stale' = stale \cup {k}
    /\ UNCHANGED <<stored, lru, current_bytes, inflight>>

-----------------------------------------------------------------------------

CacheInit ==
    /\ stored = {}
    /\ lru = <<>>
    /\ current_bytes = 0
    /\ inflight = [k \in Workloads |-> NoOne]
    /\ stale = {}

EntryTypeOK ==
    /\ stored \in SUBSET Entries
    /\ lru \in Seq(Entries)
    /\ current_bytes \in Nat

LeaseTypeOK ==
    /\ inflight \in [Workloads -> Workers \cup {NoOne}]
    /\ stale \in SUBSET Workloads

(* The order, the dicts and the byte count describe the same entries, each *)
(* once, and they respect both limits after every call.                    *)
CacheAccounts ==
    /\ ToSet(lru) = stored
    /\ IsInjective(lru)
    /\ current_bytes = Bytes(stored)
    /\ Len(lru) <= MaxEntries
    /\ current_bytes <= MaxBytes
=============================================================================
