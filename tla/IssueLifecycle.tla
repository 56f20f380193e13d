--------------------------- MODULE IssueLifecycle ---------------------------
(***************************************************************************)
(* What the scheduler promises about the life of an issue, without queues, *)
(* timers or worker tasks: every issue holds one of four leases, at most   *)
(* `capacity` issues are handed to workers at a time, and a run that nobody*)
(* asked to stop is always followed by another attempt.                    *)
(***************************************************************************)
EXTENDS Integers, FiniteSets

CONSTANT Issue

VARIABLES
    lease,      \* "free", "running", "stopping" or "backoff"
    capacity    \* max_concurrent_agents of the current configuration

leaseVars == <<lease, capacity>>

Lease == {"free", "running", "stopping", "backoff"}

Busy == {i \in Issue : lease[i] \in {"running", "stopping"}}

LeaseInit ==
    /\ lease = [i \in Issue |-> "free"]
    /\ capacity \in Nat \ {0}

(* An issue is given to a new worker, from the tracker or from a retry. *)
Acquire(i) ==
    /\ lease[i] \in {"free", "backoff"}
    /\ Cardinality(Busy) < capacity
    /\ lease' = [lease EXCEPT ![i] = "running"]
    /\ UNCHANGED capacity

(* One reconciliation may ask several runs to stop. *)
AskToStop ==
    /\ \E S \in SUBSET {i \in Issue : lease[i] = "running"} :
         lease' = [i \in Issue |-> IF i \in S THEN "stopping" ELSE lease[i]]
    /\ UNCHANGED capacity

(* The run is over and another attempt is due. *)
Requeue(i) ==
    /\ lease[i] \in {"running", "stopping"}
    /\ lease' = [lease EXCEPT ![i] = "backoff"]
    /\ UNCHANGED capacity

(* The issue is no longer the scheduler's business. *)
Release(i) ==
    /\ lease[i] \in {"stopping", "backoff"}
    /\ lease' = [lease EXCEPT ![i] = "free"]
    /\ UNCHANGED capacity

Resize ==
    /\ capacity' \in Nat \ {0}
    /\ UNCHANGED lease

(* A new process knows of no issue. *)
Reset ==
    /\ lease' = [i \in Issue |-> "free"]
    /\ capacity' \in Nat \ {0}

LeaseNext ==
    \/ \E i \in Issue : Acquire(i) \/ Requeue(i) \/ Release(i)
    \/ AskToStop
    \/ Resize
    \/ Reset

LeaseSpec == LeaseInit /\ [][LeaseNext]_leaseVars
=============================================================================
