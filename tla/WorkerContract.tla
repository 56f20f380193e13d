---------------------------- MODULE WorkerContract ----------------------------
(***************************************************************************)
(* What the scheduler relies on in a worker, without sessions, messages or *)
(* hooks: the worker decides its outcome once, a token that was set counts *)
(* from then on until the decision, and the outcome that was decided is    *)
(* the one that is reported; or its task dies before, and reports nothing. *)
(* Orchestrator has the same worker in WorkerFinishes and WorkerPanics.    *)
(***************************************************************************)

CONSTANTS
    Outcome,    \* how a worker may end
    Canceled,   \* the outcome of a run that was asked to stop
    Undecided,  \* none of them: it is at work
    Dead        \* none of them: its task is no more

VARIABLES
    token,      \* whether the scheduler asked the worker to stop
    decided,    \* the outcome, once the worker has left its turns
    reported    \* whether the scheduler was told

contractVars == <<token, decided, reported>>

ContractInit ==
    /\ token = FALSE
    /\ decided = Undecided
    /\ reported = FALSE

AskToStop ==
    /\ ~token
    /\ token' = TRUE
    /\ UNCHANGED <<decided, reported>>

Decide(x) ==
    /\ decided = Undecided
    /\ x = Canceled => token
    /\ decided' = x
    /\ UNCHANGED <<token, reported>>

Report ==
    /\ decided \in Outcome /\ ~reported
    /\ reported' = TRUE
    /\ UNCHANGED <<token, decided>>

Die ==
    /\ ~reported
    /\ decided' = Dead
    /\ UNCHANGED <<token, reported>>

ContractNext == AskToStop \/ Report \/ Die \/ \E x \in Outcome : Decide(x)

ContractSpec == ContractInit /\ [][ContractNext]_contractVars
=============================================================================
