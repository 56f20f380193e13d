---------------------------- MODULE LinearTracker ----------------------------
(***************************************************************************)
(* The queries of the tracker client (LinearTracker in src/src/tracker.rs) *)
(* against a tracker whose issues change while a query is under way: the   *)
(* steps that StartupCleanup composes with those of the service. One       *)
(* query is one request per page. Issues are numbered in the order in      *)
(* which the tracker lists them, which does not change; what the client    *)
(* keeps of a page is who is in it and in which state.                     *)
(***************************************************************************)
EXTENDS Naturals, FiniteSets

CONSTANTS
    Issues,         \* number of issues
    State,          \* states of the workflow
    PageSize,       \* LINEAR_PAGE_SIZE
    DefaultPage     \* external: page size of a query that names none

ASSUME TrackerAssumption ==
    /\ Issues \in Nat /\ PageSize \in Nat \ {0} /\ DefaultPage \in Nat

VARIABLES
    state,      \* external: the state of each issue in the tracker
    call,       \* the query under way, or how the last one ended
    wanted,     \* the states asked for
    after,      \* the cursor
    issues,     \* what has been read
    steady      \* history: issues in a wanted state ever since the call

trackerVars == <<state, call, wanted, after, issues, steady>>

Issue == 1 .. Issues

Seen == [id : Issue, state : State]

Now(ids) == {[id |-> i, state |-> state[i]] : i \in ids}

Init ==
    /\ state \in [Issue -> State]
    /\ call = "idle"
    /\ wanted = {} /\ after = 0 /\ issues = {} /\ steady = {}
-----------------------------------------------------------------------------
(* Somebody moves an issue to another state. *)
Move(i, s) ==
    /\ s # state[i]
    /\ state' = [state EXCEPT ![i] = s]
    /\ steady' = IF s \in wanted THEN steady ELSE steady \ {i}
    /\ UNCHANGED <<call, wanted, after, issues>>

(* fetch_candidate_issues and fetch_issues_by_states. Without states to ask *)
(* for nothing is sent.                                                     *)
Fetch(states) ==
    /\ call # "paging"
    /\ call' = IF states = {} THEN "listed" ELSE "paging"
    /\ wanted' = states
    /\ after' = 0
    /\ issues' = {}
    /\ steady' = {i \in Issue : state[i] \in states}
    /\ UNCHANGED state

(* The tracker's answer: the first issues behind the cursor. *)
Matching == {i \in Issue : i > after /\ state[i] \in wanted}

FirstOf(ids, size) == {i \in ids : Cardinality({j \in ids : j <= i}) <= size}

Page_Replaces ==
    LET nodes == FirstOf(Matching, PageSize) IN
    /\ call = "paging"
    /\ issues' = Now(nodes)
    /\ IF nodes = Matching
       THEN call' = "listed" /\ UNCHANGED after
       ELSE /\ after' \in {i \in nodes : \A j \in nodes : j <= i}
            /\ UNCHANGED call
    /\ UNCHANGED <<state, wanted, steady>>

(* One turn of fetch_issues_paginated. *)
Page ==
    LET nodes == FirstOf(Matching, PageSize) IN
    /\ call = "paging"
    /\ issues' = issues \union Now(nodes)
    /\ IF nodes = Matching
       THEN call' = "listed" /\ UNCHANGED after
       ELSE /\ after' \in {i \in nodes : \A j \in nodes : j <= i}
            /\ UNCHANGED call
    /\ UNCHANGED <<state, wanted, steady>>

(* A request that fails, an answer that is an error or lacks its nodes, its *)
(* page information or the cursor of the next page: the query fails with    *)
(* all that was read.                                                       *)
PageFails ==
    /\ call = "paging"
    /\ call' = "failed"
    /\ issues' = {}
    /\ UNCHANGED <<state, wanted, after, steady>>

(* fetch_issue_states_by_ids asks one page, of a size it does not name, and *)
(* has no cursor to ask for the rest.                                       *)
FetchStates(ids) ==
    /\ call # "paging"
    /\ call' \in {"states", "failed"}
    /\ steady' = ids
    /\ wanted' = State /\ after' = 0
    /\ issues' = IF call' = "states" THEN Now(FirstOf(ids, DefaultPage)) ELSE {}
    /\ UNCHANGED state
-----------------------------------------------------------------------------
Ids(seen) == {x.id : x \in seen}

TypeOK ==
    /\ state \in [Issue -> State]
    /\ call \in {"idle", "paging", "listed", "failed", "states"}
    /\ wanted \subseteq State /\ after \in 0 .. Issues
    /\ issues \subseteq Seen /\ steady \subseteq Issue
    /\ call = "paging" => Ids(issues) \subseteq 1 .. after

(* An issue that is in a wanted state for as long as the query takes is in  *)
(* its result, whatever the others do between the pages and wherever the    *)
(* pages are cut (tracker.rs:66-122): a retry that finds its issue missing  *)
(* from the candidates (orchestrator.rs:455) drops its claim for a reason.  *)
SteadySeen == call = "listed" => steady \subseteq Ids(issues)

(* A result shows each issue once and in one state, which was asked for,    *)
(* though the issue may have moved from page to page since it was read.     *)
SeenOnce ==
    /\ \A x, y \in issues : x.id = y.id => x = y
    /\ call \in {"paging", "listed"} => \A x \in issues : x.state \in wanted

(* What is known of a query: what was read lies behind the cursor, nobody   *)
(* is missing who was there all the time, and nobody is there twice         *)
(* (tracker.rs:66-122).                                                     *)
QueryInv == TypeOK /\ SteadySeen /\ SeenOnce
=============================================================================
