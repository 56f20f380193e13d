--------------------------- MODULE WorkspaceProofs ---------------------------
(***************************************************************************)
(* Proofs about the workspace of an issue for any set of roots: a run      *)
(* works in a directory that was set up unless a set-up or a removal there *)
(* was cut off, what is in it stays until the issue has ended, and the run *)
(* is alone unless an agent was left behind there.                         *)
(***************************************************************************)
EXTENDS Workspace, TLAPS

-----------------------------------------------------------------------------
(* The inductive invariant. TypeOK, SetUpUnlessCut and AloneUnlessLeft look *)
(* at the directory of the present run; a later run may come back to any    *)
(* directory, so the facts behind them are kept for every root.             *)

SetUpStep == {"after_create", "undo"}

(* Set-up: a directory that a run is setting up, or could not set up, is    *)
(* the run's own; any other bare directory is what a set-up or a removal    *)
(* that was cut off has left; and a directory in use or being removed       *)
(* exists.                                                                  *)
SetUpInv ==
    /\ pc \in SetUpStep => created /\ dir[home] = "bare"
    /\ \A r \in Root : dir[r] = "bare" => r \in cut \/ (pc \in SetUpStep /\ r = home)
    /\ pc \in InUse => dir[home] # "none"
    /\ pc = "before_remove" => dir[root] # "none"

(* Agents: every agent that nobody waits for is on record.                  *)
AgentInv == \A r \in Root : "agent" \in orphans[r] => r \in left

IndInv == TypeOK /\ SetUpInv /\ AgentInv

(* What the invariant says of the run at work. *)
LEMMA IndInvImplies == IndInv => SetUpUnlessCut /\ WorkspaceInv
<1> SUFFICES ASSUME IndInv
             PROVE  SetUpUnlessCut /\ WorkspaceInv
  OBVIOUS
<1>1. SetUpUnlessCut
  BY DEF IndInv, TypeOK, SetUpInv, SetUpUnlessCut, InUse, SetUpStep, DirState
<1>2. AloneUnlessLeft
  BY DEF IndInv, TypeOK, AgentInv, AloneUnlessLeft
<1> QED
  BY <1>1, <1>2 DEF IndInv, WorkspaceInv

(* Nothing is on disk at first, and nobody is at work.                      *)
LEMMA IndInvInit == Init => IndInv
  BY DEF Init, IndInv, TypeOK, SetUpInv, AgentInv, SetUpStep, InUse, DirState

(* A hook that fails leaves at most itself in the directory.                *)
LEMMA HookFacts ==
    ASSUME TypeOK, NEW r \in Root, NEW next, HookFails(r, next)
    PROVE  /\ orphans' \in [Root -> SUBSET {"hook", "agent"}] /\ pc' = next
           /\ \A q \in Root : "agent" \in orphans'[q] => "agent" \in orphans[q]
  BY DEF TypeOK, HookFails

(* Every step keeps the types, and the directory that after_create runs in. *)
LEMMA TypeStep == IndInv /\ [Next]_workspaceVars => TypeOK'
<1> SUFFICES ASSUME IndInv, [Next]_workspaceVars
             PROVE  TypeOK'
  OBVIOUS
<1> USE DEF TypeOK, RunStep, CleanStep, DirState
<1>0. TypeOK
  BY DEF IndInv
<1>1. CASE Dispatch \/ EnsureFails \/ AfterCreateSucceeds \/ Finished \/ Cleanup
  BY <1>0, <1>1 DEF Dispatch, EnsureFails, AfterCreateSucceeds, Finished, Cleanup
<1>2. CASE Ensure
  BY <1>0, <1>2 DEF Ensure
<1>3. CASE Undo
  BY <1>0, <1>3 DEF Undo
<1>4. CASE AfterCreateFails \/ AfterRun
  BY <1>0, <1>4, HookFacts DEF AfterCreateFails, AfterRun
<1>5. CASE BeforeRun
  BY <1>0, <1>5, HookFacts DEF BeforeRun
<1>6. CASE Connect \/ StopAgent
  BY <1>0, <1>6 DEF Connect, StopAgent
<1>7. CASE Remove
  BY <1>0, <1>7, HookFacts DEF Remove, HalfRemoved
<1>8. ASSUME NEW r \in Root, Reload(r)
      PROVE  TypeOK'
  BY <1>0, <1>8 DEF Reload
<1>9. ASSUME NEW r \in Root, Restart(r)
      PROVE  TypeOK'
  BY <1>0, <1>9 DEF Restart, HalfRemoved
<1>10. ASSUME NEW r \in Root, NEW p \in {"hook", "agent"}, OrphanEnds(r, p)
       PROVE  TypeOK'
  BY <1>0, <1>10 DEF OrphanEnds
<1>11. CASE UNCHANGED workspaceVars
  BY <1>0, <1>11 DEF workspaceVars
<1> QED
  BY <1>1, <1>2, <1>3, <1>4, <1>5, <1>6, <1>7, <1>8, <1>9, <1>10, <1>11 DEF Next

(* A directory leaves the bare state by a set-up that succeeds or by a      *)
(* removal, and a set-up ends or is put on record.                          *)
LEMMA SetUpStepInv == IndInv /\ [Next]_workspaceVars => SetUpInv'
<1> SUFFICES ASSUME IndInv, [Next]_workspaceVars
             PROVE  SetUpInv'
  OBVIOUS
<1> USE DEF SetUpInv, SetUpStep, InUse
<1>0. /\ root \in Root /\ home \in Root /\ dir \in [Root -> DirState]
      /\ SetUpInv
  BY DEF IndInv, TypeOK
<1>1. CASE Dispatch \/ EnsureFails \/ StopAgent \/ Finished \/ Cleanup
  BY <1>0, <1>1 DEF Dispatch, EnsureFails, StopAgent, Finished, Cleanup
<1>2. CASE Ensure
  <2>1. CASE dir[home] = "none"
    BY <1>0, <1>2, <2>1 DEF Ensure
  <2>2. CASE dir[home] # "none"
    BY <1>0, <1>2, <2>2 DEF Ensure
  <2> QED
    BY <2>1, <2>2
<1>3. CASE AfterCreateSucceeds
  BY <1>0, <1>3 DEF AfterCreateSucceeds
<1>4. CASE Undo
  BY <1>0, <1>4 DEF Undo
<1>5. CASE AfterCreateFails \/ AfterRun \/ BeforeRun \/ Connect
  BY <1>0, <1>5 DEF AfterCreateFails, AfterRun, BeforeRun, Connect, HookFails
<1>6. CASE Remove
  BY <1>0, <1>6 DEF Remove, HalfRemoved, HookFails
<1>7. ASSUME NEW r \in Root, Reload(r)
      PROVE  SetUpInv'
  BY <1>0, <1>7 DEF Reload, CleanStep
<1>8. ASSUME NEW r \in Root, Restart(r)
      PROVE  SetUpInv'
  BY <1>0, <1>8 DEF Restart, HalfRemoved
<1>9. ASSUME NEW r \in Root, NEW p \in {"hook", "agent"}, OrphanEnds(r, p)
      PROVE  SetUpInv'
  BY <1>0, <1>9 DEF OrphanEnds
<1>10. CASE UNCHANGED workspaceVars
  BY <1>0, <1>10 DEF workspaceVars
<1> QED
  BY <1>1, <1>2, <1>3, <1>4, <1>5, <1>6, <1>7, <1>8, <1>9, <1>10 DEF Next

(* An agent is left only by a start or a stop that failed and by the end of *)
(* the service, and each is put on record.                                  *)
LEMMA AgentStepInv == IndInv /\ [Next]_workspaceVars => AgentInv'
<1> SUFFICES ASSUME IndInv, [Next]_workspaceVars
             PROVE  AgentInv'
  OBVIOUS
<1> USE DEF AgentInv
<1>0. /\ TypeOK /\ AgentInv /\ root \in Root /\ home \in Root
      /\ orphans \in [Root -> SUBSET {"hook", "agent"}]
  BY DEF IndInv, TypeOK
<1>1. CASE \/ Dispatch \/ Ensure \/ EnsureFails \/ AfterCreateSucceeds \/ Undo
           \/ Finished \/ Cleanup \/ (\E r \in Root : Reload(r)) \/ UNCHANGED workspaceVars
  <2>1. orphans' = orphans /\ left' = left
    BY <1>1 DEF Dispatch, Ensure, EnsureFails, AfterCreateSucceeds, Undo, Finished,
                Cleanup, Reload, workspaceVars
  <2> QED
    BY <1>0, <2>1
<1>2. CASE AfterCreateFails \/ AfterRun \/ BeforeRun \/ Remove
  <2>1. left' = left
    BY <1>2 DEF AfterCreateFails, AfterRun, BeforeRun, Remove
  <2>2. \A q \in Root : "agent" \in orphans'[q] => "agent" \in orphans[q]
    BY <1>0, <1>2, HookFacts DEF AfterCreateFails, AfterRun, BeforeRun, Remove
  <2> QED
    BY <1>0, <2>1, <2>2
<1>3. CASE Connect \/ StopAgent
  BY <1>0, <1>3 DEF Connect, StopAgent
<1>4. ASSUME NEW r \in Root, Restart(r)
      PROVE  AgentInv'
  <2> DEFINE At == IF pc \in CleanStep THEN root ELSE home
  <2>1. ASSUME NEW q \in Root, "agent" \in orphans'[q], "agent" \notin orphans[q]
        PROVE  q = home /\ pc \in {"connect", "agent"}
    <3>1. q = At /\ pc \in {"connect", "agent"}
      BY <1>0, <1>4, <2>1 DEF Restart
    <3> QED
      BY <3>1 DEF CleanStep
  <2> QED
    BY <1>0, <1>4, <2>1 DEF Restart
<1>5. ASSUME NEW r \in Root, NEW p \in {"hook", "agent"}, OrphanEnds(r, p)
      PROVE  AgentInv'
  BY <1>0, <1>5 DEF OrphanEnds
<1> QED
  BY <1>1, <1>2, <1>3, <1>4, <1>5 DEF Next

(* The invariant of every root holds for ever. *)
LEMMA IndInvariant == Spec => []IndInv
<1>1. IndInv /\ [Next]_workspaceVars => IndInv'
  BY TypeStep, SetUpStepInv, AgentStepInv DEF IndInv
<1> QED
  BY <1>1, IndInvInit, PTL DEF Spec

(* Whatever failed, was cleaned up, reloaded or restarted before, a run     *)
(* works in a directory that after_create has set up, or in one whose       *)
(* set-up or removal was cut off.                                           *)
THEOREM SetUpBeforeUse == Spec => []SetUpUnlessCut
<1> QED
  BY IndInvariant, IndInvImplies, PTL

(* What runs have done in a directory that was set up is deleted only when  *)
(* the directory is removed for the end of its issue.                       *)
THEOREM WorkStays == Spec => WorkKept
<1>1. ASSUME IndInv, Next, NEW r \in Root, dir[r] = "ready", dir'[r] # "ready"
      PROVE  pc = "before_remove" /\ r = root
  <2>1. /\ dir \in [Root -> DirState] /\ home \in Root /\ root \in Root
        /\ pc \in SetUpStep => dir[home] = "bare"
    BY <1>1 DEF IndInv, TypeOK, SetUpInv
  <2>2. CASE Dispatch \/ EnsureFails \/ AfterCreateFails \/ BeforeRun \/ Connect \/ StopAgent
             \/ AfterRun \/ Finished \/ Cleanup
    BY <1>1, <2>2 DEF Dispatch, EnsureFails, AfterCreateFails, BeforeRun, Connect, StopAgent, AfterRun,
                      Finished, Cleanup
  <2>3. CASE Ensure \/ AfterCreateSucceeds
    BY <1>1, <2>1, <2>3 DEF Ensure, AfterCreateSucceeds
  <2>4. CASE Undo
    BY <1>1, <2>1, <2>4 DEF Undo, SetUpStep
  <2>5. CASE Remove
    BY <1>1, <2>1, <2>5 DEF Remove, HalfRemoved
  <2>6. ASSUME NEW q \in Root, Reload(q) \/ Restart(q)
        PROVE  pc = "before_remove" /\ r = root
    BY <1>1, <2>1, <2>6 DEF Reload, Restart, HalfRemoved
  <2>7. ASSUME NEW q \in Root, NEW p \in {"hook", "agent"}, OrphanEnds(q, p)
        PROVE  FALSE
    BY <1>1, <2>7 DEF OrphanEnds
  <2> QED
    BY <1>1, <2>2, <2>3, <2>4, <2>5, <2>6, <2>7 DEF Next
<1>2. IndInv /\ [Next]_workspaceVars =>
        [\A r \in Root : dir[r] = "ready" /\ dir'[r] # "ready" =>
            pc = "before_remove" /\ r = root]_workspaceVars
  BY <1>1
<1> QED
  BY <1>2, IndInvariant, PTL DEF Spec, WorkKept

(* after_create runs in a directory the run has made, and an agent meets    *)
(* only agents that were left behind in its directory.                      *)
THEOREM WorkspaceKeptApart == Spec => []WorkspaceInv
<1> QED
  BY IndInvariant, IndInvImplies, PTL
=============================================================================
