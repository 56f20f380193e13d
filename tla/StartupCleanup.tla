--------------------------- MODULE StartupCleanup ---------------------------
(***************************************************************************)
(* The tracker client and the workspace manager together: the workspaces   *)
(* that runs make and clean-ups remove, and the clean-up of ended issues   *)
(* at startup, which queries the tracker page by page and then removes one *)
(* directory after the other (startup_terminal_workspace_cleanup in        *)
(* src/src/orchestrator.rs), while people go on moving issues and after    *)
(* earlier lives of the service have used other roots.                     *)
(***************************************************************************)
EXTENDS LinearTracker, WorkspacePath

CONSTANTS
    Active,         \* config.tracker.active_states
    Terminal,       \* config.tracker.terminal_states
    Roots,          \* the roots a workflow file may name
    Identifier      \* the identifier of each issue

ASSUME CleanupAssumption ==
    /\ Active \subseteq State /\ Terminal \subseteq State
    /\ Roots \subseteq [absolute : BOOLEAN, parts : Seq(Key)]
    /\ Identifier \in [Issue -> Seq(Character)]

VARIABLES
    phase,      \* of the service
    root,       \* config.workspace.root
    made,       \* workspaces on disk, with the issues they were made for
    todo,       \* startup: issues whose clean-up is still to come
    kept        \* history: issues whose removal failed at this startup

diskVars == <<phase, root, made, todo, kept>>
cleanupVars == <<trackerVars, diskVars>>

PathOf(i) == WorkspacePathOf(root, Identifier[i])

CleanupInit ==
    /\ Init
    /\ phase = "down" /\ root \in Roots
    /\ made = {} /\ todo = {} /\ kept = {}
-----------------------------------------------------------------------------
(* The workspace manager. *)

(* cleanup_workspace: the directory goes with all that is below it, or its  *)
(* removal fails. What lies outside the root is refused.                    *)
RemoveWorkspace(i) ==
    \/ /\ Contained(root, PathOf(i))
       /\ made' = {w \in made : ~IsPrefix(PathOf(i), w.path)}
       /\ UNCHANGED kept
    \/ /\ Contained(root, PathOf(i)) /\ \E w \in made : w.path = PathOf(i)
       /\ kept' = kept \union {i}
       /\ UNCHANGED made
    \/ /\ ~Contained(root, PathOf(i))
       /\ UNCHANGED <<made, kept>>

(* ensure_workspace, for an issue that should_dispatch lets through: its    *)
(* identifier is not empty.                                                 *)
Ensure(i) ==
    /\ phase = "up" /\ Identifier[i] # <<>>
    /\ Contained(root, PathOf(i))
    /\ made' = made \union {[issue |-> i, path |-> PathOf(i)]}
    /\ UNCHANGED <<trackerVars, phase, root, todo, kept>>

(* handle_worker_finished, for a run that was stopped as its issue ended. *)
CleanUpRun(i) ==
    /\ phase = "up" /\ RemoveWorkspace(i)
    /\ UNCHANGED <<trackerVars, phase, root, todo>>
-----------------------------------------------------------------------------
(* The service. *)

Start_AllStates(r) ==
    /\ phase = "down" /\ Fetch(State)
    /\ phase' = "query" /\ root' = r /\ kept' = {}
    /\ UNCHANGED <<made, todo>>

(* run_service loads the workflow file and begins the query of the startup. *)
Start(r) ==
    /\ phase = "down" /\ Fetch(Terminal)
    /\ phase' = "query" /\ root' = r /\ kept' = {}
    /\ UNCHANGED <<made, todo>>

(* The query's answer, or its failure, which leaves everything as it is. *)
Listed ==
    /\ phase = "query" /\ call \in {"listed", "failed"}
    /\ phase' = "clean" /\ todo' = Ids(issues)
    /\ UNCHANGED <<trackerVars, root, made, kept>>

CleanUpNext_StopsAtError(i) ==
    /\ phase = "clean" /\ i \in todo /\ \A j \in todo : i <= j
    /\ RemoveWorkspace(i)
    /\ todo' = IF kept' = kept THEN todo \ {i} ELSE {}
    /\ UNCHANGED <<trackerVars, phase, root>>

(* The listed issues are cleaned up in their order; errors are ignored. *)
CleanUpNext(i) ==
    /\ phase = "clean" /\ i \in todo /\ \A j \in todo : i <= j
    /\ RemoveWorkspace(i)
    /\ todo' = todo \ {i}
    /\ UNCHANGED <<trackerVars, phase, root>>

Started ==
    /\ phase = "clean" /\ todo = {}
    /\ phase' = "up"
    /\ UNCHANGED <<trackerVars, root, made, todo, kept>>

(* reload_workflow, with another root. *)
Reload(r) ==
    /\ phase = "up" /\ root' = r
    /\ UNCHANGED <<trackerVars, phase, made, todo, kept>>

(* The service ends at any moment, with its queries and clean-ups. *)
Stop ==
    /\ phase # "down"
    /\ phase' = "down" /\ todo' = {} /\ kept' = {}
    /\ call' = "idle" /\ wanted' = {} /\ after' = 0
    /\ issues' = {} /\ steady' = {}
    /\ UNCHANGED <<state, root, made>>

(* A request of the query under way, or a query of a tick. *)
Query ==
    /\ \/ phase \in {"query", "up"} /\ (Page \/ PageFails)
       \/ phase = "up" /\ Fetch(Active)
       \/ phase = "up" /\ \E ids \in SUBSET Issue : FetchStates(ids)
    /\ UNCHANGED diskVars

People == \E i \in Issue, s \in State : Move(i, s) /\ UNCHANGED diskVars

CleanupNext ==
    \/ People \/ Query \/ Listed \/ Started \/ Stop
    \/ \E r \in Roots : Start(r) \/ Reload(r)
    \/ \E i \in Issue : Ensure(i) \/ CleanUpRun(i) \/ CleanUpNext(i)

CleanupSpec == CleanupInit /\ [][CleanupNext]_cleanupVars
-----------------------------------------------------------------------------
(* Every workspace is the directory of its issue in a root, however the     *)
(* root is written, whatever the identifier holds and however often the     *)
(* root was changed; only an issue whose identifier is made of dots can be  *)
(* given a root itself (workspace.rs:27-33, 159-214).                       *)
InsideRoot ==
    \A w \in made : \E r \in Roots :
        LET key == Sanitize(Identifier[w.issue]) IN
        w.path = IF key \in {Current, Parent} THEN Directory(r) ELSE Append(Directory(r), key)

(* What a clean-up for issue i may take: the workspace of an issue whose    *)
(* name is the same once sanitized, its own above all, and what is in a     *)
(* root that is i's path, i's name being empty or dots, or lies inside it.  *)
SameName(i, j) == Sanitize(Identifier[i]) = Sanitize(Identifier[j])
HoldsRoot(i, path) ==
    \E r \in Roots : IsPrefix(PathOf(i), Directory(r)) /\ IsPrefix(Directory(r), path)

MayTake(i, w) == SameName(i, w.issue) \/ HoldsRoot(i, w.path)

(* An issue that was in a terminal state from the start of the query on has *)
(* no workspace under the present root once its turn has come, wherever the *)
(* pages were cut and whatever the removal of another one did, unless its   *)
(* own removal failed (orchestrator.rs:492-511).                            *)
EndedRemoved ==
    phase = "clean" /\ call = "listed" =>
        \A i \in steady \ (todo \union kept) :
            Contained(root, PathOf(i)) => \A w \in made : w.path # PathOf(i)

(* The clean-up at startup takes only what an issue which this startup's    *)
(* query has read in a terminal state may take: its own workspace, or that  *)
(* of another one whose name or root gives it away. The issue may have been *)
(* reopened since, or while the query went on. The tracker client lets any  *)
(* identifier through, an empty one among them (tracker.rs:329-333).        *)
OnlyEndedRemoved ==
    [][phase = "clean" => \A w \in made \ made' :
        \E x \in issues : x.state \in Terminal /\ MayTake(x.id, w)]_cleanupVars
=============================================================================
