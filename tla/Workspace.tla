------------------------------ MODULE Workspace ------------------------------
(***************************************************************************)
(* The workspace directory of one issue on disk, through the runs that use *)
(* it, the hooks and agents that work in it, and the removal after the     *)
(* issue has ended (src/src/workspace.rs; its callers run_issue_worker in  *)
(* src/src/agent.rs and the clean-ups in src/src/orchestrator.rs). The     *)
(* service may end between any two steps and start again; processes it     *)
(* started and no longer waits for go on in the directory.                 *)
(***************************************************************************)
EXTENDS FiniteSets

CONSTANTS
    Root        \* the workspace roots a workflow file may name

ASSUME WorkspaceAssumption == IsFiniteSet(Root) /\ Root # {}

VARIABLES
    root,       \* config.workspace.root
    home,       \* the root the run was started with
    pc,         \* the step of the issue's run or clean-up
    dir,        \* the issue's directory under each root
    created,    \* created_now
    orphans,    \* processes in each directory nobody waits for
    cut,        \* history: roots where a set-up or a removal was cut off half-way
    left        \* history: roots where an agent was left behind in the directory

workspaceVars == <<root, home, pc, dir, created, orphans, cut, left>>

(* A directory is bare until after_create has succeeded in it, and again    *)
(* when a part of it is deleted.                                            *)
DirState == {"none", "bare", "ready"}

RunStep == {"ensure", "after_create", "undo", "before_run", "connect", "agent", "after_run"}
CleanStep == {"cleanup", "before_remove"}

(* Steps during which a hook runs that the service waits for. *)
HookStep == {"after_create", "before_run", "after_run", "before_remove"}

Init ==
    /\ root \in Root /\ home = root
    /\ pc = "idle"
    /\ dir = [r \in Root |-> "none"]
    /\ created = FALSE
    /\ orphans = [r \in Root |-> {}]
    /\ cut = {} /\ left = {}
-----------------------------------------------------------------------------
(* The run of a worker. *)

Dispatch ==
    /\ pc = "idle"
    /\ pc' = "ensure"
    /\ home' = root
    /\ UNCHANGED <<root, dir, created, orphans, cut, left>>

Ensure_AlwaysNew ==
    /\ pc = "ensure"
    /\ created' = TRUE
    /\ dir' = IF dir[home] = "none" THEN [dir EXCEPT ![home] = "bare"] ELSE dir
    /\ pc' = "after_create"
    /\ UNCHANGED <<root, home, orphans, cut, left>>

(* ensure_workspace up to its hook: a directory that exists is taken to be  *)
(* set up. (Temporary files in it are deleted, whether that works or not.)  *)
Ensure ==
    /\ pc = "ensure"
    /\ created' = (dir[home] = "none")
    /\ dir' = IF created' THEN [dir EXCEPT ![home] = "bare"] ELSE dir
    /\ pc' = IF created' THEN "after_create" ELSE "before_run"
    /\ UNCHANGED <<root, home, orphans, cut, left>>

EnsureFails ==
    /\ pc = "ensure"
    /\ pc' = "ended"
    /\ UNCHANGED <<root, home, dir, created, orphans, cut, left>>

AfterCreateSucceeds ==
    /\ pc = "after_create"
    /\ dir' = [dir EXCEPT ![home] = "ready"]
    /\ pc' = "before_run"
    /\ UNCHANGED <<root, home, created, orphans, cut, left>>

(* run_hook: a hook that fails is over, one that times out is dropped and   *)
(* goes on in the directory.                                                *)
HookFails(r, next) ==
    /\ orphans' \in {orphans, [orphans EXCEPT ![r] = @ \union {"hook"}]}
    /\ pc' = next

AfterCreateFails ==
    /\ pc = "after_create"
    /\ HookFails(home, "undo")
    /\ UNCHANGED <<root, home, dir, created, cut, left>>

Undo_Skipped ==
    /\ pc = "undo"
    /\ pc' = "ended"
    /\ UNCHANGED <<root, home, dir, created, orphans, cut, left>>

(* The directory is removed again; whether that works is ignored. *)
Undo ==
    /\ pc = "undo"
    /\ pc' = "ended"
    /\ \/ dir' = [dir EXCEPT ![home] = "none"] /\ UNCHANGED cut
       \/ cut' = cut \union {home} /\ UNCHANGED dir
    /\ UNCHANGED <<root, home, created, orphans, left>>

BeforeRun ==
    /\ pc = "before_run"
    /\ \/ pc' = "connect" /\ UNCHANGED orphans
       \/ HookFails(home, "ended")
    /\ UNCHANGED <<root, home, dir, created, cut, left>>

(* CodexSession::start: when it fails after the process was spawned, the    *)
(* process is dropped and not killed.                                       *)
Connect ==
    /\ pc = "connect"
    /\ \/ pc' = "agent" /\ UNCHANGED <<orphans, left>>
       \/ /\ pc' = "after_run"
          /\ \/ UNCHANGED <<orphans, left>>
             \/ /\ orphans' = [orphans EXCEPT ![home] = @ \union {"agent"}]
                /\ left' = left \union {home}
    /\ UNCHANGED <<root, home, dir, created, cut>>

(* The agent is gone or is stopped before the hook starts, or shutdown does *)
(* not stop it: looking for it or killing it fails, or the kill reaches the *)
(* shell it runs in and not the agent.                                      *)
StopAgent ==
    /\ pc = "agent"
    /\ pc' = "after_run"
    /\ \/ UNCHANGED <<orphans, left>>
       \/ /\ orphans' = [orphans EXCEPT ![home] = @ \union {"agent"}]
          /\ left' = left \union {home}
    /\ UNCHANGED <<root, home, dir, created, cut>>

AfterRun ==
    /\ pc = "after_run"
    /\ HookFails(home, "ended")
    /\ UNCHANGED <<root, home, dir, created, cut, left>>
-----------------------------------------------------------------------------
(* The scheduler. *)

(* handle_worker_finished: the workspace is removed if the run was stopped  *)
(* for its issue's terminal state, and kept otherwise.                      *)
Finished ==
    /\ pc = "ended"
    /\ pc' \in {"idle", "cleanup"}
    /\ UNCHANGED <<root, home, dir, created, orphans, cut, left>>

(* cleanup_workspace looks for the directory under the present root: when a *)
(* reload has moved it during the run, that of the run stays.               *)
Cleanup ==
    /\ pc = "cleanup"
    /\ pc' = IF dir[root] = "none" THEN "idle" ELSE "before_remove"
    /\ UNCHANGED <<root, home, dir, created, orphans, cut, left>>

(* remove_dir_all deletes file by file and may end before it is through. *)
HalfRemoved ==
    /\ dir' = [dir EXCEPT ![root] = "bare"]
    /\ cut' = cut \union {root}

(* before_remove may fail, or time out; the directory is removed anyway. *)
Remove ==
    /\ pc = "before_remove"
    /\ HookFails(root, "idle")
    /\ \/ /\ dir' = [dir EXCEPT ![root] = "none"]
          /\ cut' = cut \ {root}
       \/ HalfRemoved
       \/ UNCHANGED <<dir, cut>>
    /\ UNCHANGED <<root, home, created, left>>

(* A reload is handled by the task that cleans up. *)
Reload(r) ==
    /\ pc \notin CleanStep
    /\ root' = r
    /\ UNCHANGED <<home, pc, dir, created, orphans, cut, left>>

(* The service ends, by a signal or a crash, with its tasks but without     *)
(* their child processes. The next one removes the workspace at once if the *)
(* issue is terminal by then.                                               *)
Restart(r) ==
    /\ root' = r
    /\ pc' \in {"idle", "cleanup"}
    /\ orphans' = [orphans EXCEPT ![IF pc \in CleanStep THEN root ELSE home] =
            @ \union (IF pc \in HookStep THEN {"hook"} ELSE {})
              \union (IF pc \in {"connect", "agent"} THEN {"agent"} ELSE {})]
    /\ \/ /\ cut' = IF pc \in {"after_create", "undo"} THEN cut \union {home} ELSE cut
          /\ UNCHANGED dir
       \/ pc = "before_remove" /\ HalfRemoved
    /\ left' = IF pc \in {"connect", "agent"} THEN left \union {home} ELSE left
    /\ UNCHANGED <<home, created>>

(* A process nobody waits for ends by itself. *)
OrphanEnds(r, p) ==
    /\ p \in orphans[r]
    /\ orphans' = [orphans EXCEPT ![r] = @ \ {p}]
    /\ UNCHANGED <<root, home, pc, dir, created, cut, left>>

Next ==
    \/ Dispatch \/ Ensure \/ EnsureFails \/ AfterCreateSucceeds \/ AfterCreateFails \/ Undo
    \/ BeforeRun \/ Connect \/ StopAgent \/ AfterRun \/ Finished \/ Cleanup \/ Remove
    \/ \E r \in Root : Reload(r) \/ Restart(r)
    \/ \E r \in Root : \E p \in {"hook", "agent"} : OrphanEnds(r, p)

Spec == Init /\ [][Next]_workspaceVars
-----------------------------------------------------------------------------
TypeOK ==
    /\ root \in Root /\ home \in Root
    /\ pc \in {"idle", "ended"} \union RunStep \union CleanStep
    /\ dir \in [Root -> DirState]
    /\ created \in BOOLEAN
    /\ orphans \in [Root -> SUBSET {"hook", "agent"}]
    /\ cut \subseteq Root /\ left \subseteq Root
    /\ pc = "after_create" => created /\ dir[home] = "bare"

InUse == {"before_run", "connect", "agent", "after_run"}

(* A run works in a directory that after_create has not set up, or of which *)
(* a part is gone, only if an earlier set-up or removal there was cut off   *)
(* by the end of the service or by a directory that could not be removed    *)
(* (workspace.rs:38-61, 145), through any number of runs, failures,         *)
(* clean-ups, reloads and restarts.                                         *)
SetUpUnlessCut == pc \in InUse /\ dir[home] # "ready" => dir[home] = "bare" /\ home \in cut

(* The files of a directory that was set up, with what runs have done       *)
(* there, go only when it is removed for its issue's end: no retry whose    *)
(* set-up fails, no reload and no restart in between takes them             *)
(* (workspace.rs:38-61, 123-145). What undoes a set-up removes the whole    *)
(* directory and must find its own.                                         *)
WorkKept ==
    [][\A r \in Root : dir[r] = "ready" /\ dir'[r] # "ready" =>
          pc = "before_remove" /\ r = root]_workspaceVars

(* An agent shares its workspace with an agent of an earlier run only if    *)
(* that one was left behind by a start that failed, by a stop that failed   *)
(* or by the end of the service (agent.rs:193, 296, 507; orchestrator.rs    *)
(* :513): the hooks, clean-ups and reloads leave none behind.               *)
AloneUnlessLeft ==
    pc \in InUse /\ "agent" \in orphans[home] => home \in left

WorkspaceInv == TypeOK /\ AloneUnlessLeft
=============================================================================
