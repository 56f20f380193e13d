--------------------------- MODULE WorkflowReload ---------------------------
(***************************************************************************)
(* The workflow file, its watcher and the configuration in force           *)
(* (src/src/workflow.rs: load_workflow_runtime and start_workflow_watch;   *)
(* src/src/orchestrator.rs: reload_workflow and its branch of the loop).   *)
(* The file changes at any moment, through contents that cannot be used:   *)
(* gone, half written, refused by the validation.                          *)
(***************************************************************************)
EXTENDS Naturals

CONSTANTS
    Good,           \* contents that parse, validate and compile
    Bad,            \* contents that do not
    Absent,         \* there is no file (one of Bad)
    None,           \* no configuration yet
    MaxNotes        \* bound: notes in the channel

ASSUME ReloadAssumption ==
    /\ Absent \in Bad /\ Good \intersect Bad = {} /\ None \notin Good
    /\ MaxNotes \in Nat \ {0}

VARIABLES
    phase,      \* of run_service
    absolute,   \* whether the service was given an absolute path
    file,       \* what the file holds
    unseen,     \* whether the watcher has yet to report something
    notes,      \* notes in the watch channel
    config,     \* state.workflow
    due,        \* whether next_tick has passed
    used,       \* history: the configuration of the latest poll
    missed      \* history: whether the latest change went unwatched

reloadVars == <<phase, absolute, file, unseen, notes, config, due, used, missed>>

Init ==
    /\ phase = "off" /\ absolute \in BOOLEAN
    /\ file \in Good \union Bad
    /\ unseen = FALSE /\ notes = 0 /\ due = TRUE /\ missed = FALSE
    /\ config = None /\ used = None

(* load_workflow_runtime accepts what the file holds as a whole, or nothing *)
(* of it.                                                                   *)
Loads == file \in Good

LoadAtStart ==
    /\ phase = "off"
    /\ IF Loads THEN phase' = "loaded" /\ config' = file
                ELSE phase' = "failed" /\ UNCHANGED config
    /\ UNCHANGED <<absolute, file, unseen, notes, due, used, missed>>

StartWatch ==
    /\ phase = "loaded"
    /\ phase' = "watching"
    /\ UNCHANGED <<absolute, file, unseen, notes, config, due, used, missed>>

(* Somebody writes, truncates, replaces or removes the file. *)
Change(v) ==
    /\ phase # "failed" /\ v # file
    /\ file' = v
    /\ unseen' = (unseen \/ phase = "watching")
    /\ missed' = (phase = "loaded")
    /\ UNCHANGED <<phase, absolute, notes, config, due, used>>

(* The watcher reports absolute paths, of events of every kind; the         *)
(* callback compares them with the path as it was given and looks at no     *)
(* kind. Reports of one moment make one note or several.                    *)
Report ==
    /\ unseen /\ notes < MaxNotes
    /\ unseen' \in BOOLEAN
    /\ notes' = IF absolute THEN notes + 1 ELSE notes
    /\ UNCHANGED <<phase, absolute, file, config, due, used, missed>>

(* An error of the watcher, or an event without paths, sends a note as well. *)
WatcherFails ==
    /\ phase = "watching" /\ notes < MaxNotes
    /\ notes' = notes + 1
    /\ UNCHANGED <<phase, absolute, file, unseen, config, due, used, missed>>

Reload_Debounced ==
    /\ phase = "watching" /\ notes > 0
    /\ notes' = notes - 1
    /\ IF due THEN UNCHANGED <<config, unseen>>
       ELSE /\ config' = IF Loads THEN file ELSE config
            /\ unseen' \in {unseen, unseen \/ file # Absent}
    /\ due' = TRUE
    /\ UNCHANGED <<phase, absolute, file, used, missed>>

(* reload_workflow keeps the configuration in force when the file cannot be *)
(* used. The file is opened, which some watchers report as an event.        *)
Reload ==
    /\ phase = "watching" /\ notes > 0
    /\ notes' = notes - 1
    /\ config' = IF Loads THEN file ELSE config
    /\ due' = TRUE
    /\ unseen' \in {unseen, unseen \/ file # Absent}
    /\ UNCHANGED <<phase, absolute, file, used, missed>>

IntervalPasses ==
    /\ phase = "watching" /\ ~due
    /\ due' = TRUE
    /\ UNCHANGED <<phase, absolute, file, unseen, notes, config, used, missed>>

Poll ==
    /\ phase = "watching" /\ due
    /\ due' = FALSE
    /\ used' = config
    /\ UNCHANGED <<phase, absolute, file, unseen, notes, config, missed>>

Next ==
    \/ LoadAtStart \/ StartWatch
    \/ \E v \in Good \union Bad : Change(v)
    \/ Report \/ WatcherFails \/ Reload \/ IntervalPasses \/ Poll

Spec == Init /\ [][Next]_reloadVars

(* The watcher's thread runs, time passes, and the loop's choice among the  *)
(* branches that are ready is random: strong fairness for its branches.     *)
Fairness ==
    /\ WF_reloadVars(LoadAtStart) /\ WF_reloadVars(StartWatch)
    /\ WF_reloadVars(IntervalPasses)
    /\ SF_reloadVars(Report /\ ~unseen')
    /\ SF_reloadVars(Reload) /\ SF_reloadVars(Poll)

FairSpec == Spec /\ Fairness
-----------------------------------------------------------------------------
(* A service that polls has a configuration that passed the validation.     *)
TypeOK ==
    /\ phase \in {"off", "loaded", "watching", "failed"}
    /\ file \in Good \union Bad /\ absolute \in BOOLEAN
    /\ notes \in 0 .. MaxNotes
    /\ phase \in {"loaded", "watching"} => config \in Good
    /\ used \in Good \union {None}
    /\ unseen \in BOOLEAN /\ due \in BOOLEAN /\ missed \in BOOLEAN

(* A usable file that differs from the configuration in force is always on  *)
(* its way: reported, or about to be (orchestrator.rs:147-151), whatever    *)
(* unusable contents it went through and however many notes were taken for  *)
(* one change. The exceptions are a change between the first load and the   *)
(* start of the watcher (73, 83), and a path given as relative.             *)
NoChangeForgotten ==
    phase = "watching" /\ absolute /\ ~missed /\ file \in Good /\ file # config =>
        unseen \/ notes > 0

(* What is in force has passed the validation, and what should be in force  *)
(* is on its way (orchestrator.rs:478-490).                                 *)
ReloadInv == TypeOK /\ NoChangeForgotten

(* Once the file stays with usable contents, they become the configuration  *)
(* in force and that of the polls, for good, with the same two exceptions,  *)
(* although the watcher may report each reload as another event.            *)
Settles ==
    \A v \in Good :
        <>[](phase = "watching" /\ file = v /\ absolute /\ ~missed) => <>[](config = v /\ used = v)
=============================================================================
