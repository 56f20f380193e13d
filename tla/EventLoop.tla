------------------------------ MODULE EventLoop ------------------------------
(***************************************************************************)
(* The event loop of the service (run_service, src/src/orchestrator.rs     *)
(* :72-156) with everybody who looks at it from outside: the user who      *)
(* presses Ctrl-C, the clients that ask for a refresh over HTTP, and the   *)
(* readers of the snapshot store (src/src/http.rs). What the handlers do   *)
(* to the scheduler is the subject of Orchestrator; here it is the set of  *)
(* issues that are tracked, running or waiting for a retry.                *)
(***************************************************************************)
EXTENDS Naturals, Sequences

CONSTANTS
    Issue,      \* issues
    Client,     \* HTTP clients; each asks for one refresh
    Nothing     \* the store before its first publication

ASSUME EventLoopAssumption == \A s \in SUBSET Issue : s # Nothing

VARIABLES
    at,             \* what the loop is doing
    signal,         \* what Ctrl-C does, and whether the loop has heard it
    tickDue,        \* whether next_tick has passed
    refreshQueued,  \* refresh_queued
    requests,       \* channel of refresh requests
    reply,          \* what each client was told
    pending,        \* issues whose worker or timer has sent something
    changed,        \* whether a watch event waits in its channel
    tracked,        \* issues in running or retry_attempts
    snapshot,       \* issues listed by the published snapshot
    details,        \* issues of the published debug map
    polled          \* history: clients told of a poll that has begun since

loopVars == <<at, signal, tickDue, refreshQueued, requests, reply, pending, changed,
              tracked, snapshot, details, polled>>

outside == <<requests, reply, pending, changed>>
store == <<snapshot, details>>

Told == {"queued", "coalesced"}

(* The service ends by leaving its loop, or is killed. *)
Alive == at \notin {"done", "killed"}

Init ==
    /\ at = "start"
    /\ signal = "unarmed"
    /\ tickDue = TRUE
    /\ refreshQueued = FALSE
    /\ requests = <<>>
    /\ reply = [c \in Client |-> "none"]
    /\ pending = {} /\ tracked = {} /\ polled = {}
    /\ changed = FALSE
    /\ snapshot = Nothing /\ details = {}

(* get_state has something to return, and get_issue finds the issue. *)
Available == snapshot # Nothing

GetIssue(i) == i \in details
-----------------------------------------------------------------------------
(* The surroundings of the loop. *)

(* The wait for Ctrl-C begins anew with each turn of the loop. Before the   *)
(* first wait the signal kills the process; from then on it is caught, and  *)
(* has no effect unless the loop is waiting.                                *)
PressCtrlC ==
    /\ Alive
    /\ \/ /\ signal = "unarmed"
          /\ at' = "killed" /\ UNCHANGED signal
       \/ /\ signal = "armed" /\ at = "wait"
          /\ signal' = "heard" /\ UNCHANGED at
       \/ /\ signal # "unarmed" /\ ~(signal = "armed" /\ at = "wait")
          /\ UNCHANGED <<at, signal>>
    /\ UNCHANGED <<tickDue, refreshQueued, requests, reply, pending, changed,
                   tracked, store, polled>>

(* post_refresh: once the loop is gone its channel is closed. *)
PostRefresh(c) ==
    /\ at # "killed" /\ reply[c] = "none"
    /\ reply' = [reply EXCEPT ![c] = IF Alive THEN "waiting" ELSE "refused"]
    /\ requests' = IF Alive THEN Append(requests, c) ELSE requests
    /\ UNCHANGED <<at, signal, tickDue, refreshQueued, pending, changed, tracked,
                   store, polled>>

(* The loop has ended and drops the request with its reply: the handler     *)
(* answers that the refresh was coalesced.                                  *)
ReplyDropped(c) ==
    /\ at = "done" /\ reply[c] = "waiting"
    /\ reply' = [reply EXCEPT ![c] = "dropped"]
    /\ UNCHANGED <<at, signal, tickDue, refreshQueued, requests, pending, changed,
                   tracked, store, polled>>

(* A tracked issue has a worker or a timer, which sends events. *)
Send(i) ==
    /\ Alive /\ i \in tracked \ pending
    /\ pending' = pending \union {i}
    /\ UNCHANGED <<at, signal, tickDue, refreshQueued, requests, reply, changed,
                   tracked, store, polled>>

WorkflowChanges ==
    /\ Alive /\ ~changed
    /\ changed' = TRUE
    /\ UNCHANGED <<at, signal, tickDue, refreshQueued, requests, reply, pending,
                   tracked, store, polled>>

IntervalPasses ==
    /\ Alive /\ ~tickDue
    /\ tickDue' = TRUE
    /\ UNCHANGED <<at, signal, refreshQueued, outside, tracked, store, polled>>
-----------------------------------------------------------------------------
(* The loop. A branch that is taken drops the wait for Ctrl-C, and with it  *)
(* a signal that was heard at the same time.                                *)

Unheard == signal' = IF signal = "heard" THEN "armed" ELSE signal

Startup_Quiet ==
    /\ at = "start"
    /\ at' = "wait"
    /\ signal' = "armed"
    /\ UNCHANGED <<tickDue, refreshQueued, outside, tracked, store, polled>>

(* startup_terminal_workspace_cleanup; the first publication follows. *)
Startup ==
    /\ at = "start"
    /\ at' = "publish"
    /\ UNCHANGED <<signal, tickDue, refreshQueued, outside, tracked, store, polled>>

(* shutdown_running_workers forgets no run: the last publication shows them. *)
TakeCtrlC ==
    /\ at = "wait" /\ signal = "heard"
    /\ signal' = "acted"
    /\ at' = "publish"
    /\ UNCHANGED <<tickDue, refreshQueued, outside, tracked, store, polled>>

TakeTick ==
    /\ at = "wait" /\ tickDue
    /\ at' = "tick"
    /\ Unheard
    /\ polled' = {c \in Client : reply[c] \in Told}
    /\ UNCHANGED <<tickDue, refreshQueued, outside, tracked, store>>

(* run_tick dispatches candidates, one after the other; nothing it does     *)
(* removes an issue from memory.                                            *)
Dispatch(i) ==
    /\ at = "tick" /\ i \notin tracked
    /\ tracked' = tracked \union {i}
    /\ UNCHANGED <<at, signal, tickDue, refreshQueued, outside, store, polled>>

EndTick_KeepsFlag ==
    /\ at = "tick"
    /\ at' = "wait"
    /\ tickDue' = FALSE
    /\ UNCHANGED <<signal, refreshQueued, outside, tracked, store, polled>>

(* The flag is reset and next_tick set; nothing is published. *)
EndTick ==
    /\ at = "tick"
    /\ at' = "wait"
    /\ refreshQueued' = FALSE
    /\ tickDue' = FALSE
    /\ UNCHANGED <<signal, outside, tracked, store, polled>>

TakeEvent_Unpublished(i) ==
    /\ at = "wait" /\ i \in pending
    /\ pending' = pending \ {i}
    /\ tracked' \in {tracked, tracked \ {i}}
    /\ at' = "wait"
    /\ Unheard
    /\ UNCHANGED <<tickDue, refreshQueued, requests, reply, changed, store, polled>>

(* handle_worker_event and handle_retry_due: the issue stays in memory, as  *)
(* a run or as a retry, or is released.                                     *)
TakeEvent(i) ==
    /\ at = "wait" /\ i \in pending
    /\ pending' = pending \ {i}
    /\ tracked' \in {tracked, tracked \ {i}}
    /\ at' = "publish"
    /\ Unheard
    /\ UNCHANGED <<tickDue, refreshQueued, requests, reply, changed, store, polled>>

TakeRefresh_Once ==
    /\ at = "wait" /\ requests # <<>>
    /\ reply' = IF refreshQueued THEN reply ELSE [reply EXCEPT ![Head(requests)] = "queued"]
    /\ requests' = Tail(requests)
    /\ refreshQueued' = TRUE
    /\ tickDue' = TRUE
    /\ Unheard
    /\ UNCHANGED <<at, pending, changed, tracked, store, polled>>

TakeRefresh ==
    /\ at = "wait" /\ requests # <<>>
    /\ reply' = [reply EXCEPT ![Head(requests)] =
                    IF refreshQueued THEN "coalesced" ELSE "queued"]
    /\ requests' = Tail(requests)
    /\ refreshQueued' = TRUE
    /\ tickDue' = TRUE
    /\ Unheard
    /\ UNCHANGED <<at, pending, changed, tracked, store, polled>>

(* reload_workflow; a poll follows at once. *)
TakeReload ==
    /\ at = "wait" /\ changed
    /\ changed' = FALSE
    /\ tickDue' = TRUE
    /\ at' = "publish"
    /\ Unheard
    /\ UNCHANGED <<refreshQueued, requests, reply, pending, tracked, store, polled>>

(* publish_snapshot computes both views from one state, and stores them     *)
(* under two locks.                                                         *)
PublishSnapshot ==
    /\ at = "publish"
    /\ at' = "details"
    /\ snapshot' = tracked
    /\ UNCHANGED <<signal, tickDue, refreshQueued, outside, tracked, details, polled>>

PublishDetails_GoesOn ==
    /\ at = "details"
    /\ details' = tracked
    /\ at' = "wait"
    /\ signal' = "armed"
    /\ UNCHANGED <<tickDue, refreshQueued, outside, tracked, snapshot, polled>>

PublishDetails_Adds ==
    /\ at = "details"
    /\ details' = details \union tracked
    /\ at' = IF signal = "acted" THEN "done" ELSE "wait"
    /\ signal' = IF signal = "acted" THEN signal ELSE "armed"
    /\ UNCHANGED <<tickDue, refreshQueued, outside, tracked, snapshot, polled>>

PublishDetails ==
    /\ at = "details"
    /\ details' = tracked
    /\ at' = IF signal = "acted" THEN "done" ELSE "wait"
    /\ signal' = IF signal = "acted" THEN signal ELSE "armed"
    /\ UNCHANGED <<tickDue, refreshQueued, outside, tracked, snapshot, polled>>
-----------------------------------------------------------------------------
Branch ==
    \/ TakeCtrlC \/ TakeTick \/ TakeRefresh \/ TakeReload
    \/ \E i \in Issue : TakeEvent(i)

Next ==
    \/ PressCtrlC \/ WorkflowChanges \/ IntervalPasses
    \/ \E c \in Client : PostRefresh(c) \/ ReplyDropped(c)
    \/ \E i \in Issue : Send(i) \/ Dispatch(i)
    \/ Startup \/ EndTick \/ PublishSnapshot \/ PublishDetails
    \/ Branch

Spec == Init /\ [][Next]_loopVars

(* Handlers end (their waits have timeouts). select! begins its check at a  *)
(* branch it draws at random, so a branch that is ready again and again is  *)
(* taken: strong fairness. Time passes, and workers and timers send: this   *)
(* assumes that no worker panics, or waits for its agent for ever, before   *)
(* its first event.                                                         *)
Fairness ==
    /\ WF_loopVars(Startup) /\ WF_loopVars(EndTick)
    /\ WF_loopVars(PublishSnapshot) /\ WF_loopVars(PublishDetails)
    /\ WF_loopVars(IntervalPasses)
    /\ SF_loopVars(TakeCtrlC) /\ SF_loopVars(TakeTick)
    /\ SF_loopVars(TakeRefresh) /\ SF_loopVars(TakeReload)
    /\ \A i \in Issue : WF_loopVars(Send(i)) /\ SF_loopVars(TakeEvent(i))

FairSpec == Spec /\ Fairness

-----------------------------------------------------------------------------
TypeOK ==
    /\ at \in {"start", "wait", "tick", "publish", "details", "done", "killed"}
    /\ signal \in {"unarmed", "armed", "heard", "acted"}
    /\ tickDue \in BOOLEAN /\ refreshQueued \in BOOLEAN
    /\ requests \in Seq(Client)
    /\ reply \in [Client -> {"none", "waiting", "refused", "dropped"} \union Told]
    /\ pending \subseteq Issue /\ tracked \subseteq Issue /\ details \subseteq Issue
    /\ snapshot = Nothing \/ snapshot \subseteq Issue
    /\ at \in {"wait", "tick", "done"} => Available
    /\ polled \subseteq Client
    /\ changed \in BOOLEAN

(* The flag that makes the next request say "coalesced" is never left       *)
(* behind without a poll that is due (orchestrator.rs:129-130, 142-145): an *)
(* interleaving of ticks and requests that did so would answer requests     *)
(* with a poll that only comes at the next interval.                        *)
PollIsDue == refreshQueued => tickDue

(* A request is answered "coalesced" only when another one has queued the   *)
(* poll it shares, and that poll has not begun yet: whichever way requests, *)
(* ticks and reloads interleave, no request is merged into a poll that was  *)
(* already under way when it was answered (orchestrator.rs:142).            *)
CoalescedTruly ==
    \A c \in Client : reply[c] = "coalesced" /\ c \notin polled =>
        \E d \in Client \ {c} : reply[d] = "queued" /\ d \notin polled

(* What a client is told of its refresh is true, for whoever asks next too  *)
(* (orchestrator.rs:129-130, 138-146).                                      *)
RefreshTruthful == PollIsDue /\ CoalescedTruly

(* When the loop waits, the store shows no issue that has left memory:      *)
(* every handler that may drop an issue publishes before the next wait.     *)
NoGhost == at = "wait" => snapshot \subseteq tracked /\ details \subseteq tracked

(* The two views, written under two locks, differ only between the two      *)
(* writes of one publication (http.rs:50-51).                               *)
ViewsAgree == at # "details" /\ Available => details = snapshot

(* What a reader of the store sees was true together, and of what has left  *)
(* memory nothing is seen (http.rs:44-52, orchestrator.rs:131-151).         *)
StoreTruthful == NoGhost /\ ViewsAgree

(* Every refresh is answered, and a poll that begins after the answer       *)
(* follows, unless the service stops: no client that has asked goes on for  *)
(* ever without (http.rs:137-157).                                          *)
RefreshServed ==
    \A c \in Client :
        []<>(~Alive \/ reply[c] = "none" \/ (reply[c] \in Told /\ c \in polled))

(* An issue that stays in memory gets to be shown, although the tick that   *)
(* dispatches it publishes nothing: its worker's first event does.          *)
ShownAtLast == \A i \in Issue : []<>(~Alive \/ GetIssue(i) \/ i \notin tracked)

(* A user who keeps pressing Ctrl-C, so that at some time a press falls in  *)
(* a wait of the loop, stops the service in the end, whatever the other     *)
(* branches do. One press is not enough: during a handler it is caught by   *)
(* nobody, and in a wait it may be dropped for another branch (121-127).    *)
StopsAtLast == SF_loopVars(at = "wait" /\ PressCtrlC) => <>(~Alive)
=============================================================================
