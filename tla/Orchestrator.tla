---------------------------- MODULE Orchestrator ----------------------------
(***************************************************************************)
(* The scheduler of src/src/orchestrator.rs: one task owns the maps        *)
(* `running`, `claimed` and `retry_attempts` and serves, one at a time, a  *)
(* poll tick, the worker channel, the retry channel and workflow reloads.  *)
(* Around it run, concurrently, the issue workers, the retry timers and    *)
(* the tracker that people edit.                                           *)
(*                                                                         *)
(* What an issue carries is abstracted to the data the scheduler branches  *)
(* on: its state, the states of its blockers and its place in the dispatch *)
(* order. The session bookkeeping of a run (messages, tokens, log paths)   *)
(* and the write-only set `completed` are left out.                        *)
(***************************************************************************)
EXTENDS Integers, FiniteSets, Sequences

CONSTANTS
    Issue,        \* ids of the tracker's issues
    State,        \* normalised names of the tracker's workflow states
    Todo,         \* the state called "todo", the only one blockers apply to
    Absent,       \* what an issue's state reads as when no query returns it
    Root,         \* workspace roots a workflow file may name
    Config,       \* the configurations a workflow file may hold
    Blockers,     \* the issues that block each issue
    Rank,         \* place of an issue in the dispatch order
    Untitled,     \* issues with an empty title
    MayPanic,     \* issues whose worker task may die of a panic
    MayRestart,   \* whether the process may end and start again
    AttemptCap,   \* bound: attempts from this one on are not told apart
    MaxQueued,    \* bound: workers send updates only below this queue length
    Followed      \* bound: the issues whose workspaces are followed

NoReason == "none"
Reason == {"terminal", "non_active", "stall"}
Exit == {"succeeded", "timed_out", "canceled", "failed"}
Update == "update"

ConfigType ==
    [max : Nat \ {0}, perState : [State -> Nat], active : SUBSET State,
     terminal : SUBSET State, stall : BOOLEAN, root : Root]

ASSUME OrchestratorAssumption ==
    /\ IsFiniteSet(Issue)
    /\ Todo \in State /\ Absent \notin State
    /\ Config \subseteq ConfigType
    /\ Blockers \in [Issue -> SUBSET Issue]
    /\ Rank \in [Issue -> Nat]
    /\ \A i, j \in Issue : Rank[i] = Rank[j] => i = j
    /\ Untitled \subseteq Issue /\ MayPanic \subseteq Issue /\ MayRestart \in BOOLEAN
    /\ AttemptCap \in Nat \ {0} /\ MaxQueued \in Nat
    /\ Followed \subseteq Issue

VARIABLES
    tracker,      \* state of every issue in Linear
    config,       \* configuration of the last workflow that loaded
    phase,        \* where the event loop is: "idle" or between a tick's fetches
    candidates,   \* issues a tick has fetched and not yet considered
    running,      \* keys of `running`
    seen,         \* issue.state cached in a running entry
    attempt,      \* retry_attempt of a running entry, 0 for None
    stop,         \* stop_reason of a running entry
    home,         \* workspace root a run was started with
    claimed,      \* `claimed`
    retry,        \* attempt of each key of `retry_attempts`, 0 for no key
    timer,        \* number of sleeping retry tasks of each issue
    retry_rx,     \* the retry channel
    live,         \* number of worker tasks of each issue
    cancelled,    \* issues whose worker's cancellation token is set
    worker_rx,    \* the worker channel
    workspace     \* workspaces on disk, by issue and root

entryVars == <<running, seen, attempt, stop, home>>
retryVars == <<retry, timer>>
workerVars == <<live, cancelled>>
tickVars == <<phase, candidates>>
vars == <<tracker, config, tickVars, entryVars, claimed, retryVars, retry_rx,
          workerVars, worker_rx, workspace>>

Event == [issue : Issue, kind : {Update} \union Exit]

IssueRecord ==
    [id : Issue, state : State \union {Absent}, blockers : SUBSET (State \union {Absent})]

TypeOK ==
    /\ tracker \in [Issue -> State \union {Absent}]
    /\ config \in Config
    /\ phase \in {"idle", "polling"}
    /\ candidates \subseteq IssueRecord
    /\ running \subseteq Issue
    /\ seen \in [Issue -> State \union {Absent}]
    /\ attempt \in [Issue -> 0 .. AttemptCap]
    /\ stop \in [Issue -> Reason \union {NoReason}]
    /\ home \in [Issue -> Root]
    /\ claimed \subseteq Issue
    /\ retry \in [Issue -> 0 .. AttemptCap]
    /\ timer \in [Issue -> Nat]
    /\ retry_rx \in Seq(Issue)
    /\ live \in [Issue -> Nat]
    /\ cancelled \subseteq Issue
    /\ worker_rx \in Seq(Event)
    /\ workspace \subseteq Issue \X Root

-----------------------------------------------------------------------------
(* What the tracker answers, and the dispatch conditions. *)

(* An issue as a query returns it: its state and its blockers' states, read *)
(* together. A blocker no query can see has no state, which blocks.         *)
Fetched(i) ==
    [id |-> i, state |-> tracker[i], blockers |-> {tracker[b] : b \in Blockers[i]}]

FetchCandidateIssues ==
    {Fetched(i) : i \in {j \in Issue : tracker[j] \in config.active}}

AvailableGlobalSlots ==
    IF config.max > Cardinality(running) THEN config.max - Cardinality(running) ELSE 0

StateRunningCount_Unstopped(s) ==
    Cardinality({i \in running : seen[i] = s /\ stop[i] = NoReason})

StateRunningCount(s) == Cardinality({i \in running : seen[i] = s})

StateLimit(s) == IF config.perState[s] = 0 THEN config.max ELSE config.perState[s]

ShouldDispatch_IgnoresClaims(r, allowed) ==
    /\ r.id \notin Untitled
    /\ r.state \in config.active \ config.terminal
    /\ r.id \notin running
    /\ AvailableGlobalSlots > 0
    /\ StateRunningCount(r.state) < StateLimit(r.state)
    /\ r.state = Todo => r.blockers \subseteq config.terminal

ShouldDispatch(r, allowed) ==
    /\ r.id \notin Untitled
    /\ r.state \in config.active \ config.terminal
    /\ r.id \notin running
    /\ r.id \in claimed => r.id \in allowed
    /\ AvailableGlobalSlots > 0
    /\ StateRunningCount(r.state) < StateLimit(r.state)
    /\ r.state = Todo => r.blockers \subseteq config.terminal

(* attempt + 1, with the attempts above the bound identified. *)
Bump(n) == IF n < AttemptCap THEN n + 1 ELSE n

-----------------------------------------------------------------------------
(* The helpers the handlers share. `entries` is retry_attempts at the call: *)
(* handle_retry_due has already taken its entry out of the map.             *)

(* Aborting a handle ends its task if it still sleeps. The timers of an     *)
(* issue are interchangeable: there is never more than one.                 *)
Abort_Unchecked(entries, i) == [timer EXCEPT ![i] = @ - 1]

Abort(entries, i) ==
    IF entries[i] # 0 /\ timer[i] > 0 THEN [timer EXCEPT ![i] = @ - 1] ELSE timer

ReleaseClaim(entries, i) ==
    /\ claimed' = claimed \ {i}
    /\ retry' = [entries EXCEPT ![i] = 0]
    /\ timer' = Abort(entries, i)

ScheduleRetry(entries, i, n) ==
    /\ claimed' = claimed \union {i}
    /\ retry' = [entries EXCEPT ![i] = n]
    /\ timer' = [Abort(entries, i) EXCEPT ![i] = @ + 1]

DispatchIssue(entries, r, n) ==
    /\ retry' = [entries EXCEPT ![r.id] = 0]
    /\ timer' = Abort(entries, r.id)
    /\ claimed' = claimed \union {r.id}
    /\ running' = running \union {r.id}
    /\ seen' = [seen EXCEPT ![r.id] = r.state]
    /\ attempt' = [attempt EXCEPT ![r.id] = n]
    /\ stop' = [stop EXCEPT ![r.id] = NoReason]
    /\ home' = [home EXCEPT ![r.id] = config.root]
    /\ live' = [live EXCEPT ![r.id] = @ + 1]
    /\ cancelled' = cancelled \ {r.id}

ForgetRun_Keeps(i) ==
    /\ stop' = [stop EXCEPT ![i] = NoReason]
    /\ cancelled' = cancelled \ {i}
    /\ UNCHANGED <<running, seen, attempt, home, live>>

(* Removing an entry from `running`. The fields of a missing entry keep a   *)
(* fixed value, so that equal maps are equal states.                        *)
ForgetRun(i) ==
    /\ running' = running \ {i}
    /\ seen' = [seen EXCEPT ![i] = Absent]
    /\ attempt' = [attempt EXCEPT ![i] = 0]
    /\ stop' = [stop EXCEPT ![i] = NoReason]
    /\ cancelled' = cancelled \ {i}
    /\ UNCHANGED <<home, live>>

-----------------------------------------------------------------------------
(* The tick: reconcile, fetch the candidates, then consider them in order.  *)
(* Nothing else of the loop runs before the tick ends.                      *)

Idle == phase = "idle" /\ candidates = {}

(* get_or_insert: the first reason of a run stays. *)
FirstReason(old, new) == IF old # NoReason THEN old ELSE new

(* What reconciliation decides about a running issue it has fetched. *)
Verdict(i) ==
    IF tracker[i] \in config.terminal THEN "terminal"
    ELSE IF tracker[i] = Absent \/ tracker[i] \in config.active THEN NoReason
    ELSE "non_active"

(* Any set of the runs may have been silent for longer than stall_timeout_ms. *)
ReconcileRunningIssues ==
    /\ Idle
    /\ \E stalled \in IF config.stall THEN SUBSET running ELSE {{}}, fetched \in BOOLEAN :
         LET silence(i) == IF i \in stalled THEN "stall" ELSE NoReason
             verdict(i) == IF fetched THEN Verdict(i) ELSE NoReason
             reason(i) == FirstReason(silence(i), verdict(i))
         IN /\ stop' = [i \in Issue |-> IF i \in running
                                        THEN FirstReason(stop[i], reason(i)) ELSE stop[i]]
            /\ cancelled' = cancelled \union {i \in running : reason(i) # NoReason}
            /\ seen' = [i \in Issue |->
                          IF i \in running /\ fetched /\ tracker[i] \in config.active \ config.terminal
                          THEN tracker[i] ELSE seen[i]]
    /\ phase' = "polling"
    /\ UNCHANGED <<tracker, config, candidates, running, attempt, home, claimed, retryVars,
                   retry_rx, live, worker_rx, workspace>>

FetchCandidates ==
    /\ phase = "polling"
    /\ phase' = "idle"
    /\ candidates' = FetchCandidateIssues
    /\ UNCHANGED <<tracker, config, entryVars, claimed, retryVars, retry_rx, workerVars,
                   worker_rx, workspace>>

FetchCandidatesFails ==
    /\ phase = "polling"
    /\ phase' = "idle"
    /\ UNCHANGED <<tracker, config, candidates, entryVars, claimed, retryVars, retry_rx,
                   workerVars, worker_rx, workspace>>

(* The next issue in the order of sort_issues_for_dispatch. *)
IsNext(r) == r \in candidates /\ \A c \in candidates : Rank[r.id] <= Rank[c.id]

OutOfSlots ==
    /\ candidates # {} /\ AvailableGlobalSlots = 0
    /\ candidates' = {}
    /\ UNCHANGED <<tracker, config, phase, entryVars, claimed, retryVars, retry_rx, workerVars,
                   worker_rx, workspace>>

SkipCandidate ==
    /\ AvailableGlobalSlots > 0
    /\ \E r \in candidates :
         /\ IsNext(r) /\ ~ShouldDispatch(r, {})
         /\ candidates' = candidates \ {r}
    /\ UNCHANGED <<tracker, config, phase, entryVars, claimed, retryVars, retry_rx, workerVars,
                   worker_rx, workspace>>

DispatchCandidate ==
    /\ AvailableGlobalSlots > 0
    /\ \E r \in candidates :
         /\ IsNext(r) /\ ShouldDispatch(r, {})
         /\ candidates' = candidates \ {r}
         /\ DispatchIssue(retry, r, 0)
    /\ UNCHANGED <<tracker, config, phase, retry_rx, worker_rx, workspace>>

ConsiderCandidate == OutOfSlots \/ SkipCandidate \/ DispatchCandidate

-----------------------------------------------------------------------------
(* The worker channel. *)

(* An update only touches the session fields of its entry; an event of an   *)
(* issue that is not running, of either kind, is dropped.                   *)
ApplySessionUpdate ==
    /\ Idle /\ worker_rx # <<>>
    /\ Head(worker_rx).kind = Update \/ Head(worker_rx).issue \notin running
    /\ worker_rx' = Tail(worker_rx)
    /\ UNCHANGED <<tracker, config, tickVars, entryVars, claimed, retryVars, retry_rx,
                   workerVars, workspace>>

(* The Finished event of a running issue is at the head of the channel. *)
FinishedOf(i) ==
    /\ Idle /\ worker_rx # <<>> /\ i \in running
    /\ Head(worker_rx).issue = i /\ Head(worker_rx).kind \in Exit
    /\ worker_rx' = Tail(worker_rx)
    /\ UNCHANGED <<tracker, config, tickVars, retry_rx>>

(* The workspace is looked up under the root of the current configuration;  *)
(* an error of the removal is ignored.                                      *)
FinishTerminal(i) ==
    /\ FinishedOf(i) /\ stop[i] = "terminal"
    /\ ForgetRun(i) /\ ReleaseClaim(retry, i)
    /\ \E removed \in {{}, {<<i, config.root>>}} : workspace' = workspace \ removed

FinishNonActive(i) ==
    /\ FinishedOf(i) /\ stop[i] = "non_active"
    /\ ForgetRun(i) /\ ReleaseClaim(retry, i)
    /\ UNCHANGED workspace

FinishSucceeded_Releases(i) ==
    /\ FinishedOf(i) /\ stop[i] = NoReason
    /\ Head(worker_rx).kind = "succeeded"
    /\ ForgetRun(i) /\ ReleaseClaim(retry, i)
    /\ UNCHANGED workspace

FinishSucceeded(i) ==
    /\ FinishedOf(i) /\ stop[i] = NoReason
    /\ Head(worker_rx).kind = "succeeded"
    /\ ForgetRun(i) /\ ScheduleRetry(retry, i, 1)
    /\ UNCHANGED workspace

(* A stalled run, or a run that ended badly with no stop reason. *)
FinishRetried_SameAttempt(i) ==
    /\ FinishedOf(i)
    /\ \/ stop[i] = "stall"
       \/ stop[i] = NoReason /\ Head(worker_rx).kind # "succeeded"
    /\ ForgetRun(i) /\ ScheduleRetry(retry, i, 1)
    /\ UNCHANGED workspace

FinishRetried(i) ==
    /\ FinishedOf(i)
    /\ \/ stop[i] = "stall"
       \/ stop[i] = NoReason /\ Head(worker_rx).kind # "succeeded"
    /\ ForgetRun(i) /\ ScheduleRetry(retry, i, Bump(attempt[i]))
    /\ UNCHANGED workspace

HandleWorkerFinished(i) ==
    \/ FinishTerminal(i)
    \/ FinishNonActive(i)
    \/ FinishSucceeded(i)
    \/ FinishRetried(i)

HandleWorkerEvent == ApplySessionUpdate \/ \E i \in Issue : HandleWorkerFinished(i)

-----------------------------------------------------------------------------
(* The retry channel. One fetch separates taking the entry from acting on   *)
(* it; nothing but this task touches the maps meanwhile, so the handler is  *)
(* one step that reads the tracker at the fetch.                            *)

RetryMessage(i) ==
    /\ Idle /\ retry_rx # <<>> /\ Head(retry_rx) = i
    /\ retry_rx' = Tail(retry_rx)
    /\ UNCHANGED <<tracker, config, tickVars, worker_rx, workspace>>

Taken(i) == [retry EXCEPT ![i] = 0]

IsCandidate(i) == Fetched(i) \in FetchCandidateIssues

CanDispatch(i) == AvailableGlobalSlots > 0 /\ ShouldDispatch(Fetched(i), {i})

RetryPollFails(i) ==
    /\ RetryMessage(i) /\ retry[i] # 0
    /\ ScheduleRetry(Taken(i), i, Bump(retry[i]))
    /\ UNCHANGED <<entryVars, workerVars>>

RetryReleased_KeepsClaim(i) ==
    /\ RetryMessage(i) /\ (retry[i] = 0 \/ ~IsCandidate(i))
    /\ retry' = Taken(i)
    /\ UNCHANGED <<entryVars, workerVars, claimed, timer>>

RetryReleased_Requeues(i) ==
    /\ RetryMessage(i) /\ retry[i] # 0 /\ ~IsCandidate(i)
    /\ ScheduleRetry(Taken(i), i, Bump(retry[i]))
    /\ UNCHANGED <<entryVars, workerVars>>

(* A message without an entry is dropped; an issue that is no longer a      *)
(* candidate is given up.                                                   *)
RetryReleased(i) ==
    /\ RetryMessage(i) /\ (retry[i] = 0 \/ ~IsCandidate(i))
    /\ IF retry[i] = 0 THEN UNCHANGED <<claimed, retryVars>> ELSE ReleaseClaim(Taken(i), i)
    /\ UNCHANGED <<entryVars, workerVars>>

RetryRequeued(i) ==
    /\ RetryMessage(i) /\ retry[i] # 0 /\ IsCandidate(i) /\ ~CanDispatch(i)
    /\ ScheduleRetry(Taken(i), i, Bump(retry[i]))
    /\ UNCHANGED <<entryVars, workerVars>>

RetryDispatched(i) ==
    /\ RetryMessage(i) /\ retry[i] # 0 /\ IsCandidate(i) /\ CanDispatch(i)
    /\ DispatchIssue(Taken(i), Fetched(i), retry[i])

RetryAnswered(i) ==
    \/ RetryReleased(i)
    \/ RetryRequeued(i)
    \/ RetryDispatched(i)

HandleRetryDue(i) == RetryPollFails(i) \/ RetryAnswered(i)

-----------------------------------------------------------------------------
(* Reloads and restarts. *)

(* A workflow that fails to load changes nothing. *)
ReloadWorkflow ==
    /\ Idle
    /\ config' \in Config
    /\ UNCHANGED <<tracker, tickVars, entryVars, claimed, retryVars, retry_rx, workerVars,
                   worker_rx, workspace>>

(* The process ends, by Ctrl-C or by a crash, and a new one starts: only    *)
(* the tracker and the disk remain. Startup removes workspaces of terminal  *)
(* issues, as far as the fetch and each removal succeed.                    *)
Restart ==
    /\ MayRestart
    /\ config' \in Config
    /\ phase' = "idle" /\ candidates' = {}
    /\ running' = {} /\ claimed' = {}
    /\ seen' = [i \in Issue |-> Absent]
    /\ attempt' = [i \in Issue |-> 0]
    /\ stop' = [i \in Issue |-> NoReason]
    /\ home' = [i \in Issue |-> config'.root]
    /\ retry' = [i \in Issue |-> 0]
    /\ timer' = [i \in Issue |-> 0]
    /\ retry_rx' = <<>> /\ worker_rx' = <<>>
    /\ live' = [i \in Issue |-> 0] /\ cancelled' = {}
    /\ LET terminal == {i \in Issue : tracker[i] \in config'.terminal}
       IN \E removed \in SUBSET (terminal \X {config'.root}) : workspace' = workspace \ removed
    /\ UNCHANGED tracker

-----------------------------------------------------------------------------
(* What runs beside the loop: people editing the tracker, the retry timers  *)
(* and the workers.                                                         *)

TrackerChange ==
    /\ \E i \in Issue, s \in State \union {Absent} : tracker' = [tracker EXCEPT ![i] = s]
    /\ UNCHANGED <<config, tickVars, entryVars, claimed, retryVars, retry_rx, workerVars,
                   worker_rx, workspace>>

TimerFires(i) ==
    /\ timer[i] > 0
    /\ timer' = [timer EXCEPT ![i] = @ - 1]
    /\ retry_rx' = Append(retry_rx, i)
    /\ UNCHANGED <<tracker, config, tickVars, entryVars, claimed, retry, workerVars, worker_rx,
                   workspace>>

(* ensure_workspace creates the directory under the root the run captured;  *)
(* one it creates in vain, as after_create fails, it removes again.         *)
WorkerPrepares(i) ==
    /\ i \in Followed /\ live[i] > 0
    /\ workspace' = workspace \union {<<i, home[i]>>}
    /\ UNCHANGED <<tracker, config, tickVars, entryVars, claimed, retryVars, retry_rx,
                   workerVars, worker_rx>>

WorkerUpdates(i) ==
    /\ live[i] > 0 /\ Len(worker_rx) < MaxQueued
    /\ worker_rx' = Append(worker_rx, [issue |-> i, kind |-> Update])
    /\ UNCHANGED <<tracker, config, tickVars, entryVars, claimed, retryVars, retry_rx,
                   workerVars, workspace>>

(* The worker task sends its outcome last; only a run whose token is set    *)
(* ends as canceled.                                                        *)
WorkerFinishes_Early(i) ==
    /\ live[i] > 0
    /\ live' \in {live, [live EXCEPT ![i] = @ - 1]}
    /\ \E x \in Exit :
         /\ x = "canceled" => i \in cancelled
         /\ worker_rx' = Append(worker_rx, [issue |-> i, kind |-> x])
    /\ UNCHANGED <<tracker, config, tickVars, entryVars, claimed, retryVars, retry_rx, cancelled,
                   workspace>>

WorkerFinishes_CanceledByPeer(i) ==
    /\ live[i] > 0
    /\ live' = [live EXCEPT ![i] = @ - 1]
    /\ \E x \in Exit : worker_rx' = Append(worker_rx, [issue |-> i, kind |-> x])
    /\ UNCHANGED <<tracker, config, tickVars, entryVars, claimed, retryVars, retry_rx, cancelled,
                   workspace>>

WorkerFinishes(i) ==
    /\ live[i] > 0
    /\ live' = [live EXCEPT ![i] = @ - 1]
    /\ \E x \in Exit :
         /\ x = "canceled" => i \in cancelled
         /\ worker_rx' = Append(worker_rx, [issue |-> i, kind |-> x])
    /\ UNCHANGED <<tracker, config, tickVars, entryVars, claimed, retryVars, retry_rx, cancelled,
                   workspace>>

(* A panic ends the task before it sends anything. *)
WorkerPanics(i) ==
    /\ i \in MayPanic /\ live[i] > 0
    /\ live' = [live EXCEPT ![i] = @ - 1]
    /\ UNCHANGED <<tracker, config, tickVars, entryVars, claimed, retryVars, retry_rx, cancelled,
                   worker_rx, workspace>>

-----------------------------------------------------------------------------
Init ==
    /\ tracker \in [Issue -> State \union {Absent}]
    /\ config \in Config
    /\ phase = "idle" /\ candidates = {}
    /\ running = {} /\ claimed = {}
    /\ seen = [i \in Issue |-> Absent]
    /\ attempt = [i \in Issue |-> 0]
    /\ stop = [i \in Issue |-> NoReason]
    /\ home = [i \in Issue |-> config.root]
    /\ retry = [i \in Issue |-> 0]
    /\ timer = [i \in Issue |-> 0]
    /\ retry_rx = <<>> /\ worker_rx = <<>>
    /\ live = [i \in Issue |-> 0] /\ cancelled = {}
    /\ workspace = {}

Tick ==
    \/ ReconcileRunningIssues
    \/ FetchCandidates
    \/ FetchCandidatesFails
    \/ ConsiderCandidate

Worker(i) == WorkerPrepares(i) \/ WorkerUpdates(i) \/ WorkerFinishes(i) \/ WorkerPanics(i)

Next ==
    \/ Tick
    \/ HandleWorkerEvent
    \/ \E i \in Issue : HandleRetryDue(i)
    \/ ReloadWorkflow
    \/ Restart
    \/ TrackerChange
    \/ \E i \in Issue : TimerFires(i)
    \/ \E i \in Issue : Worker(i)

Spec == Init /\ [][Next]_vars
-----------------------------------------------------------------------------
(* Safety. *)

IsFinished(k) == worker_rx[k].kind \in Exit

(* A claim is held exactly for the issues that run and for those that wait  *)
(* for a retry, and no issue does both. A claim left behind would keep its  *)
(* issue from ever being dispatched again (src/src/orchestrator.rs:648).    *)
ClaimsAccounted ==
    /\ claimed = running \union {i \in Issue : retry[i] # 0}
    /\ \A i \in running : retry[i] = 0

Queued(i) == \E k \in DOMAIN retry_rx : retry_rx[k] = i

(* A retry entry is backed by exactly one wake-up, a sleeping timer or a    *)
(* queued message, and there is no wake-up without its entry. This is what  *)
(* lets handle_retry_due test for the key alone (432): no message of an     *)
(* aborted timer can consume a newer entry and skip its backoff.            *)
RetryTokenUnique ==
    /\ \A i \in Issue :
         IF retry[i] = 0
         THEN timer[i] = 0 /\ ~Queued(i)
         ELSE (timer[i] = 1 /\ ~Queued(i)) \/ (timer[i] = 0 /\ Queued(i))
    /\ \A j, k \in DOMAIN retry_rx : retry_rx[j] = retry_rx[k] => j = k

(* An issue has at most one worker, and only while it is in `running`. Its  *)
(* events are all for the present run: none follows the Finished event, so  *)
(* no update and no outcome of one run can be taken for another's (303,     *)
(* 353). A running issue has a worker or an outcome on its way, unless its  *)
(* worker panicked.                                                         *)
OneWorker ==
    /\ \A i \in Issue : live[i] \in {0, 1} /\ (live[i] = 1 => i \in running)
    /\ \A k \in DOMAIN worker_rx :
         /\ worker_rx[k].issue \in running
         /\ IsFinished(k) => live[worker_rx[k].issue] = 0
    /\ \A j, k \in DOMAIN worker_rx :
         j < k /\ worker_rx[j].issue = worker_rx[k].issue => ~IsFinished(j)
    /\ \A i \in running \ MayPanic :
         live[i] = 1 \/ \E k \in DOMAIN worker_rx : worker_rx[k].issue = i /\ IsFinished(k)

(* Every run ends in an outcome: what the comments at src/src/agent.rs:71   *)
(* and 84 say, "Terminal outcome reported after a worker exits". It fails   *)
(* for a worker that panics: its entry, slot and claim stay.                *)
OutcomeOwed ==
    \A i \in running :
      live[i] > 0 \/ \E k \in DOMAIN worker_rx : worker_rx[k].issue = i /\ IsFinished(k)

(* The token of a run is set exactly when the run has a stop reason, so a   *)
(* canceled outcome never meets a run without one: the retry arm of         *)
(* handle_worker_finished for that case (394-403) cannot be reached, and a  *)
(* stop is never mistaken for a failure.                                    *)
CancelHasReason ==
    /\ cancelled = {i \in running : stop[i] # NoReason}
    /\ \A i \in Issue \ running : stop[i] = NoReason
    /\ \A k \in DOMAIN worker_rx :
         worker_rx[k].kind = "canceled" => worker_rx[k].issue \in cancelled

(* Whatever was reloaded between the poll and the dispatch, and whatever    *)
(* other retries did meanwhile, a dispatch never exceeds the global limit   *)
(* nor the limit of the issue's state that are in force at that moment      *)
(* (608-665). A reload may leave more runs than the new limits allow.       *)
SlotsRespected ==
    [][\A i \in running' \ running :
         /\ Cardinality(running') <= config.max
         /\ Cardinality({j \in running' : seen'[j] = seen'[i]}) <= StateLimit(seen'[i])]_vars

Attempts(i) == IF i \in running THEN attempt[i] ELSE retry[i]

(* While an issue stays claimed its attempt number never falls, through any *)
(* number of failed runs, failed polls, requeues and dispatches, except     *)
(* when a run nobody stopped reports success: backoff is not lost (359-362, *)
(* 445, 470, 475).                                                          *)
AttemptsKept ==
    [][\A i \in claimed \intersect claimed' :
         Attempts(i)' < Attempts(i) =>
           /\ i \in running /\ stop[i] = NoReason
           /\ Head(worker_rx) = [issue |-> i, kind |-> "succeeded"]]_vars

(* A workspace disappears only when no worker of its issue is left: a stop  *)
(* for a terminal issue removes the directory after the run's outcome, not  *)
(* when the stop is decided (364-373).                                      *)
WorkspaceKept ==
    [][\A w \in workspace \ workspace' : live'[w[1]] = 0 /\ w[1] \notin running']_vars

-----------------------------------------------------------------------------
(* Liveness and refinement. *)

(* tokio::select! picks at random among the ready branches, so a branch     *)
(* that is ready again and again is taken; the tracker answers again and    *)
(* again; timers fire; and a worker ends, since turns time out and are      *)
(* bounded in number: this assumes that no agent is one of the exceptions   *)
(* WorkerEnds names in Worker, and that the worker does not panic.          *)
Fairness ==
    /\ SF_vars(ReconcileRunningIssues)
    /\ SF_vars(FetchCandidates)
    /\ WF_vars(ConsiderCandidate)
    /\ SF_vars(HandleWorkerEvent)
    /\ \A i \in Issue :
         /\ SF_vars(RetryAnswered(i))
         /\ WF_vars(TimerFires(i))
         /\ WF_vars(WorkerFinishes(i))

FairSpec == Spec /\ Fairness

(* A run that reconciliation decided to stop leaves `running` (522-527,     *)
(* 349-355): no issue goes on for ever as a stopped run.                    *)
StopHonoured ==
    \A i \in Issue : []<>(i \in running => stop[i] = NoReason)

(* When an issue stays out of the active states, its claim is given up for  *)
(* good, whatever was running or queued for it when it left (371-378,       *)
(* 455-461).                                                                *)
ClaimReleased ==
    \A i \in Issue : <>[](tracker[i] \notin config.active) => <>[](i \notin claimed)

(* An issue that stays dispatchable is worked on again and again, when      *)
(* there are slots for every issue: no claim, retry entry or slot leaks     *)
(* over any sequence of stops, failures and requeues (648, 670-678).        *)
EligibleServed ==
    \A i \in Issue \ Untitled :
      <>[](/\ tracker[i] \in config.active \ config.terminal
           /\ tracker[i] = Todo => \A b \in Blockers[i] : tracker[b] \in config.terminal)
      => []<>(i \in running)

LeaseOf(i) ==
    CASE i \in running /\ stop[i] = NoReason -> "running"
      [] i \in running /\ stop[i] # NoReason -> "stopping"
      [] i \notin running /\ i \in claimed -> "backoff"
      [] OTHER -> "free"

(* The scheduler implements the leases of IssueLifecycle. *)
Lifecycle == INSTANCE IssueLifecycle
    WITH lease <- [i \in Issue |-> LeaseOf(i)], capacity <- config.max

LifecycleSpec == Lifecycle!LeaseSpec
=============================================================================
