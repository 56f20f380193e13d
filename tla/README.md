# RustySymphony in TLA+

RustySymphony polls a Linear project, gives every eligible issue to a worker that
drives one Codex agent in a workspace directory of its own, and keeps doing so
until the issue is done. This directory holds specifications of that program,
configurations that model-check them with TLC, and proofs checked by TLAPS.
Line numbers refer to the files under `src/src/`.

## 1. The system

| component | state it keeps | operations | where |
|---|---|---|---|
| Scheduler | `running`, `claimed`, `retry_attempts`, the current workflow | poll tick (reconcile, fetch, dispatch), worker events, due retries, reloads | `orchestrator.rs` 158-570 |
| Retry timers | one sleeping task per retry entry | `schedule_retry`, abort, send the issue id | 536-571 |
| Worker | `turn_count`, `exit`, the issue as last fetched | workspace, hooks, session, turn loop, outcome | `agent.rs` 93-325 |
| Codex session | `next_request_id`, `thread_id`, child, reader tasks | `start`, `run_turn`, `request`, `shutdown`, answers to server requests | `agent.rs` 335-925 |
| Session log | one file per workspace | `initialize_session_log`, `append_session_log` | `workspace.rs` 242-271 |
| Workspace manager | directories under the root | `ensure_workspace`, hooks, `cleanup_workspace` | `workspace.rs` 20-240 |
| Tracker client | none | candidate, by-id and by-state queries, paginated | `tracker.rs` |
| Workflow loader and watcher | the last workflow that loaded | parse, validate, compile, watch | `workflow.rs` |
| Event loop, refresh, shutdown | `next_tick`, `refresh_queued` | the `select!` of `run_service` | `orchestrator.rs` 103-159 |
| Accounting | `codex_totals`, `rate_limits` | `apply_absolute_tokens`, `add_runtime_seconds` | `orchestrator.rs` 573-606 |
| Snapshot store and HTTP API | a snapshot and an issue map under two locks | `publish`, endpoints | `http.rs` |

How they interact. One task owns the scheduler's maps and runs the `select!`
loop: nothing else touches them, but every branch awaits the network, so what
the other tasks do meanwhile lands between two of its steps. Workers report over
one unbounded channel (`WorkerEvent::Update`, then one `WorkerEvent::Finished`),
retry timers over another; both name the *issue*, never the run or the retry
entry they belong to. The scheduler reaches a worker only through a cancellation
token. A worker captures the workflow it was dispatched with; the scheduler always
uses the current one. The tracker is edited by people at any time.

What is hard here, and what makes each part correct:

* **Scheduler.** An issue is in the maps in combination only (claimed iff running or
  retrying); messages are matched by issue id, so at most one wake-up and at most
  one worker may exist per issue, and no message may outlive what it is about; a
  stop is requested in one step and takes effect in a later one, with other stops,
  ordinary exits, reloads and failures in between; limits can shrink under running
  work; attempts live in two maps in turn.
* **Worker and session.** Token, deadline, end of stream and end of turn race in
  one `select!`; the agent issues requests of its own, blocks on each of them, and
  may reuse the id the worker awaits; there are many early exits, each of which
  owes an outcome and the attempt to stop the agent, and that attempt may fail.
* **Session log.** Three tasks rewrite one file without a lock, with copies of
  different lengths.
* **Workspaces.** The existence of a directory is the only record that its setup
  hook ran; cleanup uses the root of today for a directory made under that of
  yesterday.
* **Event loop.** The wait for Ctrl-C exists only while the loop waits; a refresh
  request is answered in a later turn of the loop than the one that makes its poll;
  two views are published under two locks by handlers that may also change memory
  and publish nothing.
* **Workflow file.** It is edited while it is read, the watcher reports every
  access to it, and the configuration in force must end up as the file.
* **Pipes.** The worker reads nothing while it writes, the agent may not either.
* **Accounting.** Counts are absolute, reports may be partial, and clocks move.
* **Tracker.** A query of several pages sees each page at another moment.
* **Process.** All scheduling state is in memory; a restart forgets it between any
  two steps and only the tracker and the disk remain.

The hazards are listed one by one, each at its line, in `PROJECT.json`.

## 2. Modules

| module | what it is |
|---|---|
| `Orchestrator` | the scheduler with its timers, channels, workers' ends, the tracker, reloads and restarts |
| `IssueLifecycle` | the abstract promise about an issue: a lease that is free, running, stopping or backing off |
| `EventLoop` | the `select!` loop with Ctrl-C, refresh requests and the snapshot store |
| `Worker` | one worker and its Codex session against an arbitrary agent |
| `WorkerContract` | the abstract worker: an outcome decided once, under the token, and reported |
| `SessionLog` | the three appenders of one log file |
| `Workspace` | the directory of one issue through runs, hooks, clean-ups, reloads and restarts |
| `WorkspacePath` | from an identifier and a root to a path: pure operators |
| `LinearTracker` | the steps of paginated and unpaginated queries against a tracker that moves |
| `StartupCleanup` | the two composed: runs, clean-ups and the clean-up at startup, while issues move |
| `WorkflowReload` | the workflow file, its watcher and the configuration in force |
| `RetryBackoff` | the delay of a retry in integers of a width: pure operators |
| `RunAccounting` | totals of tokens and seconds, attempts and delays over a history of runs |
| `OrchestratorProofs`, `WorkerProofs`, `EventLoopProofs`, `WorkspaceProofs`, `SessionLogProofs`, `RunAccountingProofs` | the theorems about the modules they are named after |
| `ReloadProofs` | the theorem about `WorkflowReload` |
| `StartupProofs` | the theorems about `LinearTracker`, `WorkspacePath` and `StartupCleanup` |
| `MC...` | values of the constants for TLC, one module for each specification |

How they fit together. `Orchestrator` has the state that decides what runs.
Each of its surroundings is a module with more detail about a part that
`Orchestrator` takes as one step or as a free choice: the worker is
`WorkerFinishes` there, `WorkerContract` in the abstract and `Worker` in full, and
`Worker` is shown to implement the contract; a timer that may fire at any moment has
its length in `RetryBackoff`; a fetch that succeeds or fails is a query of
`LinearTracker`; a reload is a step there and a protocol in `WorkflowReload`; a
directory that is there or not has its inside in `Workspace`, where it lies in
`WorkspacePath`. `StartupCleanup` puts the tracker's pages and the paths together, since
what the clean-up at startup removes depends on both. `RunAccounting` follows the runs of
an issue through `RetryBackoff`. `EventLoop` looks at the same loop from outside and keeps of the
scheduler only which issues it has in memory.

Definitions whose name carries a suffix after an underscore (`Abort_Unchecked`,
`WorkerFinishes_Early`, ...) are variants of the definition they precede with one
plausible mistake. They are used by no specification; substituting one makes
the property `PROJECT.json` pairs it with fail.

### 2.1 Orchestrator

State: `running` with the fields the code branches on (`seen`: cached state,
`attempt`, `stop`: stop_reason, `home`: the root the run captured); `claimed`;
`retry` (the attempt of each entry of `retry_attempts`, 0 for none, as attempts
start at 1); `timer` (sleeping tasks per issue, *not* assumed to be at most one);
the two channels as sequences; `live` (worker tasks per issue, also a number);
`cancelled` (tokens); `tracker`; `config`; `workspace` (directories by issue and
root); `phase` and `candidates` (how far a tick has got).

Every handler is one action. The places where the code awaits something that can
change meanwhile are step boundaries: a tick is reconciliation, then the candidate
fetch, then one step per candidate, and the tracker, timers and workers move in
between; `handle_retry_due` reads the tracker once, at its fetch, and nothing else
touches the maps during it, so it is one step. Reconciliation makes two decisions
(stalls, then states), the first of which stays, and either of its inputs may be
missing: any subset of the runs may be silent for too long, and the refresh may
fail. `dispatch_issue` reads the issue as it was fetched, which may be stale.
Errors are alternatives: `FetchCandidatesFails`, `RetryPollFails`, a failed
removal in `FinishTerminal`. `WorkerPanics` is the worker task dying without an
outcome. `Restart` is the end of the process and the startup of the next one;
`shutdown_running_workers` only sets tokens and aborts timers of a process that
ends without waiting, so it leaves nothing else behind.

Issues carry what decides dispatch: state, blockers' states, place in the sort
order, whether the title is empty. Left out: `completed` (written, never read), the
session and token fields of an entry, the texts of errors, and the delays of
timers, which are arbitrary.

### 2.2 Worker

`pc` follows `run_issue_worker`; `request` and `turn` are the two places where it
receives. `incoming` is the agent's pipes, the readers and their channel in one
sequence, `closed` the note a reader leaves at the end of its stream, `open` the
streams whose readers still hold a sender. Messages are a kind and an id. The agent
may answer, ask (requests of its own, with ids that may collide with the awaited
one), chat, report the end of its turn early or wrongly, close streams and exit
in any order. Hooks, tracker fetches and rendering succeed or fail. A write to the
agent (`write_json`, 571-577) is two steps: it begins (`Send`, `Serve`), and it ends when
the agent's stdin has taken the line or nobody holds its other end (`RequestWritten`,
`ReplyWritten`, `WriteFails`). In between (`writing`) the worker does nothing else: it
receives nothing and looks at no token, timeout or deadline, and no fairness ends it. The
request being answered stays at the head of `incoming` until the reply is out.
The kill of `TurnCancelled` and the one of `Shutdown` may fail, as may looking for the
process; the worker then goes on with a warning at most, which `unstopped` remembers. A
text that is cut at a byte inside of a character ends the task (`Panics` for what the agent
says, `HookPanics` for what a hook prints): `pc` is then `panicked` and no outcome is
reported. The
`select!` of `run_turn` is the free choice among `TurnCancelled`, `TurnTimesOut`
and the receiving actions. What the agent thinks it still waits for is
`asked`; `completed` counts the turns it really completed.

### 2.3 SessionLog

An append is three steps, as in the code: read the file, open it truncated, write
the copy. The state of the file between the last two is visible to the other
tasks. A line is a number of pieces (`Length`), the last of which ends it, so that a copy
written over a longer one leaves the rest of a line behind it (`Overwritten`). A read may
fail, for any reason, a character that was cut in two among them, and so may a write, after any
number of pieces. `disturbed`, `appended` and `marks` are history: whether appends have
overlapped or one has failed, what was appended before that, and with which pieces the writes
ended that overlapped another one or broke off.

### 2.4 EventLoop

`at` is what the loop does: waits in `select!`, is in a tick, or publishes, first
the snapshot and then the issue map. `signal` is what Ctrl-C does. Before
the first wait it kills the process; tokio then keeps its handler for good, and the
future that listens is created anew in each turn and dropped when another branch is
taken, so a press is noticed only while the loop waits (`PressCtrlC`), and one that was
noticed is forgotten when another branch wins (`Unheard`). Clients post refreshes,
which wait in a channel; `TakeRefresh` answers one and makes the tick due. `EndTick`
resets flag and time and publishes nothing, as in the code, whereas events, reloads
and shutdown publish. `polled` is history.

### 2.5 WorkflowReload

`file` is what the file holds: one of two usable contents, or one that cannot be
used. `unseen` says that the watcher has something to report; a report becomes one
note or several, or none when the path was given in relative form
(`absolute` is false), since the callback compares what the watcher reports with the
path as it was given. Some watchers report openings, and a reload opens the file:
`Reload` may cause another report. `Change` before `StartWatch` is the window between the
first load and the watch; `missed` remembers it.

### 2.6 Workspace and WorkspacePath

`Workspace` follows one issue's directory under each root: none, bare, or set up
by `after_create`. The worker's steps, the scheduler's clean-up and the restart of the
service are actions; a hook that times out and an agent that nobody stops, or that
outlives the attempt to stop it (`StopAgent`), become
`orphans` that end when they like. A removal deletes file by file and may end half-way
(`HalfRemoved`), which leaves a directory later runs take for set up. `cut` and `left` remember
why a directory was not set up, or is no longer whole, and why an agent may be in it, so that
the properties can say that there
is no other reason. A run whose worker panics stays where it is until the service ends, as its
entry does in `Orchestrator`. `WorkspacePath` computes with names as sequences of characters
because the property is about the names: `Sanitize` and `Normalized` do what
`sanitize_issue_identifier` and `normalize_to_absolute` do, on an alphabet of a letter,
the dot, the separator and its replacement.

### 2.7 LinearTracker, StartupCleanup, RunAccounting, RetryBackoff

`LinearTracker` lists issues in a fixed order and gives each page at a moment of
its own; `steady` is the history its properties speak of. A query by
identifier is one page of a size the tracker chooses (`DefaultPage`).
`StartupCleanup` adds the service: up or down, its root, the workspaces on disk with the
issues they were made for (`made`), and at startup the issues still to be cleaned up
(`todo`). A removal takes what lies below the path, may fail, and is refused outside the
root; the service may end at any step and start with another root.
`RunAccounting` lets agents use tokens and report them whole, in part, or for one
turn only; a report is applied when it is made, since the channel keeps the order of one run's
events. Attempts pass between entry and retry as in the scheduler, and each retry gets the
delay `RetryBackoff` computes from the setting in the file, with `Width` bits in
place of 64.

### 2.8 IssueLifecycle and WorkerContract

An issue holds one lease. It is acquired only when free or backing off and when
fewer than `capacity` issues are busy; a running one may be asked to stop; what
ends is either requeued or, only after a stop or from backoff, released. Thus a run
nobody asked to stop is always followed by another attempt, and a stopping run
never turns back into a running one. `Orchestrator` implements it under the mapping
`LeaseOf`: the property `LifecycleSpec`, checked by TLC and proved.

A worker of `WorkerContract` may be asked to stop once, decides its outcome once,
canceled only if it was asked to stop, and reports what it decided; or its task dies first and
reports nothing (`Die`). `Worker` implements it (`ContractSpec`): its outcome is undecided until the
session is left, and what hooks, the agent and a late token do after that changes nothing, but
for a hook whose output makes the task panic.

## 3. What is checked

| run | question | answer |
|---|---|---|
| `core` | two issues, one blocking the other, one slot, stalls, a worker that may panic, restarts, queued updates: types, `ClaimsAccounted`, `RetryTokenUnique`, `OneWorker`, `CancelHasReason`, `AttemptsKept`, `WorkspaceKept` | hold, 581,568 states |
| `reload` | a file that flips between 2 slots with a limit per state, and 1 slot with an active state turned terminal: `SlotsRespected`, `LifecycleSpec` | hold, 311,310 states |
| `live` | a slot per issue, fair: `StopHonoured`, `ClaimReleased`, `EligibleServed` | hold, 81,009 states |
| `panic` | `OutcomeOwed`: every running issue has a worker or an outcome on its way | **violated**, see 6 |
| `worker` | two turns, an agent that may do anything, reading nothing included: `TokenWins`, `GoneUnlessStopFailed`, `NoRequestForgotten`, `SuccessEarned`, `ContractSpec`, and fair: `WorkerEnds` | hold, 913,576 states |
| `worker_cancel` | `CancelEnds`: a cancelled worker comes to an end | **violated**, see 6 |
| `log` | three tasks, lines of three lengths, operations that fail or break off: `WholeUnlessDisturbed`, `LogInv` | hold, 1,091,295 states |
| `loop` | one issue, three clients: `RefreshTruthful`, `StoreTruthful`, and fair: `RefreshServed`, `ShownAtLast`, `StopsAtLast` | hold, 15k states |
| `follow` | relative and absolute paths, any changes: `ReloadInv`, and fair: `Settles` | hold, 648 states |
| `workspace` | two roots, failures, timeouts, half removals, reloads, restarts: `SetUpUnlessCut`, `WorkKept`, `WorkspaceInv` | hold, 18,144 states |
| `startup` | three moving issues in pages of one, identifiers that clash, a root inside another, restarts: `QueryInv`, `InsideRoot`, `EndedRemoved`, `OnlyEndedRemoved` | hold, 378,805 states |
| `numbers` | reports of any shape, a clock that moves back, retries: `TotalsInv`, `CountedOnce`, `TimeKept`, `DelayExact` | hold, 2.26M states |

Some of these are conjunctions of named parts, which the text below and the proofs
speak of one by one: `LogInv` is `TypeOK` and `TornOnlyByOverlap`; `RefreshTruthful` is `PollIsDue`
and `CoalescedTruly`, `StoreTruthful` is `NoGhost` and `ViewsAgree`; `ReloadInv` is `TypeOK` and
`NoChangeForgotten`; `WorkspaceInv` is `TypeOK` and `AloneUnlessLeft`; `QueryInv` is `TypeOK`,
`SteadySeen` and `SeenOnce`; `TotalsInv` is `TypeOK` and `NeverUndercounts`. `core`, `worker` and
`loop` check `TypeOK` by itself. That only a worker whose token is set ends as canceled
(`CanceledByToken`) is part of what `ContractSpec` says.

Why these properties. `RetryTokenUnique` and `OneWorker` are what makes it sound
that messages carry an issue id only: without them the message of an aborted timer
would consume a newer retry entry and skip its backoff, and an update of one run
would be charged to the next. `CancelHasReason` says a token is set exactly for
runs with a stop reason, so the arm of `handle_worker_finished` for a canceled run
without one (394-403) is unreachable. `AttemptsKept` follows the attempt number
through both maps: it may fall only with the success of a run nobody stopped.
`WorkspaceKept` says no directory is removed under a worker. `NoRequestForgotten`
says that, while a session is alive, every request of the agent is either still in
the channel, being answered, or answered. `GoneUnlessStopFailed` says that no way out of an
established session forgets its process: what stays behind is what shutdown could not stop. It
is about the process the worker started, the shell; what that has started in turn is not
killed with it (`orphans` in `Workspace`). `TornOnlyByOverlap` says where the log
may be torn: right behind a piece with which an overlapping or failing write ended, however often
torn text has been copied since, and nowhere else. It does not say that no line is lost:
overlapping appends lose lines, and `WholeUnlessDisturbed` says no more than that others do not.
`SuccessEarned` ties the outcome to what the agent did.
`CoalescedTruly` is what "coalesced" promises to a client: a poll that another request
was promised and that has not begun, although flag, reply and tick are set in
different turns of the loop. `NoGhost` relates what was published to what has happened since.
`NoChangeForgotten` says that whatever way notes and reloads interleave, a usable file
that differs from the configuration in force is still on its way. `SetUpUnlessCut` and
`AloneUnlessLeft` say that the known causes are the only ones, and `WorkKept` that what
undoes a set-up, or a restart or a reload in between, never takes the files of a workspace
that was in use.
`InsideRoot` says where any identifier leads: below the root, directly, or, for one of
dots only, to the root itself. `EndedRemoved` and `OnlyEndedRemoved` bound what the clean-up at startup takes from both
sides: it works from a list that is some pages and some removals old. The second says of every
workspace taken that an issue read as ended may take it (`MayTake`): its own, that of an issue
whose identifier is the same once sanitized, or one in a root at or inside its path. All
three happen in the run, and dropping either clause of `MayTake` makes the run fail.
`SteadySeen` is what a retry relies on when it drops the claim of an issue that
is not among the candidates. `NeverUndercounts` and `CountedOnce` bound the totals
from both sides, the second under the condition that makes it true (`whole`). `DelayExact`
holds the saturating arithmetic against the one without a width, at attempts that exceed it.

### Bounds

* `AttemptCap` (2, elsewhere 1): attempts from the cap on are identified. With 2,
  `AttemptsKept` still tells a first attempt from a later one; the proof covers any cap.
* `MaxQueued`: an emitter only adds updates (agent messages) below this length.
  Outcomes, retry messages and the notes of closed streams are never held back. One
  queued update is enough to put an update before and after every other event of
  its run; two agent messages are enough for an answer to sit behind a request.
* `Followed`: the issues whose directories are tracked; directories influence
  nothing else, so the runs about other matters follow none.
* Two issues: enough for competition for a slot, for blocking and for two stops in
  one reconciliation. The invariants proved in section 5 hold for any number.
* `MaxTurns = 2` is a real configuration (`max_turns`); the second turn is the first
  that follows a completed one. `ServerId` has an id equal to that of a
  request of the worker and one that is not; each is used once at a time.
* Two lines per task in `SessionLog`, one of the third: a task can then rewrite what it wrote
  before. Lines of one, two and three pieces: a copy may then end before, in and behind a
  line of another. The proofs cover any number of tasks and lines, of any lengths.
* `EventLoop`: each client asks once; a third client comes after one that queued a
  poll and one that was coalesced with it. One issue enters and leaves memory; the proofs
  cover any number of issues and clients.
* `WorkflowReload`: at most two notes, so a report may find the channel holding one; two
  usable and two unusable contents, so a file can leave and come back.
* `StartupCleanup`: three issues and pages of one give two cursors in the middle of a
  query, and room to move across each of them. Two roots, written with `.`, `..` and relative to a
  directory, of which one is `/` and holds the other; two identifiers that are the same once sanitized,
  and in the wider root hold the other root, and one of dots.
* `RunAccounting`: a token of each kind per thread and two finished runs: counts
  rise, fall back to those of a turn, and rise again, across runs of one issue.
  `MaxTotal` stops the totals that double counting would raise without end. Three bits and
  four attempts pass the width of the product (attempt 3) and of the power (attempt 4).

No symmetry is used: issues differ in rank, blockers and who may panic.
`CHECK_DEADLOCK FALSE` stands for the modules that end: a worker that is done, tasks
that appended all their lines.

### Fairness

*Scheduler.* `tokio::select!` polls its ready branches in random order, so a branch
that is ready again and again is eventually taken: strong fairness of
`ReconcileRunningIssues` and `HandleWorkerEvent`, and of `RetryAnswered`. Queries
time out and are repeated; that the tracker answers again and again is an
assumption about Linear (strong fairness of `FetchCandidates` and of
`RetryAnswered`), without which nothing can be promised. Timers and a started pass
over candidates are plain weak fairness. `WorkerFinishes` is weakly fair because a
worker's turns are bounded in number and in time, which is what `WorkerEnds` shows,
with the exceptions it names: an agent that talks for ever to a worker that awaits a response,
an agent that never takes what is written to it, and a worker that panics. What `live` shows
holds as long as none of these happens. Nothing is assumed of people, reloads or
restarts. `EligibleServed` is stated for as many slots as issues: with
fewer, retries that find no slot only reschedule themselves and the code has no
queue that would order them.

*Worker.* Its own steps, the handling of received messages and the passing of time
are weakly fair; nothing is assumed of the agent, not even that it reads. `WorkerEnds` names
the two ways in which an agent holds its worker for ever, and there is no third. While a
response is awaited the timeout starts again with every message, so an agent that never falls
silent for `read_timeout_ms` keeps its worker there; `worker_cancel` shows that the token is
no way out of it. And a write has no timeout and looks at no token, so an agent that neither
reads its stdin nor closes it keeps its worker in the write. A turn is no exception, as its
deadline is absolute. A panic also ends the task, without an outcome (run `panic`).

*Event loop.* `select!` starts its check at a branch it draws at random, so a branch
that is ready again and again is taken: strong fairness of the branches.
Handlers end, because their queries, hooks and removals have timeouts; time passes;
workers and timers send, which assumes that no worker panics or is held for ever before its
first event: `ShownAtLast` holds as long as an event of some tracked issue comes.
Nothing is assumed of the user, except in `StopsAtLast`, which is
an implication: if Ctrl-C is pressed so often that a press falls again and again into
a wait of the loop, the service stops.

*Workflow file.* The same strong fairness for `Reload` and `Poll`; the watcher's thread
runs, and a report sometimes is the last of its moment (`Report /\ ~unseen'`). Nothing is
assumed of who edits the file: `Settles` speaks of a file that is left alone with usable
contents.

### Running

`tlc -config MCOrchestratorCore.cfg MCOrchestrator` and likewise for the other
configurations, each named after the module it belongs to; `PROJECT.json` lists
run, module and configuration. `tlapm OrchestratorProofs.tla`, and likewise for
`WorkerProofs`, `EventLoopProofs`, `WorkspaceProofs`, `ReloadProofs`, `SessionLogProofs`,
`StartupProofs` and `RunAccountingProofs`, checks the proofs.

## 4. How a property is known to say something

Each property of a passing run is paired in `PROJECT.json` with a variant of a
definition (a dropped guard, a wrong order, a missing reset) under which the
same run violates it.

## 5. What is proved

`OrchestratorProofs` proves, for every set of issues, every set of configurations
and all bounds, from `OrchestratorAssumption` only (finitely many issues,
distinct ranks, `AttemptCap` at least 1):

| theorem | statement |
|---|---|
| `TypeInvariant` | `Spec => []TypeOK` |
| `ClaimsAndWakeups` | `Spec => [](ClaimsAccounted /\ RetryTokenUnique)` |
| `ClaimsAreAccounted` | `Spec => []ClaimsAccounted` |
| `WorkerOwnership` | `Spec => []OneWorker` |
| `CancellationHasReason` | `Spec => []CancelHasReason` |
| `WorkspaceOutlivesWorker` | `Spec => WorkspaceKept` |
| `BackoffKept` | `Spec => AttemptsKept` |
| `LimitsRespected` | `Spec => SlotsRespected` |
| `SchedulerImplementsLifecycle` | `Spec => LifecycleSpec` |

The argument. `TypeOK` is inductive. `ClaimsAccounted` and `RetryTokenUnique` are
inductive only together (`Wakeups`): that a dispatch leaves no wake-up behind needs
a running or free issue to have no retry entry, and that a retry message always
finds its entry needs the wake-up to be unique; the heart is that aborting a timer
removes the only wake-up when that is a timer, and that the message being
handled is the only one when it is a message. `OneWorker` is inductive by itself:
the clause about the order of events is what shows that when an outcome is received
nothing of that issue remains in the channel, so removing the entry orphans
nothing. `CancelHasReason` is inductive relative to `OneWorker`: when an entry is
removed its token is forgotten, and no event of that issue is left to contradict
it. `WorkspaceKept` follows from `OneWorker` (an outcome in the channel means no
live worker), `AttemptsKept` from `ClaimsAccounted` (an issue is in one map only),
and `SlotsRespected` from types and the cardinality of finite sets: each dispatch
tests both limits in the very state it changes. The refinement goes step by step
(`LifecycleStep`): every handler is an acquisition, a request to stop, a release, a requeue
or a stutter of the leases. What that needs beyond types is `Wakeups`: a retry message
that is handled finds its issue waiting, so that what follows is an acquisition, a
release or nothing at all, and never concerns a run; for the capacity it is the same count of
`running` as for the limits.

Each invariant has a `...Frame` lemma for the steps that leave its variables
alone, so that a step lemma has one case per action that matters.

`WorkerProofs`, for any `max_turns`, any ids the agent may use and any bound of the
queue, from `WorkerAssumption` only (at least one turn; ids are positive):

| theorem | statement |
|---|---|
| `WorkerTypes` | `Spec => []TypeOK` |
| `CanceledMeansToken` | `Spec => []CanceledByToken` |
| `TokenDecides` | `Spec => TokenWins` |
| `OnlyFailedStopsLeave` | `Spec => []GoneUnlessStopFailed` |
| `RequestsAnswered` | `Spec => []NoRequestForgotten` |
| `SuccessMeansCompleted` | `Spec => []SuccessEarned` |
| `WorkerKeepsContract` | `Spec => ContractSpec` |

The argument. Types need `Numbered`: the id of a request is the number of the turn
plus a constant, `turn/start` is sent only with a thread, and a turn's end is
reported once, which bounds ids and completions by `max_turns`. `NoRequestForgotten` is
inductive once each request is known to be in the queue once (`AsksInv`): answering one
then removes exactly its id from what the agent waits for; while a reply is written its request is the
head of the queue. `SuccessEarned` needs
`EndsInv`: a report of completion in the queue is the only one and belongs to the
present turn, so the turn that ends by it is the agent's. The contract follows
from three facts about a step: it takes a decision under the token as it is, keeps one that was taken
or dies, and changes the token only where nothing else changes.

`EventLoopProofs`, for any issues and clients, from `EventLoopAssumption` (the empty
store is no set of issues): `LoopTypes`, `RefreshesAnsweredTruly` and `StoreIsTruthful`, which
state `TypeOK`, `RefreshTruthful` and `StoreTruthful`. They hold together with what carries them
(`LoopInv`): behind a set flag outside a tick is a client that was promised a poll
not yet begun (`PollIsOwed`), waiting requests are in the channel once, the published
views contain nothing but what is or was just then in memory, and before the first wait
there is nothing to show, which is what a kill in the middle of the first publication needs.

`WorkspaceProofs`, for any set of roots: `SetUpBeforeUse`, `WorkspaceKeptApart` and `WorkStays`, which
state `SetUpUnlessCut`, `WorkspaceInv` and `WorkKept`. The properties look at
the directory of the present run, while a later run may return to any of them, so the
invariant keeps for every root what is behind them: a bare directory is either the run's
own, in the middle of its set-up, or on record in `cut`; an agent nobody waits for is on record
in `left`; and what is in use exists, which is what keeps a clean-up in between from
passing for a set-up.

`ReloadProofs`, for any contents of the file and any length of the channel, from
`ReloadAssumption`: `ReloadNeverForgets`, which states `ReloadInv`. It says nothing before
the watcher starts; `LoadedIsInForce` (a file nobody touched since it was loaded is the
configuration in force) carries it over that moment.

`SessionLogProofs`, for any tasks, any number of lines and any lengths of lines, from
`SessionLogAssumption` (a line has at least one piece): `TornAtWriteEnds` and `LogIsWhole`, which
state `LogInv` and `WholeUnlessDisturbed`. The first needs to know as much of the copies
as of the file (each is torn behind marked pieces only), and that the end of a task's own
line is marked as soon as its append overlaps another: the text a write puts before the rest of a longer one ends
with a marked piece, or that rest is empty. What breaks off is marked where it breaks off.
The second is the same log seen from the middle of an append.

`StartupProofs`, for any number of issues, states, roots, identifiers and page sizes,
from `TrackerAssumption` (pages are not empty), `PathAssumption` and `CleanupAssumption` (the
constants have their types):

| theorem | statement |
|---|---|
| `QueryIsSound` | `CleanupSpec => []QueryInv` |
| `EndedIssuesRemoved` | `CleanupSpec => []EndedRemoved` |
| `WorkspacesInsideRoots` | `CleanupSpec => []InsideRoot` |
| `RemovalTakesNamed` | `CleanupSpec => RemovesNamed` |
| `StartupTakesEnded` | `CleanupSpec => OnlyEndedRemoved` |
| `ApartTakesOwn` | `NamesApart => (CleanupSpec => RemovesOwn)` |

A page leaves out nobody who comes before somebody it shows (`FirstOfIsPrefix`, by
cardinalities), so that behind the cursor nobody is missing who has been in a wanted state
throughout (`SteadyBehindCursor`, with `SteadyWanted`: the steady ones are in a wanted state
now); what was read lies behind the cursor and what is read before it, so nobody is read
twice. `EndedRemoved` then needs `SteadySeen` at the moment the list is taken: who is not in
`todo` was never steady, or has had a turn, after which nothing is made until the service is
up. `InsideRoot` needs to know what normalizing does to a path of any length: its result has
no `.`, `..` or empty component (`NormalizedIsPlain`), leaves such a path as it is
(`NamesAreKept`), and normalizing a directory with one more component is entering that
component (`NormalizedJoin`).

Which workspaces a removal takes depends on the names, because the code lets two issues share a
directory: `A/1` and `A_1` are the same once sanitized, and an empty identifier, or one that is
a dot, leads to the root. `RemovalTakesNamed` says of all identifiers and roots that there is no
other way: what a removal takes is of an issue whose name is the same once sanitized, or lies in
a root at or inside the path (`MayTake`). By `InsideRoot` the path of the one removed and that
of the one taken are each a root or its child; a child that begins another child either is it, and then
the names are the same, or begins the other's root (`PrefixOfAppend`). `ApartTakesOwn` says what a team
that knows its identifiers can rely on: where sanitizing leaves them different and none of them
empty or dots, and no root lies inside another, a removal takes the workspaces of its issue only.

`RunAccountingProofs`, for any finite set of issues, any kinds of reports and any bounds, from
`AccountingAssumption` and, for the delay, `BackoffAssumption` (the base and the default are
positive and fit the signed integers of the width):

| theorem | statement |
|---|---|
| `TotalsNeverUndercount` | `Spec => []TotalsInv` |
| `ReportsCountedOnce` | `Spec => []CountedOnce` |
| `TimeNeverLost` | `Spec => TimeKept` |
| `DelaysExact` | `Spec => []DelayExact` |

`NeverUndercounts` and `CountedOnce` are inductive with `AccountInv`: what is added is measured
from the last report, so the totals can only be compared with the highest one because
the last is never higher (`PeakInv`); with whole reports it is the highest (`WholeInv`), as
what the agent has used in its thread only grows (`UsedInv`). The time needs only the types: a run that ends
moves what it adds from one part of the sum to the other, and the clamps at zero err upwards.
For the delay (`DelayIsExact`): as long as the power fits, cutting the product to the width
and then to the cap is cutting it to the cap, which fits the width; once it does not, the
exact delay exceeds the width and the cap is the answer both ways.

Recursive definitions. A sum over a set, a walk along a path and a power of two are
recursions over data, and the library's induction theorems cannot be used here. Each proof
argues instead from a least counterexample, with the library's facts that the order of
the numbers and that of the subsets of a finite set are well-founded: `LeastElement` and
`Induction` in `StartupProofs`, `SetInduction` in `RunAccountingProofs`. A sum is
shown to be the one function that takes out one element after the other (`SumIsUnique`, `SumExists`),
from which follows that the order does not matter (`SumFacts`). Of powers of two, what is needed follows
from the subsets they count (`PowersOfTwo`, `PowersGrow`).

Only model-checked: the liveness properties (`StopHonoured`, `ClaimReleased`,
`EligibleServed`, `WorkerEnds`, `RefreshServed`, `ShownAtLast`, `StopsAtLast`, `Settles`), which are out
of the prover's reach. Every other property of a passing run is stated by a theorem.

## 6. Disagreements between the code and what it says

Two documented promises are refuted by a run:

1. `agent.rs:71` says a terminal outcome is "reported after a worker exits".
   `summarize_value` (995) cuts text at byte 300 and panics inside a
   multi-byte character; the task dies without an outcome. Run `panic`: the entry
   stays in `running`; a later stop is recorded and nothing acts on it.
2. `agent.rs:41` calls the handle one "so the orchestrator can cancel it".
   `request` (526) does not look at the token and restarts its timeout with every
   message. Run `worker_cancel`: an agent that keeps writing keeps a cancelled
   worker for ever.

Elsewhere a reader of the documents could expect more than the code does; the
properties that hold name the exception each time:

* `workspace.rs:254`, "Append one line to the session log": the append is a
  read, a truncation and a write by three tasks without a lock (257-265), so a line
  whose append returned may be lost when appends overlap (`WholeUnlessDisturbed`), and a
  shorter text written over a longer one leaves the rest of a line (`TornOnlyByOverlap`); where that
  cuts a character in two the file is no text any more, and every later append of the run fails.
* `orchestrator.rs:71`, "until shutdown": a press of Ctrl-C while a handler runs, or one
  noticed in the same turn as another branch, is lost, since the listening future is
  created anew for each wait (`StopsAtLast`).
* `http.rs:130`, "issue {} is not tracked in memory": a tick publishes nothing, so this
  is said of issues in `running` until an event of one of them (`ShownAtLast`).
* `workflow.rs:226`, "notifies the runtime when the workflow changes": not with a relative
  path, as in `src/README.md:30`, since paths are compared as written, and not for a change
  between the first load (`orchestrator.rs:73`) and the watch (83) (`NoChangeForgotten`,
  `Settles`). Where openings are reported, each reload causes the next.
* `types.rs:121`, "Absolute token totals": each report replaces what the next difference
  is taken from, so a partial report, or one of a turn, makes the next whole one be
  added again (`CountedOnce`).
* `workspace.rs:21`, `after_create` "when needed": a service that ends during the hook
  leaves a directory later runs take for set up (`SetUpUnlessCut`).
* `workspace.rs:123`, "Remove the workspace for a terminal issue": after a reload that moved
  the root the clean-up looks under the new one and the run's directory stays
  (`EndedRemoved` speaks of the present root); an issue without an identifier, which
  `tracker.rs:329` lets through with an empty one, or called `.`, has the root itself for a
  path (one called `.` works in it, too), so that every workspace goes; and two identifiers that differ in a
  replaced character only share a directory (`OnlyEndedRemoved` and `RemovesNamed` say whose
  workspaces may go, `RemovesOwn` when they are the issue's own only).
* `tracker.rs:28`, the states of "already-running issues" are fetched: that query names no
  page size and reads no cursor, so the tracker's default page bounds how many come back.

## 7. What is not modelled

* Layout and wording: the dashboard's HTML, the JSON rows of a snapshot beyond
  which issues they list, error texts, log lines.
* The syntax of the workflow file and prompt templates: in the models a file can be used
  or not, and a prompt is rendered or not. Of the defaults of settings only that of the
  backoff cap is modelled.
* The GraphQL query an agent may send through the tool: one request of the agent that
  is answered, as all are in `Worker`.
* Room: the agent's pipes and the channel to the worker are unbounded here, except that a
  write to the agent may take for ever (`writing`).
* What the agent should not send: a second report of one turn's end (the code checks no turn
  id), and a line longer than the limit of the reader (`agent.rs:877`), which is dropped
  as a malformed one; a request in it would stay unanswered.
* Answers of the tracker in a form of their own: a page whose `hasNextPage` is no boolean counts as the
  last one (`tracker.rs:105`), and the order of the issues is taken to be stable.
* `http.rs:147` answers a refresh whose reply was dropped by a service that ends with
  `coalesced: true`; in `EventLoop` such a request is dropped.
* The contents of directories: a workspace is none, bare or set up. Symbolic links: the
  code resolves none, and neither does `WorkspacePath`.
* Errors (an enumeration), the command line, logging setup, continuous integration and
  repository scripts: no state.
* Panics of the scheduler's own task (the output of a `before_remove` hook is one cause): `Restart` is the end of the process and its next
  start, without saying who starts it again.
* Time in numbers: deadlines and intervals pass when they pass.

## 8. Plan

1. The composition of `EventLoop` with `Orchestrator`: that the handlers of the latter
   remove and add issues in memory as the former's `Dispatch` and `TakeEvent` allow, with the
   refinement proved as that of `IssueLifecycle` is.
2. The steps under the liveness properties that the prover can reach: that the measures
   they rest on (messages ahead in a channel, turns left, pages left) never grow.
