------------------------------- MODULE Worker -------------------------------
(***************************************************************************)
(* One issue worker and its Codex session (src/src/agent.rs): the worker   *)
(* task of run_issue_worker, the agent process it talks JSON-RPC with, and *)
(* the cancellation token the scheduler may set at any moment. The agent   *)
(* is external: it may emit whatever the worker's code distinguishes.      *)
(*                                                                         *)
(* `incoming` stands for the agent's pipes, the two reader tasks and their *)
(* common channel: each stream keeps its order and the streams interleave; *)
(* its head may also be the request the worker is answering. Messages are  *)
(* reduced to their kind and id, updates sent to the scheduler are left    *)
(* out, and hooks are steps that succeed or fail. A write to the agent     *)
(* takes as long as the agent likes: nothing bounds or interrupts it.      *)
(***************************************************************************)
EXTENDS Integers, Sequences, FiniteSets

CONSTANTS
    MaxTurns,    \* config.agent.max_turns
    ServerId,    \* ids the agent gives its own requests
    MaxQueued    \* bound: the agent emits only below this queue length

ASSUME WorkerAssumption ==
    MaxTurns \in Nat \ {0} /\ ServerId \subseteq Nat \ {0} /\ MaxQueued \in Nat

VARIABLES
    pc,          \* what the worker does next
    method,      \* the request whose response is awaited
    next_id,     \* next_request_id
    writing,     \* what is being written to the agent's stdin
    thread,      \* whether thread_id is known
    turns,       \* turn_count
    expired,     \* whether turn_deadline has passed
    exit,        \* the outcome so far
    cancelled,   \* the cancellation token
    incoming,    \* messages of the agent not yet received
    child,       \* the process the worker started: the shell the agent runs in
    unstopped,   \* history: whether shutdown failed to stop it
    open,        \* its streams whose readers still hold a sender
    pending,     \* agent: id of the request it has still to answer, or 0
    asked,       \* agent: ids of its requests it has no answer to
    unreported,  \* agent: whether it has a turn whose end it did not report
    completed    \* history: turns the agent reported as completed

requestVars == <<method, next_id, writing>>
turnVars == <<thread, turns, expired>>
processVars == <<child, unstopped>>
agentVars == <<processVars, open, pending, unreported, completed>>
vars == <<pc, requestVars, turnVars, exit, cancelled, incoming, agentVars, asked>>

Exit == {"succeeded", "timed_out", "canceled", "failed"}
Method == {"initialize", "thread/start", "turn/start"}
Step == {"workspace", "before_run", "spawn", "request", "loop", "turn", "fetch", "shutdown",
         "after_run", "report", "done", "panicked"}
Stream == {"stdout", "stderr"}

(* "ask" is any server request that is answered and passed over: approvals, *)
(* tool calls and unsupported methods; "input" one that asks the user.      *)
(* "other" is a notification, a malformed line or a line of stderr.         *)
Kind == {"result", "error", "ask", "input", "completed", "failed", "cancelled", "other", "closed"}

Message == [kind : Kind, id : Nat]
Note(k) == [kind |-> k, id |-> 0]

TypeOK ==
    /\ pc \in Step /\ method \in Method /\ exit \in Exit
    /\ next_id \in 1 .. MaxTurns + 3 /\ turns \in 0 .. MaxTurns
    /\ writing \in {"nothing", "request", "reply"} /\ unstopped \in BOOLEAN
    /\ thread \in BOOLEAN /\ expired \in BOOLEAN /\ cancelled \in BOOLEAN
    /\ incoming \in Seq(Message)
    /\ child \in {"none", "running", "exited"} /\ open \subseteq Stream
    /\ pending \in 0 .. MaxTurns + 2 /\ asked \subseteq ServerId
    /\ unreported \in BOOLEAN /\ completed \in 0 .. MaxTurns

Init ==
    /\ pc = "workspace" /\ method = "initialize" /\ next_id = 1 /\ writing = "nothing"
    /\ thread = FALSE /\ turns = 0 /\ expired = FALSE
    /\ exit = "succeeded" /\ cancelled = FALSE
    /\ incoming = <<>> /\ child = "none" /\ unstopped = FALSE /\ open = {}
    /\ pending = 0 /\ asked = {} /\ unreported = FALSE /\ completed = 0

-----------------------------------------------------------------------------
(* How steps of the worker end. *)

(* The loop of run_issue_worker is left with an error of run_turn: a set    *)
(* token makes any of them a cancellation.                                  *)
Quit_AsIs(x) ==
    /\ exit' = x
    /\ pc' = "shutdown"

Quit(x) ==
    /\ exit' = IF cancelled THEN "canceled" ELSE x
    /\ pc' = "shutdown"

(* CodexSession::start fails: the session is dropped, the agent is not      *)
(* stopped.                                                                 *)
StartFails ==
    /\ exit' = "failed"
    /\ pc' = "after_run"

(* A request of run_turn, or one of start, fails. *)
RequestFails == IF method = "turn/start" THEN Quit("failed") ELSE StartFails

(* What was to be received or written fails, in `request` or in `run_turn`. *)
SessionFails == IF pc = "request" THEN RequestFails ELSE Quit("failed")

(* request begins to write. `initialized` goes out before thread/start and  *)
(* is one write with it here.                                               *)
Send(m) ==
    /\ method' = m
    /\ next_id' = next_id + 1
    /\ writing' = "request"
    /\ pc' = "request"
    /\ UNCHANGED exit

-----------------------------------------------------------------------------
(* Before the session. *)

EnsureWorkspace ==
    /\ pc = "workspace"
    /\ \/ pc' = "before_run" /\ UNCHANGED exit
       \/ pc' = "report" /\ exit' = "failed"
    /\ UNCHANGED <<requestVars, turnVars, cancelled, incoming, agentVars, asked>>

BeforeRun ==
    /\ pc = "before_run"
    /\ \/ pc' = "spawn" /\ UNCHANGED exit
       \/ pc' = "report" /\ exit' = "failed"
    /\ UNCHANGED <<requestVars, turnVars, cancelled, incoming, agentVars, asked>>

(* What a failed hook printed is cut at a byte as well: inside of a         *)
(* character the task dies with it.                                         *)
HookPanics ==
    /\ pc \in {"workspace", "before_run", "after_run"}
    /\ pc' = "panicked"
    /\ UNCHANGED <<requestVars, turnVars, exit, cancelled, incoming, agentVars, asked>>

Spawn ==
    /\ pc = "spawn"
    /\ child' = "running" /\ open' = Stream
    /\ Send("initialize")
    /\ UNCHANGED <<turnVars, cancelled, incoming, asked, unstopped, pending, unreported, completed>>

SpawnFails ==
    /\ pc = "spawn"
    /\ StartFails
    /\ UNCHANGED <<requestVars, turnVars, cancelled, incoming, agentVars, asked>>

-----------------------------------------------------------------------------
(* Receiving: `request` waits for a response, `run_turn` for the turn's end; *)
(* both answer what the agent asks meanwhile.                               *)

Listens == pc \in {"request", "turn"} /\ writing = "nothing"

Takes == Listens /\ (pc = "turn" => ~expired) /\ incoming # <<>>

Receives ==
    /\ Takes
    /\ incoming' = Tail(incoming)
    /\ UNCHANGED cancelled

(* A message with the id of the awaited response is taken for it, whatever  *)
(* else it says.                                                            *)
Received == Head(incoming)
Awaited == pc = "request" /\ Received.id = next_id - 1

AcceptInitialize ==
    /\ method = "initialize"
    /\ Receives /\ Awaited /\ Received.kind = "result"
    /\ Send("thread/start")
    /\ UNCHANGED <<turnVars, agentVars, asked>>

AcceptThread ==
    /\ method = "thread/start"
    /\ Receives /\ Awaited /\ Received.kind = "result"
    /\ thread' \in BOOLEAN
    /\ pc' = "loop"
    /\ UNCHANGED <<requestVars, turns, expired, exit, agentVars, asked>>

AcceptTurn ==
    /\ method = "turn/start"
    /\ Receives /\ Awaited /\ Received.kind = "result"
    /\ expired' = FALSE
    /\ pc' = "turn"
    /\ UNCHANGED <<requestVars, thread, turns, exit, agentVars, asked>>

(* An error response, or a request of the agent that happens to have the id. *)
Refused ==
    /\ Receives /\ Awaited /\ Received.kind # "result"
    /\ RequestFails
    /\ UNCHANGED <<requestVars, turnVars, agentVars, asked>>

(* handle_server_request begins to write its reply; whatever it says, the   *)
(* request stays in hand until the reply is out.                            *)
Serve ==
    /\ Takes /\ ~Awaited /\ Received.kind \in {"ask", "input"}
    /\ writing' = "reply"
    /\ UNCHANGED <<pc, method, next_id, turnVars, exit, cancelled, incoming, agentVars, asked>>

(* What a session goes on after: notifications, responses nobody waits for, *)
(* the end of a stream while the process is still there, and, in `request`, *)
(* the report of a completed turn.                                          *)
Passing(m) ==
    \/ m.kind \in {"result", "error", "other"}
    \/ m.kind = "completed" /\ pc = "request"
    \/ m.kind = "closed" /\ child # "exited"

PassOver ==
    /\ Receives /\ ~Awaited /\ Passing(Received)
    /\ UNCHANGED <<pc, exit, requestVars, turnVars, agentVars, asked>>

(* What ends a session: the turn failed or was cancelled by the agent, or a *)
(* stream ended and the process is gone or cannot be looked for.            *)
Breaks(m) == m.kind \in {"failed", "cancelled", "closed"}

BreakOff ==
    /\ Receives /\ ~Awaited /\ Breaks(Received)
    /\ SessionFails
    /\ UNCHANGED <<requestVars, turnVars, agentVars, asked>>

(* A message is summed up for the scheduler, which cuts long texts at a     *)
(* byte: inside of a character the task dies, and the session with it.      *)
Panics ==
    /\ Receives
    /\ IF Awaited THEN method = "turn/start" /\ Received.kind = "result"
                  ELSE Received.kind \in {"completed", "failed", "cancelled", "other"}
    /\ pc' = "panicked"
    /\ UNCHANGED <<exit, requestVars, turnVars, agentVars, asked>>

(* Both readers have ended and everything they sent was received. *)
StreamsGone_Completes ==
    /\ Listens /\ incoming = <<>> /\ open = {}
    /\ IF pc = "request" THEN RequestFails ELSE pc' = "fetch" /\ UNCHANGED exit
    /\ UNCHANGED <<requestVars, turnVars, cancelled, incoming, agentVars, asked>>

StreamsGone ==
    /\ Listens /\ incoming = <<>> /\ open = {}
    /\ SessionFails
    /\ UNCHANGED <<requestVars, turnVars, cancelled, incoming, agentVars, asked>>

(* No message came for read_timeout_ms; the wait starts again with every    *)
(* message. A reader that is still writing its log may hold messages back.  *)
RequestTimesOut ==
    /\ pc = "request" /\ Listens
    /\ RequestFails
    /\ UNCHANGED <<requestVars, turnVars, cancelled, incoming, agentVars, asked>>

-----------------------------------------------------------------------------
(* Writing: write_json waits until the agent's stdin has taken the line, or *)
(* fails as nobody holds its other end. Meanwhile nothing is received, and  *)
(* neither the token nor a timeout or deadline is looked at.                *)

RequestWritten ==
    /\ writing = "request"
    /\ writing' = "nothing"
    /\ pending' = IF child = "running" THEN next_id - 1 ELSE pending
    /\ unreported' = (method = "turn/start" /\ child = "running")
    /\ UNCHANGED <<pc, method, next_id, turnVars, exit, cancelled, incoming, processVars, open,
                   completed, asked>>

ReplyWritten_ApprovalsOnly ==
    /\ writing = "reply"
    /\ writing' = "nothing"
    /\ incoming' = Tail(incoming)
    /\ asked' \in {asked, asked \ {Received.id}}
    /\ IF Received.kind = "ask" THEN UNCHANGED <<pc, exit>> ELSE SessionFails
    /\ UNCHANGED <<method, next_id, turnVars, cancelled, agentVars>>

(* The agent has its reply. The session goes on, unless the user was asked. *)
ReplyWritten ==
    /\ writing = "reply"
    /\ writing' = "nothing"
    /\ incoming' = Tail(incoming)
    /\ asked' = asked \ {Received.id}
    /\ \/ Received.kind = "ask" /\ UNCHANGED <<pc, exit>>
       \/ Received.kind = "input" /\ SessionFails
       \/ pc' = "panicked" /\ UNCHANGED exit
    /\ UNCHANGED <<method, next_id, turnVars, cancelled, agentVars>>

WriteFails ==
    /\ writing # "nothing"
    /\ writing' = "nothing"
    /\ incoming' = IF writing = "reply" THEN Tail(incoming) ELSE incoming
    /\ SessionFails
    /\ UNCHANGED <<method, next_id, turnVars, cancelled, agentVars, asked>>

-----------------------------------------------------------------------------
(* The turns. *)

BeginTurn ==
    /\ pc = "loop"
    /\ turns' = turns + 1
    /\ IF thread THEN Send("turn/start") ELSE Quit("failed") /\ UNCHANGED requestVars
    /\ UNCHANGED <<thread, expired, cancelled, incoming, agentVars, asked>>

(* Only the first prompt is rendered from the template. *)
RenderFails ==
    /\ pc = "loop" /\ turns = 0
    /\ turns' = turns + 1
    /\ exit' = "failed" /\ pc' = "shutdown"
    /\ UNCHANGED <<requestVars, thread, expired, cancelled, incoming, agentVars, asked>>

(* select! takes the branch of the token: the agent is killed at once, or   *)
(* that fails without a word and is left to shutdown.                       *)
TurnCancelled ==
    /\ pc = "turn" /\ Listens /\ cancelled
    /\ child' \in {child, "exited"}
    /\ Quit("failed")
    /\ UNCHANGED <<requestVars, turnVars, cancelled, incoming, unstopped, open, pending,
                   unreported, completed, asked>>

TurnTimesOut_WhenSilent ==
    /\ pc = "turn" /\ Listens /\ expired /\ incoming = <<>>
    /\ Quit("timed_out")
    /\ UNCHANGED <<requestVars, turnVars, cancelled, incoming, agentVars, asked>>

TurnTimesOut ==
    /\ pc = "turn" /\ Listens /\ expired
    /\ Quit("timed_out")
    /\ UNCHANGED <<requestVars, turnVars, cancelled, incoming, agentVars, asked>>

CompleteTurn ==
    /\ pc = "turn"
    /\ Receives /\ Received.kind = "completed"
    /\ IF cancelled THEN Quit("canceled") ELSE pc' = "fetch" /\ UNCHANGED exit
    /\ UNCHANGED <<requestVars, turnVars, agentVars, asked>>

FetchState_OffByOne ==
    /\ pc = "fetch"
    /\ \/ pc' = "shutdown" /\ exit' = "failed"
       \/ pc' = "shutdown" /\ UNCHANGED exit
       \/ turns <= MaxTurns /\ pc' = "loop" /\ UNCHANGED exit
    /\ UNCHANGED <<requestVars, turnVars, cancelled, incoming, agentVars, asked>>

(* The issue is fetched again: an issue no query returns keeps the state it *)
(* had, and the token is not looked at.                                     *)
FetchState ==
    /\ pc = "fetch"
    /\ \/ pc' = "shutdown" /\ exit' = "failed"
       \/ pc' = "shutdown" /\ UNCHANGED exit
       \/ turns < MaxTurns /\ pc' = "loop" /\ UNCHANGED exit
    /\ UNCHANGED <<requestVars, turnVars, cancelled, incoming, agentVars, asked>>

Shutdown_OnSuccess ==
    /\ pc = "shutdown"
    /\ pc' = "after_run"
    /\ child' = IF exit = "succeeded" THEN "exited" ELSE child
    /\ UNCHANGED <<requestVars, turnVars, exit, cancelled, incoming, unstopped, open, pending,
                   asked, unreported, completed>>

(* Looking whether the process is still there may fail, and then nothing is *)
(* done about it; so may the kill. A warning at most, and the run goes on.  *)
Shutdown ==
    /\ pc = "shutdown"
    /\ pc' = "after_run"
    /\ \/ child' = "exited" /\ UNCHANGED unstopped
       \/ unstopped' = TRUE /\ UNCHANGED child
    /\ UNCHANGED <<requestVars, turnVars, exit, cancelled, incoming, open, pending, asked,
                   unreported, completed>>

AfterRun_Fails ==
    /\ pc = "after_run"
    /\ pc' = "report"
    /\ exit' \in {exit, "failed"}
    /\ UNCHANGED <<requestVars, turnVars, cancelled, incoming, agentVars, asked>>

(* The hook's failure is logged, and changes nothing. *)
AfterRun ==
    /\ pc = "after_run"
    /\ pc' = "report"
    /\ UNCHANGED <<requestVars, turnVars, exit, cancelled, incoming, agentVars, asked>>

(* The outcome goes to the scheduler, and the task ends. *)
Report ==
    /\ pc = "report"
    /\ pc' = "done"
    /\ UNCHANGED <<requestVars, turnVars, exit, cancelled, incoming, agentVars, asked>>

-----------------------------------------------------------------------------
(* Around the worker: the scheduler's token, time, and the agent. *)

Cancel ==
    /\ ~cancelled
    /\ cancelled' = TRUE
    /\ UNCHANGED <<pc, requestVars, turnVars, exit, incoming, agentVars, asked>>

DeadlinePasses ==
    /\ pc = "turn" /\ ~expired
    /\ expired' = TRUE
    /\ UNCHANGED <<pc, requestVars, thread, turns, exit, cancelled, incoming, agentVars, asked>>

Emits(m) ==
    /\ Len(incoming) < MaxQueued
    /\ incoming' = Append(incoming, m)
    /\ UNCHANGED <<pc, requestVars, turnVars, exit, cancelled>>

Speaks == child = "running" /\ "stdout" \in open

AgentAnswers ==
    /\ Speaks /\ pending # 0
    /\ \E k \in {"result", "error"} : Emits([kind |-> k, id |-> pending])
    /\ pending' = 0
    /\ UNCHANGED <<processVars, open, unreported, completed, asked>>

AgentAsks ==
    /\ Speaks
    /\ \E i \in ServerId \ asked, k \in {"ask", "input"} :
         Emits([kind |-> k, id |-> i]) /\ asked' = asked \union {i}
    /\ UNCHANGED agentVars

(* The end of a turn may be reported even before its start is answered. *)
AgentEndsTurn ==
    /\ Speaks /\ unreported
    /\ unreported' = FALSE
    /\ \E k \in {"completed", "failed", "cancelled"} :
         /\ Emits(Note(k))
         /\ completed' = IF k = "completed" THEN completed + 1 ELSE completed
    /\ UNCHANGED <<processVars, open, pending, asked>>

AgentChats ==
    /\ child = "running" /\ open # {}
    /\ Emits(Note("other"))
    /\ UNCHANGED <<agentVars, asked>>

AgentExits ==
    /\ child = "running"
    /\ child' = "exited"
    /\ UNCHANGED <<pc, requestVars, turnVars, exit, cancelled, incoming, unstopped, open, pending,
                   unreported, completed, asked>>

(* A reader meets the end of its stream, before or after the process is     *)
(* seen to be gone.                                                         *)
StreamCloses ==
    /\ \E s \in open : open' = open \ {s}
    /\ incoming' = Append(incoming, Note("closed"))
    /\ UNCHANGED <<pc, requestVars, turnVars, exit, cancelled, processVars, pending, unreported,
                   completed, asked>>

(* A reader gives its stream up on an error (a line of stderr that is not   *)
(* UTF-8 is one): it reports the error, and no end of the stream follows.   *)
ReaderFails ==
    /\ \E s \in open : open' = open \ {s}
    /\ incoming' = Append(incoming, Note("other"))
    /\ UNCHANGED <<pc, requestVars, turnVars, exit, cancelled, processVars, pending, unreported,
                   completed, asked>>

-----------------------------------------------------------------------------
Receive ==
    \/ AcceptInitialize \/ AcceptThread \/ AcceptTurn \/ Refused
    \/ Serve \/ PassOver \/ BreakOff \/ CompleteTurn \/ Panics

Write == RequestWritten \/ ReplyWritten \/ WriteFails

Proceed ==
    \/ EnsureWorkspace \/ BeforeRun \/ Spawn \/ SpawnFails
    \/ BeginTurn \/ RenderFails \/ FetchState
    \/ Shutdown \/ AfterRun \/ Report \/ HookPanics

Agent ==
    \/ AgentAnswers \/ AgentAsks \/ AgentEndsTurn \/ AgentChats \/ AgentExits
    \/ StreamCloses \/ ReaderFails

Next ==
    \/ Proceed
    \/ Receive \/ Write
    \/ StreamsGone \/ RequestTimesOut \/ TurnCancelled \/ TurnTimesOut
    \/ Cancel \/ DeadlinePasses
    \/ Agent

Spec == Init /\ [][Next]_vars
-----------------------------------------------------------------------------
(* Safety. *)

(* Only a run whose token is set ends as canceled, also when the agent      *)
(* itself reports its turn as cancelled: the scheduler relies on it         *)
(* (src/src/agent.rs:250-258, src/src/orchestrator.rs:394).                 *)
CanceledByToken == exit = "canceled" => cancelled

(* A turn that ends in an error, or by completion, after the token was set  *)
(* counts as canceled and never as a failure or a timeout of the agent.     *)
TokenWins ==
    [][(cancelled /\ pc \in {"request", "turn"} /\ method = "turn/start" /\ pc' = "shutdown")
       => exit' = "canceled"]_vars

(* Whichever way an established session was left, with a kill before that   *)
(* or without, its process runs on during the after_run hook and after the  *)
(* report only if shutdown itself tried to stop it and failed: a failure    *)
(* the worker only warns of (296-298, 507-512). Else the next run finds     *)
(* the workspace to itself. (A session that fails to start, or whose task   *)
(* panics, leaves its process running: 193-216, 995.)                       *)
GoneUnlessStopFailed ==
    pc \in {"after_run", "report", "done"} /\ turns > 0 /\ child = "running" => unstopped

(* While a session goes on, the agent waits for no reply that is not about  *)
(* to be sent: every request it made is answered once, still queued, or the *)
(* one being answered, in the middle of a turn as well as while a response  *)
(* is awaited (533-546, 690-767).                                           *)
NoRequestForgotten ==
    pc \in {"loop", "request", "turn", "fetch"} =>
      asked = {incoming[k].id : k \in {j \in DOMAIN incoming : incoming[j].kind \in {"ask", "input"}}}

(* A run is a success only if the agent completed every turn it was given.  *)
SuccessEarned == pc = "done" /\ exit = "succeeded" => turns > 0 /\ completed = turns

(* To the scheduler a worker is an outcome that is decided once, under the  *)
(* token it then finds, and reported as it was decided, whatever the agent, *)
(* the hook or a late token do in between (261-320); unless its task dies.  *)
Contract == INSTANCE WorkerContract WITH
    Outcome <- Exit, Canceled <- "canceled", Undecided <- "undecided", Dead <- "dead",
    token <- cancelled,
    decided <- IF pc \in {"shutdown", "after_run", "report", "done"} THEN exit
               ELSE IF pc = "panicked" THEN "dead" ELSE "undecided",
    reported <- pc = "done"

ContractSpec == Contract!ContractSpec

-----------------------------------------------------------------------------
(* Liveness. *)

(* The worker's own steps happen, a received message is handled, and time   *)
(* passes: a silent request times out and a turn's deadline comes. Nothing  *)
(* is assumed of the agent, not even that it reads.                         *)
Fairness ==
    /\ WF_vars(Proceed)
    /\ WF_vars(Receive)
    /\ WF_vars(StreamsGone)
    /\ WF_vars(incoming = <<>> /\ RequestTimesOut)
    /\ WF_vars(DeadlinePasses)
    /\ WF_vars(TurnTimesOut)
    /\ WF_vars(TurnCancelled)

FairSpec == Spec /\ Fairness

(* Every worker reports an outcome, what the scheduler needs of it as it    *)
(* keeps the issue's slot until then (102-113, 260-320), whatever failed    *)
(* before, unless it panics (995), with two exceptions. One is an agent     *)
(* that talks for ever while a response is awaited, so that the wait starts *)
(* again with each of its messages (526-530); a turn is no such exception,  *)
(* as its deadline is absolute (470-480). The other is an agent that for    *)
(* ever neither reads its stdin nor closes it: a write has no timeout and   *)
(* looks at no token (571-577).                                             *)
WorkerEnds ==
    \/ <>(pc \in {"done", "panicked"})
    \/ <>[](pc = "request") /\ []<><<Receive>>_vars
    \/ <>[](writing # "nothing")

(* "so the orchestrator can cancel it" (41): a worker whose token is set    *)
(* comes to an end, if the agent takes what is written to it. It fails in   *)
(* `request`, which does not look at the token and whose timeout starts     *)
(* again with every message (527-530).                                      *)
CancelEnds == []<>(writing = "nothing") => (cancelled ~> (pc \in {"done", "panicked"}))
=============================================================================
