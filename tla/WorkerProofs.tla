---------------------------- MODULE WorkerProofs ----------------------------
(***************************************************************************)
(* Proofs about one worker and its session, for any number of turns, any   *)
(* ids the agent may use and any agent: types, the outcome and what it     *)
(* says of the token and of the turns, the requests of the agent, and the  *)
(* contract the scheduler relies on.                                       *)
(***************************************************************************)
EXTENDS Worker, TLAPS

-----------------------------------------------------------------------------
(* Channels. *)

(* Receiving drops the first message and moves the others up by one. *)
LEMMA TailFacts ==
    ASSUME NEW S, NEW q \in Seq(S), q # <<>>
    PROVE  /\ Len(q) \in Nat \ {0} /\ DOMAIN q = 1 .. Len(q)
           /\ Head(q) = q[1] /\ Head(q) \in S
           /\ Tail(q) \in Seq(S) /\ Len(Tail(q)) = Len(q) - 1
           /\ DOMAIN Tail(q) = 1 .. Len(q) - 1
           /\ \A k \in DOMAIN Tail(q) : k + 1 \in DOMAIN q /\ Tail(q)[k] = q[k + 1]
           /\ \A k \in DOMAIN q : k = 1 \/ (k - 1 \in DOMAIN Tail(q) /\ Tail(q)[k - 1] = q[k])
  OBVIOUS

(* The message to be received next is one of the channel's.                 *)
LEMMA HeadFacts == ASSUME NEW S, NEW q \in Seq(S), q # <<>> PROVE Head(q) \in S
  OBVIOUS

(* Sending leaves the queued messages in place and adds one at the end. *)
LEMMA AppendFacts ==
    ASSUME NEW S, NEW q \in Seq(S), NEW m \in S
    PROVE  /\ Len(q) \in Nat /\ DOMAIN q = 1 .. Len(q)
           /\ Append(q, m) \in Seq(S)
           /\ DOMAIN Append(q, m) = 1 .. Len(q) + 1
           /\ Append(q, m)[Len(q) + 1] = m
           /\ \A k \in DOMAIN q : k \in DOMAIN Append(q, m) /\ Append(q, m)[k] = q[k]
           /\ \A k \in DOMAIN Append(q, m) : k \in DOMAIN q \/ k = Len(q) + 1
  OBVIOUS

USE DEF Exit, Method, Step, Stream, Kind, processVars

-----------------------------------------------------------------------------
(* Types. The ids of the worker's requests number its turns, which is what  *)
(* bounds them.                                                             *)

(* Until the agent is started there is nothing of it.                       *)
Unstarted == pc \in {"workspace", "before_run", "spawn"}

NothingYet ==
    Unstarted =>
        /\ child = "none" /\ open = {} /\ incoming = <<>> /\ asked = {}
        /\ method = "initialize" /\ next_id = 1

(* What is being written is a request, or the reply to the request in hand. *)
WritingInv ==
    /\ writing # "nothing" => pc \in {"request", "turn"}
    /\ writing = "request" => pc = "request"
    /\ writing = "reply" => incoming # <<>> /\ Head(incoming).kind \in {"ask", "input"}

Numbered ==
    /\ method = "initialize" =>
         /\ next_id \in {1, 2} /\ turns = 0
         /\ pc = "request" => next_id = 2
    /\ method = "thread/start" =>
         /\ next_id = 3 /\ turns \in {0, 1}
         /\ pc \in {"request", "loop"} => turns = 0
    /\ method = "turn/start" => next_id = turns + 3 /\ turns > 0 /\ thread
    /\ pc = "loop" => turns < MaxTurns /\ method # "initialize"
    /\ pc \in {"turn", "fetch"} => method = "turn/start"
    /\ pending < next_id
    /\ completed <= turns /\ (unreported => completed < turns)
    /\ writing = "request" /\ method = "turn/start" => completed < turns /\ ~unreported

TypeInv == TypeOK /\ NothingYet /\ WritingInv /\ Numbered

-----------------------------------------------------------------------------
(* What else is known of a session. *)

InSession == pc \in {"request", "loop", "turn", "fetch"}
Decided == pc \in {"shutdown", "after_run", "report", "done"}

(* Nothing is decided before the session is left; what is decided then is   *)
(* true of the token and of the turns, and of the agent.                    *)
OutcomeInv ==
    /\ ~Decided /\ pc # "panicked" => exit = "succeeded"
    /\ CanceledByToken
    /\ Decided /\ exit = "succeeded" => turns > 0 /\ completed = turns
    /\ GoneUnlessStopFailed

(* Of the report that the turn was completed there is one in the queue at   *)
(* most, about the present turn; where no turn is under way all the turns   *)
(* so far were completed.                                                   *)
EndReported(k) == incoming[k].kind = "completed"

EndsInv ==
    InSession =>
        /\ \A j, k \in DOMAIN incoming : EndReported(j) /\ EndReported(k) => j = k
        /\ \A k \in DOMAIN incoming : EndReported(k) =>
             pc \in {"request", "turn"} /\ method = "turn/start" /\ completed = turns
        /\ pc \in {"loop", "fetch"} => completed = turns
        /\ method = "turn/start" => completed + 1 >= turns

(* Requests of the agent are in the queue once, and all those it waits for. *)
Asks(k) == incoming[k].kind \in {"ask", "input"}

AsksInv ==
    InSession =>
        /\ \A j, k \in DOMAIN incoming :
             Asks(j) /\ Asks(k) /\ incoming[j].id = incoming[k].id => j = k
        /\ \A i : i \in asked <=> \E k \in DOMAIN incoming : Asks(k) /\ incoming[k].id = i

-----------------------------------------------------------------------------
(* Types, step by step. *)

LEMMA NoteType == \A k \in Kind : Note(k) \in Message
  BY DEF Note, Message

LEMMA TypeInit == Init => TypeInv
<1> SUFFICES ASSUME Init PROVE TypeInv
  OBVIOUS
<1>1. incoming \in Seq(Message)
  BY DEF Init
<1>2. next_id \in 1 .. MaxTurns + 3 /\ turns \in 0 .. MaxTurns
      /\ pending \in 0 .. MaxTurns + 2 /\ completed \in 0 .. MaxTurns
  BY WorkerAssumption DEF Init
<1>3. TypeOK
  BY <1>1, <1>2, Zenon DEF Init, TypeOK
<1> QED
  BY <1>3 DEF Init, TypeInv, NothingYet, Unstarted, WritingInv, Numbered

(* Receiving takes a message out of the queue. *)
LEMMA ReceivesType ==
    ASSUME TypeInv, Receives
    PROVE  /\ incoming' \in Seq(Message) /\ Received \in Message
           /\ cancelled' = cancelled /\ pc \in {"request", "turn"}
  BY TailFacts, HeadFacts DEF TypeInv, TypeOK, Receives, Takes, Listens, Received

(* The actions of the worker before and after its session.                  *)
LEMMA ProceedType == ASSUME TypeInv, EndsInv, Proceed PROVE TypeInv'
<1> USE WorkerAssumption DEF TypeInv, TypeOK, NothingYet, Unstarted, WritingInv, Numbered
<1>1. CASE EnsureWorkspace
  BY <1>1 DEF EnsureWorkspace, requestVars, turnVars, agentVars
<1>2. CASE BeforeRun
  BY <1>2 DEF BeforeRun, requestVars, turnVars, agentVars
<1>3. CASE Spawn
  BY <1>3 DEF Spawn, Send, turnVars
<1>4. CASE SpawnFails
  BY <1>4 DEF SpawnFails, StartFails, requestVars, turnVars, agentVars
<1>5. CASE BeginTurn
  <2>1. CASE thread
    BY <1>5, <2>1 DEF BeginTurn, Send, agentVars, EndsInv, InSession
  <2>2. CASE ~thread
    BY <1>5, <2>2 DEF BeginTurn, Quit, requestVars, agentVars
  <2> QED
    BY <2>1, <2>2
<1>6. CASE RenderFails
  BY <1>6 DEF RenderFails, requestVars, agentVars
<1>7. CASE FetchState
  BY <1>7 DEF FetchState, requestVars, turnVars, agentVars
<1>8. CASE Shutdown
  <2>1. child' \in {"none", "running", "exited"} /\ unstopped' \in BOOLEAN
    BY <1>8 DEF Shutdown
  <2> QED
    BY <1>8, <2>1 DEF Shutdown, requestVars, turnVars
<1>9. CASE AfterRun
  BY <1>9 DEF AfterRun, requestVars, turnVars, agentVars
<1>10. CASE Report
  BY <1>10 DEF Report, requestVars, turnVars, agentVars
<1>11. CASE HookPanics
  BY <1>11 DEF HookPanics, requestVars, turnVars, agentVars
<1> QED
  BY <1>1, <1>2, <1>3, <1>4, <1>5, <1>6, <1>7, <1>8, <1>9, <1>10, <1>11 DEF Proceed

(* The actions that receive a message.                                      *)
LEMMA ReceiveType == ASSUME TypeInv, Receive PROVE TypeInv'
<1>1. CASE Serve
  BY <1>1 DEF Serve, Takes, Listens, Received, TypeInv, TypeOK, NothingYet, Unstarted, WritingInv,
              Numbered, turnVars, agentVars
<1>2. CASE Receives
  <2>1. incoming' \in Seq(Message) /\ cancelled' = cancelled /\ pc \in {"request", "turn"}
        /\ writing = "nothing"
    BY <1>2, ReceivesType DEF Receives, Takes, Listens
  <2> USE WorkerAssumption, <2>1 DEF TypeInv, TypeOK, NothingYet, Unstarted, WritingInv, Numbered
  <2>2. CASE AcceptInitialize
    BY <2>2 DEF AcceptInitialize, Awaited, Send, turnVars, agentVars
  <2>3. CASE AcceptThread
    BY <2>3 DEF AcceptThread, Awaited, requestVars, agentVars
  <2>4. CASE AcceptTurn
    BY <2>4 DEF AcceptTurn, Awaited, requestVars, agentVars
  <2>5. CASE Refused
    BY <2>5 DEF Refused, Awaited, RequestFails, StartFails, Quit, requestVars, turnVars, agentVars
  <2>6. CASE PassOver \/ Panics
    <3>1. UNCHANGED <<exit, requestVars, turnVars, agentVars, asked>> /\ pc' \in {pc, "panicked"}
      BY <2>6 DEF PassOver, Panics
    <3> QED
      BY <3>1 DEF requestVars, turnVars, agentVars
  <2>7. CASE BreakOff
    BY <2>7 DEF BreakOff, SessionFails, RequestFails, StartFails, Quit, requestVars, turnVars,
                agentVars
  <2>8. CASE CompleteTurn
    BY <2>8 DEF CompleteTurn, Quit, requestVars, turnVars, agentVars
  <2>9. ~Serve
    <3>1. Tail(incoming) # incoming
      BY <1>2, TailFacts DEF Receives, Takes
    <3> QED
      BY <1>2, <3>1 DEF Serve, Receives
  <2> QED
    BY <2>2, <2>3, <2>4, <2>5, <2>6, <2>7, <2>8, <2>9 DEF Receive
<1> QED
  BY <1>1, <1>2 DEF Receive, AcceptInitialize, AcceptThread, AcceptTurn, Refused, PassOver, BreakOff,
                    CompleteTurn, Panics

(* The ends of a write. *)
LEMMA WriteType == ASSUME TypeInv, Write PROVE TypeInv'
<1> USE WorkerAssumption
<1>1. CASE RequestWritten
  <2> USE DEF TypeInv, TypeOK, NothingYet, Unstarted, WritingInv, Numbered
  <2>1. pending' \in 0 .. MaxTurns + 2 /\ pending' < next_id /\ unreported' \in BOOLEAN
    BY <1>1 DEF RequestWritten
  <2> QED
    BY <1>1, <2>1 DEF RequestWritten, turnVars
<1>2. CASE ReplyWritten \/ (WriteFails /\ writing = "reply")
  <2>1. /\ writing = "reply" /\ writing' = "nothing" /\ incoming # <<>>
        /\ incoming \in Seq(Message) /\ incoming' = Tail(incoming)
        /\ asked' \subseteq asked /\ asked \subseteq ServerId
        /\ UNCHANGED <<method, next_id, turnVars, cancelled, agentVars>>
    BY <1>2 DEF ReplyWritten, WriteFails, TypeInv, TypeOK, WritingInv
  <2>2. incoming' \in Seq(Message) /\ asked' \subseteq ServerId
    BY <2>1, TailFacts
  <2>3. pc \in {"request", "turn"}
        /\ (UNCHANGED <<pc, exit>> \/ SessionFails \/ (pc' = "panicked" /\ UNCHANGED exit))
    BY <1>2, <2>1 DEF ReplyWritten, WriteFails, TypeInv, WritingInv
  <2> USE DEF TypeInv, TypeOK, NothingYet, Unstarted, WritingInv, Numbered, turnVars, agentVars
  <2>4. CASE UNCHANGED <<pc, exit>> \/ (pc' = "panicked" /\ UNCHANGED exit)
    BY <2>1, <2>2, <2>3, <2>4
  <2>5. CASE SessionFails
    BY <2>1, <2>2, <2>3, <2>5 DEF SessionFails, RequestFails, StartFails, Quit
  <2> QED
    BY <2>3, <2>4, <2>5
<1>3. CASE WriteFails /\ writing = "request"
  BY <1>3 DEF WriteFails, SessionFails, RequestFails, StartFails, Quit, turnVars, agentVars, TypeInv,
              TypeOK, NothingYet, Unstarted, WritingInv, Numbered
<1> QED
  BY <1>1, <1>2, <1>3 DEF Write, WriteFails, TypeInv, TypeOK

(* Ends of a session that no message brings, the token and the deadline.    *)
LEMMA OtherType ==
    ASSUME TypeInv,
           StreamsGone \/ RequestTimesOut \/ TurnCancelled \/ TurnTimesOut \/ Cancel \/ DeadlinePasses
    PROVE  TypeInv'
<1> USE WorkerAssumption DEF TypeInv, TypeOK, NothingYet, Unstarted, WritingInv, Numbered
<1>1. CASE StreamsGone
  BY <1>1 DEF StreamsGone, Listens, SessionFails, RequestFails, StartFails, Quit, requestVars, turnVars,
              agentVars
<1>2. CASE RequestTimesOut
  BY <1>2 DEF RequestTimesOut, Listens, RequestFails, StartFails, Quit, requestVars, turnVars, agentVars
<1>3. CASE TurnCancelled
  BY <1>3 DEF TurnCancelled, Listens, Quit, requestVars, turnVars
<1>4. CASE TurnTimesOut
  BY <1>4 DEF TurnTimesOut, Listens, Quit, requestVars, turnVars, agentVars
<1>5. CASE Cancel
  BY <1>5 DEF Cancel, requestVars, turnVars, agentVars
<1>6. CASE DeadlinePasses
  BY <1>6 DEF DeadlinePasses, requestVars, agentVars
<1> QED
  BY <1>1, <1>2, <1>3, <1>4, <1>5, <1>6

(* What the agent and its readers do. *)
LEMMA AgentType == ASSUME TypeInv, Agent PROVE TypeInv'
<1> USE WorkerAssumption
    DEF TypeInv, TypeOK, NothingYet, Unstarted, WritingInv, Numbered
<1>1. CASE AgentAnswers
  <2>1. \A k \in {"result", "error"} : [kind |-> k, id |-> pending] \in Message
    BY DEF Message
  <2>2. incoming' \in Seq(Message) /\ ~Unstarted
    BY <1>1, <2>1, AppendFacts DEF AgentAnswers, Speaks, Emits
  <2> QED
    BY <1>1, <2>2 DEF AgentAnswers, Emits, requestVars, turnVars
<1>2. CASE AgentAsks
  <2>1. \A i \in ServerId, k \in {"ask", "input"} : [kind |-> k, id |-> i] \in Message
    BY DEF Message
  <2>2. PICK i \in ServerId \ asked, k \in {"ask", "input"} :
          Emits([kind |-> k, id |-> i]) /\ asked' = asked \union {i}
    BY <1>2 DEF AgentAsks
  <2>3. incoming' \in Seq(Message)
    <3>1. [kind |-> k, id |-> i] \in Message /\ incoming \in Seq(Message)
      BY <2>1
    <3>2. incoming' = Append(incoming, [kind |-> k, id |-> i])
      BY <2>2 DEF Emits
    <3> QED
      BY <3>1, <3>2, AppendFacts
  <2>4. ~Unstarted /\ asked' \subseteq ServerId
    BY <1>2, <2>2 DEF AgentAsks, Speaks
  <2> QED
    BY <1>2, <2>2, <2>3, <2>4 DEF AgentAsks, Emits, requestVars, turnVars, agentVars
<1>3. CASE AgentEndsTurn
  <2>1. incoming' \in Seq(Message) /\ ~Unstarted
    BY <1>3, AppendFacts, NoteType DEF AgentEndsTurn, Speaks, Emits
  <2>2. completed' \in {completed, completed + 1} /\ unreported /\ unreported' = FALSE
    BY <1>3 DEF AgentEndsTurn
  <2>3. UNCHANGED <<pc, requestVars, turnVars, exit, cancelled, processVars, open, pending, asked>>
    BY <1>3 DEF AgentEndsTurn, Emits
  <2>4. completed' \in 0 .. MaxTurns /\ completed' <= turns
    BY <2>2
  <2>5. TypeOK'
    <3>1. unreported' \in BOOLEAN
      BY <2>2
    <3> QED
      BY <2>1, <2>3, <2>4, <3>1 DEF requestVars, turnVars
  <2>6. NothingYet'
    BY <2>1, <2>3 DEF requestVars, turnVars
  <2>7. Numbered'
    BY <2>2, <2>3, <2>4 DEF requestVars, turnVars
  <2>8. WritingInv'
    BY <1>3, <2>3, AppendFacts, NoteType DEF AgentEndsTurn, Emits, requestVars
  <2> QED
    BY <2>5, <2>6, <2>7, <2>8
<1>4. CASE AgentChats
  BY <1>4, AppendFacts, NoteType DEF AgentChats, Emits, requestVars, turnVars, agentVars
<1>5. CASE AgentExits
  BY <1>5 DEF AgentExits, requestVars, turnVars
<1>6. CASE StreamCloses
  BY <1>6, AppendFacts, NoteType DEF StreamCloses, requestVars, turnVars
<1>7. CASE ReaderFails
  BY <1>7, AppendFacts, NoteType DEF ReaderFails, requestVars, turnVars
<1> QED
  BY <1>1, <1>2, <1>3, <1>4, <1>5, <1>6, <1>7 DEF Agent

LEMMA TypeStep == TypeInv /\ EndsInv /\ [Next]_vars => TypeInv'
<1>1. TypeInv /\ UNCHANGED vars => TypeInv'
  BY DEF vars, requestVars, turnVars, agentVars, TypeInv, TypeOK, NothingYet, Unstarted, WritingInv,
         Numbered
<1> QED
  BY <1>1, ProceedType, ReceiveType, WriteType, OtherType, AgentType DEF Next

-----------------------------------------------------------------------------
(* The outcome. *)

LEMMA OutcomeInit == Init => OutcomeInv /\ EndsInv /\ AsksInv
  BY DEF Init, OutcomeInv, EndsInv, AsksInv, InSession, Decided, CanceledByToken, GoneUnlessStopFailed

(* Where the steps before, after and between the turns lead. *)
LEMMA OutcomeProceed == ASSUME TypeInv, OutcomeInv, EndsInv, Proceed PROVE OutcomeInv'
<1> USE DEF TypeInv, TypeOK, NothingYet, Unstarted, WritingInv, Numbered, OutcomeInv, Decided, CanceledByToken,
            GoneUnlessStopFailed
<1>1. CASE EnsureWorkspace
  BY <1>1 DEF EnsureWorkspace, requestVars, turnVars, agentVars
<1>2. CASE BeforeRun
  BY <1>2 DEF BeforeRun, requestVars, turnVars, agentVars
<1>3. CASE Spawn
  BY <1>3 DEF Spawn, Send, turnVars
<1>4. CASE SpawnFails
  BY <1>4 DEF SpawnFails, StartFails, requestVars, turnVars, agentVars
<1>5. CASE BeginTurn
  <2>1. /\ pc = "loop" /\ UNCHANGED <<cancelled, child, completed>>
        /\ \/ pc' = "request" /\ exit' = exit
           \/ pc' = "shutdown" /\ exit' = (IF cancelled THEN "canceled" ELSE "failed")
    BY <1>5 DEF BeginTurn, Send, Quit, agentVars
  <2> QED
    BY <2>1
<1>6. CASE RenderFails
  BY <1>6 DEF RenderFails, requestVars, agentVars
<1>7. CASE FetchState
  BY <1>7 DEF FetchState, requestVars, turnVars, agentVars, EndsInv, InSession
<1>8. CASE Shutdown
  BY <1>8 DEF Shutdown, requestVars, turnVars
<1>9. CASE AfterRun
  BY <1>9 DEF AfterRun, requestVars, turnVars, agentVars
<1>10. CASE Report
  BY <1>10 DEF Report, requestVars, turnVars, agentVars
<1>11. CASE HookPanics
  BY <1>11 DEF HookPanics, requestVars, turnVars, agentVars
<1> QED
  BY <1>1, <1>2, <1>3, <1>4, <1>5, <1>6, <1>7, <1>8, <1>9, <1>10, <1>11 DEF Proceed

(* A step that leaves the session does so with a failure, a timeout or, if  *)
(* the token is set, a cancellation; without a stop of the agent only       *)
(* before the first turn.                                                   *)
Leaves ==
    \/ /\ pc' = "shutdown" /\ exit' \in {"canceled", "failed", "timed_out"}
       /\ exit' = "canceled" => cancelled
    \/ pc' = "after_run" /\ exit' = "failed" /\ turns = 0
    \/ pc' = "panicked" /\ exit' = exit

Stays == pc' \in {"request", "loop", "turn", "fetch"} /\ exit' = exit

LEMMA LeavesOrStays ==
    ASSUME TypeInv,
           Receive \/ Write \/ StreamsGone \/ RequestTimesOut \/ TurnCancelled \/ TurnTimesOut
    PROVE  /\ pc \in {"request", "turn"} /\ (Leaves \/ Stays)
           /\ UNCHANGED <<cancelled, turns, completed>>
<1> USE DEF TypeInv, WritingInv, Numbered, Leaves, Stays, Receives, Takes, Listens, SessionFails,
            RequestFails, StartFails, Quit, requestVars, turnVars, agentVars
<1>1. CASE AcceptInitialize
  BY <1>1 DEF AcceptInitialize, Awaited, Send
<1>2. CASE AcceptThread \/ AcceptTurn
  BY <1>2 DEF AcceptThread, AcceptTurn
<1>3. CASE Refused \/ BreakOff
  BY <1>3 DEF Refused, BreakOff, Awaited, TypeOK
<1>4. CASE Serve \/ PassOver \/ Panics
  BY <1>4 DEF Serve, PassOver, Panics
<1>5. CASE CompleteTurn
  BY <1>5 DEF CompleteTurn
<1>6. CASE StreamsGone \/ RequestTimesOut
  BY <1>6 DEF StreamsGone, RequestTimesOut, TypeOK
<1>7. CASE TurnCancelled \/ TurnTimesOut
  BY <1>7 DEF TurnCancelled, TurnTimesOut
<1>8. CASE Write
  BY <1>8 DEF Write, RequestWritten, ReplyWritten, WriteFails, TypeOK
<1> QED
  BY <1>1, <1>2, <1>3, <1>4, <1>5, <1>6, <1>7, <1>8 DEF Receive

LEMMA OutcomeStep == ASSUME TypeInv, OutcomeInv, EndsInv, [Next]_vars PROVE OutcomeInv'
<1> USE DEF OutcomeInv, Decided, CanceledByToken, GoneUnlessStopFailed
<1>1. CASE Proceed
  BY <1>1, OutcomeProceed
<1>2. CASE Receive \/ Write \/ StreamsGone \/ RequestTimesOut \/ TurnCancelled \/ TurnTimesOut
  BY <1>2, LeavesOrStays DEF Leaves, Stays
<1>3. CASE Cancel \/ DeadlinePasses
  BY <1>3 DEF Cancel, DeadlinePasses, requestVars, turnVars, agentVars
<1>4. CASE AgentEndsTurn
  <2>1. /\ UNCHANGED <<pc, turns, exit, cancelled, child, unstopped>>
        /\ completed' \in {completed, completed + 1} /\ completed < turns
        /\ completed # turns
    BY <1>4 DEF TypeInv, TypeOK, Numbered, AgentEndsTurn, Emits, turnVars
  <2> QED
    BY <2>1
<1>5. CASE Agent /\ ~AgentEndsTurn
  <2>1. /\ UNCHANGED <<pc, turns, exit, cancelled, completed, unstopped>>
        /\ child' = "running" => child = "running"
    BY <1>5 DEF Agent, AgentAnswers, AgentAsks, AgentChats, AgentExits, StreamCloses, ReaderFails,
                Emits, agentVars, turnVars
  <2> QED
    BY <2>1
<1>6. CASE UNCHANGED vars
  BY <1>6 DEF vars, requestVars, turnVars, agentVars
<1> QED
  BY <1>1, <1>2, <1>3, <1>4, <1>5, <1>6 DEF Next

-----------------------------------------------------------------------------
(* The queue. *)

(* Receiving: what was behind the first message moves up. *)
LEMMA Received_Facts ==
    ASSUME TypeInv, incoming # <<>>, incoming' = Tail(incoming)
    PROVE  /\ 1 \in DOMAIN incoming /\ incoming[1] = Received
           /\ \A k \in DOMAIN incoming' :
                k \in Int /\ k + 1 \in DOMAIN incoming /\ k + 1 # 1 /\ incoming'[k] = incoming[k + 1]
           /\ \A k \in DOMAIN incoming :
                k = 1 \/ (k - 1 \in DOMAIN incoming' /\ incoming'[k - 1] = incoming[k])
<1>1. incoming \in Seq(Message)
  BY DEF TypeInv, TypeOK
<1> QED
  BY <1>1, TailFacts DEF Received

(* Sending: one message more, at the end. *)
LEMMA Emitted_Facts ==
    ASSUME TypeInv, NEW m \in Message, incoming' = Append(incoming, m)
    PROVE  \E n \in Nat :
             /\ DOMAIN incoming' = (DOMAIN incoming) \union {n} /\ n \notin DOMAIN incoming
             /\ incoming'[n] = m /\ \A k \in DOMAIN incoming : incoming'[k] = incoming[k]
<1>1. incoming \in Seq(Message)
  BY DEF TypeInv, TypeOK
<1>2. Len(incoming) + 1 \in Nat /\ Len(incoming) + 1 \notin DOMAIN incoming
      /\ DOMAIN incoming' = (DOMAIN incoming) \union {Len(incoming) + 1}
  BY <1>1, AppendFacts
<1> QED
  BY <1>1, <1>2, AppendFacts

(* When a report of a completed turn is received, none is left.             *)
LEMMA EndsReceived ==
    ASSUME TypeInv, EndsInv, pc \in {"request", "turn"},
           incoming # <<>>, incoming' = Tail(incoming)
    PROVE  /\ \A j, k \in DOMAIN incoming' : EndReported(j)' /\ EndReported(k)' => j = k
           /\ \A k \in DOMAIN incoming' : EndReported(k)' =>
                /\ Received.kind # "completed"
                /\ method = "turn/start" /\ completed = turns
<1>1. InSession
  BY DEF InSession
<1>2. \A k \in DOMAIN incoming' : EndReported(k)' => EndReported(k + 1)
  BY Received_Facts DEF EndReported
<1>3. Received.kind = "completed" => EndReported(1)
  BY Received_Facts DEF EndReported
<1>4. ASSUME NEW j \in DOMAIN incoming', NEW k \in DOMAIN incoming', EndReported(j)', EndReported(k)'
      PROVE  j = k
  <2>1. j + 1 = k + 1 /\ j \in Int /\ k \in Int
    BY <1>1, <1>2, <1>4, Received_Facts DEF EndsInv
  <2> QED
    BY <2>1
<1>5. ASSUME NEW k \in DOMAIN incoming', EndReported(k)'
      PROVE  Received.kind # "completed" /\ method = "turn/start" /\ completed = turns
  BY <1>1, <1>2, <1>3, <1>5, Received_Facts DEF EndsInv
<1> QED
  BY <1>4, <1>5

LEMMA EndsEmitted ==
    ASSUME TypeInv, EndsInv, InSession, NEW m \in Message, incoming' = Append(incoming, m),
           UNCHANGED <<pc, method, turns>>,
           \/ m.kind # "completed" /\ completed' = completed
           \/ m.kind = "completed" /\ completed < turns /\ completed' = completed + 1
    PROVE  EndsInv'
<1>1. PICK n \in Nat :
        /\ DOMAIN incoming' = (DOMAIN incoming) \union {n} /\ n \notin DOMAIN incoming
        /\ incoming'[n] = m /\ \A k \in DOMAIN incoming : incoming'[k] = incoming[k]
  BY Emitted_Facts
<1>2. CASE m.kind # "completed" /\ completed' = completed
  BY <1>1, <1>2 DEF EndsInv, EndReported, InSession
<1>3. CASE m.kind = "completed" /\ completed < turns /\ completed' = completed + 1
  <2>1. completed' = turns /\ completed # turns /\ method = "turn/start" /\ pc \in {"request", "turn"}
    BY <1>3 DEF TypeInv, TypeOK, Numbered, EndsInv, InSession
  <2>2. \A k \in DOMAIN incoming : ~EndReported(k)
    BY <2>1 DEF EndsInv
  <2> QED
    BY <1>1, <2>1, <2>2 DEF TypeInv, TypeOK, EndsInv, EndReported, InSession
<1> QED
  BY <1>2, <1>3

LEMMA AsksReceived ==
    ASSUME TypeInv, AsksInv, pc \in {"request", "turn"},
           incoming # <<>>, incoming' = Tail(incoming)
    PROVE  /\ \A j, k \in DOMAIN incoming' :
                Asks(j)' /\ Asks(k)' /\ incoming'[j].id = incoming'[k].id => j = k
           /\ \A i : (\E k \in DOMAIN incoming' : Asks(k)' /\ incoming'[k].id = i)
                     <=> i \in asked /\ (Received.kind \in {"ask", "input"} => i # Received.id)
<1>1. InSession
  BY DEF InSession
<1>2. \A k \in DOMAIN incoming' : Asks(k)' <=> Asks(k + 1)
  BY Received_Facts DEF Asks
<1>3. Received.kind \in {"ask", "input"} <=> Asks(1)
  BY Received_Facts DEF Asks
<1>4. ASSUME NEW j \in DOMAIN incoming', NEW k \in DOMAIN incoming',
             Asks(j)', Asks(k)', incoming'[j].id = incoming'[k].id
      PROVE  j = k
  <2>1. j + 1 = k + 1 /\ j \in Int /\ k \in Int
    BY <1>1, <1>2, <1>4, Received_Facts DEF AsksInv
  <2> QED
    BY <2>1
<1>5. ASSUME NEW i, NEW k \in DOMAIN incoming', Asks(k)', incoming'[k].id = i
      PROVE  i \in asked /\ (Received.kind \in {"ask", "input"} => i # Received.id)
  <2>1. k + 1 \in DOMAIN incoming /\ k + 1 # 1 /\ Asks(k + 1) /\ incoming[k + 1].id = i
        /\ 1 \in DOMAIN incoming /\ incoming[1] = Received
    BY <1>2, <1>5, Received_Facts
  <2> QED
    BY <1>1, <1>3, <2>1 DEF AsksInv
<1>6. ASSUME NEW i, i \in asked, Received.kind \in {"ask", "input"} => i # Received.id
      PROVE  \E k \in DOMAIN incoming' : Asks(k)' /\ incoming'[k].id = i
  <2>1. PICK k \in DOMAIN incoming : Asks(k) /\ incoming[k].id = i
    BY <1>1, <1>6 DEF AsksInv
  <2>2. k # 1
    BY <1>3, <1>6, <2>1, Received_Facts
  <2>3. k - 1 \in DOMAIN incoming' /\ incoming'[k - 1] = incoming[k]
    BY <2>2, Received_Facts
  <2> QED
    BY <2>1, <2>3 DEF Asks
<1> QED
  BY <1>4, <1>5, <1>6

LEMMA AsksEmitted ==
    ASSUME TypeInv, AsksInv, InSession, NEW m \in Message, incoming' = Append(incoming, m),
           UNCHANGED pc,
           \/ m.kind \notin {"ask", "input"} /\ asked' = asked
           \/ m.kind \in {"ask", "input"} /\ m.id \notin asked /\ asked' = asked \union {m.id}
    PROVE  AsksInv'
<1>1. PICK n \in Nat :
        /\ DOMAIN incoming' = (DOMAIN incoming) \union {n} /\ n \notin DOMAIN incoming
        /\ incoming'[n] = m /\ \A k \in DOMAIN incoming : incoming'[k] = incoming[k]
  BY Emitted_Facts
<1>2. /\ \A k \in DOMAIN incoming : (Asks(k)' <=> Asks(k)) /\ incoming'[k].id = incoming[k].id
      /\ Asks(n)' <=> m.kind \in {"ask", "input"}
  BY <1>1 DEF Asks
<1>3. \A j, k \in DOMAIN incoming' :
        Asks(j)' /\ Asks(k)' /\ incoming'[j].id = incoming'[k].id => j = k
  BY <1>1, <1>2 DEF AsksInv
<1>4. \A i : i \in asked' <=> \E k \in DOMAIN incoming' : Asks(k)' /\ incoming'[k].id = i
  BY <1>1, <1>2 DEF AsksInv
<1> QED
  BY <1>3, <1>4 DEF AsksInv

(* A session that goes on after a message that was dealt with: what the     *)
(* message was, and what became of the agent's requests.                    *)
LEMMA StaysAfter ==
    ASSUME TypeInv, (Receive /\ ~Serve) \/ ReplyWritten, InSession'
    PROVE  /\ pc \in {"request", "turn"} /\ incoming # <<>> /\ incoming' = Tail(incoming)
           /\ completed' = completed /\ turns' = turns
           /\ pc' = "loop" => method' = "thread/start" /\ turns = 0
           /\ pc' = "fetch" => Received.kind = "completed"
           /\ pc' \in {"request", "turn"} => method' = method \/ method' = "thread/start"
           /\ pc' = "turn" => method' = "turn/start"
           /\ method = "turn/start" => method' = "turn/start"
           /\ \/ Received.kind \notin {"ask", "input"} /\ asked' = asked
              \/ Received.kind = "ask" /\ asked' = asked \ {Received.id}
<1> USE DEF InSession, Receives, Takes, Listens, requestVars, turnVars, agentVars
<1>1. CASE AcceptInitialize
  BY <1>1 DEF AcceptInitialize, Send
<1>2. CASE AcceptThread
  BY <1>2 DEF AcceptThread, Awaited, TypeInv, Numbered
<1>3. CASE AcceptTurn
  BY <1>3 DEF AcceptTurn
<1>4. CASE Refused \/ BreakOff \/ Panics
  BY <1>4 DEF Refused, BreakOff, Panics, SessionFails, RequestFails, StartFails, Quit
<1>5. CASE ReplyWritten
  BY <1>5 DEF ReplyWritten, SessionFails, RequestFails, StartFails, Quit, TypeInv, WritingInv,
              Numbered
<1>6. CASE PassOver
  BY <1>6 DEF PassOver, Passing, TypeInv, Numbered
<1>7. CASE CompleteTurn
  BY <1>7 DEF CompleteTurn, Quit, TypeInv, Numbered
<1> QED
  BY <1>1, <1>2, <1>3, <1>4, <1>5, <1>6, <1>7 DEF Receive

(* The other steps of a session that leave its messages alone.              *)
LEMMA NoMessage ==
    ASSUME InSession',
           \/ Serve \/ RequestWritten \/ WriteFails \/ StreamsGone \/ RequestTimesOut
           \/ TurnCancelled \/ TurnTimesOut \/ Cancel \/ DeadlinePasses \/ UNCHANGED vars
    PROVE  UNCHANGED <<pc, method, turns, incoming, asked, completed>>
<1> USE DEF InSession, SessionFails, RequestFails, StartFails, Quit, requestVars, turnVars, agentVars
<1>1. CASE Serve \/ RequestWritten \/ WriteFails
  BY <1>1 DEF Serve, RequestWritten, WriteFails
<1>2. CASE StreamsGone \/ RequestTimesOut \/ TurnCancelled \/ TurnTimesOut
  BY <1>2 DEF StreamsGone, RequestTimesOut, TurnCancelled, TurnTimesOut
<1>3. CASE Cancel \/ DeadlinePasses \/ UNCHANGED vars
  BY <1>3 DEF Cancel, DeadlinePasses, vars
<1> QED
  BY <1>1, <1>2, <1>3

(* The steps of the worker that receive nothing and go on with the session. *)
LEMMA GoesOn ==
    ASSUME TypeInv, Proceed, InSession'
    PROVE  /\ incoming' = incoming /\ asked' = asked /\ completed' = completed
           /\ \/ Unstarted /\ pc' = "request" /\ method' = "initialize" /\ turns' = turns
              \/ pc = "loop" /\ pc' = "request" /\ method' = "turn/start" /\ turns' = turns + 1
              \/ pc = "fetch" /\ pc' = "loop" /\ method' = method /\ turns' = turns
<1> USE DEF InSession, Unstarted, requestVars, turnVars, agentVars
<1>1. CASE Spawn
  BY <1>1 DEF Spawn, Send
<1>2. CASE BeginTurn
  BY <1>2 DEF BeginTurn, Send, Quit
<1>3. CASE FetchState
  BY <1>3 DEF FetchState
<1>4. CASE EnsureWorkspace \/ BeforeRun \/ SpawnFails \/ RenderFails
  BY <1>4 DEF EnsureWorkspace, BeforeRun, SpawnFails, StartFails, RenderFails
<1>5. CASE Shutdown \/ AfterRun \/ Report \/ HookPanics
  BY <1>5 DEF Shutdown, AfterRun, Report, HookPanics
<1> QED
  BY <1>1, <1>2, <1>3, <1>4, <1>5 DEF Proceed

(* What the agent and its readers add to the queue. *)
LEMMA AgentSends ==
    ASSUME TypeInv, Agent
    PROVE  /\ UNCHANGED <<pc, method, turns>>
           /\ \/ UNCHANGED <<incoming, asked, completed>>
              \/ \E m \in Message :
                   /\ incoming' = Append(incoming, m)
                   /\ \/ m.kind # "completed" /\ completed' = completed
                      \/ m.kind = "completed" /\ completed < turns /\ completed' = completed + 1
                   /\ \/ m.kind \notin {"ask", "input"} /\ asked' = asked
                      \/ /\ m.kind \in {"ask", "input"} /\ m.id \notin asked
                         /\ asked' = asked \union {m.id}
<1> USE DEF Emits, requestVars, turnVars, agentVars
<1>1. CASE AgentAnswers
  <2>1. PICK k \in {"result", "error"} : Emits([kind |-> k, id |-> pending])
    BY <1>1 DEF AgentAnswers
  <2>2. [kind |-> k, id |-> pending] \in Message
    BY DEF TypeInv, TypeOK, Message
  <2> QED
    BY <1>1, <2>1, <2>2 DEF AgentAnswers
<1>2. CASE AgentAsks
  <2>1. PICK i \in ServerId \ asked, k \in {"ask", "input"} :
          Emits([kind |-> k, id |-> i]) /\ asked' = asked \union {i}
    BY <1>2 DEF AgentAsks
  <2>2. [kind |-> k, id |-> i] \in Message
    BY WorkerAssumption DEF Message
  <2> QED
    BY <1>2, <2>1, <2>2 DEF AgentAsks
<1>3. CASE AgentEndsTurn
  <2>1. PICK k \in {"completed", "failed", "cancelled"} :
          Emits(Note(k)) /\ completed' = IF k = "completed" THEN completed + 1 ELSE completed
    BY <1>3 DEF AgentEndsTurn
  <2>2. Note(k) \in Message /\ Note(k).kind = k
    BY DEF Message, Note
  <2> QED
    BY <1>3, <2>1, <2>2 DEF AgentEndsTurn, TypeInv, Numbered
<1>4. CASE AgentChats \/ StreamCloses \/ ReaderFails
  <2>1. \A k \in {"other", "closed"} : Note(k) \in Message /\ Note(k).kind = k
    BY DEF Message, Note
  <2> QED
    BY <1>4, <2>1 DEF AgentChats, StreamCloses, ReaderFails
<1>5. CASE AgentExits
  BY <1>5 DEF AgentExits
<1> QED
  BY <1>1, <1>2, <1>3, <1>4, <1>5 DEF Agent

(* The agent acts on the worker through the queue only. *)
LEMMA AgentApart == Agent => UNCHANGED <<pc, exit, cancelled>>
<1>1. AgentAnswers => UNCHANGED <<pc, exit, cancelled>>
  BY DEF AgentAnswers, Emits
<1>2. AgentAsks => UNCHANGED <<pc, exit, cancelled>>
  BY DEF AgentAsks, Emits
<1>3. AgentEndsTurn => UNCHANGED <<pc, exit, cancelled>>
  BY DEF AgentEndsTurn, Emits
<1>4. AgentChats \/ AgentExits \/ StreamCloses \/ ReaderFails => UNCHANGED <<pc, exit, cancelled>>
  BY DEF AgentChats, AgentExits, StreamCloses, ReaderFails, Emits
<1> QED
  BY <1>1, <1>2, <1>3, <1>4 DEF Agent

LEMMA EndsStep == ASSUME TypeInv, EndsInv, [Next]_vars PROVE EndsInv'
<1> SUFFICES ASSUME InSession' PROVE EndsInv'
  BY DEF EndsInv
<1>1. CASE (Receive /\ ~Serve) \/ ReplyWritten
  <2>1. pc \in {"request", "turn"} /\ InSession /\ incoming # <<>> /\ incoming' = Tail(incoming)
    BY <1>1, StaysAfter DEF InSession
  <2>2. /\ pc' = "loop" => completed' = turns'
        /\ pc' = "fetch" => completed' = turns'
        /\ method' = "turn/start" => completed' + 1 >= turns'
    <3>1. pc' = "loop" => turns' = 0 /\ completed' = 0
      BY <1>1, StaysAfter DEF TypeInv, TypeOK, Numbered
    <3>2. pc' = "fetch" => completed' = turns'
      BY <1>1, <2>1, StaysAfter, Received_Facts DEF EndsInv, EndReported
    <3>3. method' = "turn/start" => completed' + 1 >= turns'
      <4>1. CASE pc' \in {"request", "turn"}
        BY <1>1, <2>1, <4>1, StaysAfter DEF EndsInv, TypeInv, TypeOK
      <4> QED
        BY <1>1, <3>1, <3>2, <4>1, StaysAfter DEF InSession, TypeInv, TypeOK
    <3> QED
      BY <3>1, <3>2, <3>3
  <2>3. \A k \in DOMAIN incoming' : EndReported(k)' =>
          pc' \in {"request", "turn"} /\ method' = "turn/start" /\ completed' = turns'
    <3>1. ASSUME NEW k \in DOMAIN incoming', EndReported(k)'
          PROVE  Received.kind # "completed" /\ method = "turn/start" /\ completed = turns
                 /\ turns > 0
      BY <2>1, <3>1, EndsReceived DEF TypeInv, Numbered
    <3> QED
      BY <1>1, <3>1, StaysAfter DEF InSession
  <2> QED
    BY <2>1, <2>2, <2>3, EndsReceived DEF EndsInv
<1>2. CASE Proceed
  <2>1. CASE Unstarted
    BY <1>2, <2>1, GoesOn DEF EndsInv, TypeInv, NothingYet, Unstarted
  <2>2. CASE ~Unstarted
    <3>1. InSession /\ pc \in {"loop", "fetch"} /\ completed = turns
      BY <1>2, <2>2, GoesOn DEF EndsInv, InSession
    <3>2. \A k \in DOMAIN incoming' : ~EndReported(k)'
      BY <1>2, <3>1, GoesOn DEF EndsInv, EndReported
    <3> QED
      BY <1>2, <2>2, <3>1, <3>2, GoesOn DEF EndsInv, TypeInv, TypeOK
  <2> QED
    BY <2>1, <2>2
<1>3. CASE Agent
  <2>1. InSession
    BY <1>3, AgentSends DEF InSession
  <2>2. CASE UNCHANGED <<incoming, asked, completed>>
    BY <1>3, <2>1, <2>2, AgentSends DEF EndsInv, EndReported, InSession
  <2> QED
    BY <1>3, <2>1, <2>2, AgentSends, EndsEmitted
<1>4. CASE \/ Serve \/ RequestWritten \/ WriteFails \/ StreamsGone \/ RequestTimesOut
           \/ TurnCancelled \/ TurnTimesOut \/ Cancel \/ DeadlinePasses \/ UNCHANGED vars
  BY <1>4, NoMessage DEF EndsInv, EndReported, InSession
<1> QED
  BY <1>1, <1>2, <1>3, <1>4 DEF Next, Write

LEMMA AsksStep == ASSUME TypeInv, AsksInv, [Next]_vars PROVE AsksInv'
<1> SUFFICES ASSUME InSession' PROVE AsksInv'
  BY DEF AsksInv
<1>1. CASE (Receive /\ ~Serve) \/ ReplyWritten
  <2>1. pc \in {"request", "turn"} /\ InSession /\ incoming # <<>> /\ incoming' = Tail(incoming)
    BY <1>1, StaysAfter DEF InSession
  <2>2. \A i : i \in asked' <=>
          i \in asked /\ (Received.kind \in {"ask", "input"} => i # Received.id)
    BY <1>1, StaysAfter
  <2> QED
    BY <2>1, <2>2, AsksReceived DEF AsksInv
<1>2. CASE Proceed
  <2>1. CASE Unstarted
    BY <1>2, <2>1, GoesOn DEF AsksInv, TypeInv, NothingYet
  <2>2. CASE ~Unstarted
    <3>1. InSession
      BY <1>2, <2>2, GoesOn DEF InSession
    <3> QED
      BY <1>2, <3>1, GoesOn DEF AsksInv, Asks
  <2> QED
    BY <2>1, <2>2
<1>3. CASE Agent
  <2>1. InSession
    BY <1>3, AgentSends DEF InSession
  <2>2. CASE UNCHANGED <<incoming, asked, completed>>
    BY <1>3, <2>1, <2>2, AgentSends DEF AsksInv, Asks
  <2> QED
    BY <1>3, <2>1, <2>2, AgentSends, AsksEmitted
<1>4. CASE \/ Serve \/ RequestWritten \/ WriteFails \/ StreamsGone \/ RequestTimesOut
           \/ TurnCancelled \/ TurnTimesOut \/ Cancel \/ DeadlinePasses \/ UNCHANGED vars
  BY <1>4, NoMessage DEF AsksInv, Asks, InSession
<1> QED
  BY <1>1, <1>2, <1>3, <1>4 DEF Next, Write

-----------------------------------------------------------------------------
WorkerInv == TypeInv /\ OutcomeInv /\ EndsInv /\ AsksInv

THEOREM WorkerInvariant == Spec => []WorkerInv
<1>1. Init => WorkerInv
  BY TypeInit, OutcomeInit DEF WorkerInv
<1>2. WorkerInv /\ [Next]_vars => WorkerInv'
  BY TypeStep, OutcomeStep, EndsStep, AsksStep DEF WorkerInv
<1> QED
  BY <1>1, <1>2, PTL DEF Spec

(* The worker's variables keep their types: the ids of its requests and the *)
(* turns the agent completes are bounded by max_turns.                      *)
THEOREM WorkerTypes == Spec => []TypeOK
<1>1. WorkerInv => TypeOK
  BY DEF WorkerInv, TypeInv
<1> QED
  BY <1>1, WorkerInvariant, PTL

(* Only a run whose token is set ends as canceled, for any agent.           *)
THEOREM CanceledMeansToken == Spec => []CanceledByToken
<1>1. WorkerInv => CanceledByToken
  BY DEF WorkerInv, OutcomeInv
<1> QED
  BY <1>1, WorkerInvariant, PTL

(* However an established session is left, its process outlives it only by  *)
(* a shutdown that failed.                                                  *)
THEOREM OnlyFailedStopsLeave == Spec => []GoneUnlessStopFailed
<1>1. WorkerInv => GoneUnlessStopFailed
  BY DEF WorkerInv, OutcomeInv
<1> QED
  BY <1>1, WorkerInvariant, PTL

(* While a session goes on, the agent waits for nothing but replies to      *)
(* requests that are still queued, however many it makes.                   *)
THEOREM RequestsAnswered == Spec => []NoRequestForgotten
<1>1. WorkerInv => NoRequestForgotten
  BY DEF WorkerInv, AsksInv, Asks, InSession, NoRequestForgotten
<1> QED
  BY <1>1, WorkerInvariant, PTL

(* A success is a run all of whose turns the agent completed.               *)
THEOREM SuccessMeansCompleted == Spec => []SuccessEarned
<1>1. WorkerInv => SuccessEarned
  BY DEF WorkerInv, OutcomeInv, Decided, SuccessEarned
<1> QED
  BY <1>1, WorkerInvariant, PTL

(* Whatever ends a turn once the token is set, the run counts as canceled.  *)
THEOREM TokenDecides == Spec => TokenWins
<1>1. [Next]_vars =>
        [(cancelled /\ pc \in {"request", "turn"} /\ method = "turn/start" /\ pc' = "shutdown")
         => exit' = "canceled"]_vars
  <2> SUFFICES ASSUME Next, cancelled, pc \in {"request", "turn"}, method = "turn/start",
                      pc' = "shutdown"
               PROVE  exit' = "canceled"
    OBVIOUS
  <2>1. CASE Receive
    BY <2>1 DEF Receive, AcceptInitialize, AcceptThread, AcceptTurn, Refused, Serve, PassOver, Send,
                BreakOff, CompleteTurn, Panics, SessionFails, RequestFails, Quit
  <2>2. CASE Proceed
    BY <2>2 DEF Proceed, EnsureWorkspace, BeforeRun, Spawn, SpawnFails, BeginTurn, RenderFails,
                FetchState, Shutdown, AfterRun, Report, HookPanics
  <2>3. CASE Write \/ StreamsGone \/ RequestTimesOut \/ TurnCancelled \/ TurnTimesOut
    BY <2>3 DEF Write, RequestWritten, ReplyWritten, WriteFails, StreamsGone, RequestTimesOut,
                TurnCancelled, TurnTimesOut, SessionFails, RequestFails, Quit
  <2>4. CASE Cancel \/ DeadlinePasses \/ Agent
    <3>1. pc' = pc
      BY <2>4, AgentApart DEF Cancel, DeadlinePasses
    <3> QED
      BY <3>1
  <2> QED
    BY <2>1, <2>2, <2>3, <2>4 DEF Next
<1> QED
  BY <1>1, PTL DEF Spec, TokenWins

-----------------------------------------------------------------------------
(* The contract.                                                            *)

(* A decision is taken under the token as it is, and is not reported yet.   *)
LEMMA DecisionTaken ==
    ASSUME TypeInv, Next, ~Decided, Decided'
    PROVE  cancelled' = cancelled /\ pc' # "done"
<1> USE DEF Decided
<1>1. CASE Proceed
  BY <1>1 DEF Proceed, EnsureWorkspace, BeforeRun, Spawn, SpawnFails, StartFails, BeginTurn, Send,
              Quit, RenderFails, FetchState, Shutdown, AfterRun, Report, HookPanics
<1>2. CASE Receive \/ Write \/ StreamsGone \/ RequestTimesOut \/ TurnCancelled \/ TurnTimesOut
  BY <1>2, LeavesOrStays DEF Leaves, Stays
<1>3. CASE Cancel \/ DeadlinePasses \/ Agent
  BY <1>3, AgentSends DEF Cancel, DeadlinePasses
<1> QED
  BY <1>1, <1>2, <1>3 DEF Next

(* Once taken it stays and is reported once, or goes with the task.         *)
LEMMA DecisionKept ==
    ASSUME TypeInv, Next, Decided
    PROVE  /\ Decided' \/ (pc = "after_run" /\ pc' = "panicked" /\ cancelled' = cancelled)
           /\ exit' = exit
           /\ pc = "done" => pc' = "done"
           /\ pc' = "done" => pc = "done" \/ cancelled' = cancelled
           /\ cancelled => cancelled'
<1> USE DEF Decided
<1>1. CASE Proceed
  BY <1>1 DEF Proceed, EnsureWorkspace, BeforeRun, Spawn, SpawnFails, BeginTurn, RenderFails,
              FetchState, Shutdown, AfterRun, Report, HookPanics
<1>2. CASE Receive \/ Write \/ StreamsGone \/ RequestTimesOut \/ TurnCancelled \/ TurnTimesOut
  BY <1>2, LeavesOrStays
<1>3. CASE Cancel \/ DeadlinePasses
  BY <1>3 DEF Cancel, DeadlinePasses
<1>4. CASE Agent
  BY <1>4, AgentApart
<1> QED
  BY <1>1, <1>2, <1>3, <1>4 DEF Next

(* While the worker is undecided only the scheduler touches its token. *)
LEMMA TokenKept ==
    ASSUME TypeInv, Next
    PROVE  cancelled' = cancelled \/ (~cancelled /\ cancelled' = TRUE /\ pc' = pc /\ exit' = exit)
<1>1. CASE Proceed
  BY <1>1 DEF Proceed, EnsureWorkspace, BeforeRun, Spawn, SpawnFails, BeginTurn, RenderFails,
              FetchState, Shutdown, AfterRun, Report, HookPanics
<1>2. CASE Receive \/ Write \/ StreamsGone \/ RequestTimesOut \/ TurnCancelled \/ TurnTimesOut
  BY <1>2, LeavesOrStays
<1>3. CASE Cancel \/ DeadlinePasses
  BY <1>3 DEF Cancel, DeadlinePasses
<1>4. CASE Agent
  BY <1>4, AgentApart
<1> QED
  BY <1>1, <1>2, <1>3, <1>4 DEF Next

(* A task that died takes no step any more. *)
LEMMA DeadStays == ASSUME TypeInv, Next, pc = "panicked" PROVE pc' = "panicked"
<1>1. CASE Proceed
  BY <1>1 DEF Proceed, EnsureWorkspace, BeforeRun, Spawn, SpawnFails, BeginTurn, RenderFails,
              FetchState, Shutdown, AfterRun, Report, HookPanics
<1>2. CASE Receive \/ Write \/ StreamsGone \/ RequestTimesOut \/ TurnCancelled \/ TurnTimesOut
  BY <1>2, LeavesOrStays
<1>3. CASE Cancel \/ DeadlinePasses
  BY <1>3 DEF Cancel, DeadlinePasses
<1>4. CASE Agent
  BY <1>4, AgentApart
<1> QED
  BY <1>1, <1>2, <1>3, <1>4 DEF Next

LEMMA ContractStep ==
    ASSUME WorkerInv, WorkerInv', [Next]_vars
    PROVE  [Contract!ContractNext]_(Contract!contractVars)
<1> USE DEF WorkerInv, Decided, Contract!contractVars
<1>1. CASE UNCHANGED vars
  BY <1>1 DEF vars
<1>2. CASE Next /\ ~Decided /\ Decided'
  <2>1. exit' \in Exit /\ (exit' = "canceled" => cancelled) /\ pc # "panicked"
    BY <1>2, DecisionTaken, DeadStays DEF TypeInv, TypeOK, OutcomeInv, CanceledByToken
  <2>2. Contract!Decide(exit')
    BY <1>2, <2>1, DecisionTaken DEF Contract!Decide
  <2> QED
    BY <2>1, <2>2 DEF Contract!ContractNext
<1>3. CASE Next /\ ~Decided /\ ~Decided'
  <2>1. CASE cancelled' = cancelled
    <3>1. CASE pc' = "panicked" /\ pc # "panicked"
      <4>1. Contract!Die
        BY <1>3, <2>1, <3>1 DEF Contract!Die
      <4> QED
        BY <4>1 DEF Contract!ContractNext
    <3>2. CASE pc' = "panicked" <=> pc = "panicked"
      BY <1>3, <2>1, <3>2
    <3> QED
      BY <1>3, <3>1, <3>2, DeadStays
  <2>2. CASE ~cancelled /\ cancelled' = TRUE /\ pc' = pc
    <3>1. Contract!AskToStop
      BY <1>3, <2>2 DEF Contract!AskToStop
    <3> QED
      BY <3>1 DEF Contract!ContractNext
  <2> QED
    BY <1>3, <2>1, <2>2, TokenKept
<1>4. CASE Next /\ Decided /\ pc' = "panicked"
  <2>1. cancelled' = cancelled /\ pc = "after_run"
    BY <1>4, DecisionKept
  <2>2. Contract!Die
    BY <1>4, <2>1 DEF Contract!Die
  <2> QED
    BY <2>2 DEF Contract!ContractNext
<1>5. CASE Next /\ Decided /\ pc' # "panicked"
  <2>1. Decided' /\ exit' = exit /\ exit \in Exit
    BY <1>5, DecisionKept DEF TypeInv, TypeOK
  <2>2. CASE cancelled' = cancelled /\ (pc' = "done" <=> pc = "done")
    BY <1>5, <2>1, <2>2
  <2>3. CASE cancelled' = cancelled /\ pc' = "done" /\ pc # "done"
    <3>1. Contract!Report
      BY <1>5, <2>1, <2>3 DEF Contract!Report
    <3> QED
      BY <3>1 DEF Contract!ContractNext
  <2>4. CASE ~cancelled /\ cancelled' = TRUE /\ pc' = pc
    <3>1. Contract!AskToStop
      BY <1>5, <2>1, <2>4 DEF Contract!AskToStop
    <3> QED
      BY <3>1 DEF Contract!ContractNext
  <2> QED
    BY <1>5, <2>2, <2>3, <2>4, TokenKept, DecisionKept
<1> QED
  BY <1>1, <1>2, <1>3, <1>4, <1>5

(* The worker with its session, whatever the agent does, is a worker as the *)
(* scheduler knows it: one decision under the token, reported as it is.     *)
THEOREM WorkerKeepsContract == Spec => ContractSpec
<1>1. Init => Contract!ContractInit
  BY DEF Init, Contract!ContractInit
<1>2. WorkerInv /\ WorkerInv' /\ [Next]_vars => [Contract!ContractNext]_(Contract!contractVars)
  BY ContractStep
<1> QED
  BY <1>1, <1>2, WorkerInvariant, PTL DEF Spec, ContractSpec, Contract!ContractSpec
=============================================================================
