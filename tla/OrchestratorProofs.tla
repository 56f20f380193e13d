------------------------- MODULE OrchestratorProofs -------------------------
(***************************************************************************)
(* Proofs about the scheduler for any set of issues, any configurations    *)
(* and any bounds: its types, the accounting of claims and wake-ups, the   *)
(* ownership of workers, the meaning of cancellation, the lifetime of      *)
(* workspaces, the attempt numbers and the slots.                          *)
(***************************************************************************)
EXTENDS Orchestrator, FiniteSetTheorems, TLAPS

-----------------------------------------------------------------------------
(* Channels. *)

(* Receiving drops the first message and moves the others up by one. *)
LEMMA TailFacts ==
    ASSUME NEW S, NEW q \in Seq(S), q # <<>>
    PROVE  /\ Len(q) \in Nat \ {0} /\ DOMAIN q = 1 .. Len(q)
           /\ Head(q) = q[1] /\ Head(q) \in S
           /\ Tail(q) \in Seq(S) /\ Len(Tail(q)) = Len(q) - 1
           /\ DOMAIN Tail(q) = 1 .. Len(q) - 1
           /\ \A k \in DOMAIN Tail(q) : k + 1 \in DOMAIN q /\ Tail(q)[k] = q[k + 1]
           /\ \A k \in DOMAIN q : k = 1 \/ (k - 1 \in DOMAIN Tail(q) /\ Tail(q)[k - 1] = q[k])
  OBVIOUS

(* The message to be received next is one of the channel's.                 *)
LEMMA HeadFacts == ASSUME NEW S, NEW q \in Seq(S), q # <<>> PROVE Head(q) \in S
  OBVIOUS

(* Sending leaves the queued messages in place and adds one at the end. *)
LEMMA AppendFacts ==
    ASSUME NEW S, NEW q \in Seq(S), NEW m \in S
    PROVE  /\ Len(q) \in Nat /\ DOMAIN q = 1 .. Len(q)
           /\ Append(q, m) \in Seq(S)
           /\ DOMAIN Append(q, m) = 1 .. Len(q) + 1
           /\ Append(q, m)[Len(q) + 1] = m
           /\ \A k \in DOMAIN q : k \in DOMAIN Append(q, m) /\ Append(q, m)[k] = q[k]
           /\ \A k \in DOMAIN Append(q, m) : k \in DOMAIN q \/ k = Len(q) + 1
  OBVIOUS

-----------------------------------------------------------------------------
(* Types. *)

USE DEF ConfigType, Reason, Exit, Event

(* An issue as the tracker returns it is an issue record.                   *)
LEMMA FetchedType == ASSUME TypeOK, NEW i \in Issue PROVE Fetched(i) \in IssueRecord
  BY OrchestratorAssumption DEF TypeOK, Fetched, IssueRecord

(* The next attempt number is an attempt number, and is not None.           *)
LEMMA BumpType == \A n \in 0 .. AttemptCap : Bump(n) \in 0 .. AttemptCap /\ Bump(n) # 0
  BY OrchestratorAssumption DEF Bump

(* Aborting a retry task touches the timer of its issue alone. *)
LEMMA AbortFacts ==
    ASSUME TypeOK, NEW entries \in [Issue -> 0 .. AttemptCap], NEW i \in Issue
    PROVE  /\ Abort(entries, i) \in [Issue -> Nat]
           /\ \A j \in Issue \ {i} : Abort(entries, i)[j] = timer[j]
           /\ entries[i] = 0 => Abort(entries, i)[i] = timer[i]
           /\ timer[i] = 0 => Abort(entries, i)[i] = 0
<1>1. timer \in [Issue -> Nat] /\ timer[i] \in Nat
  BY DEF TypeOK
<1>2. CASE entries[i] # 0 /\ timer[i] > 0
  <2>1. timer[i] - 1 \in Nat
    BY <1>1, <1>2
  <2>2. Abort(entries, i) = [timer EXCEPT ![i] = timer[i] - 1]
    BY <1>2 DEF Abort
  <2> QED
    BY <1>1, <1>2, <2>1, <2>2
<1>3. CASE ~(entries[i] # 0 /\ timer[i] > 0)
  <2>1. Abort(entries, i) = timer
    BY <1>3 DEF Abort
  <2> QED
    BY <1>1, <2>1
<1> QED
  BY <1>2, <1>3

(* Dispatching an issue keeps the types, whatever happens to the queues. *)
LEMMA DispatchTypes ==
    ASSUME TypeOK, NEW entries \in [Issue -> 0 .. AttemptCap], NEW r \in IssueRecord,
           NEW n \in 0 .. AttemptCap, DispatchIssue(entries, r, n)
    PROVE  /\ running' \subseteq Issue
           /\ seen' \in [Issue -> State \union {Absent}]
           /\ attempt' \in [Issue -> 0 .. AttemptCap]
           /\ stop' \in [Issue -> Reason \union {NoReason}]
           /\ home' \in [Issue -> Root]
           /\ claimed' \subseteq Issue
           /\ retry' \in [Issue -> 0 .. AttemptCap]
           /\ timer' \in [Issue -> Nat]
           /\ live' \in [Issue -> Nat]
           /\ cancelled' \subseteq Issue
<1>1. r.id \in Issue /\ r.state \in State \union {Absent}
  BY DEF IssueRecord
<1>2. config.root \in Root
  BY OrchestratorAssumption DEF TypeOK
<1>3. timer' \in [Issue -> Nat]
  BY <1>1, AbortFacts DEF DispatchIssue
<1>4. /\ seen' \in [Issue -> State \union {Absent}]
      /\ attempt' \in [Issue -> 0 .. AttemptCap]
      /\ stop' \in [Issue -> Reason \union {NoReason}]
  BY <1>1 DEF TypeOK, DispatchIssue
<1>5. /\ home' \in [Issue -> Root]
      /\ live' \in [Issue -> Nat]
  BY <1>1, <1>2 DEF TypeOK, DispatchIssue
<1>6. retry' \in [Issue -> 0 .. AttemptCap]
  BY <1>1, OrchestratorAssumption DEF DispatchIssue
<1>7. running' \subseteq Issue /\ claimed' \subseteq Issue /\ cancelled' \subseteq Issue
  BY <1>1 DEF TypeOK, DispatchIssue
<1> QED
  BY <1>3, <1>4, <1>5, <1>6, <1>7

(* So do scheduling a retry and giving up a claim. *)
LEMMA RetryTypes ==
    ASSUME TypeOK, NEW entries \in [Issue -> 0 .. AttemptCap], NEW i \in Issue,
           NEW n \in 0 .. AttemptCap,
           ScheduleRetry(entries, i, n) \/ ReleaseClaim(entries, i)
    PROVE  /\ claimed' \subseteq Issue
           /\ retry' \in [Issue -> 0 .. AttemptCap]
           /\ timer' \in [Issue -> Nat]
<1>1. Abort(entries, i) \in [Issue -> Nat]
  BY AbortFacts
<1>2. CASE ScheduleRetry(entries, i, n)
  BY <1>1, <1>2 DEF TypeOK, ScheduleRetry
<1>3. CASE ReleaseClaim(entries, i)
  BY <1>1, <1>3, OrchestratorAssumption DEF TypeOK, ReleaseClaim
<1> QED
  BY <1>2, <1>3

(* And removing a running entry. *)
LEMMA ForgetTypes ==
    ASSUME TypeOK, NEW i \in Issue, ForgetRun(i)
    PROVE  /\ running' \subseteq Issue
           /\ seen' \in [Issue -> State \union {Absent}]
           /\ attempt' \in [Issue -> 0 .. AttemptCap]
           /\ stop' \in [Issue -> Reason \union {NoReason}]
           /\ home' \in [Issue -> Root]
           /\ live' \in [Issue -> Nat]
           /\ cancelled' \subseteq Issue
  BY OrchestratorAssumption DEF TypeOK, ForgetRun

(* The scheduler starts with the declared types.                            *)
LEMMA TypeInit == Init => TypeOK
  BY OrchestratorAssumption DEF Init, TypeOK

(* Every step keeps the declared types.                                     *)
LEMMA TypeStep == TypeOK /\ [Next]_vars => TypeOK'
<1> SUFFICES ASSUME TypeOK, [Next]_vars
             PROVE  TypeOK'
  OBVIOUS
<1> USE DEF vars, tickVars, entryVars, retryVars, workerVars
<1>0. \A i \in Issue : retry[i] \in 0 .. AttemptCap /\ attempt[i] \in 0 .. AttemptCap
                       /\ Taken(i) \in [Issue -> 0 .. AttemptCap]
  BY OrchestratorAssumption DEF TypeOK, Taken
<1>1. CASE ReconcileRunningIssues
  <2>1. \A i \in Issue : Verdict(i) \in Reason \union {NoReason}
    BY DEF Verdict
  <2>2. \A x, y \in Reason \union {NoReason} : FirstReason(x, y) \in Reason \union {NoReason}
    BY DEF FirstReason
  <2>3. stop' \in [Issue -> Reason \union {NoReason}]
    <3>1. PICK reason \in [Issue -> Reason \union {NoReason}] :
            stop' = [i \in Issue |-> IF i \in running
                                     THEN FirstReason(stop[i], reason[i]) ELSE stop[i]]
      <4>1. PICK stalled \in SUBSET running, fetched \in BOOLEAN :
              stop' = [i \in Issue |->
                         IF i \in running
                         THEN FirstReason(stop[i],
                                FirstReason(IF i \in stalled THEN "stall" ELSE NoReason,
                                            IF fetched THEN Verdict(i) ELSE NoReason))
                         ELSE stop[i]]
        BY <1>1 DEF ReconcileRunningIssues
      <4> DEFINE r == [i \in Issue |->
                         FirstReason(IF i \in stalled THEN "stall" ELSE NoReason,
                                     IF fetched THEN Verdict(i) ELSE NoReason)]
      <4>2. r \in [Issue -> Reason \union {NoReason}]
        BY <2>1, <2>2
      <4> QED
        BY <4>1, <4>2
    <3> QED
      BY <2>2, <3>1 DEF TypeOK
  <2>4. seen' \in [Issue -> State \union {Absent}]
    BY <1>1 DEF TypeOK, ReconcileRunningIssues
  <2>5. cancelled' \subseteq Issue
    BY <1>1 DEF TypeOK, ReconcileRunningIssues
  <2> QED
    BY <1>1, <2>3, <2>4, <2>5 DEF TypeOK, ReconcileRunningIssues
<1>2. CASE FetchCandidates
  <2>1. candidates' \subseteq IssueRecord
    BY <1>2, FetchedType DEF FetchCandidates, FetchCandidateIssues
  <2> QED
    BY <1>2, <2>1 DEF TypeOK, FetchCandidates
<1>3. CASE FetchCandidatesFails
  BY <1>3 DEF TypeOK, FetchCandidatesFails
<1>4. CASE OutOfSlots
  BY <1>4 DEF TypeOK, OutOfSlots
<1>5. CASE SkipCandidate
  BY <1>5 DEF TypeOK, SkipCandidate
<1>6. CASE DispatchCandidate
  <2>1. PICK r \in candidates : candidates' = candidates \ {r} /\ DispatchIssue(retry, r, 0)
    BY <1>6 DEF DispatchCandidate
  <2>2. r \in IssueRecord /\ retry \in [Issue -> 0 .. AttemptCap] /\ 0 \in 0 .. AttemptCap
    BY OrchestratorAssumption DEF TypeOK
  <2> QED
    BY <1>6, <2>1, <2>2, DispatchTypes DEF TypeOK, DispatchCandidate
<1>7. CASE ApplySessionUpdate
  <2>1. worker_rx' \in Seq(Event)
    BY <1>7, TailFacts DEF TypeOK, ApplySessionUpdate
  <2> QED
    BY <1>7, <2>1 DEF TypeOK, ApplySessionUpdate
<1>8. ASSUME NEW i \in Issue, HandleWorkerFinished(i)
      PROVE  TypeOK'
  <2>1. /\ FinishedOf(i) /\ ForgetRun(i)
        /\ \/ ReleaseClaim(retry, i)
           \/ ScheduleRetry(retry, i, 1)
           \/ ScheduleRetry(retry, i, Bump(attempt[i]))
    BY <1>8 DEF HandleWorkerFinished, FinishTerminal, FinishNonActive, FinishSucceeded,
                FinishRetried
  <2>2. worker_rx' \in Seq(Event)
    BY <2>1, TailFacts DEF TypeOK, FinishedOf
  <2>3. workspace' \subseteq Issue \X Root
    BY <1>8 DEF TypeOK, HandleWorkerFinished, FinishTerminal, FinishNonActive,
                FinishSucceeded, FinishRetried
  <2>4. /\ claimed' \subseteq Issue
        /\ retry' \in [Issue -> 0 .. AttemptCap]
        /\ timer' \in [Issue -> Nat]
    <3>1. 1 \in 0 .. AttemptCap /\ Bump(attempt[i]) \in 0 .. AttemptCap
      BY <1>0, BumpType, OrchestratorAssumption
    <3> QED
      BY <2>1, <3>1, RetryTypes DEF TypeOK
  <2>5. /\ running' \subseteq Issue
        /\ seen' \in [Issue -> State \union {Absent}]
        /\ attempt' \in [Issue -> 0 .. AttemptCap]
        /\ stop' \in [Issue -> Reason \union {NoReason}]
        /\ home' \in [Issue -> Root]
        /\ live' \in [Issue -> Nat]
        /\ cancelled' \subseteq Issue
    BY <2>1, ForgetTypes
  <2> QED
    BY <2>1, <2>2, <2>3, <2>4, <2>5 DEF TypeOK, FinishedOf
<1>9. ASSUME NEW i \in Issue, HandleRetryDue(i)
      PROVE  TypeOK'
  <2>1. RetryMessage(i) /\ retry_rx' \in Seq(Issue)
    <3>1. RetryMessage(i)
      BY <1>9 DEF HandleRetryDue, RetryAnswered, RetryPollFails, RetryReleased, RetryRequeued,
                  RetryDispatched
    <3>2. retry_rx \in Seq(Issue) /\ retry_rx # <<>> /\ retry_rx' = Tail(retry_rx)
      BY <3>1 DEF TypeOK, RetryMessage
    <3> QED
      BY <3>1, <3>2, TailFacts
  <2>2. CASE RetryPollFails(i) \/ RetryRequeued(i)
    <3>1. /\ ScheduleRetry(Taken(i), i, Bump(retry[i]))
          /\ UNCHANGED <<entryVars, workerVars>>
      BY <2>2 DEF RetryPollFails, RetryRequeued
    <3>2. /\ claimed' \subseteq Issue
          /\ retry' \in [Issue -> 0 .. AttemptCap]
          /\ timer' \in [Issue -> Nat]
      BY <1>0, <3>1, BumpType, RetryTypes
    <3> QED
      BY <2>1, <3>1, <3>2 DEF TypeOK, RetryMessage
  <2>3. CASE RetryReleased(i)
    <3>1. /\ claimed' \subseteq Issue
          /\ retry' \in [Issue -> 0 .. AttemptCap]
          /\ timer' \in [Issue -> Nat]
      BY <1>0, <2>3, RetryTypes, OrchestratorAssumption DEF TypeOK, RetryReleased
    <3> QED
      BY <2>1, <2>3, <3>1 DEF TypeOK, RetryMessage, RetryReleased
  <2>4. CASE RetryDispatched(i)
    <3>1. DispatchIssue(Taken(i), Fetched(i), retry[i])
      BY <2>4 DEF RetryDispatched
    <3> QED
      BY <1>0, <2>1, <3>1, FetchedType, DispatchTypes DEF TypeOK, RetryMessage
  <2> QED
    BY <1>9, <2>2, <2>3, <2>4 DEF HandleRetryDue, RetryAnswered
<1>10. CASE ReloadWorkflow
  BY <1>10 DEF TypeOK, ReloadWorkflow
<1>11. CASE Restart
  <2>1. config'.root \in Root
    BY <1>11, OrchestratorAssumption DEF Restart
  <2>2. workspace' \subseteq Issue \X Root /\ tracker' = tracker /\ config' \in Config
    BY <1>11 DEF TypeOK, Restart
  <2>3. /\ seen' \in [Issue -> State \union {Absent}]
        /\ attempt' \in [Issue -> 0 .. AttemptCap]
        /\ stop' \in [Issue -> Reason \union {NoReason}]
        /\ home' \in [Issue -> Root]
        /\ retry' \in [Issue -> 0 .. AttemptCap]
        /\ timer' \in [Issue -> Nat] /\ live' \in [Issue -> Nat]
    BY <1>11, <2>1, OrchestratorAssumption DEF Restart
  <2>4. /\ phase' = "idle" /\ candidates' = {} /\ running' = {} /\ claimed' = {}
        /\ retry_rx' \in Seq(Issue) /\ worker_rx' \in Seq(Event) /\ cancelled' = {}
    BY <1>11 DEF Restart
  <2> QED
    BY <2>2, <2>3, <2>4 DEF TypeOK
<1>12. CASE TrackerChange
  BY <1>12 DEF TypeOK, TrackerChange
<1>13. ASSUME NEW i \in Issue, TimerFires(i)
       PROVE  TypeOK'
  <2>1. retry_rx' \in Seq(Issue) /\ timer' \in [Issue -> Nat]
    BY <1>13, AppendFacts DEF TypeOK, TimerFires
  <2> QED
    BY <1>13, <2>1 DEF TypeOK, TimerFires
<1>14. ASSUME NEW i \in Issue, Worker(i)
       PROVE  TypeOK'
  <2>1. CASE WorkerPrepares(i)
    BY <2>1 DEF TypeOK, WorkerPrepares
  <2>2. CASE WorkerUpdates(i)
    <3>1. worker_rx' \in Seq(Event)
      BY <2>2, AppendFacts DEF TypeOK, WorkerUpdates
    <3> QED
      BY <2>2, <3>1 DEF TypeOK, WorkerUpdates
  <2>3. CASE WorkerFinishes(i)
    <3>1. worker_rx' \in Seq(Event) /\ live' \in [Issue -> Nat]
      BY <2>3, AppendFacts DEF TypeOK, WorkerFinishes
    <3> QED
      BY <2>3, <3>1 DEF TypeOK, WorkerFinishes
  <2>4. CASE WorkerPanics(i)
    BY <2>4 DEF TypeOK, WorkerPanics
  <2> QED
    BY <1>14, <2>1, <2>2, <2>3, <2>4 DEF Worker
<1>15. CASE UNCHANGED vars
  BY <1>15 DEF TypeOK
<1> QED
  BY <1>1, <1>2, <1>3, <1>4, <1>5, <1>6, <1>7, <1>8, <1>9, <1>10, <1>11, <1>12, <1>13, <1>14,
     <1>15 DEF Next, Tick, ConsiderCandidate, HandleWorkerEvent

(* The scheduler's state always has the types it is declared with. *)
THEOREM TypeInvariant == Spec => []TypeOK
<1> QED
  BY TypeInit, TypeStep, PTL DEF Spec

-----------------------------------------------------------------------------
(* Claims and wake-ups. The two invariants are inductive together: an issue *)
(* that is dispatched by a tick is not claimed, hence has no entry, no      *)
(* timer and no message; a message at the head of the retry channel is the  *)
(* only wake-up of its issue, hence has an entry and no sleeping timer.     *)

Wakeups == ClaimsAccounted /\ RetryTokenUnique

(* At the start nothing is claimed and nothing is due.                      *)
LEMMA WakeupsInit == Init => Wakeups
  BY OrchestratorAssumption
  DEF Init, Wakeups, ClaimsAccounted, RetryTokenUnique, Queued

(* Steps that leave the four structures alone. *)
LEMMA WakeupsFrame ==
    ASSUME Wakeups, UNCHANGED <<running, claimed, retry, timer, retry_rx>>
    PROVE  Wakeups'
  BY DEF Wakeups, ClaimsAccounted, RetryTokenUnique, Queued

(* An issue that runs has no retry entry, no timer and no message. *)
LEMMA RunningHasNoWakeup ==
    ASSUME Wakeups, NEW i \in Issue, i \in running \/ i \notin claimed
    PROVE  retry[i] = 0 /\ timer[i] = 0 /\ ~Queued(i)
  BY DEF Wakeups, ClaimsAccounted, RetryTokenUnique

(* Receiving a retry message consumes the only wake-up of its issue. *)
LEMMA MessageIsOnlyWakeup ==
    ASSUME TypeOK, Wakeups, NEW i \in Issue, RetryMessage(i)
    PROVE  /\ retry[i] # 0 /\ timer[i] = 0 /\ i \notin running
           /\ \A j \in Issue : Queued(j)' <=> (Queued(j) /\ j # i)
           /\ \A j, k \in DOMAIN retry_rx' : retry_rx'[j] = retry_rx'[k] => j = k
<1>1. retry_rx \in Seq(Issue) /\ retry_rx # <<>> /\ retry_rx' = Tail(retry_rx)
      /\ Head(retry_rx) = i
  BY DEF TypeOK, RetryMessage
<1>2. /\ DOMAIN retry_rx = 1 .. Len(retry_rx) /\ Len(retry_rx) \in Nat \ {0}
      /\ retry_rx[1] = i
      /\ \A k \in DOMAIN retry_rx' : k \in Nat /\ k + 1 \in DOMAIN retry_rx
                                     /\ k + 1 # 1 /\ retry_rx'[k] = retry_rx[k + 1]
      /\ \A k \in DOMAIN retry_rx : k = 1 \/ (k - 1 \in DOMAIN retry_rx'
                                              /\ retry_rx'[k - 1] = retry_rx[k])
  BY <1>1, TailFacts
<1>3. \A j, k \in DOMAIN retry_rx : retry_rx[j] = retry_rx[k] => j = k
  BY DEF Wakeups, RetryTokenUnique
<1>4. Queued(i)
  BY <1>2 DEF Queued
<1>5. retry[i] # 0 /\ timer[i] = 0 /\ i \notin running
  BY <1>4 DEF Wakeups, RetryTokenUnique, ClaimsAccounted
<1>6. ASSUME NEW j \in Issue
      PROVE  Queued(j)' <=> (Queued(j) /\ j # i)
  BY <1>2, <1>3 DEF Queued
<1>7. \A j, k \in DOMAIN retry_rx' : retry_rx'[j] = retry_rx'[k] => j = k
  BY <1>2, <1>3
<1> QED
  BY <1>5, <1>6, <1>7

(* Every step keeps claims and wake-ups accounted for.                      *)
LEMMA WakeupsStep == TypeOK /\ Wakeups /\ [Next]_vars => Wakeups'
<1> SUFFICES ASSUME TypeOK, Wakeups, [Next]_vars
             PROVE  Wakeups'
  OBVIOUS
<1> USE DEF vars, tickVars, entryVars, retryVars, workerVars
<1>0. /\ retry \in [Issue -> 0 .. AttemptCap] /\ timer \in [Issue -> Nat]
      /\ running \subseteq Issue /\ claimed \subseteq Issue
  BY DEF TypeOK
<1>1. CASE DispatchCandidate
  <2>1. PICK r \in candidates : ShouldDispatch(r, {}) /\ DispatchIssue(retry, r, 0)
    BY <1>1 DEF DispatchCandidate
  <2>2. r.id \in Issue /\ r.id \notin running /\ r.id \notin claimed
    BY <2>1 DEF TypeOK, IssueRecord, ShouldDispatch
  <2>3. retry[r.id] = 0 /\ timer[r.id] = 0
    BY <2>2, RunningHasNoWakeup
  <2>4. retry' = retry /\ timer' = timer /\ retry_rx' = retry_rx
    BY <1>0, <1>1, <2>1, <2>2, <2>3 DEF DispatchIssue, Abort, DispatchCandidate
  <2>5. running' = running \union {r.id} /\ claimed' = claimed \union {r.id}
    BY <2>1 DEF DispatchIssue
  <2> QED
    BY <2>2, <2>3, <2>4, <2>5 DEF Wakeups, ClaimsAccounted, RetryTokenUnique, Queued
<1>2. ASSUME NEW i \in Issue, HandleWorkerFinished(i)
      PROVE  Wakeups'
  <2>1. FinishedOf(i) /\ ForgetRun(i) /\ i \in running /\ running' = running \ {i}
        /\ retry_rx' = retry_rx
    BY <1>2 DEF HandleWorkerFinished, FinishTerminal, FinishNonActive, FinishSucceeded,
                FinishRetried, ForgetRun, FinishedOf
  <2>2. retry[i] = 0 /\ timer[i] = 0 /\ ~Queued(i) /\ Abort(retry, i) = timer
    BY <2>1, RunningHasNoWakeup DEF Abort
  <2>3. CASE ReleaseClaim(retry, i)
    <3>1. retry' = retry /\ timer' = timer /\ claimed' = claimed \ {i}
      BY <1>0, <2>2, <2>3 DEF ReleaseClaim
    <3> QED
      BY <2>1, <2>2, <3>1 DEF Wakeups, ClaimsAccounted, RetryTokenUnique, Queued
  <2>4. ASSUME NEW n \in 0 .. AttemptCap, n # 0, ScheduleRetry(retry, i, n)
        PROVE  Wakeups'
    <3>1. /\ retry' = [retry EXCEPT ![i] = n] /\ claimed' = claimed \union {i}
          /\ timer' = [timer EXCEPT ![i] = 1]
      BY <1>0, <2>2, <2>4 DEF ScheduleRetry
    <3>2. ClaimsAccounted'
      BY <1>0, <2>1, <2>4, <3>1 DEF Wakeups, ClaimsAccounted
    <3>3. RetryTokenUnique'
      BY <1>0, <2>1, <2>2, <2>4, <3>1 DEF Wakeups, RetryTokenUnique, Queued
    <3> QED
      BY <3>2, <3>3 DEF Wakeups
  <2>5. \/ ReleaseClaim(retry, i)
        \/ ScheduleRetry(retry, i, 1)
        \/ ScheduleRetry(retry, i, Bump(attempt[i]))
    BY <1>2 DEF HandleWorkerFinished, FinishTerminal, FinishNonActive, FinishSucceeded,
                FinishRetried
  <2>6. /\ 1 \in 0 .. AttemptCap /\ Bump(attempt[i]) \in 0 .. AttemptCap
        /\ Bump(attempt[i]) # 0
    BY BumpType, OrchestratorAssumption DEF TypeOK
  <2> QED
    BY <2>3, <2>4, <2>5, <2>6
<1>3. ASSUME NEW i \in Issue, HandleRetryDue(i)
      PROVE  Wakeups'
  <2>1. RetryMessage(i)
    BY <1>3 DEF HandleRetryDue, RetryAnswered, RetryPollFails, RetryReleased, RetryRequeued,
                RetryDispatched
  <2>2. /\ retry[i] # 0 /\ timer[i] = 0 /\ i \notin running
        /\ \A j \in Issue : Queued(j)' <=> (Queued(j) /\ j # i)
        /\ \A j, k \in DOMAIN retry_rx' : retry_rx'[j] = retry_rx'[k] => j = k
    BY <2>1, MessageIsOnlyWakeup
  <2>3. Abort(Taken(i), i) = timer /\ Taken(i) = [retry EXCEPT ![i] = 0]
    BY <1>0 DEF Abort, Taken
  <2>4. CASE RetryPollFails(i) \/ RetryRequeued(i)
    <3>1. /\ ScheduleRetry(Taken(i), i, Bump(retry[i])) /\ running' = running
          /\ Bump(retry[i]) \in 0 .. AttemptCap /\ Bump(retry[i]) # 0
      BY <1>0, <2>4, BumpType DEF RetryPollFails, RetryRequeued
    <3>2. /\ retry' = [retry EXCEPT ![i] = Bump(retry[i])] /\ claimed' = claimed \union {i}
          /\ timer' = [timer EXCEPT ![i] = 1]
      BY <1>0, <2>2, <2>3, <3>1 DEF ScheduleRetry
    <3>3. ClaimsAccounted'
      BY <1>0, <2>2, <3>1, <3>2 DEF Wakeups, ClaimsAccounted
    <3>4. RetryTokenUnique'
      BY <1>0, <2>2, <3>1, <3>2 DEF Wakeups, RetryTokenUnique
    <3> QED
      BY <3>3, <3>4 DEF Wakeups
  <2>5. CASE RetryReleased(i)
    <3>1. /\ retry' = [retry EXCEPT ![i] = 0] /\ claimed' = claimed \ {i} /\ timer' = timer
          /\ running' = running
      BY <1>0, <2>2, <2>3, <2>5 DEF RetryReleased, ReleaseClaim
    <3>2. ClaimsAccounted'
      BY <1>0, <2>2, <3>1 DEF Wakeups, ClaimsAccounted
    <3>3. RetryTokenUnique'
      BY <1>0, <2>2, <3>1 DEF Wakeups, RetryTokenUnique
    <3> QED
      BY <3>2, <3>3 DEF Wakeups
  <2>6. CASE RetryDispatched(i)
    <3>1. DispatchIssue(Taken(i), Fetched(i), retry[i]) /\ Fetched(i).id = i
      BY <2>6 DEF RetryDispatched, Fetched
    <3>2. /\ retry' = [retry EXCEPT ![i] = 0] /\ claimed' = claimed \union {i} /\ timer' = timer
          /\ running' = running \union {i}
      BY <1>0, <2>2, <2>3, <3>1 DEF DispatchIssue
    <3>3. ClaimsAccounted'
      BY <1>0, <2>2, <3>2 DEF Wakeups, ClaimsAccounted
    <3>4. RetryTokenUnique'
      BY <1>0, <2>2, <3>2 DEF Wakeups, RetryTokenUnique
    <3> QED
      BY <3>3, <3>4 DEF Wakeups
  <2> QED
    BY <1>3, <2>4, <2>5, <2>6 DEF HandleRetryDue, RetryAnswered
<1>4. ASSUME NEW i \in Issue, TimerFires(i)
      PROVE  Wakeups'
  <2>1. /\ timer' = [timer EXCEPT ![i] = timer[i] - 1] /\ timer[i] > 0
        /\ retry_rx' = Append(retry_rx, i) /\ retry_rx \in Seq(Issue)
        /\ UNCHANGED <<running, claimed, retry>>
    BY <1>4 DEF TimerFires, TypeOK
  <2>2. retry[i] # 0 /\ timer[i] = 1 /\ ~Queued(i)
    BY <1>0, <2>1 DEF Wakeups, RetryTokenUnique
  <2>3. timer' = [timer EXCEPT ![i] = 0]
    BY <2>1, <2>2
  <2>4. /\ \A k \in DOMAIN retry_rx : k \in DOMAIN retry_rx' /\ retry_rx'[k] = retry_rx[k]
        /\ \A k \in DOMAIN retry_rx' : k \in DOMAIN retry_rx \/ k = Len(retry_rx) + 1
        /\ Len(retry_rx) + 1 \in DOMAIN retry_rx' /\ retry_rx'[Len(retry_rx) + 1] = i
    BY <2>1, AppendFacts
  <2>5. /\ Queued(i)'
        /\ \A j \in Issue \ {i} : Queued(j)' <=> Queued(j)
    BY <2>4 DEF Queued
  <2>6. \A j, k \in DOMAIN retry_rx' : retry_rx'[j] = retry_rx'[k] => j = k
    BY <2>2, <2>4 DEF Wakeups, RetryTokenUnique, Queued
  <2>7. RetryTokenUnique'
    BY <1>0, <2>1, <2>2, <2>3, <2>5, <2>6 DEF Wakeups, RetryTokenUnique
  <2> QED
    BY <2>1, <2>7 DEF Wakeups, ClaimsAccounted
<1>5. CASE Restart
  BY <1>5, OrchestratorAssumption
  DEF Restart, Wakeups, ClaimsAccounted, RetryTokenUnique, Queued
<1>6. CASE \/ ReconcileRunningIssues \/ FetchCandidates \/ FetchCandidatesFails \/ OutOfSlots
           \/ SkipCandidate \/ ApplySessionUpdate \/ ReloadWorkflow \/ TrackerChange
           \/ (\E i \in Issue : Worker(i)) \/ UNCHANGED vars
  <2>1. UNCHANGED <<running, claimed, retry, timer, retry_rx>>
    BY <1>6 DEF ReconcileRunningIssues, FetchCandidates, FetchCandidatesFails, OutOfSlots,
                SkipCandidate, ApplySessionUpdate, ReloadWorkflow, TrackerChange, Worker,
                WorkerPrepares, WorkerUpdates, WorkerFinishes, WorkerPanics
  <2> QED
    BY <2>1, WakeupsFrame
<1> QED
  BY <1>1, <1>2, <1>3, <1>4, <1>5, <1>6
  DEF Next, Tick, ConsiderCandidate, HandleWorkerEvent

(* Claims are exactly the running and the waiting issues, and every waiting *)
(* issue has exactly one wake-up.                                           *)
THEOREM ClaimsAndWakeups == Spec => [](ClaimsAccounted /\ RetryTokenUnique)
<1>1. Init => TypeOK /\ Wakeups
  BY TypeInit, WakeupsInit
<1>2. TypeOK /\ Wakeups /\ [Next]_vars => (TypeOK /\ Wakeups)'
  BY TypeStep, WakeupsStep
<1>3. TypeOK /\ Wakeups => ClaimsAccounted /\ RetryTokenUnique
  BY DEF Wakeups
<1> QED
  BY <1>1, <1>2, <1>3, PTL DEF Spec

(* In particular an issue is claimed exactly while it runs or waits.        *)
COROLLARY ClaimsAreAccounted == Spec => []ClaimsAccounted
  BY ClaimsAndWakeups, PTL

-----------------------------------------------------------------------------
(* Workers and their events. A worker is started only for an issue that     *)
(* does not run, for which the invariant leaves no event in the channel;    *)
(* and an outcome is sent by the only worker of its issue, as its last.     *)

(* The shape of the worker channel after a receive. *)
LEMMA WorkerReceive ==
    ASSUME TypeOK, worker_rx # <<>>, worker_rx' = Tail(worker_rx)
    PROVE  /\ DOMAIN worker_rx = 1 .. Len(worker_rx) /\ Len(worker_rx) \in Nat \ {0}
           /\ Head(worker_rx) = worker_rx[1]
           /\ \A k \in DOMAIN worker_rx' : k \in Nat /\ 1 < k + 1 /\ k + 1 \in DOMAIN worker_rx
                                           /\ worker_rx'[k] = worker_rx[k + 1]
           /\ \A k \in DOMAIN worker_rx : k = 1 \/ (k - 1 \in DOMAIN worker_rx'
                                                    /\ worker_rx'[k - 1] = worker_rx[k])
<1>1. worker_rx \in Seq(Event)
  BY DEF TypeOK
<1> QED
  BY <1>1, TailFacts

(* And after a send. *)
LEMMA WorkerSend ==
    ASSUME TypeOK, NEW e \in Event, worker_rx' = Append(worker_rx, e)
    PROVE  /\ DOMAIN worker_rx = 1 .. Len(worker_rx) /\ Len(worker_rx) \in Nat
           /\ DOMAIN worker_rx' = 1 .. Len(worker_rx) + 1
           /\ worker_rx'[Len(worker_rx) + 1] = e
           /\ \A k \in DOMAIN worker_rx : k \in DOMAIN worker_rx' /\ worker_rx'[k] = worker_rx[k]
<1>1. worker_rx \in Seq(Event)
  BY DEF TypeOK
<1> QED
  BY <1>1, AppendFacts

(* At the start there is neither a worker nor an event.                     *)
LEMMA OneWorkerInit == Init => OneWorker
  BY DEF Init, OneWorker, IsFinished

(* Steps that leave runs, workers and the worker channel alone.             *)
LEMMA OneWorkerFrame ==
    ASSUME OneWorker, UNCHANGED <<running, live, worker_rx>>
    PROVE  OneWorker'
  BY DEF OneWorker, IsFinished

(* A dispatch of an issue that does not run. *)
LEMMA OneWorkerDispatch ==
    ASSUME TypeOK, OneWorker, NEW entries, NEW r \in IssueRecord, NEW n, r.id \notin running,
           DispatchIssue(entries, r, n), worker_rx' = worker_rx
    PROVE  OneWorker'
<1>1. r.id \in Issue /\ live \in [Issue -> Nat] /\ live[r.id] = 0
  BY DEF IssueRecord, TypeOK, OneWorker
<1>2. \A k \in DOMAIN worker_rx : worker_rx[k].issue # r.id
  BY DEF OneWorker
<1>3. running' = running \union {r.id} /\ live' = [live EXCEPT ![r.id] = 1]
  BY <1>1 DEF DispatchIssue
<1>4. /\ live'[r.id] = 1
      /\ \A i \in Issue : i # r.id => live'[i] = live[i]
  BY <1>1, <1>3
<1>5. \A i \in Issue : live'[i] \in {0, 1} /\ (live'[i] = 1 => i \in running')
  BY <1>3, <1>4 DEF OneWorker
<1>6. \A k \in DOMAIN worker_rx' :
        /\ worker_rx'[k].issue \in running'
        /\ worker_rx'[k].kind \in Exit => live'[worker_rx'[k].issue] = 0
  <2>1. \A k \in DOMAIN worker_rx : worker_rx[k].issue \in Issue \ {r.id}
    BY <1>2 DEF OneWorker, TypeOK
  <2> QED
    BY <1>3, <1>4, <2>1 DEF OneWorker, IsFinished
<1>7. \A j, k \in DOMAIN worker_rx' :
        j < k /\ worker_rx'[j].issue = worker_rx'[k].issue => worker_rx'[j].kind \notin Exit
  BY DEF OneWorker, IsFinished
<1>8. \A i \in running' \ MayPanic :
        live'[i] = 1 \/ \E k \in DOMAIN worker_rx' :
                           worker_rx'[k].issue = i /\ worker_rx'[k].kind \in Exit
  BY <1>3, <1>4 DEF OneWorker, IsFinished, TypeOK
<1> QED
  BY <1>5, <1>6, <1>7, <1>8 DEF OneWorker, IsFinished

(* An outcome that is received takes its run with it. *)
LEMMA OneWorkerFinished ==
    ASSUME TypeOK, OneWorker, NEW i \in Issue, FinishedOf(i), ForgetRun(i)
    PROVE  OneWorker'
<1>1. /\ worker_rx # <<>> /\ worker_rx' = Tail(worker_rx) /\ live' = live
      /\ running' = running \ {i} /\ Head(worker_rx).issue = i
      /\ Head(worker_rx).kind \in Exit
  BY DEF FinishedOf, ForgetRun
<1>2. \A k \in DOMAIN worker_rx : 1 < k => worker_rx[k].issue # i
  BY <1>1, WorkerReceive DEF OneWorker, IsFinished
<1>3. live[i] = 0
  BY <1>1, WorkerReceive DEF OneWorker, IsFinished
<1>4. \A j \in Issue : live'[j] \in {0, 1} /\ (live'[j] = 1 => j \in running')
  BY <1>1, <1>3 DEF OneWorker
<1>5. \A k \in DOMAIN worker_rx' :
        /\ worker_rx'[k].issue \in running'
        /\ worker_rx'[k].kind \in Exit => live'[worker_rx'[k].issue] = 0
  BY <1>1, <1>2, WorkerReceive DEF OneWorker, IsFinished
<1>6. \A j, k \in DOMAIN worker_rx' :
        j < k /\ worker_rx'[j].issue = worker_rx'[k].issue => worker_rx'[j].kind \notin Exit
  BY <1>1, WorkerReceive DEF OneWorker, IsFinished
<1>7. ASSUME NEW j \in running' \ MayPanic
      PROVE  live'[j] = 1 \/ \E k \in DOMAIN worker_rx' :
                               worker_rx'[k].issue = j /\ worker_rx'[k].kind \in Exit
  <2>1. CASE live[j] = 1
    BY <1>1, <2>1
  <2>2. CASE live[j] # 1
    <3>1. PICK k \in DOMAIN worker_rx : worker_rx[k].issue = j /\ worker_rx[k].kind \in Exit
      BY <1>1, <2>2 DEF OneWorker, IsFinished
    <3>2. k # 1 /\ k - 1 \in DOMAIN worker_rx' /\ worker_rx'[k - 1] = worker_rx[k]
      BY <1>1, <3>1, WorkerReceive
    <3> QED
      BY <3>1, <3>2
  <2> QED
    BY <2>1, <2>2
<1> QED
  BY <1>4, <1>5, <1>6, <1>7 DEF OneWorker, IsFinished

(* An update that is received was not the last event of its run. *)
LEMMA OneWorkerUpdate ==
    ASSUME TypeOK, OneWorker, ApplySessionUpdate
    PROVE  OneWorker'
<1>1. /\ worker_rx # <<>> /\ worker_rx' = Tail(worker_rx) /\ live' = live
      /\ running' = running
      /\ Head(worker_rx).kind = Update \/ Head(worker_rx).issue \notin running
  BY DEF ApplySessionUpdate, entryVars, workerVars
<1>2. worker_rx[1].issue \in running /\ worker_rx[1].kind \notin Exit
  <2>1. 1 \in DOMAIN worker_rx /\ Head(worker_rx) = worker_rx[1]
    BY <1>1, WorkerReceive
  <2>2. worker_rx[1].issue \in running
    BY <2>1 DEF OneWorker
  <2> QED
    BY <1>1, <2>1, <2>2 DEF Update
<1>3. \A k \in DOMAIN worker_rx' :
        /\ worker_rx'[k].issue \in running'
        /\ worker_rx'[k].kind \in Exit => live'[worker_rx'[k].issue] = 0
  BY <1>1, WorkerReceive DEF OneWorker, IsFinished
<1>4. \A j, k \in DOMAIN worker_rx' :
        j < k /\ worker_rx'[j].issue = worker_rx'[k].issue => worker_rx'[j].kind \notin Exit
  BY <1>1, WorkerReceive DEF OneWorker, IsFinished
<1>5. ASSUME NEW j \in running \ MayPanic, live[j] # 1
      PROVE  \E k \in DOMAIN worker_rx' :
               worker_rx'[k].issue = j /\ worker_rx'[k].kind \in Exit
  <2>1. PICK k \in DOMAIN worker_rx : worker_rx[k].issue = j /\ worker_rx[k].kind \in Exit
    BY <1>5 DEF OneWorker, IsFinished
  <2>2. k # 1 /\ k - 1 \in DOMAIN worker_rx' /\ worker_rx'[k - 1] = worker_rx[k]
    BY <1>1, <1>2, <2>1, WorkerReceive
  <2> QED
    BY <2>1, <2>2
<1> QED
  BY <1>1, <1>3, <1>4, <1>5 DEF OneWorker, IsFinished

(* Every step keeps workers and events tied to their runs.                  *)
LEMMA OneWorkerStep == TypeOK /\ OneWorker /\ [Next]_vars => OneWorker'
<1> SUFFICES ASSUME TypeOK, OneWorker, [Next]_vars
             PROVE  OneWorker'
  OBVIOUS
<1> USE DEF vars, tickVars, entryVars, retryVars, workerVars
<1>1. CASE DispatchCandidate
  <2>1. PICK r \in candidates : ShouldDispatch(r, {}) /\ DispatchIssue(retry, r, 0)
    BY <1>1 DEF DispatchCandidate
  <2> QED
    BY <1>1, <2>1, OneWorkerDispatch DEF TypeOK, ShouldDispatch, DispatchCandidate
<1>2. CASE ApplySessionUpdate
  BY <1>2, OneWorkerUpdate
<1>3. ASSUME NEW i \in Issue, HandleWorkerFinished(i)
      PROVE  OneWorker'
  <2>1. FinishedOf(i) /\ ForgetRun(i)
    BY <1>3 DEF HandleWorkerFinished, FinishTerminal, FinishNonActive, FinishSucceeded,
                FinishRetried
  <2> QED
    BY <2>1, OneWorkerFinished
<1>4. ASSUME NEW i \in Issue, HandleRetryDue(i)
      PROVE  OneWorker'
  <2>1. CASE RetryDispatched(i)
    <3>1. /\ DispatchIssue(Taken(i), Fetched(i), retry[i]) /\ worker_rx' = worker_rx
          /\ Fetched(i).id \notin running
      BY <2>1 DEF RetryDispatched, RetryMessage, CanDispatch, ShouldDispatch
    <3> QED
      BY <3>1, FetchedType, OneWorkerDispatch
  <2>2. CASE ~RetryDispatched(i)
    BY <1>4, <2>2, OneWorkerFrame
    DEF HandleRetryDue, RetryAnswered, RetryPollFails, RetryReleased, RetryRequeued, RetryMessage
  <2> QED
    BY <2>1, <2>2
<1>5. CASE Restart
  BY <1>5 DEF Restart, OneWorker, IsFinished
<1>6. ASSUME NEW i \in Issue, Worker(i)
      PROVE  OneWorker'
  <2>1. CASE WorkerPrepares(i)
    BY <2>1, OneWorkerFrame DEF WorkerPrepares
  <2>2. ASSUME NEW e \in Event, e.issue = i, live[i] > 0, worker_rx' = Append(worker_rx, e),
               running' = running, live' = IF e.kind \in Exit THEN [live EXCEPT ![i] = 0] ELSE live
        PROVE  OneWorker'
    <3>1. live \in [Issue -> Nat] /\ live[i] = 1 /\ i \in running
      BY <2>2 DEF TypeOK, OneWorker
    <3>2. \A k \in DOMAIN worker_rx : worker_rx[k].issue = i => worker_rx[k].kind \notin Exit
      BY <3>1 DEF OneWorker, IsFinished
    <3>3. \A j \in Issue : live'[j] \in {0, 1} /\ (live'[j] = 1 => j \in running')
      BY <2>2, <3>1 DEF OneWorker
    <3>4. \A k \in DOMAIN worker_rx' :
            /\ worker_rx'[k].issue \in running'
            /\ worker_rx'[k].kind \in Exit => live'[worker_rx'[k].issue] = 0
      <4> SUFFICES ASSUME NEW k \in DOMAIN worker_rx'
                   PROVE  /\ worker_rx'[k].issue \in running'
                          /\ worker_rx'[k].kind \in Exit => live'[worker_rx'[k].issue] = 0
        OBVIOUS
      <4>1. CASE k \in DOMAIN worker_rx
        <5>1. worker_rx'[k] = worker_rx[k] /\ worker_rx[k].issue \in running
          BY <2>2, <4>1, WorkerSend DEF OneWorker
        <5>2. worker_rx[k].kind \in Exit => live[worker_rx[k].issue] = 0
          BY <4>1 DEF OneWorker, IsFinished
        <5> QED
          BY <2>2, <3>1, <5>1, <5>2 DEF TypeOK
      <4>2. CASE k = Len(worker_rx) + 1
        BY <2>2, <3>1, <4>2, WorkerSend
      <4> QED
        BY <2>2, <4>1, <4>2, WorkerSend
    <3>5. \A j, k \in DOMAIN worker_rx' :
            j < k /\ worker_rx'[j].issue = worker_rx'[k].issue => worker_rx'[j].kind \notin Exit
      BY <2>2, <3>2, WorkerSend DEF OneWorker, IsFinished
    <3>6. \A j \in running' \ MayPanic :
            live'[j] = 1 \/ \E k \in DOMAIN worker_rx' :
                              worker_rx'[k].issue = j /\ worker_rx'[k].kind \in Exit
      <4> SUFFICES ASSUME NEW j \in running \ MayPanic, live'[j] # 1
                   PROVE  \E k \in DOMAIN worker_rx' :
                            worker_rx'[k].issue = j /\ worker_rx'[k].kind \in Exit
        BY <2>2
      <4>1. CASE j = i
        <5>1. e.kind \in Exit
          BY <2>2, <3>1, <4>1
        <5> QED
          BY <2>2, <4>1, <5>1, WorkerSend
      <4>2. CASE j # i
        <5>1. live[j] # 1
          BY <2>2, <3>1, <4>2
        <5>2. PICK k \in DOMAIN worker_rx : worker_rx[k].issue = j /\ worker_rx[k].kind \in Exit
          BY <5>1 DEF OneWorker, IsFinished
        <5> QED
          BY <2>2, <5>2, WorkerSend
      <4> QED
        BY <4>1, <4>2
    <3> QED
      BY <3>3, <3>4, <3>5, <3>6 DEF OneWorker, IsFinished
  <2>3. CASE WorkerUpdates(i)
    <3>1. [issue |-> i, kind |-> Update] \in Event /\ Update \notin Exit
      BY DEF Update
    <3> QED
      BY <2>2, <2>3, <3>1 DEF WorkerUpdates
  <2>4. CASE WorkerFinishes(i)
    <3>1. PICK x \in Exit : worker_rx' = Append(worker_rx, [issue |-> i, kind |-> x])
      BY <2>4 DEF WorkerFinishes
    <3>2. [issue |-> i, kind |-> x] \in Event
      OBVIOUS
    <3>3. live' = [live EXCEPT ![i] = 0] /\ live[i] > 0 /\ running' = running
      <4>1. live \in [Issue -> Nat] /\ live[i] = 1
        BY <2>4 DEF TypeOK, WorkerFinishes, OneWorker
      <4> QED
        BY <2>4, <4>1 DEF WorkerFinishes
    <3> QED
      BY <2>2, <3>1, <3>2, <3>3
  <2>5. CASE WorkerPanics(i)
    <3>1. /\ live \in [Issue -> Nat] /\ live[i] = 1 /\ live' = [live EXCEPT ![i] = 0]
          /\ i \in MayPanic /\ UNCHANGED <<running, worker_rx>>
      <4>1. live \in [Issue -> Nat] /\ live[i] = 1 /\ i \in MayPanic
        BY <2>5 DEF TypeOK, WorkerPanics, OneWorker
      <4> QED
        BY <2>5, <4>1 DEF WorkerPanics
    <3>2. \A j \in Issue : live'[j] \in {0, 1} /\ (live'[j] = 1 => j \in running')
      BY <3>1 DEF OneWorker
    <3>3. \A k \in DOMAIN worker_rx' : worker_rx'[k].issue \in running'
      BY <3>1 DEF OneWorker
    <3>4. \A k \in DOMAIN worker_rx' :
            worker_rx'[k].kind \in Exit => live'[worker_rx'[k].issue] = 0
      BY <3>1, <3>3 DEF OneWorker, IsFinished, TypeOK
    <3>5. \A j \in running' \ MayPanic : live'[j] = live[j]
      BY <3>1 DEF TypeOK
    <3> QED
      BY <3>1, <3>2, <3>3, <3>4, <3>5 DEF OneWorker, IsFinished
  <2> QED
    BY <1>6, <2>1, <2>3, <2>4, <2>5 DEF Worker
<1>7. CASE \/ ReconcileRunningIssues \/ FetchCandidates \/ FetchCandidatesFails \/ OutOfSlots
           \/ SkipCandidate \/ ReloadWorkflow \/ TrackerChange
           \/ (\E i \in Issue : TimerFires(i)) \/ UNCHANGED vars
  <2>1. UNCHANGED <<running, live, worker_rx>>
    BY <1>7 DEF ReconcileRunningIssues, FetchCandidates, FetchCandidatesFails, OutOfSlots,
                SkipCandidate, ReloadWorkflow, TrackerChange, TimerFires
  <2> QED
    BY <2>1, OneWorkerFrame
<1> QED
  BY <1>1, <1>2, <1>3, <1>4, <1>5, <1>6, <1>7
  DEF Next, Tick, ConsiderCandidate, HandleWorkerEvent

(* An issue never has two workers, and every event in the channel belongs   *)
(* to the present run of its issue.                                         *)
THEOREM WorkerOwnership == Spec => []OneWorker
<1> QED
  BY TypeInit, TypeStep, OneWorkerInit, OneWorkerStep, PTL DEF Spec

-----------------------------------------------------------------------------
(* Stop reasons and cancellation tokens. Only cancel_running_issue sets     *)
(* either, and it sets both; a worker reports canceled only with its token  *)
(* set, and the token of a run outlives every event of the run.             *)

(* At the start no token is set and no run has a stop reason.               *)
LEMMA CancelInit == Init => CancelHasReason
  BY DEF Init, CancelHasReason

(* Steps that leave runs, reasons, tokens and the worker channel alone.     *)
LEMMA CancelFrame ==
    ASSUME CancelHasReason, UNCHANGED <<running, stop, cancelled, worker_rx>>
    PROVE  CancelHasReason'
  BY DEF CancelHasReason

(* Reconciliation sets the token and the reason of a run together.          *)
LEMMA CancelReconcile ==
    ASSUME TypeOK, CancelHasReason, ReconcileRunningIssues
    PROVE  CancelHasReason'
<1>1. PICK stalled \in SUBSET running, fetched \in BOOLEAN :
        LET silence(i) == IF i \in stalled THEN "stall" ELSE NoReason
            verdict(i) == IF fetched THEN Verdict(i) ELSE NoReason
            reason(i) == FirstReason(silence(i), verdict(i))
        IN /\ stop' = [i \in Issue |-> IF i \in running
                                       THEN FirstReason(stop[i], reason(i)) ELSE stop[i]]
           /\ cancelled' = cancelled \union {i \in running : reason(i) # NoReason}
  BY DEF ReconcileRunningIssues
<1> DEFINE reason(i) == FirstReason(IF i \in stalled THEN "stall" ELSE NoReason,
                                    IF fetched THEN Verdict(i) ELSE NoReason)
<1>2. /\ \A i \in running : stop'[i] = FirstReason(stop[i], reason(i))
      /\ \A i \in Issue \ running : stop'[i] = stop[i]
      /\ cancelled' = cancelled \union {i \in running : reason(i) # NoReason}
  BY <1>1 DEF TypeOK
<1> HIDE DEF reason
<1>3. running' = running /\ worker_rx' = worker_rx
  BY DEF ReconcileRunningIssues
<1>4. \A i \in running : stop'[i] # NoReason <=> stop[i] # NoReason \/ reason(i) # NoReason
  BY <1>2 DEF FirstReason
<1>5. cancelled' = {i \in running : stop'[i] # NoReason}
  BY <1>2, <1>4 DEF CancelHasReason
<1> QED
  BY <1>2, <1>3, <1>5 DEF CancelHasReason, TypeOK

(* A new run has neither a token nor a reason.                              *)
LEMMA CancelDispatch ==
    ASSUME TypeOK, OneWorker, CancelHasReason, NEW entries, NEW r \in IssueRecord, NEW n,
           r.id \notin running, DispatchIssue(entries, r, n), worker_rx' = worker_rx
    PROVE  CancelHasReason'
<1>1. /\ r.id \in Issue /\ running' = running \union {r.id}
      /\ stop' = [stop EXCEPT ![r.id] = NoReason] /\ cancelled' = cancelled \ {r.id}
  BY DEF IssueRecord, DispatchIssue
<1>2. \A k \in DOMAIN worker_rx : worker_rx[k].issue # r.id
  BY DEF OneWorker
<1>3. stop'[r.id] = NoReason /\ \A i \in Issue : i # r.id => stop'[i] = stop[i]
  BY <1>1 DEF TypeOK
<1>4. cancelled' = {i \in running' : stop'[i] # NoReason}
  BY <1>1, <1>3 DEF CancelHasReason, TypeOK
<1>5. \A i \in Issue \ running' : stop'[i] = NoReason
  BY <1>1, <1>3 DEF CancelHasReason
<1>6. \A k \in DOMAIN worker_rx' :
        worker_rx'[k].kind = "canceled" => worker_rx'[k].issue \in cancelled'
  BY <1>1, <1>2 DEF CancelHasReason
<1> QED
  BY <1>4, <1>5, <1>6 DEF CancelHasReason

(* An outcome removes the token and the reason of its run.                  *)
LEMMA CancelFinished ==
    ASSUME TypeOK, OneWorker, CancelHasReason, NEW i \in Issue, FinishedOf(i), ForgetRun(i)
    PROVE  CancelHasReason'
<1>1. /\ worker_rx # <<>> /\ worker_rx' = Tail(worker_rx) /\ running' = running \ {i}
      /\ stop' = [stop EXCEPT ![i] = NoReason] /\ cancelled' = cancelled \ {i}
      /\ Head(worker_rx).issue = i /\ Head(worker_rx).kind \in Exit
  BY DEF FinishedOf, ForgetRun
<1>2. \A k \in DOMAIN worker_rx : 1 < k => worker_rx[k].issue # i
  BY <1>1, WorkerReceive DEF OneWorker, IsFinished
<1>3. \A k \in DOMAIN worker_rx' :
        worker_rx'[k].kind = "canceled" => worker_rx'[k].issue \in cancelled'
  BY <1>1, <1>2, WorkerReceive DEF CancelHasReason
<1> QED
  BY <1>1, <1>3 DEF CancelHasReason, TypeOK

(* A received event that leaves the runs alone leaves the rest too.         *)
LEMMA CancelUpdate ==
    ASSUME TypeOK, CancelHasReason, ApplySessionUpdate
    PROVE  CancelHasReason'
<1>1. /\ worker_rx # <<>> /\ worker_rx' = Tail(worker_rx)
      /\ running' = running /\ stop' = stop /\ cancelled' = cancelled
  BY DEF ApplySessionUpdate, entryVars, workerVars
<1>2. \A k \in DOMAIN worker_rx' :
        worker_rx'[k].kind = "canceled" => worker_rx'[k].issue \in cancelled'
  BY <1>1, WorkerReceive DEF CancelHasReason
<1> QED
  BY <1>1, <1>2 DEF CancelHasReason

(* A worker sends canceled only when its token is set.                      *)
LEMMA CancelSend ==
    ASSUME TypeOK, CancelHasReason, NEW e \in Event, e.kind = "canceled" => e.issue \in cancelled,
           worker_rx' = Append(worker_rx, e), UNCHANGED <<running, stop, cancelled>>
    PROVE  CancelHasReason'
<1>1. \A k \in DOMAIN worker_rx' :
        worker_rx'[k].kind = "canceled" => worker_rx'[k].issue \in cancelled'
  BY WorkerSend DEF CancelHasReason
<1> QED
  BY <1>1 DEF CancelHasReason

(* Every step keeps tokens, reasons and canceled outcomes in agreement.     *)
LEMMA CancelStep == TypeOK /\ OneWorker /\ CancelHasReason /\ [Next]_vars => CancelHasReason'
<1> SUFFICES ASSUME TypeOK, OneWorker, CancelHasReason, [Next]_vars
             PROVE  CancelHasReason'
  OBVIOUS
<1> USE DEF vars, tickVars, entryVars, retryVars, workerVars
<1>1. CASE ReconcileRunningIssues
  BY <1>1, CancelReconcile
<1>2. CASE DispatchCandidate
  <2>1. PICK r \in candidates : ShouldDispatch(r, {}) /\ DispatchIssue(retry, r, 0)
    BY <1>2 DEF DispatchCandidate
  <2> QED
    BY <1>2, <2>1, CancelDispatch DEF TypeOK, ShouldDispatch, DispatchCandidate
<1>3. CASE ApplySessionUpdate
  BY <1>3, CancelUpdate
<1>4. ASSUME NEW i \in Issue, HandleWorkerFinished(i)
      PROVE  CancelHasReason'
  <2>1. FinishedOf(i) /\ ForgetRun(i)
    BY <1>4 DEF HandleWorkerFinished, FinishTerminal, FinishNonActive, FinishSucceeded,
                FinishRetried
  <2> QED
    BY <2>1, CancelFinished
<1>5. ASSUME NEW i \in Issue, HandleRetryDue(i)
      PROVE  CancelHasReason'
  <2>1. CASE RetryDispatched(i)
    <3>1. /\ DispatchIssue(Taken(i), Fetched(i), retry[i]) /\ worker_rx' = worker_rx
          /\ Fetched(i).id \notin running
      BY <2>1 DEF RetryDispatched, RetryMessage, CanDispatch, ShouldDispatch
    <3> QED
      BY <3>1, FetchedType, CancelDispatch
  <2>2. CASE ~RetryDispatched(i)
    BY <1>5, <2>2, CancelFrame
    DEF HandleRetryDue, RetryAnswered, RetryPollFails, RetryReleased, RetryRequeued, RetryMessage
  <2> QED
    BY <2>1, <2>2
<1>6. CASE Restart
  BY <1>6 DEF Restart, CancelHasReason
<1>7. ASSUME NEW i \in Issue, Worker(i)
      PROVE  CancelHasReason'
  <2>1. CASE WorkerPrepares(i) \/ WorkerPanics(i)
    BY <2>1, CancelFrame DEF WorkerPrepares, WorkerPanics
  <2>2. CASE WorkerUpdates(i)
    <3>1. [issue |-> i, kind |-> Update] \in Event /\ Update # "canceled"
      BY DEF Update
    <3> QED
      BY <2>2, <3>1, CancelSend DEF WorkerUpdates
  <2>3. CASE WorkerFinishes(i)
    <3>1. PICK x \in Exit : /\ x = "canceled" => i \in cancelled
                            /\ worker_rx' = Append(worker_rx, [issue |-> i, kind |-> x])
      BY <2>3 DEF WorkerFinishes
    <3>2. [issue |-> i, kind |-> x] \in Event
      OBVIOUS
    <3> QED
      BY <2>3, <3>1, <3>2, CancelSend DEF WorkerFinishes
  <2> QED
    BY <1>7, <2>1, <2>2, <2>3 DEF Worker
<1>8. CASE \/ FetchCandidates \/ FetchCandidatesFails \/ OutOfSlots \/ SkipCandidate
           \/ ReloadWorkflow \/ TrackerChange \/ (\E i \in Issue : TimerFires(i))
           \/ UNCHANGED vars
  <2>1. UNCHANGED <<running, stop, cancelled, worker_rx>>
    BY <1>8 DEF FetchCandidates, FetchCandidatesFails, OutOfSlots, SkipCandidate,
                ReloadWorkflow, TrackerChange, TimerFires
  <2> QED
    BY <2>1, CancelFrame
<1> QED
  BY <1>1, <1>2, <1>3, <1>4, <1>5, <1>6, <1>7, <1>8
  DEF Next, Tick, ConsiderCandidate, HandleWorkerEvent

(* A token is set exactly for the runs with a stop reason, and a canceled   *)
(* outcome always finds one.                                                *)
THEOREM CancellationHasReason == Spec => []CancelHasReason
<1> QED
  BY TypeInit, TypeStep, OneWorkerInit, OneWorkerStep, CancelInit, CancelStep, PTL DEF Spec

-----------------------------------------------------------------------------
(* Workspaces. Apart from a restart only the outcome of a terminal run      *)
(* removes one, and an outcome that is received is the last trace of its    *)
(* worker.                                                                  *)

(* Every other step leaves the workspaces alone or adds one.                *)
LEMMA WorkspaceFrame ==
    ASSUME [Next]_vars, ~Restart, \A i \in Issue : ~FinishTerminal(i)
    PROVE  workspace \subseteq workspace'
<1> USE DEF vars, tickVars, entryVars, retryVars, workerVars
<1>1. CASE Tick \/ ApplySessionUpdate \/ ReloadWorkflow \/ TrackerChange \/ UNCHANGED vars
  BY <1>1 DEF Tick, ReconcileRunningIssues, FetchCandidates, FetchCandidatesFails,
              ConsiderCandidate, OutOfSlots, SkipCandidate, DispatchCandidate,
              ApplySessionUpdate, ReloadWorkflow, TrackerChange
<1>2. ASSUME NEW i \in Issue, HandleWorkerFinished(i)
      PROVE  workspace \subseteq workspace'
  BY <1>2 DEF HandleWorkerFinished, FinishNonActive, FinishSucceeded, FinishRetried
<1>3. ASSUME NEW i \in Issue, HandleRetryDue(i) \/ TimerFires(i) \/ Worker(i)
      PROVE  workspace \subseteq workspace'
  BY <1>3 DEF HandleRetryDue, RetryAnswered, RetryPollFails, RetryReleased, RetryRequeued,
              RetryDispatched, RetryMessage, TimerFires, Worker, WorkerPrepares, WorkerUpdates,
              WorkerFinishes, WorkerPanics
<1> QED
  BY <1>1, <1>2, <1>3 DEF Next, HandleWorkerEvent

(* A workspace disappears only when its issue has neither a worker nor a    *)
(* running entry left.                                                      *)
THEOREM WorkspaceOutlivesWorker == Spec => WorkspaceKept
<1>1. ASSUME TypeOK, OneWorker, [Next]_vars
      PROVE  [\A w \in workspace \ workspace' : live'[w[1]] = 0 /\ w[1] \notin running']_vars
  <2> SUFFICES ASSUME NEW w \in workspace \ workspace'
               PROVE  live'[w[1]] = 0 /\ w[1] \notin running'
    OBVIOUS
  <2>1. CASE Restart
    BY <2>1 DEF Restart, TypeOK
  <2>2. ASSUME NEW i \in Issue, FinishTerminal(i)
        PROVE  live'[w[1]] = 0 /\ w[1] \notin running'
    <3>1. w = <<i, config.root>>
      BY <2>2 DEF FinishTerminal
    <3>2. live' = live /\ running' = running \ {i}
      BY <2>2 DEF FinishTerminal, ForgetRun
    <3>3. 1 \in DOMAIN worker_rx /\ worker_rx[1].issue = i /\ IsFinished(1)
      BY <2>2 DEF FinishTerminal, FinishedOf, IsFinished, TypeOK
    <3>4. live[i] = 0
      BY <1>1, <3>3 DEF OneWorker
    <3>5. w[1] = i
      BY <3>1
    <3> QED
      BY <3>2, <3>4, <3>5
  <2> QED
    BY <1>1, <2>1, <2>2, WorkspaceFrame
<1> QED
  BY <1>1, TypeInvariant, WorkerOwnership, PTL DEF Spec, WorkspaceKept

-----------------------------------------------------------------------------
(* Attempt numbers. They pass from a running entry to a retry entry and     *)
(* back, and ClaimsAccounted says which of the two an issue has.            *)

(* Bumping an attempt number does not lower it.                             *)
LEMMA BumpGrows == \A n \in 0 .. AttemptCap : Bump(n) >= n
  BY OrchestratorAssumption DEF Bump

(* Steps that leave an issue's entries alone keep its attempt number.       *)
LEMMA AttemptsFrame ==
    ASSUME NEW i \in Issue, (i \in running') = (i \in running), attempt'[i] = attempt[i],
           retry'[i] = retry[i], TypeOK
    PROVE  ~(Attempts(i)' < Attempts(i))
  BY DEF Attempts, TypeOK

(* The attempt number of an issue falls only with the success of a run that *)
(* nobody asked to stop.                                                    *)
LEMMA AttemptsStep ==
    ASSUME TypeOK, ClaimsAccounted, [Next]_vars,
           NEW j \in claimed \intersect claimed', Attempts(j)' < Attempts(j)
    PROVE  /\ j \in running /\ stop[j] = NoReason
           /\ Head(worker_rx) = [issue |-> j, kind |-> "succeeded"]
<1> USE DEF vars, tickVars, entryVars, retryVars, workerVars
<1> DEFINE Succeeds == /\ j \in running /\ stop[j] = NoReason
                       /\ Head(worker_rx) = [issue |-> j, kind |-> "succeeded"]
<1>0. j \in Issue
  BY DEF TypeOK
<1>1. CASE DispatchCandidate
  <2>1. PICK r \in candidates : ShouldDispatch(r, {}) /\ DispatchIssue(retry, r, 0)
    BY <1>1 DEF DispatchCandidate
  <2>2. r.id # j
    BY <2>1 DEF ShouldDispatch
  <2>3. (j \in running') = (j \in running) /\ attempt'[j] = attempt[j] /\ retry'[j] = retry[j]
    BY <1>0, <2>1, <2>2 DEF DispatchIssue, TypeOK
  <2> QED
    BY <1>0, <2>3, AttemptsFrame
<1>2. ASSUME NEW i \in Issue, HandleWorkerFinished(i)
      PROVE  Succeeds
  <2>1. FinishedOf(i) /\ ForgetRun(i) /\ i \in running
    BY <1>2 DEF HandleWorkerFinished, FinishTerminal, FinishNonActive, FinishSucceeded,
                FinishRetried, FinishedOf
  <2>2. CASE j # i
    <3>1. (j \in running') = (j \in running) /\ attempt'[j] = attempt[j]
      BY <1>0, <2>1, <2>2 DEF ForgetRun, TypeOK
    <3>2. retry'[j] = retry[j]
      BY <1>0, <1>2, <2>2
      DEF HandleWorkerFinished, FinishTerminal, FinishNonActive, FinishSucceeded, FinishRetried,
          ReleaseClaim, ScheduleRetry, TypeOK
    <3> QED
      BY <1>0, <3>1, <3>2, AttemptsFrame
  <2>3. CASE j = i
    <3>1. ~FinishTerminal(i) /\ ~FinishNonActive(i)
      BY <2>3 DEF FinishTerminal, FinishNonActive, ReleaseClaim
    <3>2. CASE FinishSucceeded(i)
      <4>1. Head(worker_rx) \in Event
        <5>1. worker_rx \in Seq(Event) /\ worker_rx # <<>>
          BY <2>1 DEF FinishedOf, TypeOK
        <5> QED
          BY <5>1, HeadFacts
      <4>2. stop[i] = NoReason /\ Head(worker_rx).issue = i /\ Head(worker_rx).kind = "succeeded"
        BY <3>2 DEF FinishSucceeded, FinishedOf
      <4>3. \A e \in Event : e = [issue |-> e.issue, kind |-> e.kind]
        OBVIOUS
      <4>4. Head(worker_rx) = [issue |-> i, kind |-> "succeeded"]
        BY <4>1, <4>2, <4>3
      <4> QED
        BY <2>1, <2>3, <4>2, <4>4
    <3>3. CASE FinishRetried(i)
      <4>1. attempt[i] \in 0 .. AttemptCap
        BY DEF TypeOK
      <4>2. Attempts(j) = attempt[i]
        BY <2>1, <2>3 DEF Attempts
      <4>3. Attempts(j)' = Bump(attempt[i])
        BY <2>1, <2>3, <3>3 DEF Attempts, FinishRetried, ForgetRun, ScheduleRetry, TypeOK
      <4> QED
        BY <4>1, <4>2, <4>3, BumpGrows, BumpType
    <3> QED
      BY <1>2, <3>1, <3>2, <3>3 DEF HandleWorkerFinished
  <2> QED
    BY <2>2, <2>3
<1>3. ASSUME NEW i \in Issue, HandleRetryDue(i)
      PROVE  Succeeds
  <2>1. CASE retry[i] = 0
    <3>1. UNCHANGED <<running, attempt, retry>>
      BY <1>3, <2>1
      DEF HandleRetryDue, RetryAnswered, RetryPollFails, RetryReleased, RetryRequeued,
          RetryDispatched
    <3> QED
      BY <1>0, <3>1, AttemptsFrame
  <2>2. CASE retry[i] # 0 /\ j # i
    <3>1. (j \in running') = (j \in running) /\ attempt'[j] = attempt[j] /\ retry'[j] = retry[j]
      BY <1>0, <1>3, <2>2
      DEF HandleRetryDue, RetryAnswered, RetryPollFails, RetryReleased, RetryRequeued,
          RetryDispatched, ScheduleRetry, ReleaseClaim, DispatchIssue, Taken, Fetched, TypeOK
    <3> QED
      BY <1>0, <3>1, AttemptsFrame
  <2>3. CASE retry[i] # 0 /\ j = i
    <3>1. i \notin running /\ retry[i] \in 0 .. AttemptCap /\ Attempts(j) = retry[i]
      BY <2>3 DEF ClaimsAccounted, Attempts, TypeOK
    <3>2. CASE RetryPollFails(i) \/ RetryRequeued(i)
      <4>1. Attempts(j)' = Bump(retry[i])
        BY <2>3, <3>1, <3>2
        DEF RetryPollFails, RetryRequeued, ScheduleRetry, Attempts, Taken, TypeOK
      <4> QED
        BY <3>1, <4>1, BumpGrows, BumpType
    <3>3. CASE RetryReleased(i)
      BY <2>3, <3>3 DEF RetryReleased, ReleaseClaim
    <3>4. CASE RetryDispatched(i)
      <4>1. Attempts(j)' = retry[i]
        BY <2>3, <3>1, <3>4 DEF RetryDispatched, DispatchIssue, Fetched, Attempts, TypeOK
      <4> QED
        BY <3>1, <4>1
    <3> QED
      BY <1>3, <3>2, <3>3, <3>4 DEF HandleRetryDue, RetryAnswered
  <2> QED
    BY <2>1, <2>2, <2>3
<1>4. CASE Restart
  BY <1>4 DEF Restart
<1>5. CASE \/ ReconcileRunningIssues \/ FetchCandidates \/ FetchCandidatesFails \/ OutOfSlots
           \/ SkipCandidate \/ ApplySessionUpdate \/ ReloadWorkflow \/ TrackerChange
           \/ (\E i \in Issue : TimerFires(i) \/ Worker(i)) \/ UNCHANGED vars
  <2>1. UNCHANGED <<running, attempt, retry>>
    BY <1>5 DEF ReconcileRunningIssues, FetchCandidates, FetchCandidatesFails, OutOfSlots,
                SkipCandidate, ApplySessionUpdate, ReloadWorkflow, TrackerChange, TimerFires,
                Worker, WorkerPrepares, WorkerUpdates, WorkerFinishes, WorkerPanics
  <2> QED
    BY <1>0, <2>1, AttemptsFrame
<1> QED
  BY <1>1, <1>2, <1>3, <1>4, <1>5 DEF Next, Tick, ConsiderCandidate, HandleWorkerEvent

(* While an issue stays claimed, its attempt number falls only with a       *)
(* success: backoff survives failures, failed polls and requeues.           *)
THEOREM BackoffKept == Spec => AttemptsKept
<1>1. ASSUME TypeOK, ClaimsAccounted, [Next]_vars
      PROVE  [\A i \in claimed \intersect claimed' :
                Attempts(i)' < Attempts(i) =>
                  /\ i \in running /\ stop[i] = NoReason
                  /\ Head(worker_rx) = [issue |-> i, kind |-> "succeeded"]]_vars
  BY <1>1, AttemptsStep
<1> QED
  BY <1>1, TypeInvariant, ClaimsAndWakeups, PTL DEF Spec, AttemptsKept

-----------------------------------------------------------------------------
(* Slots. Both dispatching steps test the limits in the state they change,  *)
(* and a dispatch adds one run to the total and one to its state.           *)

(* What a dispatch that passed should_dispatch does to the counts.          *)
LEMMA DispatchCounts ==
    ASSUME TypeOK, NEW r \in IssueRecord, NEW allowed, NEW entries, NEW n,
           ShouldDispatch(r, allowed), DispatchIssue(entries, r, n)
    PROVE  /\ running' \ running = {r.id}
           /\ Cardinality(running') <= config.max
           /\ Cardinality({j \in running' : seen'[j] = seen'[r.id]}) <= StateLimit(seen'[r.id])
<1>1. /\ r.id \in Issue /\ r.state \in State /\ r.id \notin running
      /\ running \subseteq Issue /\ IsFiniteSet(running)
  BY OrchestratorAssumption, FS_Subset DEF TypeOK, IssueRecord, ShouldDispatch
<1>2. /\ config.max \in Nat /\ config.perState \in [State -> Nat]
  BY OrchestratorAssumption DEF TypeOK
<1>3. running' = running \union {r.id} /\ seen' = [seen EXCEPT ![r.id] = r.state]
  BY DEF DispatchIssue
<1>4. seen'[r.id] = r.state /\ \A j \in running : seen'[j] = seen[j]
  BY <1>1, <1>3 DEF TypeOK
<1>5. Cardinality(running') <= config.max
  <2>1. Cardinality(running) \in Nat /\ Cardinality(running') = Cardinality(running) + 1
    BY <1>1, <1>3, FS_AddElement, FS_CardinalityType
  <2>2. Cardinality(running) < config.max
    BY <1>2, <2>1 DEF ShouldDispatch, AvailableGlobalSlots
  <2> QED
    BY <1>2, <2>1, <2>2
<1>6. Cardinality({j \in running' : seen'[j] = seen'[r.id]}) <= StateLimit(r.state)
  <2> DEFINE Same == {j \in running : seen[j] = r.state}
  <2>1. {j \in running' : seen'[j] = seen'[r.id]} = Same \union {r.id} /\ r.id \notin Same
    BY <1>1, <1>3, <1>4
  <2>2. IsFiniteSet(Same)
    BY <1>1, FS_Subset
  <2>3. /\ Cardinality(Same) \in Nat
        /\ Cardinality(Same \union {r.id}) = Cardinality(Same) + 1
    BY <2>1, <2>2, FS_AddElement, FS_CardinalityType
  <2>4. Cardinality(Same) < StateLimit(r.state)
    BY DEF ShouldDispatch, StateRunningCount
  <2>5. StateLimit(r.state) \in Nat
    BY <1>1, <1>2 DEF StateLimit
  <2> QED
    BY <2>1, <2>3, <2>4, <2>5
<1> QED
  BY <1>1, <1>3, <1>4, <1>5, <1>6

(* Every issue that begins to run in a step found a slot in that step.      *)
LEMMA SlotsStep ==
    ASSUME TypeOK, [Next]_vars, NEW i \in running' \ running
    PROVE  /\ Cardinality(running') <= config.max
           /\ Cardinality({j \in running' : seen'[j] = seen'[i]}) <= StateLimit(seen'[i])
<1> USE DEF vars, tickVars, entryVars, retryVars, workerVars
<1>1. CASE DispatchCandidate
  <2>1. PICK r \in candidates : ShouldDispatch(r, {}) /\ DispatchIssue(retry, r, 0)
    BY <1>1 DEF DispatchCandidate
  <2>2. r \in IssueRecord
    BY DEF TypeOK
  <2>3. /\ running' \ running = {r.id}
        /\ Cardinality(running') <= config.max
        /\ Cardinality({j \in running' : seen'[j] = seen'[r.id]}) <= StateLimit(seen'[r.id])
    BY <2>1, <2>2, DispatchCounts, Zenon
  <2>4. i = r.id
    BY <2>3
  <2> QED
    BY <2>3, <2>4
<1>2. ASSUME NEW k \in Issue, RetryDispatched(k)
      PROVE  /\ Cardinality(running') <= config.max
             /\ Cardinality({j \in running' : seen'[j] = seen'[i]}) <= StateLimit(seen'[i])
  <2>1. ShouldDispatch(Fetched(k), {k}) /\ DispatchIssue(Taken(k), Fetched(k), retry[k])
    BY <1>2 DEF RetryDispatched, CanDispatch
  <2> QED
    BY <2>1, FetchedType, DispatchCounts
<1>3. CASE ~DispatchCandidate /\ \A k \in Issue : ~RetryDispatched(k)
  <2>1. running' \subseteq running
    <3>1. CASE \/ ReconcileRunningIssues \/ FetchCandidates \/ FetchCandidatesFails
               \/ OutOfSlots \/ SkipCandidate \/ ApplySessionUpdate \/ ReloadWorkflow
               \/ TrackerChange \/ Restart \/ UNCHANGED vars
      BY <3>1 DEF ReconcileRunningIssues, FetchCandidates, FetchCandidatesFails, OutOfSlots,
                  SkipCandidate, ApplySessionUpdate, ReloadWorkflow, TrackerChange, Restart
    <3>2. ASSUME NEW k \in Issue, HandleWorkerFinished(k)
          PROVE  running' \subseteq running
      BY <3>2 DEF HandleWorkerFinished, FinishTerminal, FinishNonActive, FinishSucceeded,
                  FinishRetried, ForgetRun
    <3>3. ASSUME NEW k \in Issue, HandleRetryDue(k) \/ TimerFires(k) \/ Worker(k)
          PROVE  running' \subseteq running
      BY <1>3, <3>3 DEF HandleRetryDue, RetryAnswered, RetryPollFails, RetryReleased,
                        RetryRequeued, TimerFires, Worker, WorkerPrepares, WorkerUpdates,
                        WorkerFinishes, WorkerPanics
    <3> QED
      BY <1>3, <3>1, <3>2, <3>3 DEF Next, Tick, ConsiderCandidate, HandleWorkerEvent
  <2> QED
    BY <2>1
<1> QED
  BY <1>1, <1>2, <1>3

(* No dispatch exceeds the limits of the configuration it is made under.    *)
THEOREM LimitsRespected == Spec => SlotsRespected
<1>1. ASSUME TypeOK, [Next]_vars
      PROVE  [\A i \in running' \ running :
                /\ Cardinality(running') <= config.max
                /\ Cardinality({j \in running' : seen'[j] = seen'[i]}) <= StateLimit(seen'[i])]_vars
  BY <1>1, SlotsStep
<1> QED
  BY <1>1, TypeInvariant, PTL DEF Spec, SlotsRespected

-----------------------------------------------------------------------------
(* The scheduler implements the leases of IssueLifecycle: the lease of an   *)
(* issue is read off `running`, its stop reason and `claimed`, and every    *)
(* step moves one issue from lease to lease, asks some runs to stop, or     *)
(* leaves all leases as they are.                                           *)

Leases == [i \in Issue |-> LeaseOf(i)]

(* The leases that the entries of an issue stand for. *)
LEMMA LeaseCases ==
    ASSUME NEW i \in Issue
    PROVE  /\ i \in running /\ stop[i] = NoReason => LeaseOf(i) = "running"
           /\ i \in running /\ stop[i] # NoReason => LeaseOf(i) = "stopping"
           /\ i \notin running /\ i \in claimed => LeaseOf(i) = "backoff"
           /\ i \notin running /\ i \notin claimed => LeaseOf(i) = "free"
  BY DEF LeaseOf

(* The same after a step. *)
LEMMA LeaseCasesAfter ==
    ASSUME NEW i \in Issue
    PROVE  /\ i \in running' /\ stop'[i] = NoReason => LeaseOf(i)' = "running"
           /\ i \in running' /\ stop'[i] # NoReason => LeaseOf(i)' = "stopping"
           /\ i \notin running' /\ i \in claimed' => LeaseOf(i)' = "backoff"
           /\ i \notin running' /\ i \notin claimed' => LeaseOf(i)' = "free"
  BY DEF LeaseOf

(* An issue whose entries a step leaves alone keeps its lease. *)
LEMMA LeaseFrame ==
    ASSUME NEW i \in Issue, (i \in running') = (i \in running), stop'[i] = stop[i],
           (i \in claimed') = (i \in claimed)
    PROVE  LeaseOf(i)' = LeaseOf(i)
  BY LeaseCases, LeaseCasesAfter

(* The abstract specification counts as this one does.                      *)
LEMMA SameCount == ASSUME NEW S PROVE Lifecycle!Cardinality(S) = Cardinality(S)
  BY DEF Lifecycle!Cardinality, Cardinality

(* The issues the abstract specification counts are those that run. *)
LEMMA BusyAreRunning == TypeOK => Lifecycle!Busy = running
  BY LeaseCases DEF TypeOK, Lifecycle!Busy

(* A step that changes the entries of one issue changes one lease. *)
LEMMA LeaseMoves ==
    ASSUME NEW i \in Issue, NEW l, LeaseOf(i)' = l,
           \A j \in Issue \ {i} : LeaseOf(j)' = LeaseOf(j)
    PROVE  Leases' = [Leases EXCEPT ![i] = l]
  BY DEF Leases

(* A dispatch acquires the issue, and there is room for it. *)
LEMMA DispatchAcquires ==
    ASSUME TypeOK, NEW r \in IssueRecord, NEW allowed, NEW entries, NEW n,
           ShouldDispatch(r, allowed), DispatchIssue(entries, r, n), config' = config
    PROVE  Lifecycle!Acquire(r.id)
<1>1. r.id \in Issue /\ r.id \notin running /\ Cardinality(running) < config.max
  <2>1. IsFiniteSet(running) /\ Cardinality(running) \in Nat /\ config.max \in Nat
    BY OrchestratorAssumption, FS_Subset, FS_CardinalityType DEF TypeOK
  <2> QED
    BY <2>1 DEF IssueRecord, ShouldDispatch, AvailableGlobalSlots
<1>2. LeaseOf(r.id) \in {"free", "backoff"}
  BY <1>1, LeaseCases
<1>3. LeaseOf(r.id)' = "running"
  <2>1. r.id \in running' /\ stop'[r.id] = NoReason
    BY <1>1 DEF DispatchIssue, TypeOK
  <2> QED
    BY <1>1, <2>1, LeaseCasesAfter
<1>4. \A j \in Issue \ {r.id} : LeaseOf(j)' = LeaseOf(j)
  <2> SUFFICES ASSUME NEW j \in Issue \ {r.id} PROVE LeaseOf(j)' = LeaseOf(j)
    OBVIOUS
  <2>1. (j \in running') = (j \in running) /\ stop'[j] = stop[j]
        /\ (j \in claimed') = (j \in claimed)
    BY <1>1 DEF DispatchIssue, TypeOK
  <2> QED
    BY <2>1, LeaseFrame
<1>5. Leases' = [Leases EXCEPT ![r.id] = "running"]
  BY <1>1, <1>3, <1>4, LeaseMoves
<1> QED
  BY <1>1, <1>2, <1>5, BusyAreRunning, SameCount DEF Lifecycle!Acquire, Leases

(* What the outcome of a run does to its issue is a release, if the run was *)
(* asked to stop, or the wait for another attempt.                          *)
LEMMA FinishEndsLease ==
    ASSUME TypeOK, NEW i \in Issue, HandleWorkerFinished(i)
    PROVE  Lifecycle!Release(i) \/ Lifecycle!Requeue(i)
<1>1. /\ FinishedOf(i) /\ ForgetRun(i) /\ i \in running /\ config' = config
  BY DEF HandleWorkerFinished, FinishTerminal, FinishNonActive, FinishSucceeded, FinishRetried,
         FinishedOf
<1>2. \A j \in Issue \ {i} : LeaseOf(j)' = LeaseOf(j)
  <2> SUFFICES ASSUME NEW j \in Issue \ {i} PROVE LeaseOf(j)' = LeaseOf(j)
    OBVIOUS
  <2>1. (j \in running') = (j \in running) /\ stop'[j] = stop[j]
    BY <1>1 DEF ForgetRun, TypeOK
  <2>2. claimed' = claimed \ {i} \/ claimed' = claimed \union {i}
    BY DEF HandleWorkerFinished, FinishTerminal, FinishNonActive, FinishSucceeded,
           FinishRetried, ReleaseClaim, ScheduleRetry
  <2>3. (j \in claimed') = (j \in claimed)
    BY <2>2
  <2> QED
    BY <2>1, <2>3, LeaseFrame
<1>3. i \notin running'
  BY <1>1 DEF ForgetRun
<1>4. CASE FinishTerminal(i) \/ FinishNonActive(i)
  <2>1. LeaseOf(i) = "stopping"
    BY <1>1, <1>4, LeaseCases DEF FinishTerminal, FinishNonActive, NoReason
  <2>2. LeaseOf(i)' = "free"
    BY <1>3, <1>4, LeaseCasesAfter DEF FinishTerminal, FinishNonActive, ReleaseClaim
  <2>3. Leases' = [Leases EXCEPT ![i] = "free"]
    BY <1>2, <2>2, LeaseMoves
  <2> QED
    BY <1>1, <2>1, <2>3 DEF Lifecycle!Release, Leases
<1>5. CASE FinishSucceeded(i) \/ FinishRetried(i)
  <2>1. LeaseOf(i) \in {"running", "stopping"}
    BY <1>1, LeaseCases
  <2>2. LeaseOf(i)' = "backoff"
    BY <1>3, <1>5, LeaseCasesAfter DEF FinishSucceeded, FinishRetried, ScheduleRetry
  <2>3. Leases' = [Leases EXCEPT ![i] = "backoff"]
    BY <1>2, <2>2, LeaseMoves
  <2> QED
    BY <1>1, <2>1, <2>3 DEF Lifecycle!Requeue, Leases
<1> QED
  BY <1>4, <1>5 DEF HandleWorkerFinished

(* A retry message ends the wait of its issue in a new run or a release, or *)
(* the issue waits on.                                                      *)
LEMMA RetryMovesLease ==
    ASSUME TypeOK, Wakeups, NEW i \in Issue, HandleRetryDue(i)
    PROVE  \/ Lifecycle!Acquire(i) \/ Lifecycle!Release(i)
           \/ UNCHANGED <<Leases, config>>
<1>1. RetryMessage(i) /\ config' = config
  BY DEF HandleRetryDue, RetryAnswered, RetryPollFails, RetryReleased, RetryRequeued,
         RetryDispatched, RetryMessage
<1>2. retry[i] # 0 /\ i \notin running /\ i \in claimed
  BY <1>1, MessageIsOnlyWakeup DEF Wakeups, ClaimsAccounted
<1>3. CASE RetryDispatched(i)
  <2>1. ShouldDispatch(Fetched(i), {i}) /\ DispatchIssue(Taken(i), Fetched(i), retry[i])
    BY <1>3 DEF RetryDispatched, CanDispatch
  <2>2. Fetched(i) \in IssueRecord /\ Fetched(i).id = i
    BY FetchedType DEF Fetched
  <2> QED
    BY <1>1, <2>1, <2>2, DispatchAcquires
<1>4. CASE RetryReleased(i)
  <2>1. ReleaseClaim(Taken(i), i) /\ running' = running /\ stop' = stop
    BY <1>2, <1>4 DEF RetryReleased, entryVars
  <2>2. LeaseOf(i) = "backoff"
    BY <1>2, LeaseCases
  <2>3. LeaseOf(i)' = "free"
    BY <1>2, <2>1, LeaseCasesAfter DEF ReleaseClaim
  <2>4. \A j \in Issue \ {i} : LeaseOf(j)' = LeaseOf(j)
    BY <2>1, LeaseFrame DEF ReleaseClaim
  <2>5. Leases' = [Leases EXCEPT ![i] = "free"]
    BY <2>3, <2>4, LeaseMoves
  <2> QED
    BY <1>1, <2>2, <2>5 DEF Lifecycle!Release, Leases
<1>5. CASE RetryPollFails(i) \/ RetryRequeued(i)
  <2>1. running' = running /\ stop' = stop /\ claimed' = claimed
    BY <1>2, <1>5 DEF RetryPollFails, RetryRequeued, ScheduleRetry, entryVars
  <2>2. \A j \in Issue : LeaseOf(j)' = LeaseOf(j)
    BY <2>1, LeaseFrame
  <2> QED
    BY <1>1, <2>2 DEF Leases
<1> QED
  BY <1>3, <1>4, <1>5 DEF HandleRetryDue, RetryAnswered

(* A reconciliation asks the runs it cancels to stop; a run that is asked   *)
(* already stays so.                                                        *)
LEMMA ReconcileAsks == ASSUME TypeOK, ReconcileRunningIssues PROVE Lifecycle!AskToStop
<1>1. /\ running' = running /\ claimed' = claimed /\ config' = config
      /\ \A i \in Issue : stop[i] # NoReason => stop'[i] = stop[i]
      /\ \A i \in Issue \ running : stop'[i] = stop[i]
  BY DEF ReconcileRunningIssues, FirstReason, TypeOK
<1> DEFINE Asked == {i \in running : stop[i] = NoReason /\ stop'[i] # NoReason}
<1>2. Asked \in SUBSET {i \in Issue : Leases[i] = "running"}
  BY LeaseCases DEF TypeOK, Leases
<1>3. ASSUME NEW i \in Issue
      PROVE  LeaseOf(i)' = IF i \in Asked THEN "stopping" ELSE LeaseOf(i)
  <2>1. CASE i \in Asked
    BY <1>1, <2>1, LeaseCasesAfter
  <2>2. CASE i \notin Asked /\ stop'[i] = stop[i]
    BY <1>1, <2>2, LeaseFrame
  <2>3. CASE i \notin Asked /\ stop'[i] # stop[i]
    BY <1>1, <2>3
  <2> QED
    BY <2>1, <2>2, <2>3
<1>4. Leases' = [i \in Issue |-> IF i \in Asked THEN "stopping" ELSE Leases[i]]
  BY <1>3 DEF Leases
<1> QED
  BY <1>1, <1>2, <1>4 DEF Lifecycle!AskToStop, Leases

(* Every step of the scheduler is a step of the leases or leaves them.      *)
LEMMA LifecycleStep ==
    ASSUME TypeOK, TypeOK', Wakeups, [Next]_vars
    PROVE  [Lifecycle!LeaseNext]_(Lifecycle!leaseVars)
<1> USE DEF vars, tickVars, entryVars, retryVars, workerVars
<1>1. CASE DispatchCandidate
  <2>1. PICK r \in candidates : ShouldDispatch(r, {}) /\ DispatchIssue(retry, r, 0)
    BY <1>1 DEF DispatchCandidate
  <2>2. r \in IssueRecord /\ r.id \in Issue /\ config' = config
    BY <1>1 DEF TypeOK, IssueRecord, DispatchCandidate
  <2>3. Lifecycle!Acquire(r.id)
    BY <2>1, <2>2, DispatchAcquires, Zenon
  <2> QED
    BY <2>2, <2>3 DEF Lifecycle!LeaseNext
<1>2. CASE ReconcileRunningIssues
  BY <1>2, ReconcileAsks DEF Lifecycle!LeaseNext
<1>3. ASSUME NEW i \in Issue, HandleWorkerFinished(i)
      PROVE  Lifecycle!LeaseNext
  BY <1>3, FinishEndsLease DEF Lifecycle!LeaseNext
<1>4. ASSUME NEW i \in Issue, HandleRetryDue(i)
      PROVE  Lifecycle!LeaseNext \/ UNCHANGED Lifecycle!leaseVars
  <2>1. CASE UNCHANGED <<Leases, config>>
    BY <2>1 DEF Leases, Lifecycle!leaseVars
  <2> QED
    BY <1>4, <2>1, RetryMovesLease DEF Lifecycle!LeaseNext
<1>5. CASE ReloadWorkflow
  <2>1. config'.max \in Nat \ {0}
    BY OrchestratorAssumption DEF TypeOK
  <2>2. \A i \in Issue : LeaseOf(i)' = LeaseOf(i)
    BY <1>5, LeaseFrame DEF ReloadWorkflow
  <2>3. Lifecycle!Resize
    BY <2>1, <2>2 DEF Lifecycle!Resize
  <2> QED
    BY <2>3 DEF Lifecycle!LeaseNext
<1>6. CASE Restart
  <2>1. config'.max \in Nat \ {0}
    BY OrchestratorAssumption DEF TypeOK
  <2>2. \A i \in Issue : LeaseOf(i)' = "free"
    BY <1>6, LeaseCasesAfter DEF Restart
  <2>3. Lifecycle!Reset
    BY <2>1, <2>2 DEF Lifecycle!Reset
  <2> QED
    BY <2>3 DEF Lifecycle!LeaseNext
<1>7. CASE \/ FetchCandidates \/ FetchCandidatesFails \/ OutOfSlots \/ SkipCandidate
           \/ ApplySessionUpdate \/ TrackerChange
           \/ (\E i \in Issue : TimerFires(i) \/ Worker(i)) \/ UNCHANGED vars
  <2>1. UNCHANGED <<running, stop, claimed, config>>
    BY <1>7 DEF FetchCandidates, FetchCandidatesFails, OutOfSlots, SkipCandidate,
                ApplySessionUpdate, TrackerChange, TimerFires, Worker, WorkerPrepares,
                WorkerUpdates, WorkerFinishes, WorkerPanics
  <2>2. \A i \in Issue : LeaseOf(i)' = LeaseOf(i)
    BY <2>1, LeaseFrame
  <2> QED
    BY <2>1, <2>2 DEF Lifecycle!leaseVars
<1> QED
  BY <1>1, <1>2, <1>3, <1>4, <1>5, <1>6, <1>7
  DEF Next, Tick, ConsiderCandidate, HandleWorkerEvent

(* The scheduler implements IssueLifecycle: whatever the channels, timers   *)
(* and workers do, an issue is only acquired when there is room and it is   *)
(* free or waiting, only a run that was asked to stop or a wait is given up,*)
(* and a run nobody stopped is followed by another attempt.                 *)
THEOREM SchedulerImplementsLifecycle == Spec => LifecycleSpec
<1>1. Init => Lifecycle!LeaseInit
  <2> SUFFICES ASSUME Init PROVE Lifecycle!LeaseInit
    OBVIOUS
  <2>1. \A i \in Issue : LeaseOf(i) = "free"
    BY LeaseCases DEF Init
  <2>2. config.max \in Nat \ {0}
    BY OrchestratorAssumption DEF Init
  <2> QED
    BY <2>1, <2>2 DEF Lifecycle!LeaseInit
<1>2. TypeOK /\ TypeOK' /\ ClaimsAccounted /\ RetryTokenUnique /\ [Next]_vars
        => [Lifecycle!LeaseNext]_(Lifecycle!leaseVars)
  BY LifecycleStep DEF Wakeups
<1> QED
  BY <1>1, <1>2, TypeInvariant, ClaimsAndWakeups, PTL
  DEF Spec, LifecycleSpec, Lifecycle!LeaseSpec
=============================================================================
