----------------------------- MODULE RunAccounting ----------------------------
(***************************************************************************)
(* What the scheduler computes of its runs: the tokens their agents report *)
(* (apply_session_update and apply_absolute_tokens in                      *)
(* src/src/orchestrator.rs, extract_token_usage in src/src/agent.rs), the  *)
(* time they take (add_runtime_seconds), and the attempt and the delay of  *)
(* the retry that follows (handle_worker_finished, handle_retry_due). The  *)
(* events of one run arrive in the order in which they are sent, its       *)
(* outcome last, so that a report is applied in the step that makes it.    *)
(***************************************************************************)
EXTENDS RetryBackoff, FiniteSets, Functions

CONSTANTS
    Issue,      \* issues
    Reports,    \* the kinds of reports that agents make
    MaxTokens,  \* bound: tokens of each kind an agent uses
    MaxTotal,   \* bound: totals beyond which no report is made
    MaxClock,   \* bound: hours on the clock
    MaxRuns,    \* bound: runs that end
    MaxAttempt, \* bound: attempt of a retry
    Settings,   \* what the workflow file may say of max_retry_backoff_ms
    Soon        \* delay after a success, 1_000 milliseconds

VARIABLES
    running,    \* issues with an entry in running
    started,    \* started_at of each entry
    last,       \* last_reported tokens of each entry
    totals,     \* codex_totals without the seconds
    seconds,    \* codex_totals.seconds_running
    now,        \* the wall clock
    thread,     \* external: tokens each agent has used in its thread
    turn,       \* external: tokens each agent has used in its turn
    ended,      \* history: tokens of the runs that have ended
    runs,       \* history: number of runs that have ended
    peak,       \* history: the highest report of each run
    whole,      \* history: whether all reports were whole and of the thread
    setting,    \* max_retry_backoff_ms in the workflow file
    retry,      \* attempt of each retry entry; 0 when there is none
    attempt,    \* retry_attempt of each entry in running; 0 when there is none
    delay       \* delay of each issue's latest retry

tokenVars == <<last, totals, thread, turn, ended, peak, whole>>
retryVars == <<retry, attempt, delay>>
accountingVars == <<running, started, seconds, now, runs, setting, tokenVars, retryVars>>

Field == {"input", "output", "total"}

(* What a report speaks of, and the fields it carries. A payload that has   *)
(* counts of the last turn beside those of the thread is one of a turn:     *)
(* members are searched in the order of their names, "last" before "total". *)
Report == [of : {"thread", "turn"}, has : SUBSET Field \ {{}}]

ASSUME AccountingAssumption ==
    /\ IsFiniteSet(Issue) /\ Reports \subseteq Report
    /\ MaxTokens \in Nat /\ MaxTotal \in Nat /\ MaxClock \in Nat /\ MaxRuns \in Nat
    /\ MaxAttempt \in Nat /\ Settings \subseteq Setting /\ Soon \in Nat

Zero == [f \in Field |-> 0]

Plus(s, t) == [f \in Field |-> s[f] + t[f]]

SaturatingSub(a, b) == IF a > b THEN a - b ELSE 0

AtLeast(a, b) == IF a > b THEN a ELSE b

Init ==
    /\ running = {} /\ now = 0 /\ seconds = 0 /\ runs = 0
    /\ started = [i \in Issue |-> 0]
    /\ last = [i \in Issue |-> Zero] /\ peak = [i \in Issue |-> Zero]
    /\ thread = [i \in Issue |-> Zero] /\ turn = [i \in Issue |-> Zero]
    /\ totals = Zero /\ ended = Zero /\ whole = TRUE
    /\ setting \in Settings
    /\ retry = [i \in Issue |-> 0] /\ attempt = [i \in Issue |-> 0]
    /\ delay = [i \in Issue |-> 0]
-----------------------------------------------------------------------------
Dispatch_KeepsSession(i) ==
    /\ i \notin running
    /\ running' = running \union {i}
    /\ started' = [started EXCEPT ![i] = now]
    /\ thread' = [thread EXCEPT ![i] = Zero]
    /\ turn' = [turn EXCEPT ![i] = Zero]
    /\ attempt' = [attempt EXCEPT ![i] = retry[i]]
    /\ retry' = [retry EXCEPT ![i] = 0]
    /\ UNCHANGED <<seconds, now, runs, setting, last, totals, ended, peak, whole, delay>>

(* dispatch_issue: a new session, for the agent and for the entry, which    *)
(* takes over the attempt of the retry.                                     *)
Dispatch(i) ==
    /\ i \notin running
    /\ running' = running \union {i}
    /\ started' = [started EXCEPT ![i] = now]
    /\ last' = [last EXCEPT ![i] = Zero]
    /\ thread' = [thread EXCEPT ![i] = Zero]
    /\ turn' = [turn EXCEPT ![i] = Zero]
    /\ attempt' = [attempt EXCEPT ![i] = retry[i]]
    /\ retry' = [retry EXCEPT ![i] = 0]
    /\ UNCHANGED <<seconds, now, runs, setting, totals, ended, peak, whole, delay>>

(* The agent uses a token of one kind. *)
Used(counts, f) == [counts EXCEPT ![f] = @ + 1, !["total"] = @ + 1]

Use(i, f) ==
    /\ i \in running /\ f \in Field \ {"total"} /\ thread[i][f] < MaxTokens
    /\ thread' = [thread EXCEPT ![i] = Used(@, f)]
    /\ turn' = [turn EXCEPT ![i] = Used(@, f)]
    /\ UNCHANGED <<running, started, seconds, now, runs, setting,
                   last, totals, ended, peak, whole, retryVars>>

NextTurn(i) ==
    /\ i \in running /\ turn[i] # Zero
    /\ turn' = [turn EXCEPT ![i] = Zero]
    /\ UNCHANGED <<running, started, seconds, now, runs, setting,
                   last, totals, thread, ended, peak, whole, retryVars>>

(* extract_token_usage: a total that is not carried is the sum of the other *)
(* two, and any other count that is not carried is zero.                    *)
Extracted(r, counts) ==
    [f \in Field |->
        IF f \in r.has \/ (f = "total" /\ {"input", "output"} \subseteq r.has)
        THEN counts[f] ELSE 0]

Counts(i, r) == IF r.of = "thread" THEN thread[i] ELSE turn[i]

IsWhole(r) == r.of = "thread" /\ {"input", "output"} \subseteq r.has

ApplyReport_AsDelta(i, r) ==
    LET latest == Extracted(r, Counts(i, r)) IN
    /\ i \in running /\ \A f \in Field : totals[f] < MaxTotal
    /\ totals' = Plus(totals, latest)
    /\ last' = [last EXCEPT ![i] = latest]
    /\ peak' = [peak EXCEPT ![i] = [f \in Field |-> AtLeast(@[f], latest[f])]]
    /\ whole' = (whole /\ IsWhole(r))
    /\ UNCHANGED <<running, started, seconds, now, runs, setting,
                   thread, turn, ended, retryVars>>

(* apply_absolute_tokens, each count on its own. *)
ApplyReport(i, r) ==
    LET latest == Extracted(r, Counts(i, r)) IN
    /\ i \in running /\ \A f \in Field : totals[f] < MaxTotal
    /\ totals' = [f \in Field |-> totals[f] + SaturatingSub(latest[f], last[i][f])]
    /\ last' = [last EXCEPT ![i] = latest]
    /\ peak' = [peak EXCEPT ![i] = [f \in Field |-> AtLeast(@[f], latest[f])]]
    /\ whole' = (whole /\ IsWhole(r))
    /\ UNCHANGED <<running, started, seconds, now, runs, setting,
                   thread, turn, ended, retryVars>>

(* The entry of a run that is over goes; its tokens stay in the totals. *)
Leave(i) ==
    /\ i \in running /\ runs < MaxRuns
    /\ running' = running \ {i}
    /\ runs' = runs + 1
    /\ ended' = Plus(ended, peak[i])
    /\ peak' = [peak EXCEPT ![i] = Zero]
    /\ UNCHANGED <<started, now, setting, last, totals, thread, turn, whole>>

AddRuntimeSeconds_Unclamped(i) == seconds' = seconds + (now - started[i])

AddRuntimeSeconds(i) == seconds' = seconds + SaturatingSub(now, started[i])

(* schedule_retry. *)
ScheduleRetry(i, n, wait) ==
    /\ n <= MaxAttempt
    /\ retry' = [retry EXCEPT ![i] = n]
    /\ delay' = [delay EXCEPT ![i] = wait]

(* handle_worker_finished: a run that was stopped for good, a success that  *)
(* is continued soon, and a run that did not succeed.                       *)
FinishReleased(i) ==
    /\ Leave(i) /\ AddRuntimeSeconds(i)
    /\ UNCHANGED retryVars

FinishSucceeded(i) ==
    /\ Leave(i) /\ AddRuntimeSeconds(i)
    /\ ScheduleRetry(i, 1, Soon)
    /\ UNCHANGED attempt

FinishRetried(i) ==
    /\ Leave(i) /\ AddRuntimeSeconds(i)
    /\ ScheduleRetry(i, attempt[i] + 1, RetryDelay(attempt[i] + 1, setting))
    /\ UNCHANGED attempt

(* handle_retry_due, when the poll fails or there is no slot, and when the  *)
(* issue is no candidate any more.                                          *)
RetryAgain(i) ==
    /\ retry[i] > 0
    /\ ScheduleRetry(i, retry[i] + 1, RetryDelay(retry[i] + 1, setting))
    /\ UNCHANGED <<running, started, seconds, now, runs, setting, tokenVars, attempt>>

RetryReleased(i) ==
    /\ retry[i] > 0
    /\ retry' = [retry EXCEPT ![i] = 0]
    /\ UNCHANGED <<running, started, seconds, now, runs, setting, tokenVars, attempt, delay>>

(* Time passes; the wall clock may also be set, forward or back. *)
SetClock(t) ==
    /\ t # now
    /\ now' = t
    /\ UNCHANGED <<running, started, seconds, runs, setting, tokenVars, retryVars>>

Next ==
    \/ \E i \in Issue :
        \/ Dispatch(i) \/ NextTurn(i)
        \/ FinishReleased(i) \/ FinishSucceeded(i) \/ FinishRetried(i)
        \/ RetryAgain(i) \/ RetryReleased(i)
        \/ \E f \in Field : Use(i, f)
        \/ \E r \in Reports : ApplyReport(i, r)
    \/ \E t \in 0 .. MaxClock : SetClock(t)

Spec == Init /\ [][Next]_accountingVars
-----------------------------------------------------------------------------
(* build_runtime_snapshot: what has been added and what is still running. *)
SecondsShown ==
    seconds + AtLeast(0, SumFunctionOnSet([i \in Issue |-> now - started[i]], running))

Reported(f) == ended[f] + SumFunctionOnSet([i \in Issue |-> peak[i][f]], running)

TypeOK ==
    /\ running \subseteq Issue /\ now \in 0 .. MaxClock
    /\ started \in [Issue -> 0 .. MaxClock]
    /\ last \in [Issue -> [Field -> Nat]] /\ totals \in [Field -> Nat]
    /\ seconds \in 0 .. MaxClock * MaxRuns
    /\ \A i \in Issue : last[i]["total"] <= 2 * MaxTokens

(* However reports fall, rise, leave out fields or speak of another span,   *)
(* the totals never show less than what the runs have reported at their     *)
(* highest (orchestrator.rs:577-597).                                       *)
NeverUndercounts == \A f \in Field : totals[f] >= Reported(f)

(* The totals are counts, and no report is lost from them (577-597).        *)
TotalsInv == TypeOK /\ NeverUndercounts

(* "Absolute token totals tracked per active session or as aggregates"      *)
(* (types.rs:121): the totals are the sum of what each run has reported. It *)
(* holds across runs of the same issue and whatever reports are repeated,   *)
(* as long as all reports were whole and of the thread; another one makes   *)
(* the next whole report count again (orchestrator.rs:591).                 *)
CountedOnce == whole => \A f \in Field : totals[f] = Reported(f)

(* The time shown does not fall when a run's time moves from the running    *)
(* part to the accumulated part, even if the clock was set back during the  *)
(* run; it falls at most when the clock does (orchestrator.rs:600-606,      *)
(* 745-764).                                                                *)
TimeKept == [][now' >= now => SecondsShown' >= SecondsShown]_accountingVars

(* The cap that an operator can expect: the number that was written, unless *)
(* it is none or negative.                                                  *)
Cap == IF setting.written \in {"number", "text"} /\ setting.value >= 0
       THEN setting.value ELSE Default

(* The delay of the n-th retry is Base doubled n - 1 times, or the cap if   *)
(* that is less, or it is the one that follows a success, although the      *)
(* arithmetic has a width which an issue that goes on failing exceeds       *)
(* (orchestrator.rs:572-575), through runs, failed polls and missing slots. *)
DelayExact ==
    \A i \in Issue : retry[i] > 0 =>
        \/ delay[i] = Least(Base * 2 ^ (retry[i] - 1), Cap)
        \/ retry[i] = 1 /\ delay[i] = Soon
=============================================================================
