--------------------------- MODULE EventLoopProofs ---------------------------
(***************************************************************************)
(* Proofs about the event loop for any issues and any clients: its types,  *)
(* the poll that a refresh is owed, the honesty of "coalesced", and the    *)
(* two published views.                                                    *)
(***************************************************************************)
EXTENDS EventLoop, TLAPS

USE DEF Told, Alive, Available, outside, store

-----------------------------------------------------------------------------
(* The invariant that carries the others. *)

(* A client in the channel waits for its answer, and is there once.         *)
RequestsWait ==
    Alive =>
        /\ \A k \in DOMAIN requests : reply[requests[k]] = "waiting"
        /\ \A j, k \in DOMAIN requests : requests[j] = requests[k] => j = k

(* Behind the flag is a client that was promised a poll not yet begun.      *)
PollIsOwed ==
    refreshQueued /\ at # "tick" =>
        \E c \in Client : reply[c] = "queued" /\ c \notin polled

(* A poll serves clients that were told of one. *)
PolledWereTold == \A c \in polled : reply[c] \in Told

(* The views are those of the state, up to what a tick has added since.     *)
ViewsFollow ==
    /\ at \in {"wait", "tick"} => snapshot \subseteq tracked /\ details \subseteq tracked
    /\ at = "details" => snapshot = tracked

(* Until the loop first waits there is nothing to show.                     *)
NothingEarly ==
    signal = "unarmed" =>
        /\ at \in {"start", "publish", "details", "killed"}
        /\ tracked = {} /\ details = {} /\ snapshot \in {Nothing, {}}

LoopInv ==
    /\ TypeOK /\ PollIsDue /\ CoalescedTruly /\ ViewsAgree
    /\ RequestsWait /\ PollIsOwed /\ PolledWereTold /\ ViewsFollow /\ NothingEarly

-----------------------------------------------------------------------------
(* The service starts with nothing to show, to poll or to answer.           *)
LEMMA LoopInit == Init => LoopInv
<1> SUFFICES ASSUME Init PROVE LoopInv
  OBVIOUS
<1>1. ~Available
  BY DEF Init
<1>2. requests \in Seq(Client) /\ DOMAIN requests = {}
  BY DEF Init
<1>3. \A c \in Client : reply[c] = "none"
  BY DEF Init
<1>4. TypeOK
  BY <1>1, <1>2 DEF Init, TypeOK
<1>5. PollIsDue /\ CoalescedTruly /\ PollIsOwed /\ PolledWereTold
  BY <1>3 DEF Init, PollIsDue, CoalescedTruly, PollIsOwed, PolledWereTold
<1>6. ViewsAgree /\ ViewsFollow /\ NothingEarly
  BY <1>1 DEF Init, ViewsAgree, ViewsFollow, NothingEarly
<1>7. RequestsWait
  BY <1>2 DEF RequestsWait
<1> QED
  BY <1>4, <1>5, <1>6, <1>7 DEF LoopInv

(* What happens around the loop keeps the invariant. *)
LEMMA PressStep == ASSUME LoopInv, PressCtrlC PROVE LoopInv'
<1>1. /\ UNCHANGED <<tickDue, refreshQueued, requests, reply, pending, changed,
                     tracked, store, polled>>
  BY DEF PressCtrlC
<1>2. \/ signal = "unarmed" /\ at' = "killed" /\ signal' = signal
      \/ signal = "armed" /\ at = "wait" /\ signal' = "heard" /\ at' = at
      \/ signal # "unarmed" /\ at' = at /\ signal' = signal
  BY DEF PressCtrlC
<1>3. TypeOK'
  BY <1>1, <1>2 DEF LoopInv, TypeOK
<1>4. (PollIsDue /\ CoalescedTruly /\ PolledWereTold)'
  BY <1>1 DEF LoopInv, PollIsDue, CoalescedTruly, PolledWereTold
<1>5. RequestsWait'
  BY <1>1, <1>2 DEF PressCtrlC, LoopInv, RequestsWait
<1>6. PollIsOwed'
  <2>1. at # "tick"  \/ at' = at
    BY <1>2 DEF LoopInv, NothingEarly
  <2> QED
    BY <1>1, <1>2, <2>1 DEF LoopInv, PollIsOwed
<1>7. (ViewsFollow /\ NothingEarly)'
  BY <1>1, <1>2 DEF LoopInv, ViewsFollow, NothingEarly
<1>8. ViewsAgree'
  <2>1. CASE at = "details" /\ at' = "killed"
    BY <1>1, <1>2, <2>1 DEF LoopInv, ViewsAgree, ViewsFollow, NothingEarly
  <2> QED
    BY <1>1, <1>2, <2>1 DEF LoopInv, ViewsAgree
<1> QED
  BY <1>3, <1>4, <1>5, <1>6, <1>7, <1>8 DEF LoopInv

LEMMA PostStep == ASSUME LoopInv, NEW c \in Client, PostRefresh(c) PROVE LoopInv'
<1>1. /\ UNCHANGED <<at, signal, tickDue, refreshQueued, pending, changed, tracked,
                     snapshot, details, polled>>
      /\ reply[c] = "none" /\ reply' = [reply EXCEPT ![c] = reply'[c]]
      /\ reply'[c] = (IF Alive THEN "waiting" ELSE "refused")
  BY DEF PostRefresh, LoopInv, TypeOK
<1>2. TypeOK'
  BY <1>1 DEF LoopInv, TypeOK, PostRefresh
<1>3. RequestsWait'
  <2>1. CASE Alive
    <3>1. \A k \in DOMAIN requests : requests[k] \in Client /\ requests[k] # c
      BY <1>1, <2>1 DEF LoopInv, TypeOK, RequestsWait
    <3>2. requests' = Append(requests, c) /\ reply'[c] = "waiting"
      BY <1>1, <2>1 DEF PostRefresh
    <3>3. /\ DOMAIN requests' = 1 .. Len(requests) + 1 /\ requests'[Len(requests) + 1] = c
          /\ DOMAIN requests = 1 .. Len(requests) /\ Len(requests) \in Nat
          /\ \A k \in DOMAIN requests : requests'[k] = requests[k]
      BY <3>2 DEF LoopInv, TypeOK
    <3>4. \A k \in DOMAIN requests' : k \in DOMAIN requests \/ k = Len(requests) + 1
      BY <3>3
    <3>5. \A k \in DOMAIN requests' : reply'[requests'[k]] = "waiting"
      BY <1>1, <2>1, <3>1, <3>2, <3>3, <3>4 DEF LoopInv, TypeOK, RequestsWait
    <3>6. \A j, k \in DOMAIN requests' : requests'[j] = requests'[k] => j = k
      BY <2>1, <3>1, <3>3, <3>4 DEF LoopInv, RequestsWait
    <3> QED
      BY <3>5, <3>6 DEF RequestsWait
  <2> QED
    BY <1>1, <2>1 DEF RequestsWait
<1>4. (CoalescedTruly /\ PollIsOwed /\ PolledWereTold)'
  BY <1>1 DEF LoopInv, TypeOK, CoalescedTruly, PollIsOwed, PolledWereTold
<1>5. (PollIsDue /\ ViewsAgree /\ ViewsFollow /\ NothingEarly)'
  BY <1>1 DEF LoopInv, PollIsDue, ViewsAgree, ViewsFollow, NothingEarly
<1> QED
  BY <1>2, <1>3, <1>4, <1>5 DEF LoopInv

LEMMA DropStep == ASSUME LoopInv, NEW c \in Client, ReplyDropped(c) PROVE LoopInv'
<1>1. TypeOK'
  BY DEF LoopInv, TypeOK, ReplyDropped
<1>2. (CoalescedTruly /\ PollIsOwed /\ PolledWereTold)'
  BY DEF LoopInv, TypeOK, ReplyDropped, CoalescedTruly, PollIsOwed, PolledWereTold
<1>3. (PollIsDue /\ RequestsWait /\ ViewsAgree /\ ViewsFollow /\ NothingEarly)'
  BY DEF LoopInv, ReplyDropped, PollIsDue, RequestsWait, ViewsAgree, ViewsFollow, NothingEarly
<1> QED
  BY <1>1, <1>2, <1>3 DEF LoopInv

LEMMA SurroundingsStep ==
    ASSUME LoopInv, WorkflowChanges \/ IntervalPasses \/ \E i \in Issue : Send(i)
    PROVE  LoopInv'
<1>1. TypeOK'
  <2>1. CASE WorkflowChanges
    BY <2>1 DEF LoopInv, TypeOK, WorkflowChanges
  <2>2. CASE IntervalPasses
    BY <2>2 DEF LoopInv, TypeOK, IntervalPasses
  <2>3. CASE \E i \in Issue : Send(i)
    BY <2>3 DEF LoopInv, TypeOK, Send
  <2> QED
    BY <2>1, <2>2, <2>3
<1>2. /\ UNCHANGED <<at, signal, refreshQueued, requests, reply, tracked, snapshot,
                     details, polled>>
      /\ tickDue => tickDue'
  BY DEF WorkflowChanges, IntervalPasses, Send
<1>3. (PollIsDue /\ CoalescedTruly /\ RequestsWait /\ PollIsOwed /\ PolledWereTold)'
  BY <1>2 DEF LoopInv, PollIsDue, CoalescedTruly, RequestsWait, PollIsOwed, PolledWereTold
<1>4. (ViewsAgree /\ ViewsFollow /\ NothingEarly)'
  BY <1>2 DEF LoopInv, ViewsAgree, ViewsFollow, NothingEarly
<1> QED
  BY <1>1, <1>3, <1>4 DEF LoopInv

-----------------------------------------------------------------------------
(* The steps of the loop keep the invariant. *)

(* Beginning, ending, taking an event or a reload: clients and flag are not *)
(* concerned.                                                               *)
LEMMA TurnStep ==
    ASSUME LoopInv,
           Startup \/ TakeCtrlC \/ TakeReload \/ \E i \in Issue : TakeEvent(i)
    PROVE  LoopInv'
<1>1. TypeOK'
  BY DEF LoopInv, TypeOK, Startup, TakeCtrlC, TakeReload, TakeEvent, Unheard
<1>2. /\ UNCHANGED <<refreshQueued, requests, reply, polled, snapshot, details>>
      /\ tickDue => tickDue'
      /\ at \in {"start", "wait"} /\ at' = "publish"
  BY DEF Startup, TakeCtrlC, TakeReload, TakeEvent
<1>3. (PollIsDue /\ CoalescedTruly /\ RequestsWait /\ PollIsOwed /\ PolledWereTold)'
  BY <1>2 DEF LoopInv, PollIsDue, CoalescedTruly, RequestsWait, PollIsOwed, PolledWereTold
<1>4. (ViewsAgree /\ ViewsFollow)'
  BY <1>2 DEF LoopInv, ViewsAgree, ViewsFollow
<1>5. NothingEarly'
  BY <1>2 DEF LoopInv, NothingEarly, Startup, TakeCtrlC, TakeReload, TakeEvent, Unheard
<1> QED
  BY <1>1, <1>3, <1>4, <1>5 DEF LoopInv

(* A poll that begins serves everybody who was told of one.                 *)
LEMMA TakeTickStep == ASSUME LoopInv, TakeTick PROVE LoopInv'
<1>1. TypeOK'
  BY DEF LoopInv, TypeOK, TakeTick, Unheard
<1>2. (PollIsDue /\ CoalescedTruly /\ RequestsWait /\ PollIsOwed /\ PolledWereTold)'
  BY DEF LoopInv, TakeTick, PollIsDue, CoalescedTruly, RequestsWait, PollIsOwed, PolledWereTold
<1>3. (ViewsAgree /\ ViewsFollow /\ NothingEarly)'
  BY DEF LoopInv, TakeTick, Unheard, ViewsAgree, ViewsFollow, NothingEarly
<1> QED
  BY <1>1, <1>2, <1>3 DEF LoopInv

LEMMA TickStep == ASSUME LoopInv, EndTick \/ \E i \in Issue : Dispatch(i) PROVE LoopInv'
<1>1. TypeOK'
  BY DEF LoopInv, TypeOK, EndTick, Dispatch
<1>2. (PollIsDue /\ CoalescedTruly /\ RequestsWait /\ PollIsOwed /\ PolledWereTold)'
  BY DEF LoopInv, EndTick, Dispatch, PollIsDue, CoalescedTruly, RequestsWait, PollIsOwed,
         PolledWereTold
<1>3. (ViewsAgree /\ ViewsFollow /\ NothingEarly)'
  BY DEF LoopInv, EndTick, Dispatch, ViewsAgree, ViewsFollow, NothingEarly
<1> QED
  BY <1>1, <1>2, <1>3 DEF LoopInv

(* The request at the head is answered, and its poll is due.                *)
LEMMA RefreshStep == ASSUME LoopInv, TakeRefresh PROVE LoopInv'
<1> DEFINE c == Head(requests)
<1>1. /\ at = "wait" /\ requests # <<>>
      /\ UNCHANGED <<at, pending, changed, tracked, snapshot, details, polled>>
      /\ refreshQueued' = TRUE /\ tickDue' = TRUE
      /\ requests' = Tail(requests)
      /\ reply' = [reply EXCEPT ![c] = IF refreshQueued THEN "coalesced" ELSE "queued"]
  BY DEF TakeRefresh
<1>2. /\ requests \in Seq(Client) /\ c \in Client /\ c = requests[1]
      /\ 1 \in DOMAIN requests
      /\ reply \in [Client -> {"none", "waiting", "refused", "dropped"} \union Told]
  BY <1>1 DEF LoopInv, TypeOK
<1>3. reply[c] = "waiting" /\ c \notin polled
  BY <1>1, <1>2 DEF LoopInv, RequestsWait, PolledWereTold
<1>4. \A d \in Client \ {c} : reply'[d] = reply[d]
  BY <1>1, <1>2
<1>5. reply'[c] = (IF refreshQueued THEN "coalesced" ELSE "queued")
  BY <1>1, <1>2
<1>6. TypeOK'
  BY <1>1, <1>2 DEF LoopInv, TypeOK, TakeRefresh, Unheard
<1>7. RequestsWait'
  <2>1. \A k \in DOMAIN requests' : k + 1 \in DOMAIN requests /\ requests'[k] = requests[k + 1]
    BY <1>1, <1>2
  <2>2. \A k \in DOMAIN requests' : k \in Nat \ {0}
    BY <1>1, <1>2
  <2>3. \A k \in DOMAIN requests' : requests'[k] # c /\ requests'[k] \in Client
    BY <1>1, <1>2, <2>1, <2>2 DEF LoopInv, RequestsWait
  <2>4. \A k \in DOMAIN requests' : reply'[requests'[k]] = "waiting"
    BY <1>1, <1>4, <2>1, <2>3 DEF LoopInv, RequestsWait
  <2>5. \A j, k \in DOMAIN requests' : requests'[j] = requests'[k] => j = k
    BY <1>1, <2>1, <2>2 DEF LoopInv, RequestsWait
  <2> QED
    BY <2>4, <2>5 DEF RequestsWait
<1>8. PollIsOwed'
  <2>1. CASE refreshQueued
    <3>1. PICK d \in Client : reply[d] = "queued" /\ d \notin polled
      BY <1>1, <2>1 DEF LoopInv, PollIsOwed
    <3> QED
      BY <1>1, <1>3, <1>4, <3>1 DEF PollIsOwed
  <2>2. CASE ~refreshQueued
    BY <1>1, <1>2, <1>3, <1>5, <2>2 DEF PollIsOwed
  <2> QED
    BY <2>1, <2>2
<1>9. CoalescedTruly'
  <2>1. ASSUME NEW d \in Client, reply'[d] = "coalesced", d \notin polled'
        PROVE  \E e \in Client \ {d} : reply'[e] = "queued" /\ e \notin polled'
    <3>1. CASE d = c
      <4>1. refreshQueued
        BY <1>5, <2>1, <3>1
      <4>2. PICK e \in Client : reply[e] = "queued" /\ e \notin polled
        BY <1>1, <4>1 DEF LoopInv, PollIsOwed
      <4> QED
        BY <1>1, <1>3, <1>4, <3>1, <4>2
    <3>2. CASE d # c
      <4>1. reply[d] = "coalesced" /\ d \notin polled
        BY <1>1, <1>4, <2>1, <3>2
      <4>2. PICK e \in Client \ {d} : reply[e] = "queued" /\ e \notin polled
        BY <4>1 DEF LoopInv, CoalescedTruly
      <4> QED
        BY <1>1, <1>3, <1>4, <4>2
    <3> QED
      BY <3>1, <3>2
  <2> QED
    BY <2>1 DEF CoalescedTruly
<1>10. PolledWereTold'
  BY <1>1, <1>3, <1>4 DEF LoopInv, TypeOK, PolledWereTold
<1>11. (PollIsDue /\ ViewsAgree /\ ViewsFollow)'
  BY <1>1 DEF LoopInv, PollIsDue, ViewsAgree, ViewsFollow
<1>12. NothingEarly'
  BY <1>1 DEF LoopInv, NothingEarly, TakeRefresh, Unheard
<1> QED
  BY <1>6, <1>7, <1>8, <1>9, <1>10, <1>11, <1>12 DEF LoopInv

(* Both views are taken from the state as it is. *)
LEMMA PublishStep == ASSUME LoopInv, PublishSnapshot \/ PublishDetails PROVE LoopInv'
<1>1. UNCHANGED <<tickDue, refreshQueued, requests, reply, tracked, polled>>
  BY DEF PublishSnapshot, PublishDetails
<1>2. /\ at \in {"publish", "details"} /\ at' \in {"details", "wait", "done"}
      /\ tracked \subseteq Issue /\ tracked # Nothing
  BY EventLoopAssumption DEF LoopInv, TypeOK, PublishSnapshot, PublishDetails
<1>3. TypeOK'
  BY <1>2 DEF LoopInv, TypeOK, PublishSnapshot, PublishDetails, ViewsFollow
<1>4. (PollIsDue /\ CoalescedTruly /\ RequestsWait /\ PollIsOwed /\ PolledWereTold)'
  BY <1>1, <1>2
  DEF LoopInv, PollIsDue, CoalescedTruly, RequestsWait, PollIsOwed, PolledWereTold
<1>5. (ViewsAgree /\ ViewsFollow /\ NothingEarly)'
  BY <1>2 DEF LoopInv, PublishSnapshot, PublishDetails, ViewsAgree, ViewsFollow, NothingEarly
<1> QED
  BY <1>3, <1>4, <1>5 DEF LoopInv

LEMMA LoopStep == LoopInv /\ [Next]_loopVars => LoopInv'
<1> SUFFICES ASSUME LoopInv, [Next]_loopVars PROVE LoopInv'
  OBVIOUS
<1>1. CASE PressCtrlC
  BY <1>1, PressStep
<1>2. CASE \E c \in Client : PostRefresh(c) \/ ReplyDropped(c)
  BY <1>2, PostStep, DropStep
<1>3. CASE WorkflowChanges \/ IntervalPasses \/ \E i \in Issue : Send(i)
  BY <1>3, SurroundingsStep
<1>4. CASE EndTick \/ \E i \in Issue : Dispatch(i)
  BY <1>4, TickStep
<1>5. CASE PublishSnapshot \/ PublishDetails
  BY <1>5, PublishStep
<1>6. CASE Startup \/ TakeCtrlC \/ TakeReload \/ \E i \in Issue : TakeEvent(i)
  BY <1>6, TurnStep
<1>7. CASE TakeTick
  BY <1>7, TakeTickStep
<1>8. CASE TakeRefresh
  BY <1>8, RefreshStep
<1>9. CASE UNCHANGED loopVars
  BY <1>9
  DEF loopVars, LoopInv, TypeOK, PollIsDue, CoalescedTruly, ViewsAgree, RequestsWait,
      PollIsOwed, PolledWereTold, ViewsFollow, NothingEarly
<1> QED
  BY <1>1, <1>2, <1>3, <1>4, <1>5, <1>6, <1>7, <1>8, <1>9 DEF Next, Branch

(* The invariant holds throughout. *)
THEOREM LoopInvariant == Spec => []LoopInv
  BY LoopInit, LoopStep, PTL DEF Spec

-----------------------------------------------------------------------------
(* The variables of the loop keep their types, and whenever the loop waits  *)
(* a snapshot has been published.                                           *)
THEOREM LoopTypes == Spec => []TypeOK
<1>1. LoopInv => TypeOK
  BY DEF LoopInv
<1> QED
  BY <1>1, LoopInvariant, PTL

(* What clients are told of their refreshes is true: while the flag is set  *)
(* a poll is due, and "coalesced" is said only of a poll that another       *)
(* client was promised and that has not begun.                              *)
THEOREM RefreshesAnsweredTruly == Spec => []RefreshTruthful
<1>1. LoopInv => RefreshTruthful
  BY DEF LoopInv, RefreshTruthful
<1> QED
  BY <1>1, LoopInvariant, PTL

(* When the loop waits, neither view shows an issue that has left memory,   *)
(* and the views differ only between the two writes of one publication.     *)
THEOREM StoreIsTruthful == Spec => []StoreTruthful
<1>1. LoopInv => StoreTruthful
  BY DEF LoopInv, ViewsFollow, NoGhost, StoreTruthful
<1> QED
  BY <1>1, LoopInvariant, PTL
=============================================================================
