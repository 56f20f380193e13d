---------------------------- MODULE ReloadProofs ----------------------------
(***************************************************************************)
(* Proofs about the workflow file and its watcher, for any contents and    *)
(* any length of the channel: a configuration in force is always a usable  *)
(* one, and no usable change is forgotten.                                 *)
(***************************************************************************)
EXTENDS WorkflowReload, TLAPS

-----------------------------------------------------------------------------
(* The inductive invariant. NoChangeForgotten begins to say something when  *)
(* the watcher starts; it is true at that moment because a file that nobody *)
(* touched since it was loaded is the configuration in force.               *)

LoadedIsInForce == phase = "loaded" /\ ~missed => config = file

IndInv == ReloadInv /\ LoadedIsInForce

(* Before the first load nothing is watched. *)
LEMMA IndInvInit == Init => IndInv
<1> SUFFICES ASSUME Init
             PROVE  IndInv
  OBVIOUS
<1>1. NoChangeForgotten /\ LoadedIsInForce
  BY DEF Init, NoChangeForgotten, LoadedIsInForce
<1>2. notes \in 0 .. MaxNotes
  BY ReloadAssumption DEF Init
<1>3. TypeOK
  BY <1>2 DEF Init, TypeOK
<1> QED
  BY <1>1, <1>3 DEF IndInv, ReloadInv

(* Every step keeps the types; only contents that load come into force. *)
LEMMA TypeStep == TypeOK /\ [Next]_reloadVars => TypeOK'
<1> SUFFICES ASSUME TypeOK, [Next]_reloadVars
             PROVE  TypeOK'
  OBVIOUS
<1> USE ReloadAssumption DEF TypeOK
<1>1. CASE LoadAtStart
  BY <1>1 DEF LoadAtStart, Loads
<1>2. CASE StartWatch \/ IntervalPasses \/ Poll
  BY <1>2 DEF StartWatch, IntervalPasses, Poll
<1>3. ASSUME NEW v \in Good \union Bad, Change(v)
      PROVE  TypeOK'
  <2>1. unseen' \in BOOLEAN /\ missed' \in BOOLEAN
    BY <1>3, Zenon DEF Change
  <2> QED
    BY <1>3, <2>1 DEF Change
<1>4. CASE Report \/ WatcherFails
  BY <1>4 DEF Report, WatcherFails
<1>5. CASE Reload
  <2>1. config' \in Good
    BY <1>5 DEF Reload, Loads
  <2>2. notes' \in 0 .. MaxNotes
    BY <1>5 DEF Reload
  <2>3. unseen' \in BOOLEAN
    <3>1. unseen' = unseen \/ unseen' = (unseen \/ file # Absent)
      BY <1>5 DEF Reload
    <3> QED
      BY <3>1, Zenon
  <2> QED
    BY <1>5, <2>1, <2>2, <2>3 DEF Reload
<1>6. CASE UNCHANGED reloadVars
  BY <1>6 DEF reloadVars
<1> QED
  BY <1>1, <1>2, <1>3, <1>4, <1>5, <1>6 DEF Next

(* A change is unseen until it is reported, a report waits in the channel   *)
(* until it is taken, and taking it puts the file in force as it then is.   *)
LEMMA ForgottenStep == IndInv /\ [Next]_reloadVars => (NoChangeForgotten /\ LoadedIsInForce)'
<1> SUFFICES ASSUME IndInv, [Next]_reloadVars
             PROVE  (NoChangeForgotten /\ LoadedIsInForce)'
  OBVIOUS
<1> USE DEF NoChangeForgotten, LoadedIsInForce
<1>0. TypeOK /\ NoChangeForgotten /\ LoadedIsInForce /\ notes \in Nat
  BY ReloadAssumption DEF IndInv, ReloadInv, TypeOK
<1>1. CASE LoadAtStart
  BY <1>1 DEF LoadAtStart
<1>2. CASE StartWatch
  BY <1>0, <1>2 DEF StartWatch
<1>3. ASSUME NEW v \in Good \union Bad, Change(v)
      PROVE  (NoChangeForgotten /\ LoadedIsInForce)'
  BY <1>0, <1>3 DEF Change, TypeOK
<1>4. CASE Report
  BY <1>0, <1>4 DEF Report
<1>5. CASE WatcherFails
  BY <1>0, <1>5 DEF WatcherFails
<1>6. CASE Reload
  BY <1>0, <1>6 DEF Reload, Loads
<1>7. CASE IntervalPasses \/ Poll \/ UNCHANGED reloadVars
  BY <1>0, <1>7 DEF IntervalPasses, Poll, reloadVars
<1> QED
  BY <1>1, <1>2, <1>3, <1>4, <1>5, <1>6, <1>7 DEF Next

(* A configuration in force has passed the validation, and a usable file    *)
(* that is not in force is on its way, through unusable contents, surplus   *)
(* notes and reloads that fail.                                             *)
THEOREM ReloadNeverForgets == Spec => []ReloadInv
<1>1. IndInv /\ [Next]_reloadVars => IndInv'
  BY TypeStep, ForgottenStep DEF IndInv, ReloadInv
<1>2. IndInv => ReloadInv
  BY DEF IndInv
<1> QED
  BY <1>1, <1>2, IndInvInit, PTL DEF Spec
=============================================================================
