---------------------------- MODULE StartupProofs ----------------------------
(***************************************************************************)
(* Proofs about the clean-up at startup, for any number of issues, states, *)
(* roots, identifiers and page sizes: where workspaces are, what a query   *)
(* of several pages returns, and what the clean-up leaves on disk.         *)
(***************************************************************************)
EXTENDS StartupCleanup, FiniteSetTheorems, NaturalsInduction, TLAPS

-----------------------------------------------------------------------------
(* Induction over the natural numbers, for sets: what the library proves of *)
(* an arbitrary operator.                                                   *)

(* A set of natural numbers has a least element. *)
LEMMA LeastElement ==
    ASSUME NEW T \in SUBSET Nat, T # {}
    PROVE  \E n \in T : \A m \in T : n <= m
<1> DEFINE Less == {p \in Nat \X Nat : p[1] < p[2]}
<1>1. IsWellFoundedOn(Less, Nat)
  BY NatLessThanWellFounded DEF OpToRel
<1>2. \A m, n \in T : m < n => <<m, n>> \in Less
  OBVIOUS
<1>3. T \subseteq Nat /\ T # {}
  OBVIOUS
<1> HIDE DEF Less
<1>4. \E n \in T : \A m \in T : ~ (<<m, n>> \in Less)
  BY <1>1, <1>3, WFMin
<1>5. \E n \in T : \A m \in T : ~ (m < n)
  BY <1>2, <1>4, Zenon
<1> QED
  BY <1>3, <1>5

(* Induction over the natural numbers, for a set. *)
LEMMA Induction ==
    ASSUME NEW T \in SUBSET Nat, 0 \in T, \A n \in T : n + 1 \in T
    PROVE  T = Nat
<1> SUFFICES ASSUME Nat \ T # {} PROVE FALSE
  OBVIOUS
<1>1. PICK n \in Nat \ T : \A m \in Nat \ T : n <= m
  BY LeastElement
<1>2. n - 1 \in Nat /\ n - 1 \in T
  BY <1>1
<1> QED
  BY <1>1, <1>2

-----------------------------------------------------------------------------
(* Paths. *)

(* Components that name something in the directory before them. *)
Plain == Key \ {<<>>, Current, Parent}

LEMMA EnteredFacts ==
    ASSUME NEW path \in Seq(Plain), NEW c \in Key
    PROVE  /\ Entered(path, c) \in Seq(Plain)
           /\ c \in {<<>>, Current} => Entered(path, c) = path
           /\ c = Parent => Entered(path, c) = IF path = <<>> THEN path ELSE Front(path)
           /\ c \in Plain => Entered(path, c) = Append(path, c)
<1>0. Parent \notin {<<>>, Current}
  BY DEF Parent, Current
<1>1. c \in {<<>>, Current} => Entered(path, c) = path
  BY <1>0 DEF Entered
<1>2. c = Parent => Entered(path, c) = IF path = <<>> THEN path ELSE Front(path)
  BY <1>0 DEF Entered
<1>3. c \in Plain => Entered(path, c) = Append(path, c)
  BY DEF Entered, Plain
<1>4. path = <<>> \/ Front(path) \in Seq(Plain)
  BY DEF Front
<1>5. c \in Plain => Append(path, c) \in Seq(Plain)
  OBVIOUS
<1>6. c \in {<<>>, Current, Parent} \/ c \in Plain
  BY DEF Plain
<1> QED
  BY <1>1, <1>2, <1>3, <1>4, <1>5, <1>6

(* What has been reached after each of the first components. *)
Walks(parts, m) ==
    {p \in [0 .. m -> Seq(Plain)] :
        p[0] = <<>> /\ \A n \in 1 .. m : p[n] = Entered(p[n - 1], parts[n])}

LEMMA WalkExists ==
    ASSUME NEW parts \in Seq(Key), NEW m \in 0 .. Len(parts)
    PROVE  Walks(parts, m) # {}
<1> DEFINE T == {k \in Nat : k <= Len(parts) => Walks(parts, k) # {}}
<1>1. 0 \in T
  <2> DEFINE p == [n \in 0 .. 0 |-> <<>>]
  <2>1. p \in Walks(parts, 0)
    BY DEF Walks
  <2> QED
    BY <2>1
<1>2. ASSUME NEW k \in Nat, k + 1 <= Len(parts), NEW p \in Walks(parts, k)
      PROVE  Walks(parts, k + 1) # {}
  <2> DEFINE q == [n \in 0 .. k + 1 |-> IF n <= k THEN p[n] ELSE Entered(p[k], parts[k + 1])]
  <2>0. parts[k + 1] \in Key
    BY <1>2
  <2>1. p[k] \in Seq(Plain) /\ p \in [0 .. k -> Seq(Plain)] /\ p[0] = <<>>
        /\ \A n \in 1 .. k : p[n] = Entered(p[n - 1], parts[n])
    BY DEF Walks
  <2>2. Entered(p[k], parts[k + 1]) \in Seq(Plain)
    BY <2>0, <2>1, EnteredFacts
  <2>3. q \in [0 .. k + 1 -> Seq(Plain)]
    BY <2>1, <2>2
  <2>4. q[0] = <<>>
    BY <2>1
  <2>5. ASSUME NEW n \in 1 .. k + 1 PROVE q[n] = Entered(q[n - 1], parts[n])
    <3>1. CASE n <= k
      BY <2>1, <3>1
    <3>2. CASE n = k + 1
      BY <3>2
    <3> QED
      BY <3>1, <3>2
  <2>6. q \in Walks(parts, k + 1)
    <3> HIDE DEF q
    <3> QED
      BY <2>3, <2>4, <2>5 DEF Walks
  <2> QED
    BY <2>6
<1>3. \A k \in T : k + 1 \in T
  BY <1>2
<1>4. T = Nat
  <2>1. T \in SUBSET Nat
    OBVIOUS
  <2> HIDE DEF T
  <2> QED
    BY <1>1, <1>3, <2>1, Induction
<1> QED
  BY <1>4

LEMMA NormalizedWalks ==
    ASSUME NEW parts \in Seq(Key)
    PROVE  \E p \in Walks(parts, Len(parts)) : Normalized(parts) = p[Len(parts)]
<1> DEFINE Grows(p) == p = [n \in 0 .. Len(parts) |->
                               IF n = 0 THEN <<>> ELSE Entered(p[n - 1], parts[n])]
           path == CHOOSE p : Grows(p)
<1>1. PICK q \in Walks(parts, Len(parts)) : TRUE
  BY WalkExists
<1>2. Grows(q)
  BY <1>1 DEF Walks
<1>3. Grows(path)
  BY <1>2
<1>4. Normalized(parts) = path[Len(parts)]
  BY DEF Normalized
<1> HIDE DEF path
<1> DEFINE T == {k \in Nat : k <= Len(parts) => path[k] = q[k]}
<1>5. 0 \in T
  BY <1>2, <1>3
<1>6. \A k \in T : k + 1 \in T
  BY <1>2, <1>3
<1>7. T = Nat
  <2>1. T \in SUBSET Nat
    OBVIOUS
  <2> HIDE DEF T
  <2> QED
    BY <1>5, <1>6, <2>1, Induction
<1> QED
  BY <1>1, <1>4, <1>7

(* Components that are names are entered one after the other. *)
LEMMA NamesAreKept ==
    ASSUME NEW base \in Seq(Plain), NEW parts \in Seq(Key), Len(base) <= Len(parts),
           \A k \in 1 .. Len(base) : parts[k] = base[k],
           NEW p \in Walks(parts, Len(parts))
    PROVE  p[Len(base)] = base
<1> DEFINE T == {k \in Nat : k <= Len(base) => /\ Len(p[k]) = k
                                               /\ \A j \in 1 .. k : p[k][j] = base[j]}
<1>0. p \in [0 .. Len(parts) -> Seq(Plain)] /\ p[0] = <<>>
      /\ \A n \in 1 .. Len(parts) : p[n] = Entered(p[n - 1], parts[n])
  BY DEF Walks
<1>1. 0 \in T
  BY <1>0
<1>2. ASSUME NEW k \in T PROVE k + 1 \in T
  <2> SUFFICES ASSUME k + 1 <= Len(base)
               PROVE  /\ Len(p[k + 1]) = k + 1
                      /\ \A j \in 1 .. k + 1 : p[k + 1][j] = base[j]
    OBVIOUS
  <2>1. base[k + 1] \in Plain /\ base[k + 1] \in Key
    BY DEF Plain
  <2>2. p[k] \in Seq(Plain) /\ Len(p[k]) = k /\ \A j \in 1 .. k : p[k][j] = base[j]
    BY <1>0
  <2>3. p[k + 1] = Entered(p[k], base[k + 1])
    BY <1>0
  <2>4. Entered(p[k], base[k + 1]) = Append(p[k], base[k + 1])
    BY <2>1, <2>2, EnteredFacts
  <2> HIDE DEF T
  <2> QED
    BY <2>1, <2>2, <2>3, <2>4
<1>3. T = Nat
  <2>1. T \in SUBSET Nat
    OBVIOUS
  <2> HIDE DEF T
  <2> QED
    BY <1>1, <1>2, <2>1, Induction
<1>4. p[Len(base)] \in Seq(Plain)
  BY <1>0
<1>5. Len(p[Len(base)]) = Len(base) /\ \A j \in 1 .. Len(base) : p[Len(base)][j] = base[j]
  BY <1>3
<1> QED
  BY <1>4, <1>5

(* A normalized path holds names only. *)
LEMMA NormalizedIsPlain == \A parts \in Seq(Key) : Normalized(parts) \in Seq(Plain)
  BY NormalizedWalks DEF Walks

(* One more component is entered from the path before it. *)
LEMMA NormalizedJoin ==
    ASSUME NEW base \in Seq(Plain), NEW c \in Key
    PROVE  Normalized(base \o <<c>>) = Entered(base, c)
<1> DEFINE parts == base \o <<c>>
<1>1. /\ parts \in Seq(Key) /\ Len(parts) = Len(base) + 1 /\ parts[Len(base) + 1] = c
      /\ \A k \in 1 .. Len(base) : parts[k] = base[k]
  BY DEF Plain
<1> HIDE DEF parts
<1>2. PICK p \in Walks(parts, Len(parts)) : Normalized(parts) = p[Len(parts)]
  BY <1>1, NormalizedWalks
<1>3. p[Len(base)] = base
  BY <1>1, NamesAreKept
<1>4. p[Len(parts)] = Entered(p[Len(parts) - 1], parts[Len(parts)])
  BY <1>1 DEF Walks
<1> QED
  BY <1>1, <1>2, <1>3, <1>4 DEF parts

(* Sanitizing changes characters, not their number. *)
LEMMA SanitizeFacts ==
    ASSUME NEW identifier \in Seq(Character)
    PROVE  Sanitize(identifier) \in Key /\ Len(Sanitize(identifier)) = Len(identifier)
<1> DEFINE n == Len(identifier)
           C == {"a", ".", "_"}
<1>1. n \in Nat /\ DOMAIN identifier = 1 .. n
  OBVIOUS
<1>2. \A k \in 1 .. n : identifier[k] \in Character
  OBVIOUS
<1>3. Sanitize(identifier) \in [1 .. n -> C]
  BY <1>1, <1>2 DEF Sanitize, Character
<1>4. \A f \in [1 .. n -> C] : f \in Seq(C) /\ Len(f) = n
  <2> HIDE DEF C, n
  <2> QED
    BY <1>1
<1> QED
  BY <1>3, <1>4 DEF Key

(* The workspace of an identifier is reached from the root by one step. *)
LEMMA WorkspacePathCases ==
    ASSUME NEW r \in Roots, NEW identifier \in Seq(Character)
    PROVE  /\ Directory(r) \in Seq(Plain) /\ Sanitize(identifier) \in Key
           /\ WorkspacePathOf(r, identifier) \in Seq(Plain)
           /\ WorkspacePathOf(r, identifier) = Entered(Directory(r), Sanitize(identifier))
<1>1. r.parts \in Seq(Key) /\ Cwd \o r.parts \in Seq(Key)
  BY PathAssumption, CleanupAssumption
<1>2. Directory(r) \in Seq(Plain)
  BY <1>1, NormalizedIsPlain DEF Directory
<1>3. Sanitize(identifier) \in Key
  BY SanitizeFacts
<1>4. WorkspacePathOf(r, identifier) = Entered(Directory(r), Sanitize(identifier))
  BY <1>2, <1>3, NormalizedJoin DEF WorkspacePathOf
<1> QED
  BY <1>2, <1>3, <1>4, EnteredFacts

USE TrackerAssumption

-----------------------------------------------------------------------------
(* The invariant that carries the others. *)

(* Who counts as steady is in a state that is asked for. *)
SteadyWanted == \A i \in steady : state[i] \in wanted

(* Behind the cursor nobody steady is missing. *)
SteadyBehindCursor ==
    call = "paging" => \A i \in steady : i <= after => i \in Ids(issues)

TrackerInv == TypeOK /\ SteadyWanted /\ SteadyBehindCursor /\ SteadySeen /\ SeenOnce

DiskTypes ==
    /\ root \in Roots
    /\ phase \in {"down", "query", "clean", "up"}

CleanupInv == TrackerInv /\ DiskTypes /\ EndedRemoved

-----------------------------------------------------------------------------
(* What is read of some issues is who they are, once each. *)
LEMMA NowFacts ==
    ASSUME NEW ids \in SUBSET Issue
    PROVE  /\ Ids(Now(ids)) = ids
           /\ \A x \in Now(ids) : x.id \in ids /\ x.state = state[x.id]
           /\ \A x, y \in Now(ids) : x.id = y.id => x = y
           /\ state \in [Issue -> State] => Now(ids) \subseteq Seen
<1>1. \A x : x \in Now(ids) <=> \E i \in ids : x = [id |-> i, state |-> state[i]]
  BY DEF Now
<1>2. \A x \in Now(ids) : x.id \in ids /\ x.state = state[x.id]
  BY <1>1
<1>3. \A x, y \in Now(ids) : x.id = y.id => x = y
  BY <1>1
<1>4. Ids(Now(ids)) = ids
  <2>1. ASSUME NEW i \in ids PROVE i \in Ids(Now(ids))
    <3> DEFINE x == [id |-> i, state |-> state[i]]
    <3>1. x \in Now(ids) /\ x.id = i
      BY <1>1
    <3> QED
      BY <3>1, Zenon DEF Ids
  <2>2. \A i \in Ids(Now(ids)) : i \in ids
    BY <1>2 DEF Ids
  <2> QED
    BY <2>1, <2>2
<1>5. state \in [Issue -> State] => Now(ids) \subseteq Seen
  BY <1>1 DEF Seen
<1> QED
  BY <1>2, <1>3, <1>4, <1>5

LEMMA IdsOfUnion == \A s, t : Ids(s \union t) = Ids(s) \union Ids(t)
  BY DEF Ids

(* The first issues of a set are closed downwards in it: a page leaves out  *)
(* nobody who comes before somebody it shows.                               *)
LEMMA FirstOfIsPrefix ==
    ASSUME NEW ids \in SUBSET Issue, NEW size \in Nat,
           NEW m \in FirstOf(ids, size), NEW i \in ids, i <= m
    PROVE  i \in FirstOf(ids, size)
<1> DEFINE upTo(k) == {j \in ids : j <= k}
<1>1. IsFiniteSet(Issue)
  BY FS_Interval DEF Issue
<1>2. IsFiniteSet(upTo(m)) /\ IsFiniteSet(upTo(i))
  <2>1. upTo(m) \in SUBSET Issue /\ upTo(i) \in SUBSET Issue
    OBVIOUS
  <2> QED
    BY <1>1, <2>1, FS_Subset, Zenon
<1>3. upTo(i) \subseteq upTo(m)
  <2>1. m \in ids /\ \A j \in ids : j \in Int
    BY DEF FirstOf, Issue
  <2>2. \A j \in ids : j <= i => j <= m
    BY <2>1
  <2> QED
    BY <2>2
<1>4. /\ Cardinality(upTo(i)) <= Cardinality(upTo(m))
      /\ Cardinality(upTo(i)) \in Nat /\ Cardinality(upTo(m)) \in Nat
  BY <1>2, <1>3, FS_Subset, FS_CardinalityType
<1>5. Cardinality(upTo(m)) <= size
  BY DEF FirstOf
<1> QED
  BY <1>4, <1>5 DEF FirstOf

-----------------------------------------------------------------------------
(* The steps of the tracker keep its invariant. *)

LEMMA TrackerInitial == ASSUME Init PROVE TrackerInv
  BY DEF Init, TrackerInv, TypeOK, SteadyWanted, SteadyBehindCursor, SteadySeen,
         SeenOnce, Ids, Issue

LEMMA TrackerStutters == ASSUME TrackerInv, UNCHANGED trackerVars PROVE TrackerInv'
  BY DEF TrackerInv, trackerVars, TypeOK, SteadyWanted, SteadyBehindCursor, SteadySeen,
         SeenOnce, Ids

LEMMA MoveStep ==
    ASSUME TrackerInv, NEW i \in Issue, NEW s \in State, Move(i, s)
    PROVE  TrackerInv'
<1>1. UNCHANGED <<call, wanted, after, issues>> /\ steady' \subseteq steady
  BY DEF Move
<1>2. TypeOK'
  BY <1>1 DEF TrackerInv, TypeOK, Move, Ids
<1>3. SteadyWanted'
  BY <1>1 DEF TrackerInv, TypeOK, SteadyWanted, Move
<1>4. SteadyBehindCursor' /\ SteadySeen' /\ SeenOnce'
  BY <1>1 DEF TrackerInv, SteadyBehindCursor, SteadySeen, SeenOnce, Ids
<1> QED
  BY <1>2, <1>3, <1>4 DEF TrackerInv

LEMMA FetchStep ==
    ASSUME TrackerInv, NEW states \in SUBSET State, Fetch(states)
    PROVE  TrackerInv'
<1>1. /\ issues' = {} /\ after' = 0 /\ wanted' = states /\ state' = state
      /\ steady' = {i \in Issue : state[i] \in states}
      /\ call' = IF states = {} THEN "listed" ELSE "paging"
  BY DEF Fetch
<1>2. Ids(issues') = {}
  BY <1>1 DEF Ids
<1>3. TypeOK' /\ SeenOnce'
  BY <1>1, <1>2 DEF TrackerInv, TypeOK, SeenOnce, Ids, Issue
<1>4. SteadyWanted' /\ SteadyBehindCursor'
  BY <1>1 DEF SteadyWanted, SteadyBehindCursor, Issue
<1>5. SteadySeen'
  BY <1>1 DEF SteadySeen
<1> QED
  BY <1>3, <1>4, <1>5 DEF TrackerInv

LEMMA PageStep == ASSUME TrackerInv, Page PROVE TrackerInv'
<1> DEFINE nodes == FirstOf(Matching, PageSize)
<1>1. /\ call = "paging" /\ issues' = issues \union Now(nodes)
      /\ UNCHANGED <<state, wanted, steady>>
  BY DEF Page
<1>2. /\ nodes \subseteq Matching /\ Matching \subseteq Issue
      /\ \A i \in Matching : i > after /\ state[i] \in wanted
  BY DEF FirstOf, Matching
<1>3. /\ Ids(issues') = Ids(issues) \union nodes
      /\ \A x \in Now(nodes) : x.id \in nodes /\ x.state = state[x.id]
      /\ \A x, y \in Now(nodes) : x.id = y.id => x = y
      /\ Now(nodes) \subseteq Seen
  BY <1>1, <1>2, NowFacts, IdsOfUnion DEF TrackerInv, TypeOK
<1>4. Ids(issues) \subseteq 1 .. after /\ after \in 0 .. Issues
  BY <1>1 DEF TrackerInv, TypeOK
<1>5. SteadyWanted'
  BY <1>1 DEF TrackerInv, SteadyWanted
<1>6. \A i \in steady : i \in Ids(issues) \/ i \in Matching
  BY <1>1, <1>4 DEF TrackerInv, TypeOK, SteadyBehindCursor, SteadyWanted, Matching, Issue
<1>7. SeenOnce'
  <2>1. \A x \in issues, y \in Now(nodes) : x.id # y.id
    BY <1>2, <1>3, <1>4 DEF Ids, Issue
  <2>2. \A x, y \in issues' : x.id = y.id => x = y
    BY <2>1, <1>1, <1>3 DEF TrackerInv, SeenOnce
  <2>3. \A x \in issues' : x.state \in wanted
    BY <1>1, <1>2, <1>3 DEF TrackerInv, SeenOnce
  <2> QED
    BY <2>2, <2>3, <1>1 DEF SeenOnce
<1>8. CASE nodes = Matching
  <2>1. call' = "listed" /\ after' = after
    BY <1>8 DEF Page
  <2>2. TypeOK'
    BY <2>1, <1>1, <1>3 DEF TrackerInv, TypeOK
  <2>3. SteadySeen' /\ SteadyBehindCursor'
    BY <2>1, <1>1, <1>3, <1>6, <1>8 DEF SteadySeen, SteadyBehindCursor
  <2> QED
    BY <2>2, <2>3, <1>5, <1>7 DEF TrackerInv
<1>9. CASE nodes # Matching
  <2>1. call' = "paging" /\ after' \in nodes /\ \A j \in nodes : j <= after'
    BY <1>1, <1>9 DEF Page
  <2>2. TypeOK'
    <3>1. after' \in 1 .. Issues /\ after' > after
      BY <2>1, <1>2 DEF Issue
    <3>2. Ids(issues') \subseteq 1 .. after'
      <4>1. \A i \in Ids(issues) : i \in 1 .. after'
        BY <3>1, <1>4
      <4>2. \A i \in nodes : i \in 1 .. after'
        BY <3>1, <2>1, <1>2 DEF Issue
      <4> QED
        BY <4>1, <4>2, <1>3
    <3>3. issues' \subseteq Seen /\ after' \in 0 .. Issues
      BY <3>1, <1>1, <1>3 DEF TrackerInv, TypeOK
    <3> QED
      BY <3>2, <3>3, <2>1, <1>1 DEF TrackerInv, TypeOK
  <2>3. SteadyBehindCursor'
    <3> SUFFICES ASSUME NEW i \in steady, i <= after' PROVE i \in Ids(issues')
      BY <1>1 DEF SteadyBehindCursor
    <3>1. CASE i \in Matching
      BY <3>1, <2>1, <1>2, <1>3, FirstOfIsPrefix
    <3> QED
      BY <3>1, <1>3, <1>6
  <2>4. SteadySeen'
    BY <2>1 DEF SteadySeen
  <2> QED
    BY <2>2, <2>3, <2>4, <1>5, <1>7 DEF TrackerInv
<1> QED
  BY <1>8, <1>9

LEMMA PageFailsStep == ASSUME TrackerInv, PageFails PROVE TrackerInv'
<1>1. call' = "failed" /\ issues' = {} /\ UNCHANGED <<state, wanted, after, steady>>
  BY DEF PageFails
<1> QED
  BY <1>1 DEF TrackerInv, TypeOK, SteadyWanted, SteadyBehindCursor, SteadySeen, SeenOnce

LEMMA FetchStatesStep ==
    ASSUME TrackerInv, NEW ids \in SUBSET Issue, FetchStates(ids)
    PROVE  TrackerInv'
<1> DEFINE nodes == FirstOf(ids, DefaultPage)
<1>1. /\ call' \in {"states", "failed"} /\ steady' = ids /\ wanted' = State
      /\ after' = 0 /\ state' = state
      /\ issues' = Now(nodes) \/ issues' = {}
  BY DEF FetchStates
<1>2. nodes \in SUBSET Issue
  BY DEF FirstOf
<1>3. /\ \A x, y \in Now(nodes) : x.id = y.id => x = y
      /\ Now(nodes) \subseteq Seen
  BY <1>2, NowFacts DEF TrackerInv, TypeOK
<1>4. TypeOK' /\ SeenOnce'
  BY <1>1, <1>3 DEF TrackerInv, TypeOK, SeenOnce
<1>5. SteadyWanted'
  BY <1>1 DEF TrackerInv, TypeOK, SteadyWanted
<1>6. SteadyBehindCursor' /\ SteadySeen'
  BY <1>1 DEF SteadyBehindCursor, SteadySeen
<1> QED
  BY <1>4, <1>5, <1>6 DEF TrackerInv

LEMMA StopStep == ASSUME TrackerInv, Stop PROVE TrackerInv'
<1>1. /\ call' = "idle" /\ wanted' = {} /\ after' = 0 /\ issues' = {} /\ steady' = {}
      /\ state' = state
  BY DEF Stop
<1> QED
  BY <1>1 DEF TrackerInv, TypeOK, SteadyWanted, SteadyBehindCursor, SteadySeen, SeenOnce, Issue

USE CleanupAssumption

-----------------------------------------------------------------------------
(* The clean-up. *)

(* A removal adds no directory, and that of the issue is gone afterwards    *)
(* unless it failed, or lies outside the root and was refused.              *)
LEMMA RemovalFacts ==
    ASSUME root \in Roots, NEW i \in Issue, RemoveWorkspace(i)
    PROVE  /\ made' \subseteq made /\ kept \subseteq kept'
           /\ i \in kept' \/ ~Contained(root, PathOf(i))
                \/ \A w \in made' : w.path # PathOf(i)
<1>1. PathOf(i) \in Seq(Plain)
  BY WorkspacePathCases DEF PathOf
<1>2. IsPrefix(PathOf(i), PathOf(i))
  BY <1>1 DEF IsPrefix
<1> QED
  BY <1>2 DEF RemoveWorkspace

LEMMA CleanUpNextStep ==
    ASSUME CleanupInv, NEW i \in Issue, CleanUpNext(i)
    PROVE  EndedRemoved'
<1>1. /\ phase = "clean" /\ todo' = todo \ {i} /\ RemoveWorkspace(i)
      /\ UNCHANGED <<call, steady, phase, root>>
  BY DEF CleanUpNext, trackerVars
<1>2. /\ made' \subseteq made /\ kept \subseteq kept'
      /\ i \in kept' \/ ~Contained(root, PathOf(i))
           \/ \A w \in made' : w.path # PathOf(i)
  BY <1>1, RemovalFacts DEF CleanupInv, DiskTypes
<1> SUFFICES ASSUME phase = "clean", call = "listed",
                    NEW j \in steady \ (todo' \union kept'), Contained(root, PathOf(j))
             PROVE  \A w \in made' : w.path # PathOf(j)
  BY <1>1 DEF EndedRemoved, PathOf
<1>3. CASE j = i
  BY <1>2, <1>3
<1>4. CASE j # i
  BY <1>1, <1>2, <1>4 DEF CleanupInv, EndedRemoved
<1> QED
  BY <1>3, <1>4

LEMMA ListedStep == ASSUME CleanupInv, Listed PROVE EndedRemoved'
<1>1. todo' = Ids(issues) /\ UNCHANGED <<call, steady>>
  BY DEF Listed, trackerVars
<1> QED
  BY <1>1 DEF CleanupInv, TrackerInv, SteadySeen, EndedRemoved

(* Where the clean-up is not under way nothing is to be shown. *)
LEMMA PeopleStep ==
    ASSUME CleanupInv, UNCHANGED diskVars, call' = call, steady' \subseteq steady
    PROVE  EndedRemoved'
  BY DEF CleanupInv, EndedRemoved, diskVars, PathOf

LEMMA CleanupStep == ASSUME CleanupInv, CleanupNext PROVE CleanupInv'
<1> USE DEF CleanupInv
<1>1. CASE People
  <2>1. PICK i \in Issue, s \in State : Move(i, s) /\ UNCHANGED diskVars
    BY <1>1 DEF People
  <2>2. TrackerInv'
    BY <2>1, MoveStep
  <2>3. EndedRemoved'
    BY <2>1, PeopleStep DEF Move
  <2> QED
    BY <2>1, <2>2, <2>3 DEF DiskTypes, diskVars
<1>2. CASE Query
  <2>1. UNCHANGED diskVars /\ phase \in {"query", "up"}
    BY <1>2 DEF Query
  <2>2. TrackerInv'
    BY <1>2, PageStep, PageFailsStep, FetchStep, FetchStatesStep DEF Query
  <2> QED
    BY <2>1, <2>2 DEF DiskTypes, diskVars, EndedRemoved
<1>3. CASE Listed
  <2>1. UNCHANGED <<trackerVars, root>> /\ phase' = "clean"
    BY <1>3 DEF Listed
  <2> QED
    BY <1>3, <2>1, ListedStep, TrackerStutters DEF DiskTypes
<1>4. CASE Started
  <2>1. UNCHANGED <<trackerVars, root>> /\ phase' = "up"
    BY <1>4 DEF Started
  <2> QED
    BY <2>1, TrackerStutters DEF DiskTypes, EndedRemoved
<1>5. CASE Stop
  <2>1. phase' = "down" /\ root' = root
    BY <1>5 DEF Stop
  <2> QED
    BY <1>5, <2>1, StopStep DEF DiskTypes, EndedRemoved
<1>6. ASSUME NEW r \in Roots, Start(r) PROVE CleanupInv'
  <2>1. Fetch(Terminal) /\ phase' = "query" /\ root' = r
    BY <1>6 DEF Start
  <2> QED
    BY <2>1, FetchStep DEF DiskTypes, EndedRemoved
<1>7. ASSUME NEW r \in Roots, Reload(r) PROVE CleanupInv'
  <2>1. UNCHANGED <<trackerVars, phase>> /\ root' = r /\ phase = "up"
    BY <1>7 DEF Reload
  <2> QED
    BY <2>1, TrackerStutters DEF DiskTypes, EndedRemoved
<1>8. ASSUME NEW i \in Issue, Ensure(i) \/ CleanUpRun(i) PROVE CleanupInv'
  <2>1. UNCHANGED <<trackerVars, phase, root>> /\ phase = "up"
    BY <1>8 DEF Ensure, CleanUpRun
  <2> QED
    BY <2>1, TrackerStutters DEF DiskTypes, EndedRemoved
<1>9. ASSUME NEW i \in Issue, CleanUpNext(i) PROVE CleanupInv'
  <2>1. UNCHANGED <<trackerVars, phase, root>>
    BY <1>9 DEF CleanUpNext
  <2> QED
    BY <1>9, <2>1, TrackerStutters, CleanUpNextStep DEF DiskTypes
<1> QED
  BY <1>1, <1>2, <1>3, <1>4, <1>5, <1>6, <1>7, <1>8, <1>9 DEF CleanupNext

(* The clean-up at startup keeps its invariant. *)
THEOREM CleanupInvariant == CleanupSpec => []CleanupInv
<1>1. CleanupInit => CleanupInv
  BY TrackerInitial DEF CleanupInit, CleanupInv, DiskTypes, EndedRemoved
<1>2. CleanupInv /\ [CleanupNext]_cleanupVars => CleanupInv'
  <2> SUFFICES ASSUME CleanupInv, [CleanupNext]_cleanupVars PROVE CleanupInv'
    OBVIOUS
  <2>1. CASE CleanupNext
    BY <2>1, CleanupStep
  <2>2. CASE UNCHANGED cleanupVars
    <3>1. UNCHANGED trackerVars /\ UNCHANGED diskVars
      BY <2>2 DEF cleanupVars
    <3> QED
      BY <3>1, TrackerStutters, PeopleStep DEF CleanupInv, DiskTypes, diskVars, trackerVars
  <2> QED
    BY <2>1, <2>2
<1> QED
  BY <1>1, <1>2, PTL DEF CleanupSpec

(* A query of any number of pages returns every issue that was in a wanted  *)
(* state throughout, and each issue once and in a wanted state.             *)
THEOREM QueryIsSound == CleanupSpec => []QueryInv
<1>1. CleanupInv => QueryInv
  BY DEF CleanupInv, TrackerInv, QueryInv
<1> QED
  BY <1>1, CleanupInvariant, PTL

(* When its turn is over, an issue that has ended has no workspace under    *)
(* the present root, unless its removal failed.                             *)
THEOREM EndedIssuesRemoved == CleanupSpec => []EndedRemoved
  BY CleanupInvariant, PTL DEF CleanupInv

-----------------------------------------------------------------------------
(* Where workspaces are made. *)

(* Only three actions change what is on disk. *)
LEMMA DiskSteps ==
    ASSUME [CleanupNext]_cleanupVars
    PROVE  \/ made' = made
           \/ \E i \in Issue : CleanUpRun(i) \/ CleanUpNext(i)
           \/ \E i \in Issue : Ensure(i)
<1>1. CASE People \/ Query \/ Listed \/ Started \/ Stop
  BY <1>1 DEF People, Query, Listed, Started, Stop, diskVars
<1>2. CASE \E r \in Roots : Start(r) \/ Reload(r)
  BY <1>2 DEF Start, Reload
<1>3. CASE UNCHANGED cleanupVars
  BY <1>3 DEF cleanupVars, diskVars
<1> QED
  BY <1>1, <1>2, <1>3 DEF CleanupNext

(* What the containment check lets through is the root's own directory or   *)
(* lies in it under the issue's key.                                        *)
LEMMA ContainedCases ==
    ASSUME NEW r \in Roots, NEW identifier \in Seq(Character),
           Contained(r, WorkspacePathOf(r, identifier))
    PROVE  LET key == Sanitize(identifier) IN
           IF key \in {<<>>, Current, Parent}
           THEN WorkspacePathOf(r, identifier) = Directory(r)
           ELSE key \in Plain /\ WorkspacePathOf(r, identifier) = Append(Directory(r), key)
<1> DEFINE key == Sanitize(identifier)
<1>1. /\ Directory(r) \in Seq(Plain) /\ key \in Key
      /\ WorkspacePathOf(r, identifier) = Entered(Directory(r), key)
  BY WorkspacePathCases
<1> HIDE DEF key
<1>2. CASE key = Parent
  <2>1. Directory(r) = <<>> \/ Len(Front(Directory(r))) < Len(Directory(r))
    BY <1>1 DEF Front
  <2>2. Entered(Directory(r), key) \in {Directory(r), Front(Directory(r))}
    BY <1>1, <1>2, EnteredFacts
  <2>3. Len(Directory(r)) <= Len(Entered(Directory(r), key))
    BY <1>1 DEF Contained, IsPrefix
  <2>4. Entered(Directory(r), key) = Directory(r)
    BY <1>1, <1>2, <2>1, <2>2, <2>3, EnteredFacts
  <2> QED
    BY <1>1, <1>2, <2>4 DEF key
<1>3. CASE key \in {<<>>, Current}
  BY <1>1, <1>3, EnteredFacts DEF key
<1>4. CASE key \in Plain
  BY <1>1, <1>4, EnteredFacts DEF key, Plain
<1> QED
  BY <1>1, <1>2, <1>3, <1>4 DEF Plain

(* A workspace is made for an issue that has a name.                        *)
MadeInv ==
    InsideRoot /\ \A w \in made : w.issue \in Issue /\ Sanitize(Identifier[w.issue]) # <<>>

LEMMA MadeStep == ASSUME CleanupInv, MadeInv, [CleanupNext]_cleanupVars PROVE MadeInv'
<1>0. root \in Roots
  BY DEF CleanupInv, DiskTypes
<1>1. CASE made' \subseteq made
  BY <1>1 DEF MadeInv, InsideRoot
<1>2. ASSUME NEW i \in Issue, Ensure(i)
      PROVE  MadeInv'
  <2>1. /\ made' = made \union {[issue |-> i, path |-> PathOf(i)]}
        /\ Identifier[i] # <<>> /\ Contained(root, WorkspacePathOf(root, Identifier[i]))
        /\ Identifier[i] \in Seq(Character)
    BY <1>2, CleanupAssumption DEF Ensure, PathOf
  <2>2. Sanitize(Identifier[i]) # <<>>
    BY <2>1, SanitizeFacts
  <2>3. LET key == Sanitize(Identifier[i]) IN
        PathOf(i) = IF key \in {Current, Parent}
                    THEN Directory(root) ELSE Append(Directory(root), key)
    BY <1>0, <2>1, <2>2, ContainedCases DEF PathOf
  <2>4. \A w \in made' : w \in made \/ (w.issue = i /\ w.path = PathOf(i))
    BY <2>1
  <2> QED
    BY <1>0, <2>2, <2>3, <2>4 DEF MadeInv, InsideRoot
<1>3. ASSUME NEW i \in Issue, CleanUpRun(i) \/ CleanUpNext(i)
      PROVE  made' \subseteq made
  <2>1. RemoveWorkspace(i)
    BY <1>3 DEF CleanUpRun, CleanUpNext
  <2> QED
    BY <1>0, <2>1, RemovalFacts
<1> QED
  BY <1>1, <1>2, <1>3, DiskSteps

LEMMA MadeInvariant == CleanupSpec => []MadeInv
<1>1. CleanupInit => MadeInv
  BY DEF CleanupInit, MadeInv, InsideRoot
<1> QED
  BY <1>1, MadeStep, CleanupInvariant, PTL DEF CleanupSpec

(* Every workspace is that of its issue's key in a root, or a root itself   *)
(* for an identifier of dots, for any roots and identifiers.                *)
THEOREM WorkspacesInsideRoots == CleanupSpec => []InsideRoot
  BY MadeInvariant, PTL DEF MadeInv

-----------------------------------------------------------------------------
(* Whose workspaces a clean-up takes.                                       *)

(* A sequence begins with itself. *)
LEMMA PrefixOfSelf == \A s \in Seq(Plain) : IsPrefix(s, s)
  BY DEF IsPrefix

(* What begins with a sequence's child is that child, or the parent has it  *)
(* too.                                                                     *)
LEMMA PrefixOfAppend ==
    ASSUME NEW s \in Seq(Plain), NEW c \in Plain, NEW t \in Seq(Plain), NEW x \in Plain,
           IsPrefix(Append(s, c), Append(t, x)), ~IsPrefix(Append(s, c), t)
    PROVE  c = x
<1> DEFINE a == Append(s, c)
           b == Append(t, x)
<1>1. /\ a \in Seq(Plain) /\ Len(a) = Len(s) + 1 /\ a[Len(a)] = c
      /\ b \in Seq(Plain) /\ Len(b) = Len(t) + 1 /\ b[Len(b)] = x
      /\ \A k \in 1 .. Len(t) : b[k] = t[k]
  OBVIOUS
<1> HIDE DEF a, b
<1>2. Len(a) <= Len(b) /\ \A k \in 1 .. Len(a) : b[k] = a[k]
  BY <1>1 DEF a, b, IsPrefix
<1>3. Len(a) = Len(b)
  <2>1. ASSUME Len(a) <= Len(t) PROVE FALSE
    <3>1. \A k \in 1 .. Len(a) : t[k] = a[k]
      BY <1>1, <1>2, <2>1
    <3> QED
      BY <1>1, <2>1, <3>1 DEF a, IsPrefix
  <2> QED
    BY <1>1, <1>2, <2>1
<1> QED
  BY <1>1, <1>2, <1>3

(* A removal takes nothing but what the issue's name and the roots give     *)
(* away.                                                                    *)
LEMMA RemovalIsNamed ==
    ASSUME MadeInv, root \in Roots, NEW i \in Issue, RemoveWorkspace(i),
           NEW w \in made \ made'
    PROVE  MayTake(i, w)
<1> DEFINE k == Sanitize(Identifier[i])
           l == Sanitize(Identifier[w.issue])
           d == Directory(root)
<1>1. Contained(root, PathOf(i)) /\ IsPrefix(PathOf(i), w.path)
  BY DEF RemoveWorkspace
<1>2. PICK q \in Roots : w.path = IF l \in {Current, Parent}
                                  THEN Directory(q) ELSE Append(Directory(q), l)
  BY DEF MadeInv, InsideRoot
<1> DEFINE e == Directory(q)
<1>3. /\ Identifier[i] \in Seq(Character) /\ Identifier[w.issue] \in Seq(Character)
      /\ d \in Seq(Plain) /\ e \in Seq(Plain) /\ l \in Key \ {<<>>}
  BY CleanupAssumption, WorkspacePathCases DEF MadeInv
<1>4. IF k \in {<<>>, Current, Parent} THEN PathOf(i) = d
      ELSE k \in Plain /\ PathOf(i) = Append(d, k)
  BY <1>1, <1>3, ContainedCases DEF PathOf
<1>5. CASE PathOf(i) = d
  BY <1>1, <1>3, <1>5, PrefixOfSelf DEF MayTake, HoldsRoot
<1>6. CASE w.path = e
  BY <1>1, <1>3, <1>6, PrefixOfSelf DEF MayTake, HoldsRoot
<1>7. CASE k \in Plain /\ PathOf(i) = Append(d, k) /\ l \in Plain /\ w.path = Append(e, l)
  <2>1. CASE IsPrefix(PathOf(i), e)
    <3>1. IsPrefix(e, w.path)
      BY <1>3, <1>7 DEF IsPrefix
    <3> QED
      BY <2>1, <3>1 DEF MayTake, HoldsRoot
  <2>2. CASE ~IsPrefix(PathOf(i), e)
    <3>1. k = l
      BY <1>1, <1>3, <1>7, <2>2, PrefixOfAppend
    <3> QED
      BY <3>1 DEF MayTake, SameName
  <2> QED
    BY <2>1, <2>2
<1>8. w.path = e \/ (l \in Plain /\ w.path = Append(e, l))
  BY <1>2, <1>3 DEF Plain
<1> QED
  BY <1>4, <1>5, <1>6, <1>7, <1>8

(* Whichever clean-up it is, that of a run or that at startup: a removal    *)
(* takes workspaces of the issue it is for, of issues whose name is the     *)
(* same once sanitized, and what is in a root at or inside the issue's path *)
(* (workspace.rs:124-147); for any roots, and any identifiers.              *)
RemovesNamed ==
    [][\A i \in Issue : CleanUpRun(i) \/ CleanUpNext(i) =>
        \A w \in made \ made' : MayTake(i, w)]_cleanupVars

LEMMA RemovalStep ==
    ASSUME CleanupInv, MadeInv, NEW i \in Issue, CleanUpRun(i) \/ CleanUpNext(i),
           NEW w \in made \ made'
    PROVE  MayTake(i, w)
<1>1. RemoveWorkspace(i) /\ root \in Roots
  BY DEF CleanUpRun, CleanUpNext, CleanupInv, DiskTypes
<1> QED
  BY <1>1, RemovalIsNamed

THEOREM RemovalTakesNamed == CleanupSpec => RemovesNamed
<1>1. ASSUME CleanupInv, MadeInv, [CleanupNext]_cleanupVars
      PROVE  [\A i \in Issue : CleanUpRun(i) \/ CleanUpNext(i) =>
                \A w \in made \ made' : MayTake(i, w)]_cleanupVars
  BY <1>1, RemovalStep
<1> QED
  BY <1>1, CleanupInvariant, MadeInvariant, PTL DEF CleanupSpec, RemovesNamed

(* Names and roots that keep apart: no name is empty or dots, no two are    *)
(* the same once sanitized, and no root lies inside another.                *)
NamesApart ==
    /\ \A i \in Issue : Sanitize(Identifier[i]) \notin {<<>>, Current, Parent}
    /\ \A i, j \in Issue : i # j => Sanitize(Identifier[i]) # Sanitize(Identifier[j])
    /\ \A r, q \in Roots : IsPrefix(Directory(r), Directory(q)) => Directory(r) = Directory(q)

(* With such names and roots a removal takes the workspaces of the issue it *)
(* is for and no other's.                                                   *)
RemovesOwn ==
    [][\A i \in Issue : CleanUpRun(i) \/ CleanUpNext(i) =>
        \A w \in made \ made' : w.issue = i]_cleanupVars

(* A path that begins with another's child begins with it and is longer.    *)
LEMMA PrefixOfChild ==
    ASSUME NEW s \in Seq(Plain), NEW c \in Plain, NEW t \in Seq(Plain),
           IsPrefix(Append(s, c), t)
    PROVE  IsPrefix(s, t) /\ Len(s) < Len(t) /\ t[Len(s) + 1] = c
<1>1. /\ Append(s, c) \in Seq(Plain) /\ Len(Append(s, c)) = Len(s) + 1
      /\ \A k \in 1 .. Len(s) : Append(s, c)[k] = s[k]
      /\ Append(s, c)[Len(s) + 1] = c
  OBVIOUS
<1>2. /\ Len(s) + 1 <= Len(t)
      /\ \A k \in 1 .. Len(s) + 1 : t[k] = Append(s, c)[k]
  BY <1>1 DEF IsPrefix
<1> QED
  BY <1>1, <1>2 DEF IsPrefix

LEMMA ApartIsOwn ==
    ASSUME NamesApart, root \in Roots, NEW i \in Issue, NEW w,
           w.issue \in Issue, MayTake(i, w)
    PROVE  w.issue = i
<1>1. CASE SameName(i, w.issue)
  BY <1>1 DEF NamesApart, SameName
<1>2. CASE HoldsRoot(i, w.path)
  <2> DEFINE k == Sanitize(Identifier[i])
             d == Directory(root)
  <2>1. PICK q \in Roots : IsPrefix(PathOf(i), Directory(q))
    BY <1>2 DEF HoldsRoot
  <2> DEFINE e == Directory(q)
  <2>2. /\ d \in Seq(Plain) /\ e \in Seq(Plain) /\ k \in Plain
        /\ PathOf(i) = Entered(d, k) /\ (IsPrefix(d, e) => d = e)
    BY CleanupAssumption, WorkspacePathCases DEF NamesApart, Plain, PathOf
  <2> HIDE DEF k, d, e
  <2>3. IsPrefix(Append(d, k), e)
    BY <2>1, <2>2, EnteredFacts DEF e, Plain
  <2>4. IsPrefix(d, e) /\ Len(d) < Len(e)
    BY <2>2, <2>3, PrefixOfChild
  <2> QED
    BY <2>2, <2>4
<1> QED
  BY <1>1, <1>2 DEF MayTake

THEOREM ApartTakesOwn == NamesApart => (CleanupSpec => RemovesOwn)
<1> SUFFICES ASSUME NamesApart PROVE CleanupSpec => RemovesOwn
  OBVIOUS
<1>1. ASSUME CleanupInv, MadeInv, [CleanupNext]_cleanupVars
      PROVE  [\A i \in Issue : CleanUpRun(i) \/ CleanUpNext(i) =>
                \A w \in made \ made' : w.issue = i]_cleanupVars
  <2> SUFFICES ASSUME NEW i \in Issue, CleanUpRun(i) \/ CleanUpNext(i), NEW w \in made \ made'
               PROVE  w.issue = i
    OBVIOUS
  <2>1. MayTake(i, w) /\ w.issue \in Issue /\ root \in Roots
    BY <1>1, RemovalStep DEF MadeInv, CleanupInv, DiskTypes
  <2> QED
    BY <2>1, ApartIsOwn
<1> QED
  BY <1>1, CleanupInvariant, MadeInvariant, PTL DEF CleanupSpec, RemovesOwn

-----------------------------------------------------------------------------
(* What the clean-up at startup takes.                                      *)

(* From the start to the end of the clean-up the result is that of the      *)
(* query for terminal issues, and its issues are those to be cleaned up.    *)
StartupInv ==
    /\ phase \in {"query", "clean"} =>
         /\ wanted = Terminal /\ call \in {"paging", "listed", "failed"}
         /\ call = "failed" => issues = {}
    /\ phase = "clean" => call # "paging" /\ todo \subseteq Ids(issues)

LEMMA StartupStep == ASSUME CleanupInv, StartupInv, [CleanupNext]_cleanupVars PROVE StartupInv'
<1> USE DEF StartupInv
<1>1. CASE People
  BY <1>1 DEF People, Move, diskVars, Ids
<1>2. CASE Query
  <2>1. UNCHANGED diskVars /\ phase \in {"query", "up"} /\ (phase = "query" => Page \/ PageFails)
    BY <1>2 DEF Query
  <2>2. CASE phase = "up"
    BY <2>1, <2>2 DEF diskVars
  <2>3. CASE phase = "query" /\ Page
    BY <2>1, <2>3 DEF diskVars, Page
  <2>4. CASE phase = "query" /\ PageFails
    BY <2>1, <2>4 DEF diskVars, PageFails
  <2> QED
    BY <2>1, <2>2, <2>3, <2>4
<1>3. CASE Listed
  BY <1>3 DEF Listed, trackerVars
<1>4. CASE Started
  BY <1>4 DEF Started, trackerVars
<1>5. CASE Stop
  BY <1>5 DEF Stop
<1>6. ASSUME NEW r \in Roots, Start(r) \/ Reload(r)
      PROVE  StartupInv'
  BY <1>6 DEF Start, Reload, Fetch
<1>7. ASSUME NEW i \in Issue, Ensure(i) \/ CleanUpRun(i)
      PROVE  StartupInv'
  BY <1>7 DEF Ensure, CleanUpRun
<1>8. ASSUME NEW i \in Issue, CleanUpNext(i)
      PROVE  StartupInv'
  <2>1. UNCHANGED <<trackerVars, phase>> /\ todo' \subseteq todo /\ phase = "clean"
    BY <1>8 DEF CleanUpNext
  <2> QED
    BY <2>1 DEF trackerVars, Ids
<1>9. CASE UNCHANGED cleanupVars
  BY <1>9 DEF cleanupVars, trackerVars, diskVars, Ids
<1> QED
  BY <1>1, <1>2, <1>3, <1>4, <1>5, <1>6, <1>7, <1>8, <1>9 DEF CleanupNext

LEMMA StartupInvariant == CleanupSpec => []StartupInv
<1>1. CleanupInit => StartupInv
  BY DEF CleanupInit, StartupInv
<1> QED
  BY <1>1, StartupStep, CleanupInvariant, PTL DEF CleanupSpec

(* The clean-up at startup takes nothing but what an issue that this        *)
(* startup's query has read in a terminal state gives away, for any names   *)
(* and roots.                                                               *)
THEOREM StartupTakesEnded == CleanupSpec => OnlyEndedRemoved
<1>1. ASSUME CleanupInv, MadeInv, StartupInv, [CleanupNext]_cleanupVars
      PROVE  [phase = "clean" => \A w \in made \ made' :
                \E x \in issues : x.state \in Terminal /\ MayTake(x.id, w)]_cleanupVars
  <2> SUFFICES ASSUME phase = "clean", NEW w \in made \ made'
               PROVE  \E x \in issues : x.state \in Terminal /\ MayTake(x.id, w)
    OBVIOUS
  <2>1. PICK i \in Issue : CleanUpNext(i)
    BY <1>1, DiskSteps DEF Ensure, CleanUpRun
  <2>2. MayTake(i, w) /\ i \in Ids(issues)
    BY <1>1, <2>1, RemovalStep DEF StartupInv, CleanUpNext
  <2>3. PICK x \in issues : x.id = i
    BY <2>2 DEF Ids
  <2>4. call = "listed" /\ wanted = Terminal
    BY <1>1, <2>3 DEF StartupInv
  <2>5. x.state \in Terminal
    BY <1>1, <2>3, <2>4 DEF CleanupInv, TrackerInv, SeenOnce
  <2> QED
    BY <2>2, <2>3, <2>5
<1> QED
  BY <1>1, CleanupInvariant, MadeInvariant, StartupInvariant, PTL
     DEF CleanupSpec, OnlyEndedRemoved
=============================================================================
