------------------------- MODULE RunAccountingProofs -------------------------
(***************************************************************************)
(* Proofs about the accounting of runs, for any number of issues, tokens   *)
(* and runs, any kinds of reports and any width of the arithmetic: what    *)
(* the totals show, that the time shown does not fall, and how long a      *)
(* retry waits. The totals are compared with sums over sets, so that facts *)
(* about sums come first.                                                  *)
(***************************************************************************)
EXTENDS RunAccounting, FiniteSetTheorems, TLAPS

-----------------------------------------------------------------------------
(* Sums over finite sets. *)

(* A family that holds every set whose proper subsets it holds, holds all.  *)
LEMMA SetInduction ==
    ASSUME NEW S, IsFiniteSet(S), NEW F \in SUBSET SUBSET S,
           \A T \in SUBSET S : (\A U \in SUBSET T : U # T => U \in F) => T \in F
    PROVE  F = SUBSET S
<1> DEFINE Smaller == StrictSubsetOrdering(S)
           Others == (SUBSET S) \ F
<1> SUFFICES ASSUME Others # {} PROVE FALSE
  OBVIOUS
<1>1. IsWellFoundedOn(Smaller, FiniteSubsetsOf(S))
  BY FS_StrictSubsetOrderingWellFounded
<1>2. Others \subseteq FiniteSubsetsOf(S)
  BY FS_Subset DEF FiniteSubsetsOf
<1>3. \E T \in Others : \A U \in Others : ~ (<<U, T>> \in Smaller)
  <2> HIDE DEF Smaller, Others
  <2> QED
    BY <1>1, <1>2, WFMin
<1>4. PICK T \in Others : \A U \in Others : ~ (<<U, T>> \in Smaller)
  BY <1>3
<1>5. \A U \in SUBSET T : U # T => <<U, T>> \in Smaller
  BY DEF StrictSubsetOrdering
<1>6. ASSUME NEW U \in SUBSET T, U # T PROVE U \in F
  <2>1. <<U, T>> \in Smaller /\ U \in SUBSET S
    BY <1>5, <1>6
  <2> HIDE DEF Smaller
  <2> QED
    BY <1>4, <2>1
<1> QED
  BY <1>6

(* The recursion behind a sum: one element after the other is taken out.    *)
First(T) == CHOOSE x \in T : TRUE

Adds(sum, fun, S) ==
    \A T \in SUBSET S :
        sum[T] = IF T = {} THEN 0 ELSE fun[First(T)] + sum[T \ {First(T)}]

LEMMA FirstIn == \A T : T # {} => First(T) \in T
  BY DEF First

LEMMA SumIsUnique ==
    ASSUME NEW S, IsFiniteSet(S), NEW fun, NEW f, NEW g, Adds(f, fun, S), Adds(g, fun, S)
    PROVE  f[S] = g[S]
<1> DEFINE F == {T \in SUBSET S : f[T] = g[T]}
<1>1. ASSUME NEW T \in SUBSET S, \A U \in SUBSET T : U # T => U \in F
      PROVE  T \in F
  <2>1. CASE T = {}
    BY <2>1 DEF Adds
  <2>2. CASE T # {}
    <3>1. T \ {First(T)} \in F
      BY <1>1, <2>2, FirstIn
    <3> QED
      BY <2>2, <3>1 DEF Adds
  <2> QED
    BY <2>1, <2>2
<1>2. F \in SUBSET SUBSET S
  OBVIOUS
<1>3. F = SUBSET S
  <2> HIDE DEF F
  <2> QED
    BY <1>1, <1>2, SetInduction
<1> QED
  BY <1>3

LEMMA SumExists ==
    ASSUME NEW D, IsFiniteSet(D), NEW fun \in [D -> Int]
    PROVE  \E sum \in [SUBSET D -> Int] : Adds(sum, fun, D)
<1> DEFINE Sums(T) == {sum \in [SUBSET T -> Int] : Adds(sum, fun, T)}
           F == {T \in SUBSET D : Sums(T) # {}}
<1>1. ASSUME NEW T \in SUBSET D, \A U \in SUBSET T : U # T => U \in F
      PROVE  T \in F
  <2> DEFINE part(U) == CHOOSE sum : sum \in Sums(U)
             low == [U \in SUBSET T |-> IF U = T THEN 0 ELSE part(U)[U]]
             sum == [U \in SUBSET T |->
                        IF U # T THEN low[U]
                        ELSE IF T = {} THEN 0 ELSE fun[First(T)] + low[T \ {First(T)}]]
  <2>1. ASSUME NEW U \in SUBSET T, U # T
        PROVE  part(U) \in [SUBSET U -> Int] /\ Adds(part(U), fun, U)
    BY <1>1, <2>1
  <2>2. low \in [SUBSET T -> Int]
    <3>1. \A U \in SUBSET T : U # T => part(U)[U] \in Int
      BY <2>1
    <3> HIDE DEF part
    <3> QED
      BY <3>1
  <2>3. sum \in [SUBSET T -> Int]
    <3>1. T # {} => fun[First(T)] \in Int /\ T \ {First(T)} \in SUBSET T
      BY FirstIn
    <3> HIDE DEF low
    <3> QED
      BY <2>2, <3>1
  <2>4. ASSUME NEW U \in SUBSET T
        PROVE  sum[U] = IF U = {} THEN 0 ELSE fun[First(U)] + sum[U \ {First(U)}]
    <3> DEFINE V == U \ {First(U)}
    <3>1. CASE U = T
      BY <3>1, FirstIn
    <3>2. CASE U # T /\ U = {}
      <4>1. Adds(part(U), fun, U)
        BY <2>1, <3>2
      <4> HIDE DEF part
      <4>2. part(U)[U] = 0
        BY <3>2, <4>1 DEF Adds
      <4> QED
        BY <3>2, <4>2
    <3>3. CASE U # T /\ U # {}
      <4>1. V \in SUBSET U /\ V # U /\ V # T
        BY <3>3, FirstIn
      <4>2. Adds(part(U), fun, U) /\ Adds(part(V), fun, V) /\ Adds(part(U), fun, V)
        BY <2>1, <3>3, <4>1 DEF Adds
      <4>3. IsFiniteSet(V)
        BY <4>1, FS_Subset
      <4> HIDE DEF part, V
      <4>4. part(U)[V] = part(V)[V]
        BY <4>2, <4>3, SumIsUnique
      <4>5. part(U)[U] = fun[First(U)] + part(U)[V]
        BY <3>3, <4>2 DEF Adds, V
      <4>6. sum[U] = part(U)[U] /\ sum[V] = part(V)[V]
        BY <3>3, <4>1
      <4> QED
        BY <3>3, <4>4, <4>5, <4>6 DEF V
    <3> QED
      BY <3>1, <3>2, <3>3
  <2>5. Adds(sum, fun, T)
    <3> HIDE DEF sum
    <3> QED
      BY <2>4 DEF Adds
  <2>6. sum \in Sums(T)
    BY <2>3, <2>5
  <2> QED
    BY <2>6
<1>2. F \in SUBSET SUBSET D
  OBVIOUS
<1>3. F = SUBSET D
  <2> HIDE DEF F
  <2> QED
    BY <1>1, <1>2, SetInduction
<1>4. D \in F
  BY <1>3
<1> QED
  BY <1>4

(* The sum over a set is what any such recursion gives.                     *)
LEMMA SumIs ==
    ASSUME NEW D, IsFiniteSet(D), NEW fun \in [D -> Int], NEW S \in SUBSET D,
           NEW sum, Adds(sum, fun, D)
    PROVE  SumFunctionOnSet(fun, S) = sum[S]
<1> DEFINE Folds(f) == f = [T \in SUBSET S |->
                               IF T = {} THEN 0
                               ELSE LET x == CHOOSE x \in T : TRUE IN fun[x] + f[T \ {x}]]
           iter == CHOOSE f : Folds(f)
           part == [T \in SUBSET S |-> sum[T]]
<1>1. Adds(sum, fun, S) /\ IsFiniteSet(S)
  BY FS_Subset DEF Adds
<1>2. Folds(part)
  BY <1>1, FirstIn DEF Adds, First
<1>3. Folds(iter)
  BY <1>2
<1>4. Adds(iter, fun, S)
  <2> HIDE DEF iter
  <2> QED
    BY <1>3 DEF Adds, First
<1>5. SumFunctionOnSet(fun, S) = iter[S]
  BY DEF SumFunctionOnSet, FoldFunctionOnSet, MapThenFoldSet
<1> HIDE DEF iter
<1> QED
  BY <1>1, <1>4, <1>5, SumIsUnique

(* Sums of integers are integers; that of nothing is zero, and any element  *)
(* may be taken out first.                                                  *)
LEMMA SumFacts ==
    ASSUME NEW D, IsFiniteSet(D), NEW fun \in [D -> Int]
    PROVE  /\ SumFunctionOnSet(fun, {}) = 0
           /\ \A S \in SUBSET D : SumFunctionOnSet(fun, S) \in Int
           /\ \A S \in SUBSET D : \A x \in S :
                SumFunctionOnSet(fun, S) = fun[x] + SumFunctionOnSet(fun, S \ {x})
<1>1. PICK sum \in [SUBSET D -> Int] : Adds(sum, fun, D)
  BY SumExists
<1>2. \A S \in SUBSET D : SumFunctionOnSet(fun, S) = sum[S]
  BY <1>1, SumIs
<1>3. sum[{}] = 0
  BY <1>1 DEF Adds
<1> DEFINE F == {S \in SUBSET D : \A x \in S : sum[S] = fun[x] + sum[S \ {x}]}
<1>4. ASSUME NEW S \in SUBSET D, \A U \in SUBSET S : U # S => U \in F
      PROVE  S \in F
  <2> SUFFICES ASSUME NEW x \in S PROVE sum[S] = fun[x] + sum[S \ {x}]
    OBVIOUS
  <2> DEFINE c == First(S)
             V == S \ {c}
             W == S \ {x}
  <2>1. c \in S /\ sum[S] = fun[c] + sum[V]
    BY <1>1, FirstIn DEF Adds
  <2>2. CASE x = c
    BY <2>1, <2>2
  <2>3. CASE x # c
    <3>1. V \in F /\ x \in V /\ W \in F /\ c \in W
      BY <1>4, <2>1, <2>3
    <3>2. sum[V] = fun[x] + sum[V \ {x}] /\ sum[W] = fun[c] + sum[W \ {c}]
      BY <3>1
    <3>3. V \ {x} = W \ {c} /\ V \ {x} \in SUBSET D
      OBVIOUS
    <3>4. /\ fun[x] \in Int /\ fun[c] \in Int
          /\ sum[V \ {x}] \in Int /\ sum[S] \in Int /\ sum[W] \in Int
      BY <1>1, <2>1, <3>3
    <3>5. sum[S] = fun[c] + (fun[x] + sum[V \ {x}]) /\ sum[W] = fun[c] + sum[V \ {x}]
      BY <2>1, <3>2, <3>3
    <3>6. sum[S] = fun[x] + sum[W]
      <4> HIDE DEF V, W, c
      <4> QED
        BY <3>4, <3>5
    <3> QED
      BY <3>6
  <2> QED
    BY <2>2, <2>3
<1>5. F \in SUBSET SUBSET D
  OBVIOUS
<1>6. F = SUBSET D
  <2> HIDE DEF F
  <2> QED
    BY <1>4, <1>5, SetInduction
<1>7. ASSUME NEW S \in SUBSET D, NEW x \in S
      PROVE  sum[S] = fun[x] + sum[S \ {x}]
  BY <1>6
<1> QED
  BY <1>1, <1>2, <1>3, <1>7

(* A sum does not fall where no part of it does.                            *)
LEMMA SumMonotone ==
    ASSUME NEW D, IsFiniteSet(D), NEW f \in [D -> Int], NEW g \in [D -> Int],
           NEW S \in SUBSET D, \A x \in S : f[x] <= g[x]
    PROVE  SumFunctionOnSet(f, S) <= SumFunctionOnSet(g, S)
<1> DEFINE Sf(T) == SumFunctionOnSet(f, T)
           Sg(T) == SumFunctionOnSet(g, T)
           F == {T \in SUBSET S : Sf(T) <= Sg(T)}
<1>1. /\ Sf({}) = 0 /\ Sg({}) = 0
      /\ \A T \in SUBSET D : Sf(T) \in Int /\ Sg(T) \in Int
      /\ \A T \in SUBSET D : \A x \in T :
            Sf(T) = f[x] + Sf(T \ {x}) /\ Sg(T) = g[x] + Sg(T \ {x})
  BY SumFacts
<1> HIDE DEF Sf, Sg
<1>2. ASSUME NEW T \in SUBSET S, \A U \in SUBSET T : U # T => U \in F
      PROVE  T \in F
  <2>1. CASE T = {}
    BY <1>1, <2>1
  <2>2. ASSUME NEW x \in T PROVE T \in F
    <3>1. T \ {x} \in F
      BY <1>2
    <3>2. Sf(T) = f[x] + Sf(T \ {x}) /\ Sg(T) = g[x] + Sg(T \ {x})
      BY <1>1
    <3>3. Sf(T \ {x}) \in Int /\ Sg(T \ {x}) \in Int
      BY <1>1
    <3> QED
      BY <3>1, <3>2, <3>3
  <2> QED
    BY <2>1, <2>2
<1>3. F \in SUBSET SUBSET S /\ IsFiniteSet(S)
  BY FS_Subset
<1>4. F = SUBSET S
  <2> HIDE DEF F
  <2> QED
    BY <1>2, <1>3, SetInduction
<1> QED
  BY <1>4 DEF Sf, Sg


(* A sum depends on its parts only, and a part that changes changes it by   *)
(* as much.                                                                 *)
LEMMA SumUpdate ==
    ASSUME NEW D, IsFiniteSet(D), NEW f \in [D -> Int], NEW g \in [D -> Int],
           NEW S \in SUBSET D
    PROVE  /\ (\A x \in S : f[x] = g[x]) => SumFunctionOnSet(f, S) = SumFunctionOnSet(g, S)
           /\ \A i \in S : (\A x \in S \ {i} : f[x] = g[x]) =>
                SumFunctionOnSet(g, S) = SumFunctionOnSet(f, S) + g[i] - f[i]
           /\ \A i \in D \ S : (\A x \in S : f[x] = g[x]) =>
                SumFunctionOnSet(g, S \union {i}) = SumFunctionOnSet(f, S) + g[i]
<1>1. ASSUME NEW T \in SUBSET S, \A x \in T : f[x] = g[x]
      PROVE  SumFunctionOnSet(f, T) = SumFunctionOnSet(g, T)
  <2>1. \A x \in T : f[x] \in Int /\ g[x] \in Int /\ f[x] <= g[x] /\ g[x] <= f[x]
    BY <1>1
  <2>2. /\ SumFunctionOnSet(f, T) <= SumFunctionOnSet(g, T)
        /\ SumFunctionOnSet(g, T) <= SumFunctionOnSet(f, T)
    BY <2>1, SumMonotone
  <2>3. SumFunctionOnSet(f, T) \in Int /\ SumFunctionOnSet(g, T) \in Int
    BY SumFacts
  <2> QED
    BY <2>2, <2>3
<1>2. ASSUME NEW i \in S, \A x \in S \ {i} : f[x] = g[x]
      PROVE  SumFunctionOnSet(g, S) = SumFunctionOnSet(f, S) + g[i] - f[i]
  <2>1. SumFunctionOnSet(f, S \ {i}) = SumFunctionOnSet(g, S \ {i})
    BY <1>1, <1>2
  <2>2. /\ SumFunctionOnSet(f, S) = f[i] + SumFunctionOnSet(f, S \ {i})
        /\ SumFunctionOnSet(g, S) = g[i] + SumFunctionOnSet(g, S \ {i})
        /\ SumFunctionOnSet(f, S \ {i}) \in Int /\ f[i] \in Int /\ g[i] \in Int
    BY SumFacts
  <2> QED
    BY <2>1, <2>2
<1>3. ASSUME NEW i \in D \ S, \A x \in S : f[x] = g[x]
      PROVE  SumFunctionOnSet(g, S \union {i}) = SumFunctionOnSet(f, S) + g[i]
  <2> DEFINE T == S \union {i}
  <2>1. T \in SUBSET D /\ i \in T /\ T \ {i} = S
    OBVIOUS
  <2> HIDE DEF T
  <2>2. SumFunctionOnSet(g, T) = g[i] + SumFunctionOnSet(g, T \ {i})
    BY <2>1, SumFacts
  <2>3. SumFunctionOnSet(f, S) = SumFunctionOnSet(g, S)
    <3>1. S \in SUBSET S
      OBVIOUS
    <3> QED
      BY <1>1, <1>3, <3>1, Zenon
  <2>4. SumFunctionOnSet(f, S) \in Int /\ g[i] \in Int
    BY SumFacts
  <2>5. SumFunctionOnSet(g, T) = g[i] + SumFunctionOnSet(g, S)
    BY <2>1, <2>2, Zenon
  <2>6. SumFunctionOnSet(g, T) = SumFunctionOnSet(f, S) + g[i]
    BY <2>3, <2>4, <2>5
  <2> QED
    BY <2>6 DEF T
<1> QED
  BY <1>1, <1>2, <1>3

-----------------------------------------------------------------------------
(* Powers of two, by the subsets they count. *)
LEMMA PowersOfTwo ==
    /\ 2 ^ 0 = 1
    /\ \A n \in Nat : 2 ^ n \in Nat \ {0} /\ 2 ^ (n + 1) = 2 * 2 ^ n
<1>1. \A n \in Nat : /\ IsFiniteSet(1 .. n) /\ Cardinality(1 .. n) = n
                     /\ IsFiniteSet(SUBSET (1 .. n)) /\ Cardinality(SUBSET (1 .. n)) = 2 ^ n
  <2>1. \A n \in Nat : IsFiniteSet(1 .. n) /\ Cardinality(1 .. n) = n
    BY FS_Interval
  <2> QED
    BY <2>1, FS_SUBSET
<1>2. 2 ^ 0 = 1
  <2>1. SUBSET (1 .. 0) = {{}}
    OBVIOUS
  <2>2. Cardinality({{}}) = 1
    BY FS_Singleton
  <2> QED
    BY <1>1, <2>1, <2>2
<1>3. ASSUME NEW n \in Nat
      PROVE  2 ^ n \in Nat \ {0} /\ 2 ^ (n + 1) = 2 * 2 ^ n
  <2> DEFINE Low == SUBSET (1 .. n)
             High == {T \union {n + 1} : T \in Low}
             lift == [T \in Low |-> T \union {n + 1}]
  <2>1. IsFiniteSet(Low) /\ Cardinality(Low) = 2 ^ n /\ Cardinality(Low) \in Nat /\ Low # {}
    BY <1>1, FS_CardinalityType
  <2>2. lift \in Bijection(Low, High)
    <3>1. \A T \in Low : n + 1 \notin T
      OBVIOUS
    <3>2. \A T, U \in Low : lift[T] = lift[U] => T = U
      BY <3>1
    <3>3. lift \in [Low -> High]
      OBVIOUS
    <3>4. \A U \in High : \E T \in Low : lift[T] = U
      OBVIOUS
    <3>5. DOMAIN lift = Low
      OBVIOUS
    <3> HIDE DEF Low, High, lift
    <3> QED
      BY <3>2, <3>3, <3>4, <3>5 DEF Bijection, Injection, Surjection, IsInjective
  <2>3. IsFiniteSet(High) /\ Cardinality(High) = 2 ^ n
    BY <2>1, <2>2, FS_Bijection DEF ExistsBijection
  <2>4. SUBSET (1 .. n + 1) = Low \union High /\ Low \intersect High = {}
    <3>1. 1 .. n + 1 = (1 .. n) \union {n + 1} /\ n + 1 \notin 1 .. n
      OBVIOUS
    <3>2. ASSUME NEW T \in SUBSET (1 .. n + 1), n + 1 \in T PROVE T \in High
      <4>1. T \ {n + 1} \in Low /\ T = (T \ {n + 1}) \union {n + 1}
        BY <3>1, <3>2
      <4> QED
        BY <4>1
    <3>3. ASSUME NEW T \in SUBSET (1 .. n + 1), n + 1 \notin T PROVE T \in Low
      BY <3>1, <3>3
    <3>4. Low \subseteq SUBSET (1 .. n + 1) /\ High \subseteq SUBSET (1 .. n + 1)
      BY <3>1
    <3>5. Low \intersect High = {}
      BY <3>1
    <3> HIDE DEF Low, High
    <3> QED
      BY <3>2, <3>3, <3>4, <3>5
  <2>5. Cardinality({}) = 0
    BY FS_EmptySet
  <2>6. 2 ^ (n + 1) = 2 ^ n + 2 ^ n - 0
    <3>1. Cardinality(SUBSET (1 .. n + 1)) = 2 ^ (n + 1)
      <4>1. n + 1 \in Nat
        OBVIOUS
      <4> QED
        BY <1>1, <4>1, Zenon
    <3> HIDE DEF Low, High
    <3>2. Cardinality(Low \union High) =
            Cardinality(Low) + Cardinality(High) - Cardinality(Low \intersect High)
      BY <2>1, <2>3, FS_Union
    <3> QED
      BY <2>1, <2>3, <2>4, <2>5, <3>1, <3>2
  <2>7. 2 ^ n # 0
    <3> HIDE DEF Low
    <3> QED
      BY <2>1, FS_EmptySet
  <2> QED
    BY <2>1, <2>6, <2>7
<1> QED
  BY <1>2, <1>3
-----------------------------------------------------------------------------
(* The invariant of the accounts. *)

AccountTypes ==
    /\ running \subseteq Issue /\ now \in 0 .. MaxClock
    /\ started \in [Issue -> 0 .. MaxClock]
    /\ last \in [Issue -> [Field -> Nat]] /\ peak \in [Issue -> [Field -> Nat]]
    /\ thread \in [Issue -> [Field -> Nat]] /\ turn \in [Issue -> [Field -> Nat]]
    /\ totals \in [Field -> Nat] /\ ended \in [Field -> Nat]
    /\ whole \in BOOLEAN /\ seconds \in Nat /\ runs \in 0 .. MaxRuns

(* A turn uses no more than its thread, whose total is a sum.               *)
UsedInv ==
    \A i \in Issue :
        /\ thread[i]["input"] <= MaxTokens /\ thread[i]["output"] <= MaxTokens
        /\ thread[i]["total"] = thread[i]["input"] + thread[i]["output"]
        /\ \A f \in Field : turn[i][f] <= thread[i][f]

(* No report exceeds the highest one, nor what the agent can have used of   *)
(* two kinds of tokens; a run that is over has no highest report any more.  *)
PeakInv ==
    /\ \A i \in Issue : last[i]["total"] <= 2 * MaxTokens
    /\ \A i \in running, f \in Field : last[i][f] <= peak[i][f]
    /\ \A i \in Issue \ running : peak[i] = Zero

(* As long as reports are whole, the latest is the highest.                 *)
WholeInv ==
    whole => \A i \in running :
                last[i] = peak[i] /\ \A f \in Field : last[i][f] <= thread[i][f]

SecondsInv == seconds <= MaxClock * runs

AccountInv ==
    /\ AccountTypes /\ UsedInv /\ PeakInv /\ WholeInv /\ SecondsInv
    /\ NeverUndercounts /\ CountedOnce

RetryTypes ==
    /\ retry \in [Issue -> Nat] /\ attempt \in [Issue -> Nat] /\ delay \in [Issue -> Nat]
    /\ setting \in Settings

DelayInv == RetryTypes /\ DelayExact

USE AccountingAssumption

-----------------------------------------------------------------------------
(* What is reported, step by step. *)

LEMMA ReportedType == ASSUME AccountTypes, NEW f \in Field PROVE Reported(f) \in Int
<1>1. [i \in Issue |-> peak[i][f]] \in [Issue -> Int]
  BY DEF AccountTypes
<1>2. SumFunctionOnSet([i \in Issue |-> peak[i][f]], running) \in Int
  BY <1>1, SumFacts DEF AccountTypes
<1> QED
  BY <1>2 DEF AccountTypes, Reported

(* A run that begins has reported nothing.                                  *)
LEMMA ReportedAtStart ==
    ASSUME AccountTypes, AccountTypes', NEW f \in Field, NEW i \in Issue \ running,
           running' = running \union {i}, UNCHANGED <<ended, peak>>, peak[i] = Zero
    PROVE  Reported(f)' = Reported(f)
<1> DEFINE g == [j \in Issue |-> peak[j][f]]
<1>1. g \in [Issue -> Int] /\ running \in SUBSET Issue /\ i \in Issue \ running /\ g[i] = 0
  BY DEF AccountTypes, Zero
<1>2. SumFunctionOnSet(g, running) \in Int
  BY <1>1, SumFacts
<1> HIDE DEF g
<1>3. SumFunctionOnSet(g, running \union {i}) = SumFunctionOnSet(g, running) + g[i]
  BY <1>1, SumUpdate
<1>4. SumFunctionOnSet(g, running') = SumFunctionOnSet(g, running)
  BY <1>1, <1>2, <1>3
<1> QED
  BY <1>4 DEF Reported, g

(* What a run has reported moves to what has ended.                         *)
LEMMA ReportedAtEnd ==
    ASSUME AccountTypes, AccountTypes', NEW f \in Field, NEW i \in running,
           running' = running \ {i}, ended' = Plus(ended, peak[i]),
           peak' = [peak EXCEPT ![i] = Zero]
    PROVE  Reported(f)' = Reported(f)
<1> DEFINE g == [j \in Issue |-> peak[j][f]]
           h == [j \in Issue |-> peak'[j][f]]
<1>1. /\ g \in [Issue -> Int] /\ h \in [Issue -> Int] /\ running \in SUBSET Issue
      /\ running' \in SUBSET Issue /\ \A j \in running' : g[j] = h[j]
      /\ ended[f] \in Int /\ ended'[f] = ended[f] + g[i]
  BY DEF AccountTypes, Plus
<1> HIDE DEF g, h
<1>2. /\ SumFunctionOnSet(g, running) = g[i] + SumFunctionOnSet(g, running \ {i})
      /\ SumFunctionOnSet(g, running \ {i}) \in Int /\ g[i] \in Int
  BY <1>1, SumFacts
<1>3. SumFunctionOnSet(g, running') = SumFunctionOnSet(h, running')
  BY <1>1, SumUpdate
<1>4. ended'[f] + SumFunctionOnSet(h, running') = ended[f] + SumFunctionOnSet(g, running)
  BY <1>1, <1>2, <1>3
<1> QED
  BY <1>4 DEF Reported, g, h

(* A report adds what it exceeds the highest one by.                        *)
LEMMA ReportedMore ==
    ASSUME AccountTypes, AccountTypes', NEW f \in Field, NEW i \in running, NEW n,
           UNCHANGED <<running, ended>>, peak' = [peak EXCEPT ![i] = n]
    PROVE  Reported(f)' = Reported(f) + n[f] - peak[i][f]
<1> DEFINE g == [j \in Issue |-> peak[j][f]]
           h == [j \in Issue |-> peak'[j][f]]
<1>1. /\ g \in [Issue -> Int] /\ h \in [Issue -> Int] /\ running \in SUBSET Issue
      /\ \A j \in running \ {i} : g[j] = h[j]
      /\ g[i] = peak[i][f] /\ h[i] = n[f] /\ ended[f] \in Int
  BY DEF AccountTypes
<1>2. SumFunctionOnSet(g, running) \in Int /\ g[i] \in Int /\ h[i] \in Int
  BY <1>1, SumFacts
<1> HIDE DEF g, h
<1>3. SumFunctionOnSet(h, running) = SumFunctionOnSet(g, running) + h[i] - g[i]
  BY <1>1, SumUpdate
<1>4. /\ Reported(f) = ended[f] + SumFunctionOnSet(g, running)
      /\ Reported(f)' = ended[f] + SumFunctionOnSet(h, running)
  BY DEF Reported, g, h
<1> QED
  BY <1>1, <1>2, <1>3, <1>4

(* Where nobody reports, begins or ends, it stays.                          *)
LEMMA ReportedFrame ==
    ASSUME UNCHANGED <<running, ended, peak>>, NEW f PROVE Reported(f)' = Reported(f)
  BY DEF Reported

-----------------------------------------------------------------------------
(* The steps. *)

LEMMA FieldNames == "input" \in Field /\ "output" \in Field /\ "total" \in Field
  BY DEF Field

LEMMA ZeroType == Zero \in [Field -> Nat] /\ \A f \in Field : Zero[f] = 0
  BY DEF Zero

(* Where reports, entries and what has been reported stay, the totals stay  *)
(* right.                                                                   *)
LEMMA TotalsFrame ==
    ASSUME AccountInv, UNCHANGED <<totals, whole>>,
           \A f \in Field : Reported(f)' = Reported(f)
    PROVE  NeverUndercounts' /\ CountedOnce'
  BY DEF AccountInv, NeverUndercounts, CountedOnce

LEMMA DispatchStep == ASSUME AccountInv, NEW i \in Issue, Dispatch(i) PROVE AccountInv'
<1> USE DEF AccountInv
<1>1. /\ i \notin running /\ running' = running \union {i}
      /\ started' = [started EXCEPT ![i] = now] /\ last' = [last EXCEPT ![i] = Zero]
      /\ thread' = [thread EXCEPT ![i] = Zero] /\ turn' = [turn EXCEPT ![i] = Zero]
      /\ UNCHANGED <<seconds, now, runs, totals, ended, peak, whole>>
  BY DEF Dispatch
<1>2. AccountTypes'
  BY <1>1, ZeroType DEF AccountTypes
<1>3. UsedInv'
  BY <1>1, ZeroType, FieldNames DEF AccountTypes, UsedInv
<1>4. PeakInv' /\ WholeInv'
  BY <1>1, ZeroType, FieldNames DEF AccountTypes, PeakInv, WholeInv
<1>5. \A f \in Field : Reported(f)' = Reported(f)
  BY <1>1, <1>2, ReportedAtStart DEF PeakInv
<1> QED
  BY <1>1, <1>2, <1>3, <1>4, <1>5, TotalsFrame DEF SecondsInv

LEMMA UseStep ==
    ASSUME AccountInv, NEW i \in Issue, NEW f \in Field, Use(i, f) PROVE AccountInv'
<1> USE DEF AccountInv
<1>0. f \in {"input", "output"}
  BY DEF Use, Field
<1>1. /\ i \in running /\ thread[i][f] < MaxTokens
      /\ thread' = [thread EXCEPT ![i] = Used(thread[i], f)]
      /\ turn' = [turn EXCEPT ![i] = Used(turn[i], f)]
      /\ UNCHANGED <<running, started, seconds, now, runs, last, totals, ended, peak, whole>>
  BY DEF Use
<1>2. \A c \in [Field -> Nat] :
        /\ Used(c, f) \in [Field -> Nat]
        /\ Used(c, f)[f] = c[f] + 1 /\ Used(c, f)["total"] = c["total"] + 1
        /\ \A g \in Field \ {f, "total"} : Used(c, f)[g] = c[g]
  BY <1>0, FieldNames DEF Used
<1>3. AccountTypes'
  BY <1>1, <1>2 DEF AccountTypes
<1>4. thread[i] \in [Field -> Nat] /\ turn[i] \in [Field -> Nat]
  BY DEF AccountTypes
<1>5. /\ thread'[i] = Used(thread[i], f) /\ turn'[i] = Used(turn[i], f)
      /\ \A j \in Issue \ {i} : thread'[j] = thread[j] /\ turn'[j] = turn[j]
  BY <1>1 DEF AccountTypes
<1>6. UsedInv'
  <2>1. /\ thread'[i]["input"] <= MaxTokens /\ thread'[i]["output"] <= MaxTokens
        /\ thread'[i]["total"] = thread'[i]["input"] + thread'[i]["output"]
    <3> DEFINE c == thread[i]
               d == thread'[i]
    <3>1. /\ c["input"] \in Nat /\ c["output"] \in Nat /\ c["total"] \in Nat
          /\ c["input"] <= MaxTokens /\ c["output"] <= MaxTokens
          /\ c["total"] = c["input"] + c["output"] /\ c[f] < MaxTokens
      BY <1>1, <1>4, FieldNames DEF UsedInv
    <3>2. /\ d[f] = c[f] + 1 /\ d["total"] = c["total"] + 1
          /\ \A g \in Field \ {f, "total"} : d[g] = c[g]
      BY <1>2, <1>4, <1>5
    <3> HIDE DEF c, d
    <3>3. CASE f = "input"
      <4>1. d["output"] = c["output"]
        BY <3>2, <3>3, FieldNames
      <4> QED
        BY <3>1, <3>2, <3>3, <4>1 DEF d
    <3>4. CASE f = "output"
      <4>1. d["input"] = c["input"]
        BY <3>2, <3>4, FieldNames
      <4> QED
        BY <3>1, <3>2, <3>4, <4>1 DEF d
    <3> QED
      BY <1>0, <3>3, <3>4
  <2>2. \A g \in Field : turn'[i][g] <= thread'[i][g]
    BY <1>0, <1>1, <1>2, <1>4, <1>5, FieldNames DEF UsedInv
  <2> QED
    BY <1>5, <2>1, <2>2 DEF UsedInv
<1>7. \A g \in Field : thread[i][g] <= thread'[i][g]
  BY <1>0, <1>1, <1>2, <1>4, <1>5, FieldNames
<1>8. PeakInv' /\ WholeInv'
  BY <1>1, <1>3, <1>5, <1>7 DEF PeakInv, WholeInv, AccountTypes
<1> QED
  BY <1>1, <1>3, <1>6, <1>8, ReportedFrame, TotalsFrame DEF SecondsInv

LEMMA NextTurnStep == ASSUME AccountInv, NEW i \in Issue, NextTurn(i) PROVE AccountInv'
<1> USE DEF AccountInv
<1>1. /\ turn' = [turn EXCEPT ![i] = Zero]
      /\ UNCHANGED <<running, started, seconds, now, runs, last, totals, thread, ended, peak, whole>>
  BY DEF NextTurn
<1>2. AccountTypes' /\ UsedInv' /\ PeakInv' /\ WholeInv'
  BY <1>1, ZeroType DEF AccountTypes, UsedInv, PeakInv, WholeInv
<1> QED
  BY <1>1, <1>2, ReportedFrame, TotalsFrame DEF SecondsInv

(* A count that is read is not more than the agent has used; all of a whole *)
(* report are what it has used.                                             *)
LEMMA ExtractedFacts ==
    ASSUME AccountTypes, UsedInv, NEW i \in Issue, NEW r \in Reports
    PROVE  LET latest == Extracted(r, Counts(i, r)) IN
           /\ latest \in [Field -> Nat]
           /\ \A f \in Field : latest[f] <= thread[i][f]
           /\ IsWhole(r) => \A f \in Field : latest[f] = thread[i][f]
<1>1. Counts(i, r) \in [Field -> Nat] /\ \A f \in Field : Counts(i, r)[f] <= thread[i][f]
  BY DEF AccountTypes, UsedInv, Counts
<1>2. Extracted(r, Counts(i, r)) \in [Field -> Nat]
  BY <1>1 DEF Extracted
<1>3. \A f \in Field : Extracted(r, Counts(i, r))[f] \in {Counts(i, r)[f], 0}
  BY DEF Extracted
<1>4. ASSUME IsWhole(r), NEW f \in Field
      PROVE  Extracted(r, Counts(i, r))[f] = thread[i][f]
  BY <1>4 DEF IsWhole, Counts, Extracted, Field
<1>5. \A f \in Field : thread[i][f] \in Nat
  BY DEF AccountTypes
<1> QED
  BY <1>1, <1>2, <1>3, <1>4, <1>5

LEMMA ReportStep ==
    ASSUME AccountInv, NEW i \in Issue, NEW r \in Reports, ApplyReport(i, r)
    PROVE  AccountInv'
<1> USE DEF AccountInv
<1> DEFINE latest == Extracted(r, Counts(i, r))
           high == [f \in Field |-> AtLeast(peak[i][f], latest[f])]
<1>1. /\ i \in running
      /\ totals' = [f \in Field |-> totals[f] + SaturatingSub(latest[f], last[i][f])]
      /\ last' = [last EXCEPT ![i] = latest]
      /\ peak' = [peak EXCEPT ![i] = high]
      /\ whole' = (whole /\ IsWhole(r))
      /\ UNCHANGED <<running, started, seconds, now, runs, thread, turn, ended>>
  BY DEF ApplyReport, AccountTypes
<1>2. /\ latest \in [Field -> Nat]
      /\ \A f \in Field : latest[f] <= thread[i][f]
      /\ IsWhole(r) => \A f \in Field : latest[f] = thread[i][f]
  BY ExtractedFacts
<1> HIDE DEF latest
<1>3. /\ last[i] \in [Field -> Nat] /\ peak[i] \in [Field -> Nat] /\ thread[i] \in [Field -> Nat]
      /\ high \in [Field -> Nat]
      /\ \A f \in Field : high[f] = AtLeast(peak[i][f], latest[f])
      /\ \A f \in Field : last[i][f] <= peak[i][f]
  BY <1>1, <1>2 DEF AccountTypes, PeakInv, AtLeast
<1> HIDE DEF high
<1>4. AccountTypes'
  <2>1. totals' \in [Field -> Nat]
    BY <1>1, <1>2, <1>3 DEF AccountTypes, SaturatingSub
  <2>2. whole' \in BOOLEAN
    BY <1>1
  <2> QED
    BY <1>1, <1>2, <1>3, <2>1, <2>2 DEF AccountTypes
<1>5. UsedInv' /\ SecondsInv'
  BY <1>1 DEF UsedInv, SecondsInv
<1>6. PeakInv'
  <2>1. \A f \in Field : latest[f] <= high[f]
    BY <1>2, <1>3 DEF AtLeast
  <2>2. latest["total"] <= 2 * MaxTokens
    BY <1>2, <1>3, FieldNames DEF UsedInv
  <2> QED
    BY <1>1, <1>2, <1>3, <2>1, <2>2 DEF PeakInv, AccountTypes
<1>7. WholeInv'
  <2>1. ASSUME whole, IsWhole(r)
        PROVE  latest = high
    <3>1. \A f \in Field : peak[i][f] <= latest[f]
      BY <1>1, <1>2, <2>1 DEF WholeInv
    <3>2. \A f \in Field : latest[f] = high[f]
      BY <1>2, <1>3, <3>1 DEF AtLeast
    <3> QED
      BY <1>2, <1>3, <3>2
  <2> QED
    BY <1>1, <1>2, <2>1 DEF WholeInv, AccountTypes
<1>8. ASSUME NEW f \in Field
      PROVE  /\ totals'[f] >= Reported(f)'
             /\ whole' => totals'[f] = Reported(f)'
  <2>1. Reported(f)' = Reported(f) + high[f] - peak[i][f]
    BY <1>1, <1>4, ReportedMore
  <2>2. Reported(f) \in Int /\ totals[f] \in Nat /\ totals[f] >= Reported(f)
        /\ (whole => totals[f] = Reported(f))
    BY ReportedType DEF AccountTypes, NeverUndercounts, CountedOnce
  <2>3. totals'[f] = totals[f] + SaturatingSub(latest[f], last[i][f])
    BY <1>1
  <2>4. /\ latest[f] \in Nat /\ last[i][f] \in Nat /\ peak[i][f] \in Nat
        /\ high[f] = AtLeast(peak[i][f], latest[f]) /\ last[i][f] <= peak[i][f]
    BY <1>2, <1>3
  <2>5. whole => last[i][f] = peak[i][f]
    BY <1>1 DEF WholeInv
  <2>6. whole' => whole
    BY <1>1
  <2>7. totals'[f] >= Reported(f)'
    BY <2>1, <2>2, <2>3, <2>4 DEF SaturatingSub, AtLeast
  <2>8. ASSUME whole PROVE totals'[f] = Reported(f)'
    BY <2>1, <2>2, <2>3, <2>4, <2>5, <2>8 DEF SaturatingSub, AtLeast
  <2> QED
    BY <2>6, <2>7, <2>8
<1> QED
  BY <1>4, <1>5, <1>6, <1>7, <1>8 DEF NeverUndercounts, CountedOnce

LEMMA LeaveStep ==
    ASSUME AccountInv, NEW i \in Issue, Leave(i), AddRuntimeSeconds(i) PROVE AccountInv'
<1> USE DEF AccountInv
<1>1. /\ i \in running /\ runs < MaxRuns /\ running' = running \ {i} /\ runs' = runs + 1
      /\ ended' = Plus(ended, peak[i]) /\ peak' = [peak EXCEPT ![i] = Zero]
      /\ seconds' = seconds + SaturatingSub(now, started[i])
      /\ UNCHANGED <<started, now, last, totals, thread, turn, whole>>
  BY DEF Leave, AddRuntimeSeconds
<1>2. Plus(ended, peak[i]) \in [Field -> Nat]
  BY <1>1 DEF AccountTypes, Plus
<1>3. SaturatingSub(now, started[i]) \in 0 .. MaxClock
  BY DEF AccountTypes, SaturatingSub
<1>4. AccountTypes'
  BY <1>1, <1>2, <1>3, ZeroType DEF AccountTypes
<1>5. UsedInv' /\ PeakInv' /\ WholeInv'
  BY <1>1 DEF UsedInv, PeakInv, WholeInv, AccountTypes
<1>6. SecondsInv'
  <2>1. MaxClock * (runs + 1) = MaxClock * runs + MaxClock /\ MaxClock * runs \in Nat
    BY DEF AccountTypes
  <2> QED
    BY <1>1, <1>3, <2>1 DEF SecondsInv, AccountTypes
<1>7. \A f \in Field : Reported(f)' = Reported(f)
  BY <1>1, <1>4, ReportedAtEnd
<1> QED
  BY <1>1, <1>4, <1>5, <1>6, <1>7, TotalsFrame

LEMMA AccountFrame ==
    ASSUME AccountInv, UNCHANGED <<running, started, seconds, runs, tokenVars>>,
           now' \in 0 .. MaxClock
    PROVE  AccountInv'
<1> USE DEF AccountInv, tokenVars
<1>1. /\ AccountTypes' /\ UsedInv' /\ PeakInv' /\ WholeInv' /\ SecondsInv'
  BY DEF AccountTypes, UsedInv, PeakInv, WholeInv, SecondsInv
<1> QED
  BY <1>1, ReportedFrame, TotalsFrame

(* What a step does to the accounts.                                        *)
LEMMA Steps ==
    ASSUME [Next]_accountingVars
    PROVE  \/ \E i \in Issue : Dispatch(i)
           \/ \E i \in Issue : Leave(i) /\ AddRuntimeSeconds(i)
           \/ /\ UNCHANGED <<running, started, seconds, now>>
              /\ \/ \E i \in Issue, f \in Field : Use(i, f)
                 \/ \E i \in Issue : NextTurn(i)
                 \/ \E i \in Issue, r \in Reports : ApplyReport(i, r)
                 \/ UNCHANGED <<runs, tokenVars>>
           \/ /\ \E t \in 0 .. MaxClock : SetClock(t)
              /\ UNCHANGED <<running, started, seconds, runs, tokenVars>>
<1>1. ASSUME NEW i \in Issue, FinishReleased(i) \/ FinishSucceeded(i) \/ FinishRetried(i)
      PROVE  Leave(i) /\ AddRuntimeSeconds(i)
  BY <1>1 DEF FinishReleased, FinishSucceeded, FinishRetried
<1>2. ASSUME NEW i \in Issue, RetryAgain(i) \/ RetryReleased(i)
      PROVE  UNCHANGED <<running, started, seconds, now, runs, tokenVars>>
  BY <1>2 DEF RetryAgain, RetryReleased
<1>3. ASSUME NEW i \in Issue,
             NextTurn(i) \/ (\E f \in Field : Use(i, f)) \/ \E r \in Reports : ApplyReport(i, r)
      PROVE  UNCHANGED <<running, started, seconds, now>>
  BY <1>3 DEF NextTurn, Use, ApplyReport
<1>4. ASSUME NEW t \in 0 .. MaxClock, SetClock(t)
      PROVE  UNCHANGED <<running, started, seconds, runs, tokenVars>>
  BY <1>4 DEF SetClock
<1>5. CASE UNCHANGED accountingVars
  BY <1>5 DEF accountingVars
<1>6. CASE Next
  BY <1>1, <1>2, <1>3, <1>4, <1>6 DEF Next
<1> QED
  BY <1>5, <1>6

LEMMA AccountStep == ASSUME AccountInv, [Next]_accountingVars PROVE AccountInv'
<1>1. now \in 0 .. MaxClock
  BY DEF AccountInv, AccountTypes
<1>2. ASSUME NEW t \in 0 .. MaxClock, SetClock(t)
      PROVE  now' \in 0 .. MaxClock
  BY <1>2 DEF SetClock
<1> QED
  BY <1>1, <1>2, Steps, DispatchStep, LeaveStep, UseStep, NextTurnStep, ReportStep, AccountFrame

(* The accounts keep their invariant. *)
LEMMA AccountInvariant == Spec => []AccountInv
<1>1. Init => AccountInv
  <2> SUFFICES ASSUME Init PROVE AccountInv
    OBVIOUS
  <2>1. AccountTypes /\ UsedInv /\ PeakInv /\ WholeInv /\ SecondsInv
    BY ZeroType, FieldNames
       DEF Init, AccountTypes, UsedInv, PeakInv, WholeInv, SecondsInv
  <2>2. ASSUME NEW f \in Field PROVE Reported(f) = totals[f]
    <3>1. [i \in Issue |-> peak[i][f]] \in [Issue -> Int]
      BY <2>1 DEF AccountTypes
    <3>2. SumFunctionOnSet([i \in Issue |-> peak[i][f]], {}) = 0
      BY <3>1, SumFacts
    <3> QED
      BY <3>2, ZeroType DEF Init, Reported
  <2>3. \A f \in Field : totals[f] \in Nat
    BY <2>1 DEF AccountTypes
  <2> QED
    BY <2>1, <2>2, <2>3 DEF AccountInv, NeverUndercounts, CountedOnce
<1>2. AccountInv /\ [Next]_accountingVars => AccountInv'
  BY AccountStep
<1> QED
  BY <1>1, <1>2, PTL DEF Spec

(* The totals never show less than the runs have reported at their highest, *)
(* whatever agents report and for any number of issues.                     *)
THEOREM TotalsNeverUndercount == Spec => []TotalsInv
<1>1. AccountInv => TotalsInv
  <2> SUFFICES ASSUME AccountInv PROVE TotalsInv
    OBVIOUS
  <2>1. seconds <= MaxClock * MaxRuns
    <3> DEFINE left == MaxRuns - runs
    <3>1. left \in Nat /\ MaxRuns = runs + left /\ runs \in Nat /\ seconds \in Nat
      BY DEF AccountInv, AccountTypes
    <3> HIDE DEF left
    <3>2. MaxClock * (runs + left) = MaxClock * runs + MaxClock * left
      BY <3>1
    <3>3. MaxClock * runs \in Nat /\ MaxClock * left \in Nat
      BY <3>1
    <3>4. seconds <= MaxClock * runs
      BY DEF AccountInv, SecondsInv
    <3>5. MaxClock * MaxRuns = MaxClock * runs + MaxClock * left
      BY <3>1, <3>2
    <3> QED
      BY <3>1, <3>3, <3>4, <3>5
  <2>2. seconds \in 0 .. MaxClock * MaxRuns
    <3>1. MaxClock * MaxRuns \in Nat /\ seconds \in Nat
      BY DEF AccountInv, AccountTypes
    <3> QED
      BY <2>1, <3>1
  <2> QED
    BY <2>2, Zenon DEF AccountInv, AccountTypes, PeakInv, TotalsInv, TypeOK
<1> QED
  BY <1>1, AccountInvariant, PTL

(* With whole reports the totals are the sum of what each run has reported. *)
THEOREM ReportsCountedOnce == Spec => []CountedOnce
  BY AccountInvariant, PTL DEF AccountInv

-----------------------------------------------------------------------------
(* The time shown. *)

LEMMA TimeStep ==
    ASSUME AccountInv, AccountInv', [Next]_accountingVars, now' >= now
    PROVE  SecondsShown' >= SecondsShown
<1> DEFINE g == [j \in Issue |-> now - started[j]]
           h == [j \in Issue |-> now' - started'[j]]
           s == SumFunctionOnSet(g, running)
           t == SumFunctionOnSet(h, running')
<1>1. /\ g \in [Issue -> Int] /\ h \in [Issue -> Int]
      /\ running \in SUBSET Issue /\ running' \in SUBSET Issue
      /\ seconds \in Nat /\ now \in Nat /\ now' \in Nat
      /\ \A i \in Issue : started[i] \in Nat /\ started'[i] \in Nat
  BY DEF AccountInv, AccountTypes
<1>2. s \in Int /\ t \in Int
  BY <1>1, SumFacts
<1>3. /\ SecondsShown = seconds + AtLeast(0, s)
      /\ SecondsShown' = seconds' + AtLeast(0, t)
  BY DEF SecondsShown
<1> HIDE DEF s, t
<1>4. ASSUME NEW i \in Issue, Dispatch(i)
      PROVE  seconds' = seconds /\ t = s
  <2>1. /\ i \in Issue \ running /\ running' = running \union {i}
        /\ started' = [started EXCEPT ![i] = now] /\ UNCHANGED <<now, seconds>>
    BY <1>4 DEF Dispatch
  <2>2. (\A j \in running : g[j] = h[j]) /\ h[i] = 0
    BY <1>1, <2>1 DEF AccountInv, AccountTypes
  <2> HIDE DEF g, h
  <2>3. SumFunctionOnSet(h, running \union {i}) = SumFunctionOnSet(g, running) + h[i]
    BY <1>1, <2>1, <2>2, SumUpdate
  <2> QED
    BY <1>2, <2>1, <2>2, <2>3 DEF s, t
<1>5. ASSUME NEW i \in Issue, Leave(i), AddRuntimeSeconds(i)
      PROVE  seconds' = seconds + SaturatingSub(now, started[i]) /\ s = now - started[i] + t
  <2>1. /\ i \in running /\ running' = running \ {i} /\ UNCHANGED <<now, started>>
        /\ seconds' = seconds + SaturatingSub(now, started[i])
    BY <1>5 DEF Leave, AddRuntimeSeconds
  <2>2. g = h /\ g[i] = now - started[i]
    BY <2>1
  <2> HIDE DEF g, h
  <2>3. SumFunctionOnSet(g, running) = g[i] + SumFunctionOnSet(g, running \ {i})
    BY <1>1, <2>1, SumFacts
  <2> QED
    BY <2>1, <2>2, <2>3 DEF s, t
<1>6. ASSUME UNCHANGED <<running, started, seconds>>
      PROVE  s <= t
  <2>1. \A i \in running : g[i] <= h[i]
    BY <1>1, <1>6
  <2> HIDE DEF g, h
  <2> QED
    BY <1>1, <1>6, <2>1, SumMonotone DEF s, t
<1> HIDE DEF g, h
<1>7. CASE \E i \in Issue : Dispatch(i)
  BY <1>1, <1>2, <1>3, <1>4, <1>7 DEF AtLeast
<1>8. CASE \E i \in Issue : Leave(i) /\ AddRuntimeSeconds(i)
  <2>1. PICK i \in Issue : Leave(i) /\ AddRuntimeSeconds(i)
    BY <1>8
  <2>2. seconds' = seconds + SaturatingSub(now, started[i]) /\ s = now - started[i] + t
    BY <1>5, <2>1
  <2> QED
    BY <1>1, <1>2, <1>3, <2>2 DEF AtLeast, SaturatingSub
<1>9. CASE UNCHANGED <<running, started, seconds>>
  BY <1>1, <1>2, <1>3, <1>6, <1>9 DEF AtLeast
<1> QED
  BY <1>7, <1>8, <1>9, Steps

(* The time shown falls at most when the clock does, for any number of runs *)
(* at once.                                                                 *)
THEOREM TimeNeverLost == Spec => TimeKept
<1>1. AccountInv /\ AccountInv' /\ [Next]_accountingVars
        => [now' >= now => SecondsShown' >= SecondsShown]_accountingVars
  BY TimeStep
<1> QED
  BY <1>1, AccountInvariant, PTL DEF Spec, TimeKept

-----------------------------------------------------------------------------
(* The delay of a retry. *)

USE BackoffAssumption

(* A larger set has more subsets. *)
LEMMA PowersGrow == \A m, n \in Nat : m <= n => 2 ^ m <= 2 ^ n
<1> SUFFICES ASSUME NEW m \in Nat, NEW n \in Nat, m <= n PROVE 2 ^ m <= 2 ^ n
  OBVIOUS
<1>1. \A k \in {m, n} :
        IsFiniteSet(SUBSET (1 .. k)) /\ Cardinality(SUBSET (1 .. k)) = 2 ^ k
  <2>1. \A k \in Nat : IsFiniteSet(1 .. k) /\ Cardinality(1 .. k) = k
    BY FS_Interval
  <2> QED
    BY <2>1, FS_SUBSET
<1>2. SUBSET (1 .. m) \subseteq SUBSET (1 .. n)
  OBVIOUS
<1>3. Cardinality(SUBSET (1 .. m)) <= Cardinality(SUBSET (1 .. n))
  BY <1>1, <1>2, FS_Subset
<1> QED
  BY <1>1, <1>3

(* Whatever was written, the cap fits the signed numbers of the width.      *)
LEMMA CapFacts ==
    ASSUME NEW s \in Setting
    PROVE  /\ MaxRetryBackoff(s) \in 0 .. MaxSigned
           /\ MaxRetryBackoff(s) =
                IF s.written \in {"number", "text"} /\ s.value >= 0 THEN s.value ELSE Default
<1>1. MaxSigned \in Nat /\ Default \in 0 .. MaxSigned
  <2>1. 2 ^ (Width - 1) \in Nat \ {0}
    BY PowersOfTwo
  <2> QED
    BY <2>1 DEF MaxSigned
<1>2. s.written \in {"number", "text"} => s.value \in -1 .. MaxSigned
  BY DEF Setting
<1> HIDE DEF MaxSigned
<1>3. CASE s.written \in {"number", "text"}
  BY <1>1, <1>2, <1>3 DEF MaxRetryBackoff, ParseU64, ParseI64
<1>4. CASE s.written \notin {"number", "text"}
  BY <1>1, <1>4 DEF MaxRetryBackoff, ParseU64, ParseI64
<1> QED
  BY <1>3, <1>4

(* The arithmetic of a width is exact below the cap, and where it saturates *)
(* the cap is less: doubling n - 1 times may leave the width, but then the  *)
(* exact delay exceeds it too.                                              *)
LEMMA DelayIsExact ==
    ASSUME NEW n \in Nat \ {0}, NEW s \in Setting
    PROVE  /\ RetryDelay(n, s) = Least(Base * 2 ^ (n - 1), MaxRetryBackoff(s))
           /\ RetryDelay(n, s) \in Nat
<1> DEFINE cap == MaxRetryBackoff(s)
           power == 2 ^ (n - 1)
           half == 2 ^ (Width - 1)
<1>1. half \in Nat \ {0} /\ 2 ^ Width = 2 * half
  <2>1. Width - 1 \in Nat /\ (Width - 1) + 1 = Width
    OBVIOUS
  <2> QED
    BY <2>1, PowersOfTwo
<1>2. cap \in Nat /\ cap <= MaxUnsigned /\ cap < 2 ^ Width /\ MaxUnsigned \in Nat
  <2>1. cap \in 0 .. half - 1
    BY CapFacts DEF MaxSigned
  <2> HIDE DEF cap, half
  <2> QED
    BY <1>1, <2>1 DEF MaxUnsigned
<1>3. power \in Nat \ {0} /\ Base \in Nat \ {0}
  <2>1. n - 1 \in Nat
    OBVIOUS
  <2>2. 2 ^ (Width - 1) \in Nat
    BY PowersOfTwo
  <2> QED
    BY <2>1, <2>2, PowersOfTwo
<1>4. Width <= n - 1 => 2 ^ Width <= power
  BY PowersGrow
<1>5. RetryDelay(n, s) =
        Least(Least(Base * (IF n - 1 < Width THEN power ELSE MaxUnsigned), MaxUnsigned), cap)
  BY DEF RetryDelay, SaturatingMul, SaturatingPow2
<1> HIDE DEF cap, power, half
<1>6. \A a, b \in Nat \ {0} : a * b \in Nat /\ a * b >= b
  OBVIOUS
<1>7. Base * power \in Nat /\ Base * power >= power
  BY <1>3, <1>6
<1>8. CASE n - 1 < Width
  <2>1. RetryDelay(n, s) = Least(Least(Base * power, MaxUnsigned), cap)
    BY <1>5, <1>8
  <2> DEFINE exact == Base * power
  <2>2. exact \in Nat
    BY <1>7
  <2> HIDE DEF exact
  <2>3. Least(Least(exact, MaxUnsigned), cap) = Least(exact, cap) /\ Least(exact, cap) \in Nat
    BY <1>2, <2>2 DEF Least
  <2> QED
    BY <2>1, <2>3 DEF exact, cap, power
<1>9. CASE ~ (n - 1 < Width)
  <2> DEFINE exact == Base * power
             widest == Base * MaxUnsigned
  <2>1. RetryDelay(n, s) = Least(Least(widest, MaxUnsigned), cap)
    BY <1>5, <1>9
  <2>2. exact \in Nat /\ exact >= power /\ 2 ^ Width <= power /\ 2 ^ Width \in Nat
    BY <1>1, <1>4, <1>7, <1>9
  <2>3. widest \in Nat /\ widest >= MaxUnsigned
    <3>1. MaxUnsigned # 0
      BY <1>1, <1>2 DEF MaxUnsigned
    <3> QED
      BY <1>2, <1>3, <1>6, <3>1
  <2> HIDE DEF exact, widest
  <2>4. Least(Least(widest, MaxUnsigned), cap) = cap
    BY <1>2, <2>3 DEF Least
  <2>5. Least(exact, cap) = cap
    BY <1>2, <1>3, <2>2 DEF Least
  <2> QED
    BY <1>2, <2>1, <2>4, <2>5 DEF exact, cap, power
<1> QED
  BY <1>8, <1>9

(* A retry of the attempt n that waits as long as it should.                *)
Due(n, wait) == wait = Least(Base * 2 ^ (n - 1), Cap) \/ (n = 1 /\ wait = Soon)

LEMMA ScheduleStep ==
    ASSUME DelayInv, NEW i \in Issue, NEW n \in Nat \ {0}, NEW wait \in Nat,
           ScheduleRetry(i, n, wait), Due(n, wait), UNCHANGED <<attempt, setting>>
    PROVE  DelayInv'
<1>1. /\ retry' = [retry EXCEPT ![i] = n] /\ delay' = [delay EXCEPT ![i] = wait]
  BY DEF ScheduleRetry
<1>2. RetryTypes'
  BY <1>1 DEF DelayInv, RetryTypes
<1>3. Cap' = Cap
  BY DEF Cap
<1>4. retry'[i] = n /\ delay'[i] = wait
  BY <1>1 DEF DelayInv, RetryTypes
<1>5. \A j \in Issue \ {i} : retry'[j] = retry[j] /\ delay'[j] = delay[j]
  BY <1>1 DEF DelayInv, RetryTypes
<1>6. \A j \in Issue : retry'[j] > 0 => Due(retry'[j], delay'[j])
  <2>1. \A j \in Issue : retry[j] > 0 => Due(retry[j], delay[j])
    BY DEF DelayInv, DelayExact, Due
  <2> QED
    BY <1>4, <1>5, <2>1, Zenon
<1> QED
  BY <1>2, <1>3, <1>6 DEF DelayInv, DelayExact, Due

(* The same when retries are only taken up, given up or left alone.         *)
LEMMA RetriesFewer ==
    ASSUME DelayInv, RetryTypes', UNCHANGED <<setting, delay>>,
           \A j \in Issue : retry'[j] = retry[j] \/ retry'[j] = 0
    PROVE  DelayInv'
<1>1. Cap' = Cap
  BY DEF Cap
<1>2. \A j \in Issue : retry'[j] > 0 => retry'[j] = retry[j]
  OBVIOUS
<1> QED
  BY <1>1, <1>2, Zenon DEF DelayInv, DelayExact

LEMMA BackoffStep ==
    ASSUME DelayInv, NEW n \in Nat \ {0}
    PROVE  RetryDelay(n, setting) \in Nat /\ Due(n, RetryDelay(n, setting))
<1>1. setting \in Setting
  BY DEF DelayInv, RetryTypes
<1> QED
  BY <1>1, DelayIsExact, CapFacts DEF Due, Cap

LEMMA DelayStep == ASSUME DelayInv, [Next]_accountingVars PROVE DelayInv'
<1>1. ASSUME NEW i \in Issue, Dispatch(i) PROVE DelayInv'
  <2>1. /\ retry' = [retry EXCEPT ![i] = 0] /\ attempt' = [attempt EXCEPT ![i] = retry[i]]
        /\ UNCHANGED <<setting, delay>>
    BY <1>1 DEF Dispatch
  <2>2. RetryTypes' /\ \A j \in Issue : retry'[j] = retry[j] \/ retry'[j] = 0
    BY <2>1 DEF DelayInv, RetryTypes
  <2> QED
    BY <2>1, <2>2, RetriesFewer
<1>2. ASSUME NEW i \in Issue, RetryReleased(i) PROVE DelayInv'
  <2>1. /\ retry' = [retry EXCEPT ![i] = 0] /\ UNCHANGED <<setting, attempt, delay>>
    BY <1>2 DEF RetryReleased
  <2>2. RetryTypes' /\ \A j \in Issue : retry'[j] = retry[j] \/ retry'[j] = 0
    BY <2>1 DEF DelayInv, RetryTypes
  <2> QED
    BY <2>1, <2>2, RetriesFewer
<1>3. ASSUME NEW i \in Issue, FinishSucceeded(i) PROVE DelayInv'
  <2>1. ScheduleRetry(i, 1, Soon) /\ UNCHANGED <<attempt, setting>>
    BY <1>3 DEF FinishSucceeded, Leave
  <2> QED
    BY <2>1, ScheduleStep DEF Due
<1>4. ASSUME NEW i \in Issue, FinishRetried(i) PROVE DelayInv'
  <2> DEFINE n == attempt[i] + 1
  <2>1. ScheduleRetry(i, n, RetryDelay(n, setting)) /\ UNCHANGED <<attempt, setting>>
    BY <1>4 DEF FinishRetried, Leave
  <2>2. n \in Nat \ {0}
    BY DEF DelayInv, RetryTypes
  <2> HIDE DEF n
  <2> QED
    BY <2>1, <2>2, BackoffStep, ScheduleStep
<1>5. ASSUME NEW i \in Issue, RetryAgain(i) PROVE DelayInv'
  <2> DEFINE n == retry[i] + 1
  <2>1. ScheduleRetry(i, n, RetryDelay(n, setting)) /\ UNCHANGED <<attempt, setting>>
    BY <1>5 DEF RetryAgain
  <2>2. n \in Nat \ {0}
    BY DEF DelayInv, RetryTypes
  <2> HIDE DEF n
  <2> QED
    BY <2>1, <2>2, BackoffStep, ScheduleStep
<1>6. ASSUME UNCHANGED <<retryVars, setting>> PROVE DelayInv'
  <2>1. RetryTypes' /\ UNCHANGED <<setting, delay>> /\ \A j \in Issue : retry'[j] = retry[j]
    BY <1>6 DEF retryVars, DelayInv, RetryTypes
  <2> QED
    BY <2>1, RetriesFewer
<1>7. ASSUME NEW i \in Issue,
             \/ NextTurn(i) \/ FinishReleased(i)
             \/ \E f \in Field : Use(i, f)
             \/ \E r \in Reports : ApplyReport(i, r)
      PROVE  UNCHANGED <<retryVars, setting>>
  BY <1>7 DEF NextTurn, FinishReleased, Leave, Use, ApplyReport
<1>8. ASSUME NEW t \in 0 .. MaxClock, SetClock(t) PROVE UNCHANGED <<retryVars, setting>>
  BY <1>8 DEF SetClock
<1>9. CASE Next
  BY <1>1, <1>2, <1>3, <1>4, <1>5, <1>6, <1>7, <1>8, <1>9, Zenon DEF Next
<1>10. CASE UNCHANGED accountingVars
  BY <1>6, <1>10 DEF accountingVars
<1> QED
  BY <1>9, <1>10

(* However often an issue fails, and whatever the operator wrote, its retry *)
(* waits the doubled base or the cap: for any width, base and default.      *)
THEOREM DelaysExact == Spec => []DelayExact
<1>1. Init => DelayInv
  BY DEF Init, DelayInv, RetryTypes, DelayExact
<1>2. DelayInv /\ [Next]_accountingVars => DelayInv'
  BY DelayStep
<1>3. DelayInv => DelayExact
  BY DEF DelayInv
<1> QED
  BY <1>1, <1>2, <1>3, PTL DEF Spec
=============================================================================
