-------------------------- MODULE SessionLogProofs --------------------------
(***************************************************************************)
(* Proofs about the session log for any set of tasks, any number of lines  *)
(* and lines of any lengths: what one task at a time appends is there, and *)
(* however the appends overlap the text is torn only behind the end of a   *)
(* write that overlapped another or failed.                                *)
(***************************************************************************)
EXTENDS SessionLog, TLAPS

-----------------------------------------------------------------------------
(* Texts: what a write leaves of a file.                                    *)

(* One text behind another. *)
LEMMA ConcatFacts ==
    ASSUME NEW S, NEW p \in Seq(S), NEW q \in Seq(S)
    PROVE  /\ p \o q \in Seq(S) /\ Len(p \o q) = Len(p) + Len(q)
           /\ \A k \in 1 .. Len(p) : (p \o q)[k] = p[k]
           /\ \A k \in 1 .. Len(q) : (p \o q)[Len(p) + k] = q[k]
  OBVIOUS

(* What is behind the first pieces of a text. *)
LEMMA RestFacts ==
    ASSUME NEW S, NEW q \in Seq(S), NEW n \in Nat
    PROVE  /\ SubSeq(q, n + 1, Len(q)) \in Seq(S)
           /\ Len(SubSeq(q, n + 1, Len(q))) = IF n < Len(q) THEN Len(q) - n ELSE 0
           /\ \A k \in 1 .. Len(SubSeq(q, n + 1, Len(q))) :
                SubSeq(q, n + 1, Len(q))[k] = q[n + k]
  OBVIOUS

(* A write over a file: the text, and of the file what is behind. *)
LEMMA OverwriteFacts ==
    ASSUME NEW S, NEW text \in Seq(S), NEW old \in Seq(S)
    PROVE  /\ Overwritten(text, old) \in Seq(S)
           /\ Len(Overwritten(text, old)) = IF Len(text) < Len(old) THEN Len(old) ELSE Len(text)
           /\ \A k \in 1 .. Len(text) : Overwritten(text, old)[k] = text[k]
           /\ \A k \in Len(text) + 1 .. Len(old) : Overwritten(text, old)[k] = old[k]
<1>1. Len(text) \in Nat /\ Len(old) \in Nat
  OBVIOUS
<1> DEFINE rest == SubSeq(old, Len(text) + 1, Len(old))
           new == Overwritten(text, old)
<1>2. /\ rest \in Seq(S)
      /\ Len(rest) = IF Len(text) < Len(old) THEN Len(old) - Len(text) ELSE 0
      /\ \A k \in 1 .. Len(rest) : rest[k] = old[Len(text) + k]
  BY <1>1, RestFacts
<1>3. /\ new \in Seq(S) /\ Len(new) = Len(text) + Len(rest)
      /\ \A k \in 1 .. Len(text) : new[k] = text[k]
      /\ \A k \in 1 .. Len(rest) : new[Len(text) + k] = rest[k]
  BY <1>2, ConcatFacts DEF Overwritten
<1> HIDE DEF rest, new
<1>4. ASSUME NEW k \in Len(text) + 1 .. Len(old)
      PROVE  new[k] = old[k]
  <2>1. /\ k - Len(text) \in 1 .. Len(rest)
        /\ Len(text) + (k - Len(text)) = k
    BY <1>1, <1>2
  <2>2. PICK j \in 1 .. Len(rest) : Len(text) + j = k
    BY <2>1
  <2> QED
    BY <1>2, <1>3, <2>2
<1>5. Len(new) = IF Len(text) < Len(old) THEN Len(old) ELSE Len(text)
  BY <1>1, <1>2, <1>3
<1> QED
  BY <1>3, <1>4, <1>5 DEF new

(* What is written to an empty file is the file. *)
LEMMA OntoNothing ==
    ASSUME NEW S, NEW text \in Seq(S), NEW old \in Seq(S), old = <<>>
    PROVE  Overwritten(text, old) = text
<1> DEFINE new == Overwritten(text, old)
<1>1. Len(text) \in Nat /\ Len(old) = 0 /\ text \in [1 .. Len(text) -> S]
  OBVIOUS
<1>2. /\ new \in Seq(S) /\ Len(new) = IF Len(text) < Len(old) THEN Len(old) ELSE Len(text)
      /\ \A k \in 1 .. Len(text) : new[k] = text[k]
  BY OverwriteFacts
<1> HIDE DEF new
<1>3. new \in [1 .. Len(text) -> S]
  BY <1>1, <1>2
<1> QED
  BY <1>1, <1>2, <1>3 DEF new

(* The first pieces of a text. *)
LEMMA PartFacts ==
    ASSUME NEW S, NEW text \in Seq(S), NEW n \in 1 .. Len(text)
    PROVE  /\ SubSeq(text, 1, n) \in Seq(S) /\ Len(SubSeq(text, 1, n)) = n
           /\ \A k \in 1 .. n : SubSeq(text, 1, n)[k] = text[k]
  OBVIOUS

-----------------------------------------------------------------------------
(* Lines and torn places. *)

LEMMA LengthType == \A l \in Line : Length[l] \in Nat \ {0}
  BY SessionLogAssumption

(* The text of a line is its pieces in order. *)
LEMMA TextFacts ==
    ASSUME NEW l \in Line
    PROVE  /\ Text(l) \in Seq(Piece) /\ Len(Text(l)) = Length[l]
           /\ \A k \in 1 .. Length[l] : Text(l)[k] = <<l, k>>
           /\ LineEnd(l) \in Piece
<1>1. Length[l] \in Nat \ {0}
  BY LengthType
<1>2. \A k \in 1 .. Length[l] : <<l, k>> \in Piece
  BY <1>1 DEF Piece
<1>3. Text(l) \in [1 .. Length[l] -> Piece]
  BY <1>2 DEF Text
<1>4. \A n \in Nat : \A f \in [1 .. n -> Piece] : f \in Seq(Piece) /\ Len(f) = n
  OBVIOUS
<1>5. Text(l) \in Seq(Piece) /\ Len(Text(l)) = Length[l]
  BY <1>1, <1>3, <1>4
<1>6. \A k \in 1 .. Length[l] : Text(l)[k] = <<l, k>>
  BY DEF Text
<1> QED
  BY <1>1, <1>2, <1>5, <1>6 DEF LineEnd

(* What was torn at some pieces only is so when there are more of them. *)
LEMMA SoundWithMore ==
    ASSUME NEW text, NEW M, NEW N, M \subseteq N, Sound(text, M)
    PROVE  Sound(text, N)
  BY DEF Sound

(* A line behind a text begins where a line has ended, or at a torn place.  *)
LEMMA LineAdded ==
    ASSUME NEW M, NEW text \in Seq(Piece), Sound(text, M), NEW l \in Line
    PROVE  /\ text \o Text(l) \in Seq(Piece) /\ text \o Text(l) # <<>>
           /\ (text \o Text(l))[Len(text \o Text(l))] = LineEnd(l)
           /\ Sound(text \o Text(l), M)
<1> DEFINE new == text \o Text(l)
           n == Len(text)
<1>1. /\ Length[l] \in Nat \ {0} /\ n \in Nat
      /\ Text(l) \in Seq(Piece) /\ Len(Text(l)) = Length[l]
      /\ \A k \in 1 .. Length[l] : Text(l)[k] = <<l, k>>
  BY LengthType, TextFacts
<1>2. /\ new \in Seq(Piece) /\ Len(new) = n + Length[l] /\ DOMAIN text = 1 .. n
      /\ \A k \in 1 .. n : new[k] = text[k]
      /\ \A k \in 1 .. Length[l] : new[n + k] = <<l, k>>
  BY <1>1, ConcatFacts
<1> HIDE DEF new, n
<1>3. DOMAIN new = 1 .. n + Length[l]
  BY <1>1, <1>2
<1>4. new # <<>> /\ new[Len(new)] = LineEnd(l)
  BY <1>1, <1>2, <1>3 DEF LineEnd
<1>5. new[n + 1] = <<l, 1>>
  BY <1>1, <1>2
<1>6. new[1][2] = 1
  <2>1. CASE n = 0
    BY <1>5, <2>1
  <2>2. CASE n > 0
    <3>1. text # <<>> /\ new[1] = text[1]
      BY <1>1, <1>2, <2>2 DEF n
    <3> QED
      BY <3>1 DEF Sound
  <2> QED
    BY <1>1, <2>1, <2>2
<1>7. ASSUME NEW k \in DOMAIN new
      PROVE  GoesOn(new, k) \/ new[k] \in M
  <2>1. CASE k < n
    <3>1. /\ k \in DOMAIN text /\ new[k] = text[k] /\ new[k + 1] = text[k + 1]
          /\ k < Len(text) /\ k < Len(new)
      BY <1>1, <1>2, <1>3, <2>1 DEF n
    <3> QED
      BY <3>1 DEF Sound, GoesOn
  <2>2. CASE k = n
    <3>1. /\ k \in DOMAIN text /\ new[k] = text[k] /\ ~(k < Len(text))
          /\ new[k + 1][2] = 1
      BY <1>1, <1>2, <1>3, <1>5, <2>2 DEF n
    <3> QED
      BY <3>1 DEF Sound, GoesOn
  <2>3. CASE k > n
    <3>1. PICK j \in 1 .. Length[l] : k = n + j
      <4>1. k - n \in 1 .. Length[l] /\ k = n + (k - n)
        BY <1>1, <1>3, <2>3
      <4> QED
        BY <4>1
    <3>2. new[k] = <<l, j>> /\ (j < Length[l] => new[k + 1] = <<l, j + 1>> /\ k < Len(new))
      <4>1. new[k] = <<l, j>>
        BY <1>2, <3>1
      <4>2. ASSUME j < Length[l]
            PROVE  new[k + 1] = <<l, j + 1>> /\ k < Len(new)
        <5>1. j + 1 \in 1 .. Length[l] /\ k + 1 = n + (j + 1) /\ k < n + Length[l]
          BY <1>1, <3>1, <4>2
        <5>2. new[n + (j + 1)] = <<l, j + 1>>
          BY <1>2, <5>1
        <5> QED
          BY <1>2, <5>1, <5>2
      <4> QED
        BY <4>1, <4>2
    <3>3. j = Length[l] => ~(k < Len(new))
      BY <1>1, <1>2, <3>1
    <3>4. CASE j = Length[l]
      BY <3>2, <3>3, <3>4 DEF GoesOn, LineEnd
    <3>5. CASE j < Length[l]
      <4>1. new[k] # LineEnd(l) /\ new[k][1] = l /\ new[k][2] = j
        BY <1>1, <3>2, <3>5 DEF LineEnd
      <4> QED
        BY <3>2, <3>5, <4>1 DEF GoesOn
    <3> QED
      BY <1>1, <3>1, <3>4, <3>5
  <2> QED
    BY <1>1, <1>3, <2>1, <2>2, <2>3
<1> QED
  BY <1>2, <1>4, <1>6, <1>7 DEF Sound, new

(* A write over a file tears the text where it ends, unless the whole of    *)
(* the text is written to an empty file.                                    *)
LEMMA WriteTears ==
    ASSUME NEW M, NEW text \in Seq(Piece), NEW old \in Seq(Piece), NEW part \in Seq(Piece),
           Sound(text, M), Sound(old, M), part # <<>>, Len(part) <= Len(text),
           \A k \in 1 .. Len(part) : part[k] = text[k],
           part[Len(part)] \in M \/ (Len(part) = Len(text) /\ old = <<>>)
    PROVE  Overwritten(part, old) \in Seq(Piece) /\ Sound(Overwritten(part, old), M)
<1> DEFINE new == Overwritten(part, old)
           n == Len(part)
           t == Len(text)
           o == Len(old)
<1>1. /\ n \in Nat \ {0} /\ t \in Nat /\ o \in Nat
      /\ DOMAIN text = 1 .. t /\ DOMAIN old = 1 .. o
  OBVIOUS
<1>2. /\ new \in Seq(Piece) /\ Len(new) = IF n < o THEN o ELSE n
      /\ \A k \in 1 .. n : new[k] = text[k]
      /\ \A k \in n + 1 .. o : new[k] = old[k]
  BY OverwriteFacts
<1>3. n <= t /\ (text[n] \in M \/ (n = t /\ o = 0))
  BY <1>1
<1> HIDE DEF new, n, t, o
<1>4. DOMAIN new = 1 .. Len(new) /\ Len(new) \in Nat
  BY <1>2
<1>5. new[1][2] = 1
  <2>1. new[1] = text[1]
    <3>1. 1 \in 1 .. n
      BY <1>1
    <3> QED
      BY <1>2, <3>1
  <2>2. text # <<>>
    <3>1. 1 \in DOMAIN text
      BY <1>1, <1>3
    <3> QED
      BY <3>1
  <2> QED
    BY <2>1, <2>2 DEF Sound
<1>6. ASSUME NEW k \in DOMAIN new
      PROVE  GoesOn(new, k) \/ new[k] \in M
  <2>1. CASE k < n
    <3>1. /\ k \in DOMAIN text /\ new[k] = text[k] /\ new[k + 1] = text[k + 1]
          /\ k < t /\ k < Len(new)
      <4>1. k \in 1 .. n /\ k + 1 \in 1 .. n /\ k < t /\ k < Len(new)
        BY <1>1, <1>2, <1>3, <1>4, <2>1
      <4> QED
        BY <1>1, <1>2, <4>1
    <3> QED
      BY <3>1 DEF Sound, GoesOn, t, o
  <2>2. CASE k = n
    <3>1. k \in DOMAIN text /\ new[k] = text[k]
      <4>1. k \in 1 .. n /\ k \in 1 .. t
        BY <1>1, <1>3, <2>2
      <4> QED
        BY <1>1, <1>2, <4>1
    <3>2. CASE text[n] \in M
      BY <2>2, <3>1, <3>2
    <3>3. CASE n = t /\ o = 0
      <4>1. ~(k < Len(new)) /\ ~(k < t)
        BY <1>1, <1>2, <2>2, <3>3
      <4> QED
        BY <3>1, <4>1 DEF Sound, GoesOn, t, o
    <3> QED
      BY <1>3, <3>2, <3>3
  <2>3. CASE k > n
    <3>1. /\ k \in DOMAIN old /\ new[k] = old[k] /\ Len(new) = o
          /\ k < o => new[k + 1] = old[k + 1]
      <4>1. n < o /\ Len(new) = o /\ k \in n + 1 .. o /\ k \in 1 .. o
        BY <1>1, <1>2, <1>4, <2>3
      <4>2. k < o => k + 1 \in n + 1 .. o
        BY <1>1, <4>1
      <4> QED
        BY <1>1, <1>2, <4>1, <4>2
    <3> QED
      BY <3>1 DEF Sound, GoesOn, t, o
  <2> QED
    BY <1>1, <1>4, <2>1, <2>2, <2>3
<1> QED
  BY <1>2, <1>5, <1>6 DEF Sound, new

-----------------------------------------------------------------------------
(* The inductive invariant. *)

(* A task that appends holds a copy that ends with its line.                *)
CopyInv ==
    \A w \in Writer : Busy(w) =>
        /\ Own(w) \in Line
        /\ copy[w] # <<>> /\ copy[w][Len(copy[w])] = LineEnd(Own(w))

(* Torn text may be read and written back: the copies are torn as the log   *)
(* is.                                                                      *)
SoundInv == Sound(log, marks) /\ \A w \in Writer : Sound(copy[w], marks)

(* A task whose append has met no other is alone at work, and finds the     *)
(* file as it left it.                                                      *)
UnmetInv ==
    \A w \in Writer : Busy(w) /\ LineEnd(Own(w)) \notin marks =>
        /\ \A v \in Writer : Busy(v) => v = w
        /\ pc[w] = "opened" => log = <<>>

(* As long as appends have not met and none has failed, one task at most is *)
(* at work, and the file or its copy is what was appended so far.           *)
AloneInv ==
    ~disturbed =>
        /\ \A v, w \in Writer : Busy(v) /\ Busy(w) => v = w
        /\ Quiet => log = appended
        /\ \A w \in Writer :
             /\ pc[w] = "read" => log = appended
             /\ pc[w] = "opened" => log = <<>>
             /\ Busy(w) => copy[w] = appended \o Text(Own(w))

IndInv == TypeOK /\ CopyInv /\ SoundInv /\ UnmetInv /\ AloneInv

LEMMA IndInvImplies == IndInv => LogInv /\ WholeUnlessDisturbed
  BY DEF IndInv, SoundInv, AloneInv, LogInv, TornOnlyByOverlap, WholeUnlessDisturbed

-----------------------------------------------------------------------------
(* The steps. *)

LEMMA EmptyIsSound == \A M : <<>> \in Seq(Piece) /\ Sound(<<>>, M)
  BY DEF Sound

(* The log is empty at first, or has its header. *)
LEMMA IndInvInit == Init => IndInv
<1> SUFFICES ASSUME Init
             PROVE  IndInv
  OBVIOUS
<1>1. log \in Seq(Piece) /\ Sound(log, marks)
  <2>1. CASE log = <<>>
    BY <2>1, EmptyIsSound
  <2>2. CASE log = Text(Header)
    <3>1. Header \in Line
      BY DEF Line
    <3>2. Text(Header) \in Seq(Piece) /\ <<>> \o Text(Header) = Text(Header)
      <4>1. Text(Header) \in Seq(Piece)
        BY <3>1, TextFacts
      <4> HIDE DEF Header
      <4> QED
        BY <4>1
    <3>3. Sound(<<>> \o Text(Header), marks)
      BY <3>1, EmptyIsSound, LineAdded
    <3> QED
      BY <2>2, <3>2, <3>3
  <2> QED
    BY <2>1, <2>2 DEF Init
<1>2. TypeOK
  <2>1. \A w \in Writer : MaxLines[w] \in Nat
    BY SessionLogAssumption
  <2>2. \A w \in Writer : sent[w] = 0 /\ sent[w] <= MaxLines[w]
    BY <2>1 DEF Init
  <2>3. copy \in [Writer -> Seq(Piece)] /\ sent \in [Writer -> Nat]
        /\ pc \in [Writer -> {"idle", "read", "opened"}]
    BY EmptyIsSound DEF Init
  <2> QED
    BY <1>1, <2>2, <2>3 DEF Init, TypeOK
<1>3. SoundInv
  BY <1>1, EmptyIsSound DEF Init, SoundInv
<1>4. CopyInv /\ UnmetInv /\ AloneInv
  BY DEF Init, CopyInv, UnmetInv, AloneInv, Busy, Quiet
<1> QED
  BY <1>2, <1>3, <1>4 DEF IndInv

(* The next line of a task is one of the session.                           *)
LEMMA NextLine ==
    ASSUME TypeOK, NEW w \in Writer, sent[w] < MaxLines[w],
           sent' = [sent EXCEPT ![w] = @ + 1]
    PROVE  /\ sent' \in [Writer -> Nat] /\ \A v \in Writer : sent'[v] <= MaxLines[v]
           /\ Own(w)' \in Line
           /\ \A v \in Writer \ {w} : Own(v)' = Own(v)
<1>1. sent \in [Writer -> Nat] /\ MaxLines[w] \in Nat
  BY SessionLogAssumption DEF TypeOK
<1>2. sent'[w] \in 1 .. MaxLines[w] /\ sent' \in [Writer -> Nat]
  BY <1>1
<1> QED
  BY <1>1, <1>2 DEF TypeOK, Own, Line

(* The task adds its line behind what it has read, torn or not. *)
LEMMA ReadStep ==
    ASSUME IndInv, NEW w \in Writer, ReadLog(w)
    PROVE  IndInv'
<1> USE DEF IndInv
<1> DEFINE l == Own(w)'
           met == \E v \in Writer : Busy(v)
<1>1. /\ ~Busy(w) /\ sent[w] < MaxLines[w] /\ sent' = [sent EXCEPT ![w] = @ + 1]
      /\ pc' = [pc EXCEPT ![w] = "read"] /\ copy' = [copy EXCEPT ![w] = log \o Text(l)]
      /\ log' = log /\ appended' = appended
  BY DEF ReadLog, Begin
<1>2. IF met
      THEN /\ disturbed' = TRUE
           /\ marks' = marks \union {LineEnd(Own(v)') : v \in {u \in Writer : Busy(u)'}}
      ELSE UNCHANGED <<disturbed, marks>>
  BY DEF ReadLog, Begin
<1>3. /\ sent' \in [Writer -> Nat] /\ \A v \in Writer : sent'[v] <= MaxLines[v]
      /\ l \in Line /\ \A v \in Writer \ {w} : Own(v)' = Own(v)
  BY <1>1, NextLine
<1>4. /\ pc \in [Writer -> {"idle", "read", "opened"}] /\ copy \in [Writer -> Seq(Piece)]
      /\ log \in Seq(Piece) /\ marks \subseteq Piece
  BY DEF TypeOK
<1>5. \A v \in Writer : Busy(v)' <=> v = w \/ Busy(v)
  BY <1>1, <1>4 DEF Busy
<1>6. /\ log \o Text(l) \in Seq(Piece) /\ log \o Text(l) # <<>>
      /\ (log \o Text(l))[Len(log \o Text(l))] = LineEnd(l)
      /\ Sound(log \o Text(l), marks)
  BY <1>3, <1>4, LineAdded DEF SoundInv
<1> HIDE DEF l
<1>7. CopyInv'
  BY <1>1, <1>3, <1>4, <1>5, <1>6 DEF CopyInv, l
<1>8. marks \subseteq marks' /\ marks' \subseteq Piece
  <2>1. \A v \in Writer : Busy(v)' => LineEnd(Own(v)') \in Piece
    BY <1>7, TextFacts DEF CopyInv
  <2>2. CASE met
    BY <1>2, <1>4, <2>1, <2>2
  <2>3. CASE ~met
    BY <1>2, <1>4, <2>3
  <2> QED
    BY <2>2, <2>3
<1>9. TypeOK'
  <2>1. disturbed' \in BOOLEAN
    BY <1>2 DEF TypeOK
  <2> QED
    BY <1>1, <1>3, <1>4, <1>6, <1>8, <2>1 DEF TypeOK
<1>10. SoundInv'
  BY <1>1, <1>4, <1>6, <1>8, SoundWithMore DEF SoundInv
<1>11. UnmetInv'
  <2>1. CASE met
    <3>1. \A v \in Writer : Busy(v)' => LineEnd(Own(v)') \in marks'
      BY <1>2, <2>1
    <3>2. \A v \in Writer : (LineEnd(Own(v)))' = LineEnd(Own(v)')
      BY DEF LineEnd
    <3> QED
      BY <3>1, <3>2 DEF UnmetInv
  <2>2. CASE ~met
    BY <1>1, <1>4, <1>5, <2>2 DEF UnmetInv
  <2> QED
    BY <2>1, <2>2
<1>12. AloneInv'
  <2> SUFFICES ASSUME ~disturbed, ~met
               PROVE  AloneInv'
    BY <1>2 DEF AloneInv
  <2>1. log = appended
    BY DEF AloneInv, Quiet
  <2>2. \A v \in Writer : (Busy(v)' <=> v = w) /\ pc'[v] # "opened"
    BY <1>1, <1>4, <1>5 DEF Busy
  <2>3. copy'[w] = appended' \o Text(Own(w)')
    BY <1>1, <1>4, <2>1 DEF l
  <2>4. (Text(Own(w)))' = Text(Own(w)')
    BY DEF Text
  <2> QED
    BY <1>1, <2>1, <2>2, <2>3, <2>4 DEF AloneInv, Quiet
<1> QED
  BY <1>7, <1>9, <1>10, <1>11, <1>12

(* A line is given up before its task begins. *)
LEMMA ReadFailStep ==
    ASSUME IndInv, NEW w \in Writer, ReadFails(w)
    PROVE  IndInv'
<1> USE DEF IndInv
<1>1. /\ ~Busy(w) /\ sent[w] < MaxLines[w] /\ sent' = [sent EXCEPT ![w] = @ + 1]
      /\ disturbed' = TRUE /\ UNCHANGED <<log, pc, copy, appended, marks>>
  BY DEF ReadFails
<1>2. /\ sent' \in [Writer -> Nat] /\ \A v \in Writer : sent'[v] <= MaxLines[v]
      /\ \A v \in Writer \ {w} : Own(v)' = Own(v)
  BY <1>1, NextLine
<1>3. \A v \in Writer : (Busy(v)' <=> Busy(v)) /\ (Busy(v) => Own(v)' = Own(v))
  BY <1>1, <1>2 DEF Busy
<1>4. TypeOK'
  BY <1>1, <1>2 DEF TypeOK
<1>5. CopyInv' /\ UnmetInv'
  <2>1. \A v \in Writer : (LineEnd(Own(v)))' = LineEnd(Own(v)')
    BY DEF LineEnd
  <2> QED
    BY <1>1, <1>3, <2>1 DEF CopyInv, UnmetInv
<1> QED
  BY <1>1, <1>4, <1>5 DEF SoundInv, AloneInv

(* The file is emptied; its lines are in the copies, or lost. *)
LEMMA OpenStep ==
    ASSUME IndInv, NEW w \in Writer, OpenTruncated(w)
    PROVE  IndInv'
<1> USE DEF IndInv
<1>1. /\ pc[w] = "read" /\ log' = <<>> /\ pc' = [pc EXCEPT ![w] = "opened"]
      /\ UNCHANGED <<copy, sent, appended, disturbed, marks>>
  BY DEF OpenTruncated
<1>2. /\ pc \in [Writer -> {"idle", "read", "opened"}]
      /\ \A v \in Writer : (Busy(v)' <=> Busy(v)) /\ Own(v)' = Own(v)
      /\ Busy(w)
  BY <1>1 DEF TypeOK, Busy, Own
<1>3. TypeOK' /\ SoundInv'
  BY <1>1, EmptyIsSound DEF TypeOK, SoundInv
<1>4. CopyInv' /\ UnmetInv'
  <2>1. \A v \in Writer : (LineEnd(Own(v)))' = LineEnd(Own(v))
    BY <1>2 DEF LineEnd
  <2> QED
    BY <1>1, <1>2, <2>1 DEF CopyInv, UnmetInv
<1>5. AloneInv'
  <2>1. \A v \in Writer : (Text(Own(v)))' = Text(Own(v))
    BY <1>2 DEF Text
  <2> QED
    BY <1>1, <1>2, <2>1 DEF AloneInv, Quiet, Busy
<1> QED
  BY <1>3, <1>4, <1>5

(* When a task is done, with or without its line, the others that are at    *)
(* work have met it.                                                        *)
LEMMA DoneStep ==
    ASSUME IndInv, NEW w \in Writer, Busy(w), pc' = [pc EXCEPT ![w] = "idle"],
           copy' = [copy EXCEPT ![w] = <<>>], sent' = sent,
           marks \subseteq marks', Sound(log', marks')
    PROVE  /\ \A v \in Writer : (Busy(v)' <=> Busy(v) /\ v # w) /\ Own(v)' = Own(v)
           /\ CopyInv' /\ UnmetInv' /\ SoundInv'
<1> USE DEF IndInv
<1>1. /\ pc \in [Writer -> {"idle", "read", "opened"}] /\ copy \in [Writer -> Seq(Piece)]
  BY DEF TypeOK
<1>2. \A v \in Writer : (Busy(v)' <=> Busy(v) /\ v # w) /\ Own(v)' = Own(v)
  BY <1>1 DEF Busy, Own
<1>3. \A v \in Writer : (LineEnd(Own(v)))' = LineEnd(Own(v))
  BY <1>2 DEF LineEnd
<1>4. CopyInv' /\ UnmetInv'
  BY <1>1, <1>2, <1>3 DEF CopyInv, UnmetInv
<1>5. SoundInv'
  <2>1. \A v \in Writer : copy'[v] = <<>> \/ copy'[v] = copy[v]
    BY <1>1
  <2> QED
    BY <2>1, EmptyIsSound, SoundWithMore DEF SoundInv
<1> QED
  BY <1>2, <1>4, <1>5

(* The copy is written from the start; what is behind stays where it is.    *)
(* Alone, it is the whole file.                                             *)
LEMMA WriteStep ==
    ASSUME IndInv, NEW w \in Writer, WriteLog(w)
    PROVE  IndInv'
<1> USE DEF IndInv
<1>1. /\ pc[w] = "opened" /\ log' = Overwritten(copy[w], log)
      /\ appended' = IF disturbed THEN appended ELSE appended \o Text(Own(w))
      /\ pc' = [pc EXCEPT ![w] = "idle"] /\ copy' = [copy EXCEPT ![w] = <<>>]
      /\ UNCHANGED <<sent, disturbed, marks>>
  BY DEF WriteLog
<1>2. /\ Busy(w) /\ Own(w) \in Line /\ copy[w] \in Seq(Piece) /\ log \in Seq(Piece)
      /\ copy[w] # <<>> /\ copy[w][Len(copy[w])] = LineEnd(Own(w))
      /\ Sound(copy[w], marks) /\ Sound(log, marks)
      /\ LineEnd(Own(w)) \in marks \/ log = <<>>
  BY <1>1 DEF TypeOK, Busy, CopyInv, SoundInv, UnmetInv
<1>3. log' \in Seq(Piece) /\ Sound(log', marks)
  <2>1. Len(copy[w]) <= Len(copy[w])
    BY <1>2
  <2> QED
    BY <1>1, <1>2, <2>1, WriteTears
<1>4. /\ \A v \in Writer : (Busy(v)' <=> Busy(v) /\ v # w) /\ Own(v)' = Own(v)
      /\ CopyInv' /\ UnmetInv' /\ SoundInv'
  BY <1>1, <1>2, <1>3, DoneStep
<1>5. TypeOK'
  <2>1. appended' \in Seq(Piece)
    BY <1>1, <1>2, TextFacts, ConcatFacts DEF TypeOK
  <2> QED
    BY <1>1, <1>3, <2>1 DEF TypeOK
<1>6. AloneInv'
  <2> SUFFICES ASSUME ~disturbed
               PROVE  AloneInv'
    BY <1>1 DEF AloneInv
  <2>1. \A v \in Writer : ~Busy(v)'
    BY <1>2, <1>4 DEF AloneInv
  <2>2. log = <<>> /\ copy[w] = appended'
    BY <1>1, <1>2 DEF AloneInv
  <2>3. Overwritten(copy[w], log) = copy[w]
    BY <1>2, <2>2, OntoNothing
  <2>4. log' = appended'
    BY <1>1, <2>2, <2>3
  <2> QED
    BY <2>1, <2>4 DEF AloneInv, Busy
<1> QED
  BY <1>4, <1>5, <1>6

(* The line is given up with the copy; a part of it may be in the file.     *)
LEMMA WriteFailStep ==
    ASSUME IndInv, NEW w \in Writer, WriteFails(w)
    PROVE  IndInv'
<1> USE DEF IndInv
<1>1. /\ Busy(w) /\ pc' = [pc EXCEPT ![w] = "idle"] /\ copy' = [copy EXCEPT ![w] = <<>>]
      /\ disturbed' = TRUE /\ UNCHANGED <<sent, appended>>
  BY DEF WriteFails
<1>2. /\ copy[w] \in Seq(Piece) /\ log \in Seq(Piece) /\ marks \subseteq Piece
      /\ Sound(copy[w], marks) /\ Sound(log, marks)
  BY DEF TypeOK, SoundInv
<1>3. /\ log' \in Seq(Piece) /\ marks \subseteq marks' /\ marks' \subseteq Piece
      /\ Sound(log', marks')
  <2>1. CASE UNCHANGED <<log, marks>>
    BY <1>2, <2>1
  <2>2. ASSUME NEW n \in 1 .. Len(copy[w]), log' = Overwritten(SubSeq(copy[w], 1, n), log),
               marks' = marks \union {copy[w][n]}
        PROVE  /\ log' \in Seq(Piece) /\ marks \subseteq marks' /\ marks' \subseteq Piece
               /\ Sound(log', marks')
    <3> DEFINE part == SubSeq(copy[w], 1, n)
    <3>1. /\ part \in Seq(Piece) /\ Len(part) = n /\ n \in Nat \ {0}
          /\ \A k \in 1 .. n : part[k] = copy[w][k]
          /\ n <= Len(copy[w]) /\ copy[w][n] \in Piece
      BY <1>2, PartFacts
    <3>2. part # <<>> /\ part[n] = copy[w][n]
      BY <3>1
    <3>3. marks \subseteq marks' /\ marks' \subseteq Piece /\ copy[w][n] \in marks'
      BY <1>2, <2>2, <3>1
    <3>4. Sound(copy[w], marks') /\ Sound(log, marks')
      BY <1>2, <3>3, SoundWithMore
    <3> HIDE DEF part
    <3>5. Overwritten(part, log) \in Seq(Piece) /\ Sound(Overwritten(part, log), marks')
      BY <1>2, <3>1, <3>2, <3>3, <3>4, WriteTears
    <3> QED
      BY <2>2, <3>3, <3>5 DEF part
  <2> QED
    BY <2>1, <2>2 DEF WriteFails
<1>4. CopyInv' /\ UnmetInv' /\ SoundInv'
  BY <1>1, <1>3, DoneStep
<1>5. TypeOK'
  BY <1>1, <1>3 DEF TypeOK
<1> QED
  BY <1>1, <1>4, <1>5 DEF AloneInv

LEMMA IndInvStep == IndInv /\ [Next]_logVars => IndInv'
<1> SUFFICES ASSUME IndInv, [Next]_logVars
             PROVE  IndInv'
  OBVIOUS
<1>1. CASE Next
  BY <1>1, ReadStep, ReadFailStep, OpenStep, WriteStep, WriteFailStep DEF Next
<1>2. CASE UNCHANGED logVars
  BY <1>2 DEF logVars, IndInv, TypeOK, CopyInv, SoundInv, UnmetInv, AloneInv, Busy, Quiet, Own
<1> QED
  BY <1>1, <1>2

(* However the tasks interleave and fail, the text is torn only behind the  *)
(* end of a write that overlapped another or failed, also where torn text   *)
(* was read and written back, for lines of any lengths.                     *)
THEOREM TornAtWriteEnds == Spec => []LogInv
<1> QED
  BY IndInvInit, IndInvStep, IndInvImplies, PTL DEF Spec

(* Appends that neither overlap nor fail lose nothing and keep the order.   *)
THEOREM LogIsWhole == Spec => []WholeUnlessDisturbed
<1> QED
  BY IndInvInit, IndInvStep, IndInvImplies, PTL DEF Spec
=============================================================================
