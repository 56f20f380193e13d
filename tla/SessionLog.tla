----------------------------- MODULE SessionLog -----------------------------
(***************************************************************************)
(* The session log of one worker run (initialize_session_log and           *)
(* append_session_log, src/src/workspace.rs:242-271). Three tasks append   *)
(* to the file, each by reading it whole, adding a line to its copy and    *)
(* writing the copy back: the worker for what it sends (src/src/agent.rs   *)
(* :573), and the readers of the agent's stdout (884) and stderr (911).    *)
(* fs::write truncates the file before it writes, and no lock is held. A   *)
(* line is a number of pieces, so that lines differ in length and a write  *)
(* may leave the rest of one behind.                                       *)
(***************************************************************************)
EXTENDS Naturals, SequencesExt

CONSTANTS
    Writer,     \* the tasks that append to the log
    MaxLines,   \* bound: lines each task appends
    Length      \* the number of pieces of each line, the last of which ends it

Header == <<"initialized", 0>>

Line == {Header} \union UNION {{w} \X (1 .. MaxLines[w]) : w \in Writer}

ASSUME SessionLogAssumption ==
    MaxLines \in [Writer -> Nat] /\ Length \in [Line -> Nat \ {0}]

VARIABLES
    log,        \* the pieces in the file; <<>> also when there is no file
    pc,         \* where each task's append is
    copy,       \* what the task will write
    sent,       \* number of lines the task has begun to append
    disturbed,  \* history: whether appends have overlapped or one has failed
    appended,   \* history: the lines whose append returned before that
    marks       \* history: pieces that a write ends with which overlaps another or fails

logVars == <<log, pc, copy, sent, appended, disturbed, marks>>

Piece == Line \X (Nat \ {0})
Text(l) == [k \in 1 .. Length[l] |-> <<l, k>>]
LineEnd(l) == <<l, Length[l]>>

Busy(w) == pc[w] # "idle"

(* The line the task is about. *)
Own(w) == <<w, sent[w]>>

(* initialize_session_log, whose error the worker ignores. *)
Init ==
    /\ log \in {<<>>, Text(Header)}
    /\ pc = [w \in Writer |-> "idle"]
    /\ copy = [w \in Writer |-> <<>>]
    /\ sent = [w \in Writer |-> 0]
    /\ appended = log
    /\ disturbed = FALSE /\ marks = {}

(* An append begins. It overlaps with every one that is under way.          *)
Begin(w) ==
    /\ ~Busy(w) /\ sent[w] < MaxLines[w]
    /\ sent' = [sent EXCEPT ![w] = @ + 1]
    /\ pc' = [pc EXCEPT ![w] = "read"]
    /\ IF \E v \in Writer : Busy(v)
       THEN /\ disturbed' = TRUE
            /\ marks' = marks \union {LineEnd(Own(v)') : v \in {u \in Writer : Busy(u)'}}
       ELSE UNCHANGED <<disturbed, marks>>

ReadLog_NoNewline(w) ==
    /\ Begin(w)
    /\ copy' = [copy EXCEPT ![w] = Front(log \o Text(Own(w)'))]
    /\ UNCHANGED <<log, appended>>

(* The task reads the file, or starts from nothing if there is none, and    *)
(* adds its line.                                                           *)
ReadLog(w) ==
    /\ Begin(w)
    /\ copy' = [copy EXCEPT ![w] = log \o Text(Own(w)')]
    /\ UNCHANGED <<log, appended>>

(* The file cannot be read: no text any more, where a character was cut in  *)
(* two, or for another reason. The line is given up with a warning.         *)
ReadFails(w) ==
    /\ ~Busy(w) /\ sent[w] < MaxLines[w]
    /\ sent' = [sent EXCEPT ![w] = @ + 1]
    /\ disturbed' = TRUE
    /\ UNCHANGED <<log, pc, copy, appended, marks>>

OpenTruncated(w) ==
    /\ pc[w] = "read"
    /\ log' = <<>>
    /\ pc' = [pc EXCEPT ![w] = "opened"]
    /\ UNCHANGED <<copy, sent, appended, disturbed, marks>>

(* A write begins at the start of the file, and leaves what is behind it of *)
(* what another task has written since the file was truncated.              *)
Overwritten(text, old) == text \o SubSeq(old, Len(text) + 1, Len(old))

WriteLog_LineOnly(w) ==
    /\ pc[w] = "opened"
    /\ log' = Overwritten(Text(Own(w)), log)
    /\ appended' = IF disturbed THEN appended ELSE appended \o Text(Own(w))
    /\ pc' = [pc EXCEPT ![w] = "idle"]
    /\ copy' = [copy EXCEPT ![w] = <<>>]
    /\ UNCHANGED <<sent, disturbed, marks>>

WriteLog(w) ==
    /\ pc[w] = "opened"
    /\ log' = Overwritten(copy[w], log)
    /\ appended' = IF disturbed THEN appended ELSE appended \o Text(Own(w))
    /\ pc' = [pc EXCEPT ![w] = "idle"]
    /\ copy' = [copy EXCEPT ![w] = <<>>]
    /\ UNCHANGED <<sent, disturbed, marks>>

(* The file cannot be opened, or the write ends before it is through: the   *)
(* line is given up with a warning.                                         *)
WriteFails(w) ==
    /\ Busy(w)
    /\ \/ UNCHANGED <<log, marks>>
       \/ \E n \in 1 .. Len(copy[w]) :
            /\ pc[w] = "opened"
            /\ log' = Overwritten(SubSeq(copy[w], 1, n), log)
            /\ marks' = marks \union {copy[w][n]}
    /\ pc' = [pc EXCEPT ![w] = "idle"]
    /\ copy' = [copy EXCEPT ![w] = <<>>]
    /\ disturbed' = TRUE
    /\ UNCHANGED <<sent, appended>>

Next ==
    \E w \in Writer :
        ReadLog(w) \/ ReadFails(w) \/ OpenTruncated(w) \/ WriteLog(w) \/ WriteFails(w)

Spec == Init /\ [][Next]_logVars
-----------------------------------------------------------------------------
TypeOK ==
    /\ log \in Seq(Piece) /\ appended \in Seq(Piece)
    /\ pc \in [Writer -> {"idle", "read", "opened"}]
    /\ copy \in [Writer -> Seq(Piece)]
    /\ sent \in [Writer -> Nat] /\ \A w \in Writer : sent[w] <= MaxLines[w]
    /\ disturbed \in BOOLEAN /\ marks \subseteq Piece

Quiet == \A w \in Writer : ~Busy(w)

(* Appends that neither overlap nor fail keep every line, in order          *)
(* (src/src/workspace.rs:257-265). When two tasks append at a time a line   *)
(* may be lost though neither fails, as the file is rewritten from a copy.  *)
WholeUnlessDisturbed == Quiet /\ ~disturbed => log = appended

(* After a piece comes the next one of its line; after a line, another      *)
(* one's first piece or the end of the text.                                *)
GoesOn(text, k) ==
    LET l == text[k][1] IN
    IF text[k] = LineEnd(l) THEN k < Len(text) => text[k + 1][2] = 1
                            ELSE k < Len(text) /\ text[k + 1] = <<l, text[k][2] + 1>>

(* A text that is torn behind some pieces only.                             *)
Sound(text, pieces) ==
    /\ text # <<>> => text[1][2] = 1
    /\ \A k \in DOMAIN text : GoesOn(text, k) \/ text[k] \in pieces

(* A line is torn only where a write ended that overlapped another one or   *)
(* failed (257-264): at any moment, and however often torn text was read    *)
(* and written back since, what stands right before a torn place is the end *)
(* of such a task's own line, or where its write broke off. What is not     *)
(* next to such a place is whole lines, however much is lost.               *)
TornOnlyByOverlap == Sound(log, marks)

LogInv == TypeOK /\ TornOnlyByOverlap
=============================================================================
