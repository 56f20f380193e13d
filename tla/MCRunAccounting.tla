-------------------------- MODULE MCRunAccounting --------------------------
(* Values of the constants of RunAccounting for TLC. *)
EXTENDS RunAccounting

OneIssue == {"i1"}

(* Counts of the whole thread, whose total may be left to be derived, only  *)
(* a total, and the counts of a turn.                                       *)
Mixed ==
    { [of |-> "thread", has |-> Field], [of |-> "thread", has |-> {"input", "output"}],
      [of |-> "thread", has |-> {"total"}], [of |-> "turn", has |-> Field] }

(* A setting that cannot be used, and a cap below Base. *)
Written == { [written |-> "text", value |-> -1], [written |-> "number", value |-> 1] }
=============================================================================
