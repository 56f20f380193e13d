---------------------------- MODULE MCSessionLog ----------------------------
(* Values of the constants of SessionLog for TLC: the three tasks of a run, *)
(* with lines of three lengths.                                             *)
EXTENDS SessionLog

Tasks == {"worker", "stdout", "stderr"}
Lines == [w \in Tasks |-> IF w = "stderr" THEN 1 ELSE 2]

Pieces ==
    [l \in Line |-> CASE l[1] = "stdout" -> 2
                      [] l[1] = "stderr" -> 3
                      [] OTHER -> 1]
=============================================================================
