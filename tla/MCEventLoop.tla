---------------------------- MODULE MCEventLoop ----------------------------
(* Values of the constants of EventLoop for TLC. *)
EXTENDS EventLoop

CONSTANTS i1, c1, c2, c3

OneIssue == {i1}
ThreeClients == {c1, c2, c3}
=============================================================================
