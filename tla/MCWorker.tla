------------------------------ MODULE MCWorker ------------------------------
(* Worker for TLC. 3 is also the id of the first turn/start. *)
EXTENDS Worker

Ids == {3, 9}
OneId == {3}
=============================================================================
