-------------------------- MODULE MCStartupCleanup --------------------------
(* Values of the constants of StartupCleanup for TLC, chosen to clash. The  *)
(* service runs in /_/a, and the roots are written ../a. and /a/./../.. :   *)
(* the second is that of the file system, and holds the first.              *)
EXTENDS StartupCleanup

(* Nothing keeps the lists of active and terminal states apart. *)
States == {"Todo", "Done"}
Ended == {"Done"}

Here == <<<<"_">>, <<"a">>>>

WrittenRoots ==
    { [absolute |-> FALSE, parts |-> <<<<".", ".">>, <<"a", ".">>>>],
      [absolute |-> TRUE, parts |-> <<<<"a">>, <<".">>, <<".", ".">>, <<".", ".">>>>] }

(* Two names that are the same once sanitized, and in the wider root hold   *)
(* the other one; and the two dots, which name the wider root itself, and   *)
(* what is outside the other.                                               *)
Names == <<<<"_">>, <<"/">>, <<".", ".">>>>
=============================================================================
