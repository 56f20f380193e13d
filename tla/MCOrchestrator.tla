--------------------------- MODULE MCOrchestrator ---------------------------
(* Values of the constants of Orchestrator for TLC. *)
EXTENDS Orchestrator

Issues2 == {"a", "b"}
RankOf == [i \in Issues2 |-> IF i = "a" THEN 1 ELSE 2]
NoBlockers == [i \in Issues2 |-> {}]
BBlockedByA == [i \in Issues2 |-> IF i = "b" THEN {"a"} ELSE {}]

(* One slot, and a state that is neither active nor terminal. *)
StatesCore == {"todo", "done", "backlog"}
ConfigCore ==
    {[max |-> 1, perState |-> [s \in StatesCore |-> 0], active |-> {"todo"},
      terminal |-> {"done"}, stall |-> TRUE, root |-> "r1"]}

(* A workflow file edited between a wide and a narrow configuration; the   *)
(* narrow one also turns an active state into a terminal one.               *)
StatesReload == {"todo", "progress"}
Wide == [max |-> 2, perState |-> [s \in StatesReload |-> IF s = "progress" THEN 1 ELSE 0],
         active |-> {"todo", "progress"}, terminal |-> {}, stall |-> FALSE, root |-> "r1"]
Narrow == [Wide EXCEPT !.max = 1, !.active = {"todo"}, !.terminal = {"progress"}]
ConfigReload == {Wide, Narrow}

(* Progress: as many slots as issues, or a single one. *)
StatesLive == {"todo", "done"}
LiveConfig(n) ==
    [max |-> n, perState |-> [s \in StatesLive |-> 0], active |-> {"todo"},
     terminal |-> {"done"}, stall |-> TRUE, root |-> "r1"]
ConfigLive == {LiveConfig(2)}
ConfigOneSlot == {LiveConfig(1)}
=============================================================================
