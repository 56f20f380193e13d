SPECIFICATION Spec
CONSTANTS
  Issue <- Issues2
  State <- StatesLive
  Todo = "todo"
  Absent = "absent"
  Root = {"r1"}
  Config <- ConfigOneSlot
  Blockers <- BBlockedByA
  Rank <- RankOf
  Untitled = {}
  MayPanic = {"a"}
  MayRestart = FALSE
  AttemptCap = 1
  MaxQueued = 1
  Followed = {}
INVARIANTS OutcomeOwed
