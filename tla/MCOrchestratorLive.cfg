SPECIFICATION FairSpec
CONSTANTS
  Issue <- Issues2
  State <- StatesLive
  Todo = "todo"
  Absent = "absent"
  Root = {"r1"}
  Config <- ConfigLive
  Blockers <- BBlockedByA
  Rank <- RankOf
  Untitled = {}
  MayPanic = {}
  MayRestart = FALSE
  AttemptCap = 1
  MaxQueued = 0
  Followed = {}
PROPERTIES StopHonoured ClaimReleased EligibleServed
