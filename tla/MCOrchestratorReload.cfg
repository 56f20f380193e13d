SPECIFICATION Spec
CONSTANTS
  Issue <- Issues2
  State <- StatesReload
  Todo = "todo"
  Absent = "absent"
  Root = {"r1"}
  Config <- ConfigReload
  Blockers <- NoBlockers
  Rank <- RankOf
  Untitled = {}
  MayPanic = {}
  MayRestart = FALSE
  AttemptCap = 1
  MaxQueued = 0
  Followed = {}
PROPERTIES SlotsRespected LifecycleSpec
