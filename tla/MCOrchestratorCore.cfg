SPECIFICATION Spec
CONSTANTS
  Issue <- Issues2
  State <- StatesCore
  Todo = "todo"
  Absent = "absent"
  Root = {"r1"}
  Config <- ConfigCore
  Blockers <- BBlockedByA
  Rank <- RankOf
  Untitled = {}
  MayPanic = {"b"}
  MayRestart = TRUE
  AttemptCap = 2
  MaxQueued = 1
  Followed = {"a", "b"}
INVARIANTS TypeOK ClaimsAccounted RetryTokenUnique OneWorker CancelHasReason
PROPERTIES AttemptsKept WorkspaceKept
