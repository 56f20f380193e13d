SPECIFICATION FairSpec
CONSTANTS
  MaxTurns = 2
  ServerId <- Ids
  MaxQueued = 2
INVARIANTS TypeOK GoneUnlessStopFailed NoRequestForgotten SuccessEarned
PROPERTIES TokenWins ContractSpec WorkerEnds
CHECK_DEADLOCK FALSE
