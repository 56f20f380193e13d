SPECIFICATION FairSpec
CONSTANTS
  MaxTurns = 1
  ServerId <- OneId
  MaxQueued = 1
PROPERTIES CancelEnds
CHECK_DEADLOCK FALSE
