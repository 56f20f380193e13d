SPECIFICATION Spec
CONSTANTS
  Width = 3
  Base = 2
  Default = 3
  Soon = 1
  Settings <- Written
  MaxAttempt = 4
  Issue <- OneIssue
  Reports <- Mixed
  MaxTokens = 1
  MaxTotal = 3
  MaxClock = 1
  MaxRuns = 2
INVARIANTS TotalsInv CountedOnce DelayExact
PROPERTIES TimeKept
CHECK_DEADLOCK FALSE
