SPECIFICATION CleanupSpec
CONSTANTS
  Issues = 3
  State <- States
  Active <- States
  Terminal <- Ended
  PageSize = 1
  DefaultPage = 2
  Cwd <- Here
  Roots <- WrittenRoots
  Identifier <- Names
INVARIANTS QueryInv InsideRoot EndedRemoved
PROPERTIES OnlyEndedRemoved
