SPECIFICATION FairSpec
CONSTANTS
  Good <- Usable
  Bad <- Unusable
  Absent = "absent"  None = "none"
  MaxNotes = 2
INVARIANTS ReloadInv
PROPERTIES Settles
CHECK_DEADLOCK FALSE
