SPECIFICATION Spec
CONSTANTS
  Writer <- Tasks
  MaxLines <- Lines
  Length <- Pieces
INVARIANTS LogInv WholeUnlessDisturbed
CHECK_DEADLOCK FALSE
