SPECIFICATION Spec
CONSTANTS
  Root <- TwoRoots
INVARIANTS WorkspaceInv SetUpUnlessCut
PROPERTIES WorkKept
