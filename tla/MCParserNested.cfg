SPECIFICATION Spec
CONSTANTS
  MaxDepth = 3
INVARIANTS
  JumpsInLoops
CHECK_DEADLOCK FALSE
