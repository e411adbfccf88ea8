SPECIFICATION Spec
CONSTANTS
  MaxDepth = 5
INVARIANTS
  NoStaleContext
  SelfInMethods
CHECK_DEADLOCK FALSE
