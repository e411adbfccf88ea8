SPECIFICATION LlvmSpec
CONSTANTS
  a = a
  b = b
  Name = {a, b}
  None = None
  Foreign = {b}
  Profiles <- MCProfiles
  MaxPath = 2
  MaxVisits = 8
INVARIANTS
  SingleAssignment
  ReadsAreProduced
  AllBlocksReachable
  VisibleBound
  CompiledBehavesAsBuilt
  ValuesAreOwn
  StraightIsCompiled
PROPERTIES
  IfElseMerges
CHECK_DEADLOCK FALSE
