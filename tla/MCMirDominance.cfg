SPECIFICATION LlvmSpec
CONSTANTS
  a = a
  b = b
  Name = {a, b}
  None = None
  Foreign = {b}
  Profiles <- Looping
  MaxPath = 2
  MaxVisits = 8
INVARIANT DefinitionsDominateUses
CHECK_DEADLOCK FALSE
