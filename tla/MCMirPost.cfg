SPECIFICATION LlvmSpec
CONSTANTS
  a = a
  b = b
  Name = {a, b}
  None = None
  Foreign = {b}
  Profiles <- Posts
  MaxPath = 2
  MaxVisits = 8
INVARIANT LookupsSucceed
CHECK_DEADLOCK FALSE
