SPECIFICATION FairSpec
CONSTANTS
  File <- Files
  Main = "main"
  Macro <- Macros
  Sources <- GuardSources
  MaxNesting = 3
INVARIANTS
  ExcludedBranchesSilent
CHECK_DEADLOCK FALSE
