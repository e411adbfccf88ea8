SPECIFICATION FairSpec
CONSTANTS
  File <- Files
  Main = "main"
  Macro <- Macros
  Sources <- SmallSources
  MaxNesting = 3
INVARIANTS
  TypeOK
  RegularIncludes
  AtMostOnce
  TextSurvives
PROPERTIES
  Terminates
CHECK_DEADLOCK FALSE
