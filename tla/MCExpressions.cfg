SPECIFICATION Spec
CONSTANTS
  Identifiers <- MCIdentifiers
  Integer = {"1"}
  OtherLiterals = {}
  Floats = {}
  Chars = {}
  Strings = {}
  IntegerValue <- MCIntegerValue
  Languages <- MCLanguages
  Scope <- MCScope
  Structs <- MCStructs
  BoundTypes <- MCBoundTypes
CHECK_DEADLOCK FALSE
INVARIANTS
  TokensKept
  FollowsTable
  BindingsAgree
  CppKeepsStructure
  AcceptedIsEmitted
