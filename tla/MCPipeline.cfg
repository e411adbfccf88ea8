SPECIFICATION Spec
CONSTANTS
  Identifiers <- MCIdentifiers
  Integer = {"1"}
  OtherLiterals = {"lua"}
  Floats = {}
  Chars = {}
  Strings = {"lua"}
  IntegerValue <- MCIntegerValue
  Projects <- MCProjects
  PreprocessFails <- MCPreprocessFails
  LexFails <- MCLexFails
  LuaNames = {"a", "app"}
CHECK_DEADLOCK FALSE
INVARIANTS
  StatementsEnd
  VariablesAreTyped
  MethodsAreDeclared
  BindingsAreDefined
PROPERTIES
  OutputsAreKept
  ImplementsDriver
