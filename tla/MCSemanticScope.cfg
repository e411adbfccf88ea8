SPECIFICATION Spec
CONSTANTS
  Name = {a, b}
  LetData = {letInt}
  VarData = {varInt}
  FnData = {fnInt}
  StructData = {opaqueS, fullS}
  EnumData = {enumE}
  Attr = {extern}
  None = None
  MaxFrames = 3
  MaxParams = 2
INVARIANTS
  TypeOK
  NoShadowing
  ScopesMatchFrames
  SelfOnlyInMethod
  AttributesMatchFrames
PROPERTIES
  SymbolsArePermanent
  ImplementsTable
CHECK_DEADLOCK FALSE
