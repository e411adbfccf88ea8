SPECIFICATION FairSpec
CONSTANTS
  Texts <- SmallTexts
  Alpha <- Letters
  Digit <- Digits
  HexDigit <- HexDigits
  Single <- Singles
  Multi <- Multis
  Escape <- Escapes
  MaxDigits = 3
  MaxHex = 2
  MaxFloat = 4
  MaxTokens = 9
  Asserts = FALSE
INVARIANTS
  TypeOK
  StringSpans
  CommentSpans
  LinesSeparated
  TokensTile
  MaximalMunch
PROPERTIES
  Terminates
CHECK_DEADLOCK FALSE
