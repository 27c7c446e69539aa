CONSTANTS
  Programs <- MCPrograms
  MaxTexts = 2
  MAX_STACK_DEPTH = 2
  Alphabet = {"v", "f", "+", "*", "!", "(", ")", "[", "]", ",", "."}
  MaxTokens = 5
  INT_MAX = 3
  LONG_MAX = 7
  UINT_MAX = 15
SPECIFICATION MCSpec
CHECK_DEADLOCK FALSE
INVARIANTS
  TreeIsTheText
  EscapeFollowsNesting
  ParserSound
  ParseExact
  NumbersExact
  BlocksSound
  TaintSound
  NoRawData
PROPERTIES
  RenderEnds
