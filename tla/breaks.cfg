SPECIFICATION BreakSpec
CONSTANTS
  MaxLen = 5
  Chars <- Alphabet
  White = {" ", "nl"}
  Single = {"("}
  Pre = {"("}
  Post = {".", "!", "("}
  Width <- Utf8
  Texts <- ShortTexts
  NoToken = NoToken
  Capitals = {"A"}
  LineBreaks = {"nl"}
  Marks = {"!"}
  Periods = {"."}
INVARIANTS InOrder
CHECK_DEADLOCK FALSE
