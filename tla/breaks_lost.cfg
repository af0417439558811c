SPECIFICATION BreakSpec
CONSTANTS
  MaxLen = 3
  Chars <- Alphabet
  White = {" ", "nl"}
  Single = {"("}
  Pre = {"("}
  Post = {".", "!", "("}
  Width <- Utf8
  Texts <- ShortTexts
  NoToken = NoToken
  Capitals = {"A"}
  LineBreaks = {"nl"}
  Marks = {"!"}
  Periods = {"."}
INVARIANTS NothingLost
CHECK_DEADLOCK FALSE
