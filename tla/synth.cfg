SPECIFICATION FairSpec
CONSTANTS
  MaxLen = 4
  Chars <- Alphabet
  White = {" "}
  Single = {"("}
  Pre = {"("}
  Post = {".", "("}
  Width <- Utf8
  Texts <- ShortTexts
  NoToken = NoToken
  UttType <- AllProcessors
  Voices <- ThreeVoices
  Lower <- Down
  EndPunc = {"."}
INVARIANTS Tiled SpellsText PhrasesPartition SilenceBetween Reported
PROPERTY Finishes
CHECK_DEADLOCK FALSE
