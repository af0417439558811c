---------------------------- MODULE MCSynthesis ----------------------------
(***************************************************************************)
(* Synthesis for TLC: the texts of at most MaxLen characters, of which "e" *)
(* is a letter of two bytes, and three voices: one with a syllabified      *)
(* lexicon in which a word has no phones, one that expands tokens and      *)
(* syllabifies, and one without a g2p.                                     *)
(***************************************************************************)
EXTENDS Synthesis

CONSTANT MaxLen  \* bound: the longest text

Alphabet == {"a", "A", "e", " ", ".", "("}
Utf8 == [c \in Alphabet |-> IF c = "e" THEN 2 ELSE 1]
Down == [c \in Alphabet |-> IF c = "A" THEN "a" ELSE c]
ShortTexts == UNION {[1 .. n -> Alphabet] : n \in 0 .. MaxLen}

Entry(syllabified, phones) == [syllabified |-> syllabified, phones |-> phones]

Lexical ==
  [lexicon |-> <<"a">> :> Entry(TRUE, <<2, 1>>) @@ <<"e">> :> Entry(TRUE, <<>>),
   g2p |-> TRUE, syllab |-> FALSE, expands |-> FALSE]
Expanding ==
  [lexicon |-> <<"a">> :> Entry(FALSE, <<2>>),
   g2p |-> TRUE, syllab |-> TRUE, expands |-> TRUE]
Closed ==
  [lexicon |-> <<"a">> :> Entry(FALSE, <<1>>),
   g2p |-> FALSE, syllab |-> FALSE, expands |-> FALSE]
ThreeVoices == {Lexical, Expanding, Closed}

AllProcessors == <<"Tokenize", "Normalize", "Phrasify", "LexLookup", "Pauses">>
UpToLexLookup == <<"Tokenize", "Normalize", "LexLookup">>
=============================================================================
