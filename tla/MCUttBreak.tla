----------------------------- MODULE MCUttBreak -----------------------------
(***************************************************************************)
(* UttBreak for TLC: every text of at most MaxLen characters, of which one *)
(* stands for each kind; "e" is a letter of two bytes.                     *)
(***************************************************************************)
EXTENDS UttBreak

CONSTANT MaxLen  \* bound: the longest text

Alphabet == {"e", "A", " ", "nl", ".", "!", "("}
Utf8 == [c \in Alphabet |-> IF c = "e" THEN 2 ELSE 1]
ShortTexts == UNION {[1 .. n -> Alphabet] : n \in 0 .. MaxLen}
=============================================================================
