---------------------------- MODULE TokenStream ----------------------------
(***************************************************************************)
(* A token stream over a string: engine/src/utils/{tokenstream,            *)
(* tokenstream_string}.c.  A token is white space, pre-punctuation, a      *)
(* string and post-punctuation, each the longest run of its characters     *)
(* from the place the one before ended; any of them may be empty, which is *)
(* NULL in the code.  The stream always holds the character after the last *)
(* token, and one token when it has been peeked.                           *)
(***************************************************************************)
EXTENDS Integers, Sequences

CONSTANTS
  Chars,   \* the characters of the texts
  White, Single, Pre, Post,  \* the symbols of the stream, sets of characters
  Width,   \* bytes of each character in UTF-8
  Texts,   \* the texts to read: a set of sequences of characters
  NoToken

ASSUME SymbolsAssumption == White \cup Single \cup Pre \cup Post \subseteq Chars
ASSUME WidthAssumption == Width \in [Chars -> 1 .. 4]
ASSUME TextsAssumption == Texts \subseteq Seq(Chars)

VARIABLES
  text,          \* STokenstreamString.string
  pos, byte_pos, \* characters and bytes that have been read
  eof, peeked, currentToken  \* STokenstream

streamVars == <<text, pos, byte_pos, eof, peeked, currentToken>>

Bytes(s) ==
  LET sum[n \in 0 .. Len(s)] == IF n = 0 THEN 0 ELSE sum[n - 1] + Width[s[n]]
  IN  sum[Len(s)]

\* the place of current_char in the text, one after its end at eof
At == IF eof THEN Len(text) + 1 ELSE pos

\* STokenstreamStringInit has read the first character
StreamInit ==
  /\ text \in Texts
  /\ pos = IF text = <<>> THEN 0 ELSE 1
  /\ byte_pos = Bytes(SubSeq(text, 1, pos))
  /\ eof = (text = <<>>)
  /\ peeked = FALSE
  /\ currentToken = NoToken

-----------------------------------------------------------------------------
(* where the run of characters of C that starts at place i ends *)
RunEnd(i, C) ==
  CHOOSE q \in i .. Len(text) + 1 :
    /\ \A j \in i .. q - 1 : text[j] \in C
    /\ q <= Len(text) => text[q] \notin C

StringChars == Chars \ (White \cup Pre \cup Post)

\* a single-character symbol at the start of a string is all of it
StringEnd(i) ==
  IF i <= Len(text) /\ text[i] \in Single \cap StringChars THEN i + 1
  ELSE RunEnd(i, StringChars)

\* reading on to place q: GetChar sets eof when there is no character left
ReadTo(q) ==
  /\ eof' = (q > Len(text))
  /\ pos' = IF eof' THEN Len(text) ELSE q
  /\ byte_pos' = byte_pos + Bytes(SubSeq(text, pos + 1, pos'))

\* s_cwidth(current_char); current_char is 0, one byte wide, at eof
CurrentWidth == IF eof THEN 1 ELSE Width[text[pos]]

\* byte_pos is past the character that is looked at, but for eof
ByteEnd == IF eof' THEN byte_pos' ELSE byte_pos' - Width[text[pos']]

ReadToken ==
  LET w == RunEnd(At, White)
      p == RunEnd(w, Pre)
      s == StringEnd(p)
      q == RunEnd(s, Post)
  IN  /\ ReadTo(q)
      /\ currentToken' = [whitespace |-> SubSeq(text, At, w - 1),
                          pre_punc   |-> SubSeq(text, w, p - 1),
                          string     |-> SubSeq(text, p, s - 1),
                          post_punc  |-> SubSeq(text, s, q - 1),
                          byte_start |-> byte_pos - CurrentWidth,
                          byte_end   |-> ByteEnd]
      /\ UNCHANGED text

GetToken ==
  \/ peeked /\ peeked' = FALSE /\ UNCHANGED <<text, pos, byte_pos, eof, currentToken>>
  \/ ~peeked /\ ReadToken /\ UNCHANGED peeked

PeekToken ==
  \/ peeked /\ UNCHANGED streamVars
  \/ ~peeked /\ ReadToken /\ peeked' = TRUE
=============================================================================
