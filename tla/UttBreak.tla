------------------------------ MODULE UttBreak ------------------------------
(***************************************************************************)
(* Breaking a token stream into utterances:                                *)
(* plugins/processors/utterances/nlp/uttbreak/src/uttbreak_proc.c.  A      *)
(* caller asks for the next utterance until it gets NULL.  Whether a token *)
(* starts a new utterance is known only when it has been peeked.           *)
(***************************************************************************)
EXTENDS TokenStream, SequencesExt

CONSTANTS Capitals, LineBreaks, Marks, Periods  \* sets of characters

ASSUME KindsAssumption == Capitals \cup LineBreaks \cup Marks \cup Periods \subseteq Chars

VARIABLES
  place, \* where GetNextUtt is: "caller" outside, "null" once it gave NULL
  utts,  \* the utterances made: the tokens of each one's Token relation
  done   \* "eof", the variable of GetNextUtt that its loop looks at

breakVars == <<streamVars, place, utts, done>>

Has(s, C) == \E i \in DOMAIN s : s[i] \in C

DoubleLineBreaks(token) ==
  \E i, j \in DOMAIN token.whitespace :
    i < j /\ {token.whitespace[i], token.whitespace[j]} \subseteq LineBreaks

PeriodCapital(token, item) ==
  /\ Has(item.post_punc, Periods)
  /\ Len(token.whitespace) >= 2
  /\ token.string[1] \in Capitals

Abbreviation(item) ==
  /\ item.string[1] \in Capitals /\ Last(item.string) \in Capitals
  /\ Len(item.string) < 4

PeriodAbbreviation(token, item) ==
  /\ Has(item.post_punc, Periods)
  /\ token.string[1] \in Capitals
  /\ ~Abbreviation(item)

\* does token start a new utterance, after an utterance that ends in item?
GotUttbreak(token, item) ==
  \/ DoubleLineBreaks(token)
  \/ Has(item.post_punc, Marks)
  \/ PeriodCapital(token, item)
  \/ PeriodAbbreviation(token, item)

BreakInit ==
  /\ StreamInit
  /\ place = "caller"
  /\ utts = <<>>
  /\ done = FALSE

-----------------------------------------------------------------------------
GetNextUtt ==
  /\ place = "caller"
  /\ IF eof THEN place' = "null" /\ UNCHANGED <<streamVars, done>>
            ELSE PeekToken /\ done' = FALSE /\ place' = "first"
  /\ UNCHANGED utts

FirstToken ==
  /\ place = "first"
  /\ \/ /\ currentToken.string = <<>>
        /\ place' = "null"
        /\ UNCHANGED <<streamVars, utts>>
     \/ /\ currentToken.string # <<>>
        /\ GetToken
        /\ utts' = Append(utts, <<currentToken'>>)
        /\ place' = "loop"
  /\ UNCHANGED done

PeekNext ==
  /\ place = "loop"
  /\ IF done THEN place' = "caller" /\ UNCHANGED streamVars
             ELSE PeekToken /\ place' = "peeked"
  /\ UNCHANGED <<utts, done>>

\* a token without a string ends the utterance, too
Breaks == currentToken.string # <<>> => GotUttbreak(currentToken, Last(Last(utts)))

\* Variant: the token that was peeked is taken before it is looked at.
AddOrBreakTaken ==
  /\ place = "peeked"
  /\ GetToken
  /\ utts' = IF Breaks THEN utts ELSE [utts EXCEPT ![Len(utts)] = Append(@, currentToken')]
  /\ place' = IF Breaks THEN "caller" ELSE "loop"
  /\ done' = eof'

AddOrBreak ==
  /\ place = "peeked"
  /\ \/ Breaks /\ place' = "caller" /\ UNCHANGED <<streamVars, utts, done>>
     \/ /\ ~Breaks
        /\ GetToken
        /\ utts' = [utts EXCEPT ![Len(utts)] = Append(@, currentToken')]
        /\ done' = eof'
        /\ place' = "loop"

\* a call fails: NULL is returned, and the utterance begun is deleted
Fails ==
  /\ place \in {"first", "loop", "peeked"}
  /\ place' = "failed"
  /\ utts' = IF place = "first" THEN utts ELSE Front(utts)
  /\ UNCHANGED <<streamVars, done>>

BreakNext == GetNextUtt \/ FirstToken \/ PeekNext \/ AddOrBreak \/ Fails

BreakSpec == BreakInit /\ [][BreakNext]_breakVars

-----------------------------------------------------------------------------
Items == FlattenSeq(utts)

\* the byte at which the stream goes on
Onward == IF peeked THEN currentToken.byte_start ELSE Bytes(SubSeq(text, 1, At - 1))

(* Over all utterances, every token starts at the byte where the one       *)
(* before it ended, and the stream goes on where the last one ended: what  *)
(* is peeked and left for the next utterance is neither taken twice nor    *)
(* skipped (STokenstreamPeekToken, GetNextUtt).                            *)
InOrder ==
  place # "failed" =>
    /\ \A i \in DOMAIN Items :
         Items[i].byte_start = IF i = 1 THEN 0 ELSE Items[i - 1].byte_end
    /\ place \in {"caller", "loop"} /\ Items # <<>> /\ ~eof => Last(Items).byte_end = Onward

(* uttbreak_proc.h: get_next_utt returns "NULL if no more utterances", so  *)
(* when the caller stops every word of the text is in an utterance.        *)
NothingLost ==
  place = "null" =>
    LET end == IF Items = <<>> THEN 0 ELSE Last(Items).byte_end
    IN  \A i \in DOMAIN text :
          text[i] \in StringChars => Bytes(SubSeq(text, 1, i)) <= end
=============================================================================
