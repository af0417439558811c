----------------------------- MODULE Synthesis -----------------------------
(***************************************************************************)
(* The synthesis of one utterance from text: SynthUtt of                   *)
(* engine/src/voicemanager/voice.c runs the utterance processors of a type *)
(* one after another, here those of plugins/processors/utterances/nlp:     *)
(* tokenizer, normalizer, phrasify, lexlookup and pauses.  Each builds     *)
(* relations from those of the ones before it, and any call in it may      *)
(* fail.  A relation is a sequence of records; items that share a content  *)
(* are linked by their place in the relation they were made in.            *)
(***************************************************************************)
EXTENDS TokenStream, SequencesExt

CONSTANTS
  UttType,    \* the names of the processors of the utterance type
  Voices,     \* [lexicon, g2p, syllab, expands]: what a voice has
  Lower,      \* the lower case of each character
  EndPunc     \* the characters of "end-punctuation"

ASSUME LowerAssumption == Lower \in [Chars -> Chars]
ASSUME EndPuncAssumption == EndPunc \subseteq Chars

VARIABLES
  voice,
  proc,      \* the processor of UttType that runs, 0 once an error stopped it
  pc, at,    \* where in its Run, and the place of the item its loop is at
  error,     \* the error code is not S_SUCCESS
  failed,    \* some call of a processor has failed (history)
  rels,      \* the names of the relations of the utterance
  tokens, words, phrases, sentences, sylStructure, segments

uttVars == <<tokens, words, phrases, sentences, sylStructure, segments>>
vars == <<streamVars, voice, proc, pc, at, error, failed, rels, uttVars>>

LowerCase(s) == [i \in DOMAIN s |-> Lower[s[i]]]

\* an item of the Token relation; <<>> is no name, Unset no number
Unset == -1
Item(name, start, punctuation) ==
  [name |-> name, ByteStart |-> start, ByteEnd |-> start + Bytes(name),
   IsPunctuation |-> punctuation]
IfNamed(item) == IF item.name = <<>> THEN <<>> ELSE <<item>>
Nameless == [name |-> <<>>, ByteStart |-> Unset, ByteEnd |-> Unset, IsPunctuation |-> FALSE]

Silence == [word |-> 0, syl |-> 0, phone |-> 0]

Init ==
  /\ StreamInit
  /\ voice \in Voices
  /\ proc = 1 /\ pc = "start" /\ at = 1
  /\ error = FALSE /\ failed = FALSE
  /\ rels = {}
  /\ tokens = <<>> /\ words = <<>> /\ phrases = <<>> /\ sentences = 0
  /\ sylStructure = <<>> /\ segments = <<>>

-----------------------------------------------------------------------------
(* SynthUtt                                                                 *)

Runs(p, point) == proc \in DOMAIN UttType /\ UttType[proc] = p /\ pc = point

\* Variant: the next processor runs whatever the error code is.
ReturnsOn(err) ==
  /\ error' = err
  /\ proc' = proc + 1
  /\ pc' = "start" /\ at' = 1

\* Run returns with error code err: the next processor runs, or none
Returns(err) ==
  /\ error' = err
  /\ proc' = IF err THEN 0 ELSE proc + 1
  /\ pc' = "start" /\ at' = 1

\* Run goes on with its loop
Loops(point, i) == pc' = point /\ at' = i /\ UNCHANGED <<proc, error, failed>>

\* "goto quit_error": SUtteranceDelRelation of the relations R that were made.
\* It clears the error code, so Run returns with an error only if R is empty.
QuitError(R) ==
  /\ rels' = rels \ R
  /\ failed' = TRUE
  /\ Returns(R = {})

-----------------------------------------------------------------------------
(* Tokenize: each part of a token of the stream becomes an item            *)

\* Variant: the bytes of the white space are not counted.
ItemsOfNoWhite(t) ==
  LET pre == t.byte_start
      string == pre + Bytes(t.pre_punc)
      post == string + Bytes(t.string)
      named == IfNamed(Item(t.pre_punc, pre, TRUE)) \o IfNamed(Item(t.string, string, FALSE))
               \o IfNamed(Item(t.post_punc, post, TRUE))
  IN  IF named = <<>> THEN <<Nameless>> ELSE named

\* a token of white space only leaves an item without a name
ItemsOf(t) ==
  LET pre == t.byte_start + Len(t.whitespace)
      string == pre + Bytes(t.pre_punc)
      post == string + Bytes(t.string)
      named == IfNamed(Item(t.pre_punc, pre, TRUE)) \o IfNamed(Item(t.string, string, FALSE))
               \o IfNamed(Item(t.post_punc, post, TRUE))
  IN  IF named = <<>> THEN <<Nameless>> ELSE named

TokenizeStarts ==
  /\ Runs("Tokenize", "start")
  /\ \/ rels' = rels \cup {"Token"} /\ Loops("loop", 1)
     \/ QuitError({"Token"})
  /\ UNCHANGED <<streamVars, uttVars>>

TokenizeNext ==
  /\ Runs("Tokenize", "loop") /\ ~eof
  /\ GetToken
  /\ tokens' = tokens \o ItemsOf(currentToken')
  /\ Loops("loop", 1)
  /\ UNCHANGED <<rels, words, phrases, sentences, sylStructure, segments>>

\* what a failing call leaves of an item: its features are set one by one
HalfMade(item) ==
  LET named == [Nameless EXCEPT !.name = item.name]
  IN  {Nameless, named, [named EXCEPT !.ByteStart = item.ByteStart],
       [item EXCEPT !.IsPunctuation = FALSE]}

\* the items of a token that were made before a call failed, the last one perhaps
\* half; after a post-punctuation that is made nothing fails that keeps them
SomeItemsOf(t) ==
  LET items == ItemsOf(t)
      most == IF t.post_punc = <<>> THEN Len(items) ELSE Len(items) - 1
  IN  {SubSeq(items, 1, k) : k \in 0 .. most}
      \cup UNION {{Append(SubSeq(items, 1, k - 1), item) : item \in HalfMade(items[k])} :
                    k \in DOMAIN items}

\* "goto quit" in the loop keeps the relation and the error; "goto quit_error",
\* when the end of the token cannot be had, neither
TokenizeFails ==
  /\ Runs("Tokenize", "loop") /\ ~eof
  /\ GetToken
  /\ \/ /\ \E made \in SomeItemsOf(currentToken') : tokens' = tokens \o made
        /\ failed' = TRUE /\ Returns(TRUE) /\ UNCHANGED rels
     \/ QuitError({"Token"}) /\ tokens' = <<>>
  /\ UNCHANGED <<words, phrases, sentences, sylStructure, segments>>

TokenizeEnds ==
  /\ Runs("Tokenize", "loop") /\ eof
  /\ Returns(FALSE)
  /\ UNCHANGED <<streamVars, failed, rels, uttVars>>

-----------------------------------------------------------------------------
(* Normalize: each item of Token that is no punctuation gets its words     *)

\* the names of the words of a token: its name in lower case, or what the
\* voice's "word-normalization" feature processor makes of it
WordNames(name) ==
  IF voice.expands THEN [k \in DOMAIN name |-> <<Lower[name[k]]>>] ELSE <<LowerCase(name)>>

WordsOf(i) ==
  LET names == WordNames(tokens[i].name)
  IN  [k \in DOMAIN names |-> [token |-> i, nth |-> k, name |-> names[k]]]

NormalizeStarts ==
  /\ Runs("Normalize", "start")
  /\ \/ "Token" \notin rels /\ QuitError({})
     \/ "Token" \in rels /\ rels' = rels \cup {"Word"} /\ Loops("loop", 1)
     \/ "Token" \in rels /\ QuitError({})
  /\ UNCHANGED <<streamVars, uttVars>>

NormalizeNext ==
  /\ Runs("Normalize", "loop") /\ at <= Len(tokens)
  /\ ~(tokens[at].IsPunctuation \/ voice.expands) => tokens[at].name # <<>>
  /\ words' = IF tokens[at].IsPunctuation THEN words ELSE words \o WordsOf(at)
  /\ Loops("loop", at + 1)
  /\ UNCHANGED <<streamVars, rels, tokens, phrases, sentences, sylStructure, segments>>

\* Variant: the half-made Word relation stays.
NormalizeFailsKeeping ==
  /\ Runs("Normalize", "loop") /\ at <= Len(tokens)
  /\ failed' = TRUE /\ Returns(FALSE)
  /\ UNCHANGED <<streamVars, rels, uttVars>>

\* without a "word-normalization" the only way on from an item without a name:
\* SItemGetObject fails
NormalizeFails ==
  /\ Runs("Normalize", "loop") /\ at <= Len(tokens)
  /\ QuitError({"Word"})
  /\ words' = <<>>
  /\ UNCHANGED <<streamVars, tokens, phrases, sentences, sylStructure, segments>>

NormalizeEnds ==
  /\ Runs("Normalize", "loop") /\ at > Len(tokens)
  /\ Returns(FALSE)
  /\ UNCHANGED <<streamVars, failed, rels, uttVars>>

-----------------------------------------------------------------------------
(* Phrasify: a phrase, and a sentence with it, ends at end punctuation     *)

LastWordInToken(w) ==
  \A v \in DOMAIN words : words[v].token = words[w].token => words[v].nth <= words[w].nth

\* Variant: the first word of a token ends the phrase already.
EndsPhraseEarly(w) ==
  LET next == words[w].token + 1
  IN  /\ next \in DOMAIN tokens
      /\ tokens[next].IsPunctuation
      /\ \E i \in DOMAIN tokens[next].name : tokens[next].name[i] \in EndPunc

EndsPhrase(w) ==
  LET next == words[w].token + 1
  IN  /\ next \in DOMAIN tokens
      /\ tokens[next].IsPunctuation
      /\ LastWordInToken(w)
      /\ \E i \in DOMAIN tokens[next].name : tokens[next].name[i] \in EndPunc

\* phraseItem # NULL
PhraseOpen == phrases # <<>> /\ Last(phrases).name = "NB"

PhrasifyStarts ==
  /\ Runs("Phrasify", "start")
  /\ \/ "Word" \notin rels /\ QuitError({})
     \/ "Word" \in rels /\ rels' = rels \cup {"Phrase", "Sentence"} /\ Loops("loop", 1)
     \/ "Word" \in rels /\ \E R \in {{}, {"Phrase"}} : QuitError(R)
  /\ UNCHANGED <<streamVars, uttVars>>

PhrasifyNext ==
  /\ Runs("Phrasify", "loop") /\ at <= Len(words)
  /\ LET grown == IF PhraseOpen THEN [phrases EXCEPT ![Len(phrases)].words = Append(@, at)]
                  ELSE Append(phrases, [name |-> "NB", words |-> <<at>>])
     IN  phrases' = IF EndsPhrase(at) THEN [grown EXCEPT ![Len(grown)].name = "BB"] ELSE grown
  /\ sentences' = IF PhraseOpen THEN sentences ELSE sentences + 1
  /\ Loops("loop", at + 1)
  /\ UNCHANGED <<streamVars, rels, tokens, words, sylStructure, segments>>

\* Sentence stays in the utterance
PhrasifyFails ==
  /\ Runs("Phrasify", "loop") /\ at <= Len(words)
  /\ QuitError({"Phrase"})
  /\ phrases' = <<>>
  /\ UNCHANGED <<streamVars, tokens, words, sentences, sylStructure, segments>>

PhrasifyEnds ==
  /\ Runs("Phrasify", "loop") /\ at > Len(words)
  /\ Returns(FALSE)
  /\ UNCHANGED <<streamVars, failed, rels, uttVars>>

-----------------------------------------------------------------------------
(* LexLookup: the syllables and phones of each word.  A pronunciation is a *)
(* sequence of syllables, each the number of its phones.                   *)

\* the syllables of phones that come as one list
Syllables(phones) == IF voice.syllab THEN [k \in 1 .. phones |-> 1] ELSE <<phones>>

\* Variant: a voice with a g2p does not ask it.
FoundInLexicon(name) == name \in DOMAIN voice.lexicon

Found(name) == name \in DOMAIN voice.lexicon \/ voice.g2p

\* the lexicon (or addendum) first, then the g2p, which gives no syllables
Pronunciation(name) ==
  IF name \in DOMAIN voice.lexicon
  THEN LET entry == voice.lexicon[name]
       IN  IF entry.syllabified THEN entry.phones ELSE Syllables(entry.phones[1])
  ELSE Syllables(Len(name))

\* the segments of the syllables syls of word w, in their order
SegmentsOf(w, syls) ==
  FlattenSeq([k \in DOMAIN syls |->
    [j \in 1 .. syls[k] |-> [word |-> w, syl |-> k, phone |-> j]]])

LexRelations == {"Syllable", "SylStructure", "Segment"}

LexLookupStarts ==
  /\ Runs("LexLookup", "start")
  /\ \/ "Word" \notin rels /\ QuitError({})
     \/ "Word" \in rels /\ rels' = rels \cup LexRelations /\ Loops("word", 1)
     \/ \E R \in {{}, {"Syllable"}, {"Syllable", "SylStructure"}} :
          "Word" \in rels /\ QuitError(R)
  /\ UNCHANGED <<streamVars, uttVars>>

\* s_strlwr clears the error code; the skip of a word without a name is left out,
\* since NormalizeNext makes none (WordNames)
LexLookupDowncase ==
  /\ Runs("LexLookup", "word") /\ at <= Len(words)
  /\ pc' = "lookup" /\ error' = FALSE
  /\ UNCHANGED <<streamVars, proc, at, failed, rels, uttVars>>

LexLookupNext ==
  LET syls == Pronunciation(words[at].name)
  IN  /\ Runs("LexLookup", "lookup") /\ Found(words[at].name)
      /\ sylStructure' = Append(sylStructure, [word |-> at, syls |-> syls])
      /\ segments' = segments \o SegmentsOf(at, syls)
      /\ Loops("word", at + 1)
      /\ UNCHANGED <<streamVars, rels, tokens, words, phrases, sentences>>

\* "continue" at a word without phones: wordItem is not moved on
LexLookupMissing ==
  /\ Runs("LexLookup", "lookup") /\ ~Found(words[at].name)
  /\ error' = TRUE /\ pc' = "word"
  /\ UNCHANGED <<streamVars, proc, at, failed, rels, uttVars>>

\* a call for a word failed, or computing the phonetic features at the end
LexLookupFails ==
  /\ \E point \in {"word", "lookup"} : Runs("LexLookup", point)
  /\ QuitError(LexRelations)
  /\ sylStructure' = <<>> /\ segments' = <<>>
  /\ UNCHANGED <<streamVars, tokens, words, phrases, sentences>>

LexLookupEnds ==
  /\ Runs("LexLookup", "word") /\ at > Len(words)
  /\ Returns(FALSE)
  /\ UNCHANGED <<streamVars, failed, rels, uttVars>>

-----------------------------------------------------------------------------
(* Pauses: a silence before everything and one after each phrase           *)

\* is there an item at R:SylStructure.daughtern.daughtern.R:Segment of w?
IsLastOf(s, w) ==
  \E k \in DOMAIN sylStructure :
    LET syls == sylStructure[k].syls
    IN  /\ sylStructure[k].word = w /\ syls # <<>>
        /\ s = [word |-> w, syl |-> Len(syls), phone |-> Last(syls)]

Spoken(w) == \E i \in DOMAIN segments : IsLastOf(segments[i], w)

\* the place of the last segment of the last word of a phrase that has one
SilencePlaces(phrase) ==
  {i \in DOMAIN segments : \E k \in DOMAIN phrase.words :
     /\ IsLastOf(segments[i], phrase.words[k])
     /\ \A l \in k + 1 .. Len(phrase.words) : ~Spoken(phrase.words[l])}

PausesStarts ==
  /\ Runs("Pauses", "start")
  /\ \/ /\ {"Word", "Segment", "Phrase"} \subseteq rels
        /\ segments' = <<Silence>> \o segments
        /\ Loops("loop", 1)
     \/ failed' = TRUE /\ Returns(TRUE) /\ UNCHANGED segments
  /\ UNCHANGED <<streamVars, rels, tokens, words, phrases, sentences, sylStructure>>

\* Variant: the last word of the phrase is the only one looked at.
PausesNextLast ==
  /\ Runs("Pauses", "loop") /\ at <= Len(phrases)
  /\ LET places == {i \in DOMAIN segments : IsLastOf(segments[i], Last(phrases[at].words))}
     IN  IF places = {} THEN UNCHANGED segments
         ELSE segments' = InsertAt(segments, 1 + CHOOSE i \in places : TRUE, Silence)
  /\ Loops("loop", at + 1)
  /\ UNCHANGED <<streamVars, rels, tokens, words, phrases, sentences, sylStructure>>

PausesNext ==
  /\ Runs("Pauses", "loop") /\ at <= Len(phrases)
  /\ LET places == SilencePlaces(phrases[at])
     IN  IF places = {} THEN UNCHANGED segments
         ELSE segments' = InsertAt(segments, 1 + CHOOSE i \in places : TRUE, Silence)
  /\ Loops("loop", at + 1)
  /\ UNCHANGED <<streamVars, rels, tokens, words, phrases, sentences, sylStructure>>

PausesFails ==
  /\ Runs("Pauses", "loop")
  /\ failed' = TRUE /\ Returns(TRUE)
  /\ UNCHANGED <<streamVars, rels, uttVars>>

PausesEnds ==
  /\ Runs("Pauses", "loop") /\ at > Len(phrases)
  /\ Returns(FALSE)
  /\ UNCHANGED <<streamVars, failed, rels, uttVars>>

-----------------------------------------------------------------------------
Tokenize == TokenizeStarts \/ TokenizeNext \/ TokenizeFails \/ TokenizeEnds
Normalize == NormalizeStarts \/ NormalizeNext \/ NormalizeFails \/ NormalizeEnds
Phrasify == PhrasifyStarts \/ PhrasifyNext \/ PhrasifyFails \/ PhrasifyEnds
LexLookup ==
  \/ LexLookupStarts \/ LexLookupDowncase \/ LexLookupNext \/ LexLookupMissing
  \/ LexLookupFails \/ LexLookupEnds
Pauses == PausesStarts \/ PausesNext \/ PausesFails \/ PausesEnds

Next == (Tokenize \/ Normalize \/ Phrasify \/ LexLookup \/ Pauses) /\ UNCHANGED voice

Spec == Init /\ [][Next]_vars

\* the one thread that synthesizes goes on
FairSpec == Spec /\ WF_vars(Next)

-----------------------------------------------------------------------------
Succeeded == proc > Len(UttType) /\ ~failed
Past(p) == \E k \in DOMAIN UttType : UttType[k] = p /\ proc > k

\* Invariant: the items of Token that have their bytes are pieces of the text in its
\* order: the bytes from ByteStart to ByteEnd are the name, and what lies between
\* two of them, and once the tokenizer is through after the last, is white space
\* (the byte counting of tokenizer_proc.c and of the stream).  A failure may leave
\* a last item that has its name without its bytes, and then no processor runs on it.
OffsetOf(i) == Bytes(SubSeq(text, 1, i - 1))
IfPlaced(item) == IF item.ByteEnd = Unset THEN <<>> ELSE <<item>>
PlacedItems == FlattenSeq([k \in DOMAIN tokens |-> IfPlaced(tokens[k])])

IsPiece(t) ==
  \E i \in DOMAIN text :
    /\ t.ByteStart = OffsetOf(i) /\ t.ByteEnd = OffsetOf(i + Len(t.name))
    /\ SubSeq(text, i, i + Len(t.name) - 1) = t.name

OnlyWhite(from, to) ==
  /\ from <= to
  /\ \A i \in DOMAIN text :
       from <= OffsetOf(i) /\ OffsetOf(i) < to => text[i] \in White

Tiled ==
  /\ \A k \in DOMAIN PlacedItems :
       /\ IsPiece(PlacedItems[k])
       /\ OnlyWhite(IF k = 1 THEN 0 ELSE PlacedItems[k - 1].ByteEnd, PlacedItems[k].ByteStart)
  /\ Past("Tokenize") /\ "Token" \in rels =>
       OnlyWhite(IF PlacedItems = <<>> THEN 0 ELSE Last(PlacedItems).ByteEnd, Bytes(text))
  /\ \A k \in DOMAIN tokens :
       tokens[k].name # <<>> /\ tokens[k].ByteEnd = Unset => k = Len(tokens) /\ proc = 0

\* the characters of s that are neither white space nor punctuation
Letters(s) == FlattenSeq([i \in DOMAIN s |-> IF s[i] \in StringChars THEN <<s[i]>> ELSE <<>>])

\* Invariant: while there is a Word relation past the normalizer, its words spell
\* in lower case what the text has besides white space and punctuation, whatever
\* failed on the way.
SpellsText ==
  Past("Normalize") /\ "Word" \in rels =>
    FlattenSeq([w \in DOMAIN words |-> words[w].name])
      = LowerCase(Letters(text))

\* Invariant: past phrasify each word is in one phrase, in the order of the words,
\* the words of a token in the same one; only the last phrase may be without a
\* break, and each has its sentence.
PhrasesPartition ==
  Past("Phrasify") /\ "Phrase" \in rels =>
    /\ FlattenSeq([k \in DOMAIN phrases |-> phrases[k].words]) = [w \in DOMAIN words |-> w]
    /\ \A k \in DOMAIN phrases :
         /\ phrases[k].words # <<>>
         /\ k < Len(phrases) =>
              /\ phrases[k].name = "BB"
              /\ words[Last(phrases[k].words)].token < words[Head(phrases[k + 1].words)].token
    /\ sentences = Len(phrases)

\* Invariant: when every processor has succeeded, the segments are those of the
\* words in their order, with a silence before them and one after each phrase
\* that has segments, even when its last words have none (the search backwards
\* of pauses_proc.c), and none elsewhere.
PhraseSegments(phrase) ==
  FlattenSeq([k \in DOMAIN phrase.words |->
    LET w == phrase.words[k] IN SegmentsOf(w, Pronunciation(words[w].name))])

SilenceBetween ==
  Succeeded /\ Past("Pauses") =>
    segments = <<Silence>> \o
      FlattenSeq([k \in DOMAIN phrases |->
        LET spoken == PhraseSegments(phrases[k])
        IN  IF spoken = <<>> THEN spoken ELSE Append(spoken, Silence)])

\* Invariant: SynthUtt returns with an error when a call in a processor has
\* failed.  A processor that removes its relation clears the error, so this
\* rests on a later processor that requires the relation.
Reported == proc \notin DOMAIN UttType /\ failed => error

\* Temporal: with a voice that has a g2p the synthesis of every text comes to its
\* end, whatever fails.  (Without one lexlookup stays at a word it does not find.)
Finishes == voice.g2p => <>(proc \notin DOMAIN UttType)
=============================================================================
