--------------------------- MODULE SynthesisProofs ---------------------------
(***************************************************************************)
(* Proofs about Synthesis and UttBreak, which both read a TokenStream, for *)
(* every alphabet and text.  The tokens that utterances are broken from    *)
(* come in the order of the text.  Of the utterance type that runs all     *)
(* five processors, for every kind of voice: a failure in any of them is   *)
(* reported, the items of Token are pieces of the text, the words spell    *)
(* it, phrasify puts each word in one phrase, and pauses puts a silence    *)
(* after each phrase that has segments.                                    *)
(***************************************************************************)
EXTENDS Synthesis, UttBreak, Counts, SequenceTheorems

\* The hypothesis of the theorems.  With the type that stops after lexlookup a
\* failure of lexlookup is not reported.
Complete == UttType = <<"Tokenize", "Normalize", "Phrasify", "LexLookup", "Pauses">>

-----------------------------------------------------------------------------
(* A failure is reported.  A processor that fails removes what it makes and    *)
(* clears the error, so the failure is carried on by what is missing: the      *)
(* relation that a later processor requires before anything else.              *)

Missing ==
  \/ proc = 2 /\ pc = "start" /\ "Token" \notin rels
  \/ proc = 3 /\ pc = "start" /\ "Word" \notin rels
  \/ proc = 4 /\ "Phrase" \notin rels
  \/ proc = 5 /\ pc = "start" /\ ("Phrase" \notin rels \/ "Segment" \notin rels)

ControlInv ==
  /\ proc \in 0 .. 6
  /\ proc = 0 => error
  /\ proc = 6 => ~failed
  /\ proc \in 1 .. 5 /\ failed => Missing
  /\ proc \in 1 .. 3 \/ (proc = 4 /\ pc = "start") => "Segment" \notin rels

LEMMA RunsAt ==
  ASSUME Complete
  PROVE  /\ \A point : Runs("Tokenize", point) <=> proc = 1 /\ pc = point
         /\ \A point : Runs("Normalize", point) <=> proc = 2 /\ pc = point
         /\ \A point : Runs("Phrasify", point) <=> proc = 3 /\ pc = point
         /\ \A point : Runs("LexLookup", point) <=> proc = 4 /\ pc = point
         /\ \A point : Runs("Pauses", point) <=> proc = 5 /\ pc = point
<1>1. DOMAIN UttType = 1 .. 5
  BY DEF Complete
<1>2. /\ UttType[1] = "Tokenize" /\ UttType[2] = "Normalize" /\ UttType[3] = "Phrasify"
      /\ UttType[4] = "LexLookup" /\ UttType[5] = "Pauses"
  BY DEF Complete
<1> QED BY <1>1, <1>2 DEF Runs

\* "goto quit_error" before any relation was made stops the synthesis.
LEMMA Quits ==
  /\ QuitError({}) => proc' = 0 /\ error' /\ pc' = "start"
  /\ \A R : R # {} /\ QuitError(R) =>
       proc' = proc + 1 /\ failed' /\ pc' = "start" /\ rels' = rels \ R
<1>1. QuitError({}) => proc' = 0 /\ error' /\ pc' = "start"
  BY Zenon DEF QuitError, Returns
<1>2. ASSUME NEW R, R # {}, QuitError(R)
      PROVE  proc' = proc + 1 /\ failed' /\ pc' = "start" /\ rels' = rels \ R
  BY <1>2, Zenon DEF QuitError, Returns
<1> QED BY <1>1, <1>2, Zenon

\* Each step of a processor keeps ControlInv.
LEMMA TokenizeControls ==
  ASSUME Complete, ControlInv, Tokenize
  PROVE  ControlInv'
<1>1. CASE TokenizeStarts
  BY <1>1, RunsAt DEF ControlInv, Missing, TokenizeStarts, Loops, QuitError, Returns
<1>2. CASE TokenizeNext
  BY <1>2, RunsAt DEF ControlInv, Missing, TokenizeNext, Loops
<1>3. CASE TokenizeFails
  BY <1>3, RunsAt DEF ControlInv, Missing, TokenizeFails, QuitError, Returns
<1>4. CASE TokenizeEnds
  BY <1>4, RunsAt DEF ControlInv, Missing, TokenizeEnds, Returns
<1> QED BY <1>1, <1>2, <1>3, <1>4 DEF Tokenize

LEMMA NormalizeControls ==
  ASSUME Complete, ControlInv, Normalize
  PROVE  ControlInv'
<1>1. CASE NormalizeStarts
  BY <1>1, RunsAt, Quits DEF ControlInv, Missing, NormalizeStarts, Loops
<1>2. CASE NormalizeNext
  BY <1>2, RunsAt DEF ControlInv, Missing, NormalizeNext, Loops
<1>3. CASE NormalizeFails
  BY <1>3, RunsAt DEF ControlInv, Missing, NormalizeFails, QuitError, Returns
<1>4. CASE NormalizeEnds
  BY <1>4, RunsAt DEF ControlInv, Missing, NormalizeEnds, Returns
<1> QED BY <1>1, <1>2, <1>3, <1>4 DEF Normalize

LEMMA PhrasifyControls ==
  ASSUME Complete, ControlInv, Phrasify
  PROVE  ControlInv'
<1>1. CASE PhrasifyStarts
  BY <1>1, RunsAt, Quits DEF ControlInv, Missing, PhrasifyStarts, Loops
<1>2. CASE PhrasifyNext
  BY <1>2, RunsAt DEF ControlInv, Missing, PhrasifyNext, Loops
<1>3. CASE PhrasifyFails
  BY <1>3, RunsAt DEF ControlInv, Missing, PhrasifyFails, QuitError, Returns
<1>4. CASE PhrasifyEnds
  BY <1>4, RunsAt DEF ControlInv, Missing, PhrasifyEnds, Returns
<1> QED BY <1>1, <1>2, <1>3, <1>4 DEF Phrasify

LEMMA LexLookupControls ==
  ASSUME Complete, ControlInv, LexLookup
  PROVE  ControlInv'
<1>1. CASE LexLookupStarts
  BY <1>1, RunsAt, Quits DEF ControlInv, Missing, LexLookupStarts, LexRelations, Loops
<1>2. CASE LexLookupDowncase
  BY <1>2, RunsAt DEF ControlInv, Missing, LexLookupDowncase
<1>3. CASE LexLookupNext
  BY <1>3, RunsAt DEF ControlInv, Missing, LexLookupNext, Loops
<1>4. CASE LexLookupMissing
  BY <1>4, RunsAt DEF ControlInv, Missing, LexLookupMissing
<1>5. CASE LexLookupFails
  BY <1>5, RunsAt
  DEF ControlInv, Missing, LexLookupFails, LexRelations, QuitError, Returns
<1>6. CASE LexLookupEnds
  BY <1>6, RunsAt DEF ControlInv, Missing, LexLookupEnds, Returns
<1> QED BY <1>1, <1>2, <1>3, <1>4, <1>5, <1>6 DEF LexLookup

LEMMA PausesControls ==
  ASSUME Complete, ControlInv, Pauses
  PROVE  ControlInv'
<1>1. CASE PausesStarts
  BY <1>1, RunsAt DEF ControlInv, Missing, PausesStarts, Loops, Returns
<1>2. CASE PausesNext
  BY <1>2, RunsAt DEF ControlInv, Missing, PausesNext, Loops
<1>3. CASE PausesFails
  BY <1>3, RunsAt DEF ControlInv, Missing, PausesFails, Returns
<1>4. CASE PausesEnds
  BY <1>4, RunsAt DEF ControlInv, Missing, PausesEnds, Returns
<1> QED BY <1>1, <1>2, <1>3, <1>4 DEF Pauses

\* When the synthesis with all five processors comes back, the error code tells
\* whether a call in any of them has failed, although most failures clear it.
THEOREM FailuresReported ==
  ASSUME Complete
  PROVE  Spec => []Reported
<1>1. Init => ControlInv
  BY DEF Init, ControlInv, Missing
<1>2. ControlInv /\ [Next]_vars => ControlInv'
  <2> SUFFICES ASSUME ControlInv, [Next]_vars PROVE ControlInv'
    OBVIOUS
  <2>1. CASE Next
    BY <2>1, TokenizeControls, NormalizeControls, PhrasifyControls, LexLookupControls,
       PausesControls DEF Next
  <2>2. CASE UNCHANGED vars
    BY <2>2 DEF ControlInv, Missing, vars
  <2> QED BY <2>1, <2>2
<1>3. ControlInv => Reported
  BY DEF ControlInv, Reported, Complete
<1> QED BY <1>1, <1>2, <1>3, PTL DEF Spec

-----------------------------------------------------------------------------
(* Where the processors go, and what they leave.                               *)

\* The processors after the tokenizer leave the stream and the items.
LEMMA StreamLeft ==
  ASSUME Normalize \/ Phrasify \/ LexLookup \/ Pauses
  PROVE  UNCHANGED <<streamVars, tokens>>
<1>1. CASE Normalize
  BY <1>1 DEF Normalize, NormalizeStarts, NormalizeNext, NormalizeFails, NormalizeEnds, uttVars
<1>2. CASE Phrasify
  BY <1>2 DEF Phrasify, PhrasifyStarts, PhrasifyNext, PhrasifyFails, PhrasifyEnds, uttVars
<1>3. CASE LexLookup
  BY <1>3 DEF LexLookup, LexLookupStarts, LexLookupDowncase, LexLookupNext, LexLookupMissing,
              LexLookupFails, LexLookupEnds, uttVars
<1>4. CASE Pauses
  BY <1>4 DEF Pauses, PausesStarts, PausesNext, PausesFails, PausesEnds, uttVars
<1> QED BY <1>1, <1>2, <1>3, <1>4

\* The words, phrases and relations that the processors leave.
LEMMA TokenizeLeaves ==
  ASSUME Tokenize
  PROVE  /\ UNCHANGED <<words, phrases, sentences>>
         /\ "Phrase" \in rels' => "Phrase" \in rels
<1>1. UNCHANGED <<words, phrases, sentences>>
  BY DEF Tokenize, TokenizeStarts, TokenizeNext, TokenizeFails, TokenizeEnds, uttVars
<1>2. rels' = rels \/ rels' = rels \cup {"Token"} \/ rels' = rels \ {"Token"}
  BY DEF Tokenize, TokenizeStarts, TokenizeNext, TokenizeFails, TokenizeEnds, QuitError
<1> QED BY <1>1, <1>2

LEMMA NormalizeLeaves ==
  ASSUME Normalize
  PROVE  /\ UNCHANGED <<phrases, sentences>>
         /\ "Phrase" \in rels' => "Phrase" \in rels
<1>1. UNCHANGED <<phrases, sentences>>
  BY DEF Normalize, NormalizeStarts, NormalizeNext, NormalizeFails, NormalizeEnds, uttVars
<1>2. rels' = rels \/ rels' = rels \cup {"Word"} \/ rels' = rels \ {"Word"} \/ rels' = rels \ {}
  BY DEF Normalize, NormalizeStarts, NormalizeNext, NormalizeFails, NormalizeEnds, QuitError
<1> QED BY <1>1, <1>2

LEMMA PhrasifyLeaves ==
  ASSUME Phrasify
  PROVE  UNCHANGED words
BY DEF Phrasify, PhrasifyStarts, PhrasifyNext, PhrasifyFails, PhrasifyEnds, uttVars

LEMMA LaterLeave ==
  ASSUME LexLookup \/ Pauses
  PROVE  /\ UNCHANGED <<words, phrases, sentences>>
         /\ "Phrase" \in rels' => "Phrase" \in rels
<1>1. UNCHANGED <<words, phrases, sentences>>
  BY DEF LexLookup, LexLookupStarts, LexLookupDowncase, LexLookupNext, LexLookupMissing,
         LexLookupFails, LexLookupEnds,
         Pauses, PausesStarts, PausesNext, PausesFails, PausesEnds, uttVars
<1>2. CASE LexLookup
  <2>1. \/ rels' = rels
        \/ rels' = rels \cup LexRelations
        \/ \E R : rels' = rels \ R
    BY <1>2 DEF LexLookup, LexLookupStarts, LexLookupDowncase, LexLookupNext, LexLookupMissing,
                LexLookupFails, LexLookupEnds, QuitError, uttVars
  <2> QED BY <1>1, <2>1 DEF LexRelations
<1>3. CASE Pauses
  <2>1. rels' = rels
    BY <1>3 DEF Pauses, PausesStarts, PausesNext, PausesFails, PausesEnds
  <2> QED BY <1>1, <2>1
<1> QED BY <1>2, <1>3

\* Where the control goes.
LEMMA Goes ==
  /\ \A err : Returns(err) => (proc' = 0 \/ proc' = proc + 1) /\ pc' = "start" /\ at' = 1
  /\ \A R : QuitError(R) => (proc' = 0 \/ proc' = proc + 1) /\ pc' = "start" /\ at' = 1
  /\ \A point, i : Loops(point, i) => proc' = proc /\ pc' = point /\ at' = i
<1>1. ASSUME NEW err, Returns(err)
      PROVE  (proc' = 0 \/ proc' = proc + 1) /\ pc' = "start" /\ at' = 1
  BY <1>1, Zenon DEF Returns
<1>2. ASSUME NEW R, QuitError(R)
      PROVE  (proc' = 0 \/ proc' = proc + 1) /\ pc' = "start" /\ at' = 1
  BY <1>1, <1>2, Zenon DEF QuitError
<1>3. ASSUME NEW point, NEW i, Loops(point, i) PROVE proc' = proc /\ pc' = point /\ at' = i
  BY <1>3, Zenon DEF Loops
<1> QED BY <1>1, <1>2, <1>3, Zenon

LEMMA TokenizeGoes ==
  ASSUME Complete, Tokenize
  PROVE  proc = 1 /\ (proc' \in 0 .. 1 \/ (proc' = 2 /\ pc' = "start"))
<1>1. proc = 1
  BY RunsAt DEF Tokenize, TokenizeStarts, TokenizeNext, TokenizeFails, TokenizeEnds
<1>2. CASE TokenizeStarts
  BY <1>1, <1>2, Goes DEF TokenizeStarts
<1>3. CASE TokenizeNext
  BY <1>1, <1>3, Goes, RunsAt DEF TokenizeNext
<1>4. CASE TokenizeFails
  <2>1. (proc' = 0 \/ proc' = proc + 1) /\ pc' = "start"
    BY <1>4, Goes, Zenon DEF TokenizeFails
  <2> QED BY <1>1, <2>1
<1>5. CASE TokenizeEnds
  <2>1. (proc' = 0 \/ proc' = proc + 1) /\ pc' = "start"
    BY <1>5, Goes, Zenon DEF TokenizeEnds
  <2> QED BY <1>1, <2>1
<1> QED BY <1>2, <1>3, <1>4, <1>5 DEF Tokenize

LEMMA NormalizeGoes ==
  ASSUME Complete, Normalize
  PROVE  proc = 2 /\ (proc' = 0 \/ (proc' = 2 /\ pc' = "loop") \/ (proc' = 3 /\ pc' = "start"))
<1>1. proc = 2
  BY RunsAt DEF Normalize, NormalizeStarts, NormalizeNext, NormalizeFails, NormalizeEnds
<1>2. CASE NormalizeStarts
  BY <1>1, <1>2, Goes DEF NormalizeStarts
<1>3. CASE NormalizeNext
  BY <1>1, <1>3, Goes, RunsAt DEF NormalizeNext
<1>4. CASE NormalizeFails
  BY <1>1, <1>4, Goes DEF NormalizeFails
<1>5. CASE NormalizeEnds
  <2>1. (proc' = 0 \/ proc' = proc + 1) /\ pc' = "start"
    BY <1>5, Goes, Zenon DEF NormalizeEnds
  <2> QED BY <1>1, <2>1
<1> QED BY <1>2, <1>3, <1>4, <1>5 DEF Normalize

LEMMA PhrasifyGoes ==
  ASSUME Complete, Phrasify
  PROVE  proc = 3 /\ (proc' = 0 \/ (proc' = 3 /\ pc' = "loop") \/ (proc' = 4 /\ pc' = "start"))
<1>1. proc = 3
  BY RunsAt DEF Phrasify, PhrasifyStarts, PhrasifyNext, PhrasifyFails, PhrasifyEnds
<1>2. CASE PhrasifyStarts
  BY <1>1, <1>2, Goes DEF PhrasifyStarts
<1>3. CASE PhrasifyNext
  BY <1>1, <1>3, Goes, RunsAt DEF PhrasifyNext
<1>4. CASE PhrasifyFails
  BY <1>1, <1>4, Goes DEF PhrasifyFails
<1>5. CASE PhrasifyEnds
  <2>1. (proc' = 0 \/ proc' = proc + 1) /\ pc' = "start"
    BY <1>5, Goes, Zenon DEF PhrasifyEnds
  <2> QED BY <1>1, <2>1
<1> QED BY <1>2, <1>3, <1>4, <1>5 DEF Phrasify

LEMMA LaterGoes ==
  ASSUME Complete, LexLookup \/ Pauses
  PROVE  proc \in 4 .. 5 /\ (proc' = 0 \/ proc' \in 4 .. 6)
<1>1. CASE LexLookup
  <2>1. proc = 4
    BY <1>1, RunsAt DEF LexLookup, LexLookupStarts, LexLookupDowncase, LexLookupNext,
                        LexLookupMissing, LexLookupFails, LexLookupEnds
  <2>2. proc' = 0 \/ proc' = proc \/ proc' = proc + 1
    BY <1>1, Goes DEF LexLookup, LexLookupStarts, LexLookupDowncase, LexLookupNext,
                      LexLookupMissing, LexLookupFails, LexLookupEnds
  <2> QED BY <2>1, <2>2
<1>2. CASE Pauses
  <2>1. proc = 5
    BY <1>2, RunsAt DEF Pauses, PausesStarts, PausesNext, PausesFails, PausesEnds
  <2>2. proc' = 0 \/ proc' = proc \/ proc' = proc + 1
    BY <1>2, Goes DEF Pauses, PausesStarts, PausesNext, PausesFails, PausesEnds
  <2> QED BY <2>1, <2>2
<1> QED BY <1>1, <1>2

-----------------------------------------------------------------------------
(* Sequences end to end, when one more comes.                                  *)

LEMMA FlattenIs ==
  ASSUME NEW s, NEW n \in Nat, Len(s) = n, n # 0
  PROVE  \E f : Flat(s, n, f) /\ FlattenSeq(s) = f[n]
<1> DEFINE F(f) == [i \in 1 .. n |-> IF i = 1 THEN s[i] ELSE f[i - 1] \o s[i]]
           whole == CHOOSE f : f = F(f)
<1>1. whole = F(whole)
  BY FlatExists DEF Flat
<1>2. Flat(s, n, whole)
  BY <1>1 DEF Flat
<1>3. FlattenSeq(s) = whole[n]
  BY DEF FlattenSeq
<1> QED BY <1>2, <1>3

LEMMA FlattenNone == FlattenSeq(<<>>) = <<>>
BY DEF FlattenSeq

LEMMA FlatStep ==
  ASSUME NEW s, NEW n \in Nat, NEW f, Flat(s, n, f), NEW i \in 1 .. n
  PROVE  f[i] = IF i = 1 THEN s[i] ELSE f[i - 1] \o s[i]
BY DEF Flat

\* Sequences that begin alike are put together alike.
LEMMA FlatSame ==
  ASSUME NEW n \in Nat, NEW m \in Nat, n <= m, NEW s, NEW t, NEW f, NEW g,
         Flat(s, n, f), Flat(t, m, g), \A i \in 1 .. n : s[i] = t[i]
  PROVE  \A i \in 1 .. n : f[i] = g[i]
<1> DEFINE G == {i \in Nat : i \in 1 .. n => f[i] = g[i]}
<1>1. 0 \in G
  OBVIOUS
<1>2. ASSUME NEW i \in G PROVE i + 1 \in G
  <2> SUFFICES ASSUME i + 1 \in 1 .. n PROVE f[i + 1] = g[i + 1]
    OBVIOUS
  <2>1. i \in Nat /\ i + 1 \in 1 .. m /\ (i + 1 # 1 => i \in 1 .. n) /\ (i + 1) - 1 = i
    OBVIOUS
  <2>2. /\ f[i + 1] = IF i + 1 = 1 THEN s[i + 1] ELSE f[i] \o s[i + 1]
        /\ g[i + 1] = IF i + 1 = 1 THEN t[i + 1] ELSE g[i] \o t[i + 1]
    BY <2>1, FlatStep
  <2>3. s[i + 1] = t[i + 1] /\ (i + 1 # 1 => f[i] = g[i])
    BY <2>1
  <2> QED BY <2>2, <2>3
<1>3. G \in SUBSET Nat
  OBVIOUS
<1> HIDE DEF G
<1>4. G = Nat
  BY <1>1, <1>2, <1>3, NatSetInduction
<1> QED BY <1>4 DEF G

LEMMA FlatType ==
  ASSUME NEW S, NEW n \in Nat, NEW s, NEW f, Flat(s, n, f), \A i \in 1 .. n : s[i] \in Seq(S)
  PROVE  \A i \in 1 .. n : f[i] \in Seq(S)
<1> DEFINE G == {i \in Nat : i \in 1 .. n => f[i] \in Seq(S)}
<1>1. 0 \in G
  OBVIOUS
<1>2. ASSUME NEW i \in G PROVE i + 1 \in G
  <2> SUFFICES ASSUME i + 1 \in 1 .. n PROVE f[i + 1] \in Seq(S)
    OBVIOUS
  <2>1. i \in Nat /\ (i + 1 # 1 => i \in 1 .. n) /\ (i + 1) - 1 = i
    OBVIOUS
  <2>2. f[i + 1] = IF i + 1 = 1 THEN s[i + 1] ELSE f[i] \o s[i + 1]
    BY <2>1, FlatStep
  <2>3. s[i + 1] \in Seq(S) /\ (i + 1 # 1 => f[i] \in Seq(S))
    BY <2>1
  <2> QED BY <2>2, <2>3, ConcatProperties
<1>3. G \in SUBSET Nat
  OBVIOUS
<1> HIDE DEF G
<1>4. G = Nat
  BY <1>1, <1>2, <1>3, NatSetInduction
<1> QED BY <1>4 DEF G

LEMMA FlattenType ==
  ASSUME NEW S, NEW s \in Seq(Seq(S))
  PROVE  FlattenSeq(s) \in Seq(S)
<1>1. PICK n \in Nat : n = Len(s)
  BY LenProperties
<1>2. CASE n = 0
  <2>1. s = <<>>
    BY <1>1, <1>2, EmptySeq
  <2>2. FlattenSeq(s) = <<>>
    BY <2>1, FlattenNone
  <2>3. <<>> \in Seq(S)
    BY EmptySeq
  <2> QED BY <2>2, <2>3
<1>3. CASE n # 0
  <2>1. PICK f : Flat(s, n, f) /\ FlattenSeq(s) = f[n]
    BY <1>1, <1>3, FlattenIs
  <2>2. \A i \in 1 .. n : s[i] \in Seq(S)
    BY <1>1, ElementOfSeq
  <2>3. n \in 1 .. n
    BY <1>3
  <2> QED BY <2>1, <2>2, <2>3, FlatType
<1> QED BY <1>2, <1>3

LEMMA FlattenAppend ==
  ASSUME NEW S, NEW s \in Seq(Seq(S)), NEW x \in Seq(S)
  PROVE  FlattenSeq(Append(s, x)) = FlattenSeq(s) \o x
<1>1. PICK n \in Nat : n = Len(s)
  BY LenProperties
<1>2. PICK t : t = Append(s, x)
  OBVIOUS
<1>3. Len(t) = n + 1 /\ (\A i \in 1 .. n : t[i] = s[i]) /\ t[n + 1] = x
  BY <1>1, <1>2, AppendProperties
<1>4. PICK g : Flat(t, n + 1, g) /\ FlattenSeq(t) = g[n + 1]
  BY <1>3, FlattenIs
<1>5. g[n + 1] = IF n + 1 = 1 THEN x ELSE g[n] \o x
  <2>1. n + 1 \in 1 .. n + 1 /\ (n + 1) - 1 = n /\ n + 1 \in Nat
    OBVIOUS
  <2> QED BY <1>3, <1>4, <2>1, FlatStep
<1>6. CASE n = 0
  <2>1. s = <<>> /\ FlattenSeq(s) = <<>>
    BY <1>1, <1>6, EmptySeq, FlattenNone
  <2>2. <<>> \o x = x
    BY ConcatEmptySeq
  <2> QED BY <1>2, <1>4, <1>5, <1>6, <2>1, <2>2
<1>7. CASE n # 0
  <2>1. PICK f : Flat(s, n, f) /\ FlattenSeq(s) = f[n]
    BY <1>1, <1>7, FlattenIs
  <2>2. n \in 1 .. n /\ n <= n + 1 /\ n + 1 \in Nat
    BY <1>7
  <2>3. f[n] = g[n]
    BY <1>3, <1>4, <2>1, <2>2, FlatSame
  <2> QED BY <1>2, <1>4, <1>5, <1>7, <2>1, <2>3
<1> QED BY <1>6, <1>7

\* One more in the last sequence is one more in the whole.
LEMMA FlattenLonger ==
  ASSUME NEW S, NEW s \in Seq(Seq(S)), NEW x \in Seq(S), NEW e \in S
  PROVE  FlattenSeq(Append(s, Append(x, e))) = Append(FlattenSeq(Append(s, x)), e)
<1>1. PICK a : a = FlattenSeq(s)
  OBVIOUS
<1>2. a \in Seq(S)
  BY <1>1, FlattenType
<1>3. Append(x, e) \in Seq(S) /\ Append(x, e) = x \o <<e>> /\ <<e>> \in Seq(S)
  BY AppendProperties, AppendIsConcat
<1>4. FlattenSeq(Append(s, Append(x, e))) = a \o (x \o <<e>>)
  BY <1>1, <1>3, FlattenAppend
<1>5. FlattenSeq(Append(s, x)) = a \o x
  BY <1>1, FlattenAppend
<1>6. a \o x \in Seq(S)
  BY <1>2, ConcatProperties
<1>7. Append(a \o x, e) = (a \o x) \o <<e>>
  BY <1>6, AppendIsConcat
<1>8. (a \o x) \o <<e>> = a \o (x \o <<e>>)
  BY <1>2, <1>3, ConcatAssociative
<1> QED BY <1>3, <1>4, <1>5, <1>7, <1>8

LEMMA LastOfAppend ==
  ASSUME NEW S, NEW s \in Seq(S), NEW x \in S
  PROVE  Last(Append(s, x)) = x
BY AppendProperties, LenProperties DEF Last

LEMMA LastReplaced ==
  ASSUME NEW S, NEW s \in Seq(S), NEW x \in S, NEW y \in S, NEW n \in Nat, n = Len(s)
  PROVE  [Append(s, x) EXCEPT ![n + 1] = y] = Append(s, y)
<1>1. PICK g : g = Append(s, x)
  OBVIOUS
<1>2. g \in Seq(S) /\ Len(g) = n + 1 /\ \A i \in 1 .. n : g[i] = s[i]
  BY <1>1, AppendProperties
<1>3. PICK u : u = [g EXCEPT ![n + 1] = y]
  OBVIOUS
<1>4. /\ u \in Seq(S) /\ Len(u) = n + 1
      /\ \A i \in 1 .. n + 1 : u[i] = IF i = n + 1 THEN y ELSE g[i]
  <2>1. n + 1 \in 1 .. Len(g)
    BY <1>2
  <2> QED BY <1>2, <1>3, <2>1, ExceptSeq
<1>5. PICK v : v = Append(s, y)
  OBVIOUS
<1>6. v \in Seq(S) /\ Len(v) = n + 1 /\ (\A i \in 1 .. n : v[i] = s[i]) /\ v[n + 1] = y
  BY <1>5, AppendProperties
<1>7. ASSUME NEW i \in 1 .. n + 1 PROVE u[i] = v[i]
  <2>1. i = n + 1 \/ (i # n + 1 /\ i \in 1 .. n)
    OBVIOUS
  <2> QED BY <1>2, <1>4, <1>6, <2>1
<1>8. u = v
  BY <1>4, <1>6, <1>7, SeqEqual
<1> QED BY <1>1, <1>3, <1>5, <1>8

-----------------------------------------------------------------------------
(* What a sequence adds up to, element by element: sequences by a table of     *)
(* sequences, and bytes.                                                       *)

LEMMA SeqSetInduction ==
  ASSUME NEW S, NEW G \in SUBSET Seq(S), <<>> \in G, \A s \in G, e \in S : Append(s, e) \in G
  PROVE  G = Seq(S)
<1> DEFINE N == {n \in Nat : \A s \in Seq(S) : Len(s) = n => s \in G}
<1>1. 0 \in N
  <2> SUFFICES ASSUME NEW s \in Seq(S), Len(s) = 0 PROVE s \in G
    OBVIOUS
  <2>1. s = <<>>
    BY EmptySeq
  <2> QED BY <2>1
<1>2. ASSUME NEW n \in N PROVE n + 1 \in N
  <2> SUFFICES ASSUME NEW s \in Seq(S), Len(s) = n + 1 PROVE s \in G
    OBVIOUS
  <2>1. s # <<>>
    BY EmptySeq
  <2>2. PICK r \in Seq(S), e \in S : s = Append(r, e)
    BY <2>1, SequenceEmptyOrAppend
  <2>3. Len(r) = n
    <3>1. Len(s) = Len(r) + 1 /\ Len(r) \in Nat
      BY <2>2, AppendProperties, LenProperties
    <3> QED BY <3>1
  <2> QED BY <2>2, <2>3
<1>3. N \in SUBSET Nat
  OBVIOUS
<1> HIDE DEF N
<1>4. N = Nat
  BY <1>1, <1>2, <1>3, NatSetInduction
<1>5. ASSUME NEW s \in Seq(S) PROVE s \in G
  <2>1. Len(s) \in N
    BY <1>4, LenProperties
  <2> QED BY <2>1 DEF N
<1> QED BY <1>5

\* The table f of sequences, over the elements of s, end to end.
Mapped(f, s) == [k \in DOMAIN s |-> f[s[k]]]
Total(f, s) == FlattenSeq(Mapped(f, s))

Tables(S, T) == [S -> Seq(T)]

LEMMA MappedType ==
  ASSUME NEW S, NEW T, NEW f \in [S -> T], NEW s \in Seq(S)
  PROVE  Mapped(f, s) \in Seq(T) /\ Len(Mapped(f, s)) = Len(s)
<1>1. Len(s) \in Nat /\ DOMAIN s = 1 .. Len(s) /\ \A k \in 1 .. Len(s) : s[k] \in S
  BY LenProperties, ElementOfSeq
<1>2. PICK m : m = Mapped(f, s)
  OBVIOUS
<1>3. m \in [1 .. Len(s) -> T]
  BY <1>1, <1>2 DEF Mapped
<1>4. PICK n \in Nat : n = Len(s)
  BY <1>1
<1> QED BY <1>2, <1>3, <1>4

LEMMA MappedAppend ==
  ASSUME NEW S, NEW T, NEW f \in [S -> T], NEW s \in Seq(S), NEW e \in S
  PROVE  Mapped(f, Append(s, e)) = Append(Mapped(f, s), f[e])
<1>1. PICK n \in Nat : n = Len(s)
  BY LenProperties
<1>2. PICK a : a = Append(s, e)
  OBVIOUS
<1>3. a \in Seq(S) /\ Len(a) = n + 1 /\ (\A k \in 1 .. n : a[k] = s[k]) /\ a[n + 1] = e
  BY <1>1, <1>2, AppendProperties
<1>4. DOMAIN s = 1 .. n /\ DOMAIN a = 1 .. n + 1 /\ \A k \in 1 .. n : s[k] \in S
  BY <1>1, <1>3, LenProperties, ElementOfSeq
<1>5. PICK m : m = [k \in 1 .. n |-> f[s[k]]]
  OBVIOUS
<1>6. m \in [1 .. n -> T] /\ m = Mapped(f, s)
  BY <1>4, <1>5 DEF Mapped
<1>7. m \in Seq(T) /\ Len(m) = n
  BY <1>6
<1>8. f[e] \in T
  OBVIOUS
<1>9. PICK b : b = Append(m, f[e])
  OBVIOUS
<1>10. b \in Seq(T) /\ Len(b) = n + 1 /\ (\A k \in 1 .. n : b[k] = m[k]) /\ b[n + 1] = f[e]
  BY <1>7, <1>8, <1>9, AppendProperties
<1>11. b \in [1 .. n + 1 -> T]
  BY <1>10, LenProperties
<1>12. ASSUME NEW k \in 1 .. n + 1 PROVE b[k] = f[a[k]]
  <2>1. k \in 1 .. n \/ k = n + 1
    OBVIOUS
  <2> QED BY <1>3, <1>5, <1>10, <2>1
<1>13. b = [k \in 1 .. n + 1 |-> f[a[k]]]
  BY <1>11, <1>12
<1> QED BY <1>2, <1>4, <1>6, <1>9, <1>13 DEF Mapped

LEMMA TotalType ==
  ASSUME NEW S, NEW T, NEW f \in Tables(S, T), NEW s \in Seq(S)
  PROVE  Total(f, s) \in Seq(T)
<1> DEFINE Q == Seq(T)
<1>1. f \in [S -> Q]
  BY DEF Tables
<1> HIDE DEF Q
<1>2. Mapped(f, s) \in Seq(Q)
  BY <1>1, MappedType
<1> QED BY <1>2, FlattenType DEF Total, Q

LEMMA TotalNone ==
  ASSUME NEW f
  PROVE  Total(f, <<>>) = <<>>
<1>1. Mapped(f, <<>>) = <<>>
  BY DEF Mapped
<1> QED BY <1>1, FlattenNone DEF Total

LEMMA TotalAppend ==
  ASSUME NEW S, NEW T, NEW f \in Tables(S, T), NEW s \in Seq(S), NEW e \in S
  PROVE  Total(f, Append(s, e)) = Total(f, s) \o f[e]
<1> DEFINE Q == Seq(T)
<1>1. f \in [S -> Q] /\ f[e] \in Seq(T)
  BY DEF Tables
<1> HIDE DEF Q
<1>2. Mapped(f, s) \in Seq(Q) /\ Mapped(f, Append(s, e)) = Append(Mapped(f, s), f[e])
  BY <1>1, MappedType, MappedAppend
<1>3. Mapped(f, s) \in Seq(Seq(T))
  BY <1>2 DEF Q
<1>4. FlattenSeq(Append(Mapped(f, s), f[e])) = FlattenSeq(Mapped(f, s)) \o f[e]
  BY <1>1, <1>3, FlattenAppend
<1> QED BY <1>2, <1>4 DEF Total

LEMMA TableHas ==
  ASSUME NEW S, NEW T, NEW f \in Tables(S, T), NEW e \in S
  PROVE  f[e] \in Seq(T)
BY DEF Tables

LEMMA TotalOne ==
  ASSUME NEW S, NEW T, NEW f \in Tables(S, T), NEW e \in S
  PROVE  Total(f, <<e>>) = f[e]
<1>1. <<e>> = Append(<<>>, e) /\ <<>> \in Seq(S)
  BY EmptySeq
<1>2. Total(f, Append(<<>>, e)) = Total(f, <<>>) \o f[e]
  BY <1>1, TotalAppend
<1>3. <<>> \o f[e] = f[e]
  BY TableHas, ConcatEmptySeq
<1> QED BY <1>1, <1>2, <1>3, TotalNone

\* Concatenation, for steps that use no more of it than these lemmas.
Cat(a, b) == a \o b

LEMMA CatIs ==
  ASSUME NEW S, NEW a \in Seq(S), NEW b \in Seq(S)
  PROVE  Cat(a, b) \in Seq(S)
BY ConcatProperties DEF Cat

LEMMA CatAssociative ==
  ASSUME NEW S, NEW a \in Seq(S), NEW b \in Seq(S), NEW c \in Seq(S)
  PROVE  Cat(Cat(a, b), c) = Cat(a, Cat(b, c))
BY ConcatAssociative, SMTT(30) DEF Cat

LEMMA CatNone ==
  ASSUME NEW S, NEW a \in Seq(S)
  PROVE  Cat(a, <<>>) = a /\ Cat(<<>>, a) = a
BY ConcatEmptySeq DEF Cat

LEMMA CatOne ==
  ASSUME NEW S, NEW a \in Seq(S), NEW e \in S
  PROVE  Append(a, e) = Cat(a, <<e>>) /\ <<e>> \in Seq(S) /\ Append(a, e) \in Seq(S)
BY AppendIsConcat, AppendProperties DEF Cat

LEMMA TotalCat ==
  ASSUME NEW S, NEW T, NEW f \in Tables(S, T), NEW s \in Seq(S), NEW r \in Seq(S)
  PROVE  Total(f, Cat(s, r)) = Cat(Total(f, s), Total(f, r))
<1> DEFINE Adds(x) == Total(f, Cat(s, x)) = Cat(Total(f, s), Total(f, x))
           G == {x \in Seq(S) : Adds(x)}
<1>0. \A x \in Seq(S) : Total(f, x) \in Seq(T)
  BY TotalType
<1>1. Adds(<<>>)
  <2>1. Cat(s, <<>>) = s /\ Cat(Total(f, s), <<>>) = Total(f, s)
    BY <1>0, CatNone
  <2> QED BY <2>1, TotalNone
<1>2. ASSUME NEW x \in Seq(S), NEW e \in S, Adds(x) PROVE Adds(Append(x, e))
  <2>1. Append(x, e) = Cat(x, <<e>>) /\ <<e>> \in Seq(S)
    BY CatOne
  <2>2. PICK y \in Seq(S) : y = Cat(s, x)
    BY CatIs
  <2>3. Cat(s, Append(x, e)) = Append(y, e)
    <3>1. Cat(s, Cat(x, <<e>>)) = Cat(Cat(s, x), <<e>>)
      <4>1. PICK o \in Seq(S) : o = <<e>>
        BY <2>1
      <4>2. Cat(Cat(s, x), o) = Cat(s, Cat(x, o))
        BY CatAssociative
      <4> QED BY <4>1, <4>2
    <3>2. Append(y, e) = Cat(y, <<e>>)
      BY CatOne
    <3> QED BY <2>1, <2>2, <3>1, <3>2
  <2>4. Total(f, Append(y, e)) = Cat(Total(f, y), f[e])
    BY TotalAppend DEF Cat
  <2>5. Total(f, Append(x, e)) = Cat(Total(f, x), f[e])
    BY TotalAppend DEF Cat
  <2>6. Total(f, s) \in Seq(T) /\ Total(f, x) \in Seq(T) /\ f[e] \in Seq(T)
    BY <1>0, TableHas
  <2>7. Cat(Cat(Total(f, s), Total(f, x)), f[e]) = Cat(Total(f, s), Cat(Total(f, x), f[e]))
    BY <2>6, CatAssociative
  <2> QED BY <1>2, <2>2, <2>3, <2>4, <2>5, <2>7
<1> HIDE DEF Adds
<1>3. <<>> \in G /\ G \in SUBSET Seq(S)
  BY <1>1, EmptySeq
<1>4. ASSUME NEW x \in G, NEW e \in S PROVE Append(x, e) \in G
  BY <1>2, AppendProperties
<1> HIDE DEF G
<1>5. G = Seq(S)
  BY <1>3, <1>4, SeqSetInduction
<1> QED BY <1>5 DEF G, Adds

-----------------------------------------------------------------------------
(* Bytes.                                                                      *)

\* What the bytes are of the first n characters of s is b[n].
Weights(s, n, b) == b = [i \in 0 .. n |-> IF i = 0 THEN 0 ELSE b[i - 1] + Width[s[i]]]

LEMMA WeightsExist ==
  ASSUME NEW s, NEW n \in Nat
  PROVE  \E b : Weights(s, n, b)
<1> DEFINE G == {m \in Nat : \E b : Weights(s, m, b)}
<1>1. 0 \in G
  <2>1. Weights(s, 0, [i \in 0 .. 0 |-> 0])
    BY DEF Weights
  <2> QED BY <2>1
<1>2. ASSUME NEW m \in G PROVE m + 1 \in G
  <2>1. PICK b : Weights(s, m, b)
    BY <1>2
  <2>2. PICK c : c = [i \in 0 .. m + 1 |-> IF i <= m THEN b[i] ELSE b[m] + Width[s[i]]]
    OBVIOUS
  <2>3. m \in Nat
    BY <1>2
  <2>4. \A i \in 0 .. m + 1 : c[i] = IF i = 0 THEN 0 ELSE c[i - 1] + Width[s[i]]
    <3> TAKE i \in 0 .. m + 1
    <3>1. CASE i <= m
      <4>1. b[i] = IF i = 0 THEN 0 ELSE b[i - 1] + Width[s[i]]
        BY <2>1, <2>3, <3>1 DEF Weights
      <4>2. c[i] = b[i] /\ (i # 0 => c[i - 1] = b[i - 1])
        BY <2>2, <2>3, <3>1
      <4> QED BY <4>1, <4>2
    <3>2. CASE i = m + 1
      <4>1. c[i] = b[m] + Width[s[i]] /\ c[i - 1] = b[m] /\ i # 0
        BY <2>2, <2>3, <3>2
      <4> QED BY <4>1
    <3> QED BY <2>3, <3>1, <3>2
  <2>5. c = [i \in 0 .. m + 1 |-> IF i = 0 THEN 0 ELSE c[i - 1] + Width[s[i]]]
    BY <2>2, <2>4, <2>3
  <2> QED BY <2>3, <2>5 DEF Weights
<1>3. G \in SUBSET Nat
  OBVIOUS
<1> HIDE DEF G
<1>4. G = Nat
  BY <1>1, <1>2, <1>3, NatSetInduction
<1> QED BY <1>4 DEF G

LEMMA WeightsStep ==
  ASSUME NEW s, NEW n \in Nat, NEW b, Weights(s, n, b), NEW i \in 1 .. n
  PROVE  b[i] = b[i - 1] + Width[s[i]]
<1>1. i \in 0 .. n /\ i # 0
  OBVIOUS
<1> QED BY <1>1 DEF Weights

LEMMA WeightsNone ==
  ASSUME NEW s, NEW n \in Nat, NEW b, Weights(s, n, b)
  PROVE  b[0] = 0
BY DEF Weights

PieceOf(p, s, k, m) == \A i \in 1 .. m : p[i] = s[k + i]

\* A piece of s weighs what lies between its ends.
LEMMA WeightsOfPiece ==
  ASSUME NEW s, NEW n \in Nat, NEW b, Weights(s, n, b), \A i \in 0 .. n : b[i] \in Nat,
         \A i \in 1 .. n : Width[s[i]] \in Nat,
         NEW k \in 0 .. n, NEW m \in Nat, k + m <= n,
         NEW p, PieceOf(p, s, k, m), NEW c, Weights(p, m, c)
  PROVE  \A i \in 0 .. m : c[i] = b[k + i] - b[k]
<1> DEFINE G == {i \in Nat : i <= m => c[i] = b[k + i] - b[k]}
<1>1. 0 \in G
  BY WeightsNone
<1>2. ASSUME NEW i \in G PROVE i + 1 \in G
  <2> SUFFICES ASSUME i + 1 <= m PROVE c[i + 1] = b[k + (i + 1)] - b[k]
    OBVIOUS
  <2>1. i \in Nat /\ c[i] = b[k + i] - b[k]
    OBVIOUS
  <2>2. PICK j \in 1 .. m : j = i + 1
    BY <2>1
  <2>3. c[j] = c[j - 1] + Width[p[j]]
    BY WeightsStep
  <2>4. PICK l \in 1 .. n : l = k + j
    OBVIOUS
  <2>5. b[l] = b[l - 1] + Width[s[l]]
    BY WeightsStep
  <2>6. p[j] = s[l]
    BY <2>4 DEF PieceOf
  <2>7. c[j] = (b[l - 1] - b[k]) + Width[s[l]]
    <3>1. j - 1 = i /\ l - 1 = k + i
      BY <2>1, <2>2, <2>4
    <3> QED BY <2>1, <2>3, <2>6, <3>1
  <2>8. b[l] \in Nat /\ b[l - 1] \in Nat /\ b[k] \in Nat /\ Width[s[l]] \in Nat
    OBVIOUS
  <2>9. c[j] = b[l] - b[k]
    BY <2>5, <2>7, <2>8
  <2> QED BY <2>2, <2>4, <2>9
<1>3. G \in SUBSET Nat
  OBVIOUS
<1> HIDE DEF G
<1>4. G = Nat
  BY <1>1, <1>2, <1>3, NatSetInduction
<1>5. ASSUME NEW i \in 0 .. m PROVE c[i] = b[k + i] - b[k]
  BY <1>4 DEF G
<1> QED BY <1>5

Weighed(s, n, b) == (\A i \in 0 .. n : b[i] \in Nat) /\ \A i \in 1 .. n : Width[s[i]] \in Nat

LEMMA WeighsBetween ==
  ASSUME NEW s, NEW n, NEW b, NEW k, NEW m, NEW p, NEW c,
         n \in Nat /\ k \in 0 .. n /\ m \in Nat /\ k + m <= n,
         Weights(s, n, b) /\ Weights(p, m, c),
         Weighed(s, n, b), PieceOf(p, s, k, m)
  PROVE  c[m] = b[k + m] - b[k]
<1>1. \A i \in 0 .. m : c[i] = b[k + i] - b[k]
  BY WeightsOfPiece DEF Weighed
<1>2. m \in 0 .. m
  OBVIOUS
<1> QED BY <1>1, <1>2

LEMMA BytesAre ==
  ASSUME NEW s, NEW n \in Nat, Len(s) = n
  PROVE  \E b : Weights(s, n, b) /\ Bytes(s) = b[n]
<1>1. PICK c : Weights(s, n, c)
  BY WeightsExist
<1> DEFINE Sum(b) == b = [i \in 0 .. Len(s) |-> IF i = 0 THEN 0 ELSE b[i - 1] + Width[s[i]]]
<1>2. Sum(c)
  BY <1>1 DEF Weights
<1>3. PICK b : b = CHOOSE x : Sum(x)
  OBVIOUS
<1>4. Sum(b)
  BY <1>2, <1>3
<1>5. Bytes(s) = b[n]
  BY <1>3 DEF Bytes
<1> QED BY <1>4, <1>5 DEF Weights

LEMMA WidthIs ==
  ASSUME NEW c \in Chars
  PROVE  Width[c] \in Nat /\ Width[c] >= 1
BY WidthAssumption

LEMMA WeightsType ==
  ASSUME NEW s \in Seq(Chars), NEW n \in Nat, Len(s) = n, NEW b, Weights(s, n, b)
  PROVE  /\ b \in [0 .. n -> Nat] /\ b[0] = 0
         /\ \A i \in 1 .. n : Width[s[i]] \in Nat /\ b[i] = b[i - 1] + Width[s[i]] /\ b[i - 1] < b[i]
<1>0. \A i \in 1 .. n : b[i] = b[i - 1] + Width[s[i]]
  BY WeightsStep
<1>1. ASSUME NEW i \in 1 .. n PROVE Width[s[i]] \in Nat /\ Width[s[i]] >= 1
  <2>1. s[i] \in Chars
    BY ElementOfSeq
  <2> QED BY <2>1, WidthIs
<1> DEFINE G == {i \in Nat : i <= n => b[i] \in Nat}
<1>2. 0 \in G
  BY WeightsNone
<1>3. ASSUME NEW i \in G PROVE i + 1 \in G
  <2> SUFFICES ASSUME i + 1 <= n PROVE b[i + 1] \in Nat
    OBVIOUS
  <2>1. i \in Nat /\ b[i] \in Nat
    OBVIOUS
  <2>2. PICK j \in 1 .. n : j = i + 1
    BY <2>1
  <2>3. b[j] = b[j - 1] + Width[s[j]] /\ Width[s[j]] \in Nat
    BY <1>0, <1>1
  <2>4. j - 1 = i
    BY <2>1, <2>2
  <2>5. b[j] \in Nat
    BY <2>1, <2>3, <2>4
  <2> QED BY <2>2, <2>5
<1>4. G \in SUBSET Nat
  OBVIOUS
<1> HIDE DEF G
<1>5. G = Nat
  BY <1>2, <1>3, <1>4, NatSetInduction
<1>6. \A i \in 0 .. n : b[i] \in Nat
  BY <1>5 DEF G
<1>7. ASSUME NEW i \in 1 .. n PROVE b[i] = b[i - 1] + Width[s[i]] /\ b[i - 1] < b[i]
  <2>1. b[i] = b[i - 1] + Width[s[i]]
    BY <1>0
  <2>2. b[i - 1] \in Nat
    BY <1>6
  <2> QED BY <1>1, <2>1, <2>2
<1>8. b \in [0 .. n -> Nat]
  <2>1. b = [i \in 0 .. n |-> b[i]]
    BY DEF Weights
  <2> QED BY <1>6, <2>1
<1> QED BY <1>1, <1>7, <1>8, WeightsNone

\* The byte offsets of the places of the text: the offset one after the last
\* character is there, too.
LEMMA OffsetsAre ==
  ASSUME NEW n \in Nat, Len(text) = n, text \in Seq(Chars)
  PROVE  \E b \in [0 .. n -> Nat] :
           /\ b[0] = 0
           /\ \A i \in 1 .. n : b[i] = b[i - 1] + Width[text[i]] /\ b[i - 1] < b[i]
           /\ \A i \in 1 .. n + 1 : \A j \in i .. n + 1 :
                Bytes(SubSeq(text, i, j - 1)) = b[j - 1] - b[i - 1]
<1>1. PICK b : Weights(text, n, b)
  BY WeightsExist
<1>2. /\ b \in [0 .. n -> Nat] /\ b[0] = 0
      /\ \A i \in 1 .. n : Width[text[i]] \in Nat /\ b[i] = b[i - 1] + Width[text[i]] /\ b[i - 1] < b[i]
  BY <1>1, WeightsType
<1>3. ASSUME NEW i \in 1 .. n + 1, NEW j \in i .. n + 1
      PROVE  Bytes(SubSeq(text, i, j - 1)) = b[j - 1] - b[i - 1]
  <2>1. PICK p : p = SubSeq(text, i, j - 1)
    OBVIOUS
  <2>2. PICK m \in Nat : m = j - i
    OBVIOUS
  <2>3. PICK k \in 0 .. n : k = i - 1
    OBVIOUS
  <2>4. Len(p) = m /\ \A l \in 1 .. m : p[l] = text[k + l]
    <3>1. i - 1 <= j - 1 /\ i \in 1 .. Len(text) + 1 /\ j - 1 \in i - 1 .. Len(text)
      OBVIOUS
    <3>2. Len(SubSeq(text, i, j - 1)) = (j - 1) - i + 1
      BY <3>1, SubSeqProperties
    <3>3. \A l \in 1 .. (j - 1) - i + 1 : SubSeq(text, i, j - 1)[l] = text[i + l - 1]
      BY <3>1, SubSeqProperties
    <3>4. Len(p) = m
      BY <2>1, <2>2, <3>2
    <3>5. ASSUME NEW l \in 1 .. m PROVE p[l] = text[k + l]
      <4>1. i + l - 1 = k + l /\ l \in 1 .. (j - 1) - i + 1
        BY <2>2, <2>3
      <4>2. p[l] = text[i + l - 1]
        BY <2>1, <3>3, <4>1
      <4> QED BY <4>1, <4>2
    <3> QED BY <3>4, <3>5
  <2>5. PICK c : Weights(p, m, c) /\ Bytes(p) = c[m]
    BY <2>4, BytesAre
  <2>6. k + m <= n /\ k + m = j - 1 /\ m \in 0 .. m
    BY <2>2, <2>3
  <2>7. c[m] = b[k + m] - b[k]
    <3>1. Weighed(text, n, b)
      BY <1>2 DEF Weighed
    <3>2. k + m <= n /\ PieceOf(p, text, k, m) /\ Weights(p, m, c)
      BY <2>4, <2>5, <2>6 DEF PieceOf
    <3>3. n \in Nat /\ k \in 0 .. n /\ m \in Nat /\ k + m <= n
      BY <2>6
    <3>4. PieceOf(p, text, k, m) /\ Weights(p, m, c) /\ Weights(text, n, b)
      BY <1>1, <3>2
    <3> QED BY <3>1, <3>3, <3>4, WeighsBetween
  <2> QED BY <2>1, <2>3, <2>5, <2>6, <2>7
<1> QED BY <1>2, <1>3

LEMMA SequenceGrows ==
  ASSUME NEW n \in Nat, NEW b \in [0 .. n -> Nat], \A i \in 1 .. n : b[i - 1] < b[i],
         NEW i \in 0 .. n
  PROVE  \A j \in i + 1 .. n : b[i] < b[j]
<1> DEFINE G == {d \in Nat : i + 1 + d <= n => b[i] < b[i + 1 + d]}
<1>1. 0 \in G
  OBVIOUS
<1>2. ASSUME NEW d \in G PROVE d + 1 \in G
  <2> SUFFICES ASSUME i + 1 + (d + 1) <= n PROVE b[i] < b[i + 1 + (d + 1)]
    OBVIOUS
  <2>1. d \in Nat /\ b[i] < b[i + 1 + d]
    OBVIOUS
  <2>2. PICK j \in 1 .. n : j = i + 1 + (d + 1)
    BY <2>1
  <2>3. j - 1 = i + 1 + d /\ b[j - 1] < b[j]
    BY <2>1, <2>2
  <2>4. b[i] \in Nat /\ b[j - 1] \in Nat /\ b[j] \in Nat
    OBVIOUS
  <2>5. b[i] < b[j]
    BY <2>1, <2>3, <2>4
  <2> QED BY <2>2, <2>5
<1>3. G \in SUBSET Nat
  OBVIOUS
<1> HIDE DEF G
<1>4. G = Nat
  BY <1>1, <1>2, <1>3, NatSetInduction
<1>5. ASSUME NEW j \in i + 1 .. n PROVE b[i] < b[j]
  <2>1. PICK d \in Nat : j = i + 1 + d
    <3>1. j - (i + 1) \in Nat /\ j = i + 1 + (j - (i + 1))
      OBVIOUS
    <3> QED BY <3>1
  <2>2. d \in G
    BY <1>4
  <2> QED BY <2>1, <2>2 DEF G
<1> QED BY <1>5

LEMMA Offsets ==
  ASSUME text \in Seq(Chars)
  PROVE  /\ OffsetOf(1) = 0
         /\ \A i \in 1 .. Len(text) + 1 : OffsetOf(i) \in Nat
         /\ \A i \in 1 .. Len(text) : OffsetOf(i + 1) = OffsetOf(i) + Width[text[i]]
         /\ \A i \in 1 .. Len(text) + 1 : \A j \in i .. Len(text) + 1 :
              Bytes(SubSeq(text, i, j - 1)) = OffsetOf(j) - OffsetOf(i)
         /\ \A i \in 1 .. Len(text) + 1 : \A j \in 1 .. Len(text) + 1 :
              i < j => OffsetOf(i) < OffsetOf(j)
<1>1. PICK n \in Nat : n = Len(text)
  BY LenProperties
<1>2. PICK b \in [0 .. n -> Nat] :
           /\ b[0] = 0
           /\ \A i \in 1 .. n : b[i] = b[i - 1] + Width[text[i]] /\ b[i - 1] < b[i]
           /\ \A i \in 1 .. n + 1 : \A j \in i .. n + 1 :
                Bytes(SubSeq(text, i, j - 1)) = b[j - 1] - b[i - 1]
  BY <1>1, OffsetsAre
<1>3. ASSUME NEW i \in 1 .. n + 1 PROVE OffsetOf(i) = b[i - 1] /\ b[i - 1] \in Nat
  <2>1. 1 \in 1 .. n + 1 /\ i \in 1 .. n + 1
    OBVIOUS
  <2>2. Bytes(SubSeq(text, 1, i - 1)) = b[i - 1] - b[1 - 1]
    BY <1>2, <2>1
  <2>3. b[1 - 1] = 0 /\ b[i - 1] \in Nat
    BY <1>2
  <2> QED BY <2>2, <2>3 DEF OffsetOf
<1>4. OffsetOf(1) = 0
  BY <1>2, <1>3
<1>5. ASSUME NEW i \in 1 .. n PROVE OffsetOf(i + 1) = OffsetOf(i) + Width[text[i]]
  <2>1. i + 1 \in 1 .. n + 1 /\ i \in 1 .. n + 1 /\ (i + 1) - 1 = i
    OBVIOUS
  <2>2. OffsetOf(i + 1) = b[i] /\ OffsetOf(i) = b[i - 1]
    BY <1>3, <2>1
  <2> QED BY <1>2, <2>2
<1>6. ASSUME NEW i \in 1 .. n + 1, NEW j \in i .. n + 1
      PROVE  Bytes(SubSeq(text, i, j - 1)) = OffsetOf(j) - OffsetOf(i)
  <2>1. j \in 1 .. n + 1
    OBVIOUS
  <2>2. OffsetOf(i) = b[i - 1] /\ OffsetOf(j) = b[j - 1]
    BY <1>3, <2>1
  <2> QED BY <1>2, <2>2
<1>7. ASSUME NEW i \in 1 .. n + 1, NEW j \in 1 .. n + 1, i < j
      PROVE  OffsetOf(i) < OffsetOf(j)
  <2>1. i - 1 \in 0 .. n /\ j - 1 \in (i - 1) + 1 .. n
    BY <1>7
  <2>2. b[i - 1] < b[j - 1]
    <3>1. PICK k \in 0 .. n : k = i - 1
      BY <2>1
    <3>2. \A l \in k + 1 .. n : b[k] < b[l]
      BY <1>2, SequenceGrows
    <3> QED BY <2>1, <3>1, <3>2
  <2> QED BY <1>3, <2>2
<1> QED BY <1>1, <1>3, <1>4, <1>5, <1>6, <1>7

-----------------------------------------------------------------------------
(* Where a token of the stream is in the text.                                 *)

LEMMA PieceIn ==
  ASSUME text \in Seq(Chars), NEW i \in 1 .. Len(text) + 1, NEW j \in i .. Len(text) + 1
  PROVE  SubSeq(text, i, j - 1) \in Seq(Chars)
<1>1. Len(text) \in Nat /\ \A k \in 1 .. Len(text) : text[k] \in Chars
  BY LenProperties
<1>2. i \in Int /\ j - 1 \in Int /\ \A k \in i .. j - 1 : k \in 1 .. Len(text)
  BY <1>1
<1> QED BY <1>1, <1>2, SubSeqProperties

\* A run of characters ends in the text or one after it.
LEMMA RunEndIs ==
  ASSUME text \in Seq(Chars), NEW i \in 1 .. Len(text) + 1, NEW C
  PROVE  /\ RunEnd(i, C) \in i .. Len(text) + 1
         /\ \A j \in i .. RunEnd(i, C) - 1 : text[j] \in C
         /\ RunEnd(i, C) <= Len(text) => text[RunEnd(i, C)] \notin C
<1> DEFINE IsEnd(q) == /\ \A j \in i .. q - 1 : text[j] \in C
                       /\ q <= Len(text) => text[q] \notin C
           T == {q \in i .. Len(text) + 1 : q = Len(text) + 1 \/ text[q] \notin C}
<1>1. Len(text) \in Nat
  BY LenProperties
<1>2. T \in SUBSET Nat /\ Len(text) + 1 \in T
  BY <1>1
<1>3. PICK n \in T : \A m \in T : n <= m
  BY <1>2, LeastNatural
<1>4. n \in i .. Len(text) + 1
  OBVIOUS
<1>5. ASSUME NEW j \in i .. n - 1 PROVE text[j] \in C
  <2>1. j \in i .. Len(text) + 1 /\ j # Len(text) + 1 /\ ~(n <= j)
    BY <1>1, <1>4
  <2> QED BY <1>3, <2>1
<1>6. n <= Len(text) => text[n] \notin C
  BY <1>1, <1>4
<1>7. \E q \in i .. Len(text) + 1 : IsEnd(q)
  BY <1>4, <1>5, <1>6
<1> HIDE DEF T
<1> QED BY <1>7 DEF RunEnd

LEMMA StringEndIs ==
  ASSUME text \in Seq(Chars), NEW i \in 1 .. Len(text) + 1
  PROVE  /\ StringEnd(i) \in i .. Len(text) + 1
         /\ \A j \in i .. StringEnd(i) - 1 : text[j] \in StringChars
<1>1. Len(text) \in Nat
  BY LenProperties
<1>2. CASE i <= Len(text) /\ text[i] \in Single \cap StringChars
  <2>1. StringEnd(i) = i + 1
    BY <1>2 DEF StringEnd
  <2>2. \A j \in i .. (i + 1) - 1 : j = i
    OBVIOUS
  <2> QED BY <1>1, <1>2, <2>1, <2>2
<1>3. CASE ~(i <= Len(text) /\ text[i] \in Single \cap StringChars)
  <2>1. StringEnd(i) = RunEnd(i, StringChars)
    BY <1>3 DEF StringEnd
  <2> QED BY <2>1, RunEndIs
<1> QED BY <1>2, <1>3

\* White space from a to w, pre-punctuation up to p, a string up to s and
\* post-punctuation up to q.
Parts(a, w, p, s, q) ==
  /\ a \in 1 .. Len(text) + 1 /\ w \in a .. Len(text) + 1 /\ p \in w .. Len(text) + 1
  /\ s \in p .. Len(text) + 1 /\ q \in s .. Len(text) + 1
  /\ \A j \in a .. w - 1 : text[j] \in White
  /\ \A j \in w .. p - 1 : text[j] \in Pre
  /\ \A j \in p .. s - 1 : text[j] \in StringChars
  /\ \A j \in s .. q - 1 : text[j] \in Post

PartsOf(t, a, w, p, s, q) ==
  /\ t.whitespace = SubSeq(text, a, w - 1) /\ t.pre_punc = SubSeq(text, w, p - 1)
  /\ t.string = SubSeq(text, p, s - 1) /\ t.post_punc = SubSeq(text, s, q - 1)
  /\ t.byte_end = OffsetOf(q)

\* The stream counts the bytes up to the character after the one it holds.
Counted ==
  /\ text \in Seq(Chars)
  /\ pos \in 0 .. Len(text)
  /\ IF eof THEN pos = Len(text) ELSE pos >= 1
  /\ byte_pos = OffsetOf(pos + 1)

Token == [whitespace : Seq(Chars), pre_punc : Seq(Chars), string : Seq(Chars),
          post_punc : Seq(Chars), byte_start : Int, byte_end : Int]

LEMMA CountedInit ==
  ASSUME StreamInit
  PROVE  Counted
<1>1. text \in Seq(Chars)
  BY TextsAssumption DEF StreamInit
<1>2. Len(text) \in Nat /\ (text = <<>> <=> Len(text) = 0)
  BY <1>1, LenProperties, EmptySeq
<1>3. pos \in 0 .. Len(text) /\ IF eof THEN pos = Len(text) ELSE pos >= 1
  <2>1. CASE text = <<>>
    <3>1. eof /\ pos = 0
      BY <2>1 DEF StreamInit
    <3> QED BY <1>2, <2>1, <3>1
  <2>2. CASE text # <<>>
    <3>1. ~eof /\ pos = 1
      BY <2>2 DEF StreamInit
    <3> QED BY <1>2, <2>2, <3>1
  <2> QED BY <2>1, <2>2
<1>4. byte_pos = OffsetOf(pos + 1)
  <2>1. (pos + 1) - 1 = pos
    BY <1>3
  <2> QED BY <2>1 DEF OffsetOf, StreamInit
<1> QED BY <1>1, <1>3, <1>4 DEF Counted

\* The stream goes on to place q.
LEMMA ReadsTo ==
  ASSUME Counted, NEW q \in At .. Len(text) + 1, ReadTo(q), UNCHANGED text
  PROVE  /\ Counted' /\ At' = q
         /\ ByteEnd = OffsetOf(q)
         /\ \A i : OffsetOf(i)' = OffsetOf(i)
<1>1. text \in Seq(Chars) /\ Len(text) \in Nat /\ pos \in 0 .. Len(text)
  BY LenProperties DEF Counted
<1>2. At \in 1 .. Len(text) + 1 /\ At \in pos .. pos + 1 /\ (~eof => At = pos)
  BY <1>1 DEF Counted, At
<1>3. PICK r : r = pos'
  OBVIOUS
<1>4. /\ q > Len(text) => eof' /\ r = Len(text)
      /\ ~(q > Len(text)) => ~eof' /\ r = q
  BY <1>3 DEF ReadTo
<1>12. /\ eof' => r = Len(text) /\ q = Len(text) + 1
       /\ ~eof' => r = q /\ q \in 1 .. Len(text)
  BY <1>1, <1>2, <1>4
<1>5. r \in pos .. Len(text) /\ r \in 0 .. Len(text) /\ r + 1 \in pos + 1 .. Len(text) + 1
  BY <1>1, <1>2, <1>4
<1>6. \A i : OffsetOf(i)' = OffsetOf(i)
  BY DEF OffsetOf, Bytes
<1>7. byte_pos' = OffsetOf(r + 1)
  <2>1. pos + 1 \in 1 .. Len(text) + 1
    BY <1>1
  <2>2. Bytes(SubSeq(text, pos + 1, (r + 1) - 1)) = OffsetOf(r + 1) - OffsetOf(pos + 1)
    BY <1>1, <1>5, <2>1, Offsets
  <2>3. (r + 1) - 1 = r
    BY <1>5
  <2>4. byte_pos' = byte_pos + Bytes(SubSeq(text, pos + 1, r))
    BY <1>3 DEF ReadTo
  <2>5. OffsetOf(r + 1) \in Nat /\ OffsetOf(pos + 1) \in Nat
    <3>1. r + 1 \in 1 .. Len(text) + 1
      BY <1>5
    <3> QED BY <1>1, <2>1, <3>1, Offsets
  <2>6. byte_pos = OffsetOf(pos + 1)
    BY DEF Counted
  <2> QED BY <2>2, <2>3, <2>4, <2>5, <2>6
<1>8. IF eof' THEN r = Len(text) ELSE r >= 1
  BY <1>12
<1>9. At' = q
  BY <1>3, <1>12 DEF At
<1>10. Counted'
  <2>1. OffsetOf(pos + 1)' = OffsetOf(r + 1)
    BY <1>3 DEF OffsetOf, Bytes
  <2> QED BY <1>1, <1>3, <1>5, <1>7, <1>8, <2>1 DEF Counted
<1>11. ByteEnd = OffsetOf(q)
  <2>1. CASE eof'
    <3>1. r + 1 = q
      BY <1>12, <2>1
    <3> QED BY <1>7, <2>1, <3>1 DEF ByteEnd
  <2>2. CASE ~eof'
    <3>1. r = q /\ q \in 1 .. Len(text)
      BY <1>12, <2>2
    <3>2. OffsetOf(q + 1) = OffsetOf(q) + Width[text[q]] /\ OffsetOf(q) \in Nat
      BY <1>1, <3>1, Offsets
    <3>3. Width[text[q]] \in Nat
      <4>1. text[q] \in Chars
        BY <1>1, <3>1, ElementOfSeq
      <4> QED BY <4>1, WidthIs
    <3>4. ByteEnd = byte_pos' - Width[text[q]]
      BY <1>3, <2>2, <3>1 DEF ByteEnd
    <3> QED BY <1>7, <3>1, <3>2, <3>3, <3>4
  <2> QED BY <2>1, <2>2
<1> QED BY <1>6, <1>9, <1>10, <1>11

\* The stream reads a token: its parts lie in the text from the place it is at,
\* and it stays at their end.  At the end of the text there is nothing to read.
LEMMA ReadsToken ==
  ASSUME Counted, ReadToken
  PROVE  /\ Counted' /\ UNCHANGED text /\ \A i : OffsetOf(i)' = OffsetOf(i)
         /\ At \in 1 .. Len(text) + 1 /\ (eof <=> At = Len(text) + 1)
         /\ currentToken' \in Token
         /\ currentToken'.byte_end = OffsetOf(At')
         /\ ~eof => currentToken'.byte_start = OffsetOf(At)
         /\ eof => currentToken'.string = <<>>
         /\ \E w, p, s : Parts(At, w, p, s, At') /\ PartsOf(currentToken', At, w, p, s, At')
<1>1. text \in Seq(Chars) /\ Len(text) \in Nat /\ pos \in 0 .. Len(text)
  BY LenProperties DEF Counted
<1>2. PICK a : a = At
  OBVIOUS
<1>3. PICK n \in Nat : n = Len(text)
  BY <1>1
<1>4. /\ a \in 1 .. n + 1
      /\ eof => a = n + 1 /\ pos = n
      /\ ~eof => a = pos /\ a # n + 1
  BY <1>1, <1>2, <1>3 DEF Counted, At
<1>5. PICK w : w = RunEnd(a, White)
  OBVIOUS
<1>6. w \in a .. n + 1 /\ w \in 1 .. n + 1 /\ \A j \in a .. w - 1 : text[j] \in White
  <2>1. w \in a .. n + 1 /\ \A j \in a .. w - 1 : text[j] \in White
    BY <1>1, <1>3, <1>4, <1>5, RunEndIs
  <2> QED BY <1>4, <2>1
<1>7. PICK p : p = RunEnd(w, Pre)
  OBVIOUS
<1>8. p \in w .. n + 1 /\ p \in 1 .. n + 1 /\ \A j \in w .. p - 1 : text[j] \in Pre
  <2>1. p \in w .. n + 1 /\ \A j \in w .. p - 1 : text[j] \in Pre
    BY <1>1, <1>3, <1>6, <1>7, RunEndIs
  <2> QED BY <1>6, <2>1
<1>9. PICK s : s = StringEnd(p)
  OBVIOUS
<1>10. s \in p .. n + 1 /\ s \in 1 .. n + 1 /\ \A j \in p .. s - 1 : text[j] \in StringChars
  <2>1. s \in p .. n + 1 /\ \A j \in p .. s - 1 : text[j] \in StringChars
    BY <1>1, <1>3, <1>8, <1>9, StringEndIs
  <2> QED BY <1>8, <2>1
<1>11. PICK q : q = RunEnd(s, Post)
  OBVIOUS
<1>12. q \in s .. n + 1 /\ q \in a .. n + 1 /\ \A j \in s .. q - 1 : text[j] \in Post
  <2>1. q \in s .. n + 1 /\ \A j \in s .. q - 1 : text[j] \in Post
    BY <1>1, <1>3, <1>10, <1>11, RunEndIs
  <2>2. a <= s /\ a \in Nat /\ s \in Nat
    BY <1>4, <1>6, <1>8, <1>10
  <2>3. q \in s .. n + 1
    BY <2>1
  <2>4. q \in a .. n + 1
    BY <2>2, <2>3
  <2> QED BY <2>1, <2>4
<1>13. /\ ReadTo(q) /\ UNCHANGED text
       /\ currentToken' = [whitespace |-> SubSeq(text, a, w - 1), pre_punc |-> SubSeq(text, w, p - 1),
                           string |-> SubSeq(text, p, s - 1), post_punc |-> SubSeq(text, s, q - 1),
                           byte_start |-> byte_pos - CurrentWidth, byte_end |-> ByteEnd]
  BY <1>2, <1>5, <1>7, <1>9, <1>11 DEF ReadToken
<1>14. q \in At .. Len(text) + 1
  BY <1>2, <1>3, <1>12
<1>15. Counted' /\ At' = q /\ ByteEnd = OffsetOf(q) /\ \A i : OffsetOf(i)' = OffsetOf(i)
  BY <1>13, <1>14, ReadsTo
<1>16. \A i \in 1 .. n + 1 : OffsetOf(i) \in Nat
  BY <1>1, <1>3, Offsets
<1>17. q \in 1 .. n + 1
  BY <1>4, <1>12
<1>18. byte_pos - CurrentWidth \in Int /\ (~eof => byte_pos - CurrentWidth = OffsetOf(a))
  <2>1. byte_pos = OffsetOf(pos + 1) /\ pos + 1 \in 1 .. n + 1
    BY <1>1, <1>3 DEF Counted
  <2>2. byte_pos \in Nat
    BY <1>16, <2>1
  <2>3. CASE eof
    <3>1. CurrentWidth = 1
      BY <2>3 DEF CurrentWidth
    <3> QED BY <2>2, <2>3, <3>1
  <2>4. CASE ~eof
    <3>1. a = pos /\ a \in 1 .. n /\ CurrentWidth = Width[text[a]]
      BY <1>4, <2>4 DEF CurrentWidth
    <3>2. OffsetOf(a + 1) = OffsetOf(a) + Width[text[a]]
      BY <1>1, <1>3, <3>1, Offsets
    <3>3. Width[text[a]] \in Nat
      <4>1. text[a] \in Chars
        BY <1>1, <1>3, <3>1, ElementOfSeq
      <4> QED BY <4>1, WidthIs
    <3>4. OffsetOf(a) \in Nat
      BY <1>4, <1>16
    <3> QED BY <2>1, <3>1, <3>2, <3>3, <3>4
  <2> QED BY <2>3, <2>4
<1>19. currentToken' \in Token
  <2>1. SubSeq(text, a, w - 1) \in Seq(Chars) /\ SubSeq(text, w, p - 1) \in Seq(Chars)
    BY <1>1, <1>3, <1>4, <1>6, <1>8, PieceIn
  <2>2. SubSeq(text, p, s - 1) \in Seq(Chars) /\ SubSeq(text, s, q - 1) \in Seq(Chars)
    BY <1>1, <1>3, <1>8, <1>10, <1>12, PieceIn
  <2>3. ByteEnd \in Int
    BY <1>15, <1>16, <1>17
  <2> QED BY <1>13, <1>18, <2>1, <2>2, <2>3 DEF Token
<1>20. eof => currentToken'.string = <<>>
  <2> SUFFICES ASSUME eof PROVE SubSeq(text, p, s - 1) = <<>>
    BY <1>13
  <2>1. p = n + 1 /\ s = n + 1
    BY <1>4, <1>6, <1>8, <1>10
  <2>2. Len(SubSeq(text, n + 1, n)) = 0 /\ SubSeq(text, n + 1, n) \in Seq(Chars)
    BY <1>1, <1>3, SubSeqProperties
  <2>3. (n + 1) - 1 = n
    OBVIOUS
  <2> QED BY <2>1, <2>2, <2>3, EmptySeq
<1>21. Parts(a, w, p, s, q)
  BY <1>3, <1>4, <1>6, <1>8, <1>10, <1>12 DEF Parts
<1>22. /\ currentToken'.byte_start = byte_pos - CurrentWidth /\ currentToken'.byte_end = OffsetOf(q)
       /\ PartsOf(currentToken', a, w, p, s, q)
  BY <1>13, <1>15 DEF PartsOf
<1>23. At \in 1 .. Len(text) + 1 /\ (eof <=> At = Len(text) + 1)
  BY <1>2, <1>3, <1>4
<1>24. \E x, y, z : Parts(At, x, y, z, At') /\ PartsOf(currentToken', At, x, y, z, At')
  BY <1>2, <1>15, <1>21, <1>22
<1> QED BY <1>2, <1>13, <1>15, <1>18, <1>19, <1>20, <1>22, <1>23, <1>24

-----------------------------------------------------------------------------
(* Every token is in one utterance, in the order of the text.                  *)

EndOf(items) == IF items = <<>> THEN 0 ELSE Last(items).byte_end

Chained(items) ==
  \A i \in 1 .. Len(items) :
    items[i].byte_start = IF i = 1 THEN 0 ELSE items[i - 1].byte_end

LEMMA ChainGrows ==
  ASSUME NEW items \in Seq(Token), Chained(items), NEW t \in Token, t.byte_start = EndOf(items)
  PROVE  /\ Append(items, t) \in Seq(Token)
         /\ Chained(Append(items, t)) /\ EndOf(Append(items, t)) = t.byte_end
<1>1. PICK n \in Nat : n = Len(items)
  BY LenProperties
<1>2. PICK r : r = Append(items, t)
  OBVIOUS
<1>3. /\ r \in Seq(Token) /\ Len(r) = n + 1 /\ r # <<>>
      /\ (\A k \in 1 .. n : r[k] = items[k]) /\ r[n + 1] = t
  BY <1>1, <1>2, AppendProperties
<1>4. Last(r) = t
  BY <1>2, LastOfAppend
<1>5. EndOf(items) = IF n = 0 THEN 0 ELSE items[n].byte_end
  <2>1. items = <<>> <=> n = 0
    BY <1>1, EmptySeq
  <2> QED BY <1>1, <2>1 DEF EndOf, Last
<1>6. ASSUME NEW i \in 1 .. n + 1
      PROVE  r[i].byte_start = IF i = 1 THEN 0 ELSE r[i - 1].byte_end
  <2>1. CASE i = n + 1
    <3>1. r[i].byte_start = EndOf(items)
      BY <1>3, <2>1
    <3>2. n # 0 => n \in 1 .. n
      OBVIOUS
    <3>3. n # 0 => r[i - 1] = items[n]
      BY <1>3, <2>1, <3>2
    <3> QED BY <1>5, <2>1, <3>1, <3>3
  <2>2. CASE i # n + 1
    <3>1. i \in 1 .. n /\ (i # 1 => i - 1 \in 1 .. n)
      BY <2>2
    <3>2. items[i].byte_start = IF i = 1 THEN 0 ELSE items[i - 1].byte_end
      BY <1>1, <3>1 DEF Chained
    <3>3. r[i] = items[i] /\ (i # 1 => r[i - 1] = items[i - 1])
      BY <1>3, <3>1
    <3> QED BY <3>2, <3>3
  <2> QED BY <2>1, <2>2
<1> QED BY <1>2, <1>3, <1>4, <1>6 DEF Chained, EndOf

\* A token that was peeked ends where the stream goes on.
PeekedInv ==
  /\ Counted
  /\ peeked \in BOOLEAN
  /\ peeked => currentToken \in Token /\ currentToken.byte_end = OffsetOf(At)

InOrderInv ==
  /\ PeekedInv
  /\ utts \in Seq(Seq(Token))
  /\ Chained(Items)
  /\ place = "caller" /\ ~eof => EndOf(Items) = Onward
  /\ place = "first" => peeked /\ EndOf(Items) = currentToken.byte_start
  /\ place = "loop" => ~peeked /\ EndOf(Items) = OffsetOf(At) /\ utts # <<>>
  /\ place = "peeked" => /\ peeked /\ utts # <<>>
                         /\ \/ EndOf(Items) = currentToken.byte_start
                            \/ eof /\ currentToken.string = <<>>

BreakInv == place # "failed" => InOrderInv

LEMMA ItemsAre ==
  ASSUME utts \in Seq(Seq(Token))
  PROVE  Items \in Seq(Token)
BY FlattenType DEF Items

LEMMA InOrderHolds ==
  ASSUME BreakInv
  PROVE  InOrder
<1> SUFFICES ASSUME place # "failed" PROVE InOrder
  BY DEF InOrder
<1>1. InOrderInv
  BY DEF BreakInv
<1>2. PICK items : items = Items
  OBVIOUS
<1>3. items \in Seq(Token) /\ Chained(items)
  BY <1>1, <1>2, ItemsAre DEF InOrderInv
<1>4. DOMAIN items = 1 .. Len(items)
  BY <1>3, LenProperties
<1>5. \A i \in DOMAIN items : items[i].byte_start = IF i = 1 THEN 0 ELSE items[i - 1].byte_end
  BY <1>3, <1>4 DEF Chained
<1>6. ASSUME place \in {"caller", "loop"}, items # <<>>, ~eof
      PROVE  Last(items).byte_end = Onward
  <2>1. Last(items).byte_end = EndOf(items)
    BY <1>6 DEF EndOf
  <2>2. CASE place = "caller"
    BY <1>1, <1>2, <1>6, <2>1, <2>2 DEF InOrderInv
  <2>3. CASE place = "loop"
    <3>1. ~peeked /\ EndOf(items) = OffsetOf(At)
      BY <1>1, <1>2, <2>3 DEF InOrderInv
    <3> QED BY <2>1, <3>1 DEF Onward, OffsetOf
  <2> QED BY <1>6, <2>2, <2>3
<1> QED BY <1>2, <1>5, <1>6 DEF InOrder

LEMMA BreakInitially ==
  ASSUME BreakInit
  PROVE  BreakInv
<1>1. Counted
  BY CountedInit DEF BreakInit
<1>2. peeked = FALSE /\ utts = <<>> /\ place = "caller"
  BY DEF BreakInit, StreamInit
<1>3. Items = <<>> /\ utts \in Seq(Seq(Token))
  BY <1>2, FlattenNone DEF Items
<1>4. PeekedInv
  BY <1>1, <1>2 DEF PeekedInv
<1>5. Chained(<<>>) /\ EndOf(<<>>) = 0
  BY DEF Chained, EndOf
<1>6. ~eof => EndOf(Items) = Onward
  <2> SUFFICES ASSUME ~eof PROVE Onward = 0
    BY <1>3, <1>5
  <2>1. pos = 1 /\ At = 1
    BY DEF BreakInit, StreamInit, At
  <2>2. Onward = OffsetOf(1)
    BY <1>2, <2>1 DEF Onward, OffsetOf
  <2> QED BY <1>1, <2>2, Offsets DEF Counted
<1> QED BY <1>2, <1>3, <1>4, <1>5, <1>6 DEF BreakInv, InOrderInv

LEMMA PeekedKept ==
  ASSUME PeekedInv, UNCHANGED <<text, pos, byte_pos, eof, currentToken>>, peeked' \in BOOLEAN,
         peeked' => peeked
  PROVE  PeekedInv' /\ At' = At /\ \A i : OffsetOf(i)' = OffsetOf(i)
<1>1. At' = At /\ \A i : OffsetOf(i)' = OffsetOf(i)
  BY DEF At, OffsetOf, Bytes
<1>2. OffsetOf(At)' = OffsetOf(At) /\ OffsetOf(pos + 1)' = OffsetOf(pos + 1)
  BY DEF At, OffsetOf, Bytes
<1>3. Counted'
  BY <1>2 DEF PeekedInv, Counted
<1> QED BY <1>1, <1>2, <1>3 DEF PeekedInv

LEMMA Peeks ==
  ASSUME PeekedInv, PeekToken
  PROVE  /\ PeekedInv' /\ peeked'
         /\ peeked => UNCHANGED streamVars
         /\ ~peeked /\ ~eof => currentToken'.byte_start = OffsetOf(At)
         /\ ~peeked /\ eof => eof' /\ currentToken'.string = <<>>
<1>1. CASE peeked
  <2>1. UNCHANGED streamVars
    BY <1>1, Zenon DEF PeekToken
  <2>2. PeekedInv'
    <3>1. UNCHANGED <<text, pos, byte_pos, eof, currentToken>> /\ peeked' = peeked
      BY <2>1 DEF streamVars
    <3>2. peeked' \in BOOLEAN /\ (peeked' => peeked)
      BY <3>1, Zenon DEF PeekedInv
    <3> QED BY <3>1, <3>2, PeekedKept
  <2> QED BY <1>1, <2>1, <2>2 DEF streamVars
<1>2. CASE ~peeked
  <2>1. ReadToken /\ peeked'
    BY <1>2, Zenon DEF PeekToken
  <2>2. peeked' = TRUE
    BY <1>2, Zenon DEF PeekToken
  <2>3. Counted
    BY DEF PeekedInv
  <2>4. /\ Counted' /\ UNCHANGED text /\ (\A i : OffsetOf(i)' = OffsetOf(i))
        /\ At \in 1 .. Len(text) + 1 /\ (eof <=> At = Len(text) + 1)
        /\ currentToken' \in Token /\ currentToken'.byte_end = OffsetOf(At')
        /\ (~eof => currentToken'.byte_start = OffsetOf(At))
        /\ (eof => currentToken'.string = <<>>)
        /\ \E w, p, s : Parts(At, w, p, s, At') /\ PartsOf(currentToken', At, w, p, s, At')
    BY <2>1, <2>3, ReadsToken
  <2>5. OffsetOf(At)' = OffsetOf(At')
    BY <2>4 DEF OffsetOf, Bytes
  <2>6. PeekedInv'
    BY <2>2, <2>4, <2>5 DEF PeekedInv
  <2>7. eof => eof'
    <3> SUFFICES ASSUME eof PROVE eof'
      OBVIOUS
    <3>1. At' \in At .. Len(text) + 1
      <4>1. PICK w, p, s : Parts(At, w, p, s, At')
        BY <2>4
      <4>2. Len(text) \in Nat
        BY <2>3, LenProperties DEF Counted
      <4> QED BY <4>1, <4>2 DEF Parts
    <3>2. At' = Len(text) + 1
      BY <2>4, <3>1
    <3>3. Len(text) \in Nat /\ pos' \in 0 .. Len(text)
      BY <2>3, <2>4, LenProperties DEF Counted
    <3> QED BY <2>4, <3>2, <3>3 DEF At
  <2> QED BY <1>2, <2>1, <2>4, <2>6, <2>7
<1> QED BY <1>1, <1>2

\* The token that was peeked is taken.
LEMMA Takes ==
  ASSUME PeekedInv, GetToken, peeked
  PROVE  /\ PeekedInv' /\ ~peeked' /\ At' = At
         /\ currentToken' = currentToken /\ currentToken \in Token
         /\ OffsetOf(At)' = currentToken.byte_end
<1>1. peeked' = FALSE /\ UNCHANGED <<text, pos, byte_pos, eof, currentToken>>
  BY Zenon DEF GetToken
<1>2. peeked' \in BOOLEAN /\ (peeked' => peeked)
  BY <1>1
<1>3. PeekedInv' /\ At' = At
  BY <1>1, <1>2, PeekedKept
<1>4. OffsetOf(At)' = OffsetOf(At)
  BY <1>1 DEF OffsetOf, Bytes, At
<1> QED BY <1>1, <1>3, <1>4 DEF PeekedInv

LEMMA AppendIn ==
  ASSUME NEW S, NEW s \in Seq(S), NEW x \in S
  PROVE  Append(s, x) \in Seq(S) /\ Append(s, x) # <<>>
BY AppendProperties

LEMMA Extends ==
  ASSUME NEW us \in Seq(Seq(Token)), us # <<>>, NEW t \in Token
  PROVE  /\ [us EXCEPT ![Len(us)] = Append(@, t)] \in Seq(Seq(Token))
         /\ [us EXCEPT ![Len(us)] = Append(@, t)] # <<>>
         /\ FlattenSeq([us EXCEPT ![Len(us)] = Append(@, t)]) = Append(FlattenSeq(us), t)
<1>1. PICK vs \in Seq(Seq(Token)), x \in Seq(Token) : us = Append(vs, x)
  BY SequenceEmptyOrAppend
<1>2. PICK n \in Nat : n = Len(vs)
  BY LenProperties
<1>3. Len(us) = n + 1 /\ us[n + 1] = x
  BY <1>1, <1>2, AppendProperties
<1>4. PICK y \in Seq(Token) : y = Append(x, t)
  BY AppendProperties
<1>5. [us EXCEPT ![Len(us)] = Append(@, t)] = [Append(vs, x) EXCEPT ![n + 1] = y]
  BY <1>1, <1>3, <1>4
<1> DEFINE Q == Seq(Token)
<1>6. vs \in Seq(Q) /\ x \in Q /\ y \in Q
  OBVIOUS
<1> HIDE DEF Q
<1>7. [Append(vs, x) EXCEPT ![n + 1] = y] = Append(vs, y)
  BY <1>2, <1>6, LastReplaced
<1>8. Append(vs, y) \in Seq(Q) /\ Append(vs, y) # <<>>
  BY <1>6, AppendIn
<1>9. FlattenSeq(Append(vs, Append(x, t))) = Append(FlattenSeq(Append(vs, x)), t)
  BY FlattenLonger
<1> QED BY <1>1, <1>4, <1>5, <1>7, <1>8, <1>9 DEF Q

LEMMA GetNextUttBreaks ==
  ASSUME BreakInv, GetNextUtt
  PROVE  BreakInv'
<1>1. place = "caller" /\ utts' = utts /\ InOrderInv
  BY DEF GetNextUtt, BreakInv
<1>2. Items' = Items
  BY <1>1 DEF Items
<1>3. PeekedInv /\ utts \in Seq(Seq(Token)) /\ Chained(Items) /\ (~eof => EndOf(Items) = Onward)
  BY <1>1 DEF InOrderInv
<1>4. CASE eof
  <2>1. place' = "null" /\ UNCHANGED streamVars
    BY <1>4 DEF GetNextUtt
  <2>2. UNCHANGED <<text, pos, byte_pos, eof, currentToken>> /\ peeked' = peeked
    BY <2>1 DEF streamVars
  <2>3. peeked' \in BOOLEAN /\ (peeked' => peeked)
    BY <1>3, <2>2, Zenon DEF PeekedInv
  <2>4. PeekedInv'
    BY <1>3, <2>2, <2>3, PeekedKept
  <2> QED BY <1>1, <1>2, <1>3, <2>1, <2>4 DEF BreakInv, InOrderInv
<1>5. CASE ~eof
  <2>1. place' = "first" /\ PeekToken
    BY <1>5 DEF GetNextUtt
  <2>2. /\ PeekedInv' /\ peeked'
        /\ peeked => UNCHANGED streamVars
        /\ ~peeked => currentToken'.byte_start = OffsetOf(At)
    BY <1>3, <1>5, <2>1, Peeks
  <2>3. EndOf(Items) = currentToken'.byte_start
    <3>1. CASE peeked
      <4>1. Onward = currentToken.byte_start /\ currentToken' = currentToken
        BY <2>2, <3>1 DEF Onward, streamVars
      <4> QED BY <1>3, <1>5, <4>1
    <3>2. CASE ~peeked
      <4>1. Onward = OffsetOf(At)
        BY <3>2 DEF Onward, OffsetOf
      <4> QED BY <1>3, <1>5, <2>2, <3>2, <4>1
    <3> QED BY <3>1, <3>2
  <2> QED BY <1>1, <1>2, <1>3, <2>1, <2>2, <2>3 DEF BreakInv, InOrderInv
<1> QED BY <1>4, <1>5

LEMMA FirstTokenBreaks ==
  ASSUME BreakInv, FirstToken
  PROVE  BreakInv'
<1>1. place = "first" /\ InOrderInv
  BY DEF FirstToken, BreakInv
<1>2. PeekedInv /\ utts \in Seq(Seq(Token)) /\ Chained(Items) /\ peeked
      /\ EndOf(Items) = currentToken.byte_start
  BY <1>1 DEF InOrderInv
<1>3. CASE place' = "null" /\ UNCHANGED <<streamVars, utts>>
  <2>1. UNCHANGED <<text, pos, byte_pos, eof, currentToken, utts>> /\ peeked' = peeked
    BY <1>3 DEF streamVars
  <2>2. peeked' \in BOOLEAN /\ (peeked' => peeked)
    BY <1>2, <2>1, Zenon DEF PeekedInv
  <2>3. PeekedInv' /\ Items' = Items
    BY <1>2, <2>1, <2>2, PeekedKept DEF Items
  <2> QED BY <1>2, <1>3, <2>1, <2>3 DEF BreakInv, InOrderInv
<1>4. CASE GetToken /\ utts' = Append(utts, <<currentToken'>>) /\ place' = "loop"
  <2>1. /\ PeekedInv' /\ ~peeked' /\ currentToken' = currentToken /\ currentToken \in Token
        /\ OffsetOf(At)' = currentToken.byte_end
    BY <1>2, <1>4, Takes
  <2>2. PICK t \in Token : t = currentToken
    BY <2>1
  <2>3. <<t>> \in Seq(Token) /\ Items \in Seq(Token)
    BY <1>2, ItemsAre
  <2>4. utts' = Append(utts, <<t>>) /\ utts' \in Seq(Seq(Token)) /\ utts' # <<>>
    <3>1. Append(utts, <<t>>) \in Seq(Seq(Token)) /\ Append(utts, <<t>>) # <<>>
      BY <1>2, <2>3, AppendProperties
    <3> QED BY <1>4, <2>1, <2>2, <3>1
  <2>5. Items' = Append(Items, t)
    <3>1. FlattenSeq(Append(utts, <<t>>)) = FlattenSeq(utts) \o <<t>>
      BY <1>2, <2>3, FlattenAppend
    <3>2. Append(Items, t) = Items \o <<t>>
      BY <2>3, AppendIsConcat
    <3> QED BY <2>4, <3>1, <3>2 DEF Items
  <2>6. Chained(Append(Items, t)) /\ EndOf(Append(Items, t)) = t.byte_end
    <3>1. t.byte_start = EndOf(Items)
      BY <1>2, <2>2
    <3> QED BY <1>2, <2>3, <3>1, ChainGrows
  <2> QED BY <1>4, <2>1, <2>2, <2>4, <2>5, <2>6 DEF BreakInv, InOrderInv
<1> QED BY <1>3, <1>4 DEF FirstToken

LEMMA PeekNextBreaks ==
  ASSUME BreakInv, PeekNext
  PROVE  BreakInv'
<1>1. place = "loop" /\ utts' = utts /\ InOrderInv
  BY DEF PeekNext, BreakInv
<1>2. Items' = Items
  BY <1>1 DEF Items
<1>3. PeekedInv /\ utts \in Seq(Seq(Token)) /\ Chained(Items) /\ ~peeked
      /\ EndOf(Items) = OffsetOf(At) /\ utts # <<>>
  BY <1>1 DEF InOrderInv
<1>4. CASE done
  <2>1. place' = "caller" /\ UNCHANGED streamVars
    BY <1>4 DEF PeekNext
  <2>2. UNCHANGED <<text, pos, byte_pos, eof, currentToken>> /\ peeked' = peeked
    BY <2>1 DEF streamVars
  <2>3. peeked' \in BOOLEAN /\ (peeked' => peeked)
    BY <1>3, <2>2, Zenon DEF PeekedInv
  <2>4. PeekedInv'
    BY <1>3, <2>2, <2>3, PeekedKept
  <2>5. Onward' = OffsetOf(At)
    <3>1. Onward' = Onward
      BY <2>2 DEF Onward, Bytes, At
    <3>2. Onward = OffsetOf(At)
      BY <1>3 DEF Onward, OffsetOf
    <3> QED BY <3>1, <3>2
  <2> QED BY <1>1, <1>2, <1>3, <2>1, <2>4, <2>5 DEF BreakInv, InOrderInv
<1>5. CASE ~done
  <2>1. place' = "peeked" /\ PeekToken
    BY <1>5 DEF PeekNext
  <2>2. /\ PeekedInv' /\ peeked'
        /\ ~eof => currentToken'.byte_start = OffsetOf(At)
        /\ eof => eof' /\ currentToken'.string = <<>>
    BY <1>3, <2>1, Peeks
  <2> QED BY <1>1, <1>2, <1>3, <2>1, <2>2 DEF BreakInv, InOrderInv
<1> QED BY <1>4, <1>5

LEMMA AddOrBreakBreaks ==
  ASSUME BreakInv, AddOrBreak
  PROVE  BreakInv'
<1>1. place = "peeked" /\ InOrderInv
  BY DEF AddOrBreak, BreakInv
<1>2. PeekedInv /\ utts \in Seq(Seq(Token)) /\ Chained(Items) /\ peeked /\ utts # <<>>
      /\ (EndOf(Items) = currentToken.byte_start \/ (eof /\ currentToken.string = <<>>))
  BY <1>1 DEF InOrderInv
<1>3. CASE place' = "caller" /\ UNCHANGED <<streamVars, utts>>
  <2>1. UNCHANGED <<text, pos, byte_pos, eof, currentToken, utts>> /\ peeked' = peeked
    BY <1>3 DEF streamVars
  <2>2. peeked' \in BOOLEAN /\ (peeked' => peeked)
    BY <1>2, <2>1, Zenon DEF PeekedInv
  <2>3. PeekedInv' /\ Items' = Items
    BY <1>2, <2>1, <2>2, PeekedKept DEF Items
  <2>4. Onward' = currentToken.byte_start
    BY <1>2, <2>1 DEF Onward
  <2> QED BY <1>2, <1>3, <2>1, <2>3, <2>4 DEF BreakInv, InOrderInv
<1>4. CASE /\ ~Breaks /\ GetToken /\ place' = "loop"
           /\ utts' = [utts EXCEPT ![Len(utts)] = Append(@, currentToken')]
  <2>1. /\ PeekedInv' /\ ~peeked' /\ currentToken' = currentToken /\ currentToken \in Token
        /\ OffsetOf(At)' = currentToken.byte_end
    BY <1>2, <1>4, Takes
  <2>2. PICK t \in Token : t = currentToken
    BY <2>1
  <2>3. Items \in Seq(Token)
    BY <1>2, ItemsAre
  <2>4. t.byte_start = EndOf(Items)
    <3>1. currentToken.string # <<>>
      BY <1>4, Zenon DEF Breaks
    <3> QED BY <1>2, <2>2, <3>1
  <2>5. /\ utts' \in Seq(Seq(Token)) /\ utts' # <<>>
        /\ Items' = Append(Items, t)
    <3>1. utts' = [utts EXCEPT ![Len(utts)] = Append(@, t)]
      BY <1>4, <2>1, <2>2
    <3> QED BY <1>2, <3>1, Extends DEF Items
  <2>6. Chained(Append(Items, t)) /\ EndOf(Append(Items, t)) = t.byte_end
    BY <1>2, <2>3, <2>4, ChainGrows
  <2> QED BY <1>4, <2>1, <2>2, <2>5, <2>6 DEF BreakInv, InOrderInv
<1> QED BY <1>3, <1>4 DEF AddOrBreak

LEMMA BreakStep ==
  ASSUME BreakInv, [BreakNext]_breakVars
  PROVE  BreakInv'
<1>1. CASE Fails
  BY <1>1 DEF Fails, BreakInv
<1>2. CASE UNCHANGED breakVars
  <2>1. UNCHANGED <<text, pos, byte_pos, eof, currentToken, utts, place>> /\ peeked' = peeked
    BY <1>2 DEF breakVars, streamVars
  <2> SUFFICES ASSUME InOrderInv PROVE InOrderInv'
    BY <2>1 DEF BreakInv
  <2>2. PeekedInv
    BY DEF InOrderInv
  <2>3. peeked' \in BOOLEAN /\ (peeked' => peeked)
    BY <2>1, <2>2, Zenon DEF PeekedInv
  <2>4. PeekedInv' /\ Items' = Items
    BY <2>1, <2>2, <2>3, PeekedKept DEF Items
  <2>5. Onward' = Onward /\ OffsetOf(At)' = OffsetOf(At)
    BY <2>1 DEF Onward, OffsetOf, Bytes, At
  <2> QED BY <2>1, <2>4, <2>5 DEF InOrderInv
<1> QED BY <1>1, <1>2, GetNextUttBreaks, FirstTokenBreaks, PeekNextBreaks, AddOrBreakBreaks
        DEF BreakNext

\* The utterances of a text have its tokens in the order of the text, none of
\* them twice and none skipped up to where the stream goes on: the token that was
\* peeked and broke an utterance begins the next one (InOrder).
THEOREM TokensInOrder == BreakSpec => []InOrder
<1>1. BreakInit => BreakInv
  BY BreakInitially
<1>2. BreakInv /\ [BreakNext]_breakVars => BreakInv'
  BY BreakStep
<1>3. BreakInv => InOrder
  BY InOrderHolds
<1> QED BY <1>1, <1>2, <1>3, PTL DEF BreakSpec

-----------------------------------------------------------------------------
(* The items of Token are pieces of the text with white space between them.    *)
(* White space is counted in characters and everything else in bytes, so this  *)
(* is for white space of one byte (tokenizer_proc.c).                          *)

NarrowWhite == \A c \in White : Width[c] = 1

TokenItem == [name : Seq(Chars), ByteStart : Int, ByteEnd : Int, IsPunctuation : BOOLEAN]

\* the byte after the last piece
EndByte(ns) == IF ns = <<>> THEN 0 ELSE Last(ns).ByteEnd
ByteBefore(ns, k) == IF k = 1 THEN 0 ELSE ns[k - 1].ByteEnd

Pieces(ns) ==
  \A k \in 1 .. Len(ns) : IsPiece(ns[k]) /\ OnlyWhite(ByteBefore(ns, k), ns[k].ByteStart)

\* ns are the pieces of the text before place i
Tiles(ns, i) == ns \in Seq(TokenItem) /\ Pieces(ns) /\ OnlyWhite(EndByte(ns), OffsetOf(i))

LEMMA EndByteIs ==
  ASSUME NEW ns \in Seq(TokenItem), NEW n \in Nat, n = Len(ns)
  PROVE  EndByte(ns) = ByteBefore(ns, n + 1) /\ EndByte(ns) \in Int
<1>1. ns = <<>> <=> n = 0
  BY EmptySeq
<1>2. CASE n = 0
  BY <1>1, <1>2 DEF EndByte, ByteBefore
<1>3. CASE n # 0
  <2>1. n \in 1 .. n /\ (n + 1) - 1 = n /\ n + 1 # 1
    BY <1>3
  <2>2. ns[n] \in TokenItem
    BY <2>1, ElementOfSeq
  <2> QED BY <1>1, <1>3, <2>1, <2>2 DEF EndByte, ByteBefore, Last, TokenItem
<1> QED BY <1>2, <1>3

\* More white space.
LEMMA WhiteTiles ==
  ASSUME text \in Seq(Chars), NEW ns, NEW i \in 1 .. Len(text) + 1, NEW j \in i .. Len(text) + 1,
         Tiles(ns, i), \A k \in i .. j - 1 : text[k] \in White
  PROVE  Tiles(ns, j)
<1>1. PICK n \in Nat : n = Len(text)
  BY LenProperties
<1>2. PICK e \in Int : e = EndByte(ns)
  <2>1. ns \in Seq(TokenItem)
    BY DEF Tiles
  <2> QED BY <2>1, EndByteIs, LenProperties
<1>3. OnlyWhite(e, OffsetOf(i))
  BY <1>2 DEF Tiles
<1>4. /\ \A k \in 1 .. n + 1 : OffsetOf(k) \in Nat
      /\ \A k \in 1 .. n + 1 : \A l \in 1 .. n + 1 : k < l => OffsetOf(k) < OffsetOf(l)
  BY <1>1, Offsets
<1>5. i \in 1 .. n + 1 /\ j \in 1 .. n + 1 /\ OffsetOf(i) \in Nat /\ OffsetOf(j) \in Nat
  <2>1. i \in 1 .. n + 1 /\ j \in 1 .. n + 1
    BY <1>1
  <2> QED BY <1>4, <2>1
<1>6. OffsetOf(i) <= OffsetOf(j)
  <2>1. i < j \/ i = j
    BY <1>1
  <2> QED BY <1>4, <1>5, <2>1
<1>7. e <= OffsetOf(j)
  BY <1>3, <1>5, <1>6 DEF OnlyWhite
<1>8. ASSUME NEW k \in DOMAIN text, e <= OffsetOf(k), OffsetOf(k) < OffsetOf(j)
      PROVE  text[k] \in White
  <2>1. k \in 1 .. n
    BY <1>1, LenProperties
  <2>2. k \in 1 .. n + 1 /\ OffsetOf(k) \in Nat
    BY <1>4, <2>1
  <2>3. CASE k < i
    <3>1. OffsetOf(k) < OffsetOf(i)
      BY <1>4, <1>5, <2>2, <2>3
    <3> QED BY <1>3, <1>8, <3>1 DEF OnlyWhite
  <2>4. CASE ~(k < i)
    <3>1. ~(j < k) /\ k # j
      BY <1>4, <1>5, <1>8, <2>2
    <3>2. k \in i .. j - 1
      BY <1>5, <2>1, <2>4, <3>1
    <3> QED BY <3>2
  <2> QED BY <2>3, <2>4
<1>9. OnlyWhite(e, OffsetOf(j))
  BY <1>7, <1>8 DEF OnlyWhite
<1> QED BY <1>2, <1>9 DEF Tiles

LEMMA NoneBetween ==
  ASSUME text \in Seq(Chars), NEW b \in Int
  PROVE  OnlyWhite(b, b)
<1>1. \A i \in DOMAIN text : OffsetOf(i) \in Nat
  <2>1. \A i \in DOMAIN text : i \in 1 .. Len(text) + 1
    BY LenProperties
  <2> QED BY <2>1, Offsets
<1> QED BY <1>1 DEF OnlyWhite

\* One more piece.
LEMMA PieceTiles ==
  ASSUME text \in Seq(Chars), NEW ns, NEW i \in 1 .. Len(text) + 1, NEW j \in i .. Len(text) + 1,
         Tiles(ns, i), i # j, NEW t \in TokenItem, t.name = SubSeq(text, i, j - 1),
         t.ByteStart = OffsetOf(i), t.ByteEnd = OffsetOf(j)
  PROVE  Tiles(Append(ns, t), j)
<1>1. PICK n \in Nat : n = Len(ns)
  <2>1. ns \in Seq(TokenItem)
    BY DEF Tiles
  <2> QED BY <2>1, LenProperties
<1>2. PICK r : r = Append(ns, t)
  OBVIOUS
<1>3. ns \in Seq(TokenItem) /\ Pieces(ns) /\ OnlyWhite(EndByte(ns), OffsetOf(i))
  BY DEF Tiles
<1>4. /\ r \in Seq(TokenItem) /\ Len(r) = n + 1
      /\ (\A k \in 1 .. n : r[k] = ns[k]) /\ r[n + 1] = t
  BY <1>1, <1>2, <1>3, AppendProperties
<1>5. Len(text) \in Nat /\ i \in 1 .. Len(text) /\ i \in DOMAIN text
  <2>1. Len(text) \in Nat /\ DOMAIN text = 1 .. Len(text)
    BY LenProperties
  <2> QED BY <2>1
<1>6. IsPiece(t)
  <2>1. Len(t.name) = j - i
    <3>1. j - 1 \in Int /\ i \in Int /\ i <= j - 1 /\ \A k \in i .. j - 1 : k \in 1 .. Len(text)
      BY <1>5
    <3>2. \A k \in i .. j - 1 : text[k] \in Chars
      BY <3>1, ElementOfSeq
    <3>3. Len(SubSeq(text, i, j - 1)) = (j - 1) - i + 1
      BY <3>1, <3>2, SubSeqProperties
    <3> QED BY <3>1, <3>3
  <2>2. i + Len(t.name) = j /\ i + Len(t.name) - 1 = j - 1
    BY <2>1
  <2> QED BY <1>5, <2>2 DEF IsPiece
<1>7. ByteBefore(r, n + 1) = EndByte(ns)
  <2>1. EndByte(ns) = ByteBefore(ns, n + 1)
    BY <1>1, <1>3, EndByteIs
  <2>2. n # 0 => n \in 1 .. n /\ (n + 1) - 1 = n
    OBVIOUS
  <2> QED BY <1>4, <2>1, <2>2 DEF ByteBefore
<1>8. ASSUME NEW k \in 1 .. n + 1
      PROVE  IsPiece(r[k]) /\ OnlyWhite(ByteBefore(r, k), r[k].ByteStart)
  <2>1. CASE k = n + 1
    <3>1. r[k] = t /\ OnlyWhite(EndByte(ns), t.ByteStart)
      BY <1>3, <1>4, <2>1
    <3> QED BY <1>6, <1>7, <2>1, <3>1
  <2>2. CASE k # n + 1
    <3>1. k \in 1 .. n /\ (k # 1 => k - 1 \in 1 .. n)
      BY <2>2
    <3>2. r[k] = ns[k] /\ ByteBefore(r, k) = ByteBefore(ns, k)
      BY <1>4, <3>1 DEF ByteBefore
    <3>3. IsPiece(ns[k]) /\ OnlyWhite(ByteBefore(ns, k), ns[k].ByteStart)
      BY <1>1, <1>3, <3>1 DEF Pieces
    <3> QED BY <3>2, <3>3
  <2> QED BY <2>1, <2>2
<1>9. Pieces(r)
  BY <1>4, <1>8 DEF Pieces
<1>10. EndByte(r) = OffsetOf(j)
  <2>1. EndByte(r) = ByteBefore(r, (n + 1) + 1)
    <3>1. n + 1 \in Nat
      OBVIOUS
    <3> QED BY <1>4, <3>1, EndByteIs
  <2>2. ((n + 1) + 1) - 1 = n + 1 /\ (n + 1) + 1 # 1
    OBVIOUS
  <2> QED BY <1>4, <2>1, <2>2 DEF ByteBefore
<1>11. OnlyWhite(OffsetOf(j), OffsetOf(j))
  <2>1. j \in 1 .. Len(text) + 1
    BY <1>5
  <2>2. OffsetOf(j) \in Nat
    BY <2>1, Offsets
  <2> QED BY <2>2, NoneBetween
<1> QED BY <1>2, <1>4, <1>9, <1>10, <1>11 DEF Tiles

\* The item of a piece that may be empty.
LEMMA ItemTiles ==
  ASSUME text \in Seq(Chars), NEW ns, NEW i \in 1 .. Len(text) + 1, NEW j \in i .. Len(text) + 1,
         Tiles(ns, i), NEW b, NEW punctuation \in BOOLEAN, b = OffsetOf(i),
         NEW s, s = SubSeq(text, i, j - 1), NEW t, t = Item(s, b, punctuation)
  PROVE  /\ t \in TokenItem /\ t.ByteEnd # Unset /\ IfNamed(t) \in Seq(TokenItem)
         /\ Tiles(Cat(ns, IfNamed(t)), j)
<1>1. s \in Seq(Chars) /\ s = SubSeq(text, i, j - 1)
  BY PieceIn
<1>2. Len(text) \in Nat /\ j \in 1 .. Len(text) + 1
  BY LenProperties
<1>3. OffsetOf(i) \in Nat /\ OffsetOf(j) \in Nat
  BY <1>2, Offsets
<1>4. Bytes(s) = OffsetOf(j) - OffsetOf(i)
  BY <1>1, Offsets
<1>5. b + Bytes(s) = OffsetOf(j)
  BY <1>3, <1>4
<1>7. /\ t.name = s /\ t.ByteStart = b /\ t.ByteEnd = OffsetOf(j)
      /\ t \in TokenItem
  BY <1>1, <1>3, <1>5 DEF Item, TokenItem
<1>8. IfNamed(t) \in Seq(TokenItem)
  BY <1>7 DEF IfNamed
<1>9. Tiles(Cat(ns, IfNamed(t)), j)
  <2>1. ns \in Seq(TokenItem)
    BY DEF Tiles
  <2>2. CASE i = j
    <3>1. s = <<>>
      BY <1>1, <1>2, <2>2, SubSeqEmpty
    <3>2. IfNamed(t) = <<>>
      BY <1>7, <3>1 DEF IfNamed
    <3>3. Cat(ns, <<>>) = ns
      BY <2>1, CatNone
    <3> QED BY <2>2, <3>2, <3>3
  <2>3. CASE i # j
    <3>1. s # <<>>
      <4>1. j - 1 \in Int /\ i \in Int /\ i <= j - 1 /\ \A k \in i .. j - 1 : k \in 1 .. Len(text)
        BY <1>2, <2>3
      <4>2. \A k \in i .. j - 1 : text[k] \in Chars
        BY <4>1, ElementOfSeq
      <4>3. Len(s) = (j - 1) - i + 1
        BY <1>1, <4>1, <4>2, SubSeqProperties
      <4>4. Len(s) # 0
        BY <4>1, <4>3
      <4> QED BY <4>4
    <3>2. IfNamed(t) = <<t>>
      BY <1>7, <3>1 DEF IfNamed
    <3>3. Cat(ns, <<t>>) = Append(ns, t)
      BY <1>7, <2>1, CatOne
    <3>4. Tiles(Append(ns, t), j)
      BY <1>1, <1>7, <2>3, PieceTiles
    <3> QED BY <3>2, <3>3, <3>4
  <2> QED BY <2>2, <2>3
<1>10. t.ByteEnd # Unset
  BY <1>3, <1>7 DEF Unset
<1> QED BY <1>7, <1>8, <1>9, <1>10

LEMMA NarrowOffsets ==
  ASSUME text \in Seq(Chars), NarrowWhite, NEW i \in 1 .. Len(text) + 1,
         NEW j \in i .. Len(text) + 1, \A k \in i .. j - 1 : text[k] \in White
  PROVE  OffsetOf(j) = OffsetOf(i) + (j - i)
<1>1. PICK n \in Nat : n = Len(text)
  BY LenProperties
<1>2. /\ \A k \in 1 .. n + 1 : OffsetOf(k) \in Nat
      /\ \A k \in 1 .. n : OffsetOf(k + 1) = OffsetOf(k) + Width[text[k]]
  BY <1>1, Offsets
<1> DEFINE G == {d \in Nat : i + d <= j => OffsetOf(i + d) = OffsetOf(i) + d}
<1>3. 0 \in G
  <2>1. OffsetOf(i) \in Nat /\ i + 0 = i
    BY <1>1, <1>2
  <2> QED BY <2>1
<1>4. ASSUME NEW d \in G PROVE d + 1 \in G
  <2> SUFFICES ASSUME i + (d + 1) <= j PROVE OffsetOf(i + (d + 1)) = OffsetOf(i) + (d + 1)
    OBVIOUS
  <2>1. d \in Nat /\ OffsetOf(i + d) = OffsetOf(i) + d
    OBVIOUS
  <2>2. PICK k \in 1 .. n : k = i + d
    BY <1>1, <2>1
  <2>3. k \in i .. j - 1 /\ k + 1 = i + (d + 1)
    BY <2>1, <2>2
  <2>4. Width[text[k]] = 1
    BY <2>3 DEF NarrowWhite
  <2>5. OffsetOf(k + 1) = OffsetOf(k) + 1 /\ OffsetOf(i) \in Nat
    BY <1>1, <1>2, <2>4
  <2> QED BY <2>1, <2>2, <2>3, <2>5
<1>5. G \in SUBSET Nat
  OBVIOUS
<1> HIDE DEF G
<1>6. G = Nat
  BY <1>3, <1>4, <1>5, NatSetInduction
<1>7. PICK d \in Nat : j = i + d
  <2>1. j - i \in Nat /\ j = i + (j - i)
    BY <1>1
  <2> QED BY <2>1
<1>8. OffsetOf(i + d) = OffsetOf(i) + d
  BY <1>1, <1>6, <1>7 DEF G
<1> QED BY <1>1, <1>7, <1>8

PlaceTable == [x \in TokenItem |-> IfPlaced(x)]

\* every item, or every one but the last, that has a name has its bytes
Whole(x) == x.name # <<>> => x.ByteEnd # Unset
AllWhole(ts) == \A k \in 1 .. Len(ts) : Whole(ts[k])
ButLastWhole(ts) == \A k \in 1 .. Len(ts) : k # Len(ts) => Whole(ts[k])

LEMMA PlaceTableIs ==
  /\ PlaceTable \in Tables(TokenItem, TokenItem)
  /\ \A x \in TokenItem : PlaceTable[x] = IfPlaced(x)
<1>1. ASSUME NEW x \in TokenItem PROVE IfPlaced(x) \in Seq(TokenItem)
  BY DEF IfPlaced
<1> QED BY <1>1 DEF PlaceTable, Tables

LEMMA NamelessIs == Nameless \in TokenItem /\ IfPlaced(Nameless) = <<>>
<1>1. <<>> \in Seq(Chars)
  BY EmptySeq
<1> QED BY <1>1 DEF Nameless, Unset, TokenItem, IfPlaced

LEMMA PartPlaced ==
  ASSUME NEW x \in TokenItem, x.ByteEnd # Unset
  PROVE  Total(PlaceTable, IfNamed(x)) = IfNamed(x) /\ AllWhole(IfNamed(x))
<1>1. CASE x.name = <<>>
  <2>1. IfNamed(x) = <<>>
    BY <1>1 DEF IfNamed
  <2>2. Len(<<>>) = 0
    OBVIOUS
  <2>3. AllWhole(<<>>)
    BY <2>2 DEF AllWhole
  <2> QED BY <2>1, <2>3, TotalNone
<1>2. CASE x.name # <<>>
  <2>1. IfNamed(x) = <<x>>
    BY <1>2 DEF IfNamed
  <2>2. Total(PlaceTable, <<x>>) = PlaceTable[x]
    BY PlaceTableIs, TotalOne
  <2>3. PlaceTable[x] = <<x>>
    BY PlaceTableIs DEF IfPlaced
  <2>4. Len(<<x>>) = 1 /\ <<x>>[1] = x
    OBVIOUS
  <2>5. AllWhole(<<x>>)
    BY <2>4 DEF AllWhole, Whole
  <2> QED BY <2>1, <2>2, <2>3, <2>5
<1> QED BY <1>1, <1>2

LEMMA WholeCat ==
  ASSUME NEW a \in Seq(TokenItem), NEW b \in Seq(TokenItem), AllWhole(a)
  PROVE  /\ AllWhole(b) => AllWhole(Cat(a, b))
         /\ ButLastWhole(b) => ButLastWhole(Cat(a, b))
<1>1. PICK n \in Nat, m \in Nat : n = Len(a) /\ m = Len(b)
  BY LenProperties
<1>2. PICK c : c = Cat(a, b)
  OBVIOUS
<1>3. /\ Len(c) = n + m
      /\ \A k \in 1 .. n + m : c[k] = IF k <= n THEN a[k] ELSE b[k - n]
  BY <1>1, <1>2, ConcatProperties DEF Cat
<1>4. ASSUME NEW k \in 1 .. n + m, k > n => Whole(b[k - n]) PROVE Whole(c[k])
  <2>1. CASE k <= n
    <3>1. c[k] = a[k] /\ k \in 1 .. Len(a)
      BY <1>1, <1>3, <2>1
    <3> QED BY <3>1 DEF AllWhole
  <2>2. CASE ~(k <= n)
    <3>1. c[k] = b[k - n]
      BY <1>3, <2>2
    <3> QED BY <1>4, <2>2, <3>1
  <2> QED BY <2>1, <2>2
<1>5. ASSUME NEW k \in 1 .. n + m, k > n PROVE k - n \in 1 .. m /\ (k # n + m => k - n # m)
  BY <1>5
<1>6. AllWhole(b) => AllWhole(c)
  <2> SUFFICES ASSUME AllWhole(b) PROVE AllWhole(c)
    OBVIOUS
  <2>1. \A k \in 1 .. n + m : k > n => Whole(b[k - n])
    BY <1>1, <1>5 DEF AllWhole
  <2> QED BY <1>3, <1>4, <2>1 DEF AllWhole
<1>7. ButLastWhole(b) => ButLastWhole(c)
  <2> SUFFICES ASSUME ButLastWhole(b) PROVE ButLastWhole(c)
    OBVIOUS
  <2>1. \A k \in 1 .. n + m : k > n /\ k # n + m => Whole(b[k - n])
    BY <1>1, <1>5 DEF ButLastWhole
  <2> QED BY <1>3, <1>4, <2>1 DEF ButLastWhole
<1> QED BY <1>2, <1>6, <1>7

LEMMA PlacedIsTotal ==
  ASSUME NEW ts \in Seq(TokenItem)
  PROVE  /\ FlattenSeq([k \in DOMAIN ts |-> IfPlaced(ts[k])]) = Total(PlaceTable, ts)
         /\ Total(PlaceTable, ts) \in Seq(TokenItem)
<1>1. \A k \in DOMAIN ts : ts[k] \in TokenItem
  BY LenProperties, ElementOfSeq
<1>2. [k \in DOMAIN ts |-> IfPlaced(ts[k])] = Mapped(PlaceTable, ts)
  BY <1>1, PlaceTableIs DEF Mapped
<1>3. Total(PlaceTable, ts) \in Seq(TokenItem)
  BY PlaceTableIs, TotalType
<1> QED BY <1>2, <1>3 DEF Total

LEMMA Regroup ==
  ASSUME NEW S, NEW a \in Seq(S), NEW b \in Seq(S), NEW c \in Seq(S), NEW d \in Seq(S)
  PROVE  /\ Cat(Cat(Cat(a, b), c), d) = Cat(a, Cat(Cat(b, c), d))
         /\ Cat(Cat(b, c), d) \in Seq(S)
<1>1. Cat(b, c) \in Seq(S) /\ Cat(Cat(b, c), d) \in Seq(S)
  BY CatIs
<1>2. Cat(Cat(Cat(a, b), c), d) = Cat(a, Cat(Cat(b, c), d))
  BY <1>1, CatAssociative
<1> QED BY <1>1, <1>2

LEMMA TotalOfThree ==
  ASSUME NEW S, NEW T, NEW f \in Tables(S, T), NEW a \in Seq(S), NEW b \in Seq(S), NEW c \in Seq(S)
  PROVE  Total(f, Cat(Cat(a, b), c)) = Cat(Cat(Total(f, a), Total(f, b)), Total(f, c))
<1>1. Total(f, Cat(a, b)) = Cat(Total(f, a), Total(f, b))
  BY TotalCat
<1>2. PICK x \in Seq(S) : x = Cat(a, b)
  BY CatIs
<1>3. Total(f, Cat(x, c)) = Cat(Total(f, x), Total(f, c))
  BY TotalCat
<1> QED BY <1>1, <1>2, <1>3

LEMMA ItemsOfTiles ==
  ASSUME text \in Seq(Chars), NarrowWhite, NEW a, NEW w, NEW p, NEW s, NEW q, Parts(a, w, p, s, q),
         NEW t, PartsOf(t, a, w, p, s, q), t.byte_start = OffsetOf(a), NEW ns, Tiles(ns, a)
  PROVE  /\ ItemsOf(t) \in Seq(TokenItem) /\ AllWhole(ItemsOf(t))
         /\ Tiles(Cat(ns, Total(PlaceTable, ItemsOf(t))), q)
<1>1. PICK n \in Nat : n = Len(text)
  BY LenProperties
<1>2. /\ a \in 1 .. n + 1 /\ w \in 1 .. n + 1 /\ p \in 1 .. n + 1 /\ s \in 1 .. n + 1
      /\ w \in a .. n + 1 /\ p \in w .. n + 1 /\ s \in p .. n + 1 /\ q \in s .. n + 1
      /\ \A k \in a .. w - 1 : text[k] \in White
  BY <1>1 DEF Parts
<1>3. PICK ws, pr, st, po : /\ ws = SubSeq(text, a, w - 1) /\ pr = SubSeq(text, w, p - 1)
                            /\ st = SubSeq(text, p, s - 1) /\ po = SubSeq(text, s, q - 1)
  OBVIOUS
<1>4. t.whitespace = ws /\ t.pre_punc = pr /\ t.string = st /\ t.post_punc = po
  BY <1>3 DEF PartsOf
<1>5. PICK pre : pre = t.byte_start + Len(t.whitespace)
  OBVIOUS
<1>6. pre = OffsetOf(w)
  <2>1. OffsetOf(w) = OffsetOf(a) + (w - a)
    BY <1>1, <1>2, NarrowOffsets
  <2>2. Len(ws) = w - a
    <3>1. a \in Int /\ w - 1 \in Int /\ \A k \in a .. w - 1 : text[k] \in Chars
      BY <1>1, <1>2, SymbolsAssumption
    <3>2. Len(ws) = IF a <= w - 1 THEN (w - 1) - a + 1 ELSE 0
      BY <1>3, <3>1, SubSeqProperties
    <3> QED BY <1>2, <3>2
  <2> QED BY <1>4, <1>5, <2>1, <2>2
<1>7. PICK x : x = Item(pr, pre, TRUE)
  OBVIOUS
<1>8. Tiles(ns, w)
  BY <1>1, <1>2, WhiteTiles
<1>9. x \in TokenItem /\ x.ByteEnd # Unset /\ IfNamed(x) \in Seq(TokenItem) /\ Tiles(Cat(ns, IfNamed(x)), p)
      /\ pre + Bytes(pr) = OffsetOf(p)
  <2>1. Tiles(ns, w) /\ pre = OffsetOf(w) /\ TRUE \in BOOLEAN
    BY <1>6, <1>8
  <2>2. w \in 1 .. Len(text) + 1 /\ p \in w .. Len(text) + 1
    BY <1>1, <1>2
  <2>3. text \in Seq(Chars) /\ pr = SubSeq(text, w, p - 1)
    BY <1>3
  <2>4. x \in TokenItem /\ x.ByteEnd # Unset /\ IfNamed(x) \in Seq(TokenItem) /\ Tiles(Cat(ns, IfNamed(x)), p)
    BY <1>7, <2>1, <2>2, <2>3, ItemTiles
  <2>5. pre + Bytes(pr) = OffsetOf(p)
    <3>1. Bytes(pr) = OffsetOf(p) - OffsetOf(w)
      BY <2>2, <2>3, Offsets
    <3>2. OffsetOf(p) \in Nat /\ OffsetOf(w) \in Nat
      BY <1>1, <1>2, Offsets
    <3> QED BY <2>1, <3>1, <3>2
  <2> QED BY <2>4, <2>5
<1>10. PICK string, y : string = pre + Bytes(pr) /\ y = Item(st, string, FALSE)
  OBVIOUS
<1>11. y \in TokenItem /\ y.ByteEnd # Unset /\ IfNamed(y) \in Seq(TokenItem)
       /\ Tiles(Cat(Cat(ns, IfNamed(x)), IfNamed(y)), s)
       /\ string + Bytes(st) = OffsetOf(s)
  <2>1. Tiles(Cat(ns, IfNamed(x)), p) /\ string = OffsetOf(p) /\ FALSE \in BOOLEAN
    BY <1>9, <1>10
  <2>2. p \in 1 .. Len(text) + 1 /\ s \in p .. Len(text) + 1
    BY <1>1, <1>2
  <2>3. text \in Seq(Chars) /\ st = SubSeq(text, p, s - 1)
    BY <1>3
  <2>4. y \in TokenItem /\ y.ByteEnd # Unset /\ IfNamed(y) \in Seq(TokenItem)
       /\ Tiles(Cat(Cat(ns, IfNamed(x)), IfNamed(y)), s)
    BY <1>10, <2>1, <2>2, <2>3, ItemTiles
  <2>5. string + Bytes(st) = OffsetOf(s)
    <3>1. Bytes(st) = OffsetOf(s) - OffsetOf(p)
      BY <2>2, <2>3, Offsets
    <3>2. OffsetOf(s) \in Nat /\ OffsetOf(p) \in Nat
      BY <1>1, <1>2, Offsets
    <3> QED BY <2>1, <3>1, <3>2
  <2> QED BY <2>4, <2>5
<1>12. PICK post, z : post = string + Bytes(st) /\ z = Item(po, post, TRUE)
  OBVIOUS
<1>13. z \in TokenItem /\ z.ByteEnd # Unset /\ IfNamed(z) \in Seq(TokenItem)
       /\ Tiles(Cat(Cat(Cat(ns, IfNamed(x)), IfNamed(y)), IfNamed(z)), q)
  <2>1. Tiles(Cat(Cat(ns, IfNamed(x)), IfNamed(y)), s) /\ post = OffsetOf(s) /\ TRUE \in BOOLEAN
    BY <1>11, <1>12
  <2>2. s \in 1 .. Len(text) + 1 /\ q \in s .. Len(text) + 1
    BY <1>1, <1>2
  <2> QED BY <1>3, <1>12, <2>1, <2>2, ItemTiles
<1>14. PICK named : named = Cat(Cat(IfNamed(x), IfNamed(y)), IfNamed(z))
  OBVIOUS
<1>15. Cat(Cat(Cat(ns, IfNamed(x)), IfNamed(y)), IfNamed(z)) = Cat(ns, named) /\ named \in Seq(TokenItem)
  <2>1. ns \in Seq(TokenItem)
    BY DEF Tiles
  <2>2. IfNamed(x) \in Seq(TokenItem) /\ IfNamed(y) \in Seq(TokenItem) /\ IfNamed(z) \in Seq(TokenItem)
    BY <1>9, <1>11, <1>13
  <2> QED BY <1>14, <2>1, <2>2, Regroup
<1>16. ItemsOf(t) = IF named = <<>> THEN <<Nameless>> ELSE named
  BY <1>4, <1>5, <1>7, <1>10, <1>12, <1>14 DEF ItemsOf, Cat
<1>17. Total(PlaceTable, named) = named
  <2>1. Total(PlaceTable, named)
          = Cat(Cat(Total(PlaceTable, IfNamed(x)), Total(PlaceTable, IfNamed(y))), Total(PlaceTable, IfNamed(z)))
    <3>1. IfNamed(x) \in Seq(TokenItem) /\ IfNamed(y) \in Seq(TokenItem) /\ IfNamed(z) \in Seq(TokenItem)
      BY <1>9, <1>11, <1>13
    <3>2. PlaceTable \in Tables(TokenItem, TokenItem)
      BY PlaceTableIs
    <3> QED BY <1>14, <3>1, <3>2, TotalOfThree
  <2> QED BY <1>9, <1>11, <1>13, <1>14, <2>1, PartPlaced
<1>18. Total(PlaceTable, <<Nameless>>) = <<>>
  <2>1. Total(PlaceTable, <<Nameless>>) = PlaceTable[Nameless]
    BY NamelessIs, PlaceTableIs, TotalOne
  <2> QED BY <2>1, NamelessIs, PlaceTableIs
<1>19. Total(PlaceTable, ItemsOf(t)) = named
  BY <1>16, <1>17, <1>18
<1>20. ItemsOf(t) \in Seq(TokenItem)
  BY <1>15, <1>16, NamelessIs
<1>21. AllWhole(ItemsOf(t))
  <2>1. AllWhole(IfNamed(x)) /\ AllWhole(IfNamed(y)) /\ AllWhole(IfNamed(z))
    BY <1>9, <1>11, <1>13, PartPlaced
  <2>2. PICK xy \in Seq(TokenItem) : xy = Cat(IfNamed(x), IfNamed(y))
    BY <1>9, <1>11, CatIs
  <2>3. AllWhole(xy)
    BY <1>9, <1>11, <2>1, <2>2, WholeCat
  <2>4. AllWhole(named)
    BY <1>13, <1>14, <2>1, <2>2, <2>3, WholeCat
  <2>5. AllWhole(<<Nameless>>)
    BY DEF AllWhole, Whole, Nameless
  <2> QED BY <1>16, <2>4, <2>5
<1> QED BY <1>13, <1>15, <1>19, <1>20, <1>21

LEMMA PrefixPieces ==
  ASSUME NEW ns \in Seq(TokenItem), NEW r \in Seq(TokenItem), Pieces(Cat(ns, r))
  PROVE  Pieces(ns)
<1>1. PICK n \in Nat : n = Len(ns)
  BY LenProperties
<1>2. PICK c : c = Cat(ns, r)
  OBVIOUS
<1>3. Len(c) \in Nat /\ n <= Len(c) /\ \A k \in 1 .. n : c[k] = ns[k]
  <2>1. Len(c) = Len(ns) + Len(r) /\ Len(r) \in Nat
    BY <1>2, ConcatProperties, LenProperties DEF Cat
  <2>2. \A k \in 1 .. Len(ns) + Len(r) : c[k] = IF k <= Len(ns) THEN ns[k] ELSE r[k - Len(ns)]
    BY <1>2, ConcatProperties DEF Cat
  <2> QED BY <1>1, <2>1, <2>2
<1>4. ASSUME NEW k \in 1 .. n
      PROVE  IsPiece(ns[k]) /\ OnlyWhite(ByteBefore(ns, k), ns[k].ByteStart)
  <2>1. k \in 1 .. Len(c) /\ (k # 1 => k - 1 \in 1 .. n)
    BY <1>3
  <2>2. c[k] = ns[k] /\ ByteBefore(c, k) = ByteBefore(ns, k)
    BY <1>3, <2>1 DEF ByteBefore
  <2>3. IsPiece(c[k]) /\ OnlyWhite(ByteBefore(c, k), c[k].ByteStart)
    BY <1>2, <2>1 DEF Pieces
  <2> QED BY <2>2, <2>3
<1> QED BY <1>1, <1>4 DEF Pieces

LEMMA HalfMadeIs ==
  ASSUME NEW x \in TokenItem, NEW h \in HalfMade(x)
  PROVE  /\ h \in TokenItem
         /\ \/ IfPlaced(h) = <<>>
            \/ /\ IfPlaced(h) = <<h>> /\ IfPlaced(x) = <<x>>
               /\ h.name = x.name /\ h.ByteStart = x.ByteStart /\ h.ByteEnd = x.ByteEnd
<1>1. PICK named : named = [Nameless EXCEPT !.name = x.name]
  OBVIOUS
<1>2. named \in TokenItem /\ named.ByteEnd = Unset
  BY <1>1, NamelessIs DEF Nameless, TokenItem
<1>3. \/ h = Nameless
      \/ h = named
      \/ h = [named EXCEPT !.ByteStart = x.ByteStart]
      \/ h = [x EXCEPT !.IsPunctuation = FALSE]
  BY <1>1, Zenon DEF HalfMade
<1>4. CASE h = Nameless
  BY <1>4, NamelessIs
<1>5. CASE h = named
  BY <1>2, <1>5 DEF IfPlaced
<1>6. CASE h = [named EXCEPT !.ByteStart = x.ByteStart]
  <2>1. h \in TokenItem /\ h.ByteEnd = Unset
    BY <1>2, <1>6 DEF TokenItem
  <2> QED BY <2>1 DEF IfPlaced
<1>7. CASE h = [x EXCEPT !.IsPunctuation = FALSE]
  <2>1. /\ h \in TokenItem
        /\ h.name = x.name /\ h.ByteStart = x.ByteStart /\ h.ByteEnd = x.ByteEnd
    BY <1>7 DEF TokenItem
  <2> QED BY <2>1 DEF IfPlaced
<1> QED BY <1>3, <1>4, <1>5, <1>6, <1>7

LEMMA FirstItems ==
  ASSUME NEW items \in Seq(TokenItem), NEW k \in 0 .. Len(items), NEW p, p = SubSeq(items, 1, k)
  PROVE  /\ p \in Seq(TokenItem) /\ Len(p) = k /\ \A i \in 1 .. k : p[i] = items[i]
         /\ \E r \in Seq(TokenItem) : Cat(p, r) = items
<1>1. PICK n \in Nat : n = Len(items)
  BY LenProperties
<1>2. PICK r : r = SubSeq(items, k + 1, n)
  OBVIOUS
<1>3. \A i \in 1 .. n : items[i] \in TokenItem
  BY <1>1, ElementOfSeq
<1>4. 1 \in Int /\ k \in Int /\ k + 1 \in Int /\ n \in Int
  BY <1>1
<1>5. (\A i \in 1 .. k : items[i] \in TokenItem) /\ \A i \in k + 1 .. n : items[i] \in TokenItem
  BY <1>1, <1>3
<1>6. p \in Seq(TokenItem) /\ r \in Seq(TokenItem)
  BY <1>2, <1>4, <1>5, SubSeqProperties
<1>7. Len(p) = k /\ \A i \in 1 .. k : p[i] = items[i]
  <2>1. Len(p) = IF 1 <= k THEN k - 1 + 1 ELSE 0
    BY <1>4, <1>5, SubSeqProperties
  <2>2. \A i \in 1 .. k - 1 + 1 : p[i] = items[1 + i - 1]
    BY <1>4, <1>5, SubSeqProperties
  <2>3. k - 1 + 1 = k /\ \A i \in 1 .. k : 1 + i - 1 = i
    BY <1>4
  <2>4. Len(p) = k
    BY <1>1, <2>1
  <2> QED BY <2>2, <2>3, <2>4
<1>8. Cat(p, r) = items
  <2>1. SubSeq(items, 1, k) \o SubSeq(items, k + 1, n) = SubSeq(items, 1, n)
    <3>1. 1 \in 1 .. Len(items) + 1 /\ k \in 1 - 1 .. Len(items) /\ n \in k .. Len(items)
      BY <1>1
    <3> QED BY <3>1, ConcatAdjacentSubSeq
  <2>2. SubSeq(items, 1, n) = items
    BY <1>1, SubSeqFull
  <2> QED BY <1>2, <2>1, <2>2 DEF Cat
<1> QED BY <1>6, <1>7, <1>8

\* The items that are made of a token before a call fails are its first ones, and
\* perhaps the next one half made.
LEMMA SomeItemsBegin ==
  ASSUME NEW t, ItemsOf(t) \in Seq(TokenItem), NEW made \in SomeItemsOf(t)
  PROVE  /\ made \in Seq(TokenItem)
         /\ \/ \E k \in 0 .. Len(ItemsOf(t)) : made = SubSeq(ItemsOf(t), 1, k)
            \/ \E k \in 1 .. Len(ItemsOf(t)) : \E h \in HalfMade(ItemsOf(t)[k]) :
                 made = Append(SubSeq(ItemsOf(t), 1, k - 1), h)
<1>1. PICK items \in Seq(TokenItem) : items = ItemsOf(t)
  OBVIOUS
<1>2. Len(items) \in Nat /\ DOMAIN items = 1 .. Len(items)
  BY LenProperties
<1>3. \/ \E k \in 0 .. Len(items) : made = SubSeq(items, 1, k)
      \/ \E k \in 1 .. Len(items) : \E h \in HalfMade(items[k]) :
           made = Append(SubSeq(items, 1, k - 1), h)
  <2>1. PICK most : most = IF t.post_punc = <<>> THEN Len(items) ELSE Len(items) - 1
    OBVIOUS
  <2>2. \/ \E k \in 0 .. most : made = SubSeq(items, 1, k)
        \/ \E k \in DOMAIN items : \E h \in HalfMade(items[k]) :
             made = Append(SubSeq(items, 1, k - 1), h)
    BY <1>1, <2>1, Zenon DEF SomeItemsOf
  <2>3. \A k \in 0 .. most : k \in 0 .. Len(items)
    BY <1>2, <2>1
  <2> QED BY <1>2, <2>2, <2>3, Zenon
<1>4. ASSUME NEW k \in 0 .. Len(items), made = SubSeq(items, 1, k) PROVE made \in Seq(TokenItem)
  BY <1>4, FirstItems
<1>5. ASSUME NEW k \in 1 .. Len(items), NEW h \in HalfMade(items[k]),
             made = Append(SubSeq(items, 1, k - 1), h)
      PROVE  made \in Seq(TokenItem)
  <2>1. k - 1 \in 0 .. Len(items)
    BY <1>2
  <2>2. SubSeq(items, 1, k - 1) \in Seq(TokenItem)
    BY <2>1, FirstItems
  <2>3. h \in TokenItem
    <3>1. items[k] \in TokenItem
      BY ElementOfSeq
    <3> QED BY <3>1, HalfMadeIs
  <2> QED BY <1>5, <2>2, <2>3, AppendIn
<1> QED BY <1>1, <1>3, <1>4, <1>5

LEMMA FirstPieces ==
  ASSUME NEW ns \in Seq(TokenItem), NEW items \in Seq(TokenItem), NEW k \in 0 .. Len(items),
         Pieces(Cat(ns, Total(PlaceTable, items)))
  PROVE  Pieces(Cat(ns, Total(PlaceTable, SubSeq(items, 1, k))))
<1>1. PICK p : p = SubSeq(items, 1, k)
  OBVIOUS
<1>2. p \in Seq(TokenItem) /\ \E r \in Seq(TokenItem) : Cat(p, r) = items
  BY <1>1, FirstItems
<1>3. PICK r \in Seq(TokenItem) : Cat(p, r) = items
  BY <1>2
<1>4. Total(PlaceTable, items) = Cat(Total(PlaceTable, p), Total(PlaceTable, r))
  BY <1>2, <1>3, PlaceTableIs, TotalCat
<1>5. PICK u \in Seq(TokenItem), v \in Seq(TokenItem) :
        u = Total(PlaceTable, p) /\ v = Total(PlaceTable, r)
  BY <1>2, PlacedIsTotal
<1>6. Cat(Cat(ns, u), v) = Cat(ns, Cat(u, v)) /\ Cat(ns, u) \in Seq(TokenItem)
  BY CatAssociative, CatIs
<1>7. Pieces(Cat(Cat(ns, u), v))
  BY <1>4, <1>5, <1>6
<1>8. Pieces(Cat(ns, u))
  BY <1>6, <1>7, PrefixPieces
<1> QED BY <1>1, <1>5, <1>8

LEMMA SamePiece ==
  ASSUME NEW ns \in Seq(TokenItem), NEW x \in TokenItem, NEW h \in TokenItem,
         Pieces(Append(ns, x)), h.name = x.name, h.ByteStart = x.ByteStart, h.ByteEnd = x.ByteEnd
  PROVE  Pieces(Append(ns, h))
<1>1. PICK n \in Nat : n = Len(ns)
  BY LenProperties
<1>2. PICK a, b : a = Append(ns, x) /\ b = Append(ns, h)
  OBVIOUS
<1>3. /\ Len(a) = n + 1 /\ Len(b) = n + 1
      /\ (\A k \in 1 .. n : a[k] = ns[k] /\ b[k] = ns[k]) /\ a[n + 1] = x /\ b[n + 1] = h
  BY <1>1, <1>2, AppendProperties
<1>4. ASSUME NEW k \in 1 .. n + 1
      PROVE  IsPiece(b[k]) /\ OnlyWhite(ByteBefore(b, k), b[k].ByteStart)
  <2>1. IsPiece(a[k]) /\ OnlyWhite(ByteBefore(a, k), a[k].ByteStart)
    BY <1>2, <1>3 DEF Pieces
  <2>2. ByteBefore(b, k) = ByteBefore(a, k)
    <3>1. k # 1 => k - 1 \in 1 .. n
      BY <1>1
    <3> QED BY <1>3, <3>1 DEF ByteBefore
  <2>3. CASE k = n + 1
    <3>1. IsPiece(b[k]) <=> IsPiece(a[k])
      BY <1>3, <2>3 DEF IsPiece
    <3>2. b[k].ByteStart = a[k].ByteStart
      BY <1>3, <2>3
    <3> QED BY <2>1, <2>2, <3>1, <3>2
  <2>4. CASE k # n + 1
    <3>1. k \in 1 .. n
      BY <2>4
    <3>2. b[k] = a[k]
      BY <1>3, <3>1
    <3> QED BY <2>1, <2>2, <3>2
  <2> QED BY <2>3, <2>4
<1> QED BY <1>2, <1>3, <1>4 DEF Pieces

\* What is made of a token before a call fails are pieces of the text, whatever the
\* half-made item has, and only that one may have its name without its bytes.
LEMMA SomeItemsPieces ==
  ASSUME NEW t, ItemsOf(t) \in Seq(TokenItem), AllWhole(ItemsOf(t)), NEW made \in SomeItemsOf(t),
         NEW ns \in Seq(TokenItem), Pieces(Cat(ns, Total(PlaceTable, ItemsOf(t))))
  PROVE  Pieces(Cat(ns, Total(PlaceTable, made))) /\ ButLastWhole(made)
<1>1. PICK items \in Seq(TokenItem) : items = ItemsOf(t)
  OBVIOUS
<1>2. Len(items) \in Nat /\ AllWhole(items) /\ Pieces(Cat(ns, Total(PlaceTable, items)))
  BY <1>1, LenProperties
<1>3. ASSUME NEW k \in 0 .. Len(items), made = SubSeq(items, 1, k)
      PROVE  Pieces(Cat(ns, Total(PlaceTable, made))) /\ ButLastWhole(made)
  <2>1. Pieces(Cat(ns, Total(PlaceTable, made)))
    BY <1>2, <1>3, FirstPieces
  <2>2. Len(made) = k /\ \A i \in 1 .. k : made[i] = items[i]
    BY <1>3, FirstItems
  <2>3. \A i \in 1 .. k : i \in 1 .. Len(items)
    BY <1>2
  <2>4. ButLastWhole(made)
    BY <1>2, <2>2, <2>3 DEF AllWhole, ButLastWhole
  <2> QED BY <2>1, <2>4
<1>4. ASSUME NEW k \in 1 .. Len(items), NEW h \in HalfMade(items[k]),
             made = Append(SubSeq(items, 1, k - 1), h)
      PROVE  Pieces(Cat(ns, Total(PlaceTable, made))) /\ ButLastWhole(made)
  <2>1. PICK j \in 0 .. Len(items) : j = k - 1
    BY <1>2
  <2>2. PICK p, x : p = SubSeq(items, 1, j) /\ x = items[k]
    OBVIOUS
  <2>3. /\ p \in Seq(TokenItem) /\ Len(p) = j /\ \A i \in 1 .. j : p[i] = items[i]
        /\ x \in TokenItem /\ h \in HalfMade(x) /\ made = Append(p, h)
    <3>1. p \in Seq(TokenItem) /\ Len(p) = j /\ \A i \in 1 .. j : p[i] = items[i]
      BY <2>2, FirstItems
    <3>2. x \in TokenItem
      BY <2>2, ElementOfSeq
    <3> QED BY <1>4, <2>1, <2>2, <3>1, <3>2
  <2>4. h \in TokenItem
    BY <2>3, HalfMadeIs
  <2>5. ButLastWhole(made)
    <3>1. Len(made) = j + 1 /\ \A i \in 1 .. j : made[i] = p[i]
      BY <2>3, <2>4, AppendProperties
    <3>2. \A i \in 1 .. j : i \in 1 .. Len(items)
      BY <2>1
    <3>3. \A i \in 1 .. j + 1 : i # j + 1 => i \in 1 .. j
      BY <2>1
    <3> QED BY <1>2, <2>3, <3>1, <3>2, <3>3 DEF AllWhole, ButLastWhole
  <2>6. PICK u \in Seq(TokenItem) : u = Total(PlaceTable, p)
    BY <2>3, PlacedIsTotal
  <2>7. /\ Total(PlaceTable, Append(p, h)) = Cat(u, IfPlaced(h))
        /\ Total(PlaceTable, Append(p, x)) = Cat(u, IfPlaced(x))
    <3>1. ASSUME NEW e \in TokenItem PROVE Total(PlaceTable, Append(p, e)) = Cat(u, IfPlaced(e))
      <4>1. PlaceTable \in Tables(TokenItem, TokenItem) /\ PlaceTable[e] = IfPlaced(e)
        BY PlaceTableIs
      <4>2. Total(PlaceTable, Append(p, e)) = Total(PlaceTable, p) \o PlaceTable[e]
        BY <2>3, <4>1, TotalAppend
      <4> QED BY <2>6, <4>1, <4>2 DEF Cat
    <3> QED BY <2>3, <2>4, <3>1
  <2>8. Pieces(Cat(ns, u))
    BY <1>2, <2>2, <2>6, FirstPieces
  <2>9. CASE IfPlaced(h) = <<>>
    <3>1. Cat(u, <<>>) = u
      BY CatNone
    <3> QED BY <2>3, <2>5, <2>7, <2>8, <2>9, <3>1
  <2>10. CASE /\ IfPlaced(h) = <<h>> /\ IfPlaced(x) = <<x>>
              /\ h.name = x.name /\ h.ByteStart = x.ByteStart /\ h.ByteEnd = x.ByteEnd
    <3>1. SubSeq(items, 1, k) = Append(p, x)
      <4>1. k \in 0 .. Len(items) /\ 1 <= k
        BY <1>2
      <4>2. /\ SubSeq(items, 1, k) \in Seq(TokenItem) /\ Len(SubSeq(items, 1, k)) = k
            /\ \A i \in 1 .. k : SubSeq(items, 1, k)[i] = items[i]
        BY <4>1, FirstItems
      <4>3. /\ Append(p, x) \in Seq(TokenItem) /\ Len(Append(p, x)) = j + 1
            /\ (\A i \in 1 .. j : Append(p, x)[i] = p[i]) /\ Append(p, x)[j + 1] = x
        BY <2>3, AppendProperties
      <4>4. j + 1 = k /\ \A i \in 1 .. k : i \in 1 .. j \/ i = k
        BY <2>1
      <4>5. \A i \in 1 .. k : SubSeq(items, 1, k)[i] = Append(p, x)[i]
        BY <2>2, <2>3, <4>2, <4>3, <4>4
      <4> QED BY <4>2, <4>3, <4>4, <4>5, SeqEqual
    <3>2. k \in 0 .. Len(items)
      BY <1>2
    <3>3. Pieces(Cat(ns, Cat(u, <<x>>)))
      BY <1>2, <2>7, <2>10, <3>1, <3>2, FirstPieces
    <3>4. PICK v \in Seq(TokenItem) : v = Cat(ns, u)
      BY CatIs
    <3>5. Cat(ns, Cat(u, <<x>>)) = Append(v, x) /\ Cat(ns, Cat(u, <<h>>)) = Append(v, h)
      <4>1. <<x>> \in Seq(TokenItem) /\ <<h>> \in Seq(TokenItem)
        BY <2>3, <2>4
      <4>2. /\ Cat(ns, Cat(u, <<x>>)) = Cat(v, <<x>>)
            /\ Cat(ns, Cat(u, <<h>>)) = Cat(v, <<h>>)
        <5>1. ASSUME NEW w \in Seq(TokenItem) PROVE Cat(ns, Cat(u, w)) = Cat(Cat(ns, u), w)
          BY CatAssociative
        <5> QED BY <3>4, <4>1, <5>1
      <4> QED BY <2>3, <2>4, <4>2, CatOne
    <3>6. Pieces(Append(v, h))
      BY <2>3, <2>4, <2>10, <3>3, <3>5, SamePiece
    <3> QED BY <2>3, <2>5, <2>7, <2>10, <3>5, <3>6
  <2> QED BY <2>3, <2>9, <2>10, HalfMadeIs
<1> QED BY <1>1, <1>3, <1>4, SomeItemsBegin

TiledInv ==
  /\ Counted /\ peeked = FALSE
  /\ proc \in 0 .. 6
  /\ tokens \in Seq(TokenItem)
  /\ Pieces(PlacedItems)
  /\ proc = 1 => Tiles(PlacedItems, At)
  /\ proc >= 2 /\ "Token" \in rels => Tiles(PlacedItems, Len(text) + 1)
  /\ ButLastWhole(tokens)
  /\ proc # 0 => AllWhole(tokens)

LEMMA TextKept ==
  ASSUME UNCHANGED text
  PROVE  /\ \A ns : Pieces(ns) => Pieces(ns)'
         /\ \A ns, i : Tiles(ns, i) => Tiles(ns, i)'
         /\ \A i : OffsetOf(i)' = OffsetOf(i)
<1>1. \A i : OffsetOf(i)' = OffsetOf(i)
  BY DEF OffsetOf, Bytes
<1>2. \A t : IsPiece(t) => IsPiece(t)'
  BY <1>1 DEF IsPiece
<1>3. \A b, c : OnlyWhite(b, c) => OnlyWhite(b, c)'
  BY <1>1 DEF OnlyWhite
<1>4. \A ns : Pieces(ns) => Pieces(ns)'
  BY <1>2, <1>3 DEF Pieces
<1>5. ASSUME NEW ns, NEW i, Tiles(ns, i) PROVE Tiles(ns, i)'
  <2>1. PICK b : b = OffsetOf(i)
    OBVIOUS
  <2>2. OnlyWhite(EndByte(ns), b)'
    BY <1>3, <1>5, <2>1 DEF Tiles
  <2>3. OffsetOf(i)' = b
    BY <1>1, <2>1
  <2> QED BY <1>4, <1>5, <2>2, <2>3 DEF Tiles
<1> QED BY <1>1, <1>4, <1>5

LEMMA TiledInit ==
  ASSUME Init
  PROVE  TiledInv
<1>1. Counted
  BY CountedInit DEF Init
<1>2. peeked = FALSE /\ proc = 1 /\ tokens = <<>> /\ rels = {}
  BY DEF Init, StreamInit
<1>3. tokens \in Seq(TokenItem) /\ PlacedItems = <<>>
  <2>1. <<>> \in Seq(TokenItem)
    BY EmptySeq
  <2>2. PlacedItems = Total(PlaceTable, <<>>)
    BY <1>2, <2>1, PlacedIsTotal DEF PlacedItems
  <2> QED BY <1>2, <2>1, <2>2, TotalNone
<1>4. At = 1
  <2>1. text = <<>> => Len(text) = 0
    OBVIOUS
  <2>2. CASE text = <<>>
    <3>1. eof
      BY <2>2 DEF Init, StreamInit
    <3> QED BY <2>1, <2>2, <3>1 DEF At
  <2>3. CASE text # <<>>
    <3>1. ~eof /\ pos = 1
      BY <2>3 DEF Init, StreamInit
    <3> QED BY <3>1 DEF At
  <2> QED BY <2>2, <2>3
<1>5. Pieces(<<>>)
  BY DEF Pieces
<1>6. Tiles(<<>>, 1)
  <2>1. OffsetOf(1) = 0
    BY <1>1, Offsets DEF Counted
  <2>2. OnlyWhite(0, 0)
    BY <1>1, NoneBetween DEF Counted
  <2> QED BY <1>2, <1>3, <1>5, <2>1, <2>2 DEF Tiles, EndByte
<1>7. AllWhole(tokens) /\ ButLastWhole(tokens)
  <2>1. Len(<<>>) = 0
    OBVIOUS
  <2> QED BY <1>2, <2>1 DEF AllWhole, ButLastWhole
<1> QED BY <1>1, <1>2, <1>3, <1>4, <1>5, <1>6, <1>7 DEF TiledInv

\* A step that leaves the stream and the items.
LEMMA TiledKept ==
  ASSUME TiledInv, UNCHANGED <<streamVars, tokens>>, proc' \in 0 .. 6, proc' = 1 => proc = 1,
         proc' # 0 => proc # 0,
         proc' >= 2 /\ "Token" \in rels' =>
           \/ proc >= 2 /\ "Token" \in rels
           \/ proc = 1 /\ eof
  PROVE  TiledInv'
<1>1. UNCHANGED <<text, pos, byte_pos, eof, tokens>> /\ peeked' = peeked
  BY DEF streamVars
<1>2. At' = At /\ PlacedItems' = PlacedItems
  BY <1>1 DEF At, PlacedItems
<1>3. /\ \A ns : Pieces(ns) => Pieces(ns)'
      /\ \A ns, i : Tiles(ns, i) => Tiles(ns, i)'
      /\ \A i : OffsetOf(i)' = OffsetOf(i)
  BY <1>1, TextKept
<1>4. Counted'
  <2>1. OffsetOf(pos + 1)' = OffsetOf(pos + 1)
    BY <1>1 DEF OffsetOf, Bytes
  <2> QED BY <1>1, <2>1 DEF TiledInv, Counted
<1>5. PICK ns : ns = PlacedItems
  OBVIOUS
<1>6. Pieces(PlacedItems)'
  <2>1. Pieces(ns)'
    BY <1>3, <1>5 DEF TiledInv
  <2> QED BY <1>2, <1>5, <2>1 DEF Pieces
<1>7. proc' = 1 => Tiles(PlacedItems, At)'
  <2> SUFFICES ASSUME proc' = 1 PROVE Tiles(PlacedItems, At)'
    OBVIOUS
  <2>1. PICK a : a = At
    OBVIOUS
  <2>2. Tiles(ns, a)'
    BY <1>3, <1>5, <2>1 DEF TiledInv
  <2>3. OffsetOf(At)' = OffsetOf(a)'
    BY <1>2, <2>1 DEF OffsetOf, Bytes
  <2> QED BY <1>2, <1>5, <2>2, <2>3, <1>6 DEF Tiles
<1>8. proc' >= 2 /\ "Token" \in rels' => Tiles(PlacedItems, Len(text) + 1)'
  <2> SUFFICES ASSUME proc' >= 2, "Token" \in rels' PROVE Tiles(PlacedItems, Len(text) + 1)'
    OBVIOUS
  <2>1. PICK a : a = Len(text) + 1
    OBVIOUS
  <2>2. Tiles(ns, a)
    <3>1. CASE proc >= 2 /\ "Token" \in rels
      BY <1>5, <2>1, <3>1 DEF TiledInv
    <3>2. CASE proc = 1 /\ eof
      BY <1>5, <2>1, <3>2 DEF TiledInv, At
    <3> QED BY <3>1, <3>2
  <2>3. Tiles(ns, a)'
    BY <1>3, <2>2
  <2>4. OffsetOf(Len(text) + 1)' = OffsetOf(a)'
    BY <1>1, <2>1 DEF OffsetOf, Bytes
  <2> QED BY <1>2, <1>5, <2>3, <2>4, <1>6 DEF Tiles
<1>9. ButLastWhole(tokens)' /\ (proc' # 0 => AllWhole(tokens)')
  BY <1>1 DEF TiledInv, ButLastWhole, AllWhole, Whole
<1> QED BY <1>1, <1>4, <1>6, <1>7, <1>8, <1>9 DEF TiledInv

\* The tokenizer makes the items of a token, or some of them.
LEMMA TiledRead ==
  ASSUME NarrowWhite, TiledInv, proc = 1, ~eof, GetToken
  PROVE  /\ Counted' /\ peeked' = FALSE /\ UNCHANGED text
         /\ ItemsOf(currentToken') \in Seq(TokenItem) /\ AllWhole(ItemsOf(currentToken'))
         /\ Tiles(Cat(PlacedItems, Total(PlaceTable, ItemsOf(currentToken'))), At')
<1>1. ReadToken /\ peeked' = FALSE
  <2>1. peeked = FALSE
    BY DEF TiledInv
  <2>2. ReadToken /\ UNCHANGED peeked
    BY <2>1, Zenon DEF GetToken
  <2> QED BY <2>1, <2>2
<1>2. Counted /\ Tiles(PlacedItems, At)
  BY DEF TiledInv
<1>3. /\ Counted' /\ UNCHANGED text
      /\ currentToken'.byte_start = OffsetOf(At)
      /\ \E w, p, s : Parts(At, w, p, s, At') /\ PartsOf(currentToken', At, w, p, s, At')
  BY <1>1, <1>2, ReadsToken
<1>4. PICK w, p, s : Parts(At, w, p, s, At') /\ PartsOf(currentToken', At, w, p, s, At')
  BY <1>3
<1>5. PICK t, a, q, ns : t = currentToken' /\ a = At /\ q = At' /\ ns = PlacedItems
  OBVIOUS
<1>6. Parts(a, w, p, s, q) /\ PartsOf(t, a, w, p, s, q) /\ t.byte_start = OffsetOf(a) /\ Tiles(ns, a)
  BY <1>2, <1>3, <1>4, <1>5
<1>7. text \in Seq(Chars)
  BY <1>2 DEF Counted
<1>8. ItemsOf(t) \in Seq(TokenItem) /\ AllWhole(ItemsOf(t))
      /\ Tiles(Cat(ns, Total(PlaceTable, ItemsOf(t))), q)
  BY <1>6, <1>7, ItemsOfTiles
<1>9. AllWhole(ItemsOf(currentToken'))
  BY <1>5, <1>8
<1> QED BY <1>1, <1>3, <1>5, <1>8, <1>9

LEMMA PlacedGrows ==
  ASSUME tokens \in Seq(TokenItem), NEW made \in Seq(TokenItem), tokens' = tokens \o made
  PROVE  /\ tokens' \in Seq(TokenItem)
         /\ PlacedItems' = Cat(PlacedItems, Total(PlaceTable, made))
         /\ PlacedItems \in Seq(TokenItem) /\ Total(PlaceTable, made) \in Seq(TokenItem)
<1>1. PICK ts \in Seq(TokenItem) : ts = tokens
  OBVIOUS
<1>2. PICK us \in Seq(TokenItem) : us = Cat(ts, made)
  BY CatIs
<1>3. tokens' = us
  BY <1>1, <1>2 DEF Cat
<1>4. PlacedItems = Total(PlaceTable, ts) /\ Total(PlaceTable, ts) \in Seq(TokenItem)
  BY <1>1, PlacedIsTotal DEF PlacedItems
<1>5. PlacedItems' = Total(PlaceTable, us)
  <2>1. FlattenSeq([k \in DOMAIN us |-> IfPlaced(us[k])]) = Total(PlaceTable, us)
    BY PlacedIsTotal
  <2> QED BY <1>3, <2>1 DEF PlacedItems
<1>6. Total(PlaceTable, us) = Cat(Total(PlaceTable, ts), Total(PlaceTable, made))
  BY <1>2, PlaceTableIs, TotalCat
<1>7. Total(PlaceTable, made) \in Seq(TokenItem)
  BY PlacedIsTotal
<1> QED BY <1>3, <1>4, <1>5, <1>6, <1>7

LEMMA TiledNow ==
  ASSUME UNCHANGED text, NEW ns, ns = PlacedItems', Pieces(ns)
  PROVE  /\ Pieces(PlacedItems)'
         /\ Tiles(ns, At') => Tiles(PlacedItems, At)'
<1>1. PICK a : a = At'
  OBVIOUS
<1>2. Pieces(ns)' /\ (Tiles(ns, a) => Tiles(ns, a)')
  BY TextKept
<1>3. Pieces(PlacedItems)'
  BY <1>2 DEF Pieces
<1>4. OffsetOf(At)' = OffsetOf(a)'
  BY <1>1 DEF OffsetOf, Bytes
<1> QED BY <1>1, <1>2, <1>3, <1>4 DEF Tiles

LEMMA WholeLater ==
  /\ AllWhole(tokens)' <=> AllWhole(tokens')
  /\ ButLastWhole(tokens)' <=> ButLastWhole(tokens')
BY DEF AllWhole, ButLastWhole, Whole

LEMMA TokenizeNextTiles ==
  ASSUME NarrowWhite, TiledInv, proc = 1, TokenizeNext
  PROVE  TiledInv'
<1>1. ~eof /\ GetToken /\ tokens' = tokens \o ItemsOf(currentToken') /\ proc' = proc
  BY Goes DEF TokenizeNext
<1>2. /\ Counted' /\ peeked' = FALSE /\ UNCHANGED text
      /\ ItemsOf(currentToken') \in Seq(TokenItem) /\ AllWhole(ItemsOf(currentToken'))
      /\ Tiles(Cat(PlacedItems, Total(PlaceTable, ItemsOf(currentToken'))), At')
  BY <1>1, TiledRead
<1>3. PICK made \in Seq(TokenItem) : made = ItemsOf(currentToken')
  BY <1>2
<1>4. PICK ns : ns = Cat(PlacedItems, Total(PlaceTable, made))
  OBVIOUS
<1>5. tokens' \in Seq(TokenItem) /\ PlacedItems' = ns
  BY <1>1, <1>3, <1>4, PlacedGrows DEF TiledInv
<1>6. Tiles(ns, At') /\ Pieces(ns)
  BY <1>2, <1>3, <1>4 DEF Tiles
<1>7. Pieces(PlacedItems)' /\ Tiles(PlacedItems, At)'
  BY <1>2, <1>5, <1>6, TiledNow
<1>8. proc' = 1
  BY <1>1
<1>9. AllWhole(tokens') /\ ButLastWhole(tokens')
  <2>1. AllWhole(tokens) /\ tokens \in Seq(TokenItem) /\ AllWhole(made)
    BY <1>2, <1>3 DEF TiledInv
  <2>2. tokens' = Cat(tokens, made)
    BY <1>1, <1>3 DEF Cat
  <2>3. AllWhole(Cat(tokens, made))
    BY <2>1, WholeCat
  <2> QED BY <2>2, <2>3 DEF AllWhole, ButLastWhole
<1> QED BY <1>2, <1>5, <1>7, <1>8, <1>9, WholeLater DEF TiledInv

LEMMA TokenizeFailsTiles ==
  ASSUME Complete, NarrowWhite, TiledInv, proc = 1, TokenizeFails
  PROVE  TiledInv'
<1>1. ~eof /\ GetToken
  BY DEF TokenizeFails
<1>2. /\ Counted' /\ peeked' = FALSE /\ UNCHANGED text
      /\ ItemsOf(currentToken') \in Seq(TokenItem) /\ AllWhole(ItemsOf(currentToken'))
      /\ Tiles(Cat(PlacedItems, Total(PlaceTable, ItemsOf(currentToken'))), At')
  BY <1>1, TiledRead
<1>3. ASSUME NEW made \in SomeItemsOf(currentToken'), tokens' = tokens \o made, Returns(TRUE)
      PROVE  TiledInv'
  <2>1. PICK t : t = currentToken'
    OBVIOUS
  <2>2. ItemsOf(t) \in Seq(TokenItem) /\ made \in SomeItemsOf(t)
    BY <1>2, <1>3, <2>1
  <2>3. made \in Seq(TokenItem)
    BY <2>2, SomeItemsBegin
  <2>5. /\ tokens' \in Seq(TokenItem) /\ PlacedItems' = Cat(PlacedItems, Total(PlaceTable, made))
        /\ PlacedItems \in Seq(TokenItem) /\ Total(PlaceTable, made) \in Seq(TokenItem)
    BY <1>3, <2>3, PlacedGrows DEF TiledInv
  <2>6. PICK ns \in Seq(TokenItem), ms \in Seq(TokenItem) : ns = PlacedItems /\ ms = Total(PlaceTable, made)
    BY <2>5
  <2>7. PICK ps \in Seq(TokenItem) : ps = Cat(ns, ms)
    BY CatIs
  <2>8. Pieces(Cat(ns, Total(PlaceTable, ItemsOf(t)))) /\ AllWhole(ItemsOf(t))
    BY <1>2, <2>1, <2>6 DEF Tiles
  <2>9. Pieces(Cat(ns, Total(PlaceTable, made))) /\ ButLastWhole(made)
    BY <2>2, <2>8, SomeItemsPieces
  <2>10. Pieces(ps)
    BY <2>6, <2>7, <2>9
  <2>11. ps = PlacedItems'
    BY <2>5, <2>6, <2>7
  <2>12. Pieces(PlacedItems)'
    BY <1>2, <2>10, <2>11, TiledNow
  <2>13. proc' = 0
    BY <1>3 DEF Returns
  <2>14. ButLastWhole(tokens')
    <3>1. AllWhole(tokens) /\ tokens \in Seq(TokenItem)
      BY DEF TiledInv
    <3>2. tokens' = Cat(tokens, made)
      BY <1>3 DEF Cat
    <3> QED BY <2>3, <2>9, <3>1, <3>2, WholeCat
  <2> QED BY <1>2, <2>5, <2>12, <2>13, <2>14, WholeLater DEF TiledInv
<1>4. CASE QuitError({"Token"}) /\ tokens' = <<>>
  <2>1. proc' = proc + 1 /\ "Token" \notin rels'
    BY <1>4, Quits
  <2>2. tokens' \in Seq(TokenItem) /\ PlacedItems' = <<>>
    <3>1. <<>> \in Seq(TokenItem)
      BY EmptySeq
    <3>2. FlattenSeq([k \in DOMAIN <<>> |-> IfPlaced(<<>>[k])]) = <<>>
      BY <3>1, PlacedIsTotal, TotalNone
    <3> QED BY <1>4, <3>1, <3>2 DEF PlacedItems
  <2>3. Pieces(<<>>)
    BY DEF Pieces
  <2>4. Pieces(PlacedItems)'
    BY <1>2, <2>2, <2>3, TiledNow
  <2>5. proc' = 2
    BY <2>1
  <2>6. AllWhole(tokens') /\ ButLastWhole(tokens')
    <3>1. Len(<<>>) = 0
      OBVIOUS
    <3> QED BY <1>4, <3>1 DEF AllWhole, ButLastWhole
  <2> QED BY <1>2, <2>1, <2>2, <2>4, <2>5, <2>6, WholeLater DEF TiledInv
<1>5. \/ \E made \in SomeItemsOf(currentToken') : tokens' = tokens \o made /\ Returns(TRUE)
      \/ QuitError({"Token"}) /\ tokens' = <<>>
  <2>1. \/ (\E made \in SomeItemsOf(currentToken') : tokens' = tokens \o made) /\ Returns(TRUE)
        \/ QuitError({"Token"}) /\ tokens' = <<>>
    BY Zenon DEF TokenizeFails
  <2> QED BY <2>1, Zenon
<1> QED BY <1>3, <1>4, <1>5

LEMMA TokenizeTiles ==
  ASSUME Complete, NarrowWhite, TiledInv, Tokenize
  PROVE  TiledInv'
<1>1. proc = 1 /\ (proc' \in 0 .. 1 \/ proc' = 2)
  BY TokenizeGoes
<1>2. CASE TokenizeStarts
  <2>1. UNCHANGED <<streamVars, tokens>>
    BY <1>2 DEF TokenizeStarts, uttVars
  <2>2. CASE Loops("loop", 1)
    <3>1. proc' = 1
      BY <1>1, <2>2 DEF Loops
    <3> QED BY <1>1, <2>1, <3>1, TiledKept
  <2>3. CASE QuitError({"Token"})
    <3>1. proc' = 2 /\ "Token" \notin rels'
      BY <1>1, <2>3, Quits
    <3> QED BY <1>1, <2>1, <3>1, TiledKept
  <2> QED BY <1>2, <2>2, <2>3 DEF TokenizeStarts
<1>3. CASE TokenizeEnds
  <2>1. UNCHANGED <<streamVars, tokens>> /\ eof
    BY <1>3 DEF TokenizeEnds, uttVars
  <2>2. proc' = 2
    <3>1. Returns(FALSE)
      BY <1>3 DEF TokenizeEnds
    <3> QED BY <1>1, <3>1 DEF Returns
  <2> QED BY <1>1, <2>1, <2>2, TiledKept
<1> QED BY <1>1, <1>2, <1>3, TokenizeNextTiles, TokenizeFailsTiles DEF Tokenize

\* The processors after the tokenizer make no Token relation.
LEMMA TokenRelation ==
  ASSUME Normalize \/ Phrasify \/ LexLookup \/ Pauses, "Token" \in rels'
  PROVE  "Token" \in rels
<1>1. CASE Normalize
  BY <1>1 DEF Normalize, NormalizeStarts, NormalizeNext, NormalizeFails, NormalizeEnds, QuitError
<1>2. CASE Phrasify
  <2>1. CASE PhrasifyStarts
    BY <2>1 DEF PhrasifyStarts, QuitError
  <2>2. CASE PhrasifyNext \/ PhrasifyFails \/ PhrasifyEnds
    BY <2>2 DEF PhrasifyNext, PhrasifyFails, PhrasifyEnds, QuitError
  <2> QED BY <1>2, <2>1, <2>2 DEF Phrasify
<1>3. CASE LexLookup
  <2>1. CASE LexLookupStarts
    BY <2>1 DEF LexLookupStarts, LexRelations, QuitError
  <2>2. CASE LexLookupDowncase \/ LexLookupNext \/ LexLookupMissing \/ LexLookupFails \/ LexLookupEnds
    BY <2>2 DEF LexLookupDowncase, LexLookupNext, LexLookupMissing, LexLookupFails, LexLookupEnds,
                QuitError
  <2> QED BY <1>3, <2>1, <2>2 DEF LexLookup
<1>4. CASE Pauses
  BY <1>4 DEF Pauses, PausesStarts, PausesNext, PausesFails, PausesEnds
<1> QED BY <1>1, <1>2, <1>3, <1>4

LEMMA AfterTokenize ==
  ASSUME Complete, Normalize \/ Phrasify \/ LexLookup \/ Pauses
  PROVE  proc \in 2 .. 5 /\ proc' \in 0 .. 6 /\ proc' # 1
<1>1. CASE Normalize
  BY <1>1, NormalizeGoes
<1>2. CASE Phrasify
  BY <1>2, PhrasifyGoes
<1>3. CASE LexLookup \/ Pauses
  BY <1>3, LaterGoes
<1> QED BY <1>1, <1>2, <1>3

LEMMA TiledStep ==
  ASSUME Complete, NarrowWhite, TiledInv, [Next]_vars
  PROVE  TiledInv'
<1>1. CASE Tokenize
  BY <1>1, TokenizeTiles
<1>2. CASE Normalize \/ Phrasify \/ LexLookup \/ Pauses
  <2>1. UNCHANGED <<streamVars, tokens>>
    BY <1>2, StreamLeft
  <2>2. "Token" \in rels' => "Token" \in rels
    BY <1>2, TokenRelation
  <2>3. proc \in 2 .. 5 /\ proc' \in 0 .. 6 /\ proc' # 1
    BY <1>2, AfterTokenize
  <2>4. proc >= 2
    BY <2>3
  <2> QED BY <2>1, <2>2, <2>3, <2>4, TiledKept
<1>3. CASE UNCHANGED vars
  <2>1. UNCHANGED <<streamVars, tokens>> /\ proc' = proc /\ rels' = rels
    BY <1>3 DEF vars, uttVars
  <2>2. proc \in 0 .. 6
    BY DEF TiledInv
  <2> QED BY <2>1, <2>2, TiledKept
<1> QED BY <1>1, <1>2, <1>3 DEF Next

LEMMA TiledHolds ==
  ASSUME Complete, TiledInv
  PROVE  Tiled
<1>1. PICK ns : ns = PlacedItems
  OBVIOUS
<1>2. ns \in Seq(TokenItem) /\ Pieces(ns)
  <2>1. Total(PlaceTable, tokens) \in Seq(TokenItem) /\ PlacedItems = Total(PlaceTable, tokens)
    BY PlacedIsTotal DEF TiledInv, PlacedItems
  <2> QED BY <1>1, <2>1 DEF TiledInv
<1>3. DOMAIN ns = 1 .. Len(ns)
  BY <1>2, LenProperties
<1>4. ASSUME NEW k \in DOMAIN ns
      PROVE  IsPiece(ns[k]) /\ OnlyWhite(IF k = 1 THEN 0 ELSE ns[k - 1].ByteEnd, ns[k].ByteStart)
  BY <1>2, <1>3 DEF Pieces, ByteBefore
<1>5. ASSUME Past("Tokenize"), "Token" \in rels
      PROVE  OnlyWhite(IF ns = <<>> THEN 0 ELSE Last(ns).ByteEnd, Bytes(text))
  <2>1. proc >= 2
    <3>1. PICK k \in DOMAIN UttType : UttType[k] = "Tokenize" /\ proc > k
      BY <1>5 DEF Past
    <3>2. k \in 1 .. 5
      BY <3>1 DEF Complete
    <3>3. proc \in 0 .. 6
      BY DEF TiledInv
    <3> QED BY <3>1, <3>2, <3>3
  <2>2. Tiles(ns, Len(text) + 1)
    BY <1>1, <1>5, <2>1 DEF TiledInv
  <2>3. OffsetOf(Len(text) + 1) = Bytes(text)
    <3>1. text \in Seq(Chars) /\ Len(text) \in Nat
      BY LenProperties DEF TiledInv, Counted
    <3>2. SubSeq(text, 1, Len(text)) = text
      BY <3>1, SubSeqFull
    <3>3. (Len(text) + 1) - 1 = Len(text)
      BY <3>1
    <3> QED BY <3>2, <3>3 DEF OffsetOf
  <2> QED BY <2>2, <2>3 DEF Tiles, EndByte
<1>6. ASSUME NEW k \in DOMAIN tokens, tokens[k].name # <<>>, tokens[k].ByteEnd = Unset
      PROVE  k = Len(tokens) /\ proc = 0
  <2>1. k \in 1 .. Len(tokens)
    BY LenProperties DEF TiledInv
  <2>2. ~Whole(tokens[k])
    BY <1>6 DEF Whole
  <2> QED BY <2>1, <2>2 DEF TiledInv, AllWhole, ButLastWhole
<1> QED BY <1>1, <1>4, <1>5, <1>6 DEF Tiled

\* For every text whose white space takes one byte a character, the items of
\* Token that have their bytes are pieces of the text in its order with only white
\* space between them, whatever call of the tokenizer fails, and when it has
\* ended only white space is left; an item that has its name without its bytes is
\* the last one, of a failed call, and no processor runs after it (Tiled).
THEOREM TokensTile ==
  ASSUME Complete, NarrowWhite
  PROVE  Spec => []Tiled
<1>1. Init => TiledInv
  BY TiledInit
<1>2. TiledInv /\ [Next]_vars => TiledInv'
  BY TiledStep
<1>3. TiledInv => Tiled
  BY TiledHolds
<1> QED BY <1>1, <1>2, <1>3, PTL DEF Spec

-----------------------------------------------------------------------------
(* The words spell the text.                                                   *)

LetterTable == [c \in Chars |-> IF c \in StringChars THEN <<c>> ELSE <<>>]
SaidTable == [x \in TokenItem |-> IF x.IsPunctuation THEN <<>> ELSE x.name]

Word == [token : Int, nth : Int, name : Seq(Chars)]
SpelledTable == [w \in Word |-> w.name]

LEMMA TablesAre ==
  /\ LetterTable \in Tables(Chars, Chars)
  /\ SaidTable \in Tables(TokenItem, Chars)
  /\ SpelledTable \in Tables(Word, Chars)
<1>1. LetterTable \in [Chars -> Seq(Chars)]
  <2>1. \A c \in Chars : <<c>> \in Seq(Chars) /\ <<>> \in Seq(Chars)
    BY EmptySeq
  <2> QED BY <2>1 DEF LetterTable
<1>2. SaidTable \in [TokenItem -> Seq(Chars)]
  <2>1. \A x \in TokenItem : x.name \in Seq(Chars) /\ <<>> \in Seq(Chars)
    BY EmptySeq DEF TokenItem
  <2> QED BY <2>1 DEF SaidTable
<1>3. SpelledTable \in [Word -> Seq(Chars)]
  BY DEF SpelledTable, Word
<1> QED BY <1>1, <1>2, <1>3 DEF Tables

LEMMA LettersAre ==
  ASSUME NEW s \in Seq(Chars)
  PROVE  Letters(s) = Total(LetterTable, s) /\ Letters(s) \in Seq(Chars)
<1>1. \A i \in DOMAIN s : s[i] \in Chars
  BY LenProperties, ElementOfSeq
<1>2. [i \in DOMAIN s |-> IF s[i] \in StringChars THEN <<s[i]>> ELSE <<>>] = Mapped(LetterTable, s)
  BY <1>1 DEF Mapped, LetterTable
<1>3. Total(LetterTable, s) \in Seq(Chars)
  BY TablesAre, TotalType
<1> QED BY <1>2, <1>3 DEF Letters, Total

\* A table that has each element for itself.
LEMMA TotalSame ==
  ASSUME NEW S, NEW T, NEW f \in Tables(T, T), S \subseteq T, \A e \in S : f[e] = <<e>>, NEW s \in Seq(S)
  PROVE  Total(f, s) = s
<1> DEFINE G == {x \in Seq(S) : Total(f, x) = x}
<1>1. <<>> \in G
  BY EmptySeq, TotalNone
<1>2. ASSUME NEW x \in G, NEW e \in S PROVE Append(x, e) \in G
  <2>1. x \in Seq(S) /\ Total(f, x) = x
    OBVIOUS
  <2>2. x \in Seq(T) /\ e \in T
    BY <2>1, SeqMonotonic
  <2>3. Total(f, Append(x, e)) = Cat(x, <<e>>)
    BY <2>1, <2>2, TotalAppend DEF Cat
  <2>4. Append(x, e) = Cat(x, <<e>>) /\ Append(x, e) \in Seq(S)
    BY <2>1, CatOne
  <2> QED BY <2>3, <2>4
<1>3. G \in SUBSET Seq(S)
  OBVIOUS
<1> HIDE DEF G
<1>4. G = Seq(S)
  BY <1>1, <1>2, <1>3, SeqSetInduction
<1> QED BY <1>4 DEF G

LEMMA TotalNothing ==
  ASSUME NEW S, NEW T, NEW f \in Tables(T, T), S \subseteq T, \A e \in S : f[e] = <<>>, NEW s \in Seq(S)
  PROVE  Total(f, s) = <<>>
<1> DEFINE G == {x \in Seq(S) : Total(f, x) = <<>>}
<1>1. <<>> \in G
  BY EmptySeq, TotalNone
<1>2. ASSUME NEW x \in G, NEW e \in S PROVE Append(x, e) \in G
  <2>1. x \in Seq(S) /\ Total(f, x) = <<>>
    OBVIOUS
  <2>2. x \in Seq(T) /\ e \in T
    BY <2>1, SeqMonotonic
  <2>3. Total(f, Append(x, e)) = Cat(<<>>, <<>>)
    BY <2>1, <2>2, TotalAppend DEF Cat
  <2>4. Cat(<<>>, <<>>) = <<>> /\ Append(x, e) \in Seq(S)
    <3>1. <<>> \in Seq(S)
      BY EmptySeq
    <3> QED BY <2>1, <3>1, CatNone, CatOne
  <2> QED BY <2>3, <2>4
<1>3. G \in SUBSET Seq(S)
  OBVIOUS
<1> HIDE DEF G
<1>4. G = Seq(S)
  BY <1>1, <1>2, <1>3, SeqSetInduction
<1> QED BY <1>4 DEF G

LEMMA LettersOfPart ==
  ASSUME NEW s \in Seq(Chars)
  PROVE  /\ s \in Seq(StringChars) => Letters(s) = s
         /\ s \in Seq(White) \/ s \in Seq(Pre) \/ s \in Seq(Post) => Letters(s) = <<>>
<1>1. Letters(s) = Total(LetterTable, s) /\ LetterTable \in Tables(Chars, Chars)
  BY LettersAre, TablesAre
<1>2. StringChars \subseteq Chars /\ \A c \in StringChars : LetterTable[c] = <<c>>
  BY DEF StringChars, LetterTable
<1>3. White \subseteq Chars /\ Pre \subseteq Chars /\ Post \subseteq Chars
  BY SymbolsAssumption
<1>4. /\ \A c \in White : LetterTable[c] = <<>>
      /\ \A c \in Pre : LetterTable[c] = <<>>
      /\ \A c \in Post : LetterTable[c] = <<>>
  BY <1>3 DEF StringChars, LetterTable
<1>5. s \in Seq(StringChars) => Letters(s) = s
  BY <1>1, <1>2, TotalSame
<1>6. s \in Seq(White) => Letters(s) = <<>>
  BY <1>1, <1>3, <1>4, TotalNothing
<1>7. s \in Seq(Pre) => Letters(s) = <<>>
  BY <1>1, <1>3, <1>4, TotalNothing
<1>8. s \in Seq(Post) => Letters(s) = <<>>
  BY <1>1, <1>3, <1>4, TotalNothing
<1> QED BY <1>5, <1>6, <1>7, <1>8

\* The letters up to place j are those up to i and those between.
LEMMA LettersUpTo ==
  ASSUME text \in Seq(Chars), NEW i \in 1 .. Len(text) + 1, NEW j \in i .. Len(text) + 1
  PROVE  /\ Letters(SubSeq(text, 1, j - 1))
              = Cat(Letters(SubSeq(text, 1, i - 1)), Letters(SubSeq(text, i, j - 1)))
         /\ Letters(SubSeq(text, 1, i - 1)) \in Seq(Chars)
<1>1. PICK n \in Nat : n = Len(text)
  BY LenProperties
<1>2. SubSeq(text, 1, i - 1) \o SubSeq(text, (i - 1) + 1, j - 1) = SubSeq(text, 1, j - 1)
  <2>1. 1 \in 1 .. n + 1 /\ i - 1 \in 1 - 1 .. n /\ j - 1 \in i - 1 .. n
    BY <1>1
  <2> QED BY <1>1, <2>1, ConcatAdjacentSubSeq
<1>3. (i - 1) + 1 = i
  OBVIOUS
<1>4. PICK a, b : a = SubSeq(text, 1, i - 1) /\ b = SubSeq(text, i, j - 1)
  OBVIOUS
<1>5. a \in Seq(Chars) /\ b \in Seq(Chars)
  <2>1. 1 \in 1 .. Len(text) + 1 /\ i \in 1 .. Len(text) + 1
    BY <1>1
  <2> QED BY <1>4, <2>1, PieceIn
<1>6. Total(LetterTable, Cat(a, b)) = Cat(Total(LetterTable, a), Total(LetterTable, b))
  BY <1>5, TablesAre, TotalCat
<1>7. Cat(a, b) \in Seq(Chars) /\ SubSeq(text, 1, j - 1) = Cat(a, b)
  BY <1>2, <1>3, <1>4, <1>5, CatIs DEF Cat
<1> QED BY <1>4, <1>5, <1>6, <1>7, LettersAre

LEMMA PartIs ==
  ASSUME NEW C, NEW i \in Int, NEW j \in Int, \A k \in i .. j - 1 : text[k] \in C
  PROVE  SubSeq(text, i, j - 1) \in Seq(C)
BY SubSeqProperties

\* The letters of a token are those of its string.
LEMMA LettersOfToken ==
  ASSUME text \in Seq(Chars), NEW a, NEW w, NEW p, NEW s, NEW q, Parts(a, w, p, s, q)
  PROVE  Letters(SubSeq(text, 1, q - 1))
           = Cat(Letters(SubSeq(text, 1, a - 1)), SubSeq(text, p, s - 1))
<1>1. PICK n \in Nat : n = Len(text)
  BY LenProperties
<1>2. /\ a \in 1 .. n + 1 /\ w \in 1 .. n + 1 /\ p \in 1 .. n + 1 /\ s \in 1 .. n + 1
      /\ w \in a .. n + 1 /\ p \in w .. n + 1 /\ s \in p .. n + 1 /\ q \in s .. n + 1
  BY <1>1 DEF Parts
<1>3. PICK ws, pr, st, po : /\ ws = SubSeq(text, a, w - 1) /\ pr = SubSeq(text, w, p - 1)
                            /\ st = SubSeq(text, p, s - 1) /\ po = SubSeq(text, s, q - 1)
  OBVIOUS
<1>4. /\ ws \in Seq(Chars) /\ pr \in Seq(Chars) /\ st \in Seq(Chars) /\ po \in Seq(Chars)
  BY <1>1, <1>2, <1>3, PieceIn
<1>5. ws \in Seq(White) /\ pr \in Seq(Pre) /\ st \in Seq(StringChars) /\ po \in Seq(Post)
  <2>1. /\ a \in Int /\ w \in Int /\ p \in Int /\ s \in Int /\ q \in Int
    BY <1>2
  <2>2. /\ \A j \in a .. w - 1 : text[j] \in White
        /\ \A j \in w .. p - 1 : text[j] \in Pre
        /\ \A j \in p .. s - 1 : text[j] \in StringChars
        /\ \A j \in s .. q - 1 : text[j] \in Post
    BY DEF Parts
  <2>3. ws \in Seq(White) /\ pr \in Seq(Pre)
    BY <1>3, <2>1, <2>2, PartIs
  <2>4. st \in Seq(StringChars) /\ po \in Seq(Post)
    BY <1>3, <2>1, <2>2, PartIs
  <2> QED BY <2>3, <2>4
<1>6. Letters(ws) = <<>> /\ Letters(pr) = <<>> /\ Letters(st) = st /\ Letters(po) = <<>>
  BY <1>4, <1>5, LettersOfPart
<1>7. PICK la, lw, lp, ls, lq : /\ la = Letters(SubSeq(text, 1, a - 1)) /\ lw = Letters(SubSeq(text, 1, w - 1))
                                /\ lp = Letters(SubSeq(text, 1, p - 1)) /\ ls = Letters(SubSeq(text, 1, s - 1))
                                /\ lq = Letters(SubSeq(text, 1, q - 1))
  OBVIOUS
<1>8. lw = Cat(la, <<>>) /\ la \in Seq(Chars)
  BY <1>1, <1>2, <1>3, <1>6, <1>7, LettersUpTo
<1>9. lp = Cat(lw, <<>>) /\ lw \in Seq(Chars)
  BY <1>1, <1>2, <1>3, <1>6, <1>7, LettersUpTo
<1>10. ls = Cat(lp, st) /\ lp \in Seq(Chars)
  BY <1>1, <1>2, <1>3, <1>6, <1>7, LettersUpTo
<1>11. lq = Cat(ls, <<>>) /\ ls \in Seq(Chars)
  BY <1>1, <1>2, <1>3, <1>6, <1>7, LettersUpTo
<1>12. lw = la /\ lp = lw /\ lq = ls
  BY <1>8, <1>9, <1>10, <1>11, CatNone
<1> QED BY <1>3, <1>7, <1>10, <1>12

LEMMA BytesNat ==
  ASSUME NEW s \in Seq(Chars)
  PROVE  Bytes(s) \in Nat
BY BytesAre, WeightsType

LEMMA ItemIs ==
  ASSUME NEW name \in Seq(Chars), NEW start \in Int, NEW punctuation \in BOOLEAN,
         NEW x, x = Item(name, start, punctuation)
  PROVE  x \in TokenItem /\ x.IsPunctuation = punctuation /\ x.name = name
<1>1. Bytes(name) \in Nat
  BY BytesNat
<1>2. start + Bytes(name) \in Int
  BY <1>1
<1> QED BY <1>2 DEF Item, TokenItem

LEMMA IfNamedSaid ==
  ASSUME NEW x \in TokenItem
  PROVE  /\ IfNamed(x) \in Seq(TokenItem)
         /\ x.IsPunctuation = TRUE => Total(SaidTable, IfNamed(x)) = <<>>
         /\ x.IsPunctuation = FALSE => Total(SaidTable, IfNamed(x)) = x.name
<1>1. IfNamed(x) \in Seq(TokenItem)
  BY DEF IfNamed
<1>2. CASE x.name = <<>>
  <2>1. Total(SaidTable, IfNamed(x)) = <<>>
    BY <1>2, TotalNone DEF IfNamed
  <2> QED BY <1>1, <1>2, <2>1
<1>3. CASE x.name # <<>>
  <2>1. Total(SaidTable, <<x>>) = SaidTable[x]
    BY TablesAre, TotalOne
  <2>2. IfNamed(x) = <<x>>
    BY <1>3 DEF IfNamed
  <2>3. SaidTable[x] = IF x.IsPunctuation THEN <<>> ELSE x.name
    BY DEF SaidTable
  <2> QED BY <1>1, <2>1, <2>2, <2>3
<1> QED BY <1>2, <1>3

\* The items of a token say its string: the parts around it are punctuation.
LEMMA ItemsOfSaid ==
  ASSUME NEW t \in Token
  PROVE  ItemsOf(t) \in Seq(TokenItem) /\ Total(SaidTable, ItemsOf(t)) = t.string
<1>1. /\ t.pre_punc \in Seq(Chars) /\ t.string \in Seq(Chars) /\ t.post_punc \in Seq(Chars)
      /\ t.whitespace \in Seq(Chars) /\ t.byte_start \in Int
  BY DEF Token
<1>2. PICK pre : pre = t.byte_start + Len(t.whitespace)
  OBVIOUS
<1>3. PICK string : string = pre + Bytes(t.pre_punc)
  OBVIOUS
<1>4. PICK post : post = string + Bytes(t.string)
  OBVIOUS
<1>5. pre \in Int /\ string \in Int /\ post \in Int
  <2>1. Len(t.whitespace) \in Nat
    BY <1>1, LenProperties
  <2>2. Bytes(t.pre_punc) \in Nat /\ Bytes(t.string) \in Nat
    BY <1>1, BytesNat
  <2>3. pre \in Int
    BY <1>1, <1>2, <2>1
  <2>4. string \in Int
    BY <1>3, <2>2, <2>3
  <2> QED BY <1>4, <2>2, <2>3, <2>4
<1>6. PICK x, y, z : /\ x = Item(t.pre_punc, pre, TRUE) /\ y = Item(t.string, string, FALSE)
                     /\ z = Item(t.post_punc, post, TRUE)
  OBVIOUS
<1>7. x \in TokenItem /\ x.IsPunctuation = TRUE
  <2>1. t.pre_punc \in Seq(Chars) /\ pre \in Int /\ TRUE \in BOOLEAN
    BY <1>1, <1>5
  <2> QED BY <1>6, <2>1, ItemIs
<1>8. y \in TokenItem /\ y.IsPunctuation = FALSE /\ y.name = t.string
  <2>1. t.string \in Seq(Chars) /\ string \in Int /\ FALSE \in BOOLEAN
    BY <1>1, <1>5
  <2> QED BY <1>6, <2>1, ItemIs
<1>9. z \in TokenItem /\ z.IsPunctuation = TRUE
  <2>1. t.post_punc \in Seq(Chars) /\ post \in Int /\ TRUE \in BOOLEAN
    BY <1>1, <1>5
  <2> QED BY <1>6, <2>1, ItemIs
<1>10. PICK named : named = Cat(Cat(IfNamed(x), IfNamed(y)), IfNamed(z))
  OBVIOUS
<1>11. ItemsOf(t) = IF named = <<>> THEN <<Nameless>> ELSE named
  BY <1>2, <1>3, <1>4, <1>6, <1>10 DEF ItemsOf, Cat
<1>12. /\ IfNamed(x) \in Seq(TokenItem) /\ Total(SaidTable, IfNamed(x)) = <<>>
       /\ IfNamed(y) \in Seq(TokenItem) /\ Total(SaidTable, IfNamed(y)) = t.string
       /\ IfNamed(z) \in Seq(TokenItem) /\ Total(SaidTable, IfNamed(z)) = <<>>
  <2>1. IfNamed(x) \in Seq(TokenItem) /\ Total(SaidTable, IfNamed(x)) = <<>>
    BY <1>7, IfNamedSaid
  <2>2. IfNamed(y) \in Seq(TokenItem) /\ Total(SaidTable, IfNamed(y)) = t.string
    BY <1>8, IfNamedSaid
  <2>3. IfNamed(z) \in Seq(TokenItem) /\ Total(SaidTable, IfNamed(z)) = <<>>
    BY <1>9, IfNamedSaid
  <2> QED BY <2>1, <2>2, <2>3
<1>13. named \in Seq(TokenItem)
  <2>1. Cat(IfNamed(x), IfNamed(y)) \in Seq(TokenItem)
    BY <1>12, CatIs
  <2> QED BY <1>10, <1>12, <2>1, CatIs
<1>14. Total(SaidTable, named) = t.string
  <2>1. SaidTable \in Tables(TokenItem, Chars)
    BY TablesAre
  <2>2. Total(SaidTable, named) = Cat(Cat(<<>>, t.string), <<>>)
    BY <1>10, <1>12, <2>1, TotalOfThree
  <2>3. Cat(<<>>, t.string) = t.string /\ Cat(t.string, <<>>) = t.string
    BY <1>1, CatNone
  <2> QED BY <2>2, <2>3
<1>15. named = <<>> => t.string = <<>>
  BY <1>14, TotalNone
<1>16. <<Nameless>> \in Seq(TokenItem) /\ Total(SaidTable, <<Nameless>>) = <<>>
  <2>1. Nameless \in TokenItem
    BY NamelessIs
  <2>2. Total(SaidTable, <<Nameless>>) = SaidTable[Nameless]
    BY <2>1, TablesAre, TotalOne
  <2>3. SaidTable[Nameless] = <<>>
    BY <2>1 DEF SaidTable, Nameless
  <2> QED BY <2>1, <2>2, <2>3
<1> QED BY <1>11, <1>13, <1>14, <1>15, <1>16
-----------------------------------------------------------------------------
(* Lower case                                                                  *)

LowerTable == [c \in Chars |-> <<Lower[c]>>]

LEMMA LowerIs ==
  /\ LowerTable \in Tables(Chars, Chars)
  /\ \A s \in Seq(Chars) : LowerCase(s) = Total(LowerTable, s) /\ LowerCase(s) \in Seq(Chars)
<1>1. Lower \in [Chars -> Chars]
  BY LowerAssumption
<1>2. LowerTable \in Tables(Chars, Chars)
  <2>1. \A c \in Chars : <<Lower[c]>> \in Seq(Chars)
    BY <1>1
  <2> QED BY <2>1 DEF LowerTable, Tables
<1>3. ASSUME NEW s \in Seq(Chars) PROVE LowerCase(s) = Mapped(Lower, s) /\ Mapped(Lower, s) \in Seq(Chars)
  BY <1>1, MappedType DEF LowerCase, Mapped
<1> DEFINE G == {s \in Seq(Chars) : Mapped(Lower, s) = Total(LowerTable, s)}
<1>4. <<>> \in G
  <2>1. Mapped(Lower, <<>>) = <<>> /\ <<>> \in Seq(Chars)
    BY EmptySeq DEF Mapped
  <2> QED BY <2>1, TotalNone
<1>5. ASSUME NEW s \in G, NEW c \in Chars PROVE Append(s, c) \in G
  <2>1. s \in Seq(Chars) /\ Mapped(Lower, s) = Total(LowerTable, s)
    OBVIOUS
  <2>2. Mapped(Lower, Append(s, c)) = Append(Mapped(Lower, s), Lower[c])
    BY <1>1, <2>1, MappedAppend
  <2>3. Lower[c] \in Chars /\ Mapped(Lower, s) \in Seq(Chars)
    BY <1>1, <1>3, <2>1
  <2>4. Append(Mapped(Lower, s), Lower[c]) = Cat(Mapped(Lower, s), <<Lower[c]>>)
    BY <2>3, CatOne
  <2>5. Total(LowerTable, Append(s, c)) = Cat(Total(LowerTable, s), LowerTable[c])
    BY <1>2, <2>1, TotalAppend DEF Cat
  <2>6. LowerTable[c] = <<Lower[c]>>
    BY DEF LowerTable
  <2>7. Append(s, c) \in Seq(Chars)
    BY <2>1, CatOne
  <2> QED BY <2>1, <2>2, <2>4, <2>5, <2>6, <2>7
<1>6. G \in SUBSET Seq(Chars)
  OBVIOUS
<1> HIDE DEF G
<1>7. G = Seq(Chars)
  BY <1>4, <1>5, <1>6, SeqSetInduction
<1>8. ASSUME NEW s \in Seq(Chars) PROVE Mapped(Lower, s) = Total(LowerTable, s)
  BY <1>7 DEF G
<1> QED BY <1>2, <1>3, <1>8

LEMMA LowerCat ==
  ASSUME NEW a \in Seq(Chars), NEW b \in Seq(Chars)
  PROVE  LowerCase(Cat(a, b)) = Cat(LowerCase(a), LowerCase(b)) /\ Cat(a, b) \in Seq(Chars)
<1>1. Cat(a, b) \in Seq(Chars)
  BY CatIs
<1>2. Total(LowerTable, Cat(a, b)) = Cat(Total(LowerTable, a), Total(LowerTable, b))
  BY LowerIs, TotalCat
<1> QED BY <1>1, <1>2, LowerIs

LEMMA LowerNone == LowerCase(<<>>) = <<>>
BY DEF LowerCase

\* The words of a token spell it in lower case, also when it is expanded.
LEMMA WordsSpelled ==
  ASSUME NEW i \in Nat, tokens[i].name \in Seq(Chars)
  PROVE  /\ WordsOf(i) \in Seq(Word)
         /\ Total(SpelledTable, WordsOf(i)) = LowerCase(tokens[i].name)
<1>1. PICK s \in Seq(Chars) : s = tokens[i].name
  OBVIOUS
<1>2. PICK n \in Nat : n = Len(s)
  BY LenProperties
<1>3. DOMAIN s = 1 .. n /\ \A k \in 1 .. n : s[k] \in Chars
  BY <1>2, LenProperties, ElementOfSeq
<1>4. CASE voice.expands
  <2>1. PICK ws : ws = WordsOf(i)
    OBVIOUS
  <2>2. ws = [k \in 1 .. n |-> [token |-> i, nth |-> k, name |-> <<Lower[s[k]]>>]]
    BY <1>1, <1>3, <1>4, <2>1 DEF WordsOf, WordNames
  <2>3. \A k \in 1 .. n : ws[k] \in Word /\ ws[k].name = LowerTable[s[k]]
    <3>1. ASSUME NEW k \in 1 .. n PROVE ws[k] \in Word /\ ws[k].name = LowerTable[s[k]]
      <4>1. ws[k] = [token |-> i, nth |-> k, name |-> <<Lower[s[k]]>>]
        BY <2>2
      <4>2. s[k] \in Chars /\ LowerTable[s[k]] = <<Lower[s[k]]>>
        BY <1>3 DEF LowerTable
      <4>3. <<Lower[s[k]]>> \in Seq(Chars)
        BY <4>2, LowerIs, LowerAssumption
      <4> QED BY <4>1, <4>2, <4>3 DEF Word
    <3> QED BY <3>1
  <2>4. ws \in Seq(Word)
    BY <2>2, <2>3
  <2>5. Mapped(SpelledTable, ws) = Mapped(LowerTable, s)
    <3>1. DOMAIN ws = 1 .. n
      BY <2>2
    <3>2. \A k \in 1 .. n : SpelledTable[ws[k]] = LowerTable[s[k]]
      BY <2>3 DEF SpelledTable
    <3> QED BY <1>3, <3>1, <3>2 DEF Mapped
  <2>6. Total(SpelledTable, ws) = LowerCase(s)
    BY <2>5, LowerIs DEF Total
  <2> QED BY <1>1, <2>1, <2>4, <2>6
<1>5. CASE ~voice.expands
  <2>1. PICK w : w = [token |-> i, nth |-> 1, name |-> LowerCase(s)]
    OBVIOUS
  <2>2. WordsOf(i) = <<w>>
    <3>1. WordNames(tokens[i].name) = <<LowerCase(s)>>
      BY <1>1, <1>5 DEF WordNames
    <3> QED BY <2>1, <3>1 DEF WordsOf
  <2>3. w \in Word
    BY <2>1, LowerIs DEF Word
  <2>4. Total(SpelledTable, <<w>>) = SpelledTable[w] /\ SpelledTable[w] = LowerCase(s)
    BY <2>1, <2>3, TablesAre, TotalOne DEF SpelledTable
  <2>5. <<w>> \in Seq(Word)
    BY <2>3
  <2> QED BY <1>1, <2>2, <2>4, <2>5
<1> QED BY <1>4, <1>5

Said == Total(SaidTable, tokens)
Spelled == Total(SpelledTable, words)

\* The items say the letters that have been read; the words spell what the items
\* before the one that normalize is at say.
SpellInv ==
  /\ Counted /\ peeked = FALSE
  /\ proc \in 0 .. 6
  /\ tokens \in Seq(TokenItem) /\ words \in Seq(Word)
  /\ proc = 1 \/ (proc = 2 /\ pc = "start") => words = <<>>
  /\ proc = 1 => Said = Letters(SubSeq(text, 1, At - 1))
  /\ proc >= 2 /\ "Token" \in rels => Said = Letters(text)
  /\ proc = 2 /\ pc = "loop" =>
       /\ "Token" \in rels
       /\ at \in 1 .. Len(tokens) + 1
       /\ Spelled = LowerCase(Total(SaidTable, SubSeq(tokens, 1, at - 1)))
  /\ proc >= 3 /\ "Word" \in rels => Spelled = LowerCase(Letters(text))

LEMMA SpellInit ==
  ASSUME Init
  PROVE  SpellInv
<1>1. Counted
  BY CountedInit DEF Init
<1>2. peeked = FALSE /\ proc = 1 /\ tokens = <<>> /\ words = <<>>
  BY DEF Init, StreamInit
<1>3. tokens \in Seq(TokenItem) /\ words \in Seq(Word)
  <2>1. <<>> \in Seq(TokenItem) /\ <<>> \in Seq(Word)
    BY EmptySeq
  <2> QED BY <1>2, <2>1
<1>4. At = 1
  <2>1. text = <<>> => Len(text) = 0
    OBVIOUS
  <2>2. CASE text = <<>>
    <3>1. eof
      BY <2>2 DEF Init, StreamInit
    <3> QED BY <2>1, <2>2, <3>1 DEF At
  <2>3. CASE text # <<>>
    <3>1. ~eof /\ pos = 1
      BY <2>3 DEF Init, StreamInit
    <3> QED BY <3>1 DEF At
  <2> QED BY <2>2, <2>3
<1>5. Said = Letters(SubSeq(text, 1, At - 1))
  <2>1. SubSeq(text, 1, 0) = <<>>
    BY <1>1, SubSeqEmpty DEF Counted
  <2>2. <<>> \in Seq(Chars)
    BY EmptySeq
  <2>3. Letters(<<>>) = <<>>
    BY <2>2, LettersAre, TotalNone
  <2>4. Said = <<>>
    BY <1>2, TotalNone DEF Said
  <2>5. 1 - 1 = 0
    OBVIOUS
  <2> QED BY <1>4, <2>1, <2>3, <2>4, <2>5
<1> QED BY <1>1, <1>2, <1>3, <1>5 DEF SpellInv

LEMMA CountedKept ==
  ASSUME Counted, UNCHANGED streamVars
  PROVE  /\ Counted' /\ peeked' = peeked /\ UNCHANGED text /\ At' = At
<1>1. UNCHANGED <<text, pos, byte_pos, eof>> /\ peeked' = peeked
  BY DEF streamVars
<1>2. OffsetOf(pos + 1)' = OffsetOf(pos + 1)
  BY <1>1 DEF OffsetOf, Bytes
<1>3. At' = At
  BY <1>1 DEF At
<1> QED BY <1>1, <1>2, <1>3 DEF Counted

\* The tokenizer reads a token: the letters it reads are those of its string.
LEMMA SpellRead ==
  ASSUME SpellInv, proc = 1, ~eof, GetToken
  PROVE  /\ Counted' /\ peeked' = FALSE /\ UNCHANGED text
         /\ ItemsOf(currentToken') \in Seq(TokenItem)
         /\ Letters(SubSeq(text, 1, At' - 1)) = Cat(Said, Total(SaidTable, ItemsOf(currentToken')))
<1>1. ReadToken /\ peeked' = FALSE
  <2>1. peeked = FALSE
    BY DEF SpellInv
  <2>2. ReadToken /\ UNCHANGED peeked
    BY <2>1, Zenon DEF GetToken
  <2> QED BY <2>1, <2>2
<1>2. Counted /\ Said = Letters(SubSeq(text, 1, At - 1)) /\ text \in Seq(Chars)
  BY DEF SpellInv, Counted
<1>3. /\ Counted' /\ UNCHANGED text /\ currentToken' \in Token
      /\ \E w, p, s : Parts(At, w, p, s, At') /\ PartsOf(currentToken', At, w, p, s, At')
  BY <1>1, <1>2, ReadsToken
<1>4. PICK w, p, s : Parts(At, w, p, s, At') /\ PartsOf(currentToken', At, w, p, s, At')
  BY <1>3
<1>5. PICK t \in Token : t = currentToken'
  BY <1>3
<1>6. PICK a, q : a = At /\ q = At'
  OBVIOUS
<1>7. Parts(a, w, p, s, q) /\ t.string = SubSeq(text, p, s - 1)
  BY <1>4, <1>5, <1>6 DEF PartsOf
<1>8. Letters(SubSeq(text, 1, q - 1)) = Cat(Letters(SubSeq(text, 1, a - 1)), t.string)
  BY <1>2, <1>7, LettersOfToken
<1>9. ItemsOf(t) \in Seq(TokenItem) /\ Total(SaidTable, ItemsOf(t)) = t.string
  BY ItemsOfSaid
<1> QED BY <1>1, <1>2, <1>3, <1>5, <1>6, <1>8, <1>9

LEMMA SaidGrows ==
  ASSUME tokens \in Seq(TokenItem), NEW made \in Seq(TokenItem), tokens' = tokens \o made
  PROVE  tokens' \in Seq(TokenItem) /\ Said' = Cat(Said, Total(SaidTable, made))
<1>1. PICK ts \in Seq(TokenItem) : ts = tokens
  OBVIOUS
<1>2. PICK us \in Seq(TokenItem) : us = Cat(ts, made)
  BY CatIs
<1>3. tokens' = us
  BY <1>1, <1>2 DEF Cat
<1>4. Total(SaidTable, us) = Cat(Total(SaidTable, ts), Total(SaidTable, made))
  BY <1>2, TablesAre, TotalCat
<1>5. Said' = Total(SaidTable, us)
  BY <1>3 DEF Said
<1> QED BY <1>1, <1>3, <1>4, <1>5 DEF Said

LEMMA TokenizeSpells ==
  ASSUME Complete, SpellInv, Tokenize
  PROVE  SpellInv'
<1>1. proc = 1 /\ (proc' \in 0 .. 1 \/ (proc' = 2 /\ pc' = "start"))
  BY TokenizeGoes
<1>2. words' = <<>> /\ words' \in Seq(Word)
  <2>1. words' = words
    BY TokenizeLeaves
  <2> QED BY <1>1, <2>1 DEF SpellInv
<1>3. CASE TokenizeStarts
  <2>1. UNCHANGED <<streamVars, tokens>>
    BY <1>3 DEF TokenizeStarts, uttVars
  <2>2. Counted' /\ peeked' = FALSE /\ UNCHANGED text /\ At' = At
    BY <2>1, CountedKept DEF SpellInv
  <2>3. tokens' \in Seq(TokenItem) /\ Said' = Said
    BY <2>1 DEF SpellInv, Said
  <2>4. proc' = 2 => "Token" \notin rels'
    <3>1. CASE Loops("loop", 1)
      BY <1>1, <3>1 DEF Loops
    <3>2. CASE QuitError({"Token"})
      BY <3>2, Quits
    <3> QED BY <1>3, <3>1, <3>2 DEF TokenizeStarts
  <2> QED BY <1>1, <1>2, <2>2, <2>3, <2>4 DEF SpellInv
<1>4. CASE TokenizeNext
  <2>1. ~eof /\ GetToken /\ tokens' = tokens \o ItemsOf(currentToken') /\ proc' = proc
    BY <1>4, Goes DEF TokenizeNext
  <2>2. /\ Counted' /\ peeked' = FALSE /\ UNCHANGED text
        /\ ItemsOf(currentToken') \in Seq(TokenItem)
        /\ Letters(SubSeq(text, 1, At' - 1)) = Cat(Said, Total(SaidTable, ItemsOf(currentToken')))
    BY <1>1, <2>1, SpellRead
  <2>3. PICK made \in Seq(TokenItem) : made = ItemsOf(currentToken')
    BY <2>2
  <2>4. tokens' \in Seq(TokenItem) /\ Said' = Cat(Said, Total(SaidTable, made))
    BY <2>1, <2>3, SaidGrows DEF SpellInv
  <2>5. Said' = Letters(SubSeq(text', 1, At' - 1))
    BY <2>2, <2>3, <2>4
  <2>6. proc' = 1
    BY <1>1, <2>1
  <2> QED BY <1>2, <2>2, <2>4, <2>5, <2>6 DEF SpellInv
<1>5. CASE TokenizeFails
  <2>1. ~eof /\ GetToken
    BY <1>5 DEF TokenizeFails
  <2>2. /\ Counted' /\ peeked' = FALSE /\ UNCHANGED text
        /\ ItemsOf(currentToken') \in Seq(TokenItem)
    BY <1>1, <2>1, SpellRead
  <2>3. ASSUME NEW made \in SomeItemsOf(currentToken'), tokens' = tokens \o made, Returns(TRUE)
        PROVE  SpellInv'
    <3>1. PICK t : t = currentToken'
      OBVIOUS
    <3>2. ItemsOf(t) \in Seq(TokenItem) /\ made \in SomeItemsOf(t)
      BY <2>2, <2>3, <3>1
    <3>3. made \in Seq(TokenItem)
      BY <3>2, SomeItemsBegin
    <3>4. tokens' \in Seq(TokenItem)
      BY <2>3, <3>3, SaidGrows DEF SpellInv
    <3>5. proc' = 0
      BY <2>3 DEF Returns
    <3> QED BY <1>2, <2>2, <3>4, <3>5 DEF SpellInv
  <2>4. CASE QuitError({"Token"}) /\ tokens' = <<>>
    <3>1. proc' = proc + 1 /\ "Token" \notin rels' /\ pc' = "start"
      BY <2>4, Quits
    <3>2. tokens' \in Seq(TokenItem)
      BY <2>4, EmptySeq
    <3>3. proc' = 2
      BY <1>1, <3>1
    <3> QED BY <1>2, <2>2, <3>1, <3>2, <3>3 DEF SpellInv
  <2>5. \/ \E made \in SomeItemsOf(currentToken') : tokens' = tokens \o made /\ Returns(TRUE)
        \/ QuitError({"Token"}) /\ tokens' = <<>>
    <3>1. \/ (\E made \in SomeItemsOf(currentToken') : tokens' = tokens \o made) /\ Returns(TRUE)
          \/ QuitError({"Token"}) /\ tokens' = <<>>
      BY <1>5, Zenon DEF TokenizeFails
    <3> QED BY <3>1, Zenon
  <2> QED BY <2>3, <2>4, <2>5
<1>6. CASE TokenizeEnds
  <2>1. UNCHANGED <<streamVars, tokens>> /\ eof
    BY <1>6 DEF TokenizeEnds, uttVars
  <2>2. Counted' /\ peeked' = FALSE /\ UNCHANGED text /\ At' = At
    BY <2>1, CountedKept DEF SpellInv
  <2>3. proc' = 2
    <3>1. Returns(FALSE)
      BY <1>6 DEF TokenizeEnds
    <3> QED BY <1>1, <3>1 DEF Returns
  <2>4. pc' = "start"
    BY <1>1, <2>3
  <2>5. Said = Letters(text)
    <3>1. text \in Seq(Chars) /\ Len(text) \in Nat
      BY LenProperties DEF SpellInv, Counted
    <3>2. At - 1 = Len(text)
      BY <2>1, <3>1 DEF At
    <3>3. SubSeq(text, 1, Len(text)) = text
      BY <3>1, SubSeqFull
    <3> QED BY <1>1, <3>2, <3>3 DEF SpellInv
  <2>6. tokens' \in Seq(TokenItem) /\ Said' = Letters(text')
    BY <2>1, <2>2, <2>5 DEF SpellInv, Said
  <2> QED BY <1>2, <2>2, <2>3, <2>4, <2>6 DEF SpellInv
<1> QED BY <1>3, <1>4, <1>5, <1>6 DEF Tokenize

LEMMA SpelledGrows ==
  ASSUME words \in Seq(Word), NEW made \in Seq(Word), words' = words \o made
  PROVE  words' \in Seq(Word) /\ Spelled' = Cat(Spelled, Total(SpelledTable, made))
<1>1. PICK ws \in Seq(Word) : ws = words
  OBVIOUS
<1>2. PICK us \in Seq(Word) : us = Cat(ws, made)
  BY CatIs
<1>3. words' = us
  BY <1>1, <1>2 DEF Cat
<1>4. Total(SpelledTable, us) = Cat(Total(SpelledTable, ws), Total(SpelledTable, made))
  BY <1>2, TablesAre, TotalCat
<1>5. Spelled' = Total(SpelledTable, us)
  BY <1>3 DEF Spelled
<1> QED BY <1>1, <1>3, <1>4, <1>5 DEF Spelled

\* What the items up to one say.
LEMMA SaidUpTo ==
  ASSUME NEW ts \in Seq(TokenItem), NEW i \in 1 .. Len(ts),
         NEW before, before = Total(SaidTable, SubSeq(ts, 1, i - 1))
  PROVE  /\ before \in Seq(Chars)
         /\ ts[i] \in TokenItem
         /\ Total(SaidTable, SubSeq(ts, 1, i)) = Cat(before, SaidTable[ts[i]])
<1>1. PICK n \in Nat : n = Len(ts)
  BY LenProperties
<1>2. PICK b : b = SubSeq(ts, 1, i - 1)
  OBVIOUS
<1>3. \A k \in 1 .. n : ts[k] \in TokenItem
  BY <1>1, ElementOfSeq
<1>4. b \in Seq(TokenItem)
  <2>1. 1 \in Int /\ i - 1 \in Int /\ \A k \in 1 .. i - 1 : ts[k] \in TokenItem
    BY <1>1, <1>3
  <2> QED BY <1>2, <2>1, SubSeqProperties
<1>5. ts[i] \in TokenItem
  BY <1>1, <1>3
<1>6. SubSeq(ts, 1, i) = Append(b, ts[i])
  <2>1. 1 \in 1 .. Len(ts) + 1 /\ i - 1 \in 1 - 1 .. Len(ts) /\ i \in i - 1 .. Len(ts)
    BY <1>1
  <2>2. SubSeq(ts, 1, i - 1) \o SubSeq(ts, (i - 1) + 1, i) = SubSeq(ts, 1, i)
    BY <2>1, ConcatAdjacentSubSeq
  <2>3. SubSeq(ts, i, i) = <<ts[i]>>
    <3>1. i \in Int /\ \A k \in i .. i : ts[k] \in TokenItem
      BY <1>5
    <3>2. PICK o : o = SubSeq(ts, i, i)
      OBVIOUS
    <3>3. o \in Seq(TokenItem) /\ Len(o) = 1 /\ o[1] = ts[i]
      BY <3>1, <3>2, SubSeqProperties
    <3>4. <<ts[i]>> \in Seq(TokenItem)
      BY <1>5
    <3>5. o = <<ts[i]>>
      BY <3>3, <3>4, SeqEqual
    <3> QED BY <3>2, <3>5
  <2>4. (i - 1) + 1 = i
    BY <1>1
  <2>5. Append(b, ts[i]) = Cat(b, <<ts[i]>>)
    BY <1>4, <1>5, CatOne
  <2> QED BY <1>2, <2>2, <2>3, <2>4, <2>5 DEF Cat
<1>7. Total(SaidTable, Append(b, ts[i])) = Cat(Total(SaidTable, b), SaidTable[ts[i]])
  BY <1>4, <1>5, TablesAre, TotalAppend DEF Cat
<1>8. Total(SaidTable, b) \in Seq(Chars)
  BY <1>4, TablesAre, TotalType
<1> QED BY <1>2, <1>5, <1>6, <1>7, <1>8

LEMMA NormalizeNextSpells ==
  ASSUME Complete, SpellInv, NormalizeNext
  PROVE  SpellInv'
<1>1. /\ proc = 2 /\ pc = "loop" /\ at <= Len(tokens)
      /\ words' = IF tokens[at].IsPunctuation THEN words ELSE words \o WordsOf(at)
      /\ Loops("loop", at + 1) /\ UNCHANGED <<streamVars, rels, tokens>>
  BY RunsAt DEF NormalizeNext
<1>2. /\ proc' = 2 /\ pc' = "loop" /\ at' = at + 1
  BY <1>1 DEF Loops
<1>3. Counted' /\ peeked' = FALSE /\ UNCHANGED text
  BY <1>1, CountedKept DEF SpellInv
<1>4. tokens' \in Seq(TokenItem) /\ "Token" \in rels' /\ Said' = Letters(text')
  BY <1>1, <1>3 DEF SpellInv, Said
<1>5. PICK ts \in Seq(TokenItem) : ts = tokens
  BY DEF SpellInv
<1>6. PICK n \in Nat : n = Len(ts)
  BY LenProperties
<1>7. PICK i \in 1 .. n : i = at
  <2>1. at \in 1 .. Len(tokens) + 1
    BY <1>1 DEF SpellInv
  <2> QED BY <1>1, <1>5, <1>6, <2>1
<1>8. PICK before : before = Total(SaidTable, SubSeq(ts, 1, i - 1))
  OBVIOUS
<1>9. /\ before \in Seq(Chars) /\ ts[i] \in TokenItem
      /\ Total(SaidTable, SubSeq(ts, 1, i)) = Cat(before, SaidTable[ts[i]])
  BY <1>6, <1>8, SaidUpTo
<1>10. Spelled = LowerCase(before) /\ words \in Seq(Word)
  BY <1>1, <1>5, <1>7, <1>8 DEF SpellInv
<1>11. LowerCase(before) \in Seq(Chars)
  BY <1>9, LowerIs
<1>12. words' \in Seq(Word) /\ Spelled' = LowerCase(Total(SaidTable, SubSeq(ts, 1, i)))
  <2>1. CASE tokens[at].IsPunctuation
    <3>1. SaidTable[ts[i]] = <<>>
      BY <1>5, <1>7, <1>9, <2>1 DEF SaidTable
    <3>2. Cat(before, <<>>) = before
      BY <1>9, CatNone
    <3>3. words' = words
      BY <1>1, <2>1
    <3> QED BY <1>9, <1>10, <3>1, <3>2, <3>3 DEF Spelled
  <2>2. CASE ~tokens[at].IsPunctuation
    <3>1. SaidTable[ts[i]] = ts[i].name /\ ts[i].name \in Seq(Chars)
      BY <1>5, <1>7, <1>9, <2>2 DEF SaidTable, TokenItem
    <3>2. WordsOf(i) \in Seq(Word) /\ Total(SpelledTable, WordsOf(i)) = LowerCase(ts[i].name)
      BY <1>5, <3>1, WordsSpelled
    <3>3. words' = words \o WordsOf(i)
      BY <1>1, <1>7, <2>2
    <3>4. words' \in Seq(Word) /\ Spelled' = Cat(Spelled, LowerCase(ts[i].name))
      BY <1>10, <3>2, <3>3, SpelledGrows
    <3>5. LowerCase(Cat(before, ts[i].name)) = Cat(LowerCase(before), LowerCase(ts[i].name))
      BY <1>9, <3>1, LowerCat
    <3> QED BY <1>9, <1>10, <3>1, <3>4, <3>5
  <2> QED BY <2>1, <2>2
<1>13. /\ at' \in 1 .. Len(tokens') + 1
       /\ Spelled' = LowerCase(Total(SaidTable, SubSeq(tokens', 1, at' - 1)))
  <2>1. at' - 1 = i /\ at' \in 1 .. n + 1
    BY <1>2, <1>6, <1>7
  <2>2. tokens' = ts
    BY <1>1, <1>5
  <2> QED BY <1>6, <1>12, <2>1, <2>2
<1> QED BY <1>2, <1>3, <1>4, <1>12, <1>13 DEF SpellInv

LEMMA NormalizeSpells ==
  ASSUME Complete, SpellInv, Normalize
  PROVE  SpellInv'
<1>1. proc = 2 /\ (proc' = 0 \/ (proc' = 2 /\ pc' = "loop") \/ (proc' = 3 /\ pc' = "start"))
  BY NormalizeGoes
<1>2. UNCHANGED <<streamVars, tokens>>
  BY StreamLeft
<1>3. Counted' /\ peeked' = FALSE /\ UNCHANGED text
  BY <1>2, CountedKept DEF SpellInv
<1>4. tokens' \in Seq(TokenItem) /\ Said' = Said /\ ("Token" \in rels => Said' = Letters(text'))
  BY <1>1, <1>2, <1>3 DEF SpellInv, Said
<1>5. "Token" \in rels' => "Token" \in rels
  BY TokenRelation
<1>6. CASE NormalizeStarts
  <2>1. words' = words
    BY <1>6 DEF NormalizeStarts, uttVars
  <2>2. words = <<>> /\ words \in Seq(Word)
    <3>1. pc = "start"
      BY <1>6, RunsAt DEF NormalizeStarts
    <3> QED BY <1>1, <3>1 DEF SpellInv
  <2>3. CASE "Token" \in rels /\ rels' = rels \cup {"Word"} /\ Loops("loop", 1)
    <3>1. proc' = 2 /\ pc' = "loop" /\ at' = 1
      BY <1>1, <2>3 DEF Loops
    <3>2. Spelled' = <<>>
      BY <2>1, <2>2, TotalNone DEF Spelled
    <3>3. Total(SaidTable, SubSeq(tokens', 1, 1 - 1)) = <<>>
      <4>1. SubSeq(tokens', 1, 0) = <<>>
        <5>1. PICK ts \in Seq(TokenItem) : ts = tokens'
          BY <1>4
        <5>2. SubSeq(ts, 1, 0) = <<>>
          BY SubSeqEmpty
        <5> QED BY <5>1, <5>2
      <4>2. 1 - 1 = 0
        OBVIOUS
      <4> QED BY <4>1, <4>2, TotalNone
    <3>4. 1 \in 1 .. Len(tokens') + 1
      BY <1>4, LenProperties
    <3>5. /\ at' \in 1 .. Len(tokens') + 1
          /\ Spelled' = LowerCase(Total(SaidTable, SubSeq(tokens', 1, at' - 1)))
      BY <3>1, <3>2, <3>3, <3>4, LowerNone
    <3>6. "Token" \in rels' /\ Said' = Letters(text') /\ words' \in Seq(Word)
      BY <1>4, <2>1, <2>2, <2>3
    <3> QED BY <1>3, <1>4, <3>1, <3>5, <3>6 DEF SpellInv
  <2>4. CASE QuitError({})
    <3>1. proc' = 0
      BY <2>4, Quits
    <3> QED BY <1>3, <1>4, <2>1, <2>2, <3>1 DEF SpellInv
  <2> QED BY <1>6, <2>3, <2>4 DEF NormalizeStarts
<1>7. CASE NormalizeFails
  <2>1. proc' = 3 /\ "Word" \notin rels'
    <3>1. QuitError({"Word"})
      BY <1>7 DEF NormalizeFails
    <3> QED BY <1>1, <3>1, Quits
  <2>2. words' \in Seq(Word)
    <3>1. words' = <<>>
      BY <1>7 DEF NormalizeFails
    <3> QED BY <3>1, EmptySeq
  <2> QED BY <1>3, <1>4, <1>5, <2>1, <2>2 DEF SpellInv
<1>8. CASE NormalizeEnds
  <2>1. pc = "loop" /\ at > Len(tokens) /\ words' = words /\ rels' = rels
    BY <1>8, RunsAt DEF NormalizeEnds, uttVars
  <2>2. proc' = 3
    <3>1. Returns(FALSE)
      BY <1>8 DEF NormalizeEnds
    <3> QED BY <1>1, <3>1 DEF Returns
  <2>3. PICK ts \in Seq(TokenItem) : ts = tokens
    BY DEF SpellInv
  <2>4. PICK n \in Nat : n = Len(ts)
    BY LenProperties
  <2>5. at - 1 = n
    <3>1. at \in 1 .. Len(tokens) + 1
      BY <1>1, <2>1 DEF SpellInv
    <3> QED BY <2>1, <2>3, <2>4, <3>1
  <2>6. Spelled = LowerCase(Total(SaidTable, SubSeq(ts, 1, n)))
    BY <1>1, <2>1, <2>3, <2>5 DEF SpellInv
  <2>7. SubSeq(ts, 1, n) = ts
    BY <2>4, SubSeqFull
  <2>8. Said = Letters(text) /\ words \in Seq(Word)
    BY <1>1, <2>1 DEF SpellInv
  <2>9. Spelled' = LowerCase(Letters(text')) /\ words' \in Seq(Word)
    BY <1>3, <2>1, <2>3, <2>6, <2>7, <2>8 DEF Said, Spelled
  <2> QED BY <1>3, <1>4, <1>5, <2>2, <2>9 DEF SpellInv
<1> QED BY <1>6, <1>7, <1>8, NormalizeNextSpells DEF Normalize

\* The processors after normalize make no Word relation.
LEMMA WordRelation ==
  ASSUME Phrasify \/ LexLookup \/ Pauses, "Word" \in rels'
  PROVE  "Word" \in rels
<1>1. CASE Phrasify
  <2>1. CASE PhrasifyStarts
    BY <2>1 DEF PhrasifyStarts, QuitError
  <2>2. CASE PhrasifyNext \/ PhrasifyFails \/ PhrasifyEnds
    BY <2>2 DEF PhrasifyNext, PhrasifyFails, PhrasifyEnds, QuitError
  <2> QED BY <1>1, <2>1, <2>2 DEF Phrasify
<1>2. CASE LexLookup
  <2>1. CASE LexLookupStarts
    BY <2>1 DEF LexLookupStarts, LexRelations, QuitError
  <2>2. CASE LexLookupDowncase \/ LexLookupNext \/ LexLookupMissing \/ LexLookupFails \/ LexLookupEnds
    BY <2>2 DEF LexLookupDowncase, LexLookupNext, LexLookupMissing, LexLookupFails, LexLookupEnds,
                QuitError
  <2> QED BY <1>2, <2>1, <2>2 DEF LexLookup
<1>3. CASE Pauses
  BY <1>3 DEF Pauses, PausesStarts, PausesNext, PausesFails, PausesEnds
<1> QED BY <1>1, <1>2, <1>3

LEMMA SpellKept ==
  ASSUME SpellInv, UNCHANGED <<streamVars, tokens, words>>, proc' \in {0} \cup 3 .. 6, proc >= 3,
         "Token" \in rels' => "Token" \in rels, "Word" \in rels' => "Word" \in rels
  PROVE  SpellInv'
<1>1. Counted' /\ peeked' = FALSE /\ UNCHANGED text
  BY CountedKept DEF SpellInv
<1>2. proc \in 0 .. 6 /\ proc >= 2
  BY DEF SpellInv
<1>3. Said' = Said /\ Spelled' = Spelled
  BY DEF Said, Spelled
<1>4. "Token" \in rels' => Said' = Letters(text')
  BY <1>1, <1>2, <1>3 DEF SpellInv
<1>5. "Word" \in rels' => Spelled' = LowerCase(Letters(text'))
  BY <1>1, <1>3 DEF SpellInv
<1>6. proc' \in 0 .. 6 /\ proc' # 1 /\ proc' # 2
  OBVIOUS
<1>7. tokens' \in Seq(TokenItem) /\ words' \in Seq(Word)
  BY DEF SpellInv
<1> QED BY <1>1, <1>4, <1>5, <1>6, <1>7 DEF SpellInv

LEMMA SpellStep ==
  ASSUME Complete, SpellInv, [Next]_vars
  PROVE  SpellInv'
<1>1. CASE Phrasify \/ LexLookup \/ Pauses
  <2>1. UNCHANGED <<streamVars, tokens>>
    BY <1>1, StreamLeft
  <2>2. UNCHANGED words
    BY <1>1, PhrasifyLeaves, LaterLeave
  <2>3. ("Token" \in rels' => "Token" \in rels) /\ ("Word" \in rels' => "Word" \in rels)
    BY <1>1, TokenRelation, WordRelation
  <2>4. proc >= 3 /\ proc' \in {0} \cup 3 .. 6
    <3>1. CASE Phrasify
      BY <3>1, PhrasifyGoes
    <3>2. CASE LexLookup \/ Pauses
      BY <3>2, LaterGoes
    <3> QED BY <1>1, <3>1, <3>2
  <2> QED BY <2>1, <2>2, <2>3, <2>4, SpellKept
<1>2. CASE UNCHANGED vars
  <2>1. /\ UNCHANGED <<streamVars, tokens, words>>
        /\ proc' = proc /\ pc' = pc /\ at' = at /\ rels' = rels
    BY <1>2 DEF vars, uttVars
  <2>2. Counted' /\ peeked' = FALSE /\ UNCHANGED text /\ At' = At
    BY <2>1, CountedKept DEF SpellInv
  <2>3. Said' = Said /\ Spelled' = Spelled
    BY <2>1 DEF Said, Spelled
  <2> QED BY <2>1, <2>2, <2>3 DEF SpellInv
<1> QED BY <1>1, <1>2, TokenizeSpells, NormalizeSpells DEF Next

LEMMA SpellHolds ==
  ASSUME Complete, SpellInv
  PROVE  SpellsText
<1> SUFFICES ASSUME Past("Normalize"), "Word" \in rels
             PROVE  FlattenSeq([w \in DOMAIN words |-> words[w].name]) = LowerCase(Letters(text))
  BY DEF SpellsText
<1>1. proc >= 3
  <2>1. PICK k \in DOMAIN UttType : UttType[k] = "Normalize" /\ proc > k
    BY DEF Past
  <2>2. k \in 1 .. 5 /\ k # 1
    BY <2>1 DEF Complete
  <2>3. proc \in 0 .. 6
    BY DEF SpellInv
  <2> QED BY <2>1, <2>2, <2>3
<1>2. Spelled = LowerCase(Letters(text))
  BY <1>1 DEF SpellInv
<1>3. [w \in DOMAIN words |-> words[w].name] = Mapped(SpelledTable, words)
  <2>1. \A w \in DOMAIN words : words[w] \in Word
    BY LenProperties, ElementOfSeq DEF SpellInv
  <2> QED BY <2>1 DEF Mapped, SpelledTable
<1> QED BY <1>2, <1>3 DEF Spelled, Total

\* For every text and kind of voice, while there is a Word relation past the
\* normalizer, its words spell in lower case what the text has besides white space
\* and punctuation, whatever failed on the way (SpellsText).
THEOREM WordsSpellText ==
  ASSUME Complete
  PROVE  Spec => []SpellsText
<1>1. Init => SpellInv
  BY SpellInit
<1>2. SpellInv /\ [Next]_vars => SpellInv'
  BY SpellStep
<1>3. SpellInv => SpellsText
  BY SpellHolds
<1> QED BY <1>1, <1>2, <1>3, PTL DEF Spec

-----------------------------------------------------------------------------
(* Phrasify puts each word in one phrase.  What it needs of the processors     *)
(* before it: the names of the tokens are strings (SpellInv), and the words    *)
(* come in the order of their tokens, those of one token in the order of their *)
(* making.                                                                     *)

\* the words are records made for the tokens before token n
WordsOfSet(S, n) == \A x \in S : x.token \in 1 .. n - 1 /\ x.nth \in Nat
Before(v, w) == v.token < w.token \/ (v.token = w.token /\ v.nth < w.nth)
WordsInv(n) ==
  /\ \E S : words \in Seq(S) /\ WordsOfSet(S, n)
  /\ \A w \in 1 .. Len(words) - 1 : Before(words[w], words[w + 1])

Phrase == [name : {"NB", "BB"}, words : Seq(Nat)]
WordsIn(ps) == [k \in DOMAIN ps |-> ps[k].words]
Upto(n) == [w \in 1 .. n |-> w]

\* a phrase that is followed by another ends with its token
Broken(p, q) ==
  p.name = "BB" /\ words[Last(p.words)].token < words[Head(q.words)].token

\* the phrases have the words up to n
Partition(ps, n) ==
  /\ ps \in Seq(Phrase)
  /\ FlattenSeq(WordsIn(ps)) = Upto(n)
  /\ \A k \in 1 .. Len(ps) : ps[k].words # <<>>
  /\ \A k \in 1 .. Len(ps) - 1 : Broken(ps[k], ps[k + 1])
  /\ ps # <<>> => n >= 1 /\ Last(Last(ps).words) = n
  /\ ps # <<>> /\ Last(ps).name = "BB" => LastWordInToken(n)

NothingPhrased == phrases = <<>> /\ sentences = 0 /\ "Phrase" \notin rels

SomeWords == \E n \in Nat : WordsInv(n)

WordsControl ==
  /\ SomeWords
  /\ proc = 1 \/ (proc = 2 /\ pc = "start") => words = <<>>
  /\ proc = 2 /\ pc = "loop" => at \in Nat /\ at >= 1 /\ WordsInv(at)

Phrasing == Partition(phrases, at - 1) /\ sentences = Len(phrases)
Phrased == Partition(phrases, Len(words)) /\ sentences = Len(phrases)

PhrasesControl ==
  /\ proc \in 1 .. 2 \/ (proc = 3 /\ pc = "start") => NothingPhrased
  /\ proc = 3 /\ pc = "loop" => at \in 1 .. Len(words) + 1 /\ Phrasing
  /\ proc \in 4 .. 6 /\ "Phrase" \in rels => Phrased

TextInv ==
  /\ SpellInv
  /\ WordsControl
  /\ PhrasesControl

\* The words of a token are a sequence of its own, one after another.
LEMMA WordsAre ==
  ASSUME NEW i, tokens[i].name \in Seq(Chars)
  PROVE  \E n \in Nat : /\ WordsOf(i) = [k \in 1 .. n |-> WordsOf(i)[k]]
                        /\ \A k \in 1 .. n : WordsOf(i)[k].token = i /\ WordsOf(i)[k].nth = k
<1>1. PICK n \in Nat : DOMAIN WordNames(tokens[i].name) = 1 .. n
  <2>1. CASE voice.expands
    <3>1. DOMAIN WordNames(tokens[i].name) = DOMAIN tokens[i].name
      BY <2>1 DEF WordNames
    <3> QED BY <3>1, LenProperties
  <2>2. CASE ~voice.expands
    <3>1. DOMAIN WordNames(tokens[i].name) = 1 .. 1
      BY <2>2 DEF WordNames
    <3> QED BY <3>1
  <2> QED BY <2>1, <2>2
<1>2. WordsOf(i) = [k \in 1 .. n |-> [token |-> i, nth |-> k,
                                      name |-> WordNames(tokens[i].name)[k]]]
  BY <1>1 DEF WordsOf
<1>3. \A k \in 1 .. n : WordsOf(i)[k].token = i /\ WordsOf(i)[k].nth = k
  BY <1>2
<1>4. WordsOf(i) = [k \in 1 .. n |-> WordsOf(i)[k]]
  BY <1>2
<1> QED BY <1>3, <1>4

\* A place of two sequences, the first of l elements, that is a place of the second.
LEMMA PlaceBehind ==
  ASSUME NEW l \in Nat, NEW n \in Nat, NEW w \in 1 .. l + n, w + 1 \in 1 .. l + n, w > l
  PROVE  w - l \in 1 .. n /\ (w - l) + 1 \in 1 .. n /\ (w + 1) - l = (w - l) + 1
OBVIOUS

\* Words in the order of the tokens before token i stay so with those of i.
LEMMA WordsGrow ==
  ASSUME NEW i \in Nat, i >= 1, WordsInv(i), tokens[i].name \in Seq(Chars),
         words' = words \o WordsOf(i)
  PROVE  WordsInv(i + 1)'
<1>1. PICK n \in Nat :
        /\ WordsOf(i) = [k \in 1 .. n |-> WordsOf(i)[k]]
        /\ \A k \in 1 .. n : WordsOf(i)[k].token = i /\ WordsOf(i)[k].nth = k
  BY WordsAre
<1>2. PICK W : W = WordsOf(i)
  OBVIOUS
<1>3. PICK S : words \in Seq(S) /\ WordsOfSet(S, i)
  BY DEF WordsInv
<1>4. PICK v : v = words
  OBVIOUS
<1>5. PICK l \in Nat : l = Len(v)
  BY <1>3, <1>4
<1> DEFINE R == {W[k] : k \in 1 .. n}
           u == v \o W
<1>6. W \in Seq(R) /\ Len(W) = n
  <2>1. W \in [1 .. n -> R]
    BY <1>1, <1>2
  <2>2. n \in Nat
    BY <1>1
  <2>3. ASSUME NEW T, W \in [1 .. n -> T] PROVE W \in Seq(T) /\ Len(W) = n
    BY <2>2, <2>3
  <2> QED BY <2>1, <2>3
<1>7. v \in Seq(S \cup R) /\ W \in Seq(S \cup R)
  BY <1>3, <1>4, <1>6, SeqMonotonic
<1>8. /\ u \in Seq(S \cup R) /\ Len(u) = l + n
      /\ \A k \in 1 .. l + n : u[k] = IF k <= l THEN v[k] ELSE W[k - l]
  <2>1. u \in Seq(S \cup R) /\ Len(u) = Len(v) + Len(W)
    BY <1>7, ConcatProperties
  <2>2. \A k \in 1 .. Len(v) + Len(W) : u[k] = IF k <= Len(v) THEN v[k] ELSE W[k - Len(v)]
    BY <1>7, ConcatProperties
  <2> QED BY <1>5, <1>6, <2>1, <2>2
<1>9. WordsOfSet(S \cup R, i + 1)
  <2>1. ASSUME NEW x \in S PROVE x.token \in 1 .. i /\ x.nth \in Nat
    BY <1>3 DEF WordsOfSet
  <2>2. ASSUME NEW x \in R PROVE x.token \in 1 .. i /\ x.nth \in Nat
    <3>1. PICK k \in 1 .. n : x = W[k]
      BY <2>2
    <3>2. x.token = i /\ x.nth = k
      BY <1>1, <1>2, <3>1
    <3> QED BY <3>2
  <2> QED BY <2>1, <2>2 DEF WordsOfSet
<1>10. ASSUME NEW w \in 1 .. l + n - 1 PROVE Before(u[w], u[w + 1])
  <2>1. w \in 1 .. l + n /\ w + 1 \in 1 .. l + n
    BY <1>5
  <2>2. CASE w < l
    <3>1. u[w] = v[w] /\ u[w + 1] = v[w + 1]
      BY <1>8, <2>1, <2>2
    <3>2. w \in 1 .. l - 1
      BY <2>2
    <3>3. Before(v[w], v[w + 1])
      BY <1>4, <1>5, <3>2 DEF WordsInv
    <3> QED BY <3>1, <3>3
  <2>3. CASE w = l
    <3>1. u[w] = v[w] /\ u[w + 1] = W[1] /\ 1 \in 1 .. n
      BY <1>8, <2>1, <2>3
    <3>2. v[w] \in S
      BY <1>3, <1>4, <1>5, <2>3, ElementOfSeq
    <3>3. v[w].token < i
      BY <1>3, <3>2 DEF WordsOfSet
    <3> QED BY <1>1, <1>2, <3>1, <3>3 DEF Before
  <2>4. CASE w > l
    <3>1. w - l \in 1 .. n /\ (w - l) + 1 \in 1 .. n /\ (w + 1) - l = (w - l) + 1
      <4>1. l \in Nat /\ n \in Nat /\ w > l
        BY <1>1, <1>5, <2>4
      <4> QED BY <2>1, <4>1, PlaceBehind
    <3>2. PICK k \in 1 .. n : k = w - l /\ k + 1 \in 1 .. n /\ (w + 1) - l = k + 1
      BY <3>1
    <3>3. ~(w <= l) /\ ~(w + 1 <= l)
      BY <1>5, <2>1, <2>4
    <3>4. u[w] = W[k] /\ u[w + 1] = W[k + 1]
      BY <1>8, <2>1, <3>2, <3>3
    <3>5. W[k].token = i /\ W[k].nth = k /\ W[k + 1].token = i /\ W[k + 1].nth = k + 1
      BY <1>1, <1>2, <3>2
    <3> QED BY <3>4, <3>5 DEF Before
  <2>5. w < l \/ w = l \/ w > l
    BY <1>1, <1>5
  <2> QED BY <2>2, <2>3, <2>4, <2>5, Zenon
<1>11. words' = u
  BY <1>2, <1>4
<1> HIDE DEF u, R
<1>12. (\E Z : u \in Seq(Z) /\ WordsOfSet(Z, i + 1))
       /\ \A w \in 1 .. Len(u) - 1 : Before(u[w], u[w + 1])
  BY <1>8, <1>9, <1>10
<1> QED BY <1>11, <1>12 DEF WordsInv, WordsOfSet, Before

-----------------------------------------------------------------------------
(* The phrases grow by one word.                                               *)

LEMMA WordsInAppend ==
  ASSUME NEW ps \in Seq(Phrase), NEW p \in Phrase
  PROVE  /\ WordsIn(ps) \in Seq(Seq(Nat)) /\ p.words \in Seq(Nat)
         /\ WordsIn(Append(ps, p)) = Append(WordsIn(ps), p.words)
<1>1. PICK n \in Nat : n = Len(ps) /\ DOMAIN ps = 1 .. n
  BY LenProperties
<1>2. PICK q : q = Append(ps, p)
  OBVIOUS
<1>3. /\ q \in Seq(Phrase) /\ Len(q) = n + 1 /\ DOMAIN q = 1 .. n + 1
      /\ \A i \in 1 .. n : q[i] = ps[i]
      /\ q[n + 1] = p
  BY <1>1, <1>2, AppendProperties, LenProperties
<1>4. \A i \in 1 .. n : ps[i].words \in Seq(Nat)
  <2>1. \A r \in Phrase : r.words \in Seq(Nat)
    BY DEF Phrase
  <2> QED BY <1>1, <2>1, ElementOfSeq
<1>5. p.words \in Seq(Nat)
  BY DEF Phrase
<1> DEFINE T == Seq(Nat)
           s == WordsIn(ps)
           t == WordsIn(q)
<1>6. s = [i \in 1 .. n |-> ps[i].words] /\ t = [i \in 1 .. n + 1 |-> q[i].words]
  BY <1>1, <1>3 DEF WordsIn
<1>7. s \in [1 .. n -> T]
  BY <1>4, <1>6
<1>8. p.words \in T
  BY <1>5
<1> HIDE DEF T, s, t
<1>9. s \in Seq(T) /\ Len(s) = n
  BY <1>7
<1>10. t = Append(s, p.words)
  <2>1. PICK u : u = Append(s, p.words)
    OBVIOUS
  <2>2. /\ u \in Seq(T) /\ Len(u) = n + 1
        /\ \A i \in 1 .. n : u[i] = s[i]
        /\ u[n + 1] = p.words
    BY <1>8, <1>9, <2>1, AppendProperties
  <2>3. u \in [1 .. n + 1 -> T]
    BY <2>2, LenProperties
  <2>4. ASSUME NEW i \in 1 .. n + 1 PROVE t[i] = u[i]
    <3>1. CASE i \in 1 .. n
      BY <1>3, <1>6, <2>2, <3>1
    <3>2. CASE i = n + 1
      BY <1>3, <1>6, <2>2, <3>2
    <3> QED BY <3>1, <3>2
  <2>5. t = [i \in 1 .. n + 1 |-> t[i]] /\ u = [i \in 1 .. n + 1 |-> u[i]]
    BY <1>6, <2>3
  <2> QED BY <2>1, <2>4, <2>5
<1> QED BY <1>2, <1>5, <1>9, <1>10 DEF s, t, T

LEMMA UptoGrows ==
  ASSUME NEW n \in Nat
  PROVE  /\ Upto(n) \in Seq(Nat) /\ Len(Upto(n)) = n
         /\ Append(Upto(n), n + 1) = Upto(n + 1)
<1>1. PICK a : a = Upto(n)
  OBVIOUS
<1>2. a = [w \in 1 .. n |-> w] /\ a \in [1 .. n -> Nat]
  BY <1>1 DEF Upto
<1>3. a \in Seq(Nat) /\ Len(a) = n
  BY <1>2
<1>4. PICK b : b = Append(a, n + 1)
  OBVIOUS
<1>5. /\ b \in Seq(Nat) /\ Len(b) = n + 1
      /\ \A i \in 1 .. n : b[i] = i
      /\ b[n + 1] = n + 1
  BY <1>2, <1>3, <1>4, AppendProperties
<1>6. b \in [1 .. n + 1 -> Nat]
  BY <1>5, LenProperties
<1>7. \A i \in 1 .. n + 1 : b[i] = i
  <2> TAKE i \in 1 .. n + 1
  <2>1. i \in 1 .. n \/ i = n + 1
    OBVIOUS
  <2> QED BY <1>5, <2>1
<1>8. b = [w \in 1 .. n + 1 |-> w]
  BY <1>6, <1>7
<1> QED BY <1>1, <1>3, <1>4, <1>8 DEF Upto

Base(ps) ==
  /\ \A k \in 1 .. Len(ps) : ps[k].words # <<>>
  /\ \A k \in 1 .. Len(ps) - 1 : Broken(ps[k], ps[k + 1])

\* What a partition is of phrases and one behind them.
LEMMA PartitionIs ==
  ASSUME NEW ps \in Seq(Phrase), NEW p \in Phrase, NEW n \in Nat
  PROVE  Partition(Append(ps, p), n) <=>
           /\ Base(ps) /\ p.words # <<>>
           /\ FlattenSeq(Append(WordsIn(ps), p.words)) = Upto(n)
           /\ ps # <<>> => Broken(Last(ps), p)
           /\ n >= 1 /\ Last(p.words) = n
           /\ p.name = "BB" => LastWordInToken(n)
<1>1. PICK m \in Nat : m = Len(ps)
  BY LenProperties
<1>2. PICK q : q = Append(ps, p)
  OBVIOUS
<1>3. /\ q \in Seq(Phrase) /\ Len(q) = m + 1 /\ q # <<>>
      /\ \A i \in 1 .. m : q[i] = ps[i]
      /\ q[m + 1] = p
      /\ Last(q) = p
  BY <1>1, <1>2, AppendProperties, LastOfAppend
<1>4. WordsIn(q) = Append(WordsIn(ps), p.words)
  BY <1>2, WordsInAppend
<1>5. ps # <<>> <=> m # 0
  BY <1>1, EmptySeq
<1>6. m # 0 => Last(ps) = ps[m]
  BY <1>1 DEF Last
<1>7. (\A k \in 1 .. m + 1 : q[k].words # <<>>)
       <=> (\A k \in 1 .. m : ps[k].words # <<>>) /\ p.words # <<>>
  <2>1. \A k \in 1 .. m + 1 : k \in 1 .. m \/ k = m + 1
    OBVIOUS
  <2>2. m + 1 \in 1 .. m + 1 /\ \A k \in 1 .. m : k \in 1 .. m + 1
    OBVIOUS
  <2> QED BY <1>3, <2>1, <2>2
<1>8. (\A k \in 1 .. (m + 1) - 1 : Broken(q[k], q[k + 1]))
       <=> (\A k \in 1 .. m - 1 : Broken(ps[k], ps[k + 1])) /\ (ps # <<>> => Broken(Last(ps), p))
  <2>1. \A k \in 1 .. (m + 1) - 1 : k \in 1 .. m - 1 \/ (k = m /\ m # 0)
    OBVIOUS
  <2>2. \A k \in 1 .. m - 1 : k \in 1 .. (m + 1) - 1 /\ q[k] = ps[k] /\ q[k + 1] = ps[k + 1]
    BY <1>3
  <2>3. m # 0 => m \in 1 .. (m + 1) - 1 /\ q[m] = Last(ps) /\ q[m + 1] = p
    BY <1>3, <1>6
  <2> QED BY <1>5, <2>1, <2>2, <2>3
<1> QED BY <1>1, <1>2, <1>3, <1>4, <1>7, <1>8 DEF Partition, Base

\* Words that come after one another: the last word of a token is followed by a
\* word of a later one.
LEMMA NextToken ==
  ASSUME NEW m, WordsInv(m), NEW n \in Nat, n >= 1, n + 1 <= Len(words), LastWordInToken(n)
  PROVE  words[n].token < words[n + 1].token
<1>1. PICK S : words \in Seq(S) /\ WordsOfSet(S, m)
  BY DEF WordsInv
<1>2. PICK l \in Nat : l = Len(words) /\ DOMAIN words = 1 .. l
  BY <1>1, LenProperties
<1>3. n \in 1 .. l - 1 /\ n \in 1 .. l /\ n + 1 \in 1 .. l
  BY <1>2
<1>4. PICK v, w : v = words[n] /\ w = words[n + 1]
  OBVIOUS
<1>5. Before(v, w)
  BY <1>2, <1>3, <1>4 DEF WordsInv
<1>6. v.nth \in Nat /\ w.nth \in Nat
  BY <1>1, <1>2, <1>3, <1>4, ElementOfSeq DEF WordsOfSet
<1>7. w.token = v.token => w.nth <= v.nth
  BY <1>2, <1>3, <1>4 DEF LastWordInToken
<1> QED BY <1>4, <1>5, <1>6, <1>7 DEF Before

\* A word more: phrasify puts it behind the words of the phrase that is open, or
\* begins a phrase with it, and ends the phrase only at the last word of a token.
LEMMA PhraseLonger ==
  ASSUME NEW ps \in Seq(Phrase), NEW p \in Phrase, NEW n \in Nat, Partition(Append(ps, p), n),
         NEW r \in Phrase, r.words = Append(p.words, n + 1),
         r.name = "BB" => LastWordInToken(n + 1)
  PROVE  Partition(Append(ps, r), n + 1)
<1>1. /\ Base(ps) /\ p.words # <<>>
      /\ FlattenSeq(Append(WordsIn(ps), p.words)) = Upto(n)
      /\ ps # <<>> => Broken(Last(ps), p)
  BY PartitionIs
<1>2. WordsIn(ps) \in Seq(Seq(Nat)) /\ p.words \in Seq(Nat)
  BY WordsInAppend
<1>3. r.words # <<>> /\ Last(r.words) = n + 1 /\ Head(r.words) = Head(p.words)
  <2>1. r.words # <<>>
    <3>1. n + 1 \in Nat
      OBVIOUS
    <3>2. ASSUME NEW ws \in Seq(Nat), NEW e \in Nat PROVE Append(ws, e) # <<>>
      BY AppendProperties
    <3> QED BY <1>2, <3>1, <3>2
  <2>2. Last(r.words) = n + 1
    BY <1>2, LastOfAppend
  <2>3. Head(r.words) = Head(p.words)
    BY <1>1, <1>2, HeadTailAppend
  <2> QED BY <2>1, <2>2, <2>3
<1>4. FlattenSeq(Append(WordsIn(ps), r.words)) = Upto(n + 1)
  <2>1. n + 1 \in Nat
    OBVIOUS
  <2>2. FlattenSeq(Append(WordsIn(ps), r.words))
          = Append(FlattenSeq(Append(WordsIn(ps), p.words)), n + 1)
    BY <1>2, <2>1, FlattenLonger
  <2> QED BY <1>1, <2>2, UptoGrows
<1>5. ps # <<>> => Broken(Last(ps), r)
  BY <1>1, <1>3 DEF Broken
<1>6. n + 1 \in Nat /\ n + 1 >= 1
  OBVIOUS
<1> QED BY <1>1, <1>3, <1>4, <1>5, <1>6, PartitionIs

LEMMA PhraseMore ==
  ASSUME NEW m, WordsInv(m), NEW n \in Nat, n + 1 <= Len(words),
         NEW ps, Partition(ps, n), ps # <<>> => Last(ps).name = "BB",
         NEW r \in Phrase, r.words = <<n + 1>>,
         r.name = "BB" => LastWordInToken(n + 1)
  PROVE  Partition(Append(ps, r), n + 1)
<1>1. ps \in Seq(Phrase) /\ FlattenSeq(WordsIn(ps)) = Upto(n) /\ Base(ps)
  BY DEF Partition, Base
<1>2. WordsIn(ps) \in Seq(Seq(Nat))
  BY <1>1, WordsInAppend
<1>3. r.words # <<>> /\ Last(r.words) = n + 1 /\ Head(r.words) = n + 1 /\ r.words \in Seq(Nat)
  BY DEF Last
<1>4. FlattenSeq(Append(WordsIn(ps), r.words)) = Upto(n + 1)
  <2>1. FlattenSeq(Append(WordsIn(ps), r.words)) = Upto(n) \o <<n + 1>>
    BY <1>1, <1>2, <1>3, FlattenAppend
  <2>2. Upto(n) \o <<n + 1>> = Append(Upto(n), n + 1)
    BY UptoGrows, AppendIsConcat
  <2> QED BY <2>1, <2>2, UptoGrows
<1>5. ps # <<>> => Broken(Last(ps), r)
  <2> SUFFICES ASSUME ps # <<>> PROVE Broken(Last(ps), r)
    OBVIOUS
  <2>1. /\ Last(ps).name = "BB" /\ Last(Last(ps).words) = n
        /\ n >= 1 /\ LastWordInToken(n)
    BY DEF Partition
  <2>2. words[n].token < words[n + 1].token
    BY <2>1, NextToken
  <2> QED BY <1>3, <2>1, <2>2 DEF Broken
<1>6. n + 1 \in Nat /\ n + 1 >= 1
  OBVIOUS
<1> QED BY <1>1, <1>3, <1>4, <1>5, <1>6, PartitionIs

LEMMA WordIsPhrased ==
  ASSUME NEW m, WordsInv(m), Partition(phrases, at - 1), sentences = Len(phrases),
         at \in 1 .. Len(words), PhrasifyNext
  PROVE  Partition(phrases', at) /\ sentences' = Len(phrases')
<1> DEFINE grown == IF PhraseOpen THEN [phrases EXCEPT ![Len(phrases)].words = Append(@, at)]
                    ELSE Append(phrases, [name |-> "NB", words |-> <<at>>])
<1>1. phrases' = IF EndsPhrase(at) THEN [grown EXCEPT ![Len(grown)].name = "BB"] ELSE grown
  BY DEF PhrasifyNext
<1>2. sentences' = IF PhraseOpen THEN sentences ELSE sentences + 1
  BY DEF PhrasifyNext
<1>3. PICK n \in Nat : n = at - 1 /\ at = n + 1
  <2>1. at - 1 \in Nat /\ at = (at - 1) + 1
    OBVIOUS
  <2> QED BY <2>1
<1>4. n + 1 <= Len(words)
  BY <1>3
<1>5. phrases \in Seq(Phrase)
  BY DEF Partition
<1>6. EndsPhrase(at) => LastWordInToken(n + 1)
  BY <1>3 DEF EndsPhrase
<1>7. PICK name : name = IF EndsPhrase(at) THEN "BB" ELSE "NB"
  OBVIOUS
\* which of the two is done at the end of the phrases
<1>8. ASSUME NEW ps \in Seq(Phrase), NEW ws \in Seq(Nat),
             grown = Append(ps, [name |-> "NB", words |-> ws])
      PROVE  /\ [name |-> name, words |-> ws] \in Phrase
             /\ phrases' = Append(ps, [name |-> name, words |-> ws])
  <2>1. PICK p : p = [name |-> "NB", words |-> ws]
    OBVIOUS
  <2>2. p \in Phrase /\ [p EXCEPT !.name = "BB"] = [name |-> "BB", words |-> ws]
    BY <2>1 DEF Phrase
  <2>3. [name |-> name, words |-> ws] \in Phrase
    BY <1>7 DEF Phrase
  <2>4. PICK g : g = grown
    OBVIOUS
  <2>5. PICK l \in Nat : l = Len(ps)
    BY LenProperties
  <2>6. g = Append(ps, p)
    BY <1>8, <2>1, <2>4
  <2>7. PICK r : r = [p EXCEPT !.name = "BB"]
    OBVIOUS
  <2>8. r \in Phrase
    BY <2>2, <2>7 DEF Phrase
  <2>9. [g EXCEPT ![Len(g)].name = "BB"] = Append(ps, r)
    <3>1. g \in Seq(Phrase) /\ Len(g) = l + 1 /\ g[l + 1] = p
      BY <2>2, <2>5, <2>6, AppendProperties
    <3>2. [g EXCEPT ![Len(g)].name = "BB"] = [g EXCEPT ![l + 1] = r]
      BY <2>7, <3>1
    <3>3. [g EXCEPT ![l + 1] = r] = Append(ps, r)
      BY <2>2, <2>5, <2>6, <2>8, LastReplaced
    <3> QED BY <3>2, <3>3
  <2>10. CASE EndsPhrase(at)
    <3>1. phrases' = [g EXCEPT ![Len(g)].name = "BB"]
      BY <1>1, <2>4, <2>10
    <3>2. r = [name |-> name, words |-> ws]
      BY <1>7, <2>2, <2>7, <2>10
    <3> QED BY <2>3, <2>9, <3>1, <3>2
  <2>11. CASE ~EndsPhrase(at)
    <3>1. phrases' = grown /\ name = "NB"
      BY <1>1, <1>7, <2>11
    <3> QED BY <1>8, <2>3, <3>1
  <2> QED BY <2>10, <2>11
<1>9. name = "BB" => LastWordInToken(n + 1)
  BY <1>6, <1>7
<1>10. CASE PhraseOpen
  <2>1. PICK ps \in Seq(Phrase), p \in Phrase : phrases = Append(ps, p)
    BY <1>5, <1>10, SequenceEmptyOrAppend DEF PhraseOpen
  <2>2. PICK l \in Nat : l = Len(ps)
    BY LenProperties
  <2>3. PICK g : g = phrases
    OBVIOUS
  <2>4. /\ g \in Seq(Phrase) /\ Len(g) = l + 1 /\ (\A i \in 1 .. l : g[i] = ps[i]) /\ g[l + 1] = p
    BY <2>1, <2>2, <2>3, AppendProperties
  <2>5. Last(g) = p
    BY <2>1, <2>3, LastOfAppend
  <2>6. p.words \in Seq(Nat) /\ \E pw : p = [name |-> "NB", words |-> pw]
    BY <1>10, <2>3, <2>5 DEF PhraseOpen, Phrase
  <2>7. PICK ws : ws = Append(p.words, at)
    OBVIOUS
  <2>8. ws \in Seq(Nat)
    BY <1>3, <2>6, <2>7, AppendProperties
  <2>9. PICK r : r = [name |-> "NB", words |-> ws]
    OBVIOUS
  <2>10. r \in Phrase
    BY <2>8, <2>9 DEF Phrase
  <2>11. grown = Append(ps, r)
    <3>1. grown = [g EXCEPT ![l + 1] = r]
      <4>1. r = [p EXCEPT !.words = Append(@, at)]
        <5>1. PICK pw : p = [name |-> "NB", words |-> pw]
          BY <2>6
        <5>2. [p EXCEPT !.words = ws] = r
          BY <2>9, <5>1
        <5> QED BY <2>7, <5>2, Zenon
      <4>2. grown = [g EXCEPT ![l + 1].words = Append(@, at)]
        BY <1>10, <2>3, <2>4
      <4> QED BY <2>4, <4>1, <4>2
    <3>2. [g EXCEPT ![l + 1] = r] = Append(ps, r)
      <4>1. g = Append(ps, p)
        BY <2>1, <2>3
      <4> QED BY <2>2, <2>10, <4>1, LastReplaced, SMTT(30)
    <3> QED BY <3>1, <3>2
  <2>12. PICK q : q = [name |-> name, words |-> ws]
    OBVIOUS
  <2>13. q \in Phrase /\ phrases' = Append(ps, q)
    BY <1>8, <2>8, <2>9, <2>11, <2>12
  <2>14. q.words = Append(p.words, n + 1) /\ q.name = name
    BY <1>3, <2>7, <2>12
  <2>15. Partition(Append(ps, p), n)
    BY <1>3, <2>1
  <2>16. Partition(phrases', n + 1)
    BY <1>9, <2>13, <2>14, <2>15, PhraseLonger
  <2>17. Len(phrases') = l + 1 /\ Len(phrases) = l + 1
    BY <2>2, <2>3, <2>4, <2>13, AppendProperties
  <2> QED BY <1>2, <1>3, <1>10, <2>16, <2>17
<1>11. CASE ~PhraseOpen
  <2>1. phrases # <<>> => Last(phrases).name = "BB"
    <3> SUFFICES ASSUME phrases # <<>> PROVE Last(phrases).name = "BB"
      OBVIOUS
    <3>1. PICK ps \in Seq(Phrase), p \in Phrase : phrases = Append(ps, p)
      BY <1>5, SequenceEmptyOrAppend
    <3>2. Last(phrases) = p
      BY <3>1, LastOfAppend
    <3>3. p.name \in {"NB", "BB"}
      BY <3>1 DEF Phrase
    <3> QED BY <1>11, <3>2, <3>3 DEF PhraseOpen
  <2>2. <<at>> \in Seq(Nat)
    BY <1>3
  <2>3. grown = Append(phrases, [name |-> "NB", words |-> <<at>>])
    BY <1>11
  <2>4. PICK r : r = [name |-> name, words |-> <<at>>]
    OBVIOUS
  <2>5. r \in Phrase /\ phrases' = Append(phrases, r)
    BY <1>5, <1>8, <2>2, <2>3, <2>4
  <2>6. r.words = <<n + 1>> /\ r.name = name
    BY <1>3, <2>4
  <2>7. Partition(phrases, n)
    BY <1>3
  <2>8. Partition(phrases', n + 1)
    BY <1>4, <1>9, <2>1, <2>5, <2>6, <2>7, PhraseMore
  <2>9. Len(phrases') = Len(phrases) + 1
    BY <1>5, <2>5, AppendProperties
  <2> QED BY <1>2, <1>3, <1>11, <2>8, <2>9
<1> QED BY <1>10, <1>11

-----------------------------------------------------------------------------
(* The steps.                                                                  *)

\* The words.
LEMMA WordsKept ==
  ASSUME UNCHANGED words
  PROVE  /\ \A n : WordsInv(n) => WordsInv(n)'
         /\ SomeWords => SomeWords'
<1>1. ASSUME NEW n, WordsInv(n) PROVE WordsInv(n)'
  BY <1>1 DEF WordsInv
<1> QED BY <1>1 DEF SomeWords

LEMMA NoWords ==
  ASSUME words = <<>>
  PROVE  WordsInv(1)
<1>1. words \in Seq({}) /\ Len(words) = 0 /\ WordsOfSet({}, 1)
  BY DEF WordsOfSet
<1> QED BY <1>1 DEF WordsInv

LEMMA NoWordsThen ==
  ASSUME words' = <<>>
  PROVE  WordsInv(1)'
<1>1. words' \in Seq({}) /\ Len(words') = 0 /\ WordsOfSet({}, 1)
  BY DEF WordsOfSet
<1> QED BY <1>1 DEF WordsInv, WordsOfSet

LEMMA NormalizeWords ==
  ASSUME Complete, tokens \in Seq(TokenItem), WordsControl, Normalize
  PROVE  WordsControl'
<1>1. proc = 2 /\ (proc' = 0 \/ (proc' = 2 /\ pc' = "loop") \/ (proc' = 3 /\ pc' = "start"))
  BY NormalizeGoes
<1>2. CASE NormalizeStarts
  <2>1. pc = "start" /\ UNCHANGED words
    BY <1>2, RunsAt DEF NormalizeStarts, uttVars
  <2>2. words = <<>> /\ words' = <<>>
    BY <1>1, <2>1 DEF WordsControl
  <2>3. WordsInv(1)'
    BY <2>2, NoWordsThen
  <2>4. SomeWords'
    BY <2>3 DEF SomeWords
  <2>5. at' = 1
    BY <1>2, Goes DEF NormalizeStarts
  <2>6. (at \in Nat /\ at >= 1 /\ WordsInv(at))'
    BY <2>3, <2>5 DEF WordsInv
  <2> QED BY <1>1, <2>4, <2>6 DEF WordsControl
<1>3. CASE NormalizeNext
  <2>1. /\ pc = "loop" /\ at <= Len(tokens) /\ at' = at + 1
        /\ words' = IF tokens[at].IsPunctuation THEN words ELSE words \o WordsOf(at)
    BY <1>3, RunsAt, Goes DEF NormalizeNext
  <2>2. at \in Nat /\ at >= 1 /\ WordsInv(at)
    BY <1>1, <2>1 DEF WordsControl
  <2>4. at \in 1 .. Len(tokens)
    BY <2>1, <2>2, LenProperties
  <2>5. tokens[at].name \in Seq(Chars)
    <3>1. tokens[at] \in TokenItem
      BY <2>4, ElementOfSeq
    <3> QED BY <3>1 DEF TokenItem
  <2>6. PICK i \in Nat : i = at /\ i >= 1
    BY <2>2
  <2>7. WordsInv(i + 1)'
    <3>1. CASE words' = words
      <4>1. WordsInv(i)'
        BY <2>2, <2>6, <3>1, WordsKept
      <4>2. \A x : x \in 1 .. i - 1 => x \in 1 .. (i + 1) - 1
        OBVIOUS
      <4>3. \A W : WordsOfSet(W, i) => WordsOfSet(W, i + 1)
        BY <4>2 DEF WordsOfSet
      <4> QED BY <4>1, <4>3 DEF WordsInv, WordsOfSet
    <3>2. CASE words' = words \o WordsOf(at)
      BY <2>2, <2>5, <2>6, <3>2, WordsGrow
    <3> QED BY <2>1, <3>1, <3>2
  <2>8. (at \in Nat /\ at >= 1 /\ WordsInv(at))'
    BY <2>1, <2>6, <2>7 DEF WordsInv, WordsOfSet
  <2>9. SomeWords'
    BY <2>7 DEF SomeWords
  <2>10. proc' = 2 /\ pc' = "loop"
    BY <1>1, <1>3, Goes DEF NormalizeNext
  <2> QED BY <2>8, <2>9, <2>10 DEF WordsControl
<1>4. CASE NormalizeFails
  <2>1. words' = <<>> /\ pc' = "start"
    BY <1>4, Goes DEF NormalizeFails
  <2>2. SomeWords'
    BY <2>1, NoWordsThen DEF SomeWords
  <2> QED BY <1>1, <2>1, <2>2 DEF WordsControl
<1>5. CASE NormalizeEnds
  <2>1. UNCHANGED words /\ pc' = "start"
    BY <1>5, Goes DEF NormalizeEnds, uttVars
  <2>2. SomeWords'
    BY <2>1, WordsKept DEF WordsControl
  <2> QED BY <1>1, <2>1, <2>2 DEF WordsControl
<1> QED BY <1>2, <1>3, <1>4, <1>5 DEF Normalize

LEMMA WordsStep ==
  ASSUME Complete, tokens \in Seq(TokenItem), WordsControl, Next
  PROVE  WordsControl'
<1>1. CASE Tokenize
  <2>1. UNCHANGED words /\ proc = 1 /\ (proc' \in 0 .. 1 \/ (proc' = 2 /\ pc' = "start"))
    BY <1>1, TokenizeGoes, TokenizeLeaves
  <2>2. words = <<>> /\ SomeWords'
    BY <2>1, WordsKept DEF WordsControl
  <2> QED BY <2>1, <2>2 DEF WordsControl
<1>2. CASE Normalize
  BY <1>2, NormalizeWords
<1>3. CASE Phrasify \/ LexLookup \/ Pauses
  <2>1. UNCHANGED words /\ (proc' = 0 \/ proc' \in 3 .. 6)
    BY <1>3, PhrasifyGoes, LaterGoes, PhrasifyLeaves, LaterLeave
  <2>2. SomeWords'
    BY <2>1, WordsKept DEF WordsControl
  <2> QED BY <2>1, <2>2 DEF WordsControl
<1> QED BY <1>1, <1>2, <1>3 DEF Next

\* The phrases.
LEMMA PhrasesKept ==
  ASSUME UNCHANGED words
  PROVE  \A ps, n : Partition(ps, n) => Partition(ps, n)'
BY DEF Partition, Broken, LastWordInToken

LEMMA PhrasifyPhrases ==
  ASSUME Complete, WordsControl, PhrasesControl, Phrasify
  PROVE  PhrasesControl'
<1>1. proc = 3 /\ (proc' = 0 \/ (proc' = 3 /\ pc' = "loop") \/ (proc' = 4 /\ pc' = "start"))
  BY PhrasifyGoes
<1>2. UNCHANGED words
  BY PhrasifyLeaves
<1>3. PICK m : WordsInv(m)
  BY DEF WordsControl, SomeWords
<1>4. Len(words) \in Nat
  BY <1>3, LenProperties DEF WordsInv
<1>5. CASE PhrasifyStarts
  <2>1. pc = "start" /\ UNCHANGED <<phrases, sentences>> /\ at' = 1
    BY <1>5, RunsAt, Goes DEF PhrasifyStarts, uttVars
  <2>2. phrases = <<>> /\ sentences = 0 /\ "Phrase" \notin rels
    BY <1>1, <2>1 DEF PhrasesControl, NothingPhrased
  <2>3. CASE proc' = 3 /\ pc' = "loop"
    <3>1. Partition(<<>>, 0)
      <4>1. FlattenSeq(WordsIn(<<>>)) = Upto(0)
        <5>1. WordsIn(<<>>) = <<>> /\ Upto(0) = <<>>
          BY DEF WordsIn, Upto
        <5> QED BY <5>1, FlattenNone
      <4> QED BY <4>1 DEF Partition
    <3>2. Partition(<<>>, 0)'
      BY <1>2, <3>1, PhrasesKept
    <3>3. Phrasing'
      BY <2>1, <2>2, <3>2 DEF Phrasing, Partition, Broken, LastWordInToken
    <3>4. (at \in 1 .. Len(words) + 1)'
      BY <1>2, <1>4, <2>1
    <3> QED BY <2>3, <3>3, <3>4 DEF PhrasesControl
  <2>4. CASE proc' = 4 /\ pc' = "start"
    <3>1. "Phrase" \notin rels'
      BY <1>5, <1>1, <2>2, <2>4 DEF PhrasifyStarts, QuitError, Loops
    <3> QED BY <2>4, <3>1 DEF PhrasesControl
  <2>5. CASE proc' = 0
    BY <2>5 DEF PhrasesControl
  <2> QED BY <1>1, <2>3, <2>4, <2>5
<1>6. CASE PhrasifyNext
  <2>1. pc = "loop" /\ at <= Len(words) /\ at' = at + 1 /\ proc' = 3 /\ pc' = "loop"
    BY <1>1, <1>6, RunsAt, Goes DEF PhrasifyNext
  <2>2. at \in 1 .. Len(words) + 1 /\ Partition(phrases, at - 1) /\ sentences = Len(phrases)
    BY <1>1, <2>1 DEF PhrasesControl, Phrasing
  <2>3. at \in 1 .. Len(words)
    BY <1>4, <2>1, <2>2
  <2>4. Partition(phrases', at) /\ sentences' = Len(phrases')
    BY <1>3, <1>6, <2>2, <2>3, WordIsPhrased
  <2>5. PICK ps, n : ps = phrases' /\ n = at
    OBVIOUS
  <2>6. Partition(ps, n)'
    BY <1>2, <2>4, <2>5, PhrasesKept
  <2>7. at' - 1 = n
    BY <2>1, <2>3, <2>5
  <2>8. Phrasing'
    BY <2>4, <2>5, <2>6, <2>7 DEF Phrasing, Partition, Broken, LastWordInToken
  <2>9. (at \in 1 .. Len(words) + 1)'
    BY <1>2, <1>4, <2>1, <2>3
  <2> QED BY <2>1, <2>8, <2>9 DEF PhrasesControl
<1>7. CASE PhrasifyFails
  <2>1. "Phrase" \notin rels' /\ pc' = "start"
    BY <1>7, Goes DEF PhrasifyFails, QuitError
  <2> QED BY <1>1, <2>1 DEF PhrasesControl
<1>8. CASE PhrasifyEnds
  <2>1. pc = "loop" /\ at > Len(words) /\ pc' = "start" /\ UNCHANGED <<phrases, sentences>>
    BY <1>8, RunsAt, Goes DEF PhrasifyEnds, uttVars
  <2>2. at \in 1 .. Len(words) + 1 /\ Partition(phrases, at - 1) /\ sentences = Len(phrases)
    BY <1>1, <2>1 DEF PhrasesControl, Phrasing
  <2>3. at - 1 = Len(words)
    BY <1>4, <2>1, <2>2
  <2>4. Phrased
    BY <2>2, <2>3 DEF Phrased
  <2>5. Phrased'
    BY <1>2, <2>1, <2>4 DEF Phrased, Partition, Broken, LastWordInToken
  <2> QED BY <1>1, <2>1, <2>5 DEF PhrasesControl
<1> QED BY <1>5, <1>6, <1>7, <1>8 DEF Phrasify

LEMMA PhrasesStep ==
  ASSUME Complete, WordsControl, PhrasesControl, Next
  PROVE  PhrasesControl'
<1>1. CASE Tokenize
  <2>1. proc = 1 /\ (proc' \in 0 .. 1 \/ (proc' = 2 /\ pc' = "start"))
    BY <1>1, TokenizeGoes
  <2>2. UNCHANGED <<phrases, sentences>> /\ ("Phrase" \in rels' => "Phrase" \in rels)
    BY <1>1, TokenizeLeaves
  <2>3. NothingPhrased'
    BY <2>1, <2>2 DEF PhrasesControl, NothingPhrased
  <2> QED BY <2>1, <2>3 DEF PhrasesControl
<1>2. CASE Normalize
  <2>1. proc = 2 /\ (proc' = 0 \/ (proc' = 2 /\ pc' = "loop") \/ (proc' = 3 /\ pc' = "start"))
    BY <1>2, NormalizeGoes
  <2>2. UNCHANGED <<phrases, sentences>> /\ ("Phrase" \in rels' => "Phrase" \in rels)
    BY <1>2, NormalizeLeaves
  <2>3. NothingPhrased'
    BY <2>1, <2>2 DEF PhrasesControl, NothingPhrased
  <2> QED BY <2>1, <2>3 DEF PhrasesControl
<1>3. CASE Phrasify
  BY <1>3, PhrasifyPhrases
<1>4. CASE LexLookup \/ Pauses
  <2>1. proc \in 4 .. 5 /\ (proc' = 0 \/ proc' \in 4 .. 6)
    BY <1>4, LaterGoes
  <2>2. UNCHANGED <<words, phrases, sentences>> /\ ("Phrase" \in rels' => "Phrase" \in rels)
    BY <1>4, LaterLeave
  <2>3. Phrased => Phrased'
    BY <2>2 DEF Phrased, Partition, Broken, LastWordInToken
  <2>4. "Phrase" \in rels' => Phrased'
    BY <2>1, <2>2, <2>3 DEF PhrasesControl
  <2> QED BY <2>1, <2>4 DEF PhrasesControl
<1> QED BY <1>1, <1>2, <1>3, <1>4 DEF Next

LEMMA TextInit ==
  ASSUME Init
  PROVE  TextInv
<1>1. SpellInv
  BY SpellInit
<1>2. words = <<>> /\ proc = 1 /\ pc = "start" /\ NothingPhrased
  BY DEF Init, NothingPhrased
<1>3. WordsControl
  BY <1>2, NoWords DEF WordsControl, SomeWords
<1>4. PhrasesControl
  BY <1>2 DEF PhrasesControl
<1> QED BY <1>1, <1>3, <1>4 DEF TextInv

LEMMA TextStep ==
  ASSUME Complete, TextInv, [Next]_vars
  PROVE  TextInv'
<1>1. SpellInv'
  BY SpellStep DEF TextInv
<1>2. CASE Next
  <2>1. tokens \in Seq(TokenItem)
    BY DEF TextInv, SpellInv
  <2>2. WordsControl' /\ PhrasesControl'
    BY <1>2, <2>1, WordsStep, PhrasesStep DEF TextInv
  <2> QED BY <1>1, <2>2 DEF TextInv
<1>3. CASE UNCHANGED vars
  <2>1. UNCHANGED <<words, phrases, sentences>> /\ UNCHANGED <<proc, pc, at, rels>>
    BY <1>3, Zenon DEF vars, uttVars
  <2>2. WordsControl'
    BY <2>1, WordsKept DEF TextInv, WordsControl, WordsInv
  <2>3. PhrasesControl'
    BY <2>1 DEF TextInv, PhrasesControl, NothingPhrased, Phrasing, Phrased, Partition, Broken,
                LastWordInToken
  <2> QED BY <1>1, <2>2, <2>3 DEF TextInv
<1> QED BY <1>2, <1>3

\* Phrasify puts every word in exactly one phrase, in the order of the words, and
\* no token is torn apart: a phrase that another follows ends with a break and the
\* last word of its token.
THEOREM PhrasesPartitionWords ==
  ASSUME Complete
  PROVE  Spec => []PhrasesPartition
<1>1. Init => TextInv
  BY TextInit
<1>2. TextInv /\ [Next]_vars => TextInv'
  BY TextStep
<1>3. TextInv => PhrasesPartition
  <2> SUFFICES ASSUME TextInv, Past("Phrasify"), "Phrase" \in rels PROVE PhrasesPartition
    BY DEF PhrasesPartition
  <2>1. proc > 3
    BY DEF Past, Complete
  <2>2. Phrased
    <3>1. proc \in 4 .. 6
      BY <2>1 DEF TextInv, SpellInv
    <3> QED BY <3>1 DEF TextInv, PhrasesControl
  <2>3. PICK S : words \in Seq(S)
    BY DEF TextInv, WordsControl, SomeWords, WordsInv
  <2>4. DOMAIN words = 1 .. Len(words)
    BY <2>3, LenProperties
  <2>5. Partition(phrases, Len(words)) /\ sentences = Len(phrases)
    BY <2>2 DEF Phrased
  <2>6. phrases \in Seq(Phrase)
    BY <2>5 DEF Partition
  <2>7. DOMAIN phrases = 1 .. Len(phrases) /\ Len(phrases) \in Nat
    BY <2>6, LenProperties
  <2>8. FlattenSeq([k \in DOMAIN phrases |-> phrases[k].words]) = [w \in DOMAIN words |-> w]
    BY <2>4, <2>5 DEF Partition, WordsIn, Upto
  <2>9. \A k \in DOMAIN phrases : phrases[k].words # <<>>
    BY <2>5, <2>7 DEF Partition
  <2>10. ASSUME NEW k \in DOMAIN phrases, k < Len(phrases)
         PROVE  Broken(phrases[k], phrases[k + 1])
    <3>1. k \in 1 .. Len(phrases) - 1
      BY <2>7, <2>10
    <3> QED BY <2>5, <3>1 DEF Partition
  <2> QED BY <2>5, <2>8, <2>9, <2>10 DEF PhrasesPartition, Broken
<1> QED BY <1>1, <1>2, <1>3, PTL DEF Spec

-----------------------------------------------------------------------------
(* The segments and silences: lexlookup appends the segments of each word, and *)
(* pauses puts a silence before everything and after the last segment of each  *)
(* phrase.  What each of them has done is told phrase by phrase: the phrases   *)
(* before the one pauses is at have their silences, and the others not yet.    *)

\* A hypothesis on the lexicons: a syllabified entry has no phones, or the last of its
\* syllables has some; another entry has one list of phones.  pauses_proc.c looks at the
\* last daughter of the last daughter of a word only, so that it would take a word whose
\* last syllable is empty for one without segments.
LexiconsEnd ==
  \A v \in Voices : \A name \in DOMAIN v.lexicon :
    /\ v.lexicon[name].phones \in Seq(Nat)
    /\ v.lexicon[name].syllabified =>
         v.lexicon[name].phones = <<>> \/ Last(v.lexicon[name].phones) # 0
    /\ ~v.lexicon[name].syllabified => v.lexicon[name].phones # <<>>

\* The segments, and those of the words of U.
Segment == [word : Nat, syl : Nat, phone : Nat]
SegmentsIn(U) == {s \in Segment : s.word \in U}

\* What lexlookup finds for word w: the numbers of phones of its syllables.
PhonesOf(w) == Pronunciation(words[w].name)

\* the segments of each word
SegmentTable == [w \in Nat |-> IF w \in 1 .. Len(words) THEN SegmentsOf(w, PhonesOf(w)) ELSE <<>>]

\* the segments of a phrase, those of word w being f[w], without and with its silence
PhraseTable(f) == [p \in Phrase |-> Total(f, p.words)]
PausedTable(f) == [p \in Phrase |-> IF Total(f, p.words) = <<>> THEN <<>>
                                    ELSE Append(Total(f, p.words), Silence)]

\* the segments of the phrases ps, those before phrase i with their silences
PausedTo(f, ps, i) ==
  Cat(Cat(<<Silence>>, Total(PausedTable(f), SubSeq(ps, 1, i - 1))),
      Total(PhraseTable(f), SubSeq(ps, i, Len(ps))))

\* The first n words are looked up; they have segments; pauses is at phrase i.
LookedUp(n) == sylStructure = [k \in 1 .. n |-> [word |-> k, syls |-> PhonesOf(k)]]
Segmented(n) == segments = Total(SegmentTable, Upto(n))
Paused(i) == segments = PausedTo(SegmentTable, phrases, i)

\* What sylStructure and segments have wherever the control is, while nothing failed.
SilenceInv ==
  /\ voice \in Voices
  /\ ~failed =>
       /\ proc \in 1 .. 3 \/ (proc = 4 /\ pc = "start") => sylStructure = <<>> /\ segments = <<>>
       /\ proc = 4 /\ pc # "start" =>
            at \in 1 .. Len(words) + 1 /\ LookedUp(at - 1) /\ Segmented(at - 1)
       /\ proc = 4 /\ pc = "lookup" => at <= Len(words)
       /\ proc = 5 => LookedUp(Len(words))
       /\ proc = 5 /\ pc = "start" => Segmented(Len(words))
       /\ proc = 5 /\ pc # "start" => at \in 1 .. Len(phrases) + 1 /\ Paused(at)
       /\ proc = 6 => Paused(Len(phrases) + 1)
       /\ proc = 6 \/ (proc = 5 /\ pc # "start") => "Phrase" \in rels

\* The parts one after another are of what each part is of.
LEMMA TotalIn ==
  ASSUME NEW S, NEW T, NEW f, NEW s \in Seq(S), \A e \in S : f[e] \in Seq(T)
  PROVE  Total(f, s) \in Seq(T)
<1> DEFINE Q == Seq(T)
<1>1. PICK n \in Nat : n = Len(s) /\ DOMAIN s = 1 .. n
  BY LenProperties
<1>2. \A k \in 1 .. n : s[k] \in S
  BY <1>1, ElementOfSeq
<1>3. \A e \in S : f[e] \in Q
  OBVIOUS
<1> HIDE DEF Q
<1>4. PICK m : m = [k \in 1 .. n |-> f[s[k]]]
  OBVIOUS
<1>5. m \in [1 .. n -> Q] /\ m = Mapped(f, s)
  BY <1>1, <1>2, <1>3, <1>4 DEF Mapped
<1>6. m \in Seq(Q)
  BY <1>5
<1> QED BY <1>5, <1>6, FlattenType DEF Total, Q

\* c has the elements of a and then those of b.
Joins(c, a, b) ==
  /\ Len(c) = Len(a) + Len(b)
  /\ \A i \in 1 .. Len(a) : c[i] = a[i]
  /\ \A i \in 1 .. Len(b) : c[Len(a) + i] = b[i]

LEMMA CatJoins ==
  ASSUME NEW S, NEW a \in Seq(S), NEW b \in Seq(S)
  PROVE  Cat(a, b) \in Seq(S) /\ Joins(Cat(a, b), a, b)
<1>1. PICK c : c = Cat(a, b)
  OBVIOUS
<1>2. /\ c \in Seq(S) /\ Len(c) = Len(a) + Len(b)
      /\ \A i \in 1 .. Len(a) + Len(b) : c[i] = IF i <= Len(a) THEN a[i] ELSE b[i - Len(a)]
  BY <1>1, ConcatProperties DEF Cat
<1>3. Len(a) \in Nat /\ Len(b) \in Nat
  BY LenProperties
<1>4. ASSUME NEW i \in 1 .. Len(a) PROVE c[i] = a[i]
  BY <1>2, <1>3
<1>5. ASSUME NEW i \in 1 .. Len(b) PROVE c[Len(a) + i] = b[i]
  <2>1. Len(a) + i \in 1 .. Len(a) + Len(b) /\ ~(Len(a) + i <= Len(a)) /\ (Len(a) + i) - Len(a) = i
    BY <1>3
  <2> QED BY <1>2, <2>1
<1> QED BY <1>1, <1>2, <1>4, <1>5 DEF Joins

\* What a place of a concatenation is a place of.
LEMMA CatPlace ==
  ASSUME NEW a \in Nat, NEW b \in Nat, NEW i \in 1 .. a + b
  PROVE  i \in 1 .. a \/ \E j \in 1 .. b : i = a + j
<1>1. CASE i <= a
  BY <1>1
<1>2. CASE ~(i <= a)
  <2>1. i - a \in 1 .. b /\ i = a + (i - a)
    BY <1>2
  <2> QED BY <2>1
<1> QED BY <1>1, <1>2

\* s is the last phone of word w, whose syllables are syls
Ends(s, w, syls) == syls # <<>> /\ s = [word |-> w, syl |-> Len(syls), phone |-> Last(syls)]

\* a pronunciation does not end in an empty syllable, unless it has no other
Sounds(syls) == syls \in Seq(Nat) /\ (syls = <<>> \/ Last(syls) # 0 \/ Len(syls) = 1)

\* the first l phones of syllable k of word w
PhonesTo(w, k, l) == [j \in 1 .. l |-> [word |-> w, syl |-> k, phone |-> j]]
SyllablesTo(w, k) == {s \in SegmentsIn({w}) : s.syl <= k}

\* The phones of one syllable.
LEMMA PhonesAre ==
  ASSUME NEW w \in Nat, NEW k \in Nat, NEW l \in Nat
  PROVE  /\ PhonesTo(w, k, l) \in Seq(SyllablesTo(w, k)) /\ Len(PhonesTo(w, k, l)) = l
         /\ \A j \in 1 .. l : PhonesTo(w, k, l)[j] = [word |-> w, syl |-> k, phone |-> j]
<1>1. \A j \in 1 .. l : [word |-> w, syl |-> k, phone |-> j] \in SyllablesTo(w, k)
  BY DEF SyllablesTo, SegmentsIn, Segment
<1>2. PICK V : V = SyllablesTo(w, k)
  OBVIOUS
<1>3. PICK p : p = PhonesTo(w, k, l)
  OBVIOUS
<1>4. p \in [1 .. l -> V] /\ \A j \in 1 .. l : p[j] = [word |-> w, syl |-> k, phone |-> j]
  BY <1>1, <1>2, <1>3 DEF PhonesTo
<1>5. p \in Seq(V) /\ Len(p) = l
  BY <1>4
<1> QED BY <1>2, <1>3, <1>4, <1>5

\* More syllables have more segments, all of the same word.
LEMMA SyllablesGrow ==
  ASSUME NEW w \in Nat, NEW k \in Nat, NEW n \in Nat, k <= n
  PROVE  SyllablesTo(w, k) \subseteq SyllablesTo(w, n) /\ SyllablesTo(w, n) \subseteq SegmentsIn({w})
BY DEF SyllablesTo, SegmentsIn, Segment

\* A sequence of at least one is a shorter one and its last.
Begins(h, g, m) == g = Append(h, g[m + 1]) /\ Len(h) = m /\ \A k \in 1 .. m : h[k] = g[k]

LEMMA BeginningOf ==
  ASSUME NEW S, NEW g \in Seq(S), NEW m \in Nat, Len(g) = m + 1
  PROVE  \E h \in Seq(S) : Begins(h, g, m)
<1>1. g # <<>>
  BY EmptySeq
<1>2. PICK h \in Seq(S), e \in S : g = Append(h, e)
  BY <1>1, SequenceEmptyOrAppend
<1>3. Len(g) = Len(h) + 1 /\ (\A k \in 1 .. Len(h) : g[k] = h[k]) /\ g[Len(h) + 1] = e
  BY <1>2, AppendProperties
<1>4. Len(h) = m
  BY <1>3, LenProperties
<1> QED BY <1>2, <1>3, <1>4 DEF Begins

\* The segments of a word are of that word, and the last phone of its last syllable
\* is the last of them and no other: that is where pauses puts its silence.
LEMMA SegmentsAre ==
  ASSUME NEW w \in Nat, NEW syls, Sounds(syls)
  PROVE  /\ SegmentsOf(w, syls) \in Seq(SegmentsIn({w}))
         /\ \A i \in 1 .. Len(SegmentsOf(w, syls)) :
              Ends(SegmentsOf(w, syls)[i], w, syls) <=> i = Len(SegmentsOf(w, syls))
<1>1. PICK n \in Nat : n = Len(syls) /\ DOMAIN syls = 1 .. n
  BY LenProperties DEF Sounds
<1>2. \A k \in 1 .. n : syls[k] \in Nat
  BY <1>1, ElementOfSeq DEF Sounds
<1>3. PICK g : g = [k \in 1 .. n |-> PhonesTo(w, k, syls[k])]
  OBVIOUS
<1>4. SegmentsOf(w, syls) = FlattenSeq(g)
  BY <1>1, <1>3 DEF SegmentsOf, PhonesTo
<1>5. CASE n = 0
  <2>1. g = <<>>
    BY <1>3, <1>5
  <2>2. SegmentsOf(w, syls) = <<>>
    BY <1>4, <2>1, FlattenNone
  <2>3. <<>> \in Seq(SegmentsIn({w})) /\ Len(<<>>) = 0
    BY EmptySeq
  <2> QED BY <2>2, <2>3
<1>6. CASE n # 0
  <2>1. PICK m \in Nat : n = m + 1
    <3>1. n - 1 \in Nat /\ n = (n - 1) + 1
      BY <1>6
    <3> QED BY <3>1
  <2>2. PICK T, R : T = SyllablesTo(w, n) /\ R = SyllablesTo(w, m)
    OBVIOUS
  <2>3. R \subseteq T /\ T \subseteq SegmentsIn({w})
    BY <2>1, <2>2, SyllablesGrow
  <2>4. ASSUME NEW k \in 1 .. n
        PROVE  g[k] \in Seq(T) /\ (k <= m => g[k] \in Seq(R))
    <3>1. PICK j \in Nat, l \in Nat : j = k /\ l = syls[k]
      BY <1>2
    <3>2. j <= n /\ g[k] = PhonesTo(w, j, l)
      BY <1>3, <3>1
    <3>3. PICK J : J = SyllablesTo(w, j)
      OBVIOUS
    <3>4. g[k] \in Seq(J)
      <4>1. PhonesTo(w, j, l) \in Seq(SyllablesTo(w, j))
        BY PhonesAre
      <4> QED BY <3>2, <3>3, <4>1
    <3>5. J \subseteq T /\ (j <= m => J \subseteq R)
      BY <2>2, <3>2, <3>3, SyllablesGrow
    <3> QED BY <3>1, <3>4, <3>5, SeqMonotonic
  <2>5. PICK V : V = Seq(T)
    OBVIOUS
  <2>6. g \in Seq(V) /\ Len(g) = n
    <3>1. g \in [1 .. n -> V]
      BY <1>3, <2>4, <2>5
    <3> QED BY <3>1
  <2>7. PICK h \in Seq(V) : g = Append(h, g[n]) /\ Len(h) = m /\ \A k \in 1 .. m : h[k] = g[k]
    <3>1. Len(g) = m + 1
      BY <2>1, <2>6
    <3>2. \E h \in Seq(V) : Begins(h, g, m)
      BY <2>6, <3>1, BeginningOf
    <3> QED BY <2>1, <3>2 DEF Begins
  <2>8. PICK x : x = FlattenSeq(h)
    OBVIOUS
  <2>9. x \in Seq(R)
    <3>1. PICK W : W = Seq(R)
      OBVIOUS
    <3>2. \A k \in 1 .. m : h[k] \in W
      BY <2>1, <2>4, <2>7, <3>1
    <3>3. h \in [1 .. m -> W]
      BY <2>7, <3>2, LenProperties
    <3>4. h \in Seq(W)
      BY <3>3
    <3> QED BY <2>8, <3>1, <3>4, FlattenType
  <2>10. PICK y : y = g[n]
    OBVIOUS
  <2>11. n \in 1 .. n /\ n \in Nat /\ syls[n] \in Nat
    BY <1>2, <2>1
  <2>12. y \in Seq(T)
    BY <2>4, <2>10, <2>11
  <2>13. Len(y) = syls[n] /\ \A j \in 1 .. Len(y) : y[j] = [word |-> w, syl |-> n, phone |-> j]
    <3>1. PICK l \in Nat : l = syls[n]
      BY <2>11
    <3>2. y = PhonesTo(w, n, l)
      BY <1>3, <2>10, <2>11, <3>1
    <3>3. Len(PhonesTo(w, n, l)) = l
          /\ \A j \in 1 .. l : PhonesTo(w, n, l)[j] = [word |-> w, syl |-> n, phone |-> j]
      BY PhonesAre
    <3> QED BY <3>1, <3>2, <3>3
  <2>14. PICK z : z = Cat(x, y)
    OBVIOUS
  <2>15. SegmentsOf(w, syls) = z
    <3>1. FlattenSeq(Append(h, y)) = FlattenSeq(h) \o y
      BY <2>5, <2>7, <2>12, FlattenAppend
    <3> QED BY <1>4, <2>7, <2>8, <2>10, <2>14, <3>1 DEF Cat
  <2>16. x \in Seq(T)
    BY <2>3, <2>9, SeqMonotonic
  <2>17. /\ z \in Seq(T) /\ Len(z) = Len(x) + Len(y)
         /\ \A i \in 1 .. Len(x) : z[i] = x[i]
         /\ \A i \in 1 .. Len(y) : z[Len(x) + i] = y[i]
    <3>1. Cat(x, y) \in Seq(T) /\ Joins(Cat(x, y), x, y)
      BY <2>12, <2>16, CatJoins
    <3> QED BY <2>14, <3>1 DEF Joins
  <2>18. Len(x) \in Nat /\ Len(y) \in Nat
    BY <2>9, <2>12, LenProperties
  <2>19. syls # <<>> /\ Last(syls) = syls[n]
    BY <1>1, <1>6 DEF Last
  <2>20. \A i \in 1 .. Len(x) : x[i].syl <= m
    <3>1. \A i \in 1 .. Len(x) : x[i] \in R
      BY <2>9, ElementOfSeq
    <3> QED BY <2>2, <3>1 DEF SyllablesTo
  <2>21. Len(y) = 0 => Len(x) = 0
    <3> SUFFICES ASSUME Len(y) = 0 PROVE Len(x) = 0
      OBVIOUS
    <3>1. m = 0
      BY <1>1, <2>1, <2>13, <2>19 DEF Sounds
    <3>2. h = <<>>
      BY <2>7, <3>1, EmptySeq
    <3>3. x = <<>>
      BY <2>8, <3>2, FlattenNone
    <3> QED BY <3>3
  <2>22. ASSUME NEW i \in 1 .. Len(z) PROVE Ends(z[i], w, syls) <=> i = Len(z)
    <3>1. CASE i \in 1 .. Len(x)
      <4>1. z[i].syl <= m
        BY <2>17, <2>20, <3>1
      <4>2. ~Ends(z[i], w, syls)
        BY <1>1, <2>1, <4>1 DEF Ends
      <4>3. i # Len(z)
        <5>1. Len(x) # 0
          BY <2>18, <3>1
        <5>2. Len(y) # 0
          BY <2>21, <5>1
        <5> QED BY <2>17, <2>18, <3>1, <5>2
      <4> QED BY <4>2, <4>3
    <3>2. CASE \E j \in 1 .. Len(y) : i = Len(x) + j
      <4>1. PICK j \in 1 .. Len(y) : i = Len(x) + j
        BY <3>2
      <4>2. z[i] = [word |-> w, syl |-> n, phone |-> j]
        BY <2>13, <2>17, <4>1
      <4>3. Ends(z[i], w, syls) <=> j = Len(y)
        BY <1>1, <2>13, <2>19, <4>2 DEF Ends
      <4>4. i = Len(z) <=> j = Len(y)
        BY <2>17, <2>18, <4>1
      <4> QED BY <4>3, <4>4
    <3>3. i \in 1 .. Len(x) + Len(y)
      BY <2>17
    <3>4. i \in 1 .. Len(x) \/ \E j \in 1 .. Len(y) : i = Len(x) + j
      BY <2>18, <3>3, CatPlace
    <3> QED BY <3>1, <3>2, <3>4
  <2>23. z \in Seq(SegmentsIn({w}))
    BY <2>3, <2>17, SeqMonotonic
  <2> QED BY <2>15, <2>22, <2>23
<1> QED BY <1>5, <1>6

-----------------------------------------------------------------------------
(* The last segment of some words, as pauses finds it.                         *)

\* the words from a + 1 on
From(a, m) == [j \in 1 .. m |-> a + j]

\* The m words after the first a, and one word more.
LEMMA FromGrows ==
  ASSUME NEW a \in Nat, NEW m \in Nat
  PROVE  /\ From(a, m) \in Seq(a + 1 .. a + m) /\ Len(From(a, m)) = m
         /\ From(a, m) \in Seq(Nat)
         /\ Append(From(a, m), a + m + 1) = From(a, m + 1)
<1>1. PICK f : f = From(a, m)
  OBVIOUS
<1>2. PICK V : V = a + 1 .. a + m
  OBVIOUS
<1>3. f \in [1 .. m -> V] /\ \A j \in 1 .. m : f[j] = a + j
  BY <1>1, <1>2 DEF From
<1>4. f \in Seq(V) /\ Len(f) = m
  BY <1>3
<1>5. f \in Seq(Nat)
  BY <1>2, <1>4, SeqMonotonic
<1>6. PICK b : b = Append(f, a + m + 1)
  OBVIOUS
<1>7. /\ b \in Seq(Nat) /\ Len(b) = m + 1
      /\ \A j \in 1 .. m : b[j] = a + j
      /\ b[m + 1] = a + m + 1
  BY <1>3, <1>4, <1>5, <1>6, AppendProperties
<1>8. b \in [1 .. m + 1 -> Nat]
  BY <1>7, LenProperties
<1>9. ASSUME NEW j \in 1 .. m + 1 PROVE b[j] = a + j
  <2>1. j \in 1 .. m \/ j = m + 1
    OBVIOUS
  <2>2. a + (m + 1) = a + m + 1
    OBVIOUS
  <2> QED BY <1>7, <2>1, <2>2
<1>10. b = [j \in 1 .. m + 1 |-> a + j]
  BY <1>8, <1>9
<1> QED BY <1>1, <1>2, <1>4, <1>5, <1>6, <1>10 DEF From

\* f has the segments of the words up to n, the last of which pauses finds
Sounding(f, n) ==
  /\ f \in Tables(Nat, Segment)
  /\ \A w \in 1 .. n :
       /\ f[w] \in Seq(SegmentsIn({w}))
       /\ \A i \in 1 .. Len(f[w]) : IsLastOf(f[w][i], w) <=> i = Len(f[w])

\* y are the segments of m words from a + 1 on; pauses finds the last of them
EndFound(f, a, m, y) ==
  /\ y \in Seq(SegmentsIn(a + 1 .. a + m))
  /\ \A i \in 1 .. Len(y) :
       (\E k \in 1 .. m : IsLastOf(y[i], a + k) /\ \A l \in k + 1 .. m : f[a + l] = <<>>)
         <=> i = Len(y)
  /\ \A k \in 1 .. m : (\E i \in 1 .. Len(y) : IsLastOf(y[i], a + k)) <=> f[a + k] # <<>>

\* What is the last segment of a word is of that word.
LEMMA LastIsOf ==
  ASSUME NEW s, NEW w, IsLastOf(s, w)
  PROVE  s.word = w
BY DEF IsLastOf

\* The end that pauses finds among m words, and then among m + 1: the segments of one
\* word more go behind, or it has none and the search goes back over it.
LEMMA EndGrows ==
  ASSUME NEW n \in Nat, NEW f, Sounding(f, n), NEW a \in Nat, NEW m \in Nat, a + m + 1 \in 1 .. n,
         NEW y, EndFound(f, a, m, y)
  PROVE  EndFound(f, a, m + 1, Cat(y, f[a + m + 1]))
<1>1. PICK w \in 1 .. n : w = a + m + 1 /\ w = a + (m + 1)
  OBVIOUS
<1>2. PICK x : x = f[w]
  OBVIOUS
<1>3. PICK T, U, V : /\ T = SegmentsIn(a + 1 .. a + (m + 1)) /\ U = SegmentsIn({w})
                     /\ V = SegmentsIn(a + 1 .. a + m)
  OBVIOUS
<1>4. x \in Seq(U) /\ \A i \in 1 .. Len(x) : IsLastOf(x[i], w) <=> i = Len(x)
  BY <1>2, <1>3 DEF Sounding
<1>5. y \in Seq(V)
  BY <1>3 DEF EndFound
<1>6. U \subseteq T /\ V \subseteq T
  BY <1>1, <1>3 DEF SegmentsIn
<1>7. PICK b \in Seq(T), c \in Seq(T) : b = y /\ c = x
  BY <1>4, <1>5, <1>6, SeqMonotonic
<1>8. PICK z : z = Cat(b, c)
  OBVIOUS
<1>9. z \in Seq(T) /\ Joins(z, b, c)
  BY <1>8, CatJoins
<1>10. Len(z) = Len(b) + Len(c) /\ \A i \in 1 .. Len(b) : z[i] = b[i]
  BY <1>9 DEF Joins
<1>11. \A j \in 1 .. Len(c) : z[Len(b) + j] = c[j]
  BY <1>9 DEF Joins
<1>12. Len(b) \in Nat /\ Len(c) \in Nat
  BY LenProperties
<1>13. \A i \in 1 .. Len(b) : b[i].word \in a + 1 .. a + m
  <2>1. \A i \in 1 .. Len(y) : y[i] \in V
    BY <1>5, ElementOfSeq
  <2> QED BY <1>3, <1>7, <2>1 DEF SegmentsIn
<1>14. \A j \in 1 .. Len(c) : c[j].word = w
  <2>1. \A j \in 1 .. Len(x) : x[j] \in U
    BY <1>4, ElementOfSeq
  <2> QED BY <1>3, <1>7, <2>1 DEF SegmentsIn
<1>15. ASSUME NEW i \in 1 .. Len(b) PROVE ~IsLastOf(z[i], w)
  BY <1>1, <1>10, <1>13, LastIsOf
<1>16. ASSUME NEW j \in 1 .. Len(c), NEW k \in 1 .. m PROVE ~IsLastOf(z[Len(b) + j], a + k)
  <2>1. a + k # w
    BY <1>1
  <2>2. z[Len(b) + j].word = w
    BY <1>11, <1>14
  <2> QED BY <2>1, <2>2, LastIsOf
<1>17. x = <<>> <=> Len(c) = 0
  BY <1>7, EmptySeq
<1>18. ASSUME NEW i \in 1 .. Len(z)
       PROVE  i \in 1 .. Len(b) \/ \E j \in 1 .. Len(c) : i = Len(b) + j
  <2>1. PICK p \in Nat, q \in Nat : p = Len(b) /\ q = Len(c)
    BY <1>12
  <2>2. i \in 1 .. p + q
    BY <1>10, <2>1
  <2>3. i \in 1 .. p \/ \E j \in 1 .. q : i = p + j
    BY <2>2, CatPlace
  <2> QED BY <2>1, <2>3
<1> DEFINE Here(i, k) == IsLastOf(z[i], a + k)
           Silent(k) == f[a + k] = <<>>
<1>19. /\ \A i \in 1 .. Len(b) : \A k \in 1 .. m : Here(i, k) <=> IsLastOf(y[i], a + k)
       /\ \A i \in 1 .. Len(b) : ~Here(i, m + 1)
       /\ \A j \in 1 .. Len(c) : \A k \in 1 .. m : ~Here(Len(b) + j, k)
       /\ \A j \in 1 .. Len(c) : Here(Len(b) + j, m + 1) <=> j = Len(c)
       /\ Silent(m + 1) <=> Len(c) = 0
  BY <1>1, <1>2, <1>4, <1>7, <1>10, <1>11, <1>15, <1>16, <1>17
<1>20. /\ \A i \in 1 .. Len(b) :
            (\E k \in 1 .. m : Here(i, k) /\ \A l \in k + 1 .. m : Silent(l)) <=> i = Len(b)
       /\ \A k \in 1 .. m : (\E i \in 1 .. Len(b) : Here(i, k)) <=> ~Silent(k)
  <2>1. /\ \A i \in 1 .. Len(b) :
             (\E k \in 1 .. m : IsLastOf(y[i], a + k) /\ \A l \in k + 1 .. m : Silent(l))
               <=> i = Len(b)
        /\ \A k \in 1 .. m : (\E i \in 1 .. Len(b) : IsLastOf(y[i], a + k)) <=> ~Silent(k)
    BY <1>7 DEF EndFound
  <2>2. \A i \in 1 .. Len(b) : \A k \in 1 .. m : Here(i, k) <=> IsLastOf(y[i], a + k)
    BY <1>19
  <2> HIDE DEF Here, Silent
  <2> QED BY <2>1, <2>2
<1> HIDE DEF Here, Silent
<1>21. \A k \in 1 .. m + 1 : k \in 1 .. m \/ k = m + 1
  OBVIOUS
<1>22. ASSUME NEW i \in 1 .. Len(z)
       PROVE  (\E k \in 1 .. m + 1 : Here(i, k) /\ \A l \in k + 1 .. m + 1 : Silent(l))
                <=> i = Len(z)
  <2>1. CASE Len(c) = 0
    <3>1. i \in 1 .. Len(b) /\ Len(z) = Len(b) /\ Silent(m + 1)
      BY <1>10, <1>12, <1>19, <2>1
    <3>2. ~Here(i, m + 1)
      BY <1>19, <3>1
    <3>3. ASSUME NEW k \in 1 .. m
          PROVE  (\A l \in k + 1 .. m + 1 : Silent(l)) <=> (\A l \in k + 1 .. m : Silent(l))
      <4>1. \A l \in k + 1 .. m + 1 : l \in k + 1 .. m \/ l = m + 1
        OBVIOUS
      <4>2. \A l \in k + 1 .. m : l \in k + 1 .. m + 1
        OBVIOUS
      <4> QED BY <3>1, <4>1, <4>2
    <3>4. \A k \in 1 .. m : k \in 1 .. m + 1
      OBVIOUS
    <3>5. (\E k \in 1 .. m + 1 : Here(i, k) /\ \A l \in k + 1 .. m + 1 : Silent(l))
            <=> \E k \in 1 .. m : Here(i, k) /\ \A l \in k + 1 .. m : Silent(l)
      BY <1>21, <3>2, <3>3, <3>4
    <3> QED BY <1>20, <3>1, <3>5
  <2>2. CASE Len(c) # 0
    <3>1. ~Silent(m + 1)
      BY <1>19, <2>2
    <3>2. ASSUME NEW k \in 1 .. m PROVE ~\A l \in k + 1 .. m + 1 : Silent(l)
      <4>1. m + 1 \in k + 1 .. m + 1
        OBVIOUS
      <4> QED BY <3>1, <4>1
    <3>3. \A l \in (m + 1) + 1 .. m + 1 : Silent(l)
      OBVIOUS
    <3>4. m + 1 \in 1 .. m + 1
      OBVIOUS
    <3>5. (\E k \in 1 .. m + 1 : Here(i, k) /\ \A l \in k + 1 .. m + 1 : Silent(l)) <=> Here(i, m + 1)
      BY <1>21, <3>2, <3>3, <3>4
    <3>6. Here(i, m + 1) <=> i = Len(z)
      <4>1. CASE i \in 1 .. Len(b)
        <5>1. ~Here(i, m + 1)
          BY <1>19, <4>1
        <5>2. i # Len(z)
          BY <1>10, <1>12, <2>2, <4>1
        <5> QED BY <5>1, <5>2
      <4>2. CASE \E j \in 1 .. Len(c) : i = Len(b) + j
        <5>1. PICK j \in 1 .. Len(c) : i = Len(b) + j
          BY <4>2
        <5>2. Here(i, m + 1) <=> j = Len(c)
          BY <1>19, <5>1
        <5> QED BY <1>10, <1>12, <5>1, <5>2
      <4> QED BY <1>18, <4>1, <4>2
    <3> QED BY <3>5, <3>6
  <2> QED BY <2>1, <2>2
<1>23. ASSUME NEW k \in 1 .. m + 1
       PROVE  (\E i \in 1 .. Len(z) : Here(i, k)) <=> ~Silent(k)
  <2>1. \A i \in 1 .. Len(b) : i \in 1 .. Len(z)
    BY <1>10, <1>12
  <2>2. CASE k \in 1 .. m
    <3>1. \A i \in 1 .. Len(z) : Here(i, k) => i \in 1 .. Len(b)
      BY <1>18, <1>19, <2>2
    <3> QED BY <1>20, <2>1, <2>2, <3>1
  <2>3. CASE k = m + 1
    <3>1. ASSUME NEW i \in 1 .. Len(z), Here(i, m + 1) PROVE Len(c) # 0
      <4>1. i \notin 1 .. Len(b)
        BY <1>19, <3>1
      <4> QED BY <1>10, <1>12, <4>1
    <3>2. ASSUME Len(c) # 0 PROVE \E i \in 1 .. Len(z) : Here(i, m + 1)
      <4>1. Len(c) \in 1 .. Len(c) /\ Len(b) + Len(c) \in 1 .. Len(z)
        BY <1>10, <1>12, <3>2
      <4>2. Here(Len(b) + Len(c), m + 1)
        BY <1>19, <4>1
      <4> QED BY <4>1, <4>2
    <3> QED BY <1>19, <2>3, <3>1, <3>2
  <2> QED BY <1>21, <2>2, <2>3
<1>24. z = Cat(y, f[a + m + 1])
  BY <1>1, <1>2, <1>7, <1>8
<1> QED BY <1>3, <1>9, <1>22, <1>23, <1>24 DEF EndFound, Here, Silent

\* The end that pauses finds among the words of a phrase.
LEMMA PhraseEnd ==
  ASSUME NEW n \in Nat, NEW f, Sounding(f, n), NEW a \in Nat, NEW m \in Nat, m = 0 \/ a + m \in 1 .. n
  PROVE  EndFound(f, a, m, Total(f, From(a, m)))
<1> DEFINE G == {l \in Nat : l <= m => EndFound(f, a, l, Total(f, From(a, l)))}
<1>1. 0 \in G
  <2>1. From(a, 0) = <<>>
    BY DEF From
  <2>2. Total(f, From(a, 0)) = <<>>
    BY <2>1, TotalNone
  <2>3. EndFound(f, a, 0, <<>>)
    <3>1. <<>> \in Seq(SegmentsIn(a + 1 .. a + 0)) /\ Len(<<>>) = 0
      BY EmptySeq
    <3> QED BY <3>1 DEF EndFound
  <2> QED BY <2>2, <2>3
<1>2. ASSUME NEW l \in G PROVE l + 1 \in G
  <2> SUFFICES ASSUME l + 1 <= m PROVE EndFound(f, a, l + 1, Total(f, From(a, l + 1)))
    OBVIOUS
  <2>1. l \in Nat /\ EndFound(f, a, l, Total(f, From(a, l)))
    OBVIOUS
  <2>2. a + l + 1 \in 1 .. n /\ a + l + 1 \in Nat
    BY <2>1
  <2>3. EndFound(f, a, l + 1, Cat(Total(f, From(a, l)), f[a + l + 1]))
    <3>1. PICK y : y = Total(f, From(a, l))
      OBVIOUS
    <3>2. EndFound(f, a, l, y)
      BY <2>1, <3>1
    <3> HIDE DEF G
    <3>3. EndFound(f, a, l + 1, Cat(y, f[a + l + 1]))
      BY <2>1, <2>2, <3>2, EndGrows
    <3> QED BY <3>1, <3>3
  <2>4. Total(f, From(a, l + 1)) = Cat(Total(f, From(a, l)), f[a + l + 1])
    <3>1. From(a, l) \in Seq(Nat) /\ Append(From(a, l), a + l + 1) = From(a, l + 1)
      BY <2>1, FromGrows
    <3>2. f \in Tables(Nat, Segment)
      BY DEF Sounding
    <3>3. PICK s \in Seq(Nat), e \in Nat : s = From(a, l) /\ e = a + l + 1
      BY <2>2, <3>1
    <3>4. Total(f, Append(s, e)) = Total(f, s) \o f[e]
      BY <3>2, TotalAppend
    <3> QED BY <3>1, <3>3, <3>4 DEF Cat
  <2> QED BY <2>3, <2>4
<1>3. G \in SUBSET Nat
  OBVIOUS
<1> HIDE DEF G
<1>4. G = Nat
  BY <1>1, <1>2, <1>3, NatSetInduction
<1> QED BY <1>4 DEF G

\* A concatenation begins with the one and ends with the other.
LEMMA CatParts ==
  ASSUME NEW S, NEW p \in Seq(S), NEW q \in Seq(S), NEW s, s = Cat(p, q)
  PROVE  SubSeq(s, 1, Len(p)) = p /\ SubSeq(s, Len(p) + 1, Len(s)) = q
<1>1. s \in Seq(S) /\ Joins(s, p, q)
  BY CatJoins
<1>2. PICK l \in Nat, k \in Nat : l = Len(p) /\ k = Len(q)
  BY LenProperties
<1>3. Len(s) = l + k /\ (\A i \in 1 .. l : s[i] = p[i]) /\ \A i \in 1 .. k : s[l + i] = q[i]
  BY <1>1, <1>2 DEF Joins
<1>4. \A i \in 1 .. l + k : s[i] \in S
  BY <1>1, <1>3, ElementOfSeq
<1>5. SubSeq(s, 1, l) = p
  <2>1. \A i \in 1 .. l : s[i] \in S
    BY <1>4
  <2>2. PICK u : u = SubSeq(s, 1, l)
    OBVIOUS
  <2>3. /\ u \in Seq(S) /\ Len(u) = (IF 1 <= l THEN l - 1 + 1 ELSE 0)
        /\ \A i \in 1 .. l - 1 + 1 : u[i] = s[1 + i - 1]
    BY <2>1, <2>2, SubSeqProperties
  <2>4. Len(u) = l /\ \A i \in 1 .. l : u[i] = p[i]
    BY <1>3, <2>3
  <2> QED BY <1>2, <2>2, <2>3, <2>4, SeqEqual
<1>6. SubSeq(s, l + 1, l + k) = q
  <2>1. \A i \in l + 1 .. l + k : s[i] \in S
    BY <1>4
  <2>2. PICK u : u = SubSeq(s, l + 1, l + k)
    OBVIOUS
  <2>3. l + 1 \in Int /\ l + k \in Int
    OBVIOUS
  <2>4. /\ u \in Seq(S) /\ Len(u) = (IF l + 1 <= l + k THEN (l + k) - (l + 1) + 1 ELSE 0)
        /\ \A i \in 1 .. (l + k) - (l + 1) + 1 : u[i] = s[(l + 1) + i - 1]
    BY <2>1, <2>2, <2>3, SubSeqProperties
  <2>5. Len(u) = k
    BY <2>4
  <2>6. ASSUME NEW i \in 1 .. k PROVE u[i] = q[i]
    <3>1. i \in 1 .. (l + k) - (l + 1) + 1 /\ (l + 1) + i - 1 = l + i
      OBVIOUS
    <3> QED BY <1>3, <2>4, <3>1
  <2> QED BY <1>2, <2>2, <2>4, <2>5, <2>6, SeqEqual
<1> QED BY <1>2, <1>3, <1>5, <1>6

\* Silence after p and before q.
LEMMA Inserted ==
  ASSUME NEW S, NEW x \in Seq(S), NEW y \in Seq(S), NEW z \in Seq(S), NEW e \in S
  PROVE  InsertAt(Cat(x, Cat(y, z)), 1 + (Len(x) + Len(y)), e) = Cat(x, Cat(Append(y, e), z))
<1>1. PICK p \in Seq(S) : p = Cat(x, y)
  BY CatJoins
<1>2. Len(p) = Len(x) + Len(y) /\ Len(p) \in Nat
  BY <1>1, CatJoins, LenProperties DEF Joins
<1>3. PICK s : s = Cat(p, z)
  OBVIOUS
<1>4. Cat(x, Cat(y, z)) = s
  BY <1>1, <1>3, CatAssociative
<1>5. SubSeq(s, 1, Len(p)) = p /\ SubSeq(s, Len(p) + 1, Len(s)) = z
  <2>1. SubSeq(Cat(p, z), 1, Len(p)) = p
    BY CatParts
  <2>2. SubSeq(Cat(p, z), Len(p) + 1, Len(Cat(p, z))) = z
    BY CatParts
  <2> QED BY <1>3, <2>1, <2>2
<1>6. (1 + Len(p)) - 1 = Len(p) /\ 1 + Len(p) = Len(p) + 1
  BY <1>2
<1>7. InsertAt(s, 1 + Len(p), e) = Cat(Cat(p, <<e>>), z)
  BY <1>5, <1>6 DEF InsertAt, Cat
<1>8. PICK o \in Seq(S), v \in Seq(S) : o = <<e>> /\ v = Append(y, e)
  BY CatOne
<1>9. v = Cat(y, o)
  BY <1>8, CatOne
<1>10. Cat(p, o) = Cat(x, v)
  BY <1>1, <1>9, CatAssociative
<1>11. Cat(Cat(x, v), z) = Cat(x, Cat(v, z))
  BY CatAssociative
<1> QED BY <1>2, <1>4, <1>7, <1>8, <1>10, <1>11

\* The segments are x, those y of the m words from a + 1 on, and z: silences are
\* before y, and the other segments are of other words.
Around(f, n, a, m, x, y, z) ==
  /\ Sounding(f, n)
  /\ m = 0 \/ a + m \in 1 .. n
  /\ x \in Seq(SegmentsIn(0 .. a))
  /\ y = Total(f, From(a, m))
  /\ z \in Seq(SegmentsIn(a + m + 1 .. n))
  /\ segments = Cat(x, Cat(y, z))

\* Pauses finds the end of y, whatever words at the end have no segments.
LEMMA Placed ==
  ASSUME NEW n \in Nat, NEW a \in Nat, NEW m \in Nat, NEW f, NEW x, NEW y, NEW z,
         Around(f, n, a, m, x, y, z), NEW phrase, phrase.words = From(a, m)
  PROVE  SilencePlaces(phrase) = IF y = <<>> THEN {} ELSE {Len(x) + Len(y)}
<1>0. /\ Sounding(f, n) /\ (m = 0 \/ a + m \in 1 .. n)
      /\ x \in Seq(SegmentsIn(0 .. a)) /\ y = Total(f, From(a, m))
      /\ z \in Seq(SegmentsIn(a + m + 1 .. n)) /\ segments = Cat(x, Cat(y, z))
  BY DEF Around
<1>1. EndFound(f, a, m, y)
  BY <1>0, PhraseEnd
<1>2. PICK Q, R : Q = SegmentsIn(a + 1 .. a + m) /\ R = SegmentsIn(a + m + 1 .. n)
  OBVIOUS
<1>3. y \in Seq(Q) /\ z \in Seq(R)
  BY <1>0, <1>1, <1>2 DEF EndFound
<1>4. Q \subseteq Segment /\ R \subseteq Segment /\ SegmentsIn(0 .. a) \subseteq Segment
  BY <1>2 DEF SegmentsIn
<1>5. x \in Seq(Segment) /\ y \in Seq(Segment) /\ z \in Seq(Segment)
  BY <1>0, <1>3, <1>4, SeqMonotonic
<1>6. PICK t, s : t = Cat(y, z) /\ s = Cat(x, t)
  OBVIOUS
<1>7. t \in Seq(Segment) /\ Joins(t, y, z)
  BY <1>5, <1>6, CatJoins
<1>8. s \in Seq(Segment) /\ Joins(s, x, t)
  BY <1>5, <1>6, <1>7, CatJoins
<1>9. PICK i0 \in Nat, j0 \in Nat, k0 \in Nat : i0 = Len(x) /\ j0 = Len(y) /\ k0 = Len(z)
  BY <1>5, LenProperties
<1>10. Len(t) = j0 + k0 /\ Len(s) = i0 + (j0 + k0)
  BY <1>7, <1>8, <1>9 DEF Joins
<1>11. /\ \A i \in 1 .. i0 : s[i] = x[i]
       /\ \A j \in 1 .. j0 : s[i0 + j] = y[j]
       /\ \A k \in 1 .. k0 : s[i0 + (j0 + k)] = z[k]
  <2>1. \A i \in 1 .. i0 : s[i] = x[i]
    BY <1>8, <1>9 DEF Joins
  <2>2. \A j \in 1 .. j0 + k0 : s[i0 + j] = t[j]
    BY <1>8, <1>9, <1>10 DEF Joins
  <2>3. (\A j \in 1 .. j0 : t[j] = y[j]) /\ \A k \in 1 .. k0 : t[j0 + k] = z[k]
    BY <1>7, <1>9 DEF Joins
  <2>4. ASSUME NEW j \in 1 .. j0 PROVE s[i0 + j] = y[j]
    <3>1. j \in 1 .. j0 + k0
      OBVIOUS
    <3> QED BY <2>2, <2>3, <3>1
  <2>5. ASSUME NEW k \in 1 .. k0 PROVE s[i0 + (j0 + k)] = z[k]
    <3>1. j0 + k \in 1 .. j0 + k0
      OBVIOUS
    <3> QED BY <2>2, <2>3, <3>1
  <2> QED BY <2>1, <2>4, <2>5
<1>12. ASSUME NEW i \in 1 .. Len(s), NEW k \in 1 .. m, IsLastOf(s[i], a + k)
       PROVE  \E j \in 1 .. j0 : i = i0 + j
  <2>1. s[i].word = a + k
    BY <1>12, LastIsOf
  <2>2. i \in 1 .. i0 + (j0 + k0)
    BY <1>10
  <2>3. j0 + k0 \in Nat
    OBVIOUS
  <2>4. i \in 1 .. i0 \/ \E l \in 1 .. j0 + k0 : i = i0 + l
    BY <2>2, <2>3, CatPlace
  <2>5. i \notin 1 .. i0
    <3> SUFFICES ASSUME i \in 1 .. i0 PROVE FALSE
      OBVIOUS
    <3>1. x[i] \in SegmentsIn(0 .. a)
      BY <1>0, <1>9, ElementOfSeq
    <3>2. x[i].word \in 0 .. a
      BY <3>1 DEF SegmentsIn
    <3>3. s[i] = x[i]
      BY <1>11
    <3> QED BY <2>1, <3>2, <3>3
  <2>6. PICK l \in 1 .. j0 + k0 : i = i0 + l
    BY <2>4, <2>5
  <2>7. l \in 1 .. j0 \/ \E h \in 1 .. k0 : l = j0 + h
    BY CatPlace
  <2>8. ASSUME NEW h \in 1 .. k0, l = j0 + h PROVE FALSE
    <3>1. z[h] \in R
      BY <1>3, <1>9, ElementOfSeq
    <3>2. z[h].word \in a + m + 1 .. n
      BY <1>2, <3>1 DEF SegmentsIn
    <3>3. s[i] = z[h]
      BY <1>11, <2>6, <2>8
    <3> QED BY <2>1, <3>2, <3>3
  <2> QED BY <2>6, <2>7, <2>8
<1>13. s = segments /\ DOMAIN s = 1 .. Len(s)
  BY <1>0, <1>6, <1>8, LenProperties
<1>14. Len(phrase.words) = m /\ DOMAIN phrase.words = 1 .. m
  <2>1. From(a, m) \in Seq(Nat) /\ Len(From(a, m)) = m
    BY FromGrows
  <2> QED BY <2>1, LenProperties
<1>15. \A k \in 1 .. m : phrase.words[k] = a + k
  BY DEF From
<1> DEFINE Here(i, k) == IsLastOf(s[i], a + k)
           Hears(j, k) == IsLastOf(y[j], a + k)
           Silent(k) == f[a + k] = <<>>
<1>16. /\ \A j \in 1 .. j0 : \A k \in 1 .. m : Here(i0 + j, k) <=> Hears(j, k)
       /\ \A i \in 1 .. Len(s) : \A k \in 1 .. m : Here(i, k) => \E j \in 1 .. j0 : i = i0 + j
  BY <1>11, <1>12
<1>17. /\ \A j \in 1 .. j0 :
            (\E k \in 1 .. m : Hears(j, k) /\ \A l \in k + 1 .. m : Silent(l)) <=> j = j0
       /\ \A k \in 1 .. m : (\E j \in 1 .. j0 : Hears(j, k)) <=> ~Silent(k)
  BY <1>1, <1>9 DEF EndFound
<1>18. \A k \in 1 .. m : Spoken(a + k) <=> \E i \in 1 .. Len(s) : Here(i, k)
  BY <1>13 DEF Spoken
<1>19. SilencePlaces(phrase) =
         {i \in 1 .. Len(s) : \E k \in 1 .. m :
            Here(i, k) /\ \A l \in k + 1 .. m : ~Spoken(a + l)}
  <2>1. ASSUME NEW k \in 1 .. m PROVE \A l \in k + 1 .. m : phrase.words[l] = a + l
    BY <1>15
  <2>2. PICK ws : ws = phrase.words
    OBVIOUS
  <2>3. ASSUME NEW i, NEW k \in 1 .. m
        PROVE  (IsLastOf(s[i], ws[k]) /\ \A l \in k + 1 .. m : ~Spoken(ws[l]))
                 <=> (Here(i, k) /\ \A l \in k + 1 .. m : ~Spoken(a + l))
    BY <1>15, <2>1, <2>2
  <2>4. SilencePlaces(phrase) =
          {i \in 1 .. Len(s) : \E k \in 1 .. m :
             IsLastOf(s[i], ws[k]) /\ \A l \in k + 1 .. m : ~Spoken(ws[l])}
    BY <1>13, <1>14, <2>2 DEF SilencePlaces
  <2> HIDE DEF Here
  <2> QED BY <2>3, <2>4
<1> HIDE DEF Here, Hears, Silent
<1>20. \A j \in 1 .. j0 : i0 + j \in 1 .. Len(s)
  BY <1>10
<1>21. ASSUME NEW k \in 1 .. m PROVE Spoken(a + k) <=> ~Silent(k)
  <2>1. Spoken(a + k) <=> \E i \in 1 .. Len(s) : Here(i, k)
    BY <1>18
  <2>2. (\E i \in 1 .. Len(s) : Here(i, k)) <=> \E j \in 1 .. j0 : Hears(j, k)
    BY <1>16, <1>20
  <2> QED BY <1>17, <2>1, <2>2
<1>22. ASSUME NEW i \in 1 .. Len(s)
       PROVE  (\E k \in 1 .. m : Here(i, k) /\ \A l \in k + 1 .. m : ~Spoken(a + l))
                <=> (j0 # 0 /\ i = i0 + j0)
  <2>1. ASSUME NEW k \in 1 .. m
        PROVE  (\A l \in k + 1 .. m : ~Spoken(a + l)) <=> (\A l \in k + 1 .. m : Silent(l))
    <3>1. \A l \in k + 1 .. m : l \in 1 .. m
      OBVIOUS
    <3> QED BY <1>21, <3>1
  <2>2. CASE \E j \in 1 .. j0 : i = i0 + j
    <3>1. PICK j \in 1 .. j0 : i = i0 + j
      BY <2>2
    <3>2. (\E k \in 1 .. m : Here(i, k) /\ \A l \in k + 1 .. m : ~Spoken(a + l))
            <=> \E k \in 1 .. m : Hears(j, k) /\ \A l \in k + 1 .. m : Silent(l)
      BY <1>16, <2>1, <3>1
    <3>3. (j0 # 0 /\ i = i0 + j0) <=> j = j0
      BY <3>1
    <3> QED BY <1>17, <3>2, <3>3
  <2>3. CASE ~\E j \in 1 .. j0 : i = i0 + j
    <3>1. ~\E k \in 1 .. m : Here(i, k)
      BY <1>16, <2>3
    <3>2. ~(j0 # 0 /\ i = i0 + j0)
      <4>1. j0 # 0 => j0 \in 1 .. j0
        OBVIOUS
      <4> QED BY <2>3, <4>1
    <3> QED BY <3>1, <3>2
  <2> QED BY <2>2, <2>3
<1>23. y = <<>> <=> j0 = 0
  BY <1>5, <1>9, EmptySeq
<1>24. j0 # 0 => i0 + j0 \in 1 .. Len(s)
  BY <1>10
<1> QED BY <1>9, <1>19, <1>22, <1>23, <1>24

-----------------------------------------------------------------------------
(* The words and segments of a phrase among those of the others.               *)

\* A sequence is what is before an element, the element, and what is after it.
LEMMA SplitAt ==
  ASSUME NEW S, NEW s \in Seq(S), NEW k \in 1 .. Len(s)
  PROVE  /\ SubSeq(s, 1, k - 1) \in Seq(S) /\ <<s[k]>> \in Seq(S)
         /\ SubSeq(s, k + 1, Len(s)) \in Seq(S)
         /\ SubSeq(s, k, Len(s)) = Cat(<<s[k]>>, SubSeq(s, k + 1, Len(s)))
         /\ SubSeq(s, 1, k) = Cat(SubSeq(s, 1, k - 1), <<s[k]>>)
         /\ s = Cat(SubSeq(s, 1, k - 1), Cat(<<s[k]>>, SubSeq(s, k + 1, Len(s))))
<1>1. PICK n \in Nat : n = Len(s) /\ \A i \in 1 .. n : s[i] \in S
  BY LenProperties, ElementOfSeq
<1>2. k - 1 \in Int /\ k + 1 \in Int /\ n \in Int /\ 1 \in Int
  OBVIOUS
<1>3. SubSeq(s, 1, k - 1) \in Seq(S)
  <2>1. \A i \in 1 .. k - 1 : s[i] \in S
    BY <1>1
  <2> QED BY <1>2, <2>1, SubSeqProperties
<1>4. SubSeq(s, k + 1, n) \in Seq(S)
  <2>1. \A i \in k + 1 .. n : s[i] \in S
    BY <1>1
  <2> QED BY <1>2, <2>1, SubSeqProperties
<1>5. s[k] \in S /\ <<s[k]>> \in Seq(S)
  BY <1>1
<1>6. SubSeq(s, k, n) = Cat(<<s[k]>>, SubSeq(s, k + 1, n))
  <2>1. k \in 1 .. Len(s) /\ n \in k .. Len(s)
    BY <1>1
  <2> QED BY <2>1, SubSeqRecursiveFirst DEF Cat
<1>7. SubSeq(s, 1, k) = Cat(SubSeq(s, 1, k - 1), <<s[k]>>)
  <2>1. 1 \in 1 .. Len(s) /\ k \in 1 .. Len(s)
    BY <1>1
  <2> QED BY <2>1, SubSeqRecursiveSecond DEF Cat
<1>8. s = Cat(SubSeq(s, 1, k - 1), SubSeq(s, k, n))
  <2>1. 1 \in 1 .. Len(s) + 1 /\ k - 1 \in 1 - 1 .. Len(s) /\ n \in k - 1 .. Len(s)
    BY <1>1
  <2>2. SubSeq(s, 1, k - 1) \o SubSeq(s, (k - 1) + 1, n) = SubSeq(s, 1, n)
    BY <2>1, ConcatAdjacentSubSeq
  <2>3. (k - 1) + 1 = k
    OBVIOUS
  <2>4. SubSeq(s, 1, n) = s
    BY <1>1, SubSeqFull
  <2> QED BY <2>2, <2>3, <2>4 DEF Cat
<1> QED BY <1>1, <1>3, <1>4, <1>5, <1>6, <1>7, <1>8

\* The parts of a sequence of elements of U are such sequences.
LEMMA CatIn ==
  ASSUME NEW S, NEW U, NEW p \in Seq(S), NEW q \in Seq(S), Cat(p, q) \in Seq(U)
  PROVE  p \in Seq(U) /\ q \in Seq(U)
<1>1. PICK c : c = Cat(p, q)
  OBVIOUS
<1>2. c \in Seq(U) /\ Joins(c, p, q)
  BY <1>1, CatJoins
<1>3. PICK l \in Nat, k \in Nat : l = Len(p) /\ k = Len(q)
  BY LenProperties
<1>4. Len(c) = l + k /\ (\A i \in 1 .. l : c[i] = p[i]) /\ \A i \in 1 .. k : c[l + i] = q[i]
  BY <1>2, <1>3 DEF Joins
<1>5. \A i \in 1 .. l + k : c[i] \in U
  BY <1>2, <1>4, ElementOfSeq
<1>6. p \in Seq(U)
  <2>1. \A i \in 1 .. l : p[i] \in U
    BY <1>4, <1>5
  <2>2. p \in [1 .. l -> U]
    BY <1>3, <2>1, LenProperties
  <2> QED BY <2>2
<1>7. q \in Seq(U)
  <2>1. ASSUME NEW i \in 1 .. k PROVE q[i] \in U
    <3>1. l + i \in 1 .. l + k
      OBVIOUS
    <3> QED BY <1>4, <1>5, <3>1
  <2>2. q \in [1 .. k -> U]
    BY <1>3, <2>1, LenProperties
  <2> QED BY <2>2
<1> QED BY <1>6, <1>7

\* The parts of words that come one after another.
LEMMA CatFrom ==
  ASSUME NEW p \in Seq(Nat), NEW q \in Seq(Nat), NEW a \in Nat, NEW n \in Nat, Cat(p, q) = From(a, n)
  PROVE  \E l \in Nat, k \in Nat : l + k = n /\ p = From(a, l) /\ q = From(a + l, k)
<1>1. PICK c : c = Cat(p, q)
  OBVIOUS
<1>2. Joins(c, p, q)
  BY <1>1, CatJoins
<1>3. PICK l \in Nat, k \in Nat : l = Len(p) /\ k = Len(q)
  BY LenProperties
<1>4. Len(c) = l + k /\ (\A i \in 1 .. l : c[i] = p[i]) /\ \A i \in 1 .. k : c[l + i] = q[i]
  BY <1>2, <1>3 DEF Joins
<1>5. l + k = n
  <2>1. Len(From(a, n)) = n
    BY FromGrows
  <2> QED BY <1>1, <1>4, <2>1
<1>6. \A i \in 1 .. n : c[i] = a + i
  BY <1>1 DEF From
<1>7. p = From(a, l)
  <2>1. \A i \in 1 .. l : p[i] = a + i
    BY <1>4, <1>5, <1>6
  <2>2. p \in [1 .. l -> Nat]
    BY <1>3, LenProperties
  <2> QED BY <2>1, <2>2 DEF From
<1>8. q = From(a + l, k)
  <2>1. ASSUME NEW i \in 1 .. k PROVE q[i] = (a + l) + i
    <3>1. l + i \in 1 .. n /\ a + (l + i) = (a + l) + i
      BY <1>5
    <3> QED BY <1>4, <1>6, <3>1
  <2>2. q \in [1 .. k -> Nat]
    BY <1>3, LenProperties
  <2> QED BY <2>1, <2>2 DEF From
<1> QED BY <1>5, <1>7, <1>8

\* The words of each phrase.
WordTable == [p \in Phrase |-> p.words]

\* One after another they are the words that phrasify has put in phrases.
LEMMA WordTableIs ==
  /\ \A p \in Phrase : Total(WordTable, <<p>>) = p.words
  /\ WordTable \in Tables(Phrase, Nat)
  /\ \A p \in Phrase : WordTable[p] = p.words
  /\ \A ps \in Seq(Phrase) : FlattenSeq(WordsIn(ps)) = Total(WordTable, ps)
<1>1. \A p \in Phrase : p.words \in Seq(Nat)
  BY DEF Phrase
<1>2. WordTable \in [Phrase -> Seq(Nat)]
  BY <1>1 DEF WordTable
<1>3. ASSUME NEW ps \in Seq(Phrase)
      PROVE  FlattenSeq(WordsIn(ps)) = Total(WordTable, ps)
  <2>1. \A k \in DOMAIN ps : ps[k] \in Phrase
    BY LenProperties, ElementOfSeq
  <2>2. WordsIn(ps) = Mapped(WordTable, ps)
    BY <2>1 DEF WordsIn, Mapped, WordTable
  <2> QED BY <2>2 DEF Total
<1>4. WordTable \in Tables(Phrase, Nat)
  BY <1>2 DEF Tables
<1>5. ASSUME NEW p \in Phrase PROVE Total(WordTable, <<p>>) = p.words
  <2>1. Total(WordTable, <<p>>) = WordTable[p]
    BY <1>4, TotalOne
  <2> QED BY <2>1 DEF WordTable
<1> QED BY <1>3, <1>4, <1>5 DEF WordTable

\* The words of phrase i of phrases that have the words up to n.
LEMMA PhraseHas ==
  ASSUME NEW n \in Nat, NEW ps \in Seq(Phrase), Total(WordTable, ps) = Upto(n),
         NEW i \in 1 .. Len(ps)
  PROVE  \E a \in Nat, m \in Nat, r \in Nat :
           /\ a + m + r = n
           /\ Total(WordTable, SubSeq(ps, 1, i - 1)) = From(0, a)
           /\ ps[i].words = From(a, m)
           /\ Total(WordTable, SubSeq(ps, i + 1, Len(ps))) = From(a + m, r)
<1>1. PICK b \in Seq(Phrase), o \in Seq(Phrase), c \in Seq(Phrase) :
        b = SubSeq(ps, 1, i - 1) /\ o = <<ps[i]>> /\ c = SubSeq(ps, i + 1, Len(ps))
  BY SplitAt
<1>2. ps = Cat(b, Cat(o, c))
  BY <1>1, SplitAt
<1>3. PICK d \in Seq(Phrase) : d = Cat(o, c)
  BY CatIs
<1>4. ps[i] \in Phrase
  BY ElementOfSeq
<1>5. PICK B \in Seq(Nat), O \in Seq(Nat), C \in Seq(Nat), D \in Seq(Nat) :
        /\ B = Total(WordTable, b) /\ O = Total(WordTable, o) /\ C = Total(WordTable, c)
        /\ D = Total(WordTable, d)
  BY WordTableIs, TotalType
<1>6. O = ps[i].words
  BY <1>1, <1>4, <1>5, WordTableIs
<1>7. D = Cat(O, C)
  BY <1>3, <1>5, WordTableIs, TotalCat
<1>8. Upto(n) = Cat(B, D)
  BY <1>2, <1>3, <1>5, WordTableIs, TotalCat
<1>9. Upto(n) = From(0, n)
  BY DEF Upto, From
<1>10. PICK a \in Nat, k \in Nat : a + k = n /\ B = From(0, a) /\ D = From(0 + a, k)
  <2>1. Cat(B, D) = From(0, n) /\ 0 \in Nat
    BY <1>8, <1>9
  <2> QED BY <2>1, CatFrom
<1>11. Cat(O, C) = From(a, k)
  BY <1>7, <1>10
<1>12. PICK m \in Nat, r \in Nat : m + r = k /\ O = From(a, m) /\ C = From(a + m, r)
  BY <1>11, CatFrom
<1>13. a + m + r = n
  BY <1>10, <1>12
<1> QED BY <1>1, <1>5, <1>6, <1>10, <1>12, <1>13

\* The phrases whose words are in U.
PhrasesOf(U) == {p \in Phrase : p.words \in Seq(U)}

\* Phrases whose words together are in U have only such words.
LEMMA PhrasesHave ==
  ASSUME NEW U, NEW ps \in Seq(Phrase), Total(WordTable, ps) \in Seq(U)
  PROVE  ps \in Seq(PhrasesOf(U))
<1>1. ASSUME NEW i \in 1 .. Len(ps) PROVE ps[i] \in PhrasesOf(U)
  <2>1. PICK b \in Seq(Phrase), o \in Seq(Phrase), c \in Seq(Phrase) :
          b = SubSeq(ps, 1, i - 1) /\ o = <<ps[i]>> /\ c = SubSeq(ps, i + 1, Len(ps))
    BY SplitAt
  <2>2. ps = Cat(b, Cat(o, c))
    BY <2>1, SplitAt
  <2>3. PICK d \in Seq(Phrase) : d = Cat(o, c)
    BY CatIs
  <2>4. ps[i] \in Phrase
    BY ElementOfSeq
  <2>5. PICK B \in Seq(Nat), O \in Seq(Nat), C \in Seq(Nat), D \in Seq(Nat) :
          /\ B = Total(WordTable, b) /\ O = Total(WordTable, o) /\ C = Total(WordTable, c)
          /\ D = Total(WordTable, d)
    BY WordTableIs, TotalType
  <2>6. O = ps[i].words
    BY <2>1, <2>4, <2>5, WordTableIs
  <2>7. D = Cat(O, C)
    BY <2>3, <2>5, WordTableIs, TotalCat
  <2>8. Total(WordTable, ps) = Cat(B, D)
    BY <2>2, <2>3, <2>5, WordTableIs, TotalCat
  <2>9. D \in Seq(U)
    <3>1. Cat(B, D) \in Seq(U)
      BY <2>8
    <3> QED BY <3>1, CatIn
  <2>10. O \in Seq(U)
    BY <2>7, <2>9, CatIn
  <2> QED BY <2>4, <2>6, <2>10 DEF PhrasesOf
<1>2. PICK n \in Nat : n = Len(ps)
  BY LenProperties
<1>3. ps \in [1 .. n -> PhrasesOf(U)]
  BY <1>1, <1>2, LenProperties
<1> QED BY <1>3

\* A silence is the segment of no word.
LEMMA SilenceIs == Silence \in Segment /\ Silence \in SegmentsIn({0}) /\ <<Silence>> \in Seq(SegmentsIn({0}))
<1>1. Silence \in SegmentsIn({0}) /\ Silence \in Segment
  BY DEF Silence, Segment, SegmentsIn
<1>2. PICK T : T = SegmentsIn({0})
  OBVIOUS
<1>3. <<Silence>> \in Seq(T)
  BY <1>1, <1>2
<1> QED BY <1>1, <1>2, <1>3

\* More words have more segments.
LEMMA SegmentsGrow ==
  ASSUME NEW U, NEW V, U \subseteq V
  PROVE  SegmentsIn(U) \subseteq SegmentsIn(V) /\ SegmentsIn(V) \subseteq Segment
BY DEF SegmentsIn

\* The segments of phrases are of their words, or silences.
LEMMA PhraseTablesAre ==
  ASSUME NEW f \in Tables(Nat, Segment)
  PROVE  /\ PhraseTable(f) \in Tables(Phrase, Segment)
         /\ PausedTable(f) \in Tables(Phrase, Segment)
<1>1. ASSUME NEW p \in Phrase PROVE Total(f, p.words) \in Seq(Segment)
  <2>1. p.words \in Seq(Nat)
    BY DEF Phrase
  <2> QED BY <2>1, TotalType
<1>2. ASSUME NEW p \in Phrase
      PROVE  (IF Total(f, p.words) = <<>> THEN <<>> ELSE Append(Total(f, p.words), Silence))
               \in Seq(Segment)
  <2>1. <<>> \in Seq(Segment)
    BY EmptySeq
  <2>2. Append(Total(f, p.words), Silence) \in Seq(Segment)
    BY <1>1, SilenceIs, CatOne
  <2> QED BY <2>1, <2>2
<1>3. PICK Q : Q = Seq(Segment)
  OBVIOUS
<1>4. PhraseTable(f) \in [Phrase -> Q]
  BY <1>1, <1>3 DEF PhraseTable
<1>5. PausedTable(f) \in [Phrase -> Q]
  BY <1>2, <1>3 DEF PausedTable
<1> QED BY <1>3, <1>4, <1>5 DEF Tables

\* The segments of phrases are of their words; with the silences, of word 0 as well.
LEMMA SegmentsOfPhrases ==
  ASSUME NEW n \in Nat, NEW f, Sounding(f, n), NEW U, U \subseteq 1 .. n,
         NEW ps \in Seq(Phrase), Total(WordTable, ps) \in Seq(U)
  PROVE  /\ Total(PhraseTable(f), ps) \in Seq(SegmentsIn(U))
         /\ Total(PausedTable(f), ps) \in Seq(SegmentsIn(U \cup {0}))
<1>1. PICK T, R : T = SegmentsIn(U) /\ R = SegmentsIn(U \cup {0})
  OBVIOUS
<1>2. T \subseteq R
  BY <1>1, SegmentsGrow
<1>3. Silence \in R
  BY <1>1, SilenceIs DEF SegmentsIn
<1>4. ASSUME NEW w \in U PROVE f[w] \in Seq(T)
  <2>1. w \in 1 .. n
    OBVIOUS
  <2>2. f[w] \in Seq(SegmentsIn({w}))
    BY <2>1 DEF Sounding
  <2>3. SegmentsIn({w}) \subseteq T
    BY <1>1 DEF SegmentsIn
  <2> QED BY <2>2, <2>3, SeqMonotonic
<1>5. ASSUME NEW p \in PhrasesOf(U)
      PROVE  p \in Phrase /\ Total(f, p.words) \in Seq(T)
  <2>1. p.words \in Seq(U) /\ p \in Phrase
    BY DEF PhrasesOf
  <2>2. PICK ws \in Seq(U) : ws = p.words
    BY <2>1
  <2>3. Total(f, ws) \in Seq(T)
    BY <1>4, TotalIn
  <2> QED BY <2>1, <2>2, <2>3
<1>6. ps \in Seq(PhrasesOf(U))
  BY PhrasesHave
<1>7. ASSUME NEW p \in PhrasesOf(U) PROVE PhraseTable(f)[p] \in Seq(T)
  BY <1>5 DEF PhraseTable
<1>8. ASSUME NEW p \in PhrasesOf(U) PROVE PausedTable(f)[p] \in Seq(R)
  <2>1. PICK y : y = Total(f, p.words)
    OBVIOUS
  <2>2. y \in Seq(R)
    BY <1>2, <1>5, <2>1, SeqMonotonic
  <2>3. Append(y, Silence) \in Seq(R)
    BY <1>3, <2>2, CatOne
  <2>4. PausedTable(f)[p] = IF y = <<>> THEN <<>> ELSE Append(y, Silence)
    BY <1>5, <2>1 DEF PausedTable
  <2> QED BY <2>2, <2>3, <2>4
<1>9. Total(PhraseTable(f), ps) \in Seq(T)
  BY <1>6, <1>7, TotalIn
<1>10. Total(PausedTable(f), ps) \in Seq(R)
  BY <1>6, <1>8, TotalIn
<1> QED BY <1>1, <1>9, <1>10

\* The segments of the words of phrases are the segments of the phrases.
LEMMA SegmentsByPhrase ==
  ASSUME NEW f \in Tables(Nat, Segment), NEW ps \in Seq(Phrase)
  PROVE  Total(f, Total(WordTable, ps)) = Total(PhraseTable(f), ps)
<1>1. PICK g : g = PhraseTable(f)
  OBVIOUS
<1>2. PICK h : h = WordTable
  OBVIOUS
<1>3. g \in Tables(Phrase, Segment) /\ h \in Tables(Phrase, Nat)
  BY <1>1, <1>2, PhraseTablesAre, WordTableIs
<1> DEFINE G == {x \in Seq(Phrase) : Total(f, Total(h, x)) = Total(g, x)}
<1>4. <<>> \in G
  <2>1. Total(h, <<>>) = <<>> /\ Total(g, <<>>) = <<>> /\ Total(f, <<>>) = <<>>
    BY TotalNone
  <2> QED BY <2>1, EmptySeq
<1>5. ASSUME NEW x \in G, NEW p \in Phrase PROVE Append(x, p) \in G
  <2>1. x \in Seq(Phrase) /\ Total(f, Total(h, x)) = Total(g, x)
    OBVIOUS
  <2>2. PICK y \in Seq(Nat), ws \in Seq(Nat) : y = Total(h, x) /\ ws = p.words
    <3>1. Total(h, x) \in Seq(Nat)
      BY <1>3, <2>1, TotalType
    <3>2. p.words \in Seq(Nat)
      BY DEF Phrase
    <3> QED BY <3>1, <3>2
  <2>3. Total(h, Append(x, p)) = Cat(y, ws)
    <3>1. Total(h, Append(x, p)) = Total(h, x) \o h[p]
      BY <1>3, <2>1, TotalAppend
    <3>2. h[p] = ws
      BY <1>2, <2>2 DEF WordTable
    <3> QED BY <2>2, <3>1, <3>2 DEF Cat
  <2>4. Total(f, Cat(y, ws)) = Cat(Total(f, y), Total(f, ws))
    BY TotalCat
  <2>5. Total(g, Append(x, p)) = Cat(Total(g, x), Total(f, ws))
    <3>1. Total(g, Append(x, p)) = Total(g, x) \o g[p]
      BY <1>3, <2>1, TotalAppend
    <3>2. g[p] = Total(f, ws)
      BY <1>1, <2>2 DEF PhraseTable
    <3> QED BY <3>1, <3>2 DEF Cat
  <2>6. Append(x, p) \in Seq(Phrase)
    BY <2>1, AppendProperties
  <2>7. Total(f, Total(h, Append(x, p))) = Total(g, Append(x, p))
    BY <2>1, <2>2, <2>3, <2>4, <2>5
  <2> QED BY <2>6, <2>7
<1>6. G \in SUBSET Seq(Phrase)
  OBVIOUS
<1> HIDE DEF G
<1>7. G = Seq(Phrase)
  BY <1>4, <1>5, <1>6, SeqSetInduction
<1> QED BY <1>1, <1>2, <1>7 DEF G

\* What PausesNext does to the segments of phrase i.
LEMMA Pausing ==
  ASSUME NEW n \in Nat, NEW f, Sounding(f, n),
         NEW ps \in Seq(Phrase), Total(WordTable, ps) = Upto(n), NEW i \in 1 .. Len(ps),
         segments = PausedTo(f, ps, i)
  PROVE  \/ SilencePlaces(ps[i]) = {} /\ PausedTo(f, ps, i + 1) = segments
         \/ \E c : /\ SilencePlaces(ps[i]) = {c}
                   /\ InsertAt(segments, 1 + c, Silence) = PausedTo(f, ps, i + 1)
<1>1. PICK b \in Seq(Phrase), o \in Seq(Phrase), c \in Seq(Phrase) :
        b = SubSeq(ps, 1, i - 1) /\ o = <<ps[i]>> /\ c = SubSeq(ps, i + 1, Len(ps))
  BY SplitAt
<1>2. SubSeq(ps, i, Len(ps)) = Cat(o, c) /\ SubSeq(ps, 1, i) = Cat(b, o)
  <2>1. SubSeq(ps, i, Len(ps)) = Cat(<<ps[i]>>, SubSeq(ps, i + 1, Len(ps)))
    BY SplitAt
  <2>2. SubSeq(ps, 1, i) = Cat(SubSeq(ps, 1, i - 1), <<ps[i]>>)
    BY SplitAt
  <2> QED BY <1>1, <2>1, <2>2
<1>3. PICK a \in Nat, m \in Nat, r \in Nat :
        /\ a + m + r = n
        /\ Total(WordTable, b) = From(0, a)
        /\ ps[i].words = From(a, m)
        /\ Total(WordTable, c) = From(a + m, r)
  <2>1. \E a \in Nat, m \in Nat, r \in Nat :
          /\ a + m + r = n
          /\ Total(WordTable, SubSeq(ps, 1, i - 1)) = From(0, a)
          /\ ps[i].words = From(a, m)
          /\ Total(WordTable, SubSeq(ps, i + 1, Len(ps))) = From(a + m, r)
    BY PhraseHas
  <2> QED BY <1>1, <2>1
<1>4. f \in Tables(Nat, Segment)
  BY DEF Sounding
<1>5. PICK g, h : g = PhraseTable(f) /\ h = PausedTable(f)
  OBVIOUS
<1>6. g \in Tables(Phrase, Segment) /\ h \in Tables(Phrase, Segment)
  BY <1>4, <1>5, PhraseTablesAre
<1>7. PICK p \in Phrase : p = ps[i]
  BY ElementOfSeq
<1>8. PICK y : y = Total(f, From(a, m))
  OBVIOUS
<1>9. g[p] = y /\ h[p] = IF y = <<>> THEN <<>> ELSE Append(y, Silence)
  BY <1>3, <1>5, <1>7, <1>8 DEF PhraseTable, PausedTable
<1>10. PICK s : s = <<Silence>>
  OBVIOUS
<1>11. s \in Seq(SegmentsIn({0})) /\ s \in Seq(Segment)
  <2>1. SegmentsIn({0}) \subseteq Segment
    BY SegmentsGrow
  <2> QED BY <1>10, <2>1, SilenceIs, SeqMonotonic
<1>12. PICK B, z : B = Total(h, b) /\ z = Total(g, c)
  OBVIOUS
<1>13. PICK x : x = Cat(s, B)
  OBVIOUS
<1>14. x \in Seq(SegmentsIn(0 .. a))
  <2>1. From(0, a) \in Seq(0 + 1 .. 0 + a)
    BY FromGrows
  <2>2. PICK U : U = 1 .. a
    OBVIOUS
  <2>3. 0 + 1 .. 0 + a = U /\ U \subseteq 1 .. n
    BY <1>3, <2>2
  <2>4. Total(WordTable, b) \in Seq(U)
    BY <1>3, <2>1, <2>3
  <2>5. B \in Seq(SegmentsIn(U \cup {0}))
    BY <1>5, <1>12, <2>3, <2>4, SegmentsOfPhrases
  <2>6. U \cup {0} = 0 .. a /\ {0} \subseteq 0 .. a
    BY <2>2
  <2>7. PICK T : T = SegmentsIn(0 .. a)
    OBVIOUS
  <2>8. B \in Seq(T)
    BY <2>5, <2>6, <2>7
  <2>9. s \in Seq(T)
    <3>1. SegmentsIn({0}) \subseteq T
      BY <2>6, <2>7, SegmentsGrow
    <3> QED BY <1>11, <3>1, SeqMonotonic
  <2>10. Cat(s, B) \in Seq(T)
    BY <2>8, <2>9, CatIs
  <2> QED BY <1>13, <2>7, <2>10
<1>15. z \in Seq(SegmentsIn(a + m + 1 .. n))
  <2>1. PICK d \in Nat : d = a + m
    OBVIOUS
  <2>2. From(d, r) \in Seq(d + 1 .. d + r)
    BY FromGrows
  <2>3. PICK U : U = d + 1 .. d + r
    OBVIOUS
  <2>4. U = a + m + 1 .. n /\ U \subseteq 1 .. n
    BY <1>3, <2>1, <2>3
  <2>5. Total(WordTable, c) \in Seq(U)
    BY <1>3, <2>1, <2>2, <2>3
  <2>6. Total(PhraseTable(f), c) \in Seq(SegmentsIn(U))
    BY <2>4, <2>5, SegmentsOfPhrases
  <2> QED BY <1>5, <1>12, <2>4, <2>6
<1>16. PICK X \in Seq(Segment), Y \in Seq(Segment), Z \in Seq(Segment), D \in Seq(Segment) :
         X = x /\ Y = y /\ Z = z /\ D = B
  <2>1. SegmentsIn(0 .. a) \subseteq Segment /\ SegmentsIn(a + m + 1 .. n) \subseteq Segment
    BY SegmentsGrow
  <2>2. From(a, m) \in Seq(Nat)
    BY FromGrows
  <2>3. y \in Seq(Segment)
    BY <1>4, <1>8, <2>2, TotalType
  <2>4. B \in Seq(Segment)
    BY <1>6, <1>12, TotalType
  <2> QED BY <1>14, <1>15, <2>1, <2>3, <2>4, SeqMonotonic
<1>17. segments = Cat(X, Cat(Y, Z))
  <2>1. Total(g, Cat(o, c)) = Cat(Total(g, o), Total(g, c))
    BY <1>6, TotalCat
  <2>2. Total(g, <<p>>) = g[p]
    BY <1>6, TotalOne
  <2>3. Total(g, Cat(o, c)) = Cat(Y, Z)
    BY <1>1, <1>7, <1>9, <1>12, <1>16, <2>1, <2>2
  <2> QED BY <1>1, <1>2, <1>5, <1>10, <1>12, <1>13, <1>16, <2>3 DEF PausedTo
<1>18. PICK W \in Seq(Segment) : W = h[p]
  BY <1>6, TableHas
<1>19. PausedTo(f, ps, i + 1) = Cat(X, Cat(W, Z))
  <2>1. (i + 1) - 1 = i
    OBVIOUS
  <2>2. Total(h, Cat(b, o)) = Cat(Total(h, b), Total(h, o))
    BY <1>6, TotalCat
  <2>3. Total(h, <<p>>) = h[p]
    BY <1>6, TotalOne
  <2>4. Total(h, SubSeq(ps, 1, (i + 1) - 1)) = Cat(D, W)
    BY <1>1, <1>2, <1>7, <1>12, <1>16, <1>18, <2>1, <2>2, <2>3
  <2>5. PausedTo(f, ps, i + 1) = Cat(Cat(s, Cat(D, W)), Z)
    BY <1>1, <1>5, <1>10, <1>12, <1>16, <2>4 DEF PausedTo
  <2>6. Cat(s, Cat(D, W)) = Cat(X, W)
    <3>1. Cat(Cat(s, D), W) = Cat(s, Cat(D, W))
      BY <1>11, CatAssociative
    <3> QED BY <1>13, <1>16, <3>1
  <2>7. Cat(Cat(X, W), Z) = Cat(X, Cat(W, Z))
    BY CatAssociative
  <2> QED BY <2>5, <2>6, <2>7
<1>20. SilencePlaces(ps[i]) = IF y = <<>> THEN {} ELSE {Len(x) + Len(y)}
  <2>1. m = 0 \/ a + m \in 1 .. n
    BY <1>3
  <2>2. segments = Cat(x, Cat(y, z))
    BY <1>16, <1>17
  <2>3. p.words = From(a, m)
    BY <1>3, <1>7
  <2>4. Around(f, n, a, m, x, y, z)
    BY <1>8, <1>14, <1>15, <2>1, <2>2 DEF Around
  <2>5. SilencePlaces(p) = IF y = <<>> THEN {} ELSE {Len(x) + Len(y)}
    BY <2>3, <2>4, Placed
  <2> QED BY <1>7, <2>5
<1>21. CASE y = <<>>
  BY <1>9, <1>16, <1>17, <1>18, <1>19, <1>20, <1>21
<1>22. CASE y # <<>>
  <2>1. W = Append(Y, Silence)
    BY <1>9, <1>16, <1>18, <1>22
  <2>2. InsertAt(Cat(X, Cat(Y, Z)), 1 + (Len(X) + Len(Y)), Silence) = Cat(X, Cat(Append(Y, Silence), Z))
    BY SilenceIs, Inserted
  <2>3. InsertAt(segments, 1 + (Len(X) + Len(Y)), Silence) = PausedTo(f, ps, i + 1)
    BY <1>17, <1>19, <2>1, <2>2
  <2>4. SilencePlaces(ps[i]) = {Len(X) + Len(Y)}
    BY <1>16, <1>20, <1>22
  <2> QED BY <2>3, <2>4
<1> QED BY <1>21, <1>22

-----------------------------------------------------------------------------
(* What lexlookup finds.                                                       *)

\* What a syllabifier makes of k phones does not end in an empty syllable, nor do the
\* phones left in one.
LEMMA SyllablesSound ==
  ASSUME NEW k \in Nat
  PROVE  Sounds(Syllables(k))
<1>1. CASE voice.syllab
  <2>1. PICK s : s = [j \in 1 .. k |-> 1]
    OBVIOUS
  <2>2. s \in [1 .. k -> Nat] /\ \A j \in 1 .. k : s[j] = 1
    BY <2>1
  <2>3. s \in Seq(Nat) /\ Len(s) = k
    BY <2>2
  <2>4. s # <<>> => Last(s) = 1
    <3>1. s # <<>> => k \in 1 .. k
      BY <2>3, EmptySeq
    <3> QED BY <2>2, <2>3, <3>1 DEF Last
  <2> QED BY <1>1, <2>1, <2>3, <2>4 DEF Syllables, Sounds
<1>2. CASE ~voice.syllab
  <2>1. <<k>> \in Seq(Nat) /\ Len(<<k>>) = 1
    OBVIOUS
  <2> QED BY <1>2, <2>1 DEF Syllables, Sounds
<1> QED BY <1>1, <1>2

\* Nor does what lexlookup finds, in the lexicon or by letter-to-sound rules.
LEMMA PronunciationSounds ==
  ASSUME LexiconsEnd, voice \in Voices, NEW name \in Seq(Chars)
  PROVE  Sounds(Pronunciation(name))
<1>1. CASE name \in DOMAIN voice.lexicon
  <2>1. PICK e : e = voice.lexicon[name]
    OBVIOUS
  <2>2. /\ e.phones \in Seq(Nat)
        /\ e.syllabified => e.phones = <<>> \/ Last(e.phones) # 0
        /\ ~e.syllabified => e.phones # <<>>
    BY <1>1, <2>1 DEF LexiconsEnd
  <2>3. Pronunciation(name) = IF e.syllabified THEN e.phones ELSE Syllables(e.phones[1])
    BY <1>1, <2>1 DEF Pronunciation
  <2>4. CASE e.syllabified
    BY <2>2, <2>3, <2>4 DEF Sounds
  <2>5. CASE ~e.syllabified
    <3>1. 1 \in 1 .. Len(e.phones)
      BY <2>2, <2>5, EmptySeq
    <3>2. e.phones[1] \in Nat
      BY <2>2, <3>1, ElementOfSeq
    <3> QED BY <2>3, <2>5, <3>2, SyllablesSound
  <2> QED BY <2>4, <2>5
<1>2. CASE name \notin DOMAIN voice.lexicon
  <2>1. Len(name) \in Nat
    BY LenProperties
  <2>2. Pronunciation(name) = Syllables(Len(name))
    BY <1>2 DEF Pronunciation
  <2> QED BY <2>1, <2>2, SyllablesSound
<1> QED BY <1>1, <1>2

\* The segments of a word of the utterance.
LEMMA WordSounds ==
  ASSUME LexiconsEnd, voice \in Voices, words \in Seq(Word), NEW w \in 1 .. Len(words)
  PROVE  /\ Sounds(PhonesOf(w))
         /\ SegmentTable[w] = SegmentsOf(w, PhonesOf(w))
         /\ SegmentTable[w] \in Seq(SegmentsIn({w}))
<1>1. words[w] \in Word
  BY ElementOfSeq
<1>2. words[w].name \in Seq(Chars)
  BY <1>1 DEF Word
<1>3. Sounds(PhonesOf(w))
  BY <1>2, PronunciationSounds DEF PhonesOf
<1>4. w \in Nat
  OBVIOUS
<1>5. SegmentTable[w] = SegmentsOf(w, PhonesOf(w))
  BY <1>4 DEF SegmentTable
<1>6. SegmentsOf(w, PhonesOf(w)) \in Seq(SegmentsIn({w}))
  BY <1>3, <1>4, SegmentsAre
<1> QED BY <1>3, <1>5, <1>6

\* A word has segments, and a number that is no word has none.
LEMMA SegmentTableIs ==
  ASSUME LexiconsEnd, voice \in Voices, words \in Seq(Word)
  PROVE  SegmentTable \in Tables(Nat, Segment)
<1>1. PICK Q : Q = Seq(Segment)
  OBVIOUS
<1>2. ASSUME NEW w \in Nat
      PROVE  (IF w \in 1 .. Len(words) THEN SegmentsOf(w, PhonesOf(w)) ELSE <<>>) \in Q
  <2>1. CASE w \in 1 .. Len(words)
    <3>1. SegmentsOf(w, PhonesOf(w)) \in Seq(SegmentsIn({w}))
      BY <2>1, WordSounds
    <3>2. SegmentsIn({w}) \subseteq Segment
      BY DEF SegmentsIn
    <3> QED BY <1>1, <2>1, <3>1, <3>2, SeqMonotonic
  <2>2. CASE w \notin 1 .. Len(words)
    BY <1>1, <2>2, EmptySeq
  <2> QED BY <2>1, <2>2
<1>3. SegmentTable \in [Nat -> Q]
  BY <1>2 DEF SegmentTable
<1> QED BY <1>1, <1>3 DEF Tables

\* When every word is looked up, pauses finds the last segment of each.
LEMMA LookedUpSounds ==
  ASSUME LexiconsEnd, voice \in Voices, words \in Seq(Word), NEW n \in Nat, n = Len(words),
         LookedUp(n)
  PROVE  Sounding(SegmentTable, n)
<1>1. PICK f : f = SegmentTable
  OBVIOUS
<1>2. f \in Tables(Nat, Segment)
  BY <1>1, SegmentTableIs
<1>3. DOMAIN sylStructure = 1 .. n
      /\ \A k \in 1 .. n : sylStructure[k].word = k /\ sylStructure[k].syls = PhonesOf(k)
  BY DEF LookedUp
<1>4. ASSUME NEW w \in 1 .. n, NEW s PROVE IsLastOf(s, w) <=> Ends(s, w, PhonesOf(w))
  BY <1>3 DEF IsLastOf, Ends
<1>5. ASSUME NEW w \in 1 .. n
      PROVE  /\ f[w] \in Seq(SegmentsIn({w}))
             /\ \A i \in 1 .. Len(f[w]) : IsLastOf(f[w][i], w) <=> i = Len(f[w])
  <2>1. w \in 1 .. Len(words) /\ w \in Nat
    OBVIOUS
  <2>2. Sounds(PhonesOf(w)) /\ f[w] = SegmentsOf(w, PhonesOf(w)) /\ f[w] \in Seq(SegmentsIn({w}))
    BY <1>1, <2>1, WordSounds
  <2>3. \A i \in 1 .. Len(f[w]) : Ends(f[w][i], w, PhonesOf(w)) <=> i = Len(f[w])
    <3>1. PICK syls : syls = PhonesOf(w)
      OBVIOUS
    <3>2. Sounds(syls)
      BY <2>2, <3>1
    <3>3. \A i \in 1 .. Len(SegmentsOf(w, syls)) :
            Ends(SegmentsOf(w, syls)[i], w, syls) <=> i = Len(SegmentsOf(w, syls))
      BY <2>1, <3>2, SegmentsAre
    <3> QED BY <2>2, <3>1, <3>3
  <2> QED BY <1>4, <2>2, <2>3
<1> QED BY <1>1, <1>2, <1>5 DEF Sounding

\* A step that changes neither voice nor words changes no pronunciation.
LEMMA TablesKept ==
  ASSUME UNCHANGED <<words, voice>>
  PROVE  /\ SegmentTable' = SegmentTable
         /\ UNCHANGED sylStructure => \A n : LookedUp(n)' <=> LookedUp(n)
         /\ UNCHANGED segments => \A n : Segmented(n)' <=> Segmented(n)
         /\ UNCHANGED <<segments, phrases>> => \A i : Paused(i)' <=> Paused(i)
<1>1. \A name : Pronunciation(name)' = Pronunciation(name)
  BY DEF Pronunciation, Syllables
<1>2. \A w : PhonesOf(w)' = PhonesOf(w)
  BY <1>1 DEF PhonesOf
<1>3. SegmentTable' = SegmentTable
  BY <1>2 DEF SegmentTable
<1>4. ASSUME UNCHANGED sylStructure, NEW n PROVE LookedUp(n)' <=> LookedUp(n)
  BY <1>2, <1>4 DEF LookedUp
<1>5. ASSUME UNCHANGED segments, NEW n PROVE Segmented(n)' <=> Segmented(n)
  BY <1>3, <1>5 DEF Segmented
<1>6. ASSUME UNCHANGED <<segments, phrases>>, NEW i PROVE Paused(i)' <=> Paused(i)
  BY <1>3, <1>6 DEF Paused
<1> QED BY <1>3, <1>4, <1>5, <1>6

-----------------------------------------------------------------------------
(* The invariant holds, step by step.                                          *)

\* A failure is never taken back.
LEMMA FailureStays ==
  ASSUME Tokenize \/ Normalize \/ Phrasify \/ LexLookup \/ Pauses, ~failed'
  PROVE  ~failed
<1>1. CASE Tokenize
  BY <1>1, Zenon DEF Tokenize, TokenizeStarts, TokenizeNext, TokenizeFails, TokenizeEnds, Loops,
     QuitError
<1>2. CASE Normalize
  BY <1>2, Zenon DEF Normalize, NormalizeStarts, NormalizeNext, NormalizeFails, NormalizeEnds,
     Loops, QuitError
<1>3. CASE Phrasify
  BY <1>3, Zenon DEF Phrasify, PhrasifyStarts, PhrasifyNext, PhrasifyFails, PhrasifyEnds, Loops,
     QuitError
<1>4. CASE LexLookup
  BY <1>4, Zenon DEF LexLookup, LexLookupStarts, LexLookupDowncase, LexLookupNext,
     LexLookupMissing, LexLookupFails, LexLookupEnds, Loops, QuitError
<1>5. CASE Pauses
  BY <1>5, Zenon DEF Pauses, PausesStarts, PausesNext, PausesFails, PausesEnds, Loops
<1> QED BY <1>1, <1>2, <1>3, <1>4, <1>5

\* The processors before lexlookup make no segments.
LEMMA EarlierSilent ==
  ASSUME Complete, SilenceInv, UNCHANGED voice, Tokenize \/ Normalize \/ Phrasify
  PROVE  SilenceInv'
<1>1. UNCHANGED <<sylStructure, segments>>
  <2>1. CASE Tokenize
    BY <2>1 DEF Tokenize, TokenizeStarts, TokenizeNext, TokenizeFails, TokenizeEnds, uttVars
  <2>2. CASE Normalize
    BY <2>2 DEF Normalize, NormalizeStarts, NormalizeNext, NormalizeFails, NormalizeEnds, uttVars
  <2>3. CASE Phrasify
    BY <2>3 DEF Phrasify, PhrasifyStarts, PhrasifyNext, PhrasifyFails, PhrasifyEnds, uttVars
  <2> QED BY <2>1, <2>2, <2>3
<1>2. proc \in 1 .. 3 /\ (proc' \in 0 .. 3 \/ (proc' = 4 /\ pc' = "start"))
  BY TokenizeGoes, NormalizeGoes, PhrasifyGoes
<1>3. ~failed' => ~failed
  BY FailureStays
<1>4. ~failed' => sylStructure' = <<>> /\ segments' = <<>>
  BY <1>1, <1>2, <1>3 DEF SilenceInv
<1>5. (voice \in Voices)'
  BY DEF SilenceInv
<1> QED BY <1>2, <1>4, <1>5 DEF SilenceInv

\* Lexlookup appends the segments of the word it is at.
LEMMA WordLookedUp ==
  ASSUME LexiconsEnd, voice \in Voices, words \in Seq(Word), NEW n \in 1 .. Len(words), n = at,
         LookedUp(at - 1), Segmented(at - 1), LexLookupNext, UNCHANGED voice
  PROVE  LookedUp(n)' /\ Segmented(n)'
<1>1. PICK k \in Nat : k = at - 1 /\ at = k + 1 /\ n = k + 1
  OBVIOUS
<1>2. PICK S : S = PhonesOf(at)
  OBVIOUS
<1>3. /\ sylStructure' = Append(sylStructure, [word |-> at, syls |-> S])
      /\ segments' = segments \o SegmentsOf(at, S)
      /\ UNCHANGED words
  BY <1>2 DEF LexLookupNext, PhonesOf
<1>4. SegmentTable' = SegmentTable /\ \A w : PhonesOf(w)' = PhonesOf(w)
  <2>1. \A name : Pronunciation(name)' = Pronunciation(name)
    BY DEF Pronunciation, Syllables
  <2>2. \A w : PhonesOf(w)' = PhonesOf(w)
    BY <1>3, <2>1 DEF PhonesOf
  <2> QED BY <1>3, <2>2, TablesKept
<1>5. PICK e : e = [w \in 1 .. k + 1 |-> [word |-> w, syls |-> PhonesOf(w)]]
  OBVIOUS
<1>6. sylStructure' = e
  <2>1. PICK V : V = {[word |-> w, syls |-> PhonesOf(w)] : w \in 1 .. k + 1}
    OBVIOUS
  <2>2. PICK s : s = [w \in 1 .. k |-> [word |-> w, syls |-> PhonesOf(w)]]
    OBVIOUS
  <2>3. s \in [1 .. k -> V] /\ \A w \in 1 .. k : s[w] = [word |-> w, syls |-> PhonesOf(w)]
    BY <2>1, <2>2
  <2>4. s \in Seq(V) /\ Len(s) = k
    BY <2>3
  <2>5. PICK x \in V : x = [word |-> k + 1, syls |-> PhonesOf(k + 1)]
    <3>1. k + 1 \in 1 .. k + 1
      OBVIOUS
    <3> QED BY <2>1, <3>1
  <2>6. PICK u : u = Append(s, x)
    OBVIOUS
  <2>7. u \in Seq(V) /\ Len(u) = k + 1 /\ (\A w \in 1 .. k : u[w] = s[w]) /\ u[k + 1] = x
    BY <2>4, <2>6, AppendProperties
  <2>8. u \in [1 .. k + 1 -> V]
    BY <2>7, LenProperties
  <2>9. ASSUME NEW w \in 1 .. k + 1 PROVE u[w] = [word |-> w, syls |-> PhonesOf(w)]
    <3>1. w \in 1 .. k \/ w = k + 1
      OBVIOUS
    <3> QED BY <2>3, <2>5, <2>7, <3>1
  <2>10. u = e
    BY <1>5, <2>8, <2>9
  <2>11. sylStructure = s
    BY <1>1, <2>2 DEF LookedUp
  <2>12. sylStructure' = u
    BY <1>1, <1>2, <1>3, <2>5, <2>6, <2>11
  <2> QED BY <2>10, <2>12
<1>7. LookedUp(n)'
  <2>1. e = [w \in 1 .. n |-> [word |-> w, syls |-> PhonesOf(w)']]
    BY <1>1, <1>4, <1>5
  <2> QED BY <1>6, <2>1 DEF LookedUp
<1>8. segments' = Total(SegmentTable, Upto(k + 1))
  <2>1. PICK f : f = SegmentTable
    OBVIOUS
  <2>2. f \in Tables(Nat, Segment)
    BY <2>1, SegmentTableIs
  <2>3. PICK u \in Seq(Nat) : u = Upto(k) /\ Append(u, k + 1) = Upto(k + 1)
    BY UptoGrows
  <2>4. PICK j \in Nat : j = k + 1
    OBVIOUS
  <2>5. Total(f, Append(u, j)) = Total(f, u) \o f[j]
    BY <2>2, TotalAppend
  <2>6. f[j] = SegmentsOf(at, S)
    BY <1>1, <1>2, <2>1, <2>4, WordSounds
  <2>7. segments = Total(f, u)
    BY <1>1, <2>1, <2>3 DEF Segmented
  <2> QED BY <1>3, <2>1, <2>3, <2>4, <2>5, <2>6, <2>7
<1> QED BY <1>1, <1>4, <1>7, <1>8 DEF Segmented

\* The invariant where the control is.
LEMMA StageKept ==
  /\ \A k : k = at' - 1 /\ LookedUp(k)' /\ Segmented(k)' => (LookedUp(at - 1) /\ Segmented(at - 1))'
  /\ \A k : k = Len(words)' /\ LookedUp(k)' => LookedUp(Len(words))'
  /\ \A k : k = Len(words)' /\ Segmented(k)' => Segmented(Len(words))'
  /\ \A i : i = at' /\ Paused(i)' => Paused(at)'
  /\ \A i : i = Len(phrases)' + 1 /\ Paused(i)' => Paused(Len(phrases) + 1)'
BY DEF LookedUp, Segmented, Paused

\* Lexlookup.
LEMMA LexLookupSilent ==
  ASSUME Complete, LexiconsEnd, words \in Seq(Word), SilenceInv, UNCHANGED voice, LexLookup
  PROVE  SilenceInv'
<1>1. UNCHANGED <<words, phrases>>
  BY LaterLeave
<1>2. PICK n \in Nat : n = Len(words)
  BY LenProperties
<1>3. proc = 4
  BY RunsAt DEF LexLookup, LexLookupStarts, LexLookupDowncase, LexLookupNext, LexLookupMissing,
     LexLookupFails, LexLookupEnds
<1>4. voice \in Voices /\ (voice \in Voices)'
  BY DEF SilenceInv
<1> SUFFICES ASSUME ~failed' PROVE SilenceInv'
  BY <1>4 DEF SilenceInv
<1>5. ~failed
  BY FailureStays
<1> DEFINE Stage == /\ proc' = 4 /\ pc' # "start" /\ (pc' = "lookup" => at' <= n)
                    /\ at' \in 1 .. n + 1 /\ (LookedUp(at - 1) /\ Segmented(at - 1))'
<1>6. Stage => SilenceInv'
  BY <1>1, <1>2, <1>4 DEF SilenceInv
<1> HIDE DEF Stage
<1>7. ASSUME proc' = 4, pc' # "start", UNCHANGED <<sylStructure, segments, at>>, pc # "start",
             pc' = "lookup" => at <= n
      PROVE  Stage
  <2>1. at \in 1 .. n + 1 /\ LookedUp(at - 1) /\ Segmented(at - 1)
    BY <1>2, <1>3, <1>5, <1>7 DEF SilenceInv
  <2>2. PICK k : k = at - 1
    OBVIOUS
  <2>3. LookedUp(k)' /\ Segmented(k)'
    BY <1>1, <1>7, <2>1, <2>2, TablesKept
  <2>4. k = at' - 1
    BY <1>7, <2>2
  <2>5. (LookedUp(at - 1) /\ Segmented(at - 1))'
    BY <2>3, <2>4, StageKept
  <2> QED BY <1>7, <2>1, <2>5 DEF Stage
<1>8. CASE LexLookupStarts
  <2>1. /\ pc = "start" /\ proc' = 4 /\ pc' = "word" /\ at' = 1
        /\ UNCHANGED <<sylStructure, segments>>
    <3>1. pc = "start" /\ UNCHANGED <<sylStructure, segments>>
      BY <1>8, RunsAt DEF LexLookupStarts, uttVars
    <3>2. Loops("word", 1)
      BY <1>8, Zenon DEF LexLookupStarts, QuitError
    <3> QED BY <1>3, <3>1, <3>2, Goes
  <2>2. sylStructure = <<>> /\ segments = <<>>
    BY <1>3, <1>5, <2>1 DEF SilenceInv
  <2>3. LookedUp(0)
    BY <2>2 DEF LookedUp
  <2>4. Segmented(0)
    <3>1. Upto(0) = <<>>
      BY DEF Upto
    <3> QED BY <2>2, <3>1, TotalNone DEF Segmented
  <2>5. LookedUp(0)' /\ Segmented(0)'
    BY <1>1, <2>1, <2>3, <2>4, TablesKept
  <2>6. 0 = at' - 1
    BY <2>1
  <2>7. (LookedUp(at - 1) /\ Segmented(at - 1))'
    BY <2>5, <2>6, StageKept
  <2>8. pc' # "start" /\ pc' # "lookup" /\ at' \in 1 .. n + 1
    BY <2>1
  <2> QED BY <1>6, <2>1, <2>7, <2>8 DEF Stage
<1>9. CASE LexLookupDowncase
  <2>1. /\ pc = "word" /\ pc' = "lookup" /\ proc' = 4 /\ at <= n
        /\ UNCHANGED <<sylStructure, segments, at>>
    BY <1>2, <1>3, <1>9, RunsAt DEF LexLookupDowncase, uttVars
  <2>2. pc # "start" /\ pc' # "start"
    BY <2>1
  <2> QED BY <1>6, <1>7, <2>1, <2>2
<1>10. CASE LexLookupMissing
  <2>1. /\ pc = "lookup" /\ pc' = "word" /\ proc' = 4
        /\ UNCHANGED <<sylStructure, segments, at>>
    BY <1>3, <1>10, RunsAt DEF LexLookupMissing, uttVars
  <2>2. pc # "start" /\ pc' # "start" /\ pc' # "lookup"
    BY <2>1
  <2> QED BY <1>6, <1>7, <2>1, <2>2
<1>11. CASE LexLookupNext
  <2>1. pc = "lookup" /\ pc' = "word" /\ proc' = 4 /\ at' = at + 1
    BY <1>3, <1>11, RunsAt DEF LexLookupNext, Loops
  <2>2. pc # "start" /\ pc' # "start" /\ pc' # "lookup"
    BY <2>1
  <2>3. at \in 1 .. n + 1 /\ LookedUp(at - 1) /\ Segmented(at - 1) /\ at <= n
    BY <1>2, <1>3, <1>5, <2>1, <2>2 DEF SilenceInv
  <2>4. PICK w \in 1 .. Len(words) : w = at
    BY <1>2, <2>3
  <2>5. LookedUp(w)' /\ Segmented(w)'
    BY <1>4, <1>11, <2>3, <2>4, WordLookedUp
  <2>6. w = at' - 1
    BY <2>1, <2>4
  <2>7. (LookedUp(at - 1) /\ Segmented(at - 1))'
    BY <2>5, <2>6, StageKept
  <2>8. at' \in 1 .. n + 1
    BY <2>1, <2>3
  <2> QED BY <1>6, <2>1, <2>2, <2>7, <2>8 DEF Stage
<1>12. CASE LexLookupFails
  BY <1>12, Zenon DEF LexLookupFails, QuitError
<1>13. CASE LexLookupEnds
  <2>1. /\ pc = "word" /\ at > n /\ Returns(FALSE)
        /\ UNCHANGED <<sylStructure, segments>>
    BY <1>2, <1>13, RunsAt DEF LexLookupEnds, uttVars
  <2>2. proc' = 5 /\ pc' = "start"
    BY <1>3, <2>1 DEF Returns
  <2>3. pc # "start"
    BY <2>1
  <2>4. at \in 1 .. n + 1 /\ LookedUp(at - 1) /\ Segmented(at - 1)
    BY <1>2, <1>3, <1>5, <2>3 DEF SilenceInv
  <2>5. at - 1 = n
    BY <2>1, <2>4
  <2>6. LookedUp(n)' /\ Segmented(n)'
    BY <1>1, <2>1, <2>4, <2>5, TablesKept
  <2>7. n = Len(words)'
    BY <1>1, <1>2
  <2>8. LookedUp(Len(words))' /\ Segmented(Len(words))'
    BY <2>6, <2>7, StageKept
  <2> QED BY <1>4, <2>2, <2>8 DEF SilenceInv
<1> QED BY <1>3, <1>8, <1>9, <1>10, <1>11, <1>12, <1>13 DEF LexLookup

\* What pauses has of the phrases that phrasify has made.
LEMMA PhrasedWords ==
  ASSUME Phrased
  PROVE  phrases \in Seq(Phrase) /\ Total(WordTable, phrases) = Upto(Len(words))
<1>1. phrases \in Seq(Phrase) /\ FlattenSeq(WordsIn(phrases)) = Upto(Len(words))
  BY DEF Phrased, Partition
<1> QED BY <1>1, WordTableIs

\* The silence before everything.
LEMMA FirstPause ==
  ASSUME NEW f \in Tables(Nat, Segment), NEW ps \in Seq(Phrase), NEW n \in Nat,
         Total(WordTable, ps) = Upto(n)
  PROVE  <<Silence>> \o Total(f, Upto(n)) = PausedTo(f, ps, 1)
<1>1. Total(f, Upto(n)) = Total(PhraseTable(f), ps)
  BY SegmentsByPhrase
<1>2. SubSeq(ps, 1, 1 - 1) = <<>>
  BY SubSeqEmpty
<1>3. SubSeq(ps, 1, Len(ps)) = ps
  BY SubSeqFull
<1>4. Total(PausedTable(f), <<>>) = <<>>
  BY TotalNone
<1>5. <<Silence>> \in Seq(Segment)
  BY SilenceIs
<1>6. Cat(<<Silence>>, <<>>) = <<Silence>>
  BY <1>5, CatNone
<1>7. PausedTo(f, ps, 1) = Cat(<<Silence>>, Total(PhraseTable(f), ps))
  BY <1>2, <1>3, <1>4, <1>6 DEF PausedTo
<1> QED BY <1>1, <1>7 DEF Cat

\* Pauses.
LEMMA PausesSilent ==
  ASSUME Complete, LexiconsEnd, TextInv, SilenceInv, UNCHANGED voice, Pauses
  PROVE  SilenceInv'
<1>1. UNCHANGED <<words, phrases>>
  BY LaterLeave
<1>2. words \in Seq(Word)
  BY DEF TextInv, SpellInv
<1>3. PICK n \in Nat : n = Len(words)
  BY <1>2, LenProperties
<1>4. proc = 5
  BY RunsAt DEF Pauses, PausesStarts, PausesNext, PausesFails, PausesEnds
<1>5. voice \in Voices /\ (voice \in Voices)'
  BY DEF SilenceInv
<1> SUFFICES ASSUME ~failed' PROVE SilenceInv'
  BY <1>5 DEF SilenceInv
<1>6. ~failed
  BY FailureStays
<1>7. UNCHANGED <<sylStructure, rels>>
  BY DEF Pauses, PausesStarts, PausesNext, PausesFails, PausesEnds, uttVars
<1>8. LookedUp(n)
  BY <1>3, <1>4, <1>6 DEF SilenceInv
<1>9. LookedUp(Len(words))'
  <2>1. LookedUp(n)'
    BY <1>1, <1>7, <1>8, TablesKept
  <2> QED BY <1>1, <1>3, <2>1, StageKept
<1>10. PICK f : f = SegmentTable /\ f = SegmentTable'
  BY <1>1, TablesKept
<1>11. f \in Tables(Nat, Segment) /\ Sounding(f, n)
  BY <1>2, <1>3, <1>5, <1>8, <1>10, SegmentTableIs, LookedUpSounds
<1>12. PICK ps : ps = phrases
  OBVIOUS
<1>13. "Phrase" \in rels => ps \in Seq(Phrase) /\ Total(WordTable, ps) = Upto(n) /\ Len(ps) \in Nat
  <2> SUFFICES ASSUME "Phrase" \in rels
               PROVE  ps \in Seq(Phrase) /\ Total(WordTable, ps) = Upto(n) /\ Len(ps) \in Nat
    OBVIOUS
  <2>1. Phrased
    BY <1>4 DEF TextInv, PhrasesControl
  <2>2. ps \in Seq(Phrase) /\ Total(WordTable, ps) = Upto(n)
    BY <1>3, <1>12, <2>1, PhrasedWords
  <2> QED BY <2>2, LenProperties
<1>14. CASE PausesStarts
  <2>1. /\ pc = "start" /\ "Phrase" \in rels
        /\ segments' = <<Silence>> \o segments /\ Loops("loop", 1)
    BY <1>14, RunsAt DEF PausesStarts
  <2>2. Segmented(n)
    BY <1>3, <1>4, <1>6, <2>1 DEF SilenceInv
  <2>3. segments' = PausedTo(f, ps, 1)
    <3>1. segments = Total(f, Upto(n))
      BY <1>10, <2>2 DEF Segmented
    <3>2. <<Silence>> \o Total(f, Upto(n)) = PausedTo(f, ps, 1)
      BY <1>11, <1>13, <2>1, FirstPause
    <3> QED BY <2>1, <3>1, <3>2
  <2>4. proc' = 5 /\ pc' = "loop" /\ at' = 1
    BY <1>4, <2>1, Goes
  <2>5. Paused(at)'
    BY <1>1, <1>10, <1>12, <2>3, <2>4 DEF Paused
  <2>6. at' \in 1 .. Len(phrases)' + 1
    BY <1>1, <1>12, <1>13, <2>1, <2>4
  <2>7. pc' # "start" /\ proc' # 4 /\ proc' \notin 1 .. 3 /\ proc' # 6
    BY <2>4
  <2> QED BY <1>5, <1>7, <1>9, <2>1, <2>4, <2>5, <2>6, <2>7 DEF SilenceInv
<1>15. CASE PausesNext
  <2>1. pc = "loop" /\ at <= Len(phrases) /\ Loops("loop", at + 1)
    BY <1>15, RunsAt DEF PausesNext
  <2>2. at \in 1 .. Len(phrases) + 1 /\ Paused(at) /\ "Phrase" \in rels
    BY <1>4, <1>6, <2>1 DEF SilenceInv
  <2>3. PICK i \in 1 .. Len(ps) : i = at
    BY <1>12, <1>13, <2>1, <2>2
  <2>4. segments = PausedTo(f, ps, i)
    BY <1>10, <1>12, <2>2, <2>3 DEF Paused
  <2>5. \/ SilencePlaces(ps[i]) = {} /\ PausedTo(f, ps, i + 1) = segments
        \/ \E c : /\ SilencePlaces(ps[i]) = {c}
                  /\ InsertAt(segments, 1 + c, Silence) = PausedTo(f, ps, i + 1)
    BY <1>11, <1>13, <2>2, <2>4, Pausing
  <2>6. segments' = PausedTo(f, ps, i + 1)
    <3>1. PICK P : P = SilencePlaces(ps[i])
      OBVIOUS
    <3>2. IF P = {} THEN UNCHANGED segments
          ELSE segments' = InsertAt(segments, 1 + CHOOSE c \in P : TRUE, Silence)
      BY <1>12, <1>15, <2>3, <3>1 DEF PausesNext
    <3>3. CASE P = {}
      BY <2>5, <3>1, <3>2, <3>3
    <3>4. CASE P # {}
      <4>1. PICK c : P = {c} /\ InsertAt(segments, 1 + c, Silence) = PausedTo(f, ps, i + 1)
        BY <2>5, <3>1, <3>4
      <4>2. (CHOOSE d \in P : TRUE) = c
        BY <4>1
      <4> QED BY <3>2, <3>4, <4>1, <4>2
    <3> QED BY <3>3, <3>4
  <2>7. proc' = 5 /\ pc' = "loop" /\ at' = i + 1
    BY <1>4, <2>1, <2>3, Goes
  <2>8. Paused(at)'
    BY <1>1, <1>10, <1>12, <2>6, <2>7 DEF Paused
  <2>9. at' \in 1 .. Len(phrases)' + 1
    BY <1>1, <1>12, <1>13, <2>2, <2>3, <2>7
  <2>10. pc' # "start" /\ proc' # 4 /\ proc' \notin 1 .. 3 /\ proc' # 6
    BY <2>7
  <2> QED BY <1>5, <1>7, <1>9, <2>2, <2>7, <2>8, <2>9, <2>10 DEF SilenceInv
<1>16. CASE PausesFails
  BY <1>16 DEF PausesFails
<1>17. CASE PausesEnds
  <2>1. pc = "loop" /\ at > Len(phrases) /\ Returns(FALSE) /\ UNCHANGED segments
    BY <1>17, RunsAt DEF PausesEnds, uttVars
  <2>2. at \in 1 .. Len(phrases) + 1 /\ Paused(at) /\ "Phrase" \in rels
    BY <1>4, <1>6, <2>1 DEF SilenceInv
  <2>3. at = Len(ps) + 1
    BY <1>12, <1>13, <2>1, <2>2
  <2>4. proc' = 6
    BY <1>4, <2>1 DEF Returns
  <2>5. PICK i : i = at
    OBVIOUS
  <2>6. Paused(i)'
    BY <1>1, <2>1, <2>2, <2>5, TablesKept
  <2>7. i = Len(phrases)' + 1
    BY <1>1, <1>12, <2>3, <2>5
  <2>8. Paused(Len(phrases) + 1)'
    BY <2>6, <2>7, StageKept
  <2>9. proc' # 4 /\ proc' # 5 /\ proc' \notin 1 .. 3
    BY <2>4
  <2> QED BY <1>5, <1>7, <2>2, <2>4, <2>8, <2>9 DEF SilenceInv
<1> QED BY <1>14, <1>15, <1>16, <1>17 DEF Pauses

\* The invariant is inductive.
LEMMA SilenceStep ==
  ASSUME Complete, LexiconsEnd, TextInv, SilenceInv, [Next]_vars
  PROVE  SilenceInv'
<1>1. words \in Seq(Word)
  BY DEF TextInv, SpellInv
<1>2. CASE Next
  BY <1>1, <1>2, EarlierSilent, LexLookupSilent, PausesSilent DEF Next
<1>3. CASE UNCHANGED vars
  <2>1. /\ UNCHANGED <<voice, proc, pc, at, failed, rels>>
        /\ UNCHANGED <<words, phrases, sylStructure, segments>>
    BY <1>3, Zenon DEF vars, uttVars
  <2>2. SegmentTable' = SegmentTable /\ \A w : PhonesOf(w)' = PhonesOf(w)
    <3>1. \A name : Pronunciation(name)' = Pronunciation(name)
      BY <2>1 DEF Pronunciation, Syllables
    <3>2. \A w : PhonesOf(w)' = PhonesOf(w)
      BY <2>1, <3>1 DEF PhonesOf
    <3> QED BY <2>1, <3>2, TablesKept
  <2> QED BY <2>1, <2>2 DEF SilenceInv, LookedUp, Segmented, Paused
<1> QED BY <1>2, <1>3

\* What the segments are once the silences are in.
LEMMA PausesAre ==
  ASSUME LexiconsEnd, voice \in Voices, words \in Seq(Word), Phrased, Paused(Len(phrases) + 1)
  PROVE  segments = <<Silence>> \o
           FlattenSeq([k \in DOMAIN phrases |->
             IF PhraseSegments(phrases[k]) = <<>> THEN PhraseSegments(phrases[k])
             ELSE Append(PhraseSegments(phrases[k]), Silence)])
<1>1. PICK f, ps : f = SegmentTable /\ ps = phrases
  OBVIOUS
<1>2. f \in Tables(Nat, Segment)
  BY <1>1, SegmentTableIs
<1>3. PICK n \in Nat : n = Len(words)
  BY LenProperties
<1>4. ps \in Seq(Phrase) /\ Total(WordTable, ps) = Upto(n)
  BY <1>1, <1>3, PhrasedWords
<1>5. PICK m \in Nat : m = Len(ps) /\ DOMAIN ps = 1 .. m
  BY <1>4, LenProperties
<1>6. PICK h : h = PausedTable(f)
  OBVIOUS
<1>7. h \in Tables(Phrase, Segment)
  BY <1>2, <1>6, PhraseTablesAre
<1>8. segments = Cat(<<Silence>>, Total(h, ps))
  <2>1. segments = PausedTo(f, ps, m + 1)
    BY <1>1, <1>5 DEF Paused
  <2>2. SubSeq(ps, 1, (m + 1) - 1) = ps
    <3>1. (m + 1) - 1 = m
      OBVIOUS
    <3> QED BY <1>4, <1>5, <3>1, SubSeqFull
  <2>3. SubSeq(ps, m + 1, m) = <<>>
    BY SubSeqEmpty
  <2>4. Total(PhraseTable(f), <<>>) = <<>>
    BY TotalNone
  <2>5. PICK x : x = Cat(<<Silence>>, Total(h, ps))
    OBVIOUS
  <2>6. x \in Seq(Segment)
    <3>1. <<Silence>> \in Seq(Segment)
      BY SilenceIs
    <3>2. Total(h, ps) \in Seq(Segment)
      BY <1>4, <1>7, TotalType
    <3> QED BY <2>5, <3>1, <3>2, CatIs
  <2>7. Cat(x, <<>>) = x
    BY <2>6, CatNone
  <2> QED BY <1>5, <1>6, <2>1, <2>2, <2>3, <2>4, <2>5, <2>7 DEF PausedTo
<1>9. ASSUME NEW k \in 1 .. m PROVE ps[k] \in Phrase /\ PhraseSegments(ps[k]) = Total(f, ps[k].words)
  <2>1. k \in 1 .. Len(ps)
    BY <1>5
  <2>2. PICK a \in Nat, l \in Nat, r \in Nat :
          /\ a + l + r = n
          /\ Total(WordTable, SubSeq(ps, 1, k - 1)) = From(0, a)
          /\ ps[k].words = From(a, l)
          /\ Total(WordTable, SubSeq(ps, k + 1, Len(ps))) = From(a + l, r)
    BY <1>4, <2>1, PhraseHas
  <2>3. PICK ws : ws = ps[k].words
    OBVIOUS
  <2>4. DOMAIN ws = 1 .. l /\ \A j \in 1 .. l : ws[j] \in 1 .. n
    BY <2>2, <2>3 DEF From
  <2>5. ASSUME NEW j \in 1 .. l
        PROVE  f[ws[j]] = SegmentsOf(ws[j], Pronunciation(words[ws[j]].name))
    <3>1. PICK w \in 1 .. Len(words) : w = ws[j]
      BY <1>3, <2>4
    <3>2. SegmentTable[w] = SegmentsOf(w, PhonesOf(w))
      BY WordSounds
    <3> QED BY <1>1, <3>1, <3>2 DEF PhonesOf
  <2>6. [j \in DOMAIN ws |-> SegmentsOf(ws[j], Pronunciation(words[ws[j]].name))] = Mapped(f, ws)
    BY <2>4, <2>5 DEF Mapped
  <2>7. PhraseSegments(ps[k]) =
          FlattenSeq([j \in DOMAIN ws |-> SegmentsOf(ws[j], Pronunciation(words[ws[j]].name))])
    BY <2>3 DEF PhraseSegments
  <2>8. ps[k] \in Phrase
    BY <1>4, <2>1, ElementOfSeq
  <2> QED BY <2>3, <2>6, <2>7, <2>8 DEF Total
<1>10. [k \in DOMAIN phrases |->
          IF PhraseSegments(phrases[k]) = <<>> THEN PhraseSegments(phrases[k])
          ELSE Append(PhraseSegments(phrases[k]), Silence)] = Mapped(h, ps)
  <2>1. ASSUME NEW k \in 1 .. m
        PROVE  h[ps[k]] = IF PhraseSegments(ps[k]) = <<>> THEN PhraseSegments(ps[k])
                          ELSE Append(PhraseSegments(ps[k]), Silence)
    BY <1>6, <1>9 DEF PausedTable
  <2> QED BY <1>1, <1>5, <2>1 DEF Mapped
<1> QED BY <1>8, <1>10 DEF Total, Cat

\* Once pauses has succeeded the segments are those of the words, in order, with a
\* silence before everything and one after each phrase that has segments: the search
\* backwards of pauses_proc.c for a word with segments stays in its phrase and finds its
\* end, whatever silences the phrases before have already moved it by.
THEOREM PausesBetweenPhrases ==
  ASSUME Complete, LexiconsEnd
  PROVE  Spec => []SilenceBetween
<1> DEFINE Inv == TextInv /\ SilenceInv
<1>1. Init => Inv
  <2> SUFFICES ASSUME Init PROVE Inv
    OBVIOUS
  <2>1. SilenceInv
    BY DEF Init, SilenceInv
  <2> QED BY <2>1, TextInit
<1>2. Inv /\ [Next]_vars => Inv'
  BY TextStep, SilenceStep
<1>3. Inv => SilenceBetween
  <2> SUFFICES ASSUME Inv, Succeeded, Past("Pauses") PROVE SilenceBetween
    BY DEF SilenceBetween
  <2>1. proc = 6 /\ ~failed
    <3>1. proc \in 0 .. 6
      BY DEF TextInv, SpellInv
    <3>2. proc > 5
      BY DEF Succeeded, Complete
    <3> QED BY <3>1, <3>2 DEF Succeeded
  <2>2. voice \in Voices /\ Paused(Len(phrases) + 1) /\ "Phrase" \in rels
    BY <2>1 DEF SilenceInv
  <2>3. words \in Seq(Word) /\ Phrased
    BY <2>1, <2>2 DEF TextInv, SpellInv, PhrasesControl
  <2>4. segments = <<Silence>> \o
          FlattenSeq([k \in DOMAIN phrases |->
            IF PhraseSegments(phrases[k]) = <<>> THEN PhraseSegments(phrases[k])
            ELSE Append(PhraseSegments(phrases[k]), Silence)])
    BY <2>2, <2>3, PausesAre
  <2> QED BY <2>4 DEF SilenceBetween
<1> HIDE DEF Inv
<1>4. Spec => []Inv
  BY <1>1, <1>2, PTL DEF Spec
<1> QED BY <1>3, <1>4, PTL
=============================================================================
