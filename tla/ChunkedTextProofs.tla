------------------------- MODULE ChunkedTextProofs -------------------------
(***************************************************************************)
(* Theorems about ChunkedText, for every alphabet, every text and every    *)
(* choice of the chunk sizes: the phrases are the text, none is too short  *)
(* and, where the client does not pause, none ends inside a word that      *)
(* could have been kept whole.                                             *)
(***************************************************************************)
EXTENDS ChunkedText, ChunkerProofs

-----------------------------------------------------------------------------
\* The invariant.

PhraseRecord == [text : Seq(Alphabet), forced : BOOLEAN, rest : BOOLEAN]

TextTypeOK ==
  /\ text \in Seq(Alphabet) /\ arrived \in 0..Len(text)
  /\ buffer \in Seq(Alphabet)
  /\ phrases \in Seq(PhraseRecord)
  /\ mode \in {"receive", "done"} \cup Committing

\* The cut is at a space or a mark, or no space was in reach.
WellCut(cut) ==
  \/ GoodEnd(Last(cut))
  \/ /\ Len(cut) = kHardMaximum
     /\ \A p \in (kMinimumChunk + 1)..kHardMaximum : ~AsciiSpace(cut[p])

\* WordsKept does not look at the last phrase, but the next step may make it
\* the one before the last.
CutsWell ==
  \A i \in 1..Len(phrases) : WellCut(phrases[i].text) \/ phrases[i].rest

TextInv == TextTypeOK /\ Reconstructs /\ PhraseSizes /\ CutsWell

Texts(sequence) == [i \in 1..Len(sequence) |-> sequence[i].text]

LEMMA AlphabetOfStrings ==
  ASSUME NEW b \in Seq(Alphabet)
  PROVE  b \in Seq(STRING)
BY TextAssumption, SeqMonotonic

LEMMA FlatGrows ==
  ASSUME NEW ps \in Seq(PhraseRecord),
         NEW phrase \in PhraseRecord
  PROVE  /\ FlattenSeq(Texts(ps)) \in Seq(Alphabet)
         /\ FlattenSeq(Texts(Append(ps, phrase))) = FlattenSeq(Texts(ps)) \o phrase.text
<1>1. Texts(ps) \in Seq(Seq(Alphabet)) /\ phrase.text \in Seq(Alphabet)
  <2> DEFINE P == PhraseRecord
             Q == Seq(Alphabet)
  <2>1. \A p \in P : p.text \in Q
    BY DEF PhraseRecord
  <2>2. ps \in Seq(P) /\ phrase \in P
    OBVIOUS
  <2> HIDE DEF P, Q
  <2>3. Len(ps) \in Nat /\ \A i \in 1..Len(ps) : ps[i].text \in Q
    BY <2>1, <2>2
  <2>4. Texts(ps) \in Seq(Q) /\ phrase.text \in Q
    BY <2>1, <2>2, <2>3 DEF Texts
  <2> QED
    BY <2>4 DEF Q
<1>2. Texts(Append(ps, phrase)) = Append(Texts(ps), phrase.text)
  BY DEF Texts
<1> QED
  BY <1>1, <1>2, FlattenAppend

LEMMA FlatTyped == TextTypeOK => FlattenSeq(Texts(phrases)) \in Seq(Alphabet)
<1> SUFFICES ASSUME TextTypeOK PROVE FlattenSeq(Texts(phrases)) \in Seq(Alphabet)
  OBVIOUS
<1>1. PICK ps \in Seq(PhraseRecord) : ps = phrases
  BY DEF TextTypeOK
<1>2. [text |-> <<>>, forced |-> FALSE, rest |-> FALSE] \in PhraseRecord
  BY DEF PhraseRecord
<1> QED
  BY <1>1, <1>2, FlatGrows

LEMMA Regroup ==
  ASSUME NEW a \in Seq(Alphabet), NEW b \in Seq(Alphabet), NEW c \in Seq(Alphabet)
  PROVE  (a \o b) \o c = a \o (b \o c)
BY ConcatAssociative

LEMMA SplitAt ==
  ASSUME NEW b \in Seq(Alphabet), NEW n \in 1..Len(b)
  PROVE  /\ SubSeq(b, 1, n) \in Seq(Alphabet) /\ Len(SubSeq(b, 1, n)) = n
         /\ \A i \in 1..n : SubSeq(b, 1, n)[i] = b[i]
         /\ SubSeq(b, n + 1, Len(b)) \in Seq(Alphabet)
         /\ SubSeq(b, 1, n) \o SubSeq(b, n + 1, Len(b)) = b
<1>1. Len(b) \in Nat /\ 1 \in 1..(Len(b) + 1) /\ n \in 0..Len(b) /\ Len(b) \in n..Len(b)
  OBVIOUS
<1>2. SubSeq(b, 1, n) \o SubSeq(b, n + 1, Len(b)) = SubSeq(b, 1, Len(b))
  BY <1>1, ConcatAdjacentSubSeq
<1>3. SubSeq(b, 1, Len(b)) = b
  BY SubSeqFull
<1>4. SubSeq(b, 1, n) \in Seq(Alphabet) /\ SubSeq(b, n + 1, Len(b)) \in Seq(Alphabet)
  BY <1>1
<1>5. Len(SubSeq(b, 1, n)) = n /\ \A i \in 1..n : SubSeq(b, 1, n)[i] = b[i]
  BY <1>1
<1> QED
  BY <1>2, <1>3, <1>4, <1>5

LEMMA InitText == Init => TextInv
<1> SUFFICES ASSUME Init PROVE TextInv
  OBVIOUS
<1>1. PICK n \in 1..MaxText : text \in [1..n -> Alphabet]
  BY DEF Init
<1>2. n \in Nat
  BY TextAssumption
<1>3. text \in Seq(Alphabet) /\ Len(text) = n
  BY <1>1, <1>2
<1>4. TextTypeOK
  BY <1>2, <1>3 DEF Init, TextTypeOK
<1>5. Reconstructs
  <2>1. FlattenSeq([i \in 1..Len(phrases) |-> phrases[i].text]) = <<>>
    <3>1. [i \in 1..0 |-> <<>>[i].text] = <<>>
      OBVIOUS
    <3>2. FlattenSeq(<<>>) = <<>>
      BY DEF FlattenSeq
    <3> QED
      BY <3>1, <3>2 DEF Init
  <2>2. SubSeq(text, 1, 0) = <<>>
    BY <1>3
  <2>3. <<>> \o <<>> = <<>>
    OBVIOUS
  <2> QED
    BY <2>1, <2>2, <2>3 DEF Init, Reconstructs
<1>6. PhraseSizes /\ CutsWell
  BY ChunkSizesAssumption DEF Init, PhraseSizes, CutsWell
<1> QED
  BY <1>4, <1>5, <1>6 DEF TextInv

LEMMA AppendFragmentKeeps ==
  ASSUME TextInv, NEW n \in 1..MaxText, AppendFragment(n)
  PROVE  TextInv'
<1> USE DEF AppendFragment
<1>1. /\ text \in Seq(Alphabet) /\ arrived \in 0..Len(text) /\ buffer \in Seq(Alphabet)
      /\ n \in Nat /\ arrived + n \in 0..Len(text)
  BY TextAssumption DEF TextInv, TextTypeOK
<1> DEFINE piece == SubSeq(text, arrived + 1, arrived + n)
<1>2. piece \in Seq(Alphabet)
  BY <1>1
<1>3. TextTypeOK'
  BY <1>1, <1>2 DEF TextInv, TextTypeOK, Committing
<1>4. Reconstructs'
  <2> DEFINE flat == FlattenSeq([i \in 1..Len(phrases) |-> phrases[i].text])
  <2>1. flat \in Seq(Alphabet) /\ flat \o buffer = SubSeq(text, 1, arrived)
    BY FlatTyped DEF TextInv, Reconstructs, Texts
  <2> HIDE DEF flat, piece
  <2>2. (flat \o buffer) \o piece = flat \o (buffer \o piece)
    BY <1>1, <1>2, <2>1, Regroup
  <2>3. SubSeq(text, 1, arrived) \o piece = SubSeq(text, 1, arrived + n)
    BY <1>1, ConcatAdjacentSubSeq DEF piece
  <2>4. flat \o buffer' = SubSeq(text, 1, arrived')
    BY <2>1, <2>2, <2>3 DEF piece
  <2> QED
    BY <2>4 DEF flat, Reconstructs
<1>5. PhraseSizes'
  BY DEF TextInv, PhraseSizes
<1>6. CutsWell'
  BY DEF TextInv, CutsWell
<1> QED
  BY <1>3, <1>4, <1>5, <1>6 DEF TextInv

LEMMA CutPhraseKeeps ==
  ASSUME TextInv, CutPhrase
  PROVE  TextInv'
<1> USE DEF CutPhrase
<1>1. PICK n : n = NextBytes
  OBVIOUS
<1> DEFINE piece == SubSeq(buffer, 1, n)
           rest == SubSeq(buffer, n + 1, Len(buffer))
           phrase == Phrase(n)
<1>2. /\ text \in Seq(Alphabet) /\ arrived \in 0..Len(text) /\ buffer \in Seq(Alphabet)
      /\ buffer \in Seq(STRING) /\ Forced \in BOOLEAN
      /\ phrases \in Seq(PhraseRecord)
  BY AlphabetOfStrings DEF TextInv, TextTypeOK, Forced
<1>3. n \in 1..Len(buffer)
  <2>1. n \in 0..Len(buffer)
    BY <1>1, <1>2, ChunkWithinBuffer DEF NextBytes
  <2> QED
    BY <1>1, <2>1
<1>4. /\ piece \in Seq(Alphabet) /\ Len(piece) = n
      /\ \A i \in 1..n : piece[i] = buffer[i]
      /\ rest \in Seq(Alphabet) /\ piece \o rest = buffer
  BY <1>2, <1>3, SplitAt
<1>5. phrases' = Append(phrases, phrase) /\ buffer' = rest
  BY <1>1
<1>6. phrase \in PhraseRecord
  BY <1>2, <1>4 DEF Phrase, PhraseRecord
<1>8. /\ phrase.text = piece /\ phrase.forced = Forced
      /\ phrase.rest = (Forced /\ n = Len(buffer))
  BY DEF Phrase
<1> HIDE DEF piece, rest, phrase
<1>7. /\ Len(phrases') = Len(phrases) + 1 /\ phrases'[Len(phrases) + 1] = phrase
      /\ \A i \in 1..Len(phrases) : phrases'[i] = phrases[i]
      /\ phrases' \in Seq(PhraseRecord)
      /\ Len(phrases) \in Nat
  <2> DEFINE P == PhraseRecord
  <2>1. phrases \in Seq(P) /\ phrase \in P
    BY <1>2, <1>6
  <2> HIDE DEF P
  <2>2. /\ Len(Append(phrases, phrase)) = Len(phrases) + 1
        /\ Append(phrases, phrase)[Len(phrases) + 1] = phrase
        /\ \A i \in 1..Len(phrases) : Append(phrases, phrase)[i] = phrases[i]
        /\ Append(phrases, phrase) \in Seq(P)
        /\ Len(phrases) \in Nat
    BY <2>1
  <2> QED
    BY <1>5, <2>2 DEF P
<1>9. TextTypeOK'
  BY <1>4, <1>5, <1>7 DEF TextInv, TextTypeOK
<1>10. Reconstructs'
  <2>1. PICK flat : flat = FlattenSeq(Texts(phrases))
    OBVIOUS
  <2>2. flat \in Seq(Alphabet) /\ flat \o buffer = SubSeq(text, 1, arrived)
    BY <2>1, FlatTyped DEF TextInv, Reconstructs, Texts
  <2>3. FlattenSeq(Texts(phrases')) = flat \o piece
    BY <1>2, <1>5, <1>6, <1>8, <2>1, FlatGrows
  <2>4. (flat \o piece) \o rest = flat \o (piece \o rest)
    BY <1>4, <2>2, Regroup
  <2>5. FlattenSeq(Texts(phrases')) \o buffer' = SubSeq(text', 1, arrived')
    BY <1>4, <1>5, <2>2, <2>3, <2>4
  <2>6. mode' # "done"
    BY DEF Committing
  <2> QED
    BY <2>5, <2>6 DEF Reconstructs, Texts
<1>11. PhraseSizes'
  <2>1. Forced \/ n >= kMinimumChunk
    BY <1>1, <1>2, <1>3, ChunkSizes DEF NextBytes
  <2>2. ASSUME NEW i \in 1..Len(phrases')
        PROVE  phrases'[i].forced \/ Len(phrases'[i].text) >= kMinimumChunk
    <3>1. CASE i = Len(phrases) + 1
      BY <1>4, <1>7, <1>8, <2>1, <3>1
    <3>2. CASE i # Len(phrases) + 1
      <4>1. i \in 1..Len(phrases)
        BY <1>7, <3>2
      <4> QED
        BY <1>7, <4>1 DEF TextInv, PhraseSizes
    <3> QED
      BY <3>1, <3>2
  <2> QED
    BY <2>2 DEF PhraseSizes, Committing
<1>12. CutsWell'
  <2>1. WellCut(piece) \/ phrase.rest
    <3>1. \/ GoodEnd(buffer[n])
          \/ /\ n = kHardMaximum /\ Len(buffer) >= kHardMaximum
             /\ \A p \in (kMinimumChunk + 1)..kHardMaximum : ~AsciiSpace(buffer[p])
          \/ Forced /\ n = Len(buffer)
      <4>1. n = NextChunkBytes(buffer, Forced) /\ n # 0
        BY <1>1, <1>3 DEF NextBytes
      <4> QED
        BY <1>2, <4>1, ChunkEnds
    <3>2. piece[n] = buffer[n] /\ Last(piece) = buffer[n]
      BY <1>3, <1>4 DEF Last
    <3>3. n = kHardMaximum =>
            \A p \in (kMinimumChunk + 1)..kHardMaximum : piece[p] = buffer[p]
      BY <1>4, ChunkSizesAssumption
    <3> QED
      BY <1>4, <1>8, <3>1, <3>2, <3>3 DEF WellCut
  <2>2. ASSUME NEW i \in 1..Len(phrases')
        PROVE  WellCut(phrases'[i].text) \/ phrases'[i].rest
    <3>1. CASE i = Len(phrases) + 1
      BY <1>7, <1>8, <2>1, <3>1
    <3>2. CASE i # Len(phrases) + 1
      <4>1. i \in 1..Len(phrases)
        BY <1>7, <3>2
      <4> QED
        BY <1>7, <4>1 DEF TextInv, CutsWell
    <3> QED
      BY <3>1, <3>2
  <2> QED
    BY <2>2 DEF CutsWell, WellCut
<1> QED
  BY <1>9, <1>10, <1>11, <1>12 DEF TextInv

LEMMA CutEndsKeeps ==
  ASSUME TextInv, CutEnds
  PROVE  TextInv'
<1> USE DEF CutEnds
<1>1. buffer \in Seq(STRING) /\ Forced \in BOOLEAN
  BY AlphabetOfStrings DEF TextInv, TextTypeOK, Forced
<1>2. Forced => buffer = <<>>
  BY <1>1, ChunkWithinBuffer DEF NextBytes
<1>3. Len(buffer) < kHardMaximum
  BY <1>1, ChunkSizes DEF NextBytes
<1>4. TextTypeOK'
  BY DEF TextInv, TextTypeOK
<1>5. Reconstructs'
  BY <1>2 DEF TextInv, Reconstructs, Forced
<1>6. PhraseSizes'
  BY <1>3 DEF TextInv, PhraseSizes
<1>7. CutsWell'
  BY DEF TextInv, CutsWell, WellCut
<1> QED
  BY <1>4, <1>5, <1>6, <1>7 DEF TextInv

\* [Next]_vars keeps it, so it holds always.
THEOREM TextExact == Spec => []TextInv
<1>1. ASSUME TextInv, [Next]_vars PROVE TextInv'
  <2>1. ASSUME NEW n \in 1..MaxText, AppendFragment(n) PROVE TextInv'
    BY <1>1, <2>1, AppendFragmentKeeps
  <2>2. CASE PauseFlush \/ Finish
    BY <1>1, <2>2
      DEF PauseFlush, Finish, TextInv, TextTypeOK, Reconstructs, PhraseSizes, CutsWell, WellCut,
          Committing
  <2>3. CASE CutPhrase
    BY <1>1, <2>3, CutPhraseKeeps
  <2>4. CASE CutEnds
    BY <1>1, <2>4, CutEndsKeeps
  <2>5. CASE UNCHANGED vars
    BY <1>1, <2>5 DEF vars, TextInv, TextTypeOK, Reconstructs, PhraseSizes, CutsWell, WellCut
  <2>6. CASE Done
    BY <2>5, <2>6 DEF Done
  <2> QED
    BY <1>1, <2>1, <2>2, <2>3, <2>4, <2>5, <2>6 DEF Next
<1> QED
  BY <1>1, InitText, PTL DEF Spec

\* Nothing of a text is lost, repeated or reordered, whichever rule cuts it.
THEOREM NothingLost == Spec => []Reconstructs
BY TextExact, PTL DEF TextInv

\* Between fragments little waits, and only a pause or the end cuts off short
\* phrases.
THEOREM SizesKept == Spec => []PhraseSizes
BY TextExact, PTL DEF TextInv

\* A phrase ends inside a word only where the client paused or where no space
\* was in reach.
THEOREM WordsStayWhole == Spec => []WordsKept
<1>1. TextInv => WordsKept
  BY DEF TextInv, TextTypeOK, CutsWell, WordsKept, WellCut, GoodEnd
<1> QED
  BY <1>1, TextExact, PTL
=============================================================================
