---------------------------- MODULE ChunkerProofs ----------------------------
(***************************************************************************)
(* Where PhraseChunker may cut: never past the end of the buffer, and when *)
(* it is forced always somewhere.  For every text and every choice of the  *)
(* three chunk sizes.                                                      *)
(***************************************************************************)
EXTENDS Chunker, FiniteSetTheorems, SequenceTheorems, WellFoundedInduction, TLAPS

\* The least number of a set is the one whose initial segment is smallest.
LEMMA LeastNumber ==
  ASSUME NEW S, S \subseteq Nat, S # {}
  PROVE  Min(S) \in S /\ \A y \in S : Min(S) <= y
<1> DEFINE R == StrictSubsetOrdering(Nat)
           Segments == {0..x : x \in S}
<1>1. Segments \subseteq FiniteSubsetsOf(Nat)
  <2>1. \A x \in S : IsFiniteSet(0..x) /\ 0..x \in SUBSET Nat
    BY FS_Interval
  <2> QED
    BY <2>1 DEF FiniteSubsetsOf
<1>2. PICK T \in Segments : \A U \in Segments : <<U, T>> \notin R
  <2>1. Segments # {}
    OBVIOUS
  <2> HIDE DEF Segments, R
  <2> QED
    BY <1>1, <2>1, FS_StrictSubsetOrderingWellFounded, WFMin DEF R
<1>3. PICK x \in S : T = 0..x
  OBVIOUS
<1>4. ASSUME NEW y \in S, y < x PROVE FALSE
  <2>1. 0..y \in Segments /\ 0..y \subseteq 0..x /\ x \notin 0..y /\ x \in 0..x
    BY <1>4
  <2>2. <<0..y, T>> \in R
    BY <1>1, <1>3, <2>1 DEF StrictSubsetOrdering, FiniteSubsetsOf
  <2> QED
    BY <1>2, <2>1, <2>2
<1>5. \A y \in S : x <= y
  BY <1>4
<1> QED
  BY <1>5 DEF Min

\* The greatest number of a bounded set, by its distance from the bound.
LEMMA GreatestNumber ==
  ASSUME NEW n \in Nat, NEW S, S \subseteq 0..n, S # {}
  PROVE  Max(S) \in S
<1> DEFINE D == {n - x : x \in S}
<1>1. D \subseteq Nat /\ D # {}
  <2>1. \A x \in S : n - x \in Nat
    OBVIOUS
  <2>2. PICK x \in S : TRUE
    OBVIOUS
  <2>3. n - x \in D
    BY <2>2
  <2> QED
    BY <2>1, <2>3
<1>2. PICK d \in D : \A e \in D : d <= e
  <2> HIDE DEF D
  <2> QED
    BY <1>1, LeastNumber
<1>3. PICK x \in S : d = n - x
  OBVIOUS
<1>4. \A y \in S : x >= y
  BY <1>2, <1>3
<1> QED
  BY <1>4 DEF Max

-----------------------------------------------------------------------------
\* The ways to cut, one after another.

LEMMA IncludeFollowingSpaceWithin ==
  ASSUME NEW text \in Seq(STRING), NEW end \in 1..Len(text)
  PROVE  IncludeFollowingSpace(text, end) \in end..Len(text)
<1> DEFINE I == {i \in (end + 1)..Len(text) : ~AsciiSpace(text[i])}
           next == IF I # {} THEN Min(I) ELSE 0
<1>1. IncludeFollowingSpace(text, end) = IF next = 0 THEN Len(text) ELSE next - 1
  BY DEF IncludeFollowingSpace, SelectInSubSeq
<1>2. I # {} => Min(I) \in (end + 1)..Len(text)
  <2>1. I \subseteq Nat
    OBVIOUS
  <2>2. I # {} => Min(I) \in I
    <3> HIDE DEF I
    <3> QED
      BY <2>1, LeastNumber
  <2> QED
    BY <2>2
<1> HIDE DEF I
<1> QED
  BY <1>1, <1>2

\* What it moves past are spaces.
LEMMA OnlySpacesFollow ==
  ASSUME NEW text \in Seq(STRING), NEW end \in 1..Len(text)
  PROVE  \A i \in (end + 1)..IncludeFollowingSpace(text, end) : AsciiSpace(text[i])
<1> DEFINE I == {i \in (end + 1)..Len(text) : ~AsciiSpace(text[i])}
           next == IF I # {} THEN Min(I) ELSE 0
<1>1. IncludeFollowingSpace(text, end) = IF next = 0 THEN Len(text) ELSE next - 1
  BY DEF IncludeFollowingSpace, SelectInSubSeq
<1>2. I \subseteq Nat /\ I \subseteq (end + 1)..Len(text)
  OBVIOUS
<1>3. \A i \in (end + 1)..Len(text) : i \notin I => AsciiSpace(text[i])
  OBVIOUS
<1>4. CASE I = {}
  BY <1>1, <1>3, <1>4
<1>5. CASE I # {}
  <2> HIDE DEF I
  <2>1. PICK m : m = Min(I)
    OBVIOUS
  <2>2. m \in I /\ \A k \in I : m <= k
    BY <1>2, <1>5, <2>1, LeastNumber
  <2>3. m \in (end + 1)..Len(text)
    BY <1>2, <2>2
  <2>4. ASSUME NEW i \in (end + 1)..(m - 1) PROVE AsciiSpace(text[i])
    <3>1. i \in (end + 1)..Len(text) /\ ~(m <= i)
      BY <2>3
    <3>2. i \notin I
      BY <2>2, <3>1
    <3> QED
      BY <1>3, <3>1, <3>2
  <2>5. IncludeFollowingSpace(text, end) = m - 1
    BY <1>1, <1>5, <2>1, <2>3
  <2> QED
    BY <2>4, <2>5
<1> QED
  BY <1>4, <1>5

LEMMA SentenceCutWithin ==
  ASSUME NEW buffer \in Seq(STRING)
  PROVE  SentenceCut(buffer) \in 0..Len(buffer)
<1>1. SentenceEnds(buffer) \subseteq 1..Len(buffer)
  BY ChunkSizesAssumption DEF SentenceEnds
<1>2. SentenceEnds(buffer) # {} => Min(SentenceEnds(buffer)) \in 1..Len(buffer)
  BY <1>1, LeastNumber
<1> QED
  BY <1>2, IncludeFollowingSpaceWithin DEF SentenceCut

LEMMA NewlineCutWithin ==
  ASSUME NEW buffer \in Seq(STRING)
  PROVE  NewlineCut(buffer) \in 0..Len(buffer)
<1> DEFINE I == {i \in 1..Len(buffer) : buffer[i] = "\n"}
           newline == IF I # {} THEN Min(I) ELSE 0
<1>1. NewlineCut(buffer) = IF newline < kMinimumChunk THEN 0 ELSE newline
  BY DEF NewlineCut, SelectInSeq
<1>2. newline \in 0..Len(buffer)
  <2>1. I \subseteq Nat /\ I \subseteq 0..Len(buffer)
    OBVIOUS
  <2> HIDE DEF I
  <2>2. CASE I = {}
    BY <2>2
  <2>3. CASE I # {}
    BY <2>1, <2>3, LeastNumber
  <2> QED
    BY <2>2, <2>3
<1> HIDE DEF newline
<1> QED
  BY <1>1, <1>2, ChunkSizesAssumption

\* The last place up to the limit, for any choice of the places.
LEMMA LastPlace ==
  ASSUME NEW limit \in Nat, NEW I, I \subseteq (kMinimumChunk + 1)..limit
  PROVE  (IF I # {} THEN Max(I) ELSE 0) \in 0..limit
<1>1. I \subseteq 0..limit
  BY ChunkSizesAssumption
<1>2. CASE I = {}
  BY <1>2
<1>3. CASE I # {}
  BY <1>1, <1>3, GreatestNumber
<1> QED
  BY <1>2, <1>3

LEMMA CutAfterWithin ==
  ASSUME NEW buffer \in Seq(STRING), NEW limit \in Nat, NEW marks
  PROVE  CutAfter(buffer, limit, marks) \in 0..Len(buffer)
<1> DEFINE I == {i \in (kMinimumChunk + 1)..limit : buffer[i] \in marks}
           last == IF I # {} THEN Max(I) ELSE 0
<1>1. last \in 0..limit
  BY LastPlace
<1>2. CutAfter(buffer, limit, marks) =
        IF Len(buffer) < limit \/ last = 0 THEN 0
        ELSE IncludeFollowingSpace(buffer, last)
  BY DEF CutAfter, LastUpTo, SelectLastInSubSeq
<1> HIDE DEF last
<1> QED
  BY <1>1, <1>2, IncludeFollowingSpaceWithin

\* Where they cut: not before kMinimumChunk, and after a space, a stop or a mark.
GoodEnd(c) == AsciiSpace(c) \/ SentenceStop(c) \/ c \in ClauseMarks

LEMMA MovedPastSpaces ==
  ASSUME NEW text \in Seq(STRING), NEW end \in 1..Len(text), GoodEnd(text[end])
  PROVE  GoodEnd(text[IncludeFollowingSpace(text, end)])
<1>1. PICK n : n = IncludeFollowingSpace(text, end)
  OBVIOUS
<1>2. n \in end..Len(text) /\ \A i \in (end + 1)..n : AsciiSpace(text[i])
  BY <1>1, IncludeFollowingSpaceWithin, OnlySpacesFollow
<1>3. n = end \/ n \in (end + 1)..n
  BY <1>2
<1> QED
  BY <1>1, <1>2, <1>3 DEF GoodEnd

LEMMA SentenceCutGood ==
  ASSUME NEW buffer \in Seq(STRING), SentenceCut(buffer) # 0
  PROVE  SentenceCut(buffer) >= kMinimumChunk /\ GoodEnd(buffer[SentenceCut(buffer)])
<1>1. SentenceEnds(buffer) \subseteq Nat /\ SentenceEnds(buffer) # {}
  BY ChunkSizesAssumption DEF SentenceEnds, SentenceCut
<1>2. PICK end : end = Min(SentenceEnds(buffer))
  OBVIOUS
<1>3. /\ end \in kMinimumChunk..Len(buffer) /\ end \in 1..Len(buffer)
      /\ SentenceStop(buffer[end])
  <2>1. end \in SentenceEnds(buffer)
    BY <1>1, <1>2, LeastNumber
  <2> QED
    BY <2>1, ChunkSizesAssumption DEF SentenceEnds
<1>4. SentenceCut(buffer) = IncludeFollowingSpace(buffer, end)
  BY <1>1, <1>2 DEF SentenceCut
<1>5. GoodEnd(buffer[end])
  BY <1>3 DEF GoodEnd
<1>6. GoodEnd(buffer[IncludeFollowingSpace(buffer, end)])
  BY <1>3, <1>5, MovedPastSpaces
<1>7. IncludeFollowingSpace(buffer, end) \in end..Len(buffer)
  BY <1>3, IncludeFollowingSpaceWithin
<1>8. SentenceCut(buffer) >= kMinimumChunk
  BY <1>3, <1>4, <1>7, ChunkSizesAssumption
<1> QED
  BY <1>4, <1>6, <1>8

LEMMA NewlineCutGood ==
  ASSUME NEW buffer \in Seq(STRING), NewlineCut(buffer) # 0
  PROVE  NewlineCut(buffer) >= kMinimumChunk /\ GoodEnd(buffer[NewlineCut(buffer)])
<1> DEFINE I == {i \in 1..Len(buffer) : buffer[i] = "\n"}
           newline == IF I # {} THEN Min(I) ELSE 0
<1>1. NewlineCut(buffer) = IF newline < kMinimumChunk THEN 0 ELSE newline
  BY DEF NewlineCut, SelectInSeq
<1>2. I # {}
  BY <1>1, ChunkSizesAssumption
<1>3. Min(I) \in I
  <2>1. I \subseteq Nat
    OBVIOUS
  <2> HIDE DEF I
  <2> QED
    BY <1>2, <2>1, LeastNumber
<1>4. newline \in 1..Len(buffer) /\ buffer[newline] = "\n"
  BY <1>2, <1>3
<1> HIDE DEF newline
<1>5. NewlineCut(buffer) = newline /\ newline >= kMinimumChunk
  BY <1>1, <1>4, ChunkSizesAssumption
<1> QED
  BY <1>4, <1>5 DEF GoodEnd, AsciiSpace, Spaces

\* The last place is one of the places, and there is one if 0 is not the answer.
LEMMA CutAfterGood ==
  ASSUME NEW buffer \in Seq(STRING), NEW limit \in Nat, NEW marks,
         \A c \in marks : GoodEnd(c), CutAfter(buffer, limit, marks) # 0
  PROVE  /\ CutAfter(buffer, limit, marks) >= kMinimumChunk
         /\ GoodEnd(buffer[CutAfter(buffer, limit, marks)])
<1> DEFINE I == {i \in (kMinimumChunk + 1)..limit : buffer[i] \in marks}
           last == IF I # {} THEN Max(I) ELSE 0
<1>1. CutAfter(buffer, limit, marks) =
        IF Len(buffer) < limit \/ last = 0 THEN 0
        ELSE IncludeFollowingSpace(buffer, last)
  BY DEF CutAfter, LastUpTo, SelectLastInSubSeq
<1>2. Len(buffer) >= limit /\ last # 0 /\ I # {}
  BY <1>1
<1>3. Max(I) \in I
  <2>1. I \subseteq 0..limit
    BY ChunkSizesAssumption
  <2> HIDE DEF I
  <2> QED
    BY <1>2, <2>1, GreatestNumber
<1>4. last \in (kMinimumChunk + 1)..limit /\ buffer[last] \in marks
  BY <1>2, <1>3
<1> HIDE DEF last
<1>5. last \in 1..Len(buffer) /\ last >= kMinimumChunk /\ GoodEnd(buffer[last])
  BY <1>2, <1>4, ChunkSizesAssumption
<1>6. CutAfter(buffer, limit, marks) = IncludeFollowingSpace(buffer, last)
  BY <1>1, <1>2
<1> QED
  BY <1>5, <1>6, IncludeFollowingSpaceWithin, MovedPastSpaces, ChunkSizesAssumption

\* Otherwise there is none of the places in reach.
LEMMA NoPlaceInReach ==
  ASSUME NEW buffer \in Seq(STRING), NEW limit \in Nat, NEW marks,
         Len(buffer) >= limit, CutAfter(buffer, limit, marks) = 0
  PROVE  \A i \in (kMinimumChunk + 1)..limit : buffer[i] \notin marks
<1> DEFINE I == {i \in (kMinimumChunk + 1)..limit : buffer[i] \in marks}
           last == IF I # {} THEN Max(I) ELSE 0
<1>1. CutAfter(buffer, limit, marks) =
        IF Len(buffer) < limit \/ last = 0 THEN 0
        ELSE IncludeFollowingSpace(buffer, last)
  BY DEF CutAfter, LastUpTo, SelectLastInSubSeq
<1>2. SUFFICES ASSUME I # {} PROVE FALSE
  OBVIOUS
<1>3. Max(I) \in I
  <2>1. I \subseteq 0..limit
    BY ChunkSizesAssumption
  <2> HIDE DEF I
  <2> QED
    BY <1>2, <2>1, GreatestNumber
<1>4. last \in 1..Len(buffer)
  BY <1>2, <1>3, ChunkSizesAssumption
<1> HIDE DEF last
<1> QED
  BY <1>1, <1>4, IncludeFollowingSpaceWithin

-----------------------------------------------------------------------------
\* The choice between them.

Cuts(buffer, force) ==
  << SentenceCut(buffer), NewlineCut(buffer),
     CutAfter(buffer, kPreferredChunk, ClauseMarks),
     CutAfter(buffer, kPreferredChunk, Spaces),
     CutAfter(buffer, kHardMaximum, Spaces),
     HardCut(buffer), Flush(buffer, force) >>

LEMMA CutsWithin ==
  ASSUME NEW buffer \in Seq(STRING), NEW force \in BOOLEAN
  PROVE  \A k \in 1..7 : Cuts(buffer, force)[k] \in 0..Len(buffer)
<1>1. /\ HardCut(buffer) \in 0..Len(buffer)
      /\ Flush(buffer, force) \in 0..Len(buffer)
  BY ChunkSizesAssumption DEF HardCut, Flush
<1>2. /\ CutAfter(buffer, kPreferredChunk, ClauseMarks) \in 0..Len(buffer)
      /\ CutAfter(buffer, kPreferredChunk, Spaces) \in 0..Len(buffer)
      /\ CutAfter(buffer, kHardMaximum, Spaces) \in 0..Len(buffer)
  BY CutAfterWithin, ChunkSizesAssumption
<1>3. PICK a \in 0..Len(buffer), b \in 0..Len(buffer), c \in 0..Len(buffer),
           d \in 0..Len(buffer), e \in 0..Len(buffer), f \in 0..Len(buffer),
           g \in 0..Len(buffer) : Cuts(buffer, force) = <<a, b, c, d, e, f, g>>
  BY <1>1, <1>2, SentenceCutWithin, NewlineCutWithin DEF Cuts
<1>4. \A k \in 1..7 : <<a, b, c, d, e, f, g>>[k] \in 0..Len(buffer)
  OBVIOUS
<1> QED
  BY <1>3, <1>4

\* The first way that finds a place decides.
LEMMA FirstCutDecides ==
  ASSUME NEW buffer \in Seq(STRING), NEW force \in BOOLEAN
  PROVE  LET cuts == Cuts(buffer, force)
             n == NextChunkBytes(buffer, force)
         IN  \/ n = 0 /\ \A k \in 1..7 : cuts[k] = 0
             \/ n # 0 /\ \E k \in 1..7 : n = cuts[k] /\ \A j \in 1..(k - 1) : cuts[j] = 0
<1>0. PICK cuts : cuts = Cuts(buffer, force)
  OBVIOUS
<1> DEFINE I == {k \in 1..Len(cuts) : cuts[k] # 0}
           best == IF I # {} THEN Min(I) ELSE 0
<1>1. NextChunkBytes(buffer, force) = IF best = 0 THEN 0 ELSE cuts[best]
  BY <1>0 DEF NextChunkBytes, SelectInSeq, Cuts
<1>2. Len(cuts) = 7
  BY <1>0 DEF Cuts
<1>3. I = {k \in 1..7 : cuts[k] # 0} /\ I \subseteq Nat
  BY <1>2
<1>4. CASE I = {}
  BY <1>0, <1>1, <1>3, <1>4
<1>5. CASE I # {}
  <2>1. Min(I) \in I /\ \A k \in I : Min(I) <= k
    <3> HIDE DEF I
    <3> QED
      BY <1>3, <1>5, LeastNumber
  <2>2. /\ best \in 1..7 /\ cuts[best] # 0
        /\ \A j \in 1..(best - 1) : cuts[j] = 0
    <3>1. best = Min(I)
      BY <1>5
    <3>2. best \in 1..7 /\ cuts[best] # 0
      BY <1>3, <2>1, <3>1
    <3>3. ASSUME NEW j \in 1..(best - 1), cuts[j] # 0
          PROVE  FALSE
      <4>1. j \in I
        <5> HIDE DEF best
        <5> QED
          BY <1>3, <3>2, <3>3
      <4> QED
        BY <2>1, <3>1, <3>2, <4>1
    <3> QED
      BY <3>2, <3>3
  <2> HIDE DEF best
  <2> QED
    BY <1>0, <1>1, <2>2
<1> QED
  BY <1>4, <1>5

\* The loop of commit_available_locked erases what the chunker returns: it
\* must be in the buffer, and a forced loop must get to the end of it.
THEOREM ChunkWithinBuffer ==
  ASSUME NEW buffer \in Seq(STRING), NEW force \in BOOLEAN
  PROVE  /\ NextChunkBytes(buffer, force) \in 0..Len(buffer)
         /\ force /\ buffer # <<>> => NextChunkBytes(buffer, force) # 0
<1>1. PICK cuts, n : cuts = Cuts(buffer, force) /\ n = NextChunkBytes(buffer, force)
  OBVIOUS
<1>2. \A k \in 1..7 : cuts[k] \in 0..Len(buffer)
  BY <1>1, CutsWithin
<1>3. force /\ buffer # <<>> => cuts[7] # 0
  BY <1>1 DEF Cuts, Flush
<1>4. \/ n = 0 /\ \A k \in 1..7 : cuts[k] = 0
      \/ n # 0 /\ \E k \in 1..7 : n = cuts[k] /\ \A j \in 1..(k - 1) : cuts[j] = 0
  BY <1>1, FirstCutDecides
<1>5. n \in 0..Len(buffer)
  <2>1. Len(buffer) \in Nat
    OBVIOUS
  <2>2. ASSUME NEW k \in 1..7, n = cuts[k] PROVE n \in 0..Len(buffer)
    BY <1>2, <2>2
  <2> QED
    BY <1>4, <2>1, <2>2
<1>6. force /\ buffer # <<>> => n # 0
  <2>1. 7 \in 1..7
    OBVIOUS
  <2> QED
    BY <1>3, <1>4, <2>1
<1> QED
  BY <1>1, <1>5, <1>6

\* Unless the text is flushed, what is left over is short and what is cut is not.
LEMMA ChunkSizes ==
  ASSUME NEW buffer \in Seq(STRING), NEW force \in BOOLEAN
  PROVE  LET n == NextChunkBytes(buffer, force)
         IN  /\ n = 0 => Len(buffer) < kHardMaximum
             /\ n # 0 => force \/ n >= kMinimumChunk
<1>1. PICK cuts, n : cuts = Cuts(buffer, force) /\ n = NextChunkBytes(buffer, force)
  OBVIOUS
<1>2. /\ cuts[1] = SentenceCut(buffer) /\ cuts[2] = NewlineCut(buffer)
      /\ cuts[3] = CutAfter(buffer, kPreferredChunk, ClauseMarks)
      /\ cuts[4] = CutAfter(buffer, kPreferredChunk, Spaces)
      /\ cuts[5] = CutAfter(buffer, kHardMaximum, Spaces)
      /\ cuts[6] = HardCut(buffer) /\ cuts[7] = Flush(buffer, force)
  BY <1>1 DEF Cuts
<1>3. \/ n = 0 /\ \A k \in 1..7 : cuts[k] = 0
      \/ n # 0 /\ \E k \in 1..7 : n = cuts[k] /\ \A j \in 1..(k - 1) : cuts[j] = 0
  BY <1>1, FirstCutDecides
<1>4. n = 0 => HardCut(buffer) = 0
  BY <1>2, <1>3
<1>5. n # 0 => \/ n = SentenceCut(buffer) \/ n = NewlineCut(buffer)
               \/ n = CutAfter(buffer, kPreferredChunk, ClauseMarks)
               \/ n = CutAfter(buffer, kPreferredChunk, Spaces)
               \/ n = CutAfter(buffer, kHardMaximum, Spaces)
               \/ n = HardCut(buffer) \/ n = Flush(buffer, force)
  BY <1>2, <1>3
<1>6. \A c \in ClauseMarks \cup Spaces : GoodEnd(c)
  BY DEF GoodEnd, AsciiSpace
<1>7. n # 0 => force \/ n >= kMinimumChunk
  BY <1>5, <1>6, SentenceCutGood, NewlineCutGood, CutAfterGood, ChunkSizesAssumption
     DEF HardCut, Flush
<1>8. n = 0 => Len(buffer) < kHardMaximum
  BY <1>4, ChunkSizesAssumption DEF HardCut
<1> QED
  BY <1>1, <1>7, <1>8

\* A cut is at a good place, or there is no space in reach, or nothing is left.
LEMMA ChunkEnds ==
  ASSUME NEW buffer \in Seq(STRING), NEW force \in BOOLEAN
  PROVE  LET n == NextChunkBytes(buffer, force)
         IN  n # 0 =>
               \/ GoodEnd(buffer[n])
               \/ /\ n = kHardMaximum /\ Len(buffer) >= kHardMaximum
                  /\ \A p \in (kMinimumChunk + 1)..kHardMaximum : ~AsciiSpace(buffer[p])
               \/ force /\ n = Len(buffer)
<1>1. PICK cuts, n : cuts = Cuts(buffer, force) /\ n = NextChunkBytes(buffer, force)
  OBVIOUS
<1>2. /\ cuts[1] = SentenceCut(buffer) /\ cuts[2] = NewlineCut(buffer)
      /\ cuts[3] = CutAfter(buffer, kPreferredChunk, ClauseMarks)
      /\ cuts[4] = CutAfter(buffer, kPreferredChunk, Spaces)
      /\ cuts[5] = CutAfter(buffer, kHardMaximum, Spaces)
      /\ cuts[6] = HardCut(buffer) /\ cuts[7] = Flush(buffer, force)
  BY <1>1 DEF Cuts
<1> SUFFICES ASSUME n # 0
             PROVE  \/ GoodEnd(buffer[n])
                    \/ /\ n = kHardMaximum /\ Len(buffer) >= kHardMaximum
                       /\ \A p \in (kMinimumChunk + 1)..kHardMaximum : ~AsciiSpace(buffer[p])
                    \/ force /\ n = Len(buffer)
  BY <1>1
<1>3. PICK k \in 1..7 : n = cuts[k] /\ \A j \in 1..(k - 1) : cuts[j] = 0
  BY <1>1, FirstCutDecides
<1>4. CASE k = 1
  BY <1>2, <1>3, <1>4, SentenceCutGood
<1>5. CASE k = 2
  BY <1>2, <1>3, <1>5, NewlineCutGood
<1>6. CASE k \in {3, 4, 5}
  <2>1. \A c \in ClauseMarks : GoodEnd(c)
    BY DEF GoodEnd
  <2>2. \A c \in Spaces : GoodEnd(c)
    BY DEF GoodEnd, AsciiSpace
  <2> QED
    BY <1>2, <1>3, <1>6, <2>1, <2>2, CutAfterGood, ChunkSizesAssumption
<1>7. CASE k = 6
  <2>1. n = kHardMaximum /\ Len(buffer) >= kHardMaximum
    BY <1>2, <1>3, <1>7, ChunkSizesAssumption DEF HardCut
  <2>2. CutAfter(buffer, kHardMaximum, Spaces) = 0
    BY <1>2, <1>3, <1>7
  <2>3. \A p \in (kMinimumChunk + 1)..kHardMaximum : buffer[p] \notin Spaces
    BY <2>1, <2>2, NoPlaceInReach, ChunkSizesAssumption
  <2> QED
    BY <2>1, <2>3 DEF AsciiSpace
<1>8. CASE k = 7
  BY <1>2, <1>3, <1>8 DEF Flush
<1> QED
  BY <1>3, <1>4, <1>5, <1>6, <1>7, <1>8

-----------------------------------------------------------------------------
\* What sequences of phrases make when they are put together again.

\* FlattenSeq's recursive function, for its first n sequences.
Flattens(f, seqs, n) ==
  f = [i \in 1..n |-> IF i = 1 THEN seqs[i] ELSE f[i - 1] \o seqs[i]]

LEMMA FlatteningExists ==
  ASSUME NEW seqs, NEW n \in Nat
  PROVE  \E f : Flattens(f, seqs, n)
<1> DEFINE Without == {m \in Nat : ~\E f : Flattens(f, seqs, m)}
<1>1. SUFFICES ASSUME Without # {} PROVE FALSE
  OBVIOUS
<1>2. PICK m \in Nat : /\ ~\E f : Flattens(f, seqs, m)
                       /\ \A k \in Without : m <= k
  <2>1. Without \subseteq Nat
    OBVIOUS
  <2>2. Min(Without) \in Without /\ \A k \in Without : Min(Without) <= k
    <3> HIDE DEF Without
    <3> QED
      BY <1>1, <2>1, LeastNumber
  <2> QED
    BY <2>2
<1>3. m # 0
  <2>1. Flattens([i \in 1..0 |-> seqs[i]], seqs, 0)
    BY DEF Flattens
  <2> QED
    BY <1>2, <2>1
<1>4. PICK f : Flattens(f, seqs, m - 1)
  <2>1. m - 1 \in Nat /\ ~(m <= m - 1)
    BY <1>3
  <2> QED
    BY <1>2, <2>1
<1> DEFINE g == [i \in 1..m |-> IF i < m THEN f[i]
                                ELSE IF i = 1 THEN seqs[i] ELSE f[i - 1] \o seqs[i]]
<1>5. \A i \in 1..(m - 1) : f[i] = IF i = 1 THEN seqs[i] ELSE f[i - 1] \o seqs[i]
  BY <1>4 DEF Flattens
<1>6. ASSUME NEW i \in 1..m
      PROVE  g[i] = IF i = 1 THEN seqs[i] ELSE g[i - 1] \o seqs[i]
  <2>1. i # 1 => i - 1 \in 1..m /\ i - 1 < m
    OBVIOUS
  <2>2. i # 1 => g[i - 1] = f[i - 1]
    BY <2>1
  <2>3. CASE i < m
    <3>1. g[i] = f[i] /\ i \in 1..(m - 1)
      BY <2>3
    <3> HIDE DEF g
    <3> QED
      BY <1>5, <2>2, <3>1
  <2>4. CASE ~(i < m)
    <3>1. g[i] = IF i = 1 THEN seqs[i] ELSE f[i - 1] \o seqs[i]
      BY <2>4
    <3> HIDE DEF g
    <3> QED
      BY <2>2, <3>1
  <2> QED
    BY <2>3, <2>4
<1>7. Flattens(g, seqs, m)
  <2>1. g = [i \in 1..m |-> g[i]]
    OBVIOUS
  <2> HIDE DEF g
  <2> QED
    BY <1>6, <2>1 DEF Flattens
<1> QED
  BY <1>2, <1>7

\* `more` begins with the first n of seqs, sequences over S.
Begins(S, seqs, more, n) ==
  \A i \in 1..n : seqs[i] \in Seq(S) /\ more[i] = seqs[i]

\* It is a sequence of the elements, and does not depend on what comes later.
LEMMA FlatteningAgrees ==
  ASSUME NEW S, NEW seqs, NEW more, NEW n \in Nat, NEW m \in Nat, n <= m,
         Begins(S, seqs, more, n), NEW f, Flattens(f, seqs, n), NEW g, Flattens(g, more, m)
  PROVE  \A i \in 1..n : f[i] \in Seq(S) /\ g[i] = f[i]
<1> DEFINE Bad == {i \in 1..n : ~(f[i] \in Seq(S) /\ g[i] = f[i])}
<1>1. SUFFICES ASSUME Bad # {} PROVE FALSE
  OBVIOUS
<1>2. PICK i \in 1..n : /\ ~(f[i] \in Seq(S) /\ g[i] = f[i])
                        /\ \A k \in Bad : i <= k
  <2>1. Bad \subseteq Nat
    OBVIOUS
  <2>2. Min(Bad) \in Bad /\ \A k \in Bad : Min(Bad) <= k
    <3> HIDE DEF Bad
    <3> QED
      BY <1>1, <2>1, LeastNumber
  <2> QED
    BY <2>2
<1>3. /\ f[i] = IF i = 1 THEN seqs[i] ELSE f[i - 1] \o seqs[i]
      /\ g[i] = IF i = 1 THEN more[i] ELSE g[i - 1] \o more[i]
  <2>1. i \in 1..m
    OBVIOUS
  <2> QED
    BY <2>1 DEF Flattens
<1>4. CASE i = 1
  BY <1>2, <1>3, <1>4 DEF Begins
<1>5. CASE i # 1
  <2>1. i - 1 \in 1..n /\ ~(i <= i - 1)
    BY <1>5
  <2>2. f[i - 1] \in Seq(S) /\ g[i - 1] = f[i - 1]
    BY <1>2, <2>1
  <2>3. f[i - 1] \o seqs[i] \in Seq(S)
    BY <2>2, ConcatProperties DEF Begins
  <2> QED
    BY <1>2, <1>3, <1>5, <2>2, <2>3 DEF Begins
<1> QED
  BY <1>4, <1>5

LEMMA FlattenIs ==
  ASSUME NEW seqs, Len(seqs) \in Nat \ {0}
  PROVE  \E f : Flattens(f, seqs, Len(seqs)) /\ FlattenSeq(seqs) = f[Len(seqs)]
<1> DEFINE f == CHOOSE f : Flattens(f, seqs, Len(seqs))
<1>1. Flattens(f, seqs, Len(seqs))
  BY FlatteningExists
<1>2. FlattenSeq(seqs) = f[Len(seqs)]
  BY DEF FlattenSeq, Flattens
<1> QED
  BY <1>1, <1>2

\* One sequence more at the end adds its elements at the end.
LEMMA FlattenAppend ==
  ASSUME NEW S, NEW seqs \in Seq(Seq(S)), NEW s \in Seq(S)
  PROVE  /\ FlattenSeq(seqs) \in Seq(S)
         /\ FlattenSeq(Append(seqs, s)) = FlattenSeq(seqs) \o s
<1> DEFINE n == Len(seqs)
           more == Append(seqs, s)
<1>1. /\ n \in Nat /\ Len(more) = n + 1 /\ more[n + 1] = s
      /\ \A i \in 1..n : seqs[i] \in Seq(S) /\ more[i] = seqs[i]
  OBVIOUS
<1>2. PICK g : Flattens(g, more, n + 1) /\ FlattenSeq(more) = g[n + 1]
  <2> HIDE DEF n, more
  <2> QED
    BY <1>1, FlattenIs
<1>3. g[n + 1] = IF n + 1 = 1 THEN s ELSE g[n] \o s
  <2>1. n + 1 \in 1..(n + 1) /\ (n + 1) - 1 = n
    BY <1>1
  <2> HIDE DEF n, more
  <2> QED
    BY <1>1, <1>2, <2>1 DEF Flattens
<1>4. CASE n = 0
  <2>1. seqs = <<>> /\ FlattenSeq(seqs) = <<>>
    BY <1>4 DEF FlattenSeq
  <2>2. <<>> \in Seq(S) /\ <<>> \o s = s
    BY ConcatEmptySeq
  <2>3. FlattenSeq(more) = s
    <3> HIDE DEF n, more
    <3> QED
      BY <1>2, <1>3, <1>4
  <2> QED
    BY <2>1, <2>2, <2>3
<1>5. CASE n # 0
  <2>1. PICK f : Flattens(f, seqs, n) /\ FlattenSeq(seqs) = f[n]
    BY <1>1, <1>5, FlattenIs
  <2>2. \A i \in 1..n : f[i] \in Seq(S) /\ g[i] = f[i]
    <3> HIDE DEF n, more
    <3>1. n + 1 \in Nat /\ n <= n + 1
      BY <1>1
    <3>2. PICK m \in Nat : m = n + 1 /\ n <= m
      BY <3>1
    <3>3. n \in Nat /\ Begins(S, seqs, more, n)
      BY <1>1 DEF Begins
    <3>4. Flattens(g, more, m)
      BY <1>2, <3>2
    <3> QED
      BY <2>1, <3>2, <3>3, <3>4, FlatteningAgrees
  <2>3. n \in 1..n /\ n + 1 # 1
    BY <1>1, <1>5
  <2> HIDE DEF n, more
  <2>4. FlattenSeq(seqs) \in Seq(S) /\ FlattenSeq(more) = FlattenSeq(seqs) \o s
    BY <1>2, <1>3, <2>1, <2>2, <2>3
  <2> QED
    BY <2>4 DEF more
<1> QED
  BY <1>4, <1>5

\* Sequences that are all empty make an empty one.
LEMMA FlattenNothing ==
  ASSUME NEW seqs, Len(seqs) \in Nat, seqs = [i \in 1..Len(seqs) |-> <<>>]
  PROVE  FlattenSeq(seqs) = <<>>
<1> DEFINE n == Len(seqs)
<1>1. CASE n = 0
  <2>1. FlattenSeq(seqs) = seqs
    BY <1>1 DEF FlattenSeq
  <2>2. seqs = <<>>
    BY <1>1
  <2> QED
    BY <2>1, <2>2
<1>2. CASE n # 0
  <2>1. PICK f : Flattens(f, seqs, n) /\ FlattenSeq(seqs) = f[n]
    BY <1>2, FlattenIs
  <2>2. \A i \in 1..n : seqs[i] = <<>>
    OBVIOUS
  <2> DEFINE Bad == {i \in 1..n : f[i] # <<>>}
  <2>3. SUFFICES ASSUME Bad # {} PROVE FALSE
    BY <1>2, <2>1
  <2>4. PICK i \in 1..n : f[i] # <<>> /\ \A k \in Bad : i <= k
    <3>1. Bad \subseteq Nat
      OBVIOUS
    <3>2. Min(Bad) \in Bad /\ \A k \in Bad : Min(Bad) <= k
      <4> HIDE DEF Bad
      <4> QED
        BY <2>3, <3>1, LeastNumber
    <3> QED
      BY <3>2
  <2>5. f[i] = IF i = 1 THEN seqs[i] ELSE f[i - 1] \o seqs[i]
    BY <2>1 DEF Flattens
  <2>6. i # 1
    BY <2>2, <2>4, <2>5
  <2>7. i - 1 \in 1..n /\ ~(i <= i - 1)
    BY <2>6
  <2>8. f[i - 1] = <<>>
    BY <2>4, <2>7
  <2>9. <<>> \o <<>> = <<>>
    BY ConcatEmptySeq, EmptySeq
  <2> QED
    BY <2>2, <2>4, <2>5, <2>6, <2>8, <2>9
<1> QED
  BY <1>1, <1>2

LEMMA Associates ==
  ASSUME NEW S, NEW a \in Seq(S), NEW b \in Seq(S), NEW c \in Seq(S)
  PROVE  (a \o b) \o c = a \o (b \o c)
BY ConcatAssociative

Associative(S) == \A a, b, c \in Seq(S) : (a \o b) \o c = a \o (b \o c)

LEMMA AlwaysAssociative == ASSUME NEW S PROVE Associative(S)
BY Associates DEF Associative

\* Flattening what follows the first sequence flattens all but that one.
Follows(S, seqs, tail, n) ==
  seqs[1] \in Seq(S) /\ \A i \in 1..(n - 1) : tail[i] = seqs[i + 1] /\ tail[i] \in Seq(S)

Joins(f, s, g, n) == \A i \in 1..(n - 1) : f[i + 1] = s \o g[i]

LEMMA FlatteningFollows ==
  ASSUME NEW S, NEW seqs, NEW tail, NEW n \in Nat \ {0}, Follows(S, seqs, tail, n),
         NEW f, Flattens(f, seqs, n), NEW g, Flattens(g, tail, n - 1)
  PROVE  Joins(f, seqs[1], g, n)
<1>1. /\ \A i \in 1..n : f[i] = IF i = 1 THEN seqs[i] ELSE f[i - 1] \o seqs[i]
      /\ \A i \in 1..(n - 1) : g[i] = IF i = 1 THEN tail[i] ELSE g[i - 1] \o tail[i]
  BY DEF Flattens
<1> DEFINE Fine(i) == g[i] \in Seq(S) /\ f[i + 1] = seqs[1] \o g[i]
           Bad == {i \in 1..(n - 1) : ~Fine(i)}
<1> HIDE DEF Fine
<1>2. SUFFICES ASSUME Bad # {} PROVE FALSE
  BY DEF Fine, Joins
<1>3. Bad \subseteq Nat
  OBVIOUS
<1>4. PICK i \in 1..(n - 1) : ~Fine(i) /\ \A k \in Bad : i <= k
  <2>1. Min(Bad) \in Bad /\ \A k \in Bad : Min(Bad) <= k
    <3> HIDE DEF Bad
    <3> QED
      BY <1>2, <1>3, LeastNumber
  <2> QED
    BY <2>1
<1>5. /\ g[i] = IF i = 1 THEN tail[i] ELSE g[i - 1] \o tail[i]
      /\ f[i + 1] = f[i] \o tail[i] /\ f[1] = seqs[1]
      /\ tail[i] \in Seq(S) /\ seqs[1] \in Seq(S)
  <2>1. i + 1 \in 1..n /\ i + 1 # 1 /\ (i + 1) - 1 = i /\ 1 \in 1..n
    OBVIOUS
  <2> QED
    BY <1>1, <2>1 DEF Follows
<1>6. CASE i = 1
  BY <1>4, <1>5, <1>6 DEF Fine
<1>7. CASE i # 1
  <2>1. i - 1 \in 1..(n - 1) /\ ~(i <= i - 1) /\ (i - 1) + 1 = i
    BY <1>7
  <2>2. Fine(i - 1)
    BY <1>4, <2>1
  <2>3. g[i - 1] \in Seq(S) /\ f[i] = seqs[1] \o g[i - 1]
    BY <2>1, <2>2 DEF Fine
  <2>4. g[i] = g[i - 1] \o tail[i] /\ f[i + 1] = (seqs[1] \o g[i - 1]) \o tail[i]
    BY <1>5, <1>7, <2>3
  <2>5. f[i + 1] = seqs[1] \o (g[i - 1] \o tail[i])
    <3>1. Associative(S)
      BY AlwaysAssociative
    <3>2. seqs[1] \in Seq(S) /\ g[i - 1] \in Seq(S) /\ tail[i] \in Seq(S)
      BY <1>5, <2>3
    <3> HIDE DEF Bad
    <3>3. (seqs[1] \o g[i - 1]) \o tail[i] = seqs[1] \o (g[i - 1] \o tail[i])
      BY <3>1, <3>2, Zenon DEF Associative
    <3> QED
      BY <2>4, <3>3
  <2>6. g[i] \in Seq(S)
    BY <1>5, <2>3, <2>4, ConcatProperties
  <2> QED
    BY <1>4, <2>4, <2>5, <2>6 DEF Fine
<1> QED
  BY <1>6, <1>7

\* seqs are n sequences over S, the first of them followed by tail.
Leads(S, seqs, tail, n) ==
  /\ n \in Nat \ {0} /\ n = Len(seqs) /\ Len(tail) = n - 1
  /\ Follows(S, seqs, tail, n)
  /\ n = 1 => tail = <<>>

LEMMA FlattenLeading ==
  ASSUME NEW S, NEW seqs, NEW tail, NEW n, Leads(S, seqs, tail, n)
  PROVE  FlattenSeq(seqs) = seqs[1] \o FlattenSeq(tail)
<1>1. /\ n \in Nat \ {0} /\ n = Len(seqs) /\ Len(tail) = n - 1
      /\ Follows(S, seqs, tail, n) /\ seqs[1] \in Seq(S)
      /\ n = 1 => tail = <<>>
  BY DEF Leads, Follows
<1>2. PICK f : Flattens(f, seqs, n) /\ FlattenSeq(seqs) = f[n]
  BY <1>1, FlattenIs
<1>3. CASE n = 1
  <2>1. FlattenSeq(tail) = <<>>
    BY <1>1, <1>3 DEF FlattenSeq
  <2>2. 1 \in 1..n /\ f[1] = seqs[1]
    BY <1>2, <1>3 DEF Flattens
  <2> QED
    BY <1>1, <1>2, <1>3, <2>1, <2>2, ConcatEmptySeq
<1>4. CASE n # 1
  <2>1. PICK g : Flattens(g, tail, n - 1) /\ FlattenSeq(tail) = g[n - 1]
    <3>1. Len(tail) \in Nat \ {0}
      BY <1>1, <1>4
    <3> QED
      BY <1>1, <3>1, FlattenIs
  <2>2. Joins(f, seqs[1], g, n)
    BY <1>1, <1>2, <2>1, FlatteningFollows
  <2>3. n - 1 \in 1..(n - 1) /\ (n - 1) + 1 = n
    BY <1>1, <1>4
  <2>4. f[n] = seqs[1] \o g[n - 1]
    BY <2>2, <2>3 DEF Joins
  <2> QED
    BY <1>2, <2>1, <2>4
<1> QED
  BY <1>3, <1>4

LEMMA ShortTail ==
  ASSUME NEW S, NEW seqs, Tail(seqs) \in Seq(S), Len(Tail(seqs)) = Len(seqs) - 1,
         Len(seqs) = 1
  PROVE  Tail(seqs) = <<>>
<1> DEFINE tail == Tail(seqs)
<1>1. tail \in Seq(S) /\ Len(tail) = 0
  OBVIOUS
<1> HIDE DEF tail
<1>2. tail = <<>>
  BY <1>1, EmptySeq
<1> QED
  BY <1>2 DEF tail

\* The first sequence comes first.
LEMMA FlattenFront ==
  ASSUME NEW S, NEW seqs \in Seq(Seq(S)), seqs # <<>>
  PROVE  FlattenSeq(seqs) = Head(seqs) \o FlattenSeq(Tail(seqs))
<1>1. /\ Len(seqs) \in Nat \ {0} /\ Len(Tail(seqs)) = Len(seqs) - 1
      /\ \A i \in 1..(Len(seqs) - 1) : Tail(seqs)[i] = seqs[i + 1]
      /\ Head(seqs) = seqs[1] /\ \A i \in 1..Len(seqs) : seqs[i] \in Seq(S)
      /\ Len(seqs) = 1 => Tail(seqs) = <<>>
  <2> DEFINE Q == Seq(S)
  <2>1. seqs \in Seq(Q)
    OBVIOUS
  <2> HIDE DEF Q
  <2>2. Len(seqs) \in Nat \ {0} /\ \A i \in 1..Len(seqs) : seqs[i] \in Q
    BY <2>1, EmptySeq, ElementOfSeq, LenProperties
  <2>3. /\ Tail(seqs) \in Seq(Q) /\ Len(Tail(seqs)) = Len(seqs) - 1
        /\ \A i \in 1..(Len(seqs) - 1) : Tail(seqs)[i] = seqs[i + 1]
        /\ Head(seqs) = seqs[1]
    BY <2>1, HeadTailProperties
  <2>4. Len(seqs) = 1 => Tail(seqs) = <<>>
    BY <2>2, <2>3, ShortTail
  <2> QED
    BY <2>2, <2>3, <2>4 DEF Q
<1>2. 1 \in 1..Len(seqs) /\ \A i \in 1..(Len(seqs) - 1) : i + 1 \in 1..Len(seqs)
  BY <1>1
<1>3. Leads(S, seqs, Tail(seqs), Len(seqs))
  BY <1>1, <1>2 DEF Leads, Follows
<1> QED
  BY <1>1, <1>3, FlattenLeading
=============================================================================
