------------------------------ MODULE Chunker ------------------------------
(***************************************************************************)
(* PhraseChunker (src/chunker.cpp): where the runtime cuts the text it has *)
(* received into phrases for the speech engine.  A text is a sequence of   *)
(* characters; position i of this module is buffer[i - 1] of the code, so  *)
(* "the first i characters" is a length of i bytes in both.                *)
(***************************************************************************)
EXTENDS Integers, SequencesExt

CONSTANTS
  kMinimumChunk,     \* 24 in the code: shorter sentences wait for more text
  kPreferredChunk,   \* 100: from here on a clause or a space is good enough
  kHardMaximum       \* 180: from here on the text is cut wherever it must be

\* The code's three constants are positive and ordered.
ASSUME ChunkSizesAssumption ==
  /\ kMinimumChunk \in Nat \ {0}
  /\ kPreferredChunk \in Nat
  /\ kHardMaximum \in Nat
  /\ kMinimumChunk < kPreferredChunk
  /\ kPreferredChunk < kHardMaximum

Spaces == {" ", "\n"}
ClauseMarks == {",", ";", ":"}
AsciiSpace(c) == c \in Spaces
SentenceStop(c) == c \in {".", "!", "?"}

HasSpeakableText(text) == \E i \in 1..Len(text) : ~AsciiSpace(text[i])

\* The cut after the first `end` characters, moved past the spaces there.
IncludeFollowingSpace(text, end) ==
  LET next == SelectInSubSeq(text, end + 1, Len(text), LAMBDA c : ~AsciiSpace(c))
  IN  IF next = 0 THEN Len(text) ELSE next - 1

\* Mutant: however little text precedes.
AllSentenceEnds(buffer) ==
  {i \in 1..Len(buffer) :
     /\ SentenceStop(buffer[i])
     /\ i = Len(buffer) \/ AsciiSpace(buffer[i + 1])}

\* Sentence ends that leave at least kMinimumChunk characters before the cut.
\* A stop that is the last character received so far counts as one.
SentenceEnds(buffer) ==
  {i \in kMinimumChunk..Len(buffer) :
     /\ SentenceStop(buffer[i])
     /\ i = Len(buffer) \/ AsciiSpace(buffer[i + 1])}

\* The last position in kMinimumChunk + 1 .. limit whose character is in
\* `marks`, or 0: the loops that walk down from limit to the minimum.
LastUpTo(buffer, limit, marks) ==
  SelectLastInSubSeq(buffer, kMinimumChunk + 1, limit, LAMBDA c : c \in marks)

\* The ways to cut a text, best first, each as a number of characters or 0.
\* Only the first newline is looked at, and only if enough text precedes it.
SentenceCut(buffer) ==
  IF SentenceEnds(buffer) = {} THEN 0
  ELSE IncludeFollowingSpace(buffer, Min(SentenceEnds(buffer)))

NewlineCut(buffer) ==
  LET newline == SelectInSeq(buffer, LAMBDA c : c = "\n")
  IN  IF newline < kMinimumChunk THEN 0 ELSE newline

\* Mutant: cut at the limit once there is a good place before it.
CutAtLimit(buffer, limit, marks) ==
  LET last == LastUpTo(buffer, limit, marks)
  IN  IF Len(buffer) < limit \/ last = 0 THEN 0
      ELSE IncludeFollowingSpace(buffer, limit)

CutAfter(buffer, limit, marks) ==
  LET last == LastUpTo(buffer, limit, marks)
  IN  IF Len(buffer) < limit \/ last = 0 THEN 0
      ELSE IncludeFollowingSpace(buffer, last)

HardCut(buffer) == IF Len(buffer) < kHardMaximum THEN 0 ELSE kHardMaximum

Flush(buffer, force) == IF force THEN Len(buffer) ELSE 0

\* The number of characters of the next phrase; 0 asks for more text.
NextChunkBytes(buffer, force) ==
  LET cuts == << SentenceCut(buffer), NewlineCut(buffer),
                 CutAfter(buffer, kPreferredChunk, ClauseMarks),
                 CutAfter(buffer, kPreferredChunk, Spaces),
                 CutAfter(buffer, kHardMaximum, Spaces),
                 HardCut(buffer), Flush(buffer, force) >>
      best == SelectInSeq(cuts, LAMBDA k : k # 0)
  IN  IF best = 0 THEN 0 ELSE cuts[best]
=============================================================================
