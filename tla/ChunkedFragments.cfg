\* Texts without newlines, commas and pauses, against the same text in one piece.
SPECIFICATION Spec
CONSTANTS
  Alphabet <- PlainAlphabet
  MaxText = 5
  MayPause = FALSE
  kMinimumChunk = 2
  kPreferredChunk = 4
  kHardMaximum = 5
INVARIANTS
  FragmentsDoNotMatter
