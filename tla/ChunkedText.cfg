\* All texts of up to six characters, in all divisions into fragments and pauses.
SPECIFICATION Spec
CONSTANTS
  Alphabet <- MCAlphabet
  MaxText = 6
  MayPause = TRUE
  kMinimumChunk = 2
  kPreferredChunk = 4
  kHardMaximum = 5
INVARIANTS
  Reconstructs
  PhraseSizes
  WordsKept
