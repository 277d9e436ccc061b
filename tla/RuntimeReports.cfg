\* Reports of the synthesis thread race the interruption of their session.
SPECIFICATION Spec
CONSTANTS
  A = A
  B = B
  Sessions <- OneSession
  Texts <- SomeTexts
  Patches <- OnePatch
  DefaultSettings <- DefaultVoice
  FrameCounts = {1}
  Unsayable = {"x"}
  MaxGeneration = 2
  kMinimumChunk = 2
  kPreferredChunk = 3
  kHardMaximum = 4
  kMaximumPendingTextBytes = 2
  MaximumFrames = 1
  CallbackFrames = 1
PROPERTIES
  ReportsOpenSession
