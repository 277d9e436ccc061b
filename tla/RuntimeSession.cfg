\* A session interrupted and replaced, phrases in all stages at once.
SPECIFICATION Spec
CONSTANTS
  A = A
  B = B
  Sessions <- OneSession
  Texts <- Sentences
  Patches <- OnePatch
  DefaultSettings <- DefaultVoice
  FrameCounts = {1}
  Unsayable = {"x"}
  MaxGeneration = 3
  kMinimumChunk = 2
  kPreferredChunk = 3
  kHardMaximum = 4
  kMaximumPendingTextBytes = 4
  MaximumFrames = 2
  CallbackFrames = 1
PROPERTIES
  ImplementsSession
