\* Liveness of one session under fair threads; engine and device as each property assumes.
SPECIFICATION ThreadsRun
CONSTANTS
  A = A
  B = B
  Sessions <- OneSession
  Texts <- ShortTexts
  Patches <- OnePatch
  DefaultSettings <- DefaultVoice
  FrameCounts = {1, 2}
  Unsayable = {"a"}
  MaxGeneration = 1
  kMinimumChunk = 2
  kPreferredChunk = 3
  kHardMaximum = 4
  kMaximumPendingTextBytes = 2
  MaximumFrames = 1
  CallbackFrames = 1
PROPERTIES
  FinishCompletes
  AcceptedIsSpoken
  MutexReleased
  ShutdownExits
