\* Sessions interrupted and replaced, blanks, unsayable text, clips that fill the queue.
SPECIFICATION Spec
CONSTANTS
  A = A
  B = B
  Sessions <- TwoSessions
  Texts <- SafetyTexts
  Patches <- SomePatches
  DefaultSettings <- DefaultVoice
  FrameCounts = {2}
  Unsayable = {"b"}
  MaxGeneration = 3
  kMinimumChunk = 2
  kPreferredChunk = 3
  kHardMaximum = 4
  kMaximumPendingTextBytes = 3
  MaximumFrames = 4
  CallbackFrames = 3
SYMMETRY Symmetry
INVARIANTS
  TypeOK
  OwnedAccounted
  QueueBytesExact
  OutstandingAccounted
  PushNeverRefused
  JobsOfOneSession
  VoiceOfSession
  HeardIsAnnounced
  QueuedFramesExact
PROPERTIES
  SoundOnlyInSession
