\* Texts of up to the 24 frames that the queue takes and one of more, two frames a callback.
SPECIFICATION Spec
CONSTANTS
  FrameCounts = {0, 1, 2, 5, 11, 12, 23, 24, 25}
  MaximumFrames = 24
  CallbackFrames = 2
INVARIANTS
  SuccessMeansPlayed
PROPERTIES
  FittingTextExits
