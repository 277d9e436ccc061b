\* A text of three frames for a queue of two.
SPECIFICATION Spec
CONSTANTS
  FrameCounts = {1, 3}
  MaximumFrames = 2
  CallbackFrames = 1
PROPERTIES
  SayExits
