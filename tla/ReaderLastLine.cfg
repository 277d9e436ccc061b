\* Texts whose last line is not ended.
SPECIFICATION Spec
CONSTANTS
  MaxInput = 3
  Inputs <- UnendedInputs
  ShutdownLines <- Shutdowns
  CommandLines <- Commands
  kMaximumProtocolLineBytes = 2
  ReadBytes = 2
INVARIANTS
  NoLineUnanswered
