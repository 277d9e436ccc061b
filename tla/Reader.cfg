\* All texts of up to four bytes in all divisions, a signal at any time, a fair reader.
SPECIFICATION FairSpec
CONSTANTS
  MaxInput = 4
  Inputs <- AllInputs
  ShutdownLines <- Shutdowns
  CommandLines <- Commands
  kMaximumProtocolLineBytes = 2
  ReadBytes = 2
INVARIANTS
  TypeOK
  PendingIsUnended
  LinesAnswered
PROPERTIES
  SignalEnds
  InputEnds
