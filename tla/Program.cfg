\* Command lines of up to three arguments, every fault, streams of three lines.
SPECIFICATION Spec
CONSTANTS
  Bad = Bad
  Nothing = Nothing
  Absent = Absent
  Int64Max = 3
  Sessions = {"s"}
  Texts <- MCTexts
  Unsayable = {"x"}
  Messages <- MCMessages
  Lines <- MCLines
  MaxLines = 3
  Capacity = 1
  PipeLines = 2
  PipeEvents = 1
  Dashed <- MCDashed
  NumberOf <- MCNumbers
  GainFactor <- MCGains
  Waveform <- MCWaveform
  SampleMax = 7
  Argvs <- MCArgvs
  ConfigPatches <- MCConfigs
INVARIANTS
  EventsMakeSense
  ClientKnows
  LinesParsedRight
  ArgumentsScannedRight
  GainSaturates
  NothingLeftBehind
  PartsOutliveUsers
  EndIsTold
PROPERTIES
  StopsWhenAsked
  LinesServed
