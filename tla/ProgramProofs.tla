--------------------------- MODULE ProgramProofs ---------------------------
(***************************************************************************)
(* Theorems about Program.  On every way through main() the parts outlive  *)
(* their users and nothing is left behind; parse_command deals with every  *)
(* line as the documentation says; no gain overflows; the events of        *)
(* `trv stream` make sense to its client, and the last one says what the   *)
(* exit code says; and parse_voice_cli makes of any command line what its  *)
(* arguments mean.  What main() does with the parts, with its exit code,   *)
(* with the voices and with the conversation are invariants, each proved   *)
(* inductive.                                                              *)
(***************************************************************************)
EXTENDS Program, FiniteSetTheorems, WellFoundedInduction, TLAPS

-----------------------------------------------------------------------------
\* The inductive invariant: what there is, by where the main thread is.

Beginning == {"dispatch", "voice", "platform", "kal16"}
Opening == {"rates", "device", "start", "no audio"}
Working == {"doctor", "say", "stream", "loop", "stop"}
Closing == {"forget pipe", "close pipe"}
Ending == {"caught", "report", "exited"}

CommandKnown ==
  /\ main \notin {"dispatch", "exited"} => Command \in {"doctor", "say", "stream"}
  /\ main \in {"doctor", "say", "stream"} => Command = main

VoicesAt ==
  /\ main \in Beginning \cup Ending => registered = {}
  /\ main = "rms" => registered = {"kal16"}
  /\ main \in Opening \cup Working \cup Closing => registered = Models

DeviceAt ==
  /\ main \in Beginning \cup Closing \cup Ending => device = "closed"
  /\ main \in {"rms", "rates", "device", "no audio", "unwind engine"} => device = "closed"
  /\ main = "start" => device = "open"
  /\ main \in Working => device = "started"
  /\ main = "unwind" => device \in {"closed", "started"}

WorkersAt == workers => main = "loop"

PipeAt ==
  /\ handlerPipe => signalPipe
  /\ main = "close pipe" => ~handlerPipe

PartsAt == CommandKnown /\ VoicesAt /\ DeviceAt /\ WorkersAt /\ PipeAt

-----------------------------------------------------------------------------
\* Parsing.

\* The code of a refusal is deserved.
LEMMA RefusalDeserved ==
  ASSUME NEW l, l.form = "object", ParseCode(l) # "none"
  PROVE  Deserves(l.fields, ParseCode(l))
<1> DEFINE m == l.fields
<1>1. CASE ~HasString(m, "type")
  BY <1>1 DEF ParseCode, Deserves, Required, TypeOf
<1>2. CASE HasString(m, "type")
  <2> USE <1>2
  <2>0. TypeOf(m) = m["type"]
    BY DEF TypeOf
  <2>1. CASE m["type"] # "shutdown" /\ (~HasString(m, "session") \/ m["session"] = NoString)
    BY <2>0, <2>1 DEF ParseCode, Deserves, Required
  <2>2. CASE ~(m["type"] # "shutdown" /\ (~HasString(m, "session") \/ m["session"] = NoString))
    <3>1. CASE m["type"] = "start" /\ ~VoiceAccepted(m)
      BY <2>0, <2>2, <3>1 DEF ParseCode, Deserves, VoiceAccepted
    <3>2. CASE m["type"] = "append" /\ ~HasString(m, "text")
      BY <2>0, <2>2, <3>2 DEF ParseCode, Deserves, Required
    <3>3. CASE m["type"] \notin CommandTypes
      BY <2>0, <2>2, <3>3 DEF ParseCode, Deserves, CommandTypes
    <3>4. CASE /\ "seq" \in DOMAIN m /\ ~IsSeq(m["seq"])
               /\ ~(m["type"] = "start" /\ ~VoiceAccepted(m))
               /\ ~(m["type"] = "append" /\ ~HasString(m, "text"))
               /\ m["type"] \in CommandTypes
      <4>1. ParseCode(l) = "invalid_field"
        BY <2>2, <3>4 DEF ParseCode
      <4>2. m["seq"] = Bad \/ m["seq"] \notin (-Int64Max - 1)..Int64Max
        BY <3>4, ProtocolAssumption DEF IsSeq, IsSint, IsUint
      <4> QED BY <3>4, <4>1, <4>2 DEF Deserves
    <3> QED BY <2>2, <3>1, <3>2, <3>3, <3>4 DEF ParseCode
  <2> QED BY <2>1, <2>2
<1> QED BY <1>1, <1>2

\* What is accepted deserves no code.
LEMMA AcceptedDeservesNone ==
  ASSUME NEW l, l.form = "object", ParseCode(l) = "none",
         NEW c \in {"missing_field", "unknown_type", "invalid_voice_settings", "invalid_field"}
  PROVE  ~Deserves(l.fields, c)
<1> DEFINE m == l.fields
<1>1. /\ HasString(m, "type") /\ m["type"] \in CommandTypes
      /\ m["type"] # "shutdown" => HasString(m, "session") /\ m["session"] # NoString
      /\ m["type"] = "start" => VoiceAccepted(m)
      /\ m["type"] = "append" => HasString(m, "text")
      /\ "seq" \in DOMAIN m => IsSeq(m["seq"])
  BY DEF ParseCode
<1>2. TypeOf(m) = m["type"]
  BY <1>1 DEF TypeOf
<1>3. ~Deserves(m, "missing_field")
  BY <1>1, <1>2 DEF Deserves, Required
<1>4. ~Deserves(m, "unknown_type")
  BY <1>1, <1>2 DEF Deserves
<1>5. ~Deserves(m, "invalid_voice_settings")
  BY <1>1, <1>2 DEF Deserves, VoiceAccepted
<1>6. ~Deserves(m, "invalid_field")
  <2>1. ASSUME "seq" \in DOMAIN m
        PROVE  m["seq"] # Bad /\ m["seq"] \in (-Int64Max - 1)..Int64Max
    <3>1. PICK v : v = m["seq"]
      OBVIOUS
    <3>2. IsSeq(v)
      BY <1>1, <2>1, <3>1
    <3>3. v # Bad /\ v \in (-Int64Max - 1)..Int64Max
      BY <3>2, ProtocolAssumption DEF IsSeq, IsSint, IsUint
    <3> QED BY <3>1, <3>3
  <2> QED BY <2>1 DEF Deserves
<1> QED BY <1>3, <1>4, <1>5, <1>6

\* The command says what the client wrote.
LEMMA CommandAsWritten ==
  ASSUME NEW l, l.form = "object", ParseCode(l) = "none"
  PROVE  LET m == l.fields
         IN  /\ "seq" \in DOMAIN m => CommandOf(l).seq = m["seq"]
             /\ \A f \in Required(m["type"]) : CommandOf(l)[f] = m[f]
<1> DEFINE m == l.fields
<1>1. /\ HasString(m, "type") /\ m["type"] \in CommandTypes
      /\ m["type"] # "shutdown" => HasString(m, "session")
      /\ m["type"] = "append" => HasString(m, "text")
      /\ "seq" \in DOMAIN m => IsSeq(m["seq"])
  BY DEF ParseCode
<1>2. ASSUME "seq" \in DOMAIN m PROVE CommandOf(l).seq = m["seq"]
  <2>1. ToInt64(m["seq"]) = m["seq"]
    BY <1>1, <1>2, ProtocolAssumption DEF IsSeq, IsSint, IsUint, ToInt64
  <2> QED BY <1>2, <2>1 DEF CommandOf
<1>3. CommandOf(l)["type"] = m["type"]
  BY DEF CommandOf
<1>4. m["type"] # "shutdown" => CommandOf(l)["session"] = m["session"]
  BY <1>1 DEF CommandOf, HasString
<1>5. m["type"] = "append" => CommandOf(l)["text"] = m["text"]
  BY <1>1 DEF CommandOf, HasString
<1> QED BY <1>2, <1>3, <1>4, <1>5 DEF Required

LEMMA EveryLineParsedRight ==
  ASSUME NEW l, IsLine(l)
  PROVE  ParsedRight(l)
<1>1. CASE l.form # "object"
  BY <1>1 DEF ParsedRight, ParseCode
<1>2. CASE l.form = "object" /\ ParseCode(l) # "none"
  BY <1>2, RefusalDeserved DEF ParsedRight
<1>3. CASE l.form = "object" /\ ParseCode(l) = "none"
  <2>1. \A c \in {"missing_field", "unknown_type", "invalid_voice_settings", "invalid_field"} :
          ~Deserves(l.fields, c)
    BY <1>3, AcceptedDeservesNone
  <2> QED BY <1>3, <2>1, CommandAsWritten DEF ParsedRight
<1> QED BY <1>1, <1>2, <1>3

\* Whatever a client may send, with whatever fields, parse_command refuses it
\* only for a reason there is, accepts it only when there is none, and hands on
\* what the client wrote, its seq included.
THEOREM ParsingCorrect == Spec => []LinesParsedRight
<1>1. LinesParsedRight
  BY MessagesAssumption, EveryLineParsedRight DEF LinesParsedRight
<1> QED BY <1>1, PTL
-----------------------------------------------------------------------------
\* The parts of the program.

LEMMA PartsInit == Init => PartsAt
  BY DEF Init, EngineInit, PartsAt, CommandKnown, VoicesAt, DeviceAt, WorkersAt, PipeAt,
         Beginning, Opening, Working, Closing, Ending

\* From the arguments to the device.
LEMMA EnteringKeepsParts ==
  ASSUME PartsAt,
         \/ Dispatch \/ (\E config \in ConfigPatches : LoadVoice(config)) \/ LoadFails
         \/ CommandFails \/ Platform
         \/ RegisterVoice("kal16", "rms") \/ RegisterVoice("rms", "rates")
         \/ EngineFails \/ CheckRates \/ OpenFails \/ OpenDevice \/ StartFails \/ StartDevice
  PROVE  PartsAt'
<1> USE DEF PartsAt, CommandKnown, VoicesAt, DeviceAt, WorkersAt, PipeAt, Parts, Main,
            Beginning, Opening, Working, Closing, Ending, Command
<1>1. CASE Dispatch
  <2>1. UNCHANGED <<argv, registered, Parts>>
    BY <1>1 DEF Dispatch
  <2>2. CASE main' = "platform"
    <3>1. IsDoctor
      BY <1>1, <2>2 DEF Dispatch
    <3>2. argv[1] = "doctor"
      <4>1. CASE argv = <<"doctor">>
        BY <4>1
      <4>2. CASE argv = <<"doctor", "--json">>
        BY <4>2
      <4> QED BY <3>1, <4>1, <4>2 DEF IsDoctor
    <3> QED BY <1>1, <2>1, <2>2, <3>2 DEF Dispatch
  <2>3. CASE main' = "voice"
    <3>1. argv[1] \in {"say", "stream"}
      BY <1>1, <2>3 DEF Dispatch, IsUsable
    <3> QED BY <1>1, <2>1, <2>3, <3>1 DEF Dispatch
  <2>4. CASE main' = "exited"
    BY <1>1, <2>1, <2>4 DEF Dispatch
  <2> QED BY <1>1, <2>2, <2>3, <2>4 DEF Dispatch
<1>2. CASE \E config \in ConfigPatches : LoadVoice(config)
  BY <1>2 DEF LoadVoice
<1>3. CASE LoadFails
  BY <1>3 DEF LoadFails
<1>4. ASSUME NEW who, NEW exitCode,
             NEW from \in {"platform", "no audio", "caught"},
             NEW to \in {"exited", "report", "unwind"},
             from = "no audio" <=> to = "unwind",
             Returns(who, from, to, exitCode)
      PROVE  PartsAt'
  BY <1>4 DEF Returns
<1>5. CASE CommandFails
  BY <1>4, <1>5
     DEF CommandFails, DoctorUnsupported, SayUnsupported, StreamUnsupported, NoText,
         DoctorNoAudio, SayNoAudio, StreamNoAudio, DoctorCaught, SayCaught, StreamCaught
<1>6. CASE Platform
  BY <1>6 DEF Platform
<1>7. CASE RegisterVoice("kal16", "rms")
  BY <1>7 DEF RegisterVoice, Register
<1>8. CASE RegisterVoice("rms", "rates")
  BY <1>8 DEF RegisterVoice, Register, Models
<1>9. CASE EngineFails
  BY <1>9 DEF EngineFails, EngineLacks, Unregister
<1>10. CASE CheckRates
  BY <1>10 DEF CheckRates
<1>11. CASE OpenFails
  BY <1>11 DEF OpenFails
<1>12. CASE OpenDevice
  BY <1>12 DEF OpenDevice
<1>13. CASE StartFails
  BY <1>13 DEF StartFails
<1>14. CASE StartDevice
  BY <1>14 DEF StartDevice
<1> QED
  BY <1>1, <1>2, <1>3, <1>5, <1>6, <1>7, <1>8, <1>9, <1>10, <1>11, <1>12, <1>13, <1>14

\* From the device to the exit code.
LEMMA LeavingKeepsParts ==
  ASSUME PartsAt,
         \/ Doctor \/ Say \/ SayFails \/ SayNotQueued
         \/ NoPipe \/ StartStream \/ LoopEnds \/ StopAudio \/ ForgetPipe \/ ClosePipe
         \/ UnwindDevice \/ UnwindEngine \/ Reported \/ WriteError
  PROVE  PartsAt'
<1> USE DEF PartsAt, CommandKnown, VoicesAt, DeviceAt, WorkersAt, PipeAt, Parts, Main,
            Beginning, Opening, Working, Closing, Ending, Command, Stopped
<1>1. CASE Doctor
  BY <1>1 DEF Doctor, Succeeds
<1>2. CASE Say
  BY <1>2 DEF Say, Succeeds
<1>3. CASE SayFails
  BY <1>3 DEF SayFails, Throws
<1>4. CASE NoPipe
  BY <1>4 DEF NoPipe, Throws
<1>5. CASE StartStream
  BY <1>5 DEF StartStream
<1>6. CASE LoopEnds
  BY <1>6 DEF LoopEnds
<1>7. CASE StopAudio
  BY <1>7 DEF StopAudio
<1>8. CASE ForgetPipe
  BY <1>8 DEF ForgetPipe
<1>9. CASE ClosePipe
  BY <1>9 DEF ClosePipe
<1>10. CASE UnwindDevice
  BY <1>10 DEF UnwindDevice, CanUnwind
<1>11. CASE UnwindEngine
  BY <1>11 DEF UnwindEngine, Unregister
<1>12. CASE SayNotQueued
  BY <1>12 DEF SayNotQueued, Returns
<1>13. CASE Reported
  BY <1>13 DEF Reported
<1>14. CASE WriteError
  BY <1>14 DEF WriteError, programVars
<1> QED
  BY <1>1, <1>2, <1>3, <1>4, <1>5, <1>6, <1>7, <1>8, <1>9, <1>10, <1>11, <1>12, <1>13, <1>14

\* The threads, the client and the signal leave the parts alone.
LEMMA PartsStep == PartsAt /\ [Next]_vars => PartsAt'
<1> SUFFICES ASSUME PartsAt, [Next]_vars PROVE PartsAt'
  OBVIOUS
<1>1. CASE MainStep
  BY <1>1, EnteringKeepsParts, LeavingKeepsParts DEF MainStep
<1> USE DEF PartsAt, CommandKnown, VoicesAt, DeviceAt, WorkersAt, PipeAt, Parts, Command,
            programVars
<1>2. CASE ReaderLoop \/ WorkerLoop
  <2>1. UNCHANGED <<registered, programVars>>
    BY <1>2 DEF ReaderLoop, WorkerLoop, LoopUnchanged
  <2> QED BY <2>1
<1>3. CASE ReadFails
  BY <1>3 DEF ReadFails
<1>4. CASE ClientActs
  BY <1>4 DEF ClientActs
<1>5. CASE Exited \/ UNCHANGED vars
  <2>1. UNCHANGED <<registered, programVars>>
    BY <1>5 DEF Exited, vars
  <2> QED BY <2>1
<1> QED BY <1>1, <1>2, <1>3, <1>4, <1>5 DEF Next

LEMMA PartsAlways == Spec => []PartsAt
  BY PartsInit, PartsStep, PTL DEF Spec

\* However main() is left - by a return, by an exception in a constructor or in
\* the loop - no voice stays registered, no device open and no thread running.
THEOREM CleanExit == Spec => []NothingLeftBehind
<1>1. PartsAt => NothingLeftBehind
  BY DEF PartsAt, VoicesAt, DeviceAt, WorkersAt, NothingLeftBehind, Ending
<1> QED BY <1>1, PartsAlways, PTL

\* Whoever speaks, `say` or the threads of the runtime, has the engine's voices
\* and a started device, and the signal handler writes to no pipe that is closed.
THEOREM PartsInOrder == Spec => []PartsOutliveUsers
<1>1. PartsAt => PartsOutliveUsers
  BY DEF PartsAt, VoicesAt, DeviceAt, WorkersAt, PipeAt, PartsOutliveUsers, Working
<1> QED BY <1>1, PartsAlways, PTL

-----------------------------------------------------------------------------
\* There is no exit code before something returns, and only an exception leaves
\* the loop.

StatusAt ==
  /\ main \in Beginning \cup Opening \cup {"rms", "doctor", "say", "stream", "stop"} \cup Closing
       => status = Running
  /\ main = "loop" => status \in {Running, Thrown}

LEMMA EnteringKeepsStatus ==
  ASSUME StatusAt, CommandKnown,
         \/ Dispatch \/ (\E config \in ConfigPatches : LoadVoice(config)) \/ LoadFails
         \/ CommandFails \/ Platform
         \/ RegisterVoice("kal16", "rms") \/ RegisterVoice("rms", "rates")
         \/ EngineFails \/ CheckRates \/ OpenFails \/ OpenDevice \/ StartFails \/ StartDevice
  PROVE  StatusAt'
<1> USE DEF StatusAt, Main, Beginning, Opening, Closing
<1>1. CASE CommandFails
  <2>1. main' \in {"exited", "report", "unwind"}
    BY <1>1 DEF CommandFails, DoctorUnsupported, SayUnsupported, StreamUnsupported, NoText,
                DoctorNoAudio, SayNoAudio, StreamNoAudio, DoctorCaught, SayCaught, StreamCaught,
                Returns
  <2> QED BY <2>1
<1>2. CASE \/ Dispatch \/ (\E config \in ConfigPatches : LoadVoice(config)) \/ LoadFails \/ Platform
           \/ RegisterVoice("kal16", "rms") \/ RegisterVoice("rms", "rates")
           \/ EngineFails \/ CheckRates \/ OpenFails \/ OpenDevice \/ StartFails
  BY <1>2 DEF Dispatch, LoadVoice, LoadFails, Platform, RegisterVoice, EngineFails, EngineLacks,
              CheckRates, OpenFails, OpenDevice, StartFails
<1>3. CASE StartDevice
  BY <1>3 DEF StartDevice, CommandKnown
<1> QED BY <1>1, <1>2, <1>3

LEMMA LeavingKeepsStatus ==
  ASSUME StatusAt,
         \/ Doctor \/ Say \/ SayFails \/ SayNotQueued
         \/ NoPipe \/ StartStream \/ LoopEnds \/ StopAudio \/ ForgetPipe \/ ClosePipe
         \/ UnwindDevice \/ UnwindEngine \/ Reported \/ WriteError
  PROVE  StatusAt'
<1> USE DEF StatusAt, Main, Beginning, Opening, Closing
<1>1. CASE Doctor \/ Say \/ SayFails \/ SayNotQueued \/ NoPipe
  BY <1>1 DEF Doctor, Say, SayFails, SayNotQueued, NoPipe, Succeeds, Throws, Returns
<1>2. CASE StartStream \/ LoopEnds \/ StopAudio \/ ForgetPipe \/ ClosePipe
  BY <1>2 DEF StartStream, LoopEnds, StopAudio, ForgetPipe, ClosePipe
<1>3. CASE UnwindDevice \/ UnwindEngine \/ Reported \/ WriteError
  BY <1>3 DEF UnwindDevice, CanUnwind, UnwindEngine, Reported, WriteError, programVars
<1> QED BY <1>1, <1>2, <1>3

LEMMA StatusStep == StatusAt /\ CommandKnown /\ [Next]_vars => StatusAt'
<1> SUFFICES ASSUME StatusAt, CommandKnown, [Next]_vars PROVE StatusAt'
  OBVIOUS
<1>1. CASE MainStep
  BY <1>1, EnteringKeepsStatus, LeavingKeepsStatus DEF MainStep
<1>2. CASE ReaderLoop \/ WorkerLoop \/ ClientActs \/ Exited \/ UNCHANGED vars
  BY <1>2 DEF ReaderLoop, WorkerLoop, ClientActs, LoopUnchanged, Exited, vars, programVars, StatusAt
<1>3. CASE ReadFails
  BY <1>3 DEF ReadFails, StatusAt, Beginning, Opening, Closing
<1> QED BY <1>1, <1>2, <1>3 DEF Next

LEMMA StatusAlways == Spec => []StatusAt
<1>1. Init => StatusAt
  BY DEF Init, StatusAt
<1>2. PartsAt => CommandKnown
  BY DEF PartsAt
<1> QED BY <1>1, <1>2, StatusStep, PartsAlways, PTL DEF Spec

-----------------------------------------------------------------------------
\* Voices and samples.

VoicesInOrder == \A v \in {voice, settings} : v["model"] \in Models /\ NumbersInRange(v)

\* Scaling, rounding and clamping keep the order and the signs of samples.
LEMMA ProductMonotone ==
  ASSUME NEW a \in Int, NEW b \in Int, a <= b, NEW f \in Nat
  PROVE  a * f <= b * f
<1>1. (b - a) * f >= 0
  OBVIOUS
<1> QED BY <1>1

LEMMA RoundedMonotone ==
  ASSUME NEW x \in Int, NEW y \in Int, x <= y
  PROVE  /\ Rounded(x) \in Int /\ Rounded(x) <= Rounded(y)
BY DEF Rounded

LEMMA RoundedSign ==
  ASSUME NEW x \in Int
  PROVE  /\ x >= 0 => Rounded(x) >= 0
         /\ x <= 0 => Rounded(x) <= 0
BY DEF Rounded
LEMMA ClampedFacts ==
  ASSUME NEW x \in Int
  PROVE  /\ Clamped(x) \in (-SampleMax - 1)..SampleMax
         /\ \A y \in Int : x <= y => Clamped(x) <= Clamped(y)
         /\ x >= 0 => Clamped(x) >= 0
         /\ x <= 0 => Clamped(x) <= 0
BY GainAssumption DEF Clamped

\* Whatever the gain and the samples are.
LEMMA GainSaturatesFor ==
  ASSUME NEW v, NumbersInRange(v)
  PROVE  Saturates(v)
<1> DEFINE Samples == (-SampleMax - 1)..SampleMax
           loud == Gained(Waveform, v)
           n == Len(Waveform)
<1>1. /\ n \in Nat /\ \A i \in 1..n : Waveform[i] \in Samples /\ Waveform[i] \in Int
  BY GainAssumption
<1>2. CASE v["gain_db"] = 0
  BY <1>1, <1>2 DEF Gained, Saturates
<1>3. CASE v["gain_db"] # 0
  <2>0. v["gain_db"] \in Minimum["gain_db"]..Maximum["gain_db"]
    BY DEF NumbersInRange, InRange, Numbers
  <2>1. PICK f \in Nat : f = GainFactor[v["gain_db"]]
    BY <2>0, GainAssumption
  <2> DEFINE scaled(i) == Waveform[i] * f
  <2>2. \A i \in 1..n : loud[i] = Clamped(Rounded(scaled(i)))
    BY <1>3, <2>1 DEF Gained
  <2>3. ASSUME NEW i \in 1..n PROVE scaled(i) \in Int /\ Rounded(scaled(i)) \in Int
    <3>1. scaled(i) \in Int
      BY <1>1, <2>1
    <3> HIDE DEF scaled
    <3> QED
      BY <3>1, RoundedMonotone
  <2>4. ASSUME NEW i \in 1..n, NEW j \in 1..n, Waveform[i] <= Waveform[j]
        PROVE  loud[i] <= loud[j]
    <3>1. scaled(i) <= scaled(j)
      BY <1>1, <2>1, <2>4, ProductMonotone
    <3> HIDE DEF scaled, loud
    <3>2. Rounded(scaled(i)) <= Rounded(scaled(j))
      BY <2>3, <3>1, RoundedMonotone
    <3> QED
      BY <2>2, <2>3, <3>2, ClampedFacts
  <2>5. ASSUME NEW i \in 1..n
        PROVE  /\ loud[i] \in Samples
               /\ Waveform[i] >= 0 => loud[i] >= 0
               /\ Waveform[i] <= 0 => loud[i] <= 0
    <3>1. (Waveform[i] >= 0 => scaled(i) >= 0) /\ (Waveform[i] <= 0 => scaled(i) <= 0)
      BY <1>1, <2>1, ProductMonotone
    <3> HIDE DEF scaled, loud
    <3>2. /\ Waveform[i] >= 0 => Rounded(scaled(i)) >= 0
          /\ Waveform[i] <= 0 => Rounded(scaled(i)) <= 0
      BY <2>3, <3>1, RoundedSign
    <3> QED
      BY <2>2, <2>3, <3>2, ClampedFacts
  <2> HIDE DEF loud
  <2> QED
    BY <2>4, <2>5 DEF Saturates, loud
<1> QED
  BY <1>2, <1>3

LEMMA DefaultVoiceInOrder ==
  DefaultVoice["model"] \in Models /\ NumbersInRange(DefaultVoice)
<1>1. "default" \in DOMAIN PresetValues /\ PresetValues["default"] =
        [preset |-> "default", speed |-> 100, pitch_semitones |-> 0, expression |-> 100,
         gain_db |-> 0]
  BY DEF PresetValues
<1>2. \A f \in Numbers : DefaultVoice[f] = PresetValues["default"][f]
  BY <1>1 DEF DefaultVoice, Overlay, Fields, Numbers
<1>3. \A f \in Numbers : InRange(f, PresetValues["default"][f])
  BY <1>1 DEF Numbers, InRange, Minimum, Maximum
<1>4. DefaultVoice["model"] = "kal16"
  BY <1>1 DEF DefaultVoice, Overlay, Fields
<1> QED
  BY <1>2, <1>3, <1>4 DEF NumbersInRange, Models

\* A patch that succeeds leaves a voice in order.
LEMMA PatchedInOrder ==
  ASSUME NEW v, NEW patch, v["model"] \in Models, PatchSucceeds(v, patch)
  PROVE  Patched(v, patch)["model"] \in Models /\ NumbersInRange(Patched(v, patch))
<1>1. Patched(v, patch) = Overlay(WithPreset(v, patch), patch)
  BY DEF PatchSucceeds, Patched
<1>2. WithPreset(v, patch)["model"] \in Models
  <2>1. CASE "preset" \in DOMAIN patch
    <3>1. patch["preset"] \in Presets
      BY <2>1 DEF PatchSucceeds, KnownPreset
    <3>2. "model" \notin DOMAIN PresetValues[patch["preset"]]
      BY <3>1 DEF Presets, PresetValues
    <3> QED
      BY <2>1, <3>2 DEF WithPreset, Overlay, Fields
  <2>2. CASE "preset" \notin DOMAIN patch
    BY <2>2 DEF WithPreset
  <2> QED BY <2>1, <2>2
<1>3. Overlay(WithPreset(v, patch), patch)["model"] \in Models
  BY <1>2 DEF Overlay, Fields, PatchSucceeds, KnownModel
<1> QED
  BY <1>1, <1>3 DEF PatchSucceeds

\* Who changes a voice: the arguments and the configuration, the start of the
\* stream, a start command, the end of the stream.
LEMMA VoicesMove ==
  ASSUME [Next]_vars
  PROVE  \/ UNCHANGED <<settings, voice>>
         \/ \E config \in ConfigPatches : LoadVoice(config)
         \/ settings' = settings /\ voice' \in {settings, DefaultVoice}
         \/ /\ settings' = settings /\ PatchSucceeds(settings, command.voice)
            /\ voice' = Patched(settings, command.voice)
<1>1. CASE MainStep
  <2>1. CASE \/ Dispatch \/ LoadFails \/ Platform
             \/ RegisterVoice("kal16", "rms") \/ RegisterVoice("rms", "rates")
             \/ EngineFails \/ CheckRates \/ OpenFails \/ OpenDevice \/ StartFails
             \/ StartDevice
    BY <2>1 DEF Dispatch, LoadFails, Platform, RegisterVoice, EngineFails,
                CheckRates, OpenFails, OpenDevice, StartFails, StartDevice, streamVars, sessionVars
  <2>2. CASE \/ Doctor \/ Say \/ SayFails \/ SayNotQueued \/ NoPipe \/ StopAudio \/ ForgetPipe
             \/ ClosePipe \/ UnwindDevice \/ UnwindEngine \/ Reported \/ WriteError
    BY <2>2 DEF Doctor, Say, SayFails, SayNotQueued, NoPipe, StopAudio, ForgetPipe, ClosePipe,
                UnwindDevice, UnwindEngine, Reported, WriteError, Write, Succeeds, Throws,
                streamVars, sessionVars
  <2>3. CASE StartStream \/ LoopEnds
    BY <2>3 DEF StartStream, LoopEnds
  <2>4. CASE CommandFails
    BY <2>4 DEF CommandFails, DoctorUnsupported, SayUnsupported, StreamUnsupported, NoText,
                DoctorNoAudio, SayNoAudio, StreamNoAudio, DoctorCaught, SayCaught, StreamCaught,
                Tell, streamVars, sessionVars
  <2> QED BY <1>1, <2>1, <2>2, <2>3, <2>4 DEF MainStep
<1>2. CASE ReaderLoop
  <2>1. CASE Start
    BY <2>1 DEF Start, Handles, Goes
  <2>2. CASE \/ (\E n \in 1..Len(input) : ReadLines(n))
             \/ TakeLine \/ LeaveLoop \/ Refuse
             \/ (\E type \in CommandTypes : Reject(type))
             \/ AppendText \/ Backpressure \/ Finish \/ Interrupt \/ Interrupted
             \/ ShutdownCommand \/ Farewell \/ Close \/ CloseDone \/ Join \/ Write("reader")
    BY <2>2 DEF ReadLines, TakeLine, LeaveLoop, Refuse, Reject, AppendText, Backpressure, Finish,
                Interrupt, Interrupted, ShutdownCommand, Farewell, Close, CloseDone, Join, Write,
                Handles, Goes, Quiet, sessionVars
  <2> QED BY <1>2, <2>1, <2>2 DEF ReaderLoop, ReaderStep
<1>3. CASE WorkerLoop
  BY <1>3 DEF WorkerLoop, WorkerStep, Announce, Complete, Retire, Play, Fail, LeaveOut, Works, Write
<1>4. CASE ReadFails \/ ClientActs
  BY <1>4 DEF ReadFails, ClientActs, ClientSends, ClientCloses, SignalArrives, ClientReads,
              streamVars, sessionVars
<1>5. CASE Exited \/ UNCHANGED vars
  BY <1>5 DEF Exited, vars, streamVars, sessionVars
<1> QED BY <1>1, <1>2, <1>3, <1>4, <1>5 DEF Next

LEMMA VoicesStep == VoicesInOrder /\ [Next]_vars => VoicesInOrder'
<1> SUFFICES ASSUME VoicesInOrder, [Next]_vars PROVE VoicesInOrder'
  OBVIOUS
<1>1. CASE \E config \in ConfigPatches : LoadVoice(config)
  <2>1. PICK config \in ConfigPatches : LoadVoice(config)
    BY <1>1
  <2> DEFINE base == Patched(DefaultVoice, config)
             patch == Scan(Arguments).patch
  <2>2. /\ PatchSucceeds(DefaultVoice, config) /\ PatchSucceeds(base, patch)
        /\ settings' = Patched(base, patch) /\ voice' = voice
    BY <2>1 DEF LoadVoice, sessionVars
  <2>3. base["model"] \in Models
    BY <2>2, DefaultVoiceInOrder, PatchedInOrder
  <2> HIDE DEF base, patch
  <2>4. settings'["model"] \in Models /\ NumbersInRange(settings')
    BY <2>2, <2>3, PatchedInOrder
  <2> QED
    BY <2>2, <2>4 DEF VoicesInOrder
<1>2. CASE settings' = settings /\ voice' \in {voice, settings, DefaultVoice}
  BY <1>2, DefaultVoiceInOrder DEF VoicesInOrder
<1>3. CASE /\ settings' = settings /\ PatchSucceeds(settings, command.voice)
           /\ voice' = Patched(settings, command.voice)
  <2>1. voice'["model"] \in Models /\ NumbersInRange(voice')
    BY <1>3, PatchedInOrder DEF VoicesInOrder
  <2> QED
    BY <1>3, <2>1 DEF VoicesInOrder
<1> QED BY <1>1, <1>2, <1>3, VoicesMove

LEMMA VoicesAlways == Spec => []VoicesInOrder
<1>1. Init => VoicesInOrder
  BY DefaultVoiceInOrder DEF Init, StreamInit, VoicesInOrder
<1> QED BY <1>1, VoicesStep, PTL DEF Spec

\* Every voice that the program ever uses keeps the order and the signs of the
\* samples and stays within their width, for all samples and gains.
THEOREM GainIsSafe == Spec => []GainSaturates
<1>1. VoicesInOrder => GainSaturates
  BY GainSaturatesFor DEF VoicesInOrder, GainSaturates
<1> QED BY <1>1, VoicesAlways, PTL

-----------------------------------------------------------------------------
(***************************************************************************)
(* The conversation of `trv stream`, first by itself: an invariant of the  *)
(* steps of the loop, of its threads and of its client.                    *)
(*                                                                         *)
(* It says of each thread which event it may be writing, by who holds      *)
(* state_mutex and where the reader is; that the client knows the session  *)
(* whenever nobody holds the mutex; and that the client remembers the      *)
(* lines that are still to be answered, and before them the one that is    *)
(* being answered, whose seq an event may give back.                       *)
(***************************************************************************)

\* json_event gives an event exactly the fields it is called with.
LEMMA EventFields ==
  ASSUME NEW type, NEW name, NEW code, NEW recoverable, NEW seq, NEW bytes, NEW used
  PROVE  LET e == JsonEvent(type, name, code, recoverable, seq, bytes, used)
         IN  /\ e # Unsaid /\ e["type"] = type
             /\ name # NoString => e["session"] = name
             /\ \A x : Has(e, "session", x) <=> name # NoString /\ x = name
             /\ \A x : Has(e, "code", x) <=> code # NoString /\ x = code
             /\ \A x : Has(e, "recoverable", x) <=> code # NoString /\ x = recoverable
             /\ "seq" \in DOMAIN e <=> seq # Nothing
             /\ seq # Nothing => e["seq"] = seq
<1> DEFINE all == [type |-> type, session |-> name, code |-> code,
                   recoverable |-> recoverable, seq |-> seq, bytes |-> bytes, voice |-> used]
           given == {"type"} \cup {f \in {"session"} : name # NoString}
                      \cup {f \in {"code", "recoverable"} : code # NoString}
                      \cup {f \in {"seq", "bytes", "voice"} : all[f] # Nothing}
           e == [f \in given |-> all[f]]
<1>1. JsonEvent(type, name, code, recoverable, seq, bytes, used) = e
  BY DEF JsonEvent
<1>2. /\ "type" \in given
      /\ "session" \in given <=> name # NoString
      /\ "code" \in given <=> code # NoString
      /\ "recoverable" \in given <=> code # NoString
      /\ "seq" \in given <=> seq # Nothing
  OBVIOUS
<1>3. /\ all["type"] = type /\ all["session"] = name /\ all["code"] = code
      /\ all["recoverable"] = recoverable /\ all["seq"] = seq
  OBVIOUS
<1> HIDE DEF all, given
<1>4. DOMAIN e = given /\ \A f \in given : e[f] = all[f]
  OBVIOUS
<1> HIDE DEF e
<1>5. e # Unsaid
  <2>1. DOMAIN Unsaid = {}
    BY DEF Unsaid, NoPatch
  <2> QED BY <1>2, <1>4, <2>1
<1> QED BY <1>1, <1>2, <1>3, <1>4, <1>5 DEF Has

-----------------------------------------------------------------------------
\* The inductive invariant of the conversation.

Serving ==
  {"ready", "take", "handle", "answer", "interrupt", "shutdown", "farewell", "close", "closing"}

Known == {"ready", "session", "announced", "interrupted", "unechoed", "end", "surprised"}

ShapeAt ==
  /\ client = [f \in Known |-> client[f]]
  /\ client.surprised = FALSE
  /\ client.ready \in BOOLEAN /\ client.announced \in BOOLEAN
  /\ said = [t \in Workers \cup {"reader"} |-> said[t]]
  /\ reader \in Serving \cup {"none", "join", "left"}
  /\ holder \in Workers \cup {"reader", "none"}
  /\ phase \in {"idle", "receiving", "finishing", "interrupting"}
  /\ announced \in BOOLEAN

SessionAt ==
  /\ phase = "idle" => session = NoString /\ announced = FALSE
  /\ phase # "idle" => session # NoString
  /\ reader \in {"none", "ready", "join", "left"} => phase = "idle" /\ holder = "none"
  /\ phase = "interrupting" <=> reader \in {"interrupt", "closing"}

\* Text is accepted only after the client was told of the session.
TextAt == phase \in {"receiving", "finishing"} => client.session = session \/ pending = <<>>

\* The client knows what it may know of the session.
InSync == client.session = session /\ client.announced = announced

\* Kinds of events.
Untagged(e) == "seq" \notin DOMAIN e
Passing(e) == ~Final(e) /\ ~Failure(e)
Bare(e) == Untagged(e) /\ ~Has(e, "code", "backpressure")
PlainError(e) == e["type"] = "error" /\ Bare(e)

\* The failure of a phrase of a session that there is or that was interrupted.
Failed(e) ==
  /\ PlainError(e) /\ Failure(e)
  /\ \E s \in {client.session} \cup client.interrupted : s # NoString /\ Has(e, "session", s)

\* What the synthesis thread says, and the client does not yet know.
SynthesisSays ==
  LET e == said["synthesis"]
  IN  /\ e # Unsaid =>
           /\ Untagged(e) /\ reader \notin {"none", "ready", "left"}
           /\ IF holder = "synthesis" THEN Passing(e) ELSE Failed(e) /\ held > 0
      /\ holder = "synthesis" =>
           /\ e # Unsaid /\ e["type"] = "speaking" /\ Has(e, "session", session)
           /\ phase \in {"receiving", "finishing"} /\ announced = TRUE
           /\ client.session = session /\ client.announced = FALSE

MaintenanceSays ==
  LET e == said["maintenance"]
  IN  /\ (e # Unsaid) <=> holder = "maintenance"
      /\ e # Unsaid =>
           /\ Untagged(e) /\ Passing(e)
           /\ e["type"] = "finished" /\ Has(e, "session", client.session)
           /\ client.session # NoString /\ phase = "idle"
           /\ said["synthesis"] = Unsaid

\* What the reader says of the session while it holds state_mutex.
Answering(e) ==
  \/ /\ e["type"] = "session_started" /\ Bare(e) /\ Has(e, "session", session)
     /\ phase = "receiving" /\ announced = FALSE
     /\ client.session = NoString /\ client.announced = FALSE
  \/ /\ e["type"] = "accepted" \/ (e["type"] = "error" /\ Has(e, "code", "backpressure"))
     /\ Has(e, "session", session) /\ phase = "receiving" /\ InSync
     /\ "seq" \in DOMAIN e => e["seq"] = EchoOf(line)
  \/ /\ e["type"] = "interrupted" /\ Untagged(e) /\ Has(e, "session", client.session)
     /\ phase = "idle" /\ client.session # NoString
  \/ PlainError(e) /\ InSync

ReaderSays ==
  LET e == said["reader"]
      Saying(type) == e # Unsaid /\ e["type"] = type /\ Bare(e) /\ Passing(e)
  IN  /\ reader = "ready" => Saying("ready")
      /\ reader = "farewell" => Saying("shutting_down")
      /\ reader = "answer" =>
           /\ e # Unsaid /\ Passing(e)
           /\ IF holder = "reader" THEN Answering(e) ELSE PlainError(e)
      /\ e # Unsaid => reader \in {"ready", "answer", "farewell", "none", "left"}
      /\ reader \in {"none", "left"} /\ e # Unsaid =>
           PlainError(e) /\ Final(e) /\ client.end = NoString
      /\ holder = "reader" => reader \in {"answer", "interrupt", "closing"}
      /\ reader \in {"interrupt", "closing"} => holder = "reader"

SyncAt ==
  \/ holder = "none" /\ reader \in Serving
  \/ reader \in {"interrupt", "closing"}
  => InSync

LifeAt ==
  /\ reader = "ready" => ~client.ready
  /\ reader \in (Serving \ {"ready"}) \cup {"join", "left"} => client.ready
  /\ reader \in Serving \ {"close", "closing"} => client.end = NoString

TalkInv ==
  /\ ShapeAt /\ SessionAt /\ TextAt /\ SyncAt /\ LifeAt
  /\ SynthesisSays /\ MaintenanceSays /\ ReaderSays

\* The lines that may still be answered, in their order.
Rest == batch \o input
Owed == IF reader = "handle" THEN <<line>> \o Rest ELSE Rest

\* What `seqs` ends with, after its first n, are the seqs of `lines`.
EndsWith(seqs, n, lines) ==
  /\ Len(seqs) = n + Len(lines)
  /\ \A i \in 1..Len(lines) : seqs[n + i] = EchoOf(lines[i])

\* The client remembers last the lines that it is owed, and just before them the
\* one that is being answered.
Remembers(n) ==
  /\ EndsWith(client.unechoed, n, Owed)
  /\ reader \in {"answer", "interrupt"} => n > 0 /\ client.unechoed[n] = EchoOf(line)

Echoes == {EchoOf(l) : l \in Lines}
LinesAt ==
  /\ input \in Seq(Lines) /\ batch \in Seq(Lines)
  /\ reader = "handle" => line \in Lines
  /\ client.unechoed \in Seq(Echoes)

OwedAt ==
  reader \in {"ready", "take", "handle", "answer", "interrupt"} => \E n \in Nat : Remembers(n)

-----------------------------------------------------------------------------
\* Lines.

LEMMA CodesAreNames ==
  /\ "backpressure" # NoString /\ "synthesis_failed" # NoString /\ "invalid_state" # NoString
  /\ "backpressure" # "synthesis_failed" /\ "shutting_down" # NoString
  BY DEF NoString

LEMMA RefusalCodes ==
  ASSUME NEW l, IsLine(l)
  PROVE  ParseCode(l) # "backpressure" /\ ParseCode(l) # "synthesis_failed"
  BY DEF IsLine, ParseCode

LEMMA AcceptedFields ==
  ASSUME NEW l \in Lines, ParseCode(l) = "none"
  PROVE  /\ CommandOf(l).type \in CommandTypes
         /\ CommandOf(l).type # "shutdown" => CommandOf(l).session # NoString
         /\ CommandOf(l).type = "append" /\ CommandOf(l).seq # Nothing =>
              CommandOf(l).seq = EchoOf(l)
<1> DEFINE m == l.fields
<1>1. l.form = "object"
  BY MessagesAssumption DEF IsLine, ParseCode
<1>2. /\ m["type"] \in CommandTypes
      /\ m["type"] # "shutdown" => HasString(m, "session") /\ m["session"] # NoString
      /\ "seq" \in DOMAIN m => IsSeq(m["seq"])
  BY <1>1 DEF ParseCode
<1>3. CommandOf(l).type = m["type"]
  BY DEF CommandOf
<1>4. m["type"] # "shutdown" => CommandOf(l).session = m["session"]
  BY <1>2 DEF CommandOf, HasString
<1>5. CommandOf(l).seq # Nothing => "seq" \in DOMAIN m /\ CommandOf(l).seq = m["seq"]
  <2>1. ASSUME "seq" \in DOMAIN m PROVE ToInt64(m["seq"]) = m["seq"]
    BY <1>2, <2>1, ProtocolAssumption DEF IsSeq, IsSint, IsUint, ToInt64
  <2> QED BY <2>1 DEF CommandOf
<1>6. m["type"] = "append" /\ "seq" \in DOMAIN m => EchoOf(l) = m["seq"]
  BY DEF EchoOf
<1> QED BY <1>2, <1>3, <1>4, <1>5, <1>6

-----------------------------------------------------------------------------
\* Events.

LEMMA PlainEvent ==
  ASSUME NEW type, NEW name
  PROVE  LET e == Event(type, name)
         IN  /\ e # Unsaid /\ e["type"] = type /\ Untagged(e) /\ Bare(e) /\ Passing(e)
             /\ EndSaid(e) = IF type = "shutting_down" THEN type ELSE NoString
             /\ name # NoString => Has(e, "session", name)
<1>0. PICK recoverable : recoverable = FALSE
  OBVIOUS
<1>1. PICK e : e = JsonEvent(type, name, NoString, recoverable, Nothing, Nothing, Nothing)
  OBVIOUS
<1>2. /\ e # Unsaid /\ e["type"] = type
      /\ \A x : Has(e, "session", x) <=> name # NoString /\ x = name
      /\ \A x : Has(e, "code", x) <=> NoString # NoString /\ x = NoString
      /\ \A x : Has(e, "recoverable", x) <=> NoString # NoString /\ x = recoverable
      /\ "seq" \in DOMAIN e <=> Nothing # Nothing
  BY <1>1, EventFields
<1>3. Event(type, name) = e
  BY <1>0, <1>1 DEF Event
<1>4. Untagged(e) /\ Bare(e) /\ Passing(e) /\ (name # NoString => Has(e, "session", name))
  BY <1>2 DEF Untagged, Bare, Passing, Final, Failure
<1>5. EndSaid(e) = IF type = "shutting_down" THEN type ELSE NoString
  BY <1>2, <1>4 DEF EndSaid, Passing
<1> QED BY <1>2, <1>3, <1>4, <1>5

LEMMA ErrorIs ==
  ASSUME NEW code, NEW name, NEW recoverable
  PROVE  LET e == ErrorEvent(code, name, recoverable)
         IN  /\ e # Unsaid /\ e["type"] = "error" /\ Untagged(e)
             /\ \A x : Has(e, "session", x) <=> name # NoString /\ x = name
             /\ \A x : Has(e, "code", x) <=> code # NoString /\ x = code
             /\ \A x : Has(e, "recoverable", x) <=> code # NoString /\ x = recoverable
<1>1. PICK e : e = JsonEvent("error", name, code, recoverable, Nothing, Nothing, Nothing)
  OBVIOUS
<1>2. /\ e # Unsaid /\ e["type"] = "error"
      /\ \A x : Has(e, "session", x) <=> name # NoString /\ x = name
      /\ \A x : Has(e, "code", x) <=> code # NoString /\ x = code
      /\ \A x : Has(e, "recoverable", x) <=> code # NoString /\ x = recoverable
      /\ "seq" \in DOMAIN e <=> Nothing # Nothing
  BY <1>1, EventFields
<1> QED BY <1>1, <1>2 DEF ErrorEvent, Untagged

LEMMA RecoverableError ==
  ASSUME NEW code, NEW name, code # "backpressure", code # "synthesis_failed"
  PROVE  LET e == ErrorEvent(code, name, TRUE)
         IN  /\ e # Unsaid /\ PlainError(e) /\ Passing(e)
             /\ code # NoString => Has(e, "code", code)
<1>1. PICK yes : yes = TRUE
  OBVIOUS
<1>2. PICK no : no = FALSE
  OBVIOUS
<1>3. PICK other : other = "backpressure"
  OBVIOUS
<1>4. PICK e, failure : e = ErrorEvent(code, name, yes) /\ failure = "synthesis_failed"
  OBVIOUS
<1>5. /\ e # Unsaid /\ e["type"] = "error" /\ Untagged(e)
      /\ \A x : Has(e, "code", x) <=> code # NoString /\ x = code
      /\ \A x : Has(e, "recoverable", x) <=> code # NoString /\ x = yes
  BY <1>4, ErrorIs
<1>6. other # code /\ failure # code /\ no # yes
  BY <1>1, <1>2, <1>3, <1>4
<1>7. /\ ~Has(e, "recoverable", no) /\ ~Has(e, "code", other) /\ ~Has(e, "code", failure)
      /\ code # NoString => Has(e, "code", code)
  BY <1>5, <1>6
<1>8. PlainError(e) /\ Passing(e)
  BY <1>2, <1>3, <1>4, <1>5, <1>7 DEF PlainError, Bare, Passing, Final, Failure
<1> QED BY <1>1, <1>4, <1>5, <1>7, <1>8

LEMMA FinalError ==
  ASSUME NEW code, NEW name,
         code # "backpressure", code # "synthesis_failed", code # NoString
  PROVE  LET e == ErrorEvent(code, name, FALSE)
         IN  e # Unsaid /\ PlainError(e) /\ Final(e) /\ EndSaid(e) = code
<1>1. PICK no : no = FALSE
  OBVIOUS
<1>2. PICK other : other = "backpressure"
  OBVIOUS
<1>3. PICK failure : failure = "synthesis_failed"
  OBVIOUS
<1>4. PICK e : e = ErrorEvent(code, name, no)
  OBVIOUS
<1>5. /\ e # Unsaid /\ e["type"] = "error" /\ Untagged(e)
      /\ \A x : Has(e, "code", x) <=> code # NoString /\ x = code
      /\ \A x : Has(e, "recoverable", x) <=> code # NoString /\ x = no
  BY <1>4, ErrorIs
<1>6. Has(e, "recoverable", no) /\ ~Has(e, "code", other) /\ ~Has(e, "code", failure)
  BY <1>2, <1>3, <1>5
<1>7. PlainError(e)
  BY <1>2, <1>5, <1>6 DEF PlainError, Bare
<1>8. Final(e)
  BY <1>1, <1>3, <1>6 DEF Final, Failure
<1>9. e["code"] = code
  BY <1>5 DEF Has
<1>10. EndSaid(e) = code
  BY <1>5, <1>8, <1>9 DEF EndSaid
<1> QED BY <1>1, <1>4, <1>5, <1>7, <1>8, <1>10

\* The failure of a phrase is final in no more than its looks.
LEMMA FailureError ==
  ASSUME NEW name, NEW flag
  PROVE  LET e == ErrorEvent("synthesis_failed", name, flag)
         IN  /\ e # Unsaid /\ PlainError(e) /\ Failure(e)
             /\ name # NoString => Has(e, "session", name)
<1>1. PICK code : code = "synthesis_failed"
  OBVIOUS
<1>2. PICK other : other = "backpressure"
  OBVIOUS
<1>3. PICK e : e = ErrorEvent(code, name, flag)
  OBVIOUS
<1>4. /\ e # Unsaid /\ e["type"] = "error" /\ Untagged(e)
      /\ \A x : Has(e, "session", x) <=> name # NoString /\ x = name
      /\ \A x : Has(e, "code", x) <=> code # NoString /\ x = code
  BY <1>3, ErrorIs
<1>5. code # NoString /\ other # code
  BY <1>1, <1>2, CodesAreNames
<1>6. Has(e, "code", code) /\ ~Has(e, "code", other)
  BY <1>4, <1>5
<1>7. PlainError(e)
  BY <1>2, <1>4, <1>6 DEF PlainError, Bare
<1>8. Failure(e)
  BY <1>1, <1>6 DEF Failure
<1> QED BY <1>1, <1>3, <1>4, <1>7, <1>8

\* What does not end the stream gives no reason for it.
LEMMA NoEndSaid ==
  ASSUME NEW e, Passing(e) \/ Failed(e), e["type"] # "shutting_down"
  PROVE  EndSaid(e) = NoString
  BY DEF EndSaid, Passing, Failed, Final

-----------------------------------------------------------------------------
\* The threads of the runtime.

LEMMA AnnounceTalks == TalkInv /\ Announce => TalkInv'
<1> SUFFICES ASSUME TalkInv, Announce PROVE TalkInv'
  OBVIOUS
<1>1. PICK e : e = Event("speaking", session)
  OBVIOUS
<1>2. session # NoString => /\ e # Unsaid /\ e["type"] = "speaking" /\ Has(e, "session", session)
                            /\ Untagged(e) /\ Passing(e)
  BY <1>1, PlainEvent
<1>3. /\ said["synthesis"] = Unsaid /\ holder = "none"
  BY <1>1 DEF Announce
<1>4. phase \in {"receiving", "finishing"} /\ announced' = TRUE
  BY <1>1 DEF Announce, S!Announce
<1>5. UNCHANGED <<phase, session, pending, client, reader, line>>
  BY <1>1 DEF Announce, S!Announce, Works
<1>6. said' = [said EXCEPT !["synthesis"] = e] /\ holder' = "synthesis"
  BY <1>1 DEF Announce, Says
<1>7. announced = FALSE
  BY DEF Announce, S!Announce, TalkInv, ShapeAt
<1> QED
  BY <1>2, <1>3, <1>4, <1>5, <1>6, <1>7
     DEF TalkInv, ShapeAt, SessionAt, TextAt, SynthesisSays, MaintenanceSays, ReaderSays,
         SyncAt, LifeAt, InSync, Answering, Serving, Workers, EchoOf

LEMMA NoSessionIsEmpty == S!NoSession = NoString
  BY Zenon DEF S!NoSession, NoString

LEMMA CompleteTalks == TalkInv /\ Complete => TalkInv'
<1> SUFFICES ASSUME TalkInv, Complete PROVE TalkInv'
  OBVIOUS
<1>1. PICK e : e = Event("finished", session)
  OBVIOUS
<1>2. /\ e # Unsaid /\ e["type"] = "finished" /\ Untagged(e) /\ Passing(e)
      /\ session # NoString => Has(e, "session", session)
  BY <1>1, PlainEvent
<1>3. said["maintenance"] = Unsaid /\ holder = "none" /\ held = 0 /\ UNCHANGED held
  BY DEF Complete
<1>4. phase = "finishing" /\ phase' = "idle" /\ session' = NoString /\ announced' = FALSE
  BY NoSessionIsEmpty DEF Complete, S!Complete
<1>5. UNCHANGED <<client, reader, line>>
  BY DEF Complete, Works
<1>6. said' = [said EXCEPT !["maintenance"] = e] /\ holder' = "maintenance"
  BY <1>1 DEF Complete, Says
<1>7. said["synthesis"] = Unsaid
  BY <1>3 DEF TalkInv, SynthesisSays
<1> QED
  BY <1>2, <1>3, <1>4, <1>5, <1>6, <1>7
     DEF TalkInv, ShapeAt, SessionAt, TextAt, SynthesisSays, MaintenanceSays, ReaderSays,
         SyncAt, LifeAt, InSync, Answering, Serving, Workers

LEMMA FailTalks ==
  ASSUME TalkInv, NEW i \in 1..Len(pending), NEW j \in 1..Len(pending), i <= j, Fail(i, j)
  PROVE  TalkInv'
<1>1. PICK e : e = ErrorEvent("synthesis_failed", session, FALSE)
  OBVIOUS
<1>2. said["synthesis"] = Unsaid /\ phase \in {"receiving", "finishing"}
  BY DEF Fail, S!Omit
<1>3. UNCHANGED <<phase, session, announced, client, reader, line, holder>>
  BY DEF Fail, S!Omit, Works
<1>4. said' = [said EXCEPT !["synthesis"] = e] /\ held' = j - i + 1
  BY <1>1 DEF Fail, Keeps
<1>5. held' > 0
  BY <1>4
<1>6. session # NoString /\ client.session = session
  <2>1. pending # <<>>
    <3>1. Len(<<>>) = 0
      OBVIOUS
    <3> QED BY <3>1
  <2> QED BY <1>2, <2>1 DEF TalkInv, SessionAt, TextAt
<1>7. e # Unsaid /\ Failed(e)
  <2>1. e # Unsaid /\ PlainError(e) /\ Failure(e) /\ Has(e, "session", session)
    BY <1>1, <1>6, FailureError
  <2> QED BY <1>6, <2>1 DEF Failed
<1>8. (ShapeAt /\ SessionAt /\ TextAt /\ SyncAt /\ LifeAt)'
  BY <1>3, <1>4, <1>6 DEF TalkInv, ShapeAt, SessionAt, TextAt, SyncAt, LifeAt, InSync
<1>9. SynthesisSays'
  <2>1. said'["synthesis"] = e
    BY <1>4 DEF TalkInv, ShapeAt, Workers
  <2>2. holder # "synthesis" /\ reader \notin {"none", "ready", "left"}
    BY <1>2 DEF TalkInv, SynthesisSays, SessionAt
  <2>3. Untagged(e)
    BY <1>7 DEF Failed, PlainError, Bare
  <2>4. Failed(e)'
    BY <1>3, <1>7 DEF Failed
  <2> QED BY <1>3, <1>5, <1>7, <2>1, <2>2, <2>3, <2>4 DEF SynthesisSays
<1>10. said'["maintenance"] = said["maintenance"] /\ said'["reader"] = said["reader"]
  BY <1>4 DEF TalkInv, ShapeAt, Workers
<1>11. (MaintenanceSays /\ ReaderSays)'
  BY <1>2, <1>3, <1>10 DEF TalkInv, MaintenanceSays, ReaderSays, Answering, InSync
<1> QED
  BY <1>8, <1>9, <1>11 DEF TalkInv

\* A step of which the conversation knows nothing.
LEMMA StutterTalks ==
  ASSUME TalkInv, UNCHANGED <<phase, session, announced, client, reader, said, holder>>,
         reader = "answer" => UNCHANGED line,
         pending = <<>> => pending' = <<>> \/ phase = "idle",
         held > 0 => held' > 0 \/ said["synthesis"] = Unsaid
  PROVE  TalkInv'
<1>1. (ShapeAt /\ SessionAt /\ TextAt /\ SyncAt /\ LifeAt)'
  BY DEF TalkInv, ShapeAt, SessionAt, TextAt, SyncAt, LifeAt, InSync
<1>2. (SynthesisSays /\ MaintenanceSays)'
  BY DEF TalkInv, SynthesisSays, MaintenanceSays, Failed
<1>3. ReaderSays'
  BY DEF TalkInv, ReaderSays, Answering, InSync
<1> QED BY <1>1, <1>2, <1>3 DEF TalkInv

\* Text is played or left out.
LEMMA SpeakTalks ==
  ASSUME TalkInv, NEW i \in 1..Len(pending), NEW j, Play(i) \/ LeaveOut(i, j)
  PROVE  TalkInv'
<1>1. UNCHANGED <<phase, session, announced, client, reader, said, holder, line>>
  BY DEF Play, LeaveOut, Works, S!Speak, S!Omit
<1>2. pending # <<>>
  <2>1. Len(<<>>) = 0
    OBVIOUS
  <2> QED BY <2>1
<1>3. held' = held \/ held = 0
  BY DEF Play, LeaveOut, Keeps
<1> QED BY <1>1, <1>2, <1>3, StutterTalks

LEMMA RetireTalks == TalkInv /\ Retire => TalkInv'
<1> SUFFICES ASSUME TalkInv, Retire PROVE TalkInv'
  OBVIOUS
<1>1. /\ UNCHANGED <<phase, session, announced, pending, client, reader, said, holder, line>>
      /\ said["synthesis"] = Unsaid
  BY DEF Retire, S!Silence, Works
<1> QED BY <1>1, StutterTalks

LEMMA SendTalks ==
  ASSUME TalkInv, NEW l, ClientSends(l)
  PROVE  TalkInv'
<1>1. /\ UNCHANGED <<phase, session, pending, announced, held, line, reader, said, holder>>
      /\ client' = [client EXCEPT !.unechoed = Append(@, EchoOf(l))]
  BY DEF ClientSends, sessionVars
<1>2. /\ client'.ready = client.ready /\ client'.session = client.session
      /\ client'.announced = client.announced /\ client'.end = client.end
      /\ client'.interrupted = client.interrupted
  BY <1>1 DEF TalkInv, ShapeAt, Known
<1>3. ShapeAt'
  BY <1>1, <1>2 DEF TalkInv, ShapeAt, Known
<1>4. (SessionAt /\ TextAt /\ SyncAt /\ LifeAt)'
  BY <1>1, <1>2 DEF TalkInv, SessionAt, TextAt, SyncAt, LifeAt, InSync
<1>5. (SynthesisSays /\ MaintenanceSays)'
  BY <1>1, <1>2 DEF TalkInv, SynthesisSays, MaintenanceSays, Failed
<1>6. ReaderSays'
  BY <1>1, <1>2 DEF TalkInv, ReaderSays, Answering, InSync
<1> QED BY <1>3, <1>4, <1>5, <1>6 DEF TalkInv

-----------------------------------------------------------------------------
\* The reader.

\* From line to line.
LEMMA MoveTalks ==
  ASSUME TalkInv, UNCHANGED <<phase, session, pending, announced, held, client, said, holder>>,
         reader \in {"take", "handle"}, reader' \in {"take", "handle", "shutdown", "close"}
  PROVE  TalkInv'
  BY DEF TalkInv, ShapeAt, SessionAt, TextAt, Failed, SynthesisSays, MaintenanceSays, ReaderSays,
         SyncAt, LifeAt, InSync, Answering, Serving, Workers

LEMMA RefuseTalks == TalkInv /\ line \in Lines /\ Refuse => TalkInv'
<1> SUFFICES ASSUME TalkInv, line \in Lines, Refuse PROVE TalkInv'
  OBVIOUS
<1>1. PICK e : e = ErrorEvent(Code, NoString, TRUE)
  OBVIOUS
<1>4. Code # "backpressure" /\ Code # "synthesis_failed"
  BY MessagesAssumption, RefusalCodes DEF Code
<1>5. e # Unsaid /\ PlainError(e) /\ Passing(e)
  BY <1>1, <1>4, RecoverableError
<1>6. UNCHANGED <<phase, session, pending, announced, held, client, line, holder>>
  BY DEF Refuse, Goes, sessionVars
<1>7. said' = [said EXCEPT !["reader"] = e] /\ reader = "handle" /\ reader' = "answer"
  BY <1>1 DEF Refuse, Goes
<1> QED
  BY <1>5, <1>6, <1>7
     DEF TalkInv, ShapeAt, SessionAt, TextAt, Failed, SynthesisSays, MaintenanceSays, ReaderSays,
         SyncAt, LifeAt, InSync, Answering, Serving, Workers

LEMMA FarewellTalks == TalkInv /\ Farewell => TalkInv'
<1> SUFFICES ASSUME TalkInv, Farewell PROVE TalkInv'
  OBVIOUS
<1>1. PICK e : e = Event("shutting_down", NoString)
  OBVIOUS
<1>2. e # Unsaid /\ e["type"] = "shutting_down" /\ Bare(e) /\ Passing(e)
  BY <1>1, PlainEvent
<1>3. UNCHANGED <<phase, session, pending, announced, held, client, line, holder>>
  BY DEF Farewell, Goes, sessionVars
<1>4. said' = [said EXCEPT !["reader"] = e] /\ reader = "shutdown" /\ reader' = "farewell"
  BY <1>1 DEF Farewell, Goes
<1> QED
  BY <1>2, <1>3, <1>4
     DEF TalkInv, ShapeAt, SessionAt, TextAt, Failed, SynthesisSays, MaintenanceSays, ReaderSays,
         SyncAt, LifeAt, InSync, Answering, Serving, Workers

-----------------------------------------------------------------------------
\* handle().

LEMMA HandlesFacts ==
  ASSUME TalkInv, LinesAt, NEW type, NEW to, Handles(type, to)
  PROVE  /\ reader = "handle" /\ reader' = to /\ holder = "none" /\ UNCHANGED <<client, input>>
         /\ said["reader"] = Unsaid /\ said["maintenance"] = Unsaid
         /\ InSync /\ phase # "interrupting"
         /\ line \in Lines /\ ParseCode(line) = "none" /\ command.type = type
         /\ type # "shutdown" => command.session # NoString
         /\ line' = IF to = "take" THEN NoLine ELSE line
<1>1. /\ reader = "handle" /\ reader' = to /\ holder = "none" /\ UNCHANGED <<client, input>>
      /\ ParseCode(line) = "none" /\ command.type = type
      /\ line' = IF to = "take" THEN NoLine ELSE line
  BY DEF Handles, Goes, Code
<1>2. said["reader"] = Unsaid /\ said["maintenance"] = Unsaid
  BY <1>1 DEF TalkInv, ReaderSays, MaintenanceSays
<1>3. InSync /\ phase # "interrupting"
  BY <1>1 DEF TalkInv, SyncAt, SessionAt, Serving
<1>4. line \in Lines
  BY <1>1 DEF LinesAt
<1>5. type # "shutdown" => command.session # NoString
  BY <1>1, <1>4, AcceptedFields DEF command
<1> QED BY <1>1, <1>2, <1>3, <1>4, <1>5

\* The reader begins to write an answer, in a section of state_mutex.
LEMMA AnswerTalks ==
  ASSUME TalkInv, NEW e, e # Unsaid, Passing(e),
         reader \in {"handle", "interrupt"}, reader' = "answer",
         holder \in {"none", "reader"}, holder' = "reader",
         said' = [said EXCEPT !["reader"] = e], UNCHANGED client,
         phase' \in {"idle", "receiving", "finishing"}, announced' \in BOOLEAN,
         phase' = "idle" => session' = NoString /\ announced' = FALSE,
         phase' # "idle" => session' # NoString,
         phase' \in {"receiving", "finishing"} => client.session = session' \/ pending' = <<>>,
         held' = held, Answering(e)'
  PROVE  TalkInv'
<1>1. /\ said'["synthesis"] = said["synthesis"] /\ said'["maintenance"] = said["maintenance"]
      /\ said'["reader"] = e
  BY DEF TalkInv, ShapeAt, Workers
<1>2. ShapeAt'
  BY DEF TalkInv, ShapeAt, Serving, Workers
<1>3. (SessionAt /\ TextAt /\ SyncAt /\ LifeAt)'
  BY DEF TalkInv, SessionAt, TextAt, SyncAt, LifeAt, Serving
<1>4. (SynthesisSays /\ MaintenanceSays)'
  BY <1>1 DEF TalkInv, Failed, SynthesisSays, MaintenanceSays
<1>5. ReaderSays'
  BY <1>1 DEF ReaderSays
<1> QED BY <1>2, <1>3, <1>4, <1>5 DEF TalkInv

LEMMA RejectTalks ==
  ASSUME TalkInv, LinesAt, NEW type, Reject(type)
  PROVE  TalkInv'
<1>1. PICK e : e = ErrorEvent("invalid_state", command.session, TRUE)
  OBVIOUS
<1>2. e # Unsaid /\ PlainError(e) /\ Passing(e)
  BY <1>1, RecoverableError
<1>3. Handles(type, "answer") /\ UNCHANGED sessionVars
  BY DEF Reject
<1>4. said' = [said EXCEPT !["reader"] = e] /\ holder' = "reader"
  BY <1>1 DEF Reject, Answers, Says
<1>5. /\ reader = "handle" /\ reader' = "answer" /\ holder = "none" /\ UNCHANGED client
      /\ InSync /\ phase # "interrupting"
  BY <1>3, HandlesFacts
<1>6. Answering(e)'
  BY <1>2, <1>3, <1>5 DEF Answering, InSync, sessionVars
<1>7. /\ phase' \in {"idle", "receiving", "finishing"} /\ announced' \in BOOLEAN
      /\ phase' = "idle" => session' = NoString /\ announced' = FALSE
      /\ phase' # "idle" => session' # NoString
  BY <1>3, <1>5 DEF TalkInv, ShapeAt, SessionAt, sessionVars
<1>8. /\ phase' \in {"receiving", "finishing"} => client.session = session' \/ pending' = <<>>
      /\ held' = held
  BY <1>3 DEF TalkInv, TextAt, sessionVars
<1> QED BY <1>2, <1>4, <1>5, <1>6, <1>7, <1>8, AnswerTalks

LEMMA StartTalks == TalkInv /\ LinesAt /\ Start => TalkInv'
<1> SUFFICES ASSUME TalkInv, LinesAt, Start PROVE TalkInv'
  OBVIOUS
<1>0. PICK no : no = FALSE
  OBVIOUS
<1>1. PICK e, used : /\ e = JsonEvent("session_started", command.session, NoString, no, Nothing,
                                     Nothing, used)
                     /\ used = voice'
  OBVIOUS
<1>2. /\ e # Unsaid /\ e["type"] = "session_started"
      /\ \A x : Has(e, "session", x) <=> command.session # NoString /\ x = command.session
      /\ \A x : Has(e, "code", x) <=> NoString # NoString /\ x = NoString
      /\ \A x : Has(e, "recoverable", x) <=> NoString # NoString /\ x = no
      /\ "seq" \in DOMAIN e <=> Nothing # Nothing
  BY <1>1, EventFields
<1>3. Handles("start", "answer")
  BY DEF Start
<1>4. said' = [said EXCEPT !["reader"] = e] /\ holder' = "reader"
  BY <1>0, <1>1 DEF Start, Answers, Says
<1>5. /\ reader = "handle" /\ reader' = "answer" /\ holder = "none" /\ UNCHANGED client
      /\ InSync /\ command.session # NoString
  BY <1>3, HandlesFacts
<1>6. /\ phase = "idle" /\ phase' = "receiving" /\ session' = command.session /\ announced' = FALSE
      /\ pending' = <<>> /\ held' = held
  BY DEF Start, S!Open
<1>7. client.session = NoString /\ client.announced = FALSE
  BY <1>5, <1>6 DEF TalkInv, SessionAt, InSync
<1>8. Bare(e) /\ Passing(e) /\ Has(e, "session", command.session)
  BY <1>2, <1>5 DEF Untagged, Bare, Passing, Final, Failure
<1>9. Answering(e)'
  BY <1>2, <1>5, <1>6, <1>7, <1>8 DEF Answering
<1> QED BY <1>2, <1>4, <1>5, <1>6, <1>8, <1>9, AnswerTalks

LEMMA AppendTalks == TalkInv /\ LinesAt /\ AppendText => TalkInv'
<1> SUFFICES ASSUME TalkInv, LinesAt, AppendText PROVE TalkInv'
  OBVIOUS
<1>0. PICK no : no = FALSE
  OBVIOUS
<1>1. PICK e, seq, bytes :
        /\ e = JsonEvent("accepted", session, NoString, no, seq, bytes, Nothing)
        /\ seq = command.seq /\ bytes = Len(command.text)
  OBVIOUS
<1>2. /\ e # Unsaid /\ e["type"] = "accepted"
      /\ \A x : Has(e, "session", x) <=> session # NoString /\ x = session
      /\ \A x : Has(e, "code", x) <=> NoString # NoString /\ x = NoString
      /\ \A x : Has(e, "recoverable", x) <=> NoString # NoString /\ x = no
      /\ "seq" \in DOMAIN e <=> seq # Nothing
      /\ seq # Nothing => e["seq"] = seq
  BY <1>1, EventFields
<1>3. Handles("append", "answer")
  BY DEF AppendText
<1>4. said' = [said EXCEPT !["reader"] = e] /\ holder' = "reader"
  BY <1>0, <1>1 DEF AppendText, Answers, Says
<1>5. /\ reader = "handle" /\ reader' = "answer" /\ holder = "none" /\ UNCHANGED <<client, line>>
      /\ InSync /\ line \in Lines /\ ParseCode(line) = "none" /\ command.type = "append"
  BY <1>3, HandlesFacts
<1>6. phase = "receiving" /\ UNCHANGED <<phase, session, announced, held>>
  BY DEF AppendText, S!Accept
<1>7. seq # Nothing => seq = EchoOf(line)
  BY <1>1, <1>5, AcceptedFields DEF command
<1>8. Passing(e) /\ Has(e, "session", session) /\ session # NoString /\ announced \in BOOLEAN
  BY <1>2, <1>6 DEF Passing, Final, Failure, TalkInv, ShapeAt, SessionAt
<1>9. Answering(e)'
  BY <1>2, <1>5, <1>6, <1>7, <1>8 DEF Answering, InSync
<1>10. client.session = session'
  BY <1>5, <1>6 DEF InSync
<1> QED BY <1>2, <1>4, <1>5, <1>6, <1>8, <1>9, <1>10, AnswerTalks

LEMMA BackpressureTalks == TalkInv /\ LinesAt /\ Backpressure => TalkInv'
<1> SUFFICES ASSUME TalkInv, LinesAt, Backpressure PROVE TalkInv'
  OBVIOUS
<1>0. PICK yes, no : yes = TRUE /\ no = FALSE
  OBVIOUS
<1>1. PICK e, seq, code :
        /\ e = JsonEvent("error", command.session, code, yes, seq, Nothing, Nothing)
        /\ seq = command.seq /\ code = "backpressure"
  OBVIOUS
<1>2. /\ e # Unsaid /\ e["type"] = "error"
      /\ \A x : Has(e, "session", x) <=> command.session # NoString /\ x = command.session
      /\ \A x : Has(e, "code", x) <=> code # NoString /\ x = code
      /\ \A x : Has(e, "recoverable", x) <=> code # NoString /\ x = yes
      /\ "seq" \in DOMAIN e <=> seq # Nothing
      /\ seq # Nothing => e["seq"] = seq
  BY <1>1, EventFields
<1>3. Handles("append", "answer")
  BY DEF Backpressure
<1>4. said' = [said EXCEPT !["reader"] = e] /\ holder' = "reader"
  BY <1>0, <1>1 DEF Backpressure, Answers, Says
<1>5. /\ reader = "handle" /\ reader' = "answer" /\ holder = "none" /\ UNCHANGED <<client, line>>
      /\ InSync /\ line \in Lines /\ ParseCode(line) = "none" /\ command.type = "append"
      /\ command.session # NoString
  BY <1>3, HandlesFacts
<1>6. /\ phase = "receiving" /\ UNCHANGED <<phase, session, announced, held>>
      /\ command.session = session
  BY <1>5 DEF Backpressure, Fits, sessionVars
<1>7. seq # Nothing => seq = EchoOf(line)
  BY <1>1, <1>5, AcceptedFields DEF command
<1>8. Passing(e) /\ Has(e, "code", "backpressure") /\ Has(e, "session", session)
  <2>1. code # NoString /\ no # yes
    BY <1>0, <1>1, CodesAreNames
  <2>2. ~Has(e, "recoverable", no) /\ Has(e, "code", code)
    BY <1>2, <2>1
  <2>3. Has(e, "session", session)
    BY <1>2, <1>5, <1>6
  <2>4. ~Failure(e)
    <3>1. PICK failure : failure = "synthesis_failed"
      OBVIOUS
    <3>2. failure # code
      BY <1>1, <3>1
    <3>3. ~Has(e, "code", failure)
      BY <1>2, <3>2
    <3> QED BY <3>1, <3>3 DEF Failure
  <2> QED BY <1>0, <1>1, <2>2, <2>3, <2>4 DEF Passing, Final
<1>9. announced \in BOOLEAN /\ session # NoString
  BY <1>5, <1>6 DEF TalkInv, ShapeAt
<1>10. Answering(e)'
  BY <1>2, <1>5, <1>6, <1>7, <1>8 DEF Answering, InSync
<1>11. client.session = session'
  BY <1>5, <1>6 DEF InSync
<1> QED BY <1>2, <1>4, <1>5, <1>6, <1>8, <1>9, <1>10, <1>11, AnswerTalks

LEMMA FinishTalks == TalkInv /\ LinesAt /\ Finish => TalkInv'
<1> SUFFICES ASSUME TalkInv, LinesAt, Finish PROVE TalkInv'
  OBVIOUS
<1>1. /\ Handles("finish", "take") /\ phase = "receiving" /\ phase' = "finishing"
      /\ UNCHANGED <<session, pending, announced, held, said, holder>>
  BY DEF Finish, S!Close
<1>2. /\ reader = "handle" /\ reader' = "take" /\ holder = "none" /\ UNCHANGED client
      /\ said["reader"] = Unsaid /\ said["maintenance"] = Unsaid /\ InSync
  BY <1>1, HandlesFacts
<1>3. (ShapeAt /\ SessionAt /\ TextAt /\ SyncAt /\ LifeAt)'
  BY <1>1, <1>2 DEF TalkInv, ShapeAt, SessionAt, TextAt, SyncAt, LifeAt, InSync, Serving
<1>4. (SynthesisSays /\ MaintenanceSays /\ ReaderSays)'
  BY <1>1, <1>2 DEF TalkInv, Failed, SynthesisSays, MaintenanceSays, ReaderSays
<1> QED BY <1>3, <1>4 DEF TalkInv

\* The session is cut short; the threads stop, with state_mutex held.
LEMMA CutTalks ==
  ASSUME TalkInv, S!Interrupt, UNCHANGED <<said, client>>, holder = "none", holder' = "reader",
         \/ reader = "handle" /\ reader' = "interrupt"
         \/ reader = "close" /\ reader' = "closing",
         held > 0 => held' > 0
  PROVE  TalkInv'
<1>1. /\ phase' = "interrupting" /\ UNCHANGED <<session, announced>>
      /\ phase # "idle"
  BY DEF S!Interrupt
<1>2. InSync /\ said["reader"] = Unsaid /\ said["maintenance"] = Unsaid
  BY DEF TalkInv, SyncAt, ReaderSays, MaintenanceSays, Serving
<1>3. (ShapeAt /\ SessionAt /\ TextAt /\ SyncAt /\ LifeAt)'
  BY <1>1, <1>2 DEF TalkInv, ShapeAt, SessionAt, TextAt, SyncAt, LifeAt, InSync, Serving
<1>4. (SynthesisSays /\ MaintenanceSays /\ ReaderSays)'
  BY <1>1, <1>2 DEF TalkInv, Failed, SynthesisSays, MaintenanceSays, ReaderSays
<1> QED BY <1>3, <1>4 DEF TalkInv

LEMMA InterruptedTalks == TalkInv /\ Interrupted => TalkInv'
<1> SUFFICES ASSUME TalkInv, Interrupted PROVE TalkInv'
  OBVIOUS
<1>1. PICK e : e = Event("interrupted", session)
  OBVIOUS
<1>2. /\ e # Unsaid /\ e["type"] = "interrupted" /\ Untagged(e) /\ Passing(e)
      /\ session # NoString => Has(e, "session", session)
  BY <1>1, PlainEvent
<1>3. /\ reader = "interrupt" /\ reader' = "answer" /\ UNCHANGED client
      /\ phase = "interrupting" /\ phase' = "idle" /\ session' = NoString /\ announced' = FALSE
      /\ UNCHANGED held
  BY NoSessionIsEmpty DEF Interrupted, Goes, S!Interrupted
<1>4. said' = [said EXCEPT !["reader"] = e] /\ holder' = "reader"
  BY <1>1 DEF Interrupted, Answers, Says
<1>5. holder = "reader" /\ client.session = session /\ session # NoString
  BY <1>3 DEF TalkInv, ReaderSays, SyncAt, InSync, SessionAt
<1>6. Answering(e)'
  BY <1>2, <1>3, <1>5 DEF Answering
<1> QED BY <1>2, <1>3, <1>4, <1>5, <1>6, AnswerTalks

LEMMA CloseTalks == TalkInv /\ Close => TalkInv'
<1> SUFFICES ASSUME TalkInv, Close PROVE TalkInv'
  OBVIOUS
<1>1. reader = "close" /\ holder = "none" /\ UNCHANGED <<client, said>>
  BY DEF Close, Goes
<1>2. CASE phase = "idle"
  <2>1. reader' = "join" /\ holder' = "none" /\ UNCHANGED <<phase, session, announced, held>>
    BY <1>2 DEF Close, Goes, sessionVars
  <2>2. said["reader"] = Unsaid
    BY <1>1 DEF TalkInv, ReaderSays
  <2>3. (ShapeAt /\ SessionAt /\ TextAt /\ SyncAt /\ LifeAt)'
    BY <1>1, <1>2, <2>1 DEF TalkInv, ShapeAt, SessionAt, TextAt, SyncAt, LifeAt, Serving
  <2>4. (SynthesisSays /\ MaintenanceSays /\ ReaderSays)'
    BY <1>1, <2>1, <2>2 DEF TalkInv, Failed, SynthesisSays, MaintenanceSays, ReaderSays
  <2> QED BY <2>3, <2>4 DEF TalkInv
<1>3. CASE phase # "idle"
  <2>1. reader' = "closing" /\ holder' = "reader" /\ S!Interrupt /\ UNCHANGED held
    BY <1>3 DEF Close, Goes
  <2> QED BY <1>1, <2>1, CutTalks
<1> QED BY <1>2, <1>3

LEMMA CloseDoneTalks == TalkInv /\ CloseDone => TalkInv'
<1> SUFFICES ASSUME TalkInv, CloseDone PROVE TalkInv'
  OBVIOUS
<1>1. reader = "closing" /\ reader' = "join" /\ holder' = "none" /\ UNCHANGED <<client, said, held>>
  BY DEF CloseDone, Goes
<1>2. phase' = "idle" /\ session' = NoString /\ announced' = FALSE
  BY NoSessionIsEmpty DEF CloseDone, S!Interrupted
<1>3. holder = "reader" /\ said["reader"] = Unsaid /\ said["maintenance"] = Unsaid
  BY <1>1 DEF TalkInv, ReaderSays, MaintenanceSays
<1>4. (ShapeAt /\ SessionAt /\ TextAt /\ SyncAt /\ LifeAt)'
  BY <1>1, <1>2 DEF TalkInv, ShapeAt, SessionAt, TextAt, SyncAt, LifeAt, Serving
<1>5. (SynthesisSays /\ MaintenanceSays /\ ReaderSays)'
  BY <1>1, <1>2, <1>3 DEF TalkInv, Failed, SynthesisSays, MaintenanceSays, ReaderSays
<1> QED BY <1>4, <1>5 DEF TalkInv

LEMMA JoinTalks == TalkInv /\ Join => TalkInv'
<1> SUFFICES ASSUME TalkInv, Join PROVE TalkInv'
  OBVIOUS
<1>1. /\ reader = "join" /\ reader' = "left"
      /\ UNCHANGED <<client, said, holder, phase, session, pending, announced, held>>
  BY DEF Join, Goes, Quiet, sessionVars
<1>2. said["synthesis"] = Unsaid
  BY DEF Join, Workers
<1>3. holder = "none" /\ said["reader"] = Unsaid
  BY <1>1 DEF TalkInv, SessionAt, ReaderSays
<1>4. (ShapeAt /\ SessionAt /\ TextAt /\ SyncAt /\ LifeAt)'
  BY <1>1 DEF TalkInv, ShapeAt, SessionAt, TextAt, SyncAt, LifeAt, Serving
<1>5. (SynthesisSays /\ MaintenanceSays /\ ReaderSays)'
  BY <1>1, <1>2, <1>3 DEF TalkInv, Failed, SynthesisSays, MaintenanceSays, ReaderSays
<1> QED BY <1>4, <1>5 DEF TalkInv

-----------------------------------------------------------------------------
\* An event is written.

LEMMA ToldFields ==
  ASSUME NEW e
  PROVE  LET c == Told(e)
             over == e["type"] \in {"finished", "interrupted"}
         IN  /\ c = [f \in Known |-> c[f]]
             /\ c.surprised = FALSE /\ c.ready = TRUE
             /\ c.session = IF e["type"] = "session_started" THEN e["session"]
                            ELSE IF over THEN NoString ELSE client.session
             /\ c.announced \in BOOLEAN
             /\ c.announced = (e["type"] = "speaking" \/ (client.announced /\ ~over))
             /\ c.interrupted = client.interrupted \cup
                                  (IF e["type"] = "interrupted" THEN {client.session} ELSE {})
             /\ c.end = IF EndSaid(e) = NoString THEN client.end ELSE EndSaid(e)
             /\ Untagged(e) => c.unechoed = client.unechoed
             /\ ~Untagged(e) =>
                  c.unechoed =
                    SubSeq(client.unechoed,
                           Min({i \in 1..Len(client.unechoed) :
                                  client.unechoed[i] = e["seq"]}) + 1,
                           Len(client.unechoed))
<1>1. PICK reason : reason = EndSaid(e)
  OBVIOUS
<1> QED BY <1>1 DEF Told, Untagged, Known

\* Every event is one that the client expects; an echo, if it gives back a seq
\* that the client remembers.
LEMMA EventExpected ==
  ASSUME TalkInv, NEW t \in Workers \cup {"reader"}, said[t] # Unsaid,
         ~Untagged(said[t]) =>
           \E i \in 1..Len(client.unechoed) : client.unechoed[i] = said[t]["seq"]
  PROVE  Expected(said[t])
<1> DEFINE e == said[t]
<1>0. "seq" \in DOMAIN e =>
         \E i \in 1..Len(client.unechoed) : client.unechoed[i] = e["seq"]
  BY DEF Untagged
<1> HIDE DEF e
<1> USE <1>0
<1>1. CASE t = "synthesis" /\ holder = "synthesis"
  <2>1. /\ e["type"] = "speaking" /\ Has(e, "session", client.session)
        /\ client.session # NoString /\ client.announced = FALSE /\ Passing(e)
    BY <1>1 DEF e, TalkInv, SynthesisSays, SessionAt
  <2>2. client.ready
    BY <1>1 DEF e, TalkInv, SynthesisSays, LifeAt, ShapeAt
  <2> QED BY <2>1, <2>2 DEF Expected, Passing, e
<1>2. CASE t = "synthesis" /\ holder # "synthesis"
  <2>1. Failed(e)
    BY <1>2 DEF e, TalkInv, SynthesisSays
  <2>2. client.ready
    BY <1>2 DEF e, TalkInv, SynthesisSays, LifeAt, ShapeAt
  <2> QED BY <2>1, <2>2 DEF Expected, Failed, PlainError, Bare, e
<1>3. CASE t = "maintenance"
  <2>1. /\ e["type"] = "finished" /\ Has(e, "session", client.session) /\ Passing(e)
        /\ client.session # NoString
    BY <1>3 DEF e, TalkInv, MaintenanceSays
  <2>2. holder = "maintenance"
    BY <1>3 DEF TalkInv, MaintenanceSays
  <2>3. client.ready
    BY <2>2 DEF TalkInv, LifeAt, ShapeAt, SessionAt
  <2> QED BY <2>1, <2>3 DEF Expected, Passing, e
<1>4. CASE t = "reader" /\ reader = "ready"
  <2>1. e["type"] = "ready" /\ Bare(e) /\ Passing(e) /\ ~client.ready /\ client.end = NoString
    BY <1>4 DEF e, TalkInv, ReaderSays, LifeAt, Serving
  <2> QED BY <2>1 DEF Expected, Bare, Passing, e
<1>5. CASE t = "reader" /\ reader = "farewell"
  <2>1. e["type"] = "shutting_down" /\ Bare(e) /\ Passing(e) /\ client.ready /\ client.end = NoString
    BY <1>5 DEF e, TalkInv, ReaderSays, LifeAt, Serving
  <2> QED BY <2>1 DEF Expected, Bare, Passing, e
<1>6. CASE t = "reader" /\ reader = "answer"
  <2>1. client.ready /\ client.end = NoString /\ Passing(e)
    BY <1>6 DEF e, TalkInv, LifeAt, ReaderSays, Serving
  <2>2. CASE holder # "reader"
    <3>1. PlainError(e)
      BY <1>6, <2>2 DEF e, TalkInv, ReaderSays
    <3> QED BY <2>1, <3>1 DEF Expected, PlainError, Bare, Passing, e
  <2>3. CASE holder = "reader"
    <3>1. Answering(e)
      BY <1>6, <2>3 DEF e, TalkInv, ReaderSays
    <3>2. phase = "receiving" => session # NoString
      BY DEF TalkInv, SessionAt
    <3> QED BY <2>1, <3>1, <3>2 DEF Answering, InSync, Expected, PlainError, Bare, Passing, e
  <2> QED BY <2>2, <2>3
<1>7. CASE t = "reader" /\ reader \in {"none", "left"}
  <2>1. PlainError(e) /\ Final(e) /\ client.end = NoString
    BY <1>7 DEF e, TalkInv, ReaderSays
  <2> QED BY <2>1 DEF Expected, PlainError, Bare, Final, e
<1>8. t = "reader" => reader \in {"ready", "farewell", "answer", "none", "left"}
  BY DEF TalkInv, ReaderSays
<1> QED BY <1>1, <1>2, <1>3, <1>4, <1>5, <1>6, <1>7, <1>8 DEF Workers

\* What the writing of an expected event does.
LEMMA WriteFacts ==
  ASSUME TalkInv, NEW t \in Workers \cup {"reader"}, Write(t), Expected(said[t])
  PROVE  /\ said[t] # Unsaid /\ said' = [said EXCEPT ![t] = Unsaid]
         /\ holder' = IF holder = t THEN "none" ELSE holder
         /\ client' = Told(said[t])
         /\ UNCHANGED <<phase, session, announced, pending, held, input, batch>>
         /\ t # "reader" \/ reader \in {"none", "left"} => UNCHANGED <<reader, line>>
         /\ t = "reader" => /\ reader = "ready" => reader' = "take" /\ UNCHANGED line
                            /\ reader = "answer" => reader' = "take"
                            /\ reader = "farewell" => reader' = "close" /\ UNCHANGED line
<1>1. client' = Told(said[t])
  BY DEF Write, TalkInv, ShapeAt
<1>2. UNCHANGED <<phase, session, announced, pending, held, input, batch>>
  BY DEF Write, S!Silence, clientVars
<1>3. DOMAIN Onward = {"answer", "farewell", "ready"}
  BY DEF Onward
<1>4. /\ Onward["answer"] = "take" /\ Onward["farewell"] = "close" /\ Onward["ready"] = "take"
  BY DEF Onward
<1>5. t # "reader" \/ reader \in {"none", "left"} => UNCHANGED <<reader, line>>
  BY <1>3 DEF Write
<1>6. t = "reader" => /\ reader = "ready" => reader' = "take" /\ UNCHANGED line
                      /\ reader = "answer" => reader' = "take"
                      /\ reader = "farewell" => reader' = "close" /\ UNCHANGED line
  BY <1>3, <1>4 DEF Write
<1>7. said[t] # Unsaid /\ said' = [said EXCEPT ![t] = Unsaid]
  BY DEF Write
<1>8. holder' = IF holder = t THEN "none" ELSE holder
  BY DEF Write
<1> QED BY <1>1, <1>2, <1>5, <1>6, <1>7, <1>8

LEMMA WriteTalks ==
  ASSUME TalkInv, NEW t \in Workers \cup {"reader"}, Write(t), Expected(said[t])
  PROVE  TalkInv'
<1>1. PICK e : e = said[t]
  OBVIOUS
<1>2. /\ e # Unsaid /\ said' = [said EXCEPT ![t] = Unsaid] /\ client' = Told(e)
      /\ UNCHANGED <<phase, session, announced, pending, held>>
  BY <1>1, WriteFacts
<1>3. PICK over \in BOOLEAN : over <=> e["type"] \in {"finished", "interrupted"}
  OBVIOUS
<1>4. /\ client' = [f \in Known |-> client'[f]]
      /\ client'.surprised = FALSE /\ client'.ready = TRUE
      /\ client'.session = IF e["type"] = "session_started" THEN e["session"]
                           ELSE IF over THEN NoString ELSE client.session
      /\ client'.announced \in BOOLEAN
      /\ client'.announced = (e["type"] = "speaking" \/ (client.announced /\ ~over))
      /\ client'.interrupted = client.interrupted \cup
                                 (IF e["type"] = "interrupted" THEN {client.session} ELSE {})
      /\ client'.end = IF EndSaid(e) = NoString THEN client.end ELSE EndSaid(e)
  BY <1>2, <1>3, ToldFields
<1>5. /\ said'[t] = Unsaid
      /\ \A u \in Workers \cup {"reader"} : u # t => said'[u] = said[u]
      /\ said' = [u \in Workers \cup {"reader"} |-> said'[u]]
  BY <1>2 DEF TalkInv, ShapeAt
<1> DEFINE OnRecord == {client.session} \cup client.interrupted
<1>6. ASSUME NEW f, Failed(f), \A s \in OnRecord : s # NoString => s \in OnRecord'
       PROVE  Failed(f)'
  BY <1>6 DEF Failed
<1>7. client.interrupted \subseteq client'.interrupted
  BY <1>4
<1>8. Passing(e) \/ Failed(e) => e["type"] = "shutting_down" \/ client'.end = client.end
  BY <1>4, NoEndSaid
<1>9. CASE t = "synthesis"
  <2>1. UNCHANGED <<reader, line>> /\ holder' = IF holder = "synthesis" THEN "none" ELSE holder
    BY <1>9, WriteFacts
  <2>2. /\ said'["synthesis"] = Unsaid /\ said'["maintenance"] = said["maintenance"]
        /\ said'["reader"] = said["reader"]
    BY <1>5, <1>9 DEF Workers
  <2>3. reader \notin {"none", "ready", "left"} /\ client.ready /\ client'.ready
    BY <1>1, <1>2, <1>4, <1>9 DEF TalkInv, SynthesisSays, LifeAt, ShapeAt
  <2>4. CASE holder = "synthesis"
    <3>1. /\ e["type"] = "speaking" /\ Passing(e) /\ announced = TRUE /\ client.session = session
      BY <1>1, <1>9, <2>4 DEF TalkInv, SynthesisSays
    <3>2. client'.session = session /\ client'.announced = TRUE /\ client'.end = client.end
      <4>1. over = FALSE /\ client'.session = client.session
        BY <1>3, <1>4, <3>1
      <4>2. client'.end = client.end
        BY <1>8, <3>1
      <4> QED BY <1>4, <3>1, <4>1, <4>2
    <3>3. /\ said["maintenance"] = Unsaid
          /\ reader \notin {"ready", "interrupt", "closing", "none", "left", "join"}
      BY <2>4 DEF TalkInv, MaintenanceSays, ReaderSays, SessionAt
    <3>4. (ShapeAt /\ SessionAt /\ TextAt /\ SyncAt /\ LifeAt)'
      BY <1>2, <1>4, <1>5, <2>1, <2>3, <2>4, <3>1, <3>2
         DEF TalkInv, ShapeAt, SessionAt, TextAt, SyncAt, LifeAt, InSync
    <3>5. (SynthesisSays /\ MaintenanceSays)'
      BY <1>2, <2>1, <2>2, <2>4, <3>3 DEF TalkInv, SynthesisSays, MaintenanceSays
    <3>6. ReaderSays'
      BY <1>2, <2>1, <2>2, <2>4, <3>2, <3>3 DEF TalkInv, ReaderSays
    <3> QED BY <3>4, <3>5, <3>6 DEF TalkInv
  <2>5. CASE holder # "synthesis"
    <3>1. e["type"] = "error" /\ Failed(e)
      BY <1>1, <1>2, <1>9, <2>5 DEF TalkInv, SynthesisSays, Failed, PlainError
    <3>2. /\ client'.session = client.session /\ client'.end = client.end
          /\ client'.announced = client.announced
      <4>1. over = FALSE /\ client'.session = client.session
        BY <1>3, <1>4, <3>1
      <4> QED BY <1>4, <1>8, <3>1, <4>1 DEF TalkInv, ShapeAt
    <3>3. (ShapeAt /\ SessionAt /\ TextAt /\ SyncAt /\ LifeAt)'
      BY <1>2, <1>4, <1>5, <2>1, <2>3, <2>5, <3>2
         DEF TalkInv, ShapeAt, SessionAt, TextAt, SyncAt, LifeAt, InSync
    <3>4. (SynthesisSays /\ MaintenanceSays)'
      BY <1>2, <2>1, <2>2, <2>5, <3>2 DEF TalkInv, SynthesisSays, MaintenanceSays
    <3>5. ReaderSays'
      BY <1>2, <2>1, <2>2, <2>3, <2>5, <3>2 DEF TalkInv, ReaderSays, Answering, InSync
    <3> QED BY <3>3, <3>4, <3>5 DEF TalkInv
  <2> QED BY <2>4, <2>5
<1>10. CASE t = "maintenance"
  <2>1. holder = "maintenance" /\ holder' = "none" /\ UNCHANGED <<reader, line>>
    BY <1>10, WriteFacts DEF TalkInv, MaintenanceSays
  <2>2. /\ said'["maintenance"] = Unsaid /\ said'["synthesis"] = said["synthesis"]
        /\ said'["reader"] = said["reader"]
    BY <1>5, <1>10 DEF Workers
  <2>3. /\ e["type"] = "finished" /\ Passing(e) /\ phase = "idle"
        /\ said["synthesis"] = Unsaid
    BY <1>1, <1>2, <1>10 DEF TalkInv, MaintenanceSays
  <2>4. client'.session = session /\ client'.announced = announced /\ client'.end = client.end
    <3>1. session = NoString /\ announced = FALSE
      BY <2>3 DEF TalkInv, SessionAt
    <3>2. over = TRUE /\ client'.session = NoString
      BY <1>3, <1>4, <2>3
    <3> QED BY <1>4, <1>8, <2>3, <3>1, <3>2 DEF TalkInv, ShapeAt
  <2>5. reader \notin {"ready", "interrupt", "closing", "none", "left", "join"}
    BY <2>1, <2>3 DEF TalkInv, SessionAt
  <2>6. (ShapeAt /\ SessionAt /\ TextAt /\ SyncAt /\ LifeAt)'
    BY <1>2, <1>4, <1>5, <2>1, <2>4, <2>5
       DEF TalkInv, ShapeAt, SessionAt, TextAt, SyncAt, LifeAt, InSync
  <2>7. (SynthesisSays /\ MaintenanceSays)'
    BY <1>2, <2>1, <2>2, <2>3 DEF TalkInv, SynthesisSays, MaintenanceSays
  <2>8. ReaderSays'
    BY <1>2, <2>1, <2>2, <2>4, <2>5 DEF TalkInv, ReaderSays
  <2> QED BY <2>6, <2>7, <2>8 DEF TalkInv
<1>11. CASE t = "reader"
  <2>1. /\ said'["reader"] = Unsaid /\ said'["synthesis"] = said["synthesis"]
        /\ said'["maintenance"] = said["maintenance"]
    BY <1>5, <1>11 DEF Workers
  <2>2. holder' = IF holder = "reader" THEN "none" ELSE holder
    BY <1>11, WriteFacts
  <2>3. PICK f : f = said["synthesis"]
    OBVIOUS
  <2>4. CASE reader \in {"none", "left"}
    <3>1. UNCHANGED <<reader, line>>
      BY <2>4, WriteFacts
    <3>2. said["synthesis"] = Unsaid /\ holder = "none" /\ holder' = "none"
      BY <2>2, <2>4 DEF TalkInv, SynthesisSays, SessionAt
    <3>3. said["maintenance"] = Unsaid
      BY <3>2 DEF TalkInv, MaintenanceSays
    <3>4. (ShapeAt /\ SessionAt /\ TextAt /\ SyncAt /\ LifeAt)'
      BY <1>2, <1>4, <1>5, <2>4, <3>1, <3>2
         DEF TalkInv, ShapeAt, SessionAt, TextAt, SyncAt, LifeAt, Serving
    <3>5. (SynthesisSays /\ MaintenanceSays /\ ReaderSays)'
      BY <2>1, <2>4, <3>1, <3>2, <3>3 DEF SynthesisSays, MaintenanceSays, ReaderSays
    <3> QED BY <3>4, <3>5 DEF TalkInv
  <2>5. CASE reader \in {"ready", "farewell"}
    <3>1. /\ reader = "ready" => reader' = "take"
          /\ reader = "farewell" => reader' = "close"
      BY <1>11, <2>5, WriteFacts
    <3>2. e["type"] \in {"ready", "shutting_down"} /\ Passing(e) /\ holder # "reader"
      BY <1>1, <1>11, <2>5 DEF TalkInv, ReaderSays
    <3>3. /\ client'.session = client.session /\ client'.announced = client.announced
          /\ reader = "ready" => client'.end = NoString
      <4>1. over = FALSE /\ client'.session = client.session
        BY <1>3, <1>4, <3>2
      <4>2. client'.announced = client.announced
        BY <1>4, <3>2, <4>1 DEF TalkInv, SynthesisSays, ShapeAt
      <4>3. reader = "ready" => e["type"] = "ready" /\ client.end = NoString
        BY <1>1, <1>11 DEF TalkInv, ReaderSays, LifeAt, Serving
      <4> QED BY <1>8, <3>2, <4>1, <4>2, <4>3
    <3>4. (ShapeAt /\ SessionAt /\ TextAt /\ SyncAt /\ LifeAt)'
      BY <1>2, <1>4, <1>5, <2>2, <2>5, <3>1, <3>2, <3>3
         DEF TalkInv, ShapeAt, SessionAt, TextAt, SyncAt, LifeAt, Serving, InSync
    <3>5. Failed(f) => Failed(f)'
      BY <1>6, <1>7, <3>3
    <3>6. (SynthesisSays /\ MaintenanceSays)'
      BY <1>2, <2>1, <2>2, <2>5, <2>3, <3>1, <3>2, <3>3, <3>5
         DEF TalkInv, SynthesisSays, MaintenanceSays
    <3>7. ReaderSays'
      BY <2>1, <2>2, <2>5, <3>1, <3>2 DEF ReaderSays
    <3> QED BY <3>4, <3>6, <3>7 DEF TalkInv
  <2>6. CASE reader = "answer"
    <3>1. reader' = "take" /\ Passing(e) /\ client'.end = client.end
      <4>1. reader' = "take"
        BY <1>11, <2>6, WriteFacts
      <4>2. Passing(e)
        BY <1>1, <1>11, <2>6 DEF TalkInv, ReaderSays
      <4>3. e["type"] # "shutting_down"
        BY <1>1, <1>11, <2>6 DEF TalkInv, ReaderSays, Answering, PlainError
      <4> QED BY <1>8, <4>1, <4>2, <4>3
    <3>2. (ShapeAt /\ SessionAt /\ LifeAt)'
      BY <1>2, <1>4, <1>5, <2>2, <2>6, <3>1
         DEF TalkInv, ShapeAt, SessionAt, LifeAt, Serving
    <3>3. ReaderSays'
      BY <2>1, <2>2, <3>1 DEF ReaderSays
    <3>4. CASE holder # "reader"
      <4>1. e["type"] = "error"
        BY <1>1, <1>11, <2>6, <3>4 DEF TalkInv, ReaderSays, PlainError
      <4>2. client'.session = client.session /\ client'.announced = client.announced
        <5>1. over = FALSE /\ client'.session = client.session
          BY <1>3, <1>4, <4>1
        <5> QED BY <1>4, <4>1, <5>1 DEF TalkInv, ShapeAt
      <4>3. SyncAt'
        BY <1>2, <2>2, <2>6, <3>1, <3>4, <4>2 DEF TalkInv, SyncAt, InSync, Serving
      <4>4. Failed(f) => Failed(f)'
        BY <1>6, <1>7, <4>2
      <4>5. (SynthesisSays /\ MaintenanceSays)'
        BY <1>2, <2>1, <2>2, <2>6, <2>3, <3>1, <3>4, <4>2, <4>4
           DEF TalkInv, SynthesisSays, MaintenanceSays
      <4>6. TextAt'
        BY <1>2, <4>2 DEF TalkInv, TextAt
      <4> QED BY <3>2, <3>3, <4>3, <4>5, <4>6 DEF TalkInv
    <3>5. CASE holder = "reader"
      <4>1. Answering(e)
        BY <1>1, <1>11, <2>6, <3>5 DEF TalkInv, ReaderSays
      <4>2. client'.session = session /\ client'.announced = announced
        <5>1. phase = "idle" => session = NoString /\ announced = FALSE
          BY DEF TalkInv, SessionAt
        <5>2. CASE e["type"] = "interrupted"
          <6>1. over = TRUE /\ phase = "idle" /\ client'.session = NoString
            BY <1>3, <1>4, <4>1, <5>2 DEF Answering, PlainError
          <6> QED BY <1>4, <5>1, <5>2, <6>1
        <5>3. CASE e["type"] = "session_started"
          <6>1. /\ over = FALSE /\ client'.session = session /\ announced = FALSE
                /\ client.announced = FALSE
            BY <1>3, <1>4, <4>1, <5>3 DEF Answering, PlainError, Has
          <6> QED BY <1>4, <5>3, <6>1
        <5>4. CASE e["type"] \in {"accepted", "error"}
          <6>1. over = FALSE /\ client'.session = session /\ client.announced = announced
            BY <1>3, <1>4, <4>1, <5>4 DEF Answering, InSync
          <6> QED BY <1>4, <5>4, <6>1 DEF TalkInv, ShapeAt
        <5> QED BY <4>1, <5>2, <5>3, <5>4 DEF Answering, PlainError
      <4>3. SyncAt'
        BY <1>2, <4>2 DEF SyncAt, InSync
      <4>4. \A s \in OnRecord : s # NoString => s \in OnRecord'
        <5>1. CASE e["type"] = "interrupted"
          BY <1>4, <5>1
        <5>2. CASE client.session \in {NoString, client'.session}
          BY <1>7, <5>2
        <5>3. e["type"] # "interrupted" => client.session \in {NoString, client'.session}
          BY <4>1, <4>2 DEF Answering, InSync
        <5> QED BY <5>1, <5>2, <5>3
      <4>5. Failed(f) => Failed(f)'
        BY <1>6, <4>4
      <4>6. (SynthesisSays /\ MaintenanceSays)'
        BY <1>2, <2>1, <2>2, <2>6, <2>3, <3>1, <3>5, <4>5
           DEF TalkInv, SynthesisSays, MaintenanceSays
      <4>7. TextAt'
        BY <1>2, <4>2 DEF TextAt
      <4> QED BY <3>2, <3>3, <4>3, <4>6, <4>7 DEF TalkInv
    <3> QED BY <3>4, <3>5
  <2> QED BY <1>11, <2>4, <2>5, <2>6, <1>1, <1>2 DEF TalkInv, ReaderSays
<1> QED BY <1>9, <1>10, <1>11 DEF Workers

-----------------------------------------------------------------------------
\* What the client remembers.

LEMMA FirstAnswered ==
  ASSUME NEW seqs \in Seq(Echoes), NEW n \in Nat, NEW l, NEW rest \in Seq(Lines),
         l \in Lines, EndsWith(seqs, n, <<l>> \o rest)
  PROVE  EndsWith(seqs, n + 1, rest) /\ seqs[n + 1] = EchoOf(l)
<1>1. /\ Len(<<l>> \o rest) = 1 + Len(rest) /\ (<<l>> \o rest)[1] = l
      /\ \A i \in 1..Len(rest) : (<<l>> \o rest)[i + 1] = rest[i]
  OBVIOUS
<1>2. Len(rest) \in Nat
  OBVIOUS
<1>3. seqs[n + 1] = EchoOf(l)
  BY <1>1, <1>2 DEF EndsWith
<1>4. ASSUME NEW i \in 1..Len(rest) PROVE seqs[(n + 1) + i] = EchoOf(rest[i])
  <2>1. i + 1 \in 1..Len(<<l>> \o rest) /\ n + (i + 1) = (n + 1) + i
    BY <1>1, <1>2
  <2> QED BY <1>1, <2>1 DEF EndsWith
<1> QED BY <1>1, <1>2, <1>3, <1>4 DEF EndsWith

LEMMA LastSent ==
  ASSUME NEW seqs \in Seq(Echoes), NEW n \in Nat, NEW lines \in Seq(Lines), NEW l \in Lines,
         EndsWith(seqs, n, lines)
  PROVE  EndsWith(Append(seqs, EchoOf(l)), n, Append(lines, l))
<1>1. PICK x \in Echoes : x = EchoOf(l)
  BY DEF Echoes
<1>2. /\ Len(Append(seqs, x)) = Len(seqs) + 1 /\ Append(seqs, x)[Len(seqs) + 1] = x
      /\ \A i \in 1..Len(seqs) : Append(seqs, x)[i] = seqs[i]
  OBVIOUS
<1>3. /\ Len(Append(lines, l)) = Len(lines) + 1 /\ Append(lines, l)[Len(lines) + 1] = l
      /\ \A i \in 1..Len(lines) : Append(lines, l)[i] = lines[i]
  OBVIOUS
<1>4. Len(seqs) = n + Len(lines) /\ Len(lines) \in Nat
  BY DEF EndsWith
<1>5. ASSUME NEW i \in 1..(Len(lines) + 1)
      PROVE  Append(seqs, x)[n + i] = EchoOf(Append(lines, l)[i])
  <2>1. CASE i = Len(lines) + 1
    BY <1>1, <1>2, <1>3, <1>4, <2>1
  <2>2. CASE i \in 1..Len(lines)
    <3>1. n + i \in 1..Len(seqs)
      BY <1>4, <2>2
    <3> QED BY <1>2, <1>3, <2>2, <3>1 DEF EndsWith
  <2> QED BY <1>4, <2>1, <2>2
<1> QED BY <1>1, <1>2, <1>3, <1>4, <1>5 DEF EndsWith

LEMMA Forgotten ==
  ASSUME NEW seqs \in Seq(Echoes), NEW n \in Nat, NEW lines \in Seq(Lines),
         EndsWith(seqs, n, lines), NEW k \in 1..n
  PROVE  EndsWith(SubSeq(seqs, k + 1, Len(seqs)), n - k, lines)
<1>1. Len(seqs) = n + Len(lines) /\ Len(lines) \in Nat /\ k \in Nat
  BY DEF EndsWith
<1>2. /\ Len(SubSeq(seqs, k + 1, Len(seqs))) = Len(seqs) - k
      /\ \A i \in 1..(Len(seqs) - k) : SubSeq(seqs, k + 1, Len(seqs))[i] = seqs[k + i]
  BY <1>1
<1>3. ASSUME NEW i \in 1..Len(lines)
      PROVE  SubSeq(seqs, k + 1, Len(seqs))[(n - k) + i] = EchoOf(lines[i])
  <2>1. (n - k) + i \in 1..(Len(seqs) - k) /\ k + ((n - k) + i) = n + i
    BY <1>1
  <2> QED BY <1>2, <2>1 DEF EndsWith
<1> QED BY <1>1, <1>2, <1>3 DEF EndsWith

\* The first of some positions: the one with the smallest initial segment.
LEMMA FirstPosition ==
  ASSUME NEW P, P \subseteq Nat, P # {}
  PROVE  Min(P) \in P /\ \A i \in P : Min(P) <= i
<1> DEFINE upTo == {0..i : i \in P}
           smaller == StrictSubsetOrdering(Nat)
<1>1. upTo \subseteq FiniteSubsetsOf(Nat)
  <2>1. ASSUME NEW i \in P PROVE 0..i \in SUBSET Nat /\ IsFiniteSet(0..i)
    BY FS_Interval
  <2> QED BY <2>1 DEF FiniteSubsetsOf
<1>2. upTo # {}
  OBVIOUS
<1>3. PICK least \in upTo : \A other \in upTo : <<other, least>> \notin smaller
  <2> HIDE DEF upTo, smaller
  <2> QED BY <1>1, <1>2, FS_StrictSubsetOrderingWellFounded, WFMin DEF smaller
<1>4. PICK first \in P : least = 0..first
  OBVIOUS
<1>5. ASSUME NEW i \in P, i < first PROVE FALSE
  <2>1. 0..i \in upTo /\ 0..i \subseteq 0..first /\ first \in 0..first /\ first \notin 0..i
    BY <1>5
  <2>2. <<0..i, least>> \in smaller
    BY <1>1, <1>4, <2>1 DEF StrictSubsetOrdering, FiniteSubsetsOf
  <2> QED BY <1>3, <2>1, <2>2
<1>6. \A i \in P : first <= i
  BY <1>5
<1> QED BY <1>6 DEF Min

LEMMA OwedAreLines ==
  ASSUME LinesAt
  PROVE  Rest \in Seq(Lines) /\ Owed \in Seq(Lines)
<1>1. Rest \in Seq(Lines)
  BY DEF LinesAt, Rest
<1> QED BY <1>1 DEF LinesAt, Owed

\* An echo gives back a seq that the client remembers, and lets it remember less.
LEMMA EchoRemembered ==
  ASSUME TalkInv, LinesAt, OwedAt, NEW t \in Workers \cup {"reader"}, said[t] # Unsaid,
         ~Untagged(said[t])
  PROVE  /\ t = "reader" /\ reader = "answer"
         /\ \E i \in 1..Len(client.unechoed) : client.unechoed[i] = said[t]["seq"]
         /\ \E n \in Nat : EndsWith(Told(said[t]).unechoed, n, Owed)
         /\ Told(said[t]).unechoed \in Seq(Echoes)
<1>1. PICK e, seqs, q : e = said[t] /\ seqs = client.unechoed /\ q = e["seq"]
  OBVIOUS
<1>2. t = "reader" /\ reader = "answer" /\ q = EchoOf(line)
  <2>1. t = "reader"
    BY <1>1 DEF TalkInv, SynthesisSays, MaintenanceSays, Workers
  <2>2. reader = "answer" /\ holder = "reader"
    BY <2>1 DEF TalkInv, ReaderSays, PlainError, Bare
  <2>3. Answering(e)
    BY <1>1, <2>1, <2>2 DEF TalkInv, ReaderSays
  <2>4. "seq" \in DOMAIN e
    BY <1>1 DEF Untagged
  <2> QED BY <1>1, <2>1, <2>2, <2>3, <2>4 DEF Answering, PlainError, Bare, Untagged
<1>3. PICK n \in Nat : EndsWith(seqs, n, Owed) /\ n > 0 /\ seqs[n] = q
  BY <1>1, <1>2 DEF OwedAt, Remembers
<1>4. seqs \in Seq(Echoes) /\ Owed \in Seq(Lines)
  BY <1>1, OwedAreLines DEF LinesAt
<1>5. n \in 1..Len(seqs)
  BY <1>3, <1>4 DEF EndsWith
<1> DEFINE P == {i \in 1..Len(seqs) : seqs[i] = q}
           k == Min(P)
<1>6. n \in P /\ P \subseteq Nat
  BY <1>3, <1>5
<1>7. Told(e).unechoed = SubSeq(seqs, k + 1, Len(seqs))
  <2>1. "seq" \in DOMAIN e
    BY <1>1 DEF Untagged
  <2> QED BY <1>1, <2>1 DEF Told
<1>8. k \in 1..n
  <2>1. k \in P /\ k <= n
    <3> HIDE DEF P
    <3> QED BY <1>6, FirstPosition
  <2> QED BY <2>1, <1>3
<1> HIDE DEF k, P
<1>9. EndsWith(SubSeq(seqs, k + 1, Len(seqs)), n - k, Owed)
  BY <1>3, <1>4, <1>8, Forgotten
<1>10. n - k \in Nat /\ SubSeq(seqs, k + 1, Len(seqs)) \in Seq(Echoes)
  BY <1>3, <1>4, <1>5, <1>8
<1> QED BY <1>1, <1>2, <1>3, <1>5, <1>7, <1>9, <1>10

\* A step that answers no line.
LEMMA OwedKept ==
  ASSUME OwedAt, Owed' = Owed, client'.unechoed = client.unechoed,
         reader' \in {"ready", "take", "handle", "answer", "interrupt"} =>
           reader \in {"ready", "take", "handle", "answer", "interrupt"},
         reader' \in {"answer", "interrupt"} =>
           reader \in {"answer", "interrupt"} /\ line' = line
  PROVE  OwedAt'
<1> SUFFICES ASSUME reader' \in {"ready", "take", "handle", "answer", "interrupt"}
             PROVE  \E n \in Nat : Remembers(n)'
  BY DEF OwedAt
<1>1. PICK n \in Nat : Remembers(n)
  BY DEF OwedAt
<1>2. PICK owed, seqs : owed = Owed /\ seqs = client.unechoed
  OBVIOUS
<1>3. EndsWith(seqs, n, owed)
  BY <1>1, <1>2 DEF Remembers
<1>4. EndsWith(client'.unechoed, n, Owed')
  BY <1>2, <1>3
<1>5. reader' \in {"answer", "interrupt"} => n > 0 /\ client'.unechoed[n] = EchoOf(line')
  BY <1>1 DEF Remembers
<1> QED BY <1>4, <1>5 DEF Remembers

LEMMA LinesKept ==
  ASSUME LinesAt, OwedAt, UNCHANGED <<input, batch, line, reader>>,
         client'.unechoed = client.unechoed
  PROVE  LinesAt' /\ OwedAt'
<1>1. LinesAt'
  BY DEF LinesAt
<1>2. Owed' = Owed
  BY DEF Owed, Rest
<1> QED BY <1>1, <1>2, OwedKept

\* Lines are read and taken in the order in which they came.
LEMMA LinesRead ==
  ASSUME LinesAt, OwedAt, NEW n \in 1..Len(input), ReadLines(n)
  PROVE  LinesAt' /\ OwedAt'
<1>1. /\ reader = "take" /\ reader' = "take" /\ batch = <<>> /\ UNCHANGED <<client, line>>
      /\ batch' = SubSeq(input, 1, n) /\ input' = SubSeq(input, n + 1, Len(input))
  BY DEF ReadLines, Goes
<1>2. LinesAt'
  BY <1>1 DEF LinesAt
<1>3. Owed' = Owed
  <2>1. Owed' = SubSeq(input, 1, n) \o SubSeq(input, n + 1, Len(input)) /\ Owed = <<>> \o input
    BY <1>1 DEF Owed, Rest
  <2>2. PICK lines \in Seq(Lines) : lines = input
    BY DEF LinesAt
  <2>3. n \in 1..Len(lines)
    BY <2>2
  <2>4. SubSeq(lines, 1, n) \o SubSeq(lines, n + 1, Len(lines)) = <<>> \o lines
    BY <2>3
  <2> QED BY <2>1, <2>2, <2>4
<1> QED BY <1>1, <1>2, <1>3, OwedKept

LEMMA LineTaken ==
  ASSUME LinesAt, OwedAt, TakeLine
  PROVE  LinesAt' /\ OwedAt'
<1>1. /\ reader = "take" /\ reader' = "handle" /\ batch # <<>> /\ UNCHANGED <<client, input>>
      /\ line' = Head(batch) /\ batch' = Tail(batch)
  BY DEF TakeLine, Goes
<1>2. LinesAt'
  BY <1>1 DEF LinesAt
<1>3. Owed' = Owed
  <2>1. Owed' = <<Head(batch)>> \o (Tail(batch) \o input) /\ Owed = batch \o input
    BY <1>1 DEF Owed, Rest
  <2>2. PICK lines \in Seq(Lines), more \in Seq(Lines) : lines = batch /\ more = input
    BY DEF LinesAt
  <2>3. lines # <<>>
    BY <1>1, <2>2
  <2>4. <<Head(lines)>> \o (Tail(lines) \o more) = lines \o more
    BY <2>3
  <2> QED BY <2>1, <2>2, <2>4
<1> QED BY <1>1, <1>2, <1>3, OwedKept

\* The reader has dealt with a line, or begins to answer it.
LEMMA LineHandled ==
  ASSUME LinesAt, OwedAt, reader = "handle", reader' \in {"answer", "interrupt", "take"},
         UNCHANGED <<input, batch, client>>, reader' = "take" \/ UNCHANGED line
  PROVE  LinesAt' /\ OwedAt'
<1>1. LinesAt'
  BY DEF LinesAt
<1>2. PICK n \in Nat : Remembers(n)
  BY DEF OwedAt
<1>3. PICK seqs \in Seq(Echoes), rest \in Seq(Lines) : seqs = client.unechoed /\ rest = Rest
  BY OwedAreLines DEF LinesAt
<1>4. EndsWith(seqs, n, <<line>> \o rest) /\ line \in Lines
  BY <1>2, <1>3 DEF Remembers, Owed, LinesAt
<1>5. EndsWith(seqs, n + 1, rest) /\ seqs[n + 1] = EchoOf(line)
  BY <1>4, FirstAnswered
<1>6. Owed' = rest /\ client'.unechoed = seqs
  BY <1>3 DEF Owed, Rest
<1>7. Remembers(n + 1)'
  BY <1>5, <1>6 DEF Remembers
<1> QED BY <1>1, <1>7 DEF OwedAt

LEMMA LineSent ==
  ASSUME TalkInv, LinesAt, OwedAt, NEW l \in Lines, ClientSends(l)
  PROVE  LinesAt' /\ OwedAt'
<1>1. /\ UNCHANGED <<batch, line, reader>> /\ input' = Append(input, l)
      /\ client' = [client EXCEPT !.unechoed = Append(@, EchoOf(l))]
  BY DEF ClientSends
<1>2. client'.unechoed = Append(client.unechoed, EchoOf(l))
  BY <1>1 DEF TalkInv, ShapeAt
<1>3. LinesAt'
  BY <1>1, <1>2 DEF LinesAt, Echoes
<1>4. Owed' = Append(Owed, l)
  <2>1. PICK more \in Seq(Lines), lines \in Seq(Lines) : more = input /\ lines = batch
    BY DEF LinesAt
  <2>2. lines \o Append(more, l) = Append(lines \o more, l)
    OBVIOUS
  <2>3. Rest' = Append(Rest, l)
    BY <1>1, <2>1, <2>2 DEF Rest
  <2>4. CASE reader = "handle"
    <3>1. PICK rest \in Seq(Lines) : rest = Rest
      BY OwedAreLines
    <3>2. <<line>> \o Append(rest, l) = Append(<<line>> \o rest, l)
      BY <2>4 DEF LinesAt
    <3> QED BY <1>1, <2>3, <2>4, <3>1, <3>2 DEF Owed
  <2> QED BY <1>1, <2>3, <2>4 DEF Owed
<1>5. ASSUME NEW n \in Nat, Remembers(n) PROVE Remembers(n)'
  <2>1. PICK seqs \in Seq(Echoes), owed \in Seq(Lines) : seqs = client.unechoed /\ owed = Owed
    BY OwedAreLines DEF LinesAt
  <2>2. EndsWith(seqs, n, owed)
    BY <1>5, <2>1 DEF Remembers
  <2>3. EndsWith(Append(seqs, EchoOf(l)), n, Append(owed, l))
    BY <2>2, LastSent
  <2>4. EndsWith(client'.unechoed, n, Owed')
    BY <1>2, <1>4, <2>1, <2>3
  <2>5. ASSUME reader' \in {"answer", "interrupt"}
        PROVE  n > 0 /\ client'.unechoed[n] = EchoOf(line')
    <3>1. n > 0 /\ seqs[n] = EchoOf(line) /\ n \in 1..Len(seqs)
      BY <1>1, <1>5, <2>1, <2>2, <2>5 DEF Remembers, EndsWith
    <3>2. EchoOf(l) \in Echoes
      BY DEF Echoes
    <3>3. Append(seqs, EchoOf(l))[n] = seqs[n]
      BY <3>1, <3>2
    <3> QED BY <1>1, <1>2, <2>1, <3>1, <3>3
  <2> QED BY <2>4, <2>5 DEF Remembers
<1> QED BY <1>1, <1>3, <1>5 DEF OwedAt

\* The conversation with a client that reads everything.
ConversationInv == TalkInv /\ LinesAt /\ OwedAt

LEMMA WriteConverses ==
  ASSUME ConversationInv, NEW t \in Workers \cup {"reader"}, Write(t)
  PROVE  ConversationInv' /\ client' = Told(said[t])
<1>1. said[t] # Unsaid
  BY DEF Write
<1>2. ~Untagged(said[t]) =>
        /\ t = "reader" /\ reader = "answer"
        /\ \E i \in 1..Len(client.unechoed) : client.unechoed[i] = said[t]["seq"]
        /\ \E n \in Nat : EndsWith(Told(said[t]).unechoed, n, Owed)
        /\ Told(said[t]).unechoed \in Seq(Echoes)
  BY <1>1, EchoRemembered DEF ConversationInv
<1>3. Expected(said[t])
  BY <1>1, <1>2, EventExpected DEF ConversationInv
<1>4. TalkInv'
  BY <1>3, WriteTalks DEF ConversationInv
<1>5. /\ client' = Told(said[t]) /\ UNCHANGED <<input, batch>>
      /\ t # "reader" \/ reader \in {"none", "left"} => UNCHANGED <<reader, line>>
      /\ t = "reader" => /\ reader = "ready" => reader' = "take" /\ UNCHANGED line
                         /\ reader = "answer" => reader' = "take"
                         /\ reader = "farewell" => reader' = "close" /\ UNCHANGED line
  BY <1>3, WriteFacts DEF ConversationInv
<1>6. t = "reader" => reader \in {"ready", "answer", "farewell", "none", "left"}
  BY <1>1 DEF ConversationInv, TalkInv, ReaderSays
<1>7. client'.unechoed \in Seq(Echoes) /\ (Untagged(said[t]) => client'.unechoed = client.unechoed)
  BY <1>2, <1>5, ToldFields DEF ConversationInv, LinesAt
<1>8. LinesAt'
  BY <1>5, <1>6, <1>7 DEF ConversationInv, LinesAt
<1>9. reader' \in {"ready", "take", "handle", "answer", "interrupt"} => Owed' = Owed
  BY <1>5, <1>6 DEF Owed, Rest
<1>10. OwedAt'
  <2>1. CASE reader' \notin {"ready", "take", "handle", "answer", "interrupt"}
    BY <2>1 DEF OwedAt
  <2>2. CASE /\ Untagged(said[t])
             /\ reader' \in {"ready", "take", "handle", "answer", "interrupt"}
    BY <1>5, <1>6, <1>7, <1>9, <2>2, OwedKept DEF ConversationInv
  <2>3. CASE ~Untagged(said[t])
    <3>1. PICK n \in Nat : EndsWith(Told(said[t]).unechoed, n, Owed)
      BY <1>2, <2>3
    <3>2. reader' = "take" /\ Owed' = Owed /\ client'.unechoed = Told(said[t]).unechoed
      BY <1>2, <1>5, <1>9, <2>3
    <3>3. PICK owed, seqs : owed = Owed /\ seqs = Told(said[t]).unechoed
      OBVIOUS
    <3>4. EndsWith(client'.unechoed, n, Owed')
      BY <3>1, <3>2, <3>3
    <3> QED BY <3>2, <3>4 DEF OwedAt, Remembers
  <2> QED BY <2>1, <2>2, <2>3
<1> QED BY <1>4, <1>5, <1>8, <1>10 DEF ConversationInv

-----------------------------------------------------------------------------
\* The steps of the loop.

\* After the last line that is handled nothing is owed.
LEMMA LinesLeft ==
  ASSUME LinesAt, UNCHANGED <<input, client>>, batch' \in {batch, <<>>},
         reader' \in {"shutdown", "farewell", "close", "closing", "join", "left"}
  PROVE  LinesAt' /\ OwedAt'
<1>1. batch' \in Seq(Lines) /\ input' \in Seq(Lines) /\ client'.unechoed \in Seq(Echoes)
  <2>1. <<>> \in Seq(Lines)
    OBVIOUS
  <2>2. batch' \in Seq(Lines)
    BY <2>1 DEF LinesAt
  <2>3. input' \in Seq(Lines) /\ client'.unechoed \in Seq(Echoes)
    BY DEF LinesAt
  <2> QED BY <2>2, <2>3
<1>2. reader' # "handle" /\ OwedAt'
  BY DEF OwedAt
<1> QED BY <1>1, <1>2 DEF LinesAt

LEMMA ReaderConverses == ConversationInv /\ ReaderStep => ConversationInv'
<1> SUFFICES ASSUME ConversationInv, ReaderStep PROVE ConversationInv'
  OBVIOUS
<1>0. TalkInv /\ LinesAt /\ OwedAt
  BY DEF ConversationInv
<1>1. ASSUME NEW n \in 1..Len(input), ReadLines(n) PROVE ConversationInv'
  <2>1. LinesAt' /\ OwedAt'
    BY <1>0, <1>1, LinesRead
  <2>2. /\ UNCHANGED <<phase, session, announced, pending, held, client, reader, said, holder>>
        /\ reader = "take"
    BY <1>1 DEF ReadLines, Goes, Quiet, sessionVars
  <2>3. TalkInv'
    BY <1>0, <2>2, StutterTalks
  <2> QED BY <2>1, <2>3 DEF ConversationInv
<1>2. CASE TakeLine
  <2>1. LinesAt' /\ OwedAt'
    BY <1>0, <1>2, LineTaken
  <2>2. /\ UNCHANGED <<phase, session, announced, pending, held, client, said, holder>>
        /\ reader = "take" /\ reader' = "handle"
    BY <1>2 DEF TakeLine, Goes, Quiet, sessionVars
  <2>3. TalkInv'
    BY <1>0, <2>2, MoveTalks
  <2> QED BY <2>1, <2>3 DEF ConversationInv
<1>3. CASE LeaveLoop
  <2>1. /\ UNCHANGED <<phase, session, announced, pending, held, client, said, holder, input, batch>>
        /\ reader = "take" /\ reader' = "shutdown"
    BY <1>3 DEF LeaveLoop, Goes, Quiet, sessionVars
  <2>2. TalkInv'
    BY <1>0, <2>1, MoveTalks
  <2>3. LinesAt' /\ OwedAt'
    BY <1>0, <2>1, LinesLeft
  <2> QED BY <2>2, <2>3 DEF ConversationInv
<1>4. CASE Refuse
  <2>1. /\ UNCHANGED <<client, input, batch, line>>
        /\ reader = "handle" /\ reader' = "answer"
    BY <1>4 DEF Refuse, Goes
  <2>2. TalkInv'
    BY <1>0, <1>4, <2>1, RefuseTalks DEF LinesAt
  <2>3. LinesAt' /\ OwedAt'
    BY <1>0, <2>1, LineHandled
  <2> QED BY <2>2, <2>3 DEF ConversationInv
<1>5. ASSUME NEW type, NEW to \in {"answer", "interrupt", "take"}, Handles(type, to),
             UNCHANGED batch, TalkInv'
      PROVE  ConversationInv'
  <2>1. /\ reader = "handle" /\ reader' = to /\ UNCHANGED <<client, input>>
        /\ line' = IF to = "take" THEN NoLine ELSE line
    BY <1>5 DEF Handles, Goes
  <2>2. LinesAt' /\ OwedAt'
    BY <1>0, <1>5, <2>1, LineHandled
  <2> QED BY <1>5, <2>2 DEF ConversationInv
<1>6. ASSUME NEW type \in CommandTypes, Reject(type) PROVE ConversationInv'
  <2>1. Handles(type, "answer") /\ UNCHANGED batch
    BY <1>6 DEF Reject, Answers
  <2> QED BY <1>0, <1>5, <1>6, <2>1, RejectTalks
<1>7. CASE Start
  <2>1. Handles("start", "answer") /\ UNCHANGED batch
    BY <1>7 DEF Start, Answers
  <2> QED BY <1>0, <1>5, <1>7, <2>1, StartTalks
<1>8. CASE AppendText
  <2>1. Handles("append", "answer") /\ UNCHANGED batch
    BY <1>8 DEF AppendText, Answers
  <2> QED BY <1>0, <1>5, <1>8, <2>1, AppendTalks
<1>9. CASE Backpressure
  <2>1. Handles("append", "answer") /\ UNCHANGED batch
    BY <1>9 DEF Backpressure, Answers
  <2> QED BY <1>0, <1>5, <1>9, <2>1, BackpressureTalks
<1>10. CASE Finish
  <2>1. Handles("finish", "take") /\ UNCHANGED batch
    BY <1>10 DEF Finish
  <2> QED BY <1>0, <1>5, <1>10, <2>1, FinishTalks
<1>11. CASE Interrupt
  <2>1. Handles("interrupt", "interrupt") /\ UNCHANGED batch
    BY <1>11 DEF Interrupt
  <2>2. /\ S!Interrupt /\ UNCHANGED said /\ holder' = "reader"
        /\ held > 0 => held' > 0
    BY <1>11 DEF Interrupt
  <2>3. /\ reader = "handle" /\ reader' = "interrupt" /\ holder = "none" /\ UNCHANGED client
    BY <2>1 DEF Handles, Goes
  <2>4. TalkInv'
    BY <1>0, <2>2, <2>3, CutTalks
  <2> QED BY <1>5, <2>1, <2>4
<1>12. CASE Interrupted
  <2>1. /\ UNCHANGED <<client, input, batch, line>>
        /\ reader = "interrupt" /\ reader' = "answer"
    BY <1>12 DEF Interrupted, Goes, Answers
  <2>2. TalkInv'
    BY <1>0, <1>12, InterruptedTalks
  <2>3. LinesAt'
    BY <1>0, <2>1 DEF LinesAt
  <2>4. Owed' = Owed
    BY <2>1 DEF Owed, Rest
  <2>5. OwedAt'
    BY <1>0, <2>1, <2>4, OwedKept
  <2> QED BY <2>2, <2>3, <2>5 DEF ConversationInv
<1>13. CASE ShutdownCommand
  <2>1. /\ UNCHANGED <<phase, session, announced, pending, held, client, said, holder, input>>
        /\ reader = "handle" /\ reader' = "shutdown" /\ batch' = <<>>
    BY <1>13 DEF ShutdownCommand, Handles, Goes, Quiet, sessionVars
  <2>2. TalkInv'
    BY <1>0, <2>1, MoveTalks
  <2>3. LinesAt' /\ OwedAt'
    BY <1>0, <2>1, LinesLeft
  <2> QED BY <2>2, <2>3 DEF ConversationInv
<1>14. CASE Farewell \/ Close \/ CloseDone \/ Join
  <2>1. /\ UNCHANGED <<client, input, batch>>
        /\ reader' \in {"farewell", "close", "closing", "join", "left"}
    BY <1>14 DEF Farewell, Close, CloseDone, Join, Goes
  <2>2. TalkInv'
    BY <1>0, <1>14, FarewellTalks, CloseTalks, CloseDoneTalks, JoinTalks
  <2>3. LinesAt' /\ OwedAt'
    BY <1>0, <2>1, LinesLeft
  <2> QED BY <2>2, <2>3 DEF ConversationInv
<1>15. CASE Write("reader")
  BY <1>15, WriteConverses
<1> QED
  BY <1>1, <1>2, <1>3, <1>4, <1>6, <1>7, <1>8, <1>9, <1>10, <1>11, <1>12, <1>13, <1>14, <1>15
  DEF ReaderStep

LEMMA WorkerConverses == ConversationInv /\ WorkerStep => ConversationInv'
<1> SUFFICES ASSUME ConversationInv, WorkerStep PROVE ConversationInv'
  OBVIOUS
<1>0. TalkInv /\ LinesAt /\ OwedAt
  BY DEF ConversationInv
<1>1. ASSUME Works, TalkInv' PROVE ConversationInv'
  <2>1. UNCHANGED <<input, batch, line, reader, client>>
    BY <1>1 DEF Works, clientVars
  <2> QED BY <1>0, <1>1, <2>1, LinesKept DEF ConversationInv
<1>2. CASE Announce
  BY <1>0, <1>1, <1>2, AnnounceTalks DEF Announce
<1>3. CASE Complete
  BY <1>0, <1>1, <1>3, CompleteTalks DEF Complete
<1>4. CASE Retire
  BY <1>0, <1>1, <1>4, RetireTalks DEF Retire
<1>5. ASSUME NEW n \in 1..Len(pending), Play(n) PROVE ConversationInv'
  BY <1>0, <1>1, <1>5, SpeakTalks DEF Play
<1>6. ASSUME NEW i \in 1..Len(pending), NEW j \in 1..Len(pending), LeaveOut(i, j)
      PROVE  ConversationInv'
  BY <1>0, <1>1, <1>6, SpeakTalks DEF LeaveOut
<1>7. ASSUME NEW i \in 1..Len(pending), NEW j \in 1..Len(pending), i <= j, Fail(i, j)
      PROVE  ConversationInv'
  BY <1>0, <1>1, <1>7, FailTalks DEF Fail
<1>8. ASSUME NEW t \in Workers, Write(t) PROVE ConversationInv'
  BY <1>8, WriteConverses
<1> QED BY <1>2, <1>3, <1>4, <1>5, <1>6, <1>7, <1>8 DEF WorkerStep

-----------------------------------------------------------------------------
\* The conversation in the program, from before the loop until after it.

Idling == Beginning \cup Opening \cup {"rms", "doctor", "say", "stream"}
Leaving == {"close", "closing", "join", "left"}
Over == {"unwind", "unwind engine", "report", "exited"}

\* What the reader has said, and the client has heard, by where main() is.
IdleAt ==
  main \in Idling =>
    /\ reader = "none" /\ said["reader"] = Unsaid
    /\ input = <<>> /\ batch = <<>> /\ client.unechoed = <<>>
    /\ ~client.ready /\ client.end = NoString /\ InSync

\* The client is told that the loop ends, unless it ends with an exception.
LoopAt ==
  /\ main = "loop" =>
       /\ reader # "none" /\ (reader = "left" => said["reader"] = Unsaid)
       /\ reader \in Leaving =>
            client.end = IF status = Running THEN "shutting_down" ELSE NoString
       /\ status # Running => reader \in Leaving
  /\ main # "loop" => reader \in {"none", "left"}

Untold == said["reader"] = Unsaid /\ client.end = NoString

\* The client has been told the reason for the end, or is being told.
EndsAs(reason) ==
  IF said["reader"] = Unsaid THEN client.end = reason ELSE EndSaid(said["reader"]) = reason

DoneAt ==
  /\ main \in {"stop"} \cup Closing => said["reader"] = Unsaid /\ client.end = "shutting_down"
  /\ main \in {"unwind", "unwind engine"} /\ status = Thrown => Untold
  /\ main = "caught" => Untold
  /\ main \in {"unwind engine", "exited"} => said["reader"] = Unsaid

EndAt ==
  main \in Over /\ argv = <<"stream">> =>
    /\ status = kExitSuccess => EndsAs("shutting_down")
    /\ status = kExitUnsupported => EndsAs("unsupported_environment")
    /\ status = kExitAudioUnavailable => EndsAs("audio_unavailable")
    /\ status = kExitInternal => EndsAs("internal_error")

MainAt == IdleAt /\ LoopAt /\ DoneAt /\ EndAt

ProgramConverses == ConversationInv /\ MainAt

LEMMA ExitCodesDiffer ==
  /\ Running # Thrown
  /\ kExitSuccess # kExitUnsupported /\ kExitSuccess # kExitAudioUnavailable
  /\ kExitSuccess # kExitInternal /\ kExitUnsupported # kExitAudioUnavailable
  /\ kExitUnsupported # kExitInternal /\ kExitAudioUnavailable # kExitInternal
  /\ \A code \in {Thrown, kExitUsage, kExitConfiguration} :
       /\ code # kExitSuccess /\ code # kExitUnsupported
       /\ code # kExitAudioUnavailable /\ code # kExitInternal
  BY DEF Running, Thrown, kExitSuccess, kExitUsage, kExitUnsupported, kExitAudioUnavailable,
         kExitInternal, kExitConfiguration

LEMMA ConversesInit == Init => ProgramConverses
<1> SUFFICES ASSUME Init PROVE ProgramConverses
  OBVIOUS
<1>1. /\ phase = "idle" /\ session = NoString /\ announced = FALSE
      /\ input = <<>> /\ batch = <<>> /\ reader = "none" /\ holder = "none"
      /\ said = [t \in Workers \cup {"reader"} |-> Unsaid]
      /\ client = [ready |-> FALSE, session |-> NoString, announced |-> FALSE, interrupted |-> {},
                   unechoed |-> <<>>, end |-> NoString, surprised |-> FALSE]
      /\ main = "dispatch"
  BY NoSessionIsEmpty DEF Init, StreamInit, S!Init
<1>2. /\ client.ready = FALSE /\ client.session = NoString /\ client.announced = FALSE
      /\ client.unechoed = <<>> /\ client.end = NoString /\ client.surprised = FALSE
      /\ client = [f \in Known |-> client[f]]
  BY <1>1 DEF Known
<1>3. said["reader"] = Unsaid /\ said["synthesis"] = Unsaid /\ said["maintenance"] = Unsaid
  BY <1>1 DEF Workers
<1>4. ShapeAt /\ SessionAt /\ TextAt /\ SyncAt /\ LifeAt /\ InSync
  BY <1>1, <1>2 DEF ShapeAt, SessionAt, TextAt, SyncAt, LifeAt, InSync, Serving
<1>5. SynthesisSays /\ MaintenanceSays /\ ReaderSays
  BY <1>1, <1>3 DEF SynthesisSays, MaintenanceSays, ReaderSays
<1>6. LinesAt /\ OwedAt
  BY <1>1, <1>2 DEF LinesAt, OwedAt
<1>7. MainAt
  BY <1>1, <1>2, <1>3, <1>4 DEF MainAt, IdleAt, LoopAt, DoneAt, EndAt, Closing, Over
<1> QED BY <1>4, <1>5, <1>6, <1>7 DEF ProgramConverses, ConversationInv, TalkInv

\* Steps that leave the conversation alone.
LEMMA StutterConverses ==
  ASSUME ConversationInv,
         UNCHANGED <<phase, session, announced, client, reader, said, holder, input, batch>>,
         line' = line \/ reader \in {"none", "left"},
         pending' = pending, held' = held \/ reader \in {"none", "left"}
  PROVE  ConversationInv'
<1>1. reader \in {"none", "left"} => said["synthesis"] = Unsaid
  BY DEF ConversationInv, TalkInv, SynthesisSays
<1>2. TalkInv'
  BY <1>1, StutterTalks DEF ConversationInv
<1>3. LinesAt' /\ OwedAt'
  <2>1. CASE line' = line
    BY <2>1, LinesKept DEF ConversationInv
  <2>2. CASE reader \in {"none", "left"}
    BY <2>2 DEF ConversationInv, LinesAt, OwedAt
  <2> QED BY <2>1, <2>2
<1> QED BY <1>2, <1>3 DEF ConversationInv

LEMMA ClientConverses == ProgramConverses /\ ClientActs => ProgramConverses'
<1> SUFFICES ASSUME ProgramConverses, ClientActs PROVE ProgramConverses'
  OBVIOUS
<1>1. UNCHANGED <<main, status, argv>>
  BY DEF ClientActs, programVars
<1>2. ASSUME main = "loop", NEW l \in Lines, ClientSends(l) PROVE ProgramConverses'
  <2>1. ConversationInv'
    BY <1>2, SendTalks, LineSent DEF ProgramConverses, ConversationInv
  <2>2. UNCHANGED <<reader, said>> /\ client' = [client EXCEPT !.unechoed = Append(@, EchoOf(l))]
    BY <1>2 DEF ClientSends
  <2>3. client'.end = client.end
    BY <2>2 DEF ProgramConverses, ConversationInv, TalkInv, ShapeAt, Known
  <2>4. MainAt'
    BY <1>1, <1>2, <2>2, <2>3
    DEF ProgramConverses, MainAt, IdleAt, LoopAt, DoneAt, EndAt, Idling, Beginning, Opening,
        Closing, Over
  <2> QED BY <2>1, <2>4 DEF ProgramConverses
<1>3. CASE ClientCloses \/ SignalArrives \/ ClientReads
  <2>1. UNCHANGED <<phase, session, announced, pending, held, client, reader, said, holder,
                    input, batch, line>>
    BY <1>3 DEF ClientCloses, SignalArrives, ClientReads, sessionVars, clientVars, outputVars
  <2>2. ConversationInv'
    BY <2>1, StutterConverses DEF ProgramConverses
  <2>3. MainAt'
    BY <1>1, <2>1 DEF ProgramConverses, MainAt, IdleAt, LoopAt, DoneAt, EndAt, Untold, EndsAs,
                      InSync
  <2> QED BY <2>2, <2>3 DEF ProgramConverses
<1> QED BY <1>2, <1>3 DEF ClientActs

\* In the loop, the end of the stream is only told by the farewell.
LEMMA LoopConverses ==
  ASSUME ProgramConverses, ReaderLoop \/ WorkerLoop
  PROVE  ProgramConverses'
<1> DEFINE ReaderActs == ReaderStep /\ ~Write("reader")
<1>1. main = "loop" /\ UNCHANGED <<main, status>>
  BY DEF ReaderLoop, WorkerLoop, LoopUnchanged, programVars
<1>2. ConversationInv'
  BY ReaderConverses, WorkerConverses DEF ReaderLoop, WorkerLoop, ProgramConverses
<1>3. TalkInv /\ ConversationInv /\ LoopAt
  BY DEF ProgramConverses, ConversationInv, MainAt
<1>4. ASSUME LoopAt' PROVE ProgramConverses'
  BY <1>1, <1>2, <1>4
  DEF ProgramConverses, MainAt, IdleAt, DoneAt, EndAt, Idling, Beginning, Opening, Closing, Over
<1>5. CASE Write("reader")
  <2>1. PICK e : e = said["reader"]
    OBVIOUS
  <2>2. e # Unsaid /\ reader \in {"ready", "answer", "farewell"}
    BY <1>1, <1>3, <1>5, <2>1 DEF Write, TalkInv, ReaderSays, LoopAt
  <2>3. status = Running
    BY <1>1, <1>3, <2>2 DEF LoopAt, Leaving
  <2>4. reader' = IF reader = "farewell" THEN "close" ELSE "take"
    BY <1>5, <2>2 DEF Write, Onward
  <2>5. client' = Told(e)
    BY <1>3, <1>5, <2>1, WriteConverses
  <2>6. reader = "farewell" => client'.end = "shutting_down"
    <3>1. reader = "farewell" => EndSaid(e) = "shutting_down"
      BY <1>3, <2>1 DEF TalkInv, ReaderSays, EndSaid
    <3>2. client'.end = IF EndSaid(e) = NoString THEN client.end ELSE EndSaid(e)
      BY <2>5, ToldFields
    <3> QED BY <3>1, <3>2, CodesAreNames
  <2>7. LoopAt'
    BY <1>1, <2>3, <2>4, <2>6 DEF LoopAt, Leaving
  <2> QED BY <1>4, <2>7
<1>6. CASE ReaderActs
  <2>1. client' = client
    BY <1>6 DEF ReaderStep, ReadLines, TakeLine, LeaveLoop, Refuse, Reject, Start, AppendText,
                Backpressure, Finish, Interrupt, Interrupted, ShutdownCommand, Farewell, Close,
                CloseDone, Join, Handles, Goes
  <2>2. reader' \notin {"none", "left"} \/ Join
    BY <1>6 DEF ReaderStep, ReadLines, TakeLine, LeaveLoop, Refuse, Reject, Start, AppendText,
                Backpressure, Finish, Interrupt, Interrupted, ShutdownCommand, Farewell, Close,
                CloseDone, Handles, Goes
  <2>3. reader' \in Leaving <=> reader \in Leaving
    BY <1>6 DEF ReaderStep, ReadLines, TakeLine, LeaveLoop, Refuse, Reject, Start, AppendText,
                Backpressure, Finish, Interrupt, Interrupted, ShutdownCommand, Farewell, Close,
                CloseDone, Join, Handles, Goes, Leaving
  <2>4. Join => reader' = "left" /\ said'["reader"] = Unsaid
    BY <1>3 DEF Join, Goes, Quiet, TalkInv, ReaderSays
  <2>5. LoopAt'
    BY <1>1, <1>3, <2>1, <2>2, <2>3, <2>4 DEF LoopAt
  <2> QED BY <1>4, <2>5
<1>7. CASE WorkerLoop
  <2>1. CASE Works /\ \E t \in Workers : \E e : said' \in {said, [said EXCEPT ![t] = e]}
    <3>1. UNCHANGED <<reader, client>> /\ said'["reader"] = said["reader"]
      BY <1>3, <2>1 DEF Works, TalkInv, ShapeAt, Workers
    <3>2. LoopAt'
      BY <1>1, <1>3, <3>1 DEF LoopAt
    <3> QED BY <1>4, <3>2
  <2>2. ASSUME NEW t \in Workers, Write(t) PROVE ProgramConverses'
    <3>1. PICK e : e = said[t]
      OBVIOUS
    <3>2. client' = Told(e)
      BY <1>3, <2>2, <3>1, WriteConverses
    <3>3. (Passing(e) \/ Failed(e)) /\ e["type"] # "shutting_down"
      BY <1>3, <2>2, <3>1
      DEF Write, TalkInv, SynthesisSays, MaintenanceSays, Failed, PlainError, Workers
    <3>4. client'.end = client.end
      BY <3>2, <3>3, ToldFields, NoEndSaid
    <3>5. reader' = reader /\ said'["reader"] = said["reader"]
      BY <1>3, <2>2 DEF Write, TalkInv, ShapeAt, Workers
    <3>6. LoopAt'
      BY <1>1, <1>3, <3>4, <3>5 DEF LoopAt
    <3> QED BY <1>4, <3>6
  <2>3. CASE Announce \/ Complete
    BY <2>1, <2>3 DEF Announce, Complete, Says, Workers
  <2>4. CASE Retire
    BY <2>1, <2>4 DEF Retire, Workers
  <2>5. ASSUME NEW i, NEW j, Fail(i, j) PROVE ProgramConverses'
    BY <2>1, <2>5 DEF Fail, Workers
  <2>6. ASSUME NEW i, NEW j, Play(i) \/ LeaveOut(i, j) PROVE ProgramConverses'
    BY <2>1, <2>6 DEF Play, LeaveOut, Workers
  <2> QED BY <1>7, <2>2, <2>3, <2>4, <2>5, <2>6 DEF WorkerLoop, WorkerStep
<1> QED BY <1>5, <1>6, <1>7 DEF ReaderLoop

-----------------------------------------------------------------------------
\* The steps of main().

\* `stream` begins to tell its client that it fails.
LEMMA TellConverses ==
  ASSUME ConversationInv, NEW code, Tell(code),
         code # "backpressure", code # "synthesis_failed", code # NoString,
         reader \in {"none", "left"}, Untold
  PROVE  /\ ConversationInv' /\ UNCHANGED <<reader, client>>
         /\ said'["reader"] # Unsaid /\ EndSaid(said'["reader"]) = code
<1>1. TalkInv /\ ConversationInv
  BY DEF ConversationInv
<1>2. /\ UNCHANGED <<phase, session, announced, pending, held, client, reader, holder, input, batch,
                     line>>
  BY DEF Tell, sessionVars, clientVars
<1>3. PICK e : e = ErrorEvent(code, NoString, FALSE)
  OBVIOUS
<1>4. e # Unsaid /\ PlainError(e) /\ Final(e) /\ EndSaid(e) = code
  BY <1>3, FinalError
<1>5. said' = [said EXCEPT !["reader"] = e]
  BY <1>3 DEF Tell
<1>6. /\ said'["reader"] = e /\ said'["synthesis"] = said["synthesis"]
      /\ said'["maintenance"] = said["maintenance"]
      /\ said' = [t \in Workers \cup {"reader"} |-> said'[t]]
  BY <1>1, <1>5 DEF TalkInv, ShapeAt, Workers
<1>7. (ShapeAt /\ SessionAt /\ TextAt /\ SyncAt /\ LifeAt)'
  BY <1>1, <1>2, <1>6 DEF TalkInv, ShapeAt, SessionAt, TextAt, SyncAt, LifeAt, InSync
<1>8. (SynthesisSays /\ MaintenanceSays)'
  BY <1>1, <1>2, <1>6 DEF TalkInv, Failed, SynthesisSays, MaintenanceSays
<1>9. ReaderSays'
  <2>1. holder # "reader"
    BY <1>1 DEF TalkInv, SessionAt
  <2> QED BY <1>2, <1>4, <1>6, <2>1 DEF ReaderSays, Untold
<1>10. LinesAt' /\ OwedAt'
  BY <1>2, LinesKept DEF ConversationInv
<1> QED BY <1>2, <1>4, <1>6, <1>7, <1>8, <1>9, <1>10 DEF ConversationInv, TalkInv

LEMMA StreamStarts == ProgramConverses /\ StatusAt /\ StartStream => ProgramConverses'
<1> SUFFICES ASSUME ProgramConverses, StatusAt, StartStream PROVE ProgramConverses'
  OBVIOUS
<1>1. TalkInv /\ LinesAt /\ main = "stream" /\ main' = "loop" /\ status' = status
  BY DEF ProgramConverses, ConversationInv, StartStream, Main
<1>2. /\ reader = "none" /\ said["reader"] = Unsaid
      /\ input = <<>> /\ batch = <<>> /\ client.unechoed = <<>>
      /\ ~client.ready /\ client.end = NoString /\ InSync
  BY <1>1 DEF ProgramConverses, MainAt, IdleAt, Idling
<1>3. PICK no : no = FALSE
  OBVIOUS
<1>4. PICK e : e = JsonEvent("ready", NoString, NoString, no, Nothing, Nothing, settings)
  OBVIOUS
<1>5. /\ e # Unsaid /\ e["type"] = "ready"
      /\ \A x : Has(e, "code", x) <=> NoString # NoString /\ x = NoString
      /\ \A x : Has(e, "recoverable", x) <=> NoString # NoString /\ x = no
      /\ "seq" \in DOMAIN e <=> Nothing # Nothing
  BY <1>4, EventFields
<1>6. Bare(e) /\ Passing(e)
  BY <1>5 DEF Untagged, Bare, Passing, Final, Failure
<1>7. /\ said' = [said EXCEPT !["reader"] = e] /\ reader' = "ready"
      /\ UNCHANGED <<phase, session, announced, pending, held, client, holder, input, batch, line>>
  BY <1>3, <1>4 DEF StartStream, S!Silence, clientVars
<1>8. /\ said'["reader"] = e /\ said'["synthesis"] = said["synthesis"]
      /\ said'["maintenance"] = said["maintenance"]
      /\ said' = [t \in Workers \cup {"reader"} |-> said'[t]]
  BY <1>1, <1>7 DEF TalkInv, ShapeAt, Workers
<1>9. phase = "idle" /\ holder = "none"
  BY <1>1, <1>2 DEF TalkInv, SessionAt
<1>10. said["synthesis"] = Unsaid /\ said["maintenance"] = Unsaid
  BY <1>1, <1>2, <1>9 DEF TalkInv, SynthesisSays, MaintenanceSays
<1>11. (ShapeAt /\ SessionAt /\ TextAt /\ SyncAt /\ LifeAt)'
  BY <1>1, <1>2, <1>7, <1>8, <1>9
     DEF TalkInv, ShapeAt, SessionAt, TextAt, SyncAt, LifeAt, InSync, Serving
<1>12. (SynthesisSays /\ MaintenanceSays /\ ReaderSays)'
  BY <1>5, <1>6, <1>7, <1>8, <1>9, <1>10 DEF SynthesisSays, MaintenanceSays, ReaderSays
<1>13. LinesAt'
  BY <1>1, <1>7 DEF LinesAt
<1>14. OwedAt'
  <2>1. Owed' = <<>>
    BY <1>2, <1>7 DEF Owed, Rest
  <2>2. EndsWith(client'.unechoed, 0, Owed')
    BY <1>2, <1>7, <2>1 DEF EndsWith
  <2> QED BY <1>7, <2>2 DEF OwedAt, Remembers
<1>15. status = Running
  BY <1>1 DEF StatusAt
<1>16. MainAt'
  BY <1>1, <1>7, <1>15
  DEF MainAt, IdleAt, LoopAt, DoneAt, EndAt, Idling, Beginning, Opening, Closing, Leaving, Over
<1> QED BY <1>11, <1>12, <1>13, <1>14, <1>16 DEF ProgramConverses, ConversationInv, TalkInv

\* Steps of which the client sees nothing, by where they lead.
LEMMA OnTheWayIn ==
  ASSUME CommandKnown,
         \/ Dispatch \/ LoadFails \/ NoText \/ DoctorUnsupported \/ SayUnsupported \/ Platform
         \/ RegisterVoice("kal16", "rms") \/ RegisterVoice("rms", "rates")
         \/ EngineFails \/ CheckRates \/ OpenFails \/ OpenDevice \/ StartFails \/ StartDevice
  PROVE  /\ main \in Idling /\ main' \in Idling \cup {"caught", "exited"}
         /\ main' = "exited" =>
              \/ status' \in {kExitUsage, kExitConfiguration}
              \/ argv' = argv /\ Command # "stream"
<1> USE DEF Main, Idling, Beginning, Opening
<1>1. CASE \/ Dispatch \/ LoadFails
  BY <1>1 DEF Dispatch, LoadFails
<1>2. CASE NoText \/ DoctorUnsupported \/ SayUnsupported
  BY <1>2 DEF NoText, DoctorUnsupported, SayUnsupported, Returns
<1>3. CASE \/ Platform \/ RegisterVoice("kal16", "rms") \/ RegisterVoice("rms", "rates")
           \/ EngineFails \/ CheckRates \/ OpenFails \/ OpenDevice \/ StartFails
  BY <1>3 DEF Platform, RegisterVoice, EngineFails, EngineLacks, CheckRates, OpenFails, OpenDevice,
              StartFails
<1>4. CASE StartDevice
  BY <1>4 DEF StartDevice, CommandKnown
<1> QED BY <1>1, <1>2, <1>3, <1>4

LEMMA OnTheWayOut ==
  ASSUME CommandKnown,
         \/ DoctorNoAudio \/ SayNoAudio \/ Doctor \/ Say \/ SayFails \/ SayNotQueued \/ NoPipe
  PROVE  /\ main \in Idling /\ main' = "unwind" /\ argv' = argv
         /\ status' = Thrown \/ Command # "stream"
<1> USE DEF Main, Idling, Opening
<1>1. CASE DoctorNoAudio \/ SayNoAudio \/ SayNotQueued
  BY <1>1 DEF DoctorNoAudio, SayNoAudio, SayNotQueued, Returns
<1>2. CASE Doctor \/ Say
  BY <1>2 DEF Doctor, Say, Succeeds, CommandKnown
<1>3. CASE SayFails \/ NoPipe
  BY <1>3 DEF SayFails, NoPipe, Throws
<1> QED BY <1>1, <1>2, <1>3

LEMMA SilentStepConverses ==
  ASSUME ProgramConverses, StatusAt, CommandKnown, UNCHANGED streamVars,
         \/ Dispatch \/ LoadFails \/ NoText \/ DoctorUnsupported \/ SayUnsupported \/ Platform
         \/ RegisterVoice("kal16", "rms") \/ RegisterVoice("rms", "rates")
         \/ EngineFails \/ CheckRates \/ OpenFails \/ OpenDevice \/ StartFails \/ StartDevice
         \/ DoctorNoAudio \/ SayNoAudio \/ Doctor \/ Say \/ SayFails \/ SayNotQueued \/ NoPipe
         \/ StopAudio \/ ForgetPipe \/ ClosePipe
         \/ UnwindDevice \/ UnwindEngine \/ DoctorCaught \/ SayCaught \/ Reported
  PROVE  ProgramConverses'
<1>1. UNCHANGED <<phase, session, announced, pending, held, client, reader, said, holder, input,
                  batch, line>>
  BY DEF streamVars, sessionVars, clientVars, outputVars
<1>2. ConversationInv'
  BY <1>1, StutterConverses DEF ProgramConverses
<1>3. IdleAt /\ LoopAt /\ DoneAt /\ EndAt
  BY DEF ProgramConverses, MainAt
<1>4. \A reason : EndsAs(reason)' <=> EndsAs(reason)
  BY <1>1 DEF EndsAs
<1>5. argv = <<"stream">> => Command = "stream"
  BY DEF Command
<1>6. CASE main \in Idling /\ main' \in Idling
  <2>1. (IdleAt /\ LoopAt /\ DoneAt /\ EndAt)'
    BY <1>1, <1>3, <1>6
    DEF IdleAt, LoopAt, DoneAt, EndAt, InSync, Idling, Beginning, Opening, Closing, Over
  <2> QED BY <1>2, <2>1 DEF ProgramConverses, MainAt
<1>7. CASE main \in Idling /\ main' \in {"caught", "exited", "unwind"}
                 /\ (main' = "caught" \/ status' \in {Thrown, kExitUsage, kExitConfiguration}
                       \/ (argv' = argv /\ Command # "stream"))
  <2>1. Untold' /\ reader' = "none"
    BY <1>1, <1>3, <1>7 DEF IdleAt, Untold
  <2>2. /\ IdleAt'
        /\ LoopAt'
        /\ DoneAt'
    <3>1. IdleAt'
      BY <1>7, <2>1 DEF IdleAt, Idling, Beginning, Opening
    <3>2. LoopAt'
      BY <1>7, <2>1 DEF LoopAt
    <3>3. DoneAt'
      BY <1>7, <2>1 DEF DoneAt, Untold, Closing
    <3> QED BY <3>1, <3>2, <3>3
  <2>3. EndAt'
    BY <1>5, <1>7, ExitCodesDiffer DEF EndAt, Over
  <2> QED BY <1>2, <2>2, <2>3 DEF ProgramConverses, MainAt
<1>8. CASE StopAudio \/ ForgetPipe \/ ClosePipe
  <2>1. /\ main \in {"stop"} \cup Closing /\ main' \in Closing \cup {"unwind"}
        /\ main' = "unwind" => status' = kExitSuccess
    BY <1>8 DEF StopAudio, ForgetPipe, ClosePipe, Main, Closing
  <2>2. said'["reader"] = Unsaid /\ client'.end = "shutting_down" /\ reader' \in {"none", "left"}
    BY <1>1, <1>3, <2>1 DEF DoneAt, LoopAt, Closing
  <2>3. (IdleAt /\ LoopAt)'
    BY <2>1, <2>2 DEF IdleAt, LoopAt, Idling, Beginning, Opening, Closing
  <2>4. DoneAt'
    BY <2>1, <2>2, ExitCodesDiffer DEF DoneAt, Closing
  <2>5. EndAt'
    <3>1. EndsAs("shutting_down")'
      BY <2>2 DEF EndsAs
    <3> QED BY <2>1, <3>1, ExitCodesDiffer DEF EndAt, Closing, Over
  <2> QED BY <1>2, <2>3, <2>4, <2>5 DEF ProgramConverses, MainAt
<1>9. CASE UnwindDevice \/ UnwindEngine \/ Reported
  <2>1. /\ main \in Over /\ main' \in {"unwind engine", "caught", "exited"}
        /\ main' = "caught" <=> main = "unwind engine" /\ status = Thrown
        /\ main' # "exited" => main \in {"unwind", "unwind engine"}
        /\ said["reader"] = Unsaid /\ UNCHANGED <<argv, status>>
    BY <1>3, <1>9 DEF UnwindDevice, CanUnwind, UnwindEngine, Reported, Main, Over, DoneAt
  <2>2. said'["reader"] = Unsaid /\ reader' \in {"none", "left"}
    BY <1>1, <1>3, <2>1 DEF LoopAt, Over
  <2>3. (IdleAt /\ LoopAt)'
    BY <2>1, <2>2 DEF IdleAt, LoopAt, Idling, Beginning, Opening
  <2>4. DoneAt'
    BY <1>1, <1>3, <2>1, <2>2 DEF DoneAt, Untold, Closing
  <2>5. EndAt'
    BY <1>3, <1>4, <2>1 DEF EndAt, Over
  <2> QED BY <1>2, <2>3, <2>4, <2>5 DEF ProgramConverses, MainAt
<1>10. CASE DoctorCaught \/ SayCaught
  <2>1. main = "caught" /\ main' = "exited" /\ argv' = argv /\ Command # "stream"
    BY <1>10 DEF DoctorCaught, SayCaught, Returns, Main
  <2>2. said'["reader"] = Unsaid /\ reader' \in {"none", "left"}
    BY <1>1, <1>3, <2>1 DEF DoneAt, Untold, LoopAt
  <2>3. (IdleAt /\ LoopAt /\ DoneAt /\ EndAt)'
    BY <1>5, <2>1, <2>2
    DEF IdleAt, LoopAt, DoneAt, EndAt, Idling, Beginning, Opening, Closing
  <2> QED BY <1>2, <2>3 DEF ProgramConverses, MainAt
<1> QED BY <1>6, <1>7, <1>8, <1>9, <1>10, OnTheWayIn, OnTheWayOut

\* The failures of `stream`.
LEMMA FailureConverses ==
  ASSUME ProgramConverses, StreamUnsupported \/ StreamNoAudio \/ StreamCaught
  PROVE  ProgramConverses'
<1>1. PICK code \in {"unsupported_environment", "audio_unavailable", "internal_error"} :
        /\ Tell(code)
        /\ main \in Idling \cup {"caught"} /\ main' \in {"unwind", "report"}
        /\ status' = IF code = "unsupported_environment" THEN kExitUnsupported
                     ELSE IF code = "audio_unavailable" THEN kExitAudioUnavailable
                     ELSE kExitInternal
  BY DEF StreamUnsupported, StreamNoAudio, StreamCaught, Returns, Main, Idling, Beginning, Opening
<1>2. code # "backpressure" /\ code # "synthesis_failed" /\ code # NoString
  BY DEF NoString
<1>3. reader \in {"none", "left"} /\ Untold
  BY <1>1 DEF ProgramConverses, MainAt, IdleAt, LoopAt, DoneAt, Untold, Idling, Beginning, Opening
<1>4. /\ ConversationInv' /\ UNCHANGED <<reader, client>>
      /\ said'["reader"] # Unsaid /\ EndSaid(said'["reader"]) = code
  BY <1>1, <1>2, <1>3, TellConverses DEF ProgramConverses
<1>5. (IdleAt /\ LoopAt)'
  BY <1>1, <1>3, <1>4 DEF IdleAt, LoopAt, Idling, Beginning, Opening
<1>7. DoneAt'
  <2>1. status' # Thrown
    BY <1>1, ExitCodesDiffer
  <2> QED BY <1>1, <2>1 DEF DoneAt, Closing
<1>6. EndAt'
  <2>1. EndsAs(code)'
    BY <1>4 DEF EndsAs
  <2> QED BY <1>1, <2>1, ExitCodesDiffer DEF EndAt
<1> QED BY <1>4, <1>5, <1>6, <1>7 DEF ProgramConverses, MainAt

LEMMA MainConverses ==
  ProgramConverses /\ StatusAt /\ CommandKnown /\ MainStep => ProgramConverses'
<1> SUFFICES ASSUME ProgramConverses, StatusAt, CommandKnown, MainStep PROVE ProgramConverses'
  OBVIOUS
<1>1. CASE \/ Dispatch \/ LoadFails \/ NoText \/ DoctorUnsupported \/ SayUnsupported \/ Platform
           \/ RegisterVoice("kal16", "rms") \/ RegisterVoice("rms", "rates")
           \/ EngineFails \/ CheckRates \/ OpenFails \/ OpenDevice \/ StartFails \/ StartDevice
           \/ DoctorNoAudio \/ SayNoAudio \/ Doctor \/ Say \/ SayFails \/ SayNotQueued \/ NoPipe
           \/ StopAudio \/ ForgetPipe \/ ClosePipe
           \/ UnwindDevice \/ UnwindEngine \/ DoctorCaught \/ SayCaught \/ Reported
  <2>1. UNCHANGED streamVars
    BY <1>1 DEF Dispatch, LoadFails, NoText, DoctorUnsupported, SayUnsupported, Platform,
                RegisterVoice, EngineFails, CheckRates, OpenFails, OpenDevice, StartFails,
                StartDevice, DoctorNoAudio, SayNoAudio, Doctor, Say, SayFails, SayNotQueued, NoPipe,
                StopAudio, ForgetPipe, ClosePipe, UnwindDevice, UnwindEngine, DoctorCaught,
                SayCaught, Reported, Throws, Succeeds
  <2> QED BY <1>1, <2>1, SilentStepConverses
<1>2. ASSUME NEW config \in ConfigPatches, LoadVoice(config) PROVE ProgramConverses'
  <2>1. /\ UNCHANGED <<phase, session, announced, pending, held, client, reader, said, holder,
                       input, batch, line>>
        /\ main = "voice" /\ main' = "platform"
    BY <1>2 DEF LoadVoice, Main, sessionVars, clientVars, outputVars
  <2>2. ConversationInv'
    BY <2>1, StutterConverses DEF ProgramConverses
  <2>3. MainAt'
    BY <2>1 DEF ProgramConverses, MainAt, IdleAt, LoopAt, DoneAt, EndAt, InSync, Idling, Beginning,
                Opening, Closing, Over
  <2> QED BY <2>2, <2>3 DEF ProgramConverses
<1>3. CASE StreamUnsupported \/ StreamNoAudio \/ StreamCaught
  BY <1>3, FailureConverses
<1>4. CASE StartStream
  BY <1>4, StreamStarts
<1>5. CASE LoopEnds
  <2>1. /\ UNCHANGED <<phase, session, announced, pending, client, reader, said, holder, input, batch>>
        /\ reader = "left" /\ main = "loop" /\ status' = status
        /\ main' = IF status = Running THEN "stop" ELSE "unwind"
    BY <1>5 DEF LoopEnds, Main, S!Silence, clientVars, outputVars
  <2>2. ConversationInv'
    BY <2>1, StutterConverses DEF ProgramConverses
  <2>3. status \in {Running, Thrown}
    BY <2>1 DEF StatusAt
  <2>4. MainAt'
    BY <2>1, <2>3, ExitCodesDiffer
    DEF ProgramConverses, MainAt, IdleAt, LoopAt, DoneAt, EndAt, Untold, Idling, Beginning, Opening,
        Closing, Leaving, Over
  <2> QED BY <2>2, <2>4 DEF ProgramConverses
<1>6. CASE WriteError
  <2>1. PICK e : e = said["reader"]
    OBVIOUS
  <2>2. /\ main \in {"unwind", "report"} /\ UNCHANGED <<main, status, argv>>
        /\ Write("reader") /\ e # Unsaid
    BY <1>6, <2>1 DEF WriteError, Write, programVars
  <2>3. ConversationInv' /\ client' = Told(e)
    BY <2>1, <2>2, WriteConverses DEF ProgramConverses
  <2>4. reader \in {"none", "left"} /\ reader' = reader /\ said'["reader"] = Unsaid
    BY <2>2 DEF ProgramConverses, ConversationInv, TalkInv, ShapeAt, MainAt, LoopAt, Write, Onward,
                Workers
  <2>5. client'.end = IF EndSaid(e) = NoString THEN client.end ELSE EndSaid(e)
    BY <2>3, ToldFields
  <2>6. ASSUME NEW reason, reason # NoString, EndsAs(reason) PROVE EndsAs(reason)'
    BY <2>1, <2>2, <2>4, <2>5, <2>6 DEF EndsAs
  <2>7. (IdleAt /\ LoopAt)'
    BY <2>2, <2>4 DEF IdleAt, LoopAt, Idling, Beginning, Opening
  <2>8. DoneAt'
    BY <2>1, <2>2, <2>4 DEF ProgramConverses, MainAt, DoneAt, Untold, Closing
  <2>9. EndAt'
    <3>1. /\ "shutting_down" # NoString /\ "unsupported_environment" # NoString
          /\ "audio_unavailable" # NoString /\ "internal_error" # NoString
      BY DEF NoString
    <3> QED BY <2>2, <2>6, <3>1 DEF ProgramConverses, MainAt, EndAt
  <2> QED BY <2>3, <2>7, <2>8, <2>9 DEF ProgramConverses, MainAt
<1> QED BY <1>1, <1>2, <1>3, <1>4, <1>5, <1>6 DEF MainStep, CommandFails

LEMMA ConversesStep ==
  ProgramConverses /\ StatusAt /\ CommandKnown /\ [Next]_vars => ProgramConverses'
<1> SUFFICES ASSUME ProgramConverses, StatusAt, CommandKnown, [Next]_vars
             PROVE  ProgramConverses'
  OBVIOUS
<1>1. CASE Exited \/ UNCHANGED vars
  <2>1. UNCHANGED <<phase, session, announced, pending, held, client, reader, said, holder, input,
                    batch, line, main, status, argv>>
    BY <1>1 DEF Exited, vars, programVars, streamVars, sessionVars, clientVars, outputVars
  <2>2. ConversationInv'
    BY <2>1, StutterConverses DEF ProgramConverses
  <2>3. MainAt'
    BY <2>1 DEF ProgramConverses, MainAt, IdleAt, LoopAt, DoneAt, EndAt, Untold, EndsAs, InSync
  <2> QED BY <2>2, <2>3 DEF ProgramConverses
<1>2. CASE ReadFails
  <2>1. /\ main = "loop" /\ main' = main /\ status' = Thrown
        /\ reader = "take" /\ reader' = "close"
        /\ UNCHANGED <<phase, session, announced, pending, held, client, said, holder, input, batch>>
    BY <1>2 DEF ReadFails, sessionVars, clientVars, outputVars
  <2>2. TalkInv'
    BY <2>1, MoveTalks DEF ProgramConverses, ConversationInv
  <2>3. LinesAt' /\ OwedAt'
    BY <2>1, LinesLeft DEF ProgramConverses, ConversationInv
  <2>4. client.end = NoString
    BY <2>1 DEF ProgramConverses, ConversationInv, TalkInv, LifeAt, Serving
  <2>5. MainAt'
    BY <2>1, <2>4, ExitCodesDiffer
    DEF MainAt, IdleAt, LoopAt, DoneAt, EndAt, Idling, Beginning, Opening, Closing, Leaving, Over
  <2> QED BY <2>2, <2>3, <2>5 DEF ProgramConverses, ConversationInv
<1>3. CASE MainStep
  BY <1>3, MainConverses
<1>4. CASE ReaderLoop \/ WorkerLoop
  BY <1>4, LoopConverses
<1>5. CASE ClientActs
  BY <1>5, ClientConverses
<1> QED BY <1>1, <1>2, <1>3, <1>4, <1>5 DEF Next

LEMMA ConversesAlways == Spec => []ProgramConverses
<1>1. PartsAt => CommandKnown
  BY DEF PartsAt
<1> QED
  BY <1>1, ConversesInit, ConversesStep, StatusAlways, PartsAlways, PTL DEF Spec

\* Whatever the three threads, the client and main() do, no event ever surprises
\* a client that reads them all: ready is the first and an error that is final the
\* last, every session starts, speaks and ends in that order, a phrase fails of a
\* session that there is or that was interrupted, and the seqs that come back are
\* those of the client's appends in the order of its lines.
THEOREM EventsInOrder == Spec => []EventsMakeSense
<1>1. ProgramConverses => EventsMakeSense
  BY DEF ProgramConverses, ConversationInv, TalkInv, ShapeAt, EventsMakeSense
<1> QED BY <1>1, ConversesAlways, PTL

\* Whenever no event is on its way, the client that has read all of them knows
\* which session there is and whether it has begun to speak, failed phrases or not.
THEOREM ClientUpToDate == Spec => []ClientKnows
<1>1. ProgramConverses => ClientKnows
  BY DEF ProgramConverses, ConversationInv, TalkInv, SyncAt, SessionAt, InSync, Serving,
         ClientKnows
<1> QED BY <1>1, ConversesAlways, PTL

-----------------------------------------------------------------------------
\* What main() returns.

CodesAt ==
  /\ main \in Over =>
       status \in {kExitSuccess, kExitUsage, kExitUnsupported, kExitAudioUnavailable,
                   kExitInternal, kExitConfiguration, Thrown}
  /\ main \in {"report", "exited"} => status # Thrown

LEMMA CodesStep == CodesAt /\ StatusAt /\ CommandKnown /\ [Next]_vars => CodesAt'
<1> SUFFICES ASSUME CodesAt, StatusAt, CommandKnown, [Next]_vars PROVE CodesAt'
  OBVIOUS
<1> DEFINE Returned == /\ main' \in Over
                       /\ status' \in {kExitSuccess, kExitUsage, kExitUnsupported,
                                       kExitAudioUnavailable, kExitInternal, kExitConfiguration}
<1>1. ASSUME Returned PROVE CodesAt'
  <2>1. status' # Thrown
    BY <1>1 DEF Thrown, kExitSuccess, kExitUsage, kExitUnsupported, kExitAudioUnavailable,
                kExitInternal, kExitConfiguration
  <2> QED BY <1>1, <2>1 DEF CodesAt
<1>2. CASE Dispatch \/ LoadFails
  BY <1>1, <1>2 DEF Dispatch, LoadFails, Main, CodesAt, Over
<1>3. CASE CommandFails \/ SayNotQueued
  BY <1>1, <1>3 DEF CommandFails, SayNotQueued, DoctorUnsupported, SayUnsupported, StreamUnsupported,
                    NoText, DoctorNoAudio, SayNoAudio, StreamNoAudio, DoctorCaught, SayCaught,
                    StreamCaught, Returns, Main, Over
<1>4. CASE Doctor \/ Say \/ ClosePipe
  BY <1>1, <1>4 DEF Doctor, Say, ClosePipe, Succeeds, Main, Over
<1>5. CASE SayFails \/ NoPipe
  BY <1>5 DEF SayFails, NoPipe, Throws, Main, CodesAt
<1>6. CASE LoopEnds
  BY <1>6 DEF LoopEnds, Main, StatusAt, CodesAt, Over
<1>7. CASE UnwindDevice \/ UnwindEngine \/ Reported
  BY <1>7 DEF UnwindDevice, CanUnwind, UnwindEngine, Reported, Main, CodesAt, Over
<1>8. CASE \/ (\E config \in ConfigPatches : LoadVoice(config)) \/ Platform
           \/ RegisterVoice("kal16", "rms") \/ RegisterVoice("rms", "rates")
           \/ EngineFails \/ CheckRates \/ OpenFails \/ OpenDevice \/ StartFails
           \/ StartStream \/ StopAudio \/ ForgetPipe
  BY <1>8 DEF LoadVoice, Platform, RegisterVoice, EngineFails, EngineLacks, CheckRates, OpenFails,
              OpenDevice, StartFails, StartStream, StopAudio, ForgetPipe, Main, CodesAt, Over
<1>9. CASE StartDevice
  BY <1>9 DEF StartDevice, Main, CommandKnown, CodesAt, Over
<1>10. CASE WriteError \/ ReaderLoop \/ WorkerLoop \/ ClientActs \/ Exited \/ UNCHANGED vars
  BY <1>10 DEF WriteError, ReaderLoop, WorkerLoop, ClientActs, LoopUnchanged, Exited, vars,
               programVars, CodesAt
<1>11. CASE ReadFails
  BY <1>11 DEF ReadFails, CodesAt, Over
<1> QED
  BY <1>2, <1>3, <1>4, <1>5, <1>6, <1>7, <1>8, <1>9, <1>10, <1>11 DEF Next, MainStep

LEMMA CodesAlways == Spec => []CodesAt
<1>1. Init => CodesAt
  BY DEF Init, CodesAt, Over
<1>2. PartsAt => CommandKnown
  BY DEF PartsAt
<1> QED BY <1>1, <1>2, CodesStep, StatusAlways, PartsAlways, PTL DEF Spec

\* On every way out of `trv stream` its client has been told once, and last, what
\* the exit code tells the caller, although an error is told before the
\* destructors run and what a catch reports after them.
THEOREM EndAlwaysTold == Spec => []EndIsTold
<1>1. ProgramConverses /\ CodesAt => EndIsTold
  <2> SUFFICES ASSUME ProgramConverses, CodesAt, StreamEnded
               PROVE  \/ status = kExitSuccess /\ client.end = "shutting_down"
                      \/ status = kExitUnsupported /\ client.end = "unsupported_environment"
                      \/ status = kExitAudioUnavailable /\ client.end = "audio_unavailable"
                      \/ status = kExitInternal /\ client.end = "internal_error"
    BY DEF EndIsTold
  <2>1. /\ main = "exited" /\ argv = <<"stream">>
        /\ status \in {kExitSuccess, kExitUnsupported, kExitAudioUnavailable, kExitInternal}
    BY DEF StreamEnded, CodesAt, Over
  <2>2. said["reader"] = Unsaid
    BY <2>1 DEF ProgramConverses, MainAt, DoneAt
  <2> QED BY <2>1, <2>2 DEF ProgramConverses, MainAt, EndAt, EndsAs, Over
<1> QED BY <1>1, ConversesAlways, CodesAlways, PTL

-----------------------------------------------------------------------------
\* The command line: the scan goes by the roles of the arguments.

Words == STRING

\* A counterexample among the naturals has a least one.
LEMMA FirstFailure ==
  ASSUME NEW N \in Nat, NEW Exceptions, Exceptions \subseteq 0..N, 0 \notin Exceptions,
         \A n \in 1..N : n - 1 \notin Exceptions => n \notin Exceptions
  PROVE  Exceptions = {}
<1> SUFFICES ASSUME Exceptions # {} PROVE FALSE
  OBVIOUS
<1>1. PICK n : n = Min(Exceptions)
  OBVIOUS
<1>2. n \in Exceptions /\ \A k \in Exceptions : n <= k
  <2>1. Exceptions \subseteq Nat
    OBVIOUS
  <2> QED
    BY <1>1, <2>1, FirstPosition
<1>3. n \in 0..N /\ n # 0
  BY <1>2
<1>4. n \in 1..N /\ ~(n <= n - 1)
  BY <1>3
<1>5. n - 1 \notin Exceptions
  BY <1>2, <1>4
<1> QED
  BY <1>2, <1>4, <1>5

\* Scan's recursive function, and the roles that ScansRight chooses.
Scans(args, scanned) ==
  scanned = [n \in 0..Len(args) |->
               IF n = 0 THEN NotScanned ELSE Scanned(scanned[n - 1], args[n])]

LEMMA ScanningExists ==
  ASSUME NEW args \in Seq(Words)
  PROVE  \E scanned : Scans(args, scanned)
<1> DEFINE To(scanned, m) ==
             scanned = [n \in 0..m |->
                          IF n = 0 THEN NotScanned ELSE Scanned(scanned[n - 1], args[n])]
           Exceptions == {m \in 0..Len(args) : ~\E scanned : To(scanned, m)}
<1>1. 0 \notin Exceptions
  <2>1. To([n \in 0..0 |-> NotScanned], 0)
    OBVIOUS
  <2> QED
    BY <2>1
<1>2. ASSUME NEW m \in 1..Len(args), m - 1 \notin Exceptions
      PROVE  m \notin Exceptions
  <2>1. m - 1 \in 0..Len(args)
    OBVIOUS
  <2>2. PICK f : To(f, m - 1)
    BY <1>2, <2>1
  <2> DEFINE g == [n \in 0..m |-> IF n < m THEN f[n] ELSE Scanned(f[n - 1], args[n])]
  <2>3. \A n \in 0..(m - 1) :
          f[n] = IF n = 0 THEN NotScanned ELSE Scanned(f[n - 1], args[n])
    BY <2>2
  <2>4. ASSUME NEW n \in 0..m
        PROVE  g[n] = IF n = 0 THEN NotScanned ELSE Scanned(g[n - 1], args[n])
    <3>1. n # 0 => g[n - 1] = f[n - 1]
      OBVIOUS
    <3>2. CASE n < m
      <4>1. g[n] = f[n] /\ n \in 0..(m - 1)
        BY <3>2
      <4> HIDE DEF g
      <4> QED
        BY <2>3, <3>1, <4>1
    <3>3. CASE ~(n < m)
      <4>1. g[n] = Scanned(f[n - 1], args[n]) /\ n # 0
        BY <3>3
      <4> HIDE DEF g
      <4> QED
        BY <3>1, <4>1
    <3> QED
      BY <3>2, <3>3
  <2>5. To(g, m)
    <3>1. g = [n \in 0..m |-> g[n]]
      OBVIOUS
    <3> HIDE DEF g
    <3> QED
      BY <2>4, <3>1
  <2> QED
    BY <2>5
<1>3. Exceptions = {}
  <2>1. Exceptions \subseteq 0..Len(args) /\ Len(args) \in Nat
    OBVIOUS
  <2> HIDE DEF Exceptions
  <2> QED
    BY <1>1, <1>2, <2>1, FirstFailure
<1>4. Len(args) \notin Exceptions
  BY <1>3
<1>5. \E scanned : To(scanned, Len(args))
  BY <1>4
<1> QED
  BY <1>5 DEF Scans

LEMMA ScanIs ==
  ASSUME NEW args \in Seq(Words)
  PROVE  \E scanned :
           /\ scanned[0] = NotScanned
           /\ \A n \in 1..Len(args) : scanned[n] = Scanned(scanned[n - 1], args[n])
           /\ LET o == scanned[Len(args)]
              IN  Scan(args) =
                    [o EXCEPT !.error = @ \/ o.awaits # NoOption \/ (o.noConfig /\ o.config # Absent)]
<1> DEFINE scanned == CHOOSE scanned : Scans(args, scanned)
<1>1. Scans(args, scanned)
  BY ScanningExists
<1>2. LET o == scanned[Len(args)]
      IN  Scan(args) =
            [o EXCEPT !.error = @ \/ o.awaits # NoOption \/ (o.noConfig /\ o.config # Absent)]
  BY DEF Scan, Scans
<1> HIDE DEF scanned
<1>3. /\ scanned[0] = NotScanned
      /\ \A n \in 1..Len(args) : scanned[n] = Scanned(scanned[n - 1], args[n])
  BY <1>1 DEF Scans
<1> QED
  BY <1>2, <1>3

\* An argument's role depends on those before it.
LEMMA RoleByEarlier ==
  ASSUME NEW args, NEW i \in Nat \ {0}, NEW r, NEW s, \A j \in 1..(i - 1) : r[j] = s[j]
  PROVE  RoleAt(args, r, i) = RoleAt(args, s, i)
<1>1. i > 1 => r[i - 1] = s[i - 1]
  OBVIOUS
<1>2. (\E j \in 1..(i - 1) : r[j] = "separator") <=> \E j \in 1..(i - 1) : s[j] = "separator"
  OBVIOUS
<1> QED
  BY <1>1, <1>2 DEF RoleAt

LEMMA RolesExist ==
  ASSUME NEW args \in Seq(Words)
  PROVE  \E r \in [1..Len(args) -> Roles] : HasRoles(args, r)
<1> DEFINE To(r, m) == r \in [1..m -> Roles] /\ \A i \in 1..m : r[i] = RoleAt(args, r, i)
           Exceptions == {m \in 0..Len(args) : ~\E r : To(r, m)}
<1>1. 0 \notin Exceptions
  <2>1. To([i \in 1..0 |-> "wrong"], 0)
    OBVIOUS
  <2> QED
    BY <2>1
<1>2. ASSUME NEW m \in 1..Len(args), m - 1 \notin Exceptions
      PROVE  m \notin Exceptions
  <2>1. m - 1 \in 0..Len(args)
    OBVIOUS
  <2>2. PICK r : To(r, m - 1)
    BY <1>2, <2>1
  <2> DEFINE s == [i \in 1..m |-> IF i < m THEN r[i] ELSE RoleAt(args, r, i)]
  <2>3. s \in [1..m -> Roles]
    <3>1. \A i \in 1..m : i < m => i \in 1..(m - 1)
      OBVIOUS
    <3>2. RoleAt(args, r, m) \in Roles
      BY DEF RoleAt, Roles
    <3> QED
      BY <2>2, <3>1, <3>2
  <2>4. ASSUME NEW i \in 1..m PROVE s[i] = RoleAt(args, s, i)
    <3>1. \A j \in 1..(i - 1) : s[j] = r[j]
      OBVIOUS
    <3>2. RoleAt(args, s, i) = RoleAt(args, r, i)
      <4> HIDE DEF s
      <4> QED
        BY <3>1, RoleByEarlier
    <3>3. s[i] = RoleAt(args, r, i)
      BY <2>2
    <3> QED
      BY <3>2, <3>3
  <2> QED
    BY <2>3, <2>4
<1>3. Exceptions = {}
  <2>1. Exceptions \subseteq 0..Len(args) /\ Len(args) \in Nat
    OBVIOUS
  <2> HIDE DEF Exceptions
  <2> QED
    BY <1>1, <1>2, <2>1, FirstFailure
<1>4. \E r : To(r, Len(args))
  BY <1>3
<1> QED
  BY <1>4 DEF HasRoles

\* What the scan has made of the first n arguments.

Wrong(args, role, i) ==
  role[i] = "wrong" \/ (role[i] = "value" /\ ~IsValue(args[i - 1], args[i]))

IsScan(o) ==
  /\ o = [patch |-> o.patch, config |-> o.config, noConfig |-> o.noConfig,
          positional |-> o.positional, positionalOnly |-> o.positionalOnly,
          awaits |-> o.awaits, error |-> o.error]
  /\ o.error \in BOOLEAN /\ o.noConfig \in BOOLEAN /\ o.positionalOnly \in BOOLEAN
  /\ o.positional \in Seq(Words)

LastGiven(args, role, o, option, n) ==
  LET given == Given(args, role, option, n)
  IN  /\ IsGiven(o, option) <=> given # {}
      /\ given # {} => \E last \in given :
           (\A j \in given : j <= last) /\ ValueIn(o, option) = ValueOf(option, args[last])

\* `positional` holds the arguments at these places, in order.
HoldsInOrder(positional, args, places) ==
  /\ Len(positional) = Cardinality(places)
  /\ \A p \in places : /\ PlaceAmong(p, places) \in 1..Cardinality(places)
                       /\ positional[PlaceAmong(p, places)] = args[p]
  /\ \A k \in 1..Cardinality(places) : \E p \in places : PlaceAmong(p, places) = k

ScannedTo(args, role, o, n) ==
  /\ o.awaits = IF n > 0 /\ role[n] = "option" THEN args[n] ELSE NoOption
  /\ o.positionalOnly <=> \E j \in 1..n : role[j] = "separator"
  /\ o.noConfig <=> Places(role, "flag", n) # {}
  /\ \A option \in ValueOptions : LastGiven(args, role, o, option, n)
  /\ HoldsInOrder(o.positional, args, Places(role, "positional", n))

ScanAt(args, role, o, n) ==
  /\ IsScan(o)
  /\ o.error <=> \E i \in 1..n : Wrong(args, role, i)
  /\ ~o.error => ScannedTo(args, role, o, n)

LEMMA FieldsDiffer ==
  /\ \A a, b \in DOMAIN FieldOf : FieldOf[a] = FieldOf[b] => a = b
  /\ "--config" \notin DOMAIN FieldOf /\ "--config" \notin NumberOptions
  /\ NoOption \notin ValueOptions
  /\ "--" \notin ValueOptions /\ "--no-config" \notin ValueOptions
<1>1. DOMAIN FieldOf = {"--model", "--preset", "--speed", "--pitch-semitones",
                        "--expression", "--gain-db"}
  BY DEF FieldOf
<1>2. /\ FieldOf["--model"] = "model" /\ FieldOf["--preset"] = "preset"
      /\ FieldOf["--speed"] = "speed" /\ FieldOf["--pitch-semitones"] = "pitch_semitones"
      /\ FieldOf["--expression"] = "expression" /\ FieldOf["--gain-db"] = "gain_db"
  BY DEF FieldOf
<1>3. \A a, b \in DOMAIN FieldOf : FieldOf[a] = FieldOf[b] => a = b
  BY <1>1, <1>2
<1> QED
  BY <1>1, <1>3 DEF ValueOptions, NumberOptions, NoOption

LEMMA PlacesGrow ==
  ASSUME NEW role, NEW r, NEW n \in Nat \ {0}
  PROVE  Places(role, r, n) = Places(role, r, n - 1) \cup (IF role[n] = r THEN {n} ELSE {})
<1>1. 1..n = 1..(n - 1) \cup {n}
  OBVIOUS
<1> QED
  BY <1>1 DEF Places

LEMMA SamePlaces ==
  ASSUME NEW role, NEW r, NEW n \in Nat \ {0}, role[n] # r
  PROVE  Places(role, r, n) = Places(role, r, n - 1)
BY PlacesGrow

LEMMA GivenGrows ==
  ASSUME NEW args, NEW role, NEW option, NEW n \in Nat \ {0}
  PROVE  Given(args, role, option, n) =
           Given(args, role, option, n - 1)
             \cup (IF role[n] = "value" /\ args[n - 1] = option THEN {n} ELSE {})
<1>1. Places(role, "value", n) =
        Places(role, "value", n - 1) \cup (IF role[n] = "value" THEN {n} ELSE {})
  BY PlacesGrow
<1> QED
  BY <1>1 DEF Given

LEMMA SameGiven ==
  ASSUME NEW args, NEW role, NEW option, NEW n \in Nat \ {0},
         role[n] # "value" \/ args[n - 1] # option
  PROVE  Given(args, role, option, n) = Given(args, role, option, n - 1)
<1>1. ~(role[n] = "value" /\ args[n - 1] = option)
  OBVIOUS
<1> QED
  BY <1>1, GivenGrows

LEMMA NothingYet ==
  ASSUME NEW args, NEW role
  PROVE  ScanAt(args, role, NotScanned, 0)
<1>1. IsScan(NotScanned) /\ ~NotScanned.error
  BY DEF IsScan, NotScanned
<1>2. \A r : Places(role, r, 0) = {}
  BY DEF Places
<1>3. \A option : Given(args, role, option, 0) = {}
  BY <1>2 DEF Given
<1>4. \A option \in ValueOptions : LastGiven(args, role, NotScanned, option, 0)
  BY <1>3 DEF LastGiven, IsGiven, NotScanned
<1>5. HoldsInOrder(NotScanned.positional, args, Places(role, "positional", 0))
  <2>1. HoldsInOrder(<<>>, args, {})
    BY FS_EmptySet DEF HoldsInOrder
  <2> QED
    BY <1>2, <2>1 DEF NotScanned
<1>6. ScannedTo(args, role, NotScanned, 0)
  <2>1. /\ NotScanned.awaits = NoOption /\ NotScanned.positionalOnly = FALSE
        /\ NotScanned.noConfig = FALSE
    BY DEF NotScanned
  <2>2. ~(0 > 0) /\ ~\E j \in 1..0 : role[j] = "separator"
    OBVIOUS
  <2>3. NotScanned.awaits = IF 0 > 0 /\ role[0] = "option" THEN args[0] ELSE NoOption
    BY <2>1, <2>2
  <2>4. /\ NotScanned.positionalOnly <=> \E j \in 1..0 : role[j] = "separator"
        /\ NotScanned.noConfig <=> Places(role, "flag", 0) # {}
    BY <1>2, <2>1, <2>2
  <2> QED
    BY <1>4, <1>5, <2>3, <2>4 DEF ScannedTo
<1> QED
  BY <1>1, <1>6 DEF ScanAt

\* A place more, after all the others, is the last of them.
LEMMA HoldsOneMore ==
  ASSUME NEW args \in Seq(Words), NEW n \in 1..Len(args),
         NEW places, places \subseteq 1..(n - 1),
         NEW positional \in Seq(Words), HoldsInOrder(positional, args, places)
  PROVE  HoldsInOrder(Append(positional, args[n]), args, places \cup {n})
<1> DEFINE c == Cardinality(places)
           more == places \cup {n}
<1>1. IsFiniteSet(places) /\ n \notin places
  <2>1. IsFiniteSet(1..(n - 1))
    BY FS_Interval
  <2>2. n \notin places
    OBVIOUS
  <2> QED
    BY <2>1, <2>2, FS_Subset
<1>2. c \in Nat /\ Cardinality(more) = c + 1
  BY <1>1, FS_AddElement, FS_CardinalityType
<1>3. \A p \in places : PlaceAmong(p, more) = PlaceAmong(p, places)
  <2>1. ASSUME NEW p \in places PROVE {q \in more : q <= p} = {q \in places : q <= p}
    OBVIOUS
  <2> QED
    BY <2>1 DEF PlaceAmong
<1>4. PlaceAmong(n, more) = c + 1
  <2>1. \A q \in more : q <= n
    OBVIOUS
  <2>2. {q \in more : q <= n} = more
    BY <2>1
  <2> QED
    BY <1>2, <2>2 DEF PlaceAmong
<1>5. args[n] \in Words /\ Len(positional) = c
  BY DEF HoldsInOrder
<1> HIDE DEF c
<1>6. /\ Len(Append(positional, args[n])) = c + 1
      /\ Append(positional, args[n])[c + 1] = args[n]
      /\ \A k \in 1..c : Append(positional, args[n])[k] = positional[k]
  BY <1>5
<1>7. /\ \A p \in places : PlaceAmong(p, places) \in 1..c /\ positional[PlaceAmong(p, places)] = args[p]
      /\ \A k \in 1..c : \E p \in places : PlaceAmong(p, places) = k
  BY DEF HoldsInOrder, c
<1> HIDE DEF more
<1>8. n \in more /\ \A p \in more : p \in places \/ p = n
  BY DEF more
<1>9. \A p \in places : p \in more
  BY DEF more
<1>10. \A p \in more : /\ PlaceAmong(p, more) \in 1..(c + 1)
                       /\ Append(positional, args[n])[PlaceAmong(p, more)] = args[p]
  <2>1. ASSUME NEW p \in places
        PROVE  /\ PlaceAmong(p, more) \in 1..(c + 1)
               /\ Append(positional, args[n])[PlaceAmong(p, more)] = args[p]
    <3>1. PICK k : k = PlaceAmong(p, places)
      OBVIOUS
    <3>2. k \in 1..c /\ positional[k] = args[p] /\ PlaceAmong(p, more) = k
      BY <1>3, <1>7, <3>1
    <3> QED
      BY <1>2, <1>6, <3>2
  <2> QED
    BY <1>2, <1>4, <1>6, <1>8, <2>1
<1>11. \A k \in 1..(c + 1) : \E p \in more : PlaceAmong(p, more) = k
  <2>1. ASSUME NEW k \in 1..c PROVE \E p \in more : PlaceAmong(p, more) = k
    BY <1>3, <1>7, <1>9
  <2>2. \A k \in 1..(c + 1) : k \in 1..c \/ k = c + 1
    BY <1>2
  <2> QED
    BY <1>4, <1>8, <2>1, <2>2
<1>12. HoldsInOrder(Append(positional, args[n]), args, more)
  BY <1>2, <1>6, <1>10, <1>11 DEF HoldsInOrder
<1> QED
  BY <1>12 DEF more

LEMMA FirstOnes ==
  ASSUME NEW n \in Nat \ {0}
  PROVE  /\ \A i \in 1..n : i \in 1..(n - 1) \/ i = n
         /\ \A i \in 1..(n - 1) : i \in 1..n
         /\ n \in 1..n
OBVIOUS

\* The scan's step, by the role of the argument.
LEMMA ValueScanned ==
  ASSUME NEW args \in Seq(Words), NEW role, NEW n \in 1..Len(args),
         HasRoles(args, role), role[n] = "value", NEW o, ScanAt(args, role, o, n - 1), ~o.error, o.awaits # NoOption
  PROVE  ScanAt(args, role, Scanned(o, args[n]), n)
<1> DEFINE p == Scanned(o, args[n])
           option == args[n - 1]
<1>0. n \in Nat \ {0}
  OBVIOUS
<1>9. role[n] # "flag" /\ role[n] # "positional"
  OBVIOUS
<1>1. ScannedTo(args, role, o, n - 1) /\ IsScan(o)
  BY DEF ScanAt
<1>2. /\ n - 1 \in 1..Len(args) /\ role[n - 1] = "option" /\ o.awaits = option
      /\ args[n] \in Words
  <2>1. n - 1 > 0 /\ role[n - 1] = "option" /\ o.awaits = args[n - 1]
    BY <1>1 DEF ScannedTo
  <2> QED
    BY <2>1
<1>3. ~\E i \in 1..(n - 1) : Wrong(args, role, i)
  BY DEF ScanAt
<1>4. (\E i \in 1..n : Wrong(args, role, i)) <=> ~IsValue(option, args[n])
  <2>1. Wrong(args, role, n) <=> ~IsValue(option, args[n])
    BY DEF Wrong
  <2> QED
    BY <1>0, <1>3, <2>1, FirstOnes
<1>5. CASE ~IsValue(option, args[n])
  <2>1. p = [o EXCEPT !.error = TRUE]
    BY <1>2, <1>5 DEF Scanned
  <2>2. IsScan(p) /\ p.error = TRUE
    BY <1>1, <2>1 DEF IsScan
  <2> QED
    BY <1>4, <1>5, <2>2 DEF ScanAt
<1>6. CASE IsValue(option, args[n])
  <2>1. p = WithValue(o, args[n])
    BY <1>2, <1>6 DEF Scanned
  <2>2. /\ IsScan(p) /\ p.error = FALSE /\ p.awaits = NoOption /\ p.noConfig = o.noConfig
        /\ p.positional = o.positional /\ p.positionalOnly = o.positionalOnly
        /\ o.awaits = "--config" => p.config = args[n] /\ p.patch = o.patch
        /\ o.awaits # "--config" =>
             /\ p.config = o.config
             /\ p.patch = [f \in DOMAIN o.patch \cup {FieldOf[o.awaits]} |->
                             IF f = FieldOf[o.awaits] THEN ValueOf(o.awaits, args[n])
                             ELSE o.patch[f]]
    BY <1>1, <2>1 DEF WithValue, IsScan
  <2> HIDE DEF p
  <2>3. /\ \A j \in 1..n : j \in 1..(n - 1) \/ j = n
        /\ \A j \in 1..(n - 1) : j \in 1..n
    BY <1>0, FirstOnes
  <2>4. p.positionalOnly <=> \E j \in 1..n : role[j] = "separator"
    <3>1. o.positionalOnly <=> \E j \in 1..(n - 1) : role[j] = "separator"
      BY <1>1 DEF ScannedTo
    <3> QED
      BY <2>2, <2>3, <3>1
  <2>5. p.noConfig <=> Places(role, "flag", n) # {}
    <3>1. Places(role, "flag", n) = Places(role, "flag", n - 1)
      BY <1>0, <1>9, SamePlaces
    <3> QED
      BY <1>1, <2>2, <3>1 DEF ScannedTo
  <2>6. HoldsInOrder(p.positional, args, Places(role, "positional", n))
    <3>1. Places(role, "positional", n) = Places(role, "positional", n - 1)
      BY <1>0, <1>9, SamePlaces
    <3> QED
      BY <1>1, <2>2, <3>1 DEF ScannedTo
  <2>7. ASSUME NEW other \in ValueOptions
        PROVE  LastGiven(args, role, p, other, n)
    <3>1. LastGiven(args, role, o, other, n - 1)
      BY <1>1 DEF ScannedTo
    <3>2. CASE other = option
      <4>1. n \in Given(args, role, other, n)
        BY <1>0, <3>2, GivenGrows
      <4>2. \A j \in Given(args, role, other, n) : j <= n
        BY <1>0 DEF Given, Places
      <4>3. IsGiven(p, other) /\ ValueIn(p, other) = ValueOf(other, args[n])
        <5>1. CASE other = "--config"
          <6>1. p.config = args[n] /\ args[n] # Absent
            BY <1>2, <2>2, <3>2, <5>1, CommandLineAssumption DEF Words
          <6> QED
            BY <5>1, <6>1, FieldsDiffer DEF IsGiven, ValueIn, ValueOf
        <5>2. CASE other # "--config"
          <6>1. /\ FieldOf[other] \in DOMAIN p.patch
                /\ p.patch[FieldOf[other]] = ValueOf(other, args[n])
            BY <1>2, <2>2, <3>2, <5>2
          <6> QED
            BY <5>2, <6>1 DEF IsGiven, ValueIn
        <5> QED
          BY <5>1, <5>2
      <4> QED
        BY <4>1, <4>2, <4>3 DEF LastGiven
    <3>3. CASE other # option
      <4>1. Given(args, role, other, n) = Given(args, role, other, n - 1)
        BY <1>0, <3>3, SameGiven
      <4>2. /\ IsGiven(p, other) <=> IsGiven(o, other)
            /\ IsGiven(o, other) => ValueIn(p, other) = ValueIn(o, other)
        <5>1. CASE other = "--config"
          BY <1>2, <2>2, <3>3, <5>1 DEF IsGiven, ValueIn
        <5>2. CASE other # "--config"
          <6>1. CASE option = "--config"
            BY <1>2, <2>2, <5>2, <6>1 DEF IsGiven, ValueIn
          <6>2. CASE option # "--config"
            <7>1. option \in ValueOptions
              BY <1>2 DEF HasRoles, RoleAt
            <7>2. FieldOf[other] # FieldOf[option]
              BY <3>3, <5>2, <6>2, <7>1, FieldsDiffer DEF ValueOptions
            <7> QED
              BY <1>2, <2>2, <5>2, <6>2, <7>2 DEF IsGiven, ValueIn
          <6> QED
            BY <6>1, <6>2
        <5> QED
          BY <5>1, <5>2
      <4> QED
        BY <3>1, <4>1, <4>2 DEF LastGiven
    <3> QED
      BY <3>2, <3>3
  <2>8. p.awaits = IF n > 0 /\ role[n] = "option" THEN args[n] ELSE NoOption
    BY <2>2
  <2>9. ScannedTo(args, role, p, n)
    BY <2>4, <2>5, <2>6, <2>7, <2>8 DEF ScannedTo
  <2>10. ScanAt(args, role, p, n)
    BY <1>4, <1>6, <2>2, <2>9 DEF ScanAt
  <2> QED
    BY <2>10 DEF p
<1> QED
  BY <1>5, <1>6

\* What an argument that is no value leaves as it was.
LEMMA NoValueKeeps ==
  ASSUME NEW args \in Seq(Words), NEW role, NEW n \in 1..Len(args), role[n] # "value",
         NEW o, NEW p, ScannedTo(args, role, o, n - 1), p.config = o.config, p.patch = o.patch
  PROVE  \A option \in ValueOptions : LastGiven(args, role, p, option, n)
<1> SUFFICES ASSUME NEW option \in ValueOptions PROVE LastGiven(args, role, p, option, n)
  OBVIOUS
<1>1. Given(args, role, option, n) = Given(args, role, option, n - 1)
  BY SameGiven
<1>2. LastGiven(args, role, o, option, n - 1)
  BY DEF ScannedTo
<1>3. (IsGiven(p, option) <=> IsGiven(o, option)) /\ ValueIn(p, option) = ValueIn(o, option)
  BY DEF IsGiven, ValueIn
<1> QED
  BY <1>1, <1>2, <1>3 DEF LastGiven

LEMMA NotWrongYet ==
  ASSUME NEW args, NEW role, NEW n \in Nat \ {0}, NEW o, ScanAt(args, role, o, n - 1), ~o.error,
         role[n] # "value", role[n] # "wrong"
  PROVE  ~\E i \in 1..n : Wrong(args, role, i)
<1>1. ~\E i \in 1..(n - 1) : Wrong(args, role, i)
  BY DEF ScanAt
<1>2. ~Wrong(args, role, n)
  BY DEF Wrong
<1> QED
  BY <1>1, <1>2, FirstOnes

LEMMA SameEnded ==
  ASSUME NEW role, NEW n \in Nat \ {0}, role[n] # "separator"
  PROVE  (\E j \in 1..n : role[j] = "separator") <=> \E j \in 1..(n - 1) : role[j] = "separator"
BY FirstOnes

LEMMA SameHeld ==
  ASSUME NEW args, NEW role, NEW n \in Nat \ {0}, role[n] # "positional", NEW o,
         ScannedTo(args, role, o, n - 1)
  PROVE  HoldsInOrder(o.positional, args, Places(role, "positional", n))
<1>1. Places(role, "positional", n) = Places(role, "positional", n - 1)
  BY SamePlaces
<1> QED
  BY <1>1 DEF ScannedTo

LEMMA SameFlag ==
  ASSUME NEW args, NEW role, NEW n \in Nat \ {0}, role[n] # "flag", NEW o,
         ScannedTo(args, role, o, n - 1)
  PROVE  o.noConfig <=> Places(role, "flag", n) # {}
<1>1. Places(role, "flag", n) = Places(role, "flag", n - 1)
  BY SamePlaces
<1> QED
  BY <1>1 DEF ScannedTo

\* The role of an argument that is no value, and what the scan makes of it.
LEMMA NotAwaited ==
  ASSUME NEW args \in Seq(Words), NEW role, NEW n \in 1..Len(args), HasRoles(args, role),
         role[n] # "value", NEW o, ScannedTo(args, role, o, n - 1)
  PROVE  /\ o.awaits = NoOption
         /\ role[n] = IF o.positionalOnly \/ args[n] \notin Dashed THEN "positional"
                      ELSE IF args[n] \in ValueOptions THEN "option"
                      ELSE IF args[n] = "--" THEN "separator"
                      ELSE IF args[n] = "--no-config" THEN "flag" ELSE "wrong"
<1>1. role[n] = RoleAt(args, role, n)
  BY DEF HasRoles
<1>2. ~(n > 1 /\ role[n - 1] = "option")
  BY <1>1 DEF RoleAt
<1>3. ~(n - 1 > 0 /\ role[n - 1] = "option")
  BY <1>2
<1>4. o.awaits = NoOption /\ (o.positionalOnly <=> \E j \in 1..(n - 1) : role[j] = "separator")
  BY <1>3 DEF ScannedTo
<1>5. role[n] = IF (\E j \in 1..(n - 1) : role[j] = "separator") \/ args[n] \notin Dashed
                  THEN "positional"
                ELSE IF args[n] \in ValueOptions THEN "option"
                ELSE IF args[n] = "--" THEN "separator"
                ELSE IF args[n] = "--no-config" THEN "flag" ELSE "wrong"
  BY <1>1, <1>2 DEF RoleAt
<1> QED
  BY <1>4, <1>5

LEMMA RefusedStays ==
  ASSUME NEW args \in Seq(Words), NEW role, NEW n \in 1..Len(args), NEW o,
         ScanAt(args, role, o, n - 1), o.error
  PROVE  ScanAt(args, role, Scanned(o, args[n]), n)
<1>1. Scanned(o, args[n]) = o
  BY DEF Scanned
<1>2. PICK i \in 1..(n - 1) : Wrong(args, role, i)
  BY DEF ScanAt
<1>3. \E j \in 1..n : Wrong(args, role, j)
  BY <1>2, FirstOnes
<1> QED
  BY <1>1, <1>3 DEF ScanAt

LEMMA WrongScanned ==
  ASSUME NEW args \in Seq(Words), NEW role, NEW n \in 1..Len(args), HasRoles(args, role),
         role[n] = "wrong", NEW o, ScanAt(args, role, o, n - 1), ~o.error
  PROVE  ScanAt(args, role, Scanned(o, args[n]), n)
<1>1. ScannedTo(args, role, o, n - 1) /\ IsScan(o)
  BY DEF ScanAt
<1>2. role[n] # "value" /\ role[n] # "positional" /\ role[n] # "option"
        /\ role[n] # "separator" /\ role[n] # "flag"
  OBVIOUS
<1>3. /\ o.awaits = NoOption /\ ~(o.positionalOnly \/ args[n] \notin Dashed)
      /\ args[n] \notin ValueOptions /\ args[n] # "--" /\ args[n] # "--no-config"
  BY <1>1, <1>2, NotAwaited
<1>4. Scanned(o, args[n]) = [o EXCEPT !.error = TRUE]
  BY <1>3 DEF Scanned
<1>5. IsScan(Scanned(o, args[n])) /\ Scanned(o, args[n]).error = TRUE
  BY <1>1, <1>4 DEF IsScan
<1>6. \E i \in 1..n : Wrong(args, role, i)
  <2>1. Wrong(args, role, n)
    BY DEF Wrong
  <2>2. n \in 1..n
    OBVIOUS
  <2> QED
    BY <2>1, <2>2
<1> QED
  BY <1>5, <1>6 DEF ScanAt

LEMMA PositionalScanned ==
  ASSUME NEW args \in Seq(Words), NEW role, NEW n \in 1..Len(args), HasRoles(args, role),
         role[n] = "positional", NEW o, ScanAt(args, role, o, n - 1), ~o.error
  PROVE  ScanAt(args, role, Scanned(o, args[n]), n)
<1> DEFINE p == Scanned(o, args[n])
<1>1. ScannedTo(args, role, o, n - 1) /\ IsScan(o)
  BY DEF ScanAt
<1>2. /\ role[n] # "value" /\ role[n] # "wrong" /\ role[n] # "option"
      /\ role[n] # "separator" /\ role[n] # "flag"
  OBVIOUS
<1>3. o.awaits = NoOption /\ (o.positionalOnly \/ args[n] \notin Dashed)
  BY <1>1, <1>2, NotAwaited
<1>4. p = [o EXCEPT !.positional = Append(@, args[n])]
  BY <1>3 DEF Scanned
<1>5. Append(o.positional, args[n]) \in Seq(Words)
  <2>1. args[n] \in Words /\ o.positional \in Seq(Words)
    BY <1>1 DEF IsScan
  <2> QED
    BY <2>1
<1>6. /\ IsScan(p) /\ p.error = o.error /\ p.positional = Append(o.positional, args[n])
      /\ p.awaits = o.awaits /\ p.noConfig = o.noConfig /\ p.positionalOnly = o.positionalOnly
      /\ p.config = o.config /\ p.patch = o.patch
  BY <1>1, <1>4, <1>5 DEF IsScan
<1> HIDE DEF p
<1>7. Places(role, "positional", n) = Places(role, "positional", n - 1) \cup {n}
  BY PlacesGrow
<1>8. HoldsInOrder(p.positional, args, Places(role, "positional", n))
  <2>1. Places(role, "positional", n - 1) \subseteq 1..(n - 1)
    BY DEF Places
  <2>2. HoldsInOrder(o.positional, args, Places(role, "positional", n - 1))
    BY <1>1 DEF ScannedTo
  <2>3. o.positional \in Seq(Words)
    BY <1>1 DEF IsScan
  <2>4. HoldsInOrder(Append(o.positional, args[n]), args, Places(role, "positional", n - 1) \cup {n})
    BY <2>1, <2>2, <2>3, HoldsOneMore
  <2> QED
    BY <1>6, <1>7, <2>4
<1>9. \A option \in ValueOptions : LastGiven(args, role, p, option, n)
  BY <1>1, <1>2, <1>6, NoValueKeeps
<1>10. p.positionalOnly <=> \E j \in 1..n : role[j] = "separator"
  BY <1>1, <1>2, <1>6, SameEnded DEF ScannedTo
<1>11. p.noConfig <=> Places(role, "flag", n) # {}
  <2>1. o.noConfig <=> Places(role, "flag", n) # {}
    BY <1>1, <1>2, SameFlag
  <2> QED
    BY <1>6, <2>1
<1>12. p.awaits = IF n > 0 /\ role[n] = "option" THEN args[n] ELSE NoOption
  BY <1>2, <1>3, <1>6
<1>13. ~\E i \in 1..n : Wrong(args, role, i)
  BY <1>2, NotWrongYet
<1>14. ScanAt(args, role, p, n)
  BY <1>6, <1>8, <1>9, <1>10, <1>11, <1>12, <1>13 DEF ScanAt, ScannedTo
<1> QED
  BY <1>14 DEF p

LEMMA OptionScanned ==
  ASSUME NEW args \in Seq(Words), NEW role, NEW n \in 1..Len(args), HasRoles(args, role),
         role[n] = "option", NEW o, ScanAt(args, role, o, n - 1), ~o.error
  PROVE  ScanAt(args, role, Scanned(o, args[n]), n)
<1> DEFINE p == Scanned(o, args[n])
<1>1. ScannedTo(args, role, o, n - 1) /\ IsScan(o)
  BY DEF ScanAt
<1>2. /\ role[n] # "value" /\ role[n] # "wrong" /\ role[n] # "positional"
      /\ role[n] # "separator" /\ role[n] # "flag"
  OBVIOUS
<1>3. /\ o.awaits = NoOption /\ ~(o.positionalOnly \/ args[n] \notin Dashed)
      /\ args[n] \in ValueOptions
  BY <1>1, <1>2, NotAwaited
<1>4. args[n] # "--" /\ args[n] # "--no-config"
  BY <1>3, FieldsDiffer
<1>5. p = [o EXCEPT !.awaits = args[n]]
  BY <1>3, <1>4 DEF Scanned
<1>6. /\ IsScan(p) /\ p.error = o.error /\ p.positional = o.positional
      /\ p.awaits = args[n] /\ p.noConfig = o.noConfig /\ p.positionalOnly = o.positionalOnly
      /\ p.config = o.config /\ p.patch = o.patch
  BY <1>1, <1>5 DEF IsScan
<1> HIDE DEF p
<1>7. HoldsInOrder(p.positional, args, Places(role, "positional", n))
  BY <1>1, <1>2, <1>6, SameHeld
<1>8. \A option \in ValueOptions : LastGiven(args, role, p, option, n)
  BY <1>1, <1>2, <1>6, NoValueKeeps
<1>9. p.positionalOnly <=> \E j \in 1..n : role[j] = "separator"
  BY <1>1, <1>2, <1>6, SameEnded DEF ScannedTo
<1>10. p.noConfig <=> Places(role, "flag", n) # {}
  BY <1>1, <1>2, <1>6, SameFlag
<1>11. p.awaits = IF n > 0 /\ role[n] = "option" THEN args[n] ELSE NoOption
  BY <1>6
<1>12. ~\E i \in 1..n : Wrong(args, role, i)
  BY <1>2, NotWrongYet
<1>13. ScanAt(args, role, p, n)
  BY <1>6, <1>7, <1>8, <1>9, <1>10, <1>11, <1>12 DEF ScanAt, ScannedTo
<1> QED
  BY <1>13 DEF p

LEMMA SeparatorScanned ==
  ASSUME NEW args \in Seq(Words), NEW role, NEW n \in 1..Len(args), HasRoles(args, role),
         role[n] = "separator", NEW o, ScanAt(args, role, o, n - 1), ~o.error
  PROVE  ScanAt(args, role, Scanned(o, args[n]), n)
<1> DEFINE p == Scanned(o, args[n])
<1>1. ScannedTo(args, role, o, n - 1) /\ IsScan(o)
  BY DEF ScanAt
<1>2. /\ role[n] # "value" /\ role[n] # "wrong" /\ role[n] # "positional"
      /\ role[n] # "option" /\ role[n] # "flag"
  OBVIOUS
<1>3. /\ o.awaits = NoOption /\ ~(o.positionalOnly \/ args[n] \notin Dashed)
      /\ args[n] = "--"
  BY <1>1, <1>2, NotAwaited
<1>4. p = [o EXCEPT !.positionalOnly = TRUE]
  BY <1>3 DEF Scanned
<1>5. /\ IsScan(p) /\ p.error = o.error /\ p.positional = o.positional
      /\ p.awaits = o.awaits /\ p.noConfig = o.noConfig /\ p.positionalOnly = TRUE
      /\ p.config = o.config /\ p.patch = o.patch
  BY <1>1, <1>4 DEF IsScan
<1> HIDE DEF p
<1>6. HoldsInOrder(p.positional, args, Places(role, "positional", n))
  BY <1>1, <1>2, <1>5, SameHeld
<1>7. \A option \in ValueOptions : LastGiven(args, role, p, option, n)
  BY <1>1, <1>2, <1>5, NoValueKeeps
<1>8. p.positionalOnly <=> \E j \in 1..n : role[j] = "separator"
  BY <1>5, FirstOnes
<1>9. p.noConfig <=> Places(role, "flag", n) # {}
  BY <1>1, <1>2, <1>5, SameFlag
<1>10. p.awaits = IF n > 0 /\ role[n] = "option" THEN args[n] ELSE NoOption
  BY <1>2, <1>3, <1>5
<1>11. ~\E i \in 1..n : Wrong(args, role, i)
  BY <1>2, NotWrongYet
<1>12. ScanAt(args, role, p, n)
  BY <1>5, <1>6, <1>7, <1>8, <1>9, <1>10, <1>11 DEF ScanAt, ScannedTo
<1> QED
  BY <1>12 DEF p

LEMMA FlagScanned ==
  ASSUME NEW args \in Seq(Words), NEW role, NEW n \in 1..Len(args), HasRoles(args, role),
         role[n] = "flag", NEW o, ScanAt(args, role, o, n - 1), ~o.error
  PROVE  ScanAt(args, role, Scanned(o, args[n]), n)
<1> DEFINE p == Scanned(o, args[n])
<1>1. ScannedTo(args, role, o, n - 1) /\ IsScan(o)
  BY DEF ScanAt
<1>2. /\ role[n] # "value" /\ role[n] # "wrong" /\ role[n] # "positional"
      /\ role[n] # "option" /\ role[n] # "separator"
  OBVIOUS
<1>3. /\ o.awaits = NoOption /\ ~(o.positionalOnly \/ args[n] \notin Dashed)
      /\ args[n] # "--" /\ args[n] = "--no-config"
  BY <1>1, <1>2, NotAwaited
<1>4. p = [o EXCEPT !.noConfig = TRUE]
  BY <1>3 DEF Scanned
<1>5. /\ IsScan(p) /\ p.error = o.error /\ p.positional = o.positional
      /\ p.awaits = o.awaits /\ p.noConfig = TRUE /\ p.positionalOnly = o.positionalOnly
      /\ p.config = o.config /\ p.patch = o.patch
  BY <1>1, <1>4 DEF IsScan
<1> HIDE DEF p
<1>6. HoldsInOrder(p.positional, args, Places(role, "positional", n))
  BY <1>1, <1>2, <1>5, SameHeld
<1>7. \A option \in ValueOptions : LastGiven(args, role, p, option, n)
  BY <1>1, <1>2, <1>5, NoValueKeeps
<1>8. p.positionalOnly <=> \E j \in 1..n : role[j] = "separator"
  BY <1>1, <1>2, <1>5, SameEnded DEF ScannedTo
<1>9. p.noConfig <=> Places(role, "flag", n) # {}
  BY <1>5 DEF Places
<1>10. p.awaits = IF n > 0 /\ role[n] = "option" THEN args[n] ELSE NoOption
  BY <1>2, <1>3, <1>5
<1>11. ~\E i \in 1..n : Wrong(args, role, i)
  BY <1>2, NotWrongYet
<1>12. ScanAt(args, role, p, n)
  BY <1>5, <1>6, <1>7, <1>8, <1>9, <1>10, <1>11 DEF ScanAt, ScannedTo
<1> QED
  BY <1>12 DEF p

LEMMA ScanStep ==
  ASSUME NEW args \in Seq(Words), NEW role, NEW n \in 1..Len(args), HasRoles(args, role),
         NEW o, ScanAt(args, role, o, n - 1)
  PROVE  ScanAt(args, role, Scanned(o, args[n]), n)
<1>1. CASE o.error
  BY <1>1, RefusedStays
<1>2. CASE ~o.error
  <2>1. role[n] = RoleAt(args, role, n) /\ ScannedTo(args, role, o, n - 1)
    BY <1>2 DEF HasRoles, ScanAt
  <2>2. role[n] \in Roles
    BY <2>1 DEF RoleAt, Roles
  <2>3. CASE role[n] = "value"
    <3>1. n > 1 /\ role[n - 1] = "option"
      BY <2>1, <2>3 DEF RoleAt
    <3>2. n - 1 \in 1..Len(args) /\ n - 1 > 0 /\ role[n - 1] = RoleAt(args, role, n - 1)
      BY <3>1 DEF HasRoles
    <3>3. o.awaits = args[n - 1] /\ args[n - 1] \in ValueOptions
      BY <2>1, <3>1, <3>2 DEF ScannedTo, RoleAt
    <3>4. o.awaits # NoOption
      BY <3>3, FieldsDiffer
    <3> QED
      BY <1>2, <2>3, <3>4, ValueScanned
  <2> QED
    BY <1>2, <2>2, <2>3, WrongScanned, PositionalScanned, OptionScanned, SeparatorScanned,
       FlagScanned DEF Roles
<1> QED
  BY <1>1, <1>2

LEMMA ScannedThrough ==
  ASSUME NEW args \in Seq(Words), NEW role, HasRoles(args, role)
  PROVE  \E o : /\ ScanAt(args, role, o, Len(args))
                /\ Scan(args) =
                     [o EXCEPT !.error = @ \/ o.awaits # NoOption \/ (o.noConfig /\ o.config # Absent)]
<1>1. PICK scanned :
        /\ scanned[0] = NotScanned
        /\ \A n \in 1..Len(args) : scanned[n] = Scanned(scanned[n - 1], args[n])
        /\ LET o == scanned[Len(args)]
           IN  Scan(args) =
                 [o EXCEPT !.error = @ \/ o.awaits # NoOption \/ (o.noConfig /\ o.config # Absent)]
  BY ScanIs
<1> DEFINE Exceptions == {n \in 0..Len(args) : ~ScanAt(args, role, scanned[n], n)}
<1>2. Len(args) \in Nat /\ Exceptions \subseteq 0..Len(args)
  OBVIOUS
<1>3. 0 \notin Exceptions
  BY <1>1, NothingYet
<1>4. ASSUME NEW n \in 1..Len(args), n - 1 \notin Exceptions PROVE n \notin Exceptions
  <2>1. n - 1 \in 0..Len(args) /\ ScanAt(args, role, scanned[n - 1], n - 1)
    BY <1>4
  <2> QED
    BY <1>1, <2>1, ScanStep
<1>5. Exceptions = {}
  <2> HIDE DEF Exceptions
  <2> QED
    BY <1>2, <1>3, <1>4, FirstFailure
<1>6. ScanAt(args, role, scanned[Len(args)], Len(args))
  BY <1>2, <1>5
<1> QED
  BY <1>1, <1>6

\* The roles, the positionals and the last values that ScansRight chooses are
\* the ones the scan goes by.
LEMMA ChosenRoles ==
  ASSUME NEW args \in Seq(Words)
  PROVE  HasRoles(args, CHOOSE r \in [1..Len(args) -> Roles] : HasRoles(args, r))
BY RolesExist

LEMMA ChosenPositionals ==
  ASSUME NEW args \in Seq(Words), NEW positional \in Seq(Words), NEW places \in SUBSET Nat,
         HoldsInOrder(positional, args, places)
  PROVE  positional = [k \in 1..Cardinality(places) |->
                         args[CHOOSE p \in places : PlaceAmong(p, places) = k]]
<1>1. PICK c \in Nat : c = Cardinality(places) /\ c = Len(positional)
  BY DEF HoldsInOrder
<1>2. ASSUME NEW k \in 1..c
      PROVE  positional[k] = args[CHOOSE p \in places : PlaceAmong(p, places) = k]
  <2> DEFINE place == CHOOSE p \in places : PlaceAmong(p, places) = k
  <2>1. place \in places /\ PlaceAmong(place, places) = k
    BY <1>1 DEF HoldsInOrder
  <2> HIDE DEF place
  <2>2. positional[PlaceAmong(place, places)] = args[place]
    BY <2>1 DEF HoldsInOrder
  <2>3. positional[k] = args[place]
    BY <2>1, <2>2
  <2> QED
    BY <2>3 DEF place
<1>3. positional = [k \in 1..c |-> positional[k]]
  BY <1>1
<1> QED
  BY <1>1, <1>2, <1>3

LEMMA ChosenLast ==
  ASSUME NEW args, NEW given \in SUBSET Nat, NEW last \in given, \A j \in given : j <= last
  PROVE  (CHOOSE i \in given : \A j \in given : j <= i) = last
<1>1. \A i \in given : (\A j \in given : j <= i) => i = last
  BY SMT
<1> QED
  BY <1>1

\* What makes a command line wrong.
LEMMA WrongOnes ==
  ASSUME NEW args \in Seq(Words), NEW role, HasRoles(args, role)
  PROVE  (\E i \in 1..Len(args) : Wrong(args, role, i)) <=>
           \/ Places(role, "wrong", Len(args)) # {}
           \/ \E option \in NumberOptions :
                \E i \in Given(args, role, option, Len(args)) : args[i] \notin DOMAIN NumberOf
<1> DEFINE n == Len(args)
<1>1. ASSUME NEW i \in 1..n, role[i] = "value"
      PROVE  \A option : i \in Given(args, role, option, n) <=> option = args[i - 1]
  BY <1>1 DEF Given, Places
<1>2. ASSUME NEW option, NEW i \in Given(args, role, option, n)
      PROVE  i \in 1..n /\ role[i] = "value" /\ args[i - 1] = option
  BY <1>2 DEF Given, Places
<1>3. ASSUME NEW i \in 1..n, Wrong(args, role, i)
      PROVE  \/ Places(role, "wrong", n) # {}
             \/ \E option \in NumberOptions :
                  \E j \in Given(args, role, option, n) : args[j] \notin DOMAIN NumberOf
  <2>1. CASE role[i] = "wrong"
    BY <2>1 DEF Places
  <2>2. CASE role[i] = "value" /\ ~IsValue(args[i - 1], args[i])
    <3>1. args[i - 1] \in NumberOptions /\ args[i] \notin DOMAIN NumberOf
      BY <2>2 DEF IsValue
    <3>2. i \in Given(args, role, args[i - 1], n)
      BY <1>1, <2>2
    <3> QED
      BY <3>1, <3>2
  <2> QED
    BY <1>3, <2>1, <2>2 DEF Wrong
<1>4. ASSUME Places(role, "wrong", n) # {} PROVE \E i \in 1..n : Wrong(args, role, i)
  BY <1>4 DEF Places, Wrong
<1>5. ASSUME NEW option \in NumberOptions, NEW i \in Given(args, role, option, n),
             args[i] \notin DOMAIN NumberOf
      PROVE  \E j \in 1..n : Wrong(args, role, j)
  BY <1>2, <1>5 DEF Wrong, IsValue
<1> QED
  BY <1>3, <1>4, <1>5

\* parse_voice_cli makes of any command line what its arguments mean.
LEMMA ScansRightAlways ==
  ASSUME NEW args \in Seq(Words)
  PROVE  ScansRight(args)
<1> DEFINE n == Len(args)
           role == CHOOSE r \in [1..n -> Roles] : HasRoles(args, r)
           positionals == Places(role, "positional", n)
           unclear == \/ Places(role, "wrong", n) # {}
                     \/ \E option \in NumberOptions :
                          \E i \in Given(args, role, option, n) : args[i] \notin DOMAIN NumberOf
           unfinished == n > 0 /\ role[n] = "option"
           torn == Places(role, "flag", n) # {} /\ Given(args, role, "--config", n) # {}
           LastOf(given) == CHOOSE i \in given : \A j \in given : j <= i
<1>1. HasRoles(args, role)
  BY ChosenRoles
<1> HIDE DEF role
<1>2. PICK o : /\ ScanAt(args, role, o, n)
               /\ Scan(args) =
                    [o EXCEPT !.error = @ \/ o.awaits # NoOption \/ (o.noConfig /\ o.config # Absent)]
  BY <1>1, ScannedThrough
<1> DEFINE q == Scan(args)
<1>3. /\ q.error = (o.error \/ o.awaits # NoOption \/ (o.noConfig /\ o.config # Absent))
      /\ q.positional = o.positional /\ q.noConfig = o.noConfig
      /\ q.config = o.config /\ q.patch = o.patch /\ o.positional \in Seq(Words)
  BY <1>2 DEF ScanAt, IsScan
<1>4. o.error <=> unclear
  BY <1>1, <1>2, WrongOnes DEF ScanAt
<1>5. ~o.error => ScannedTo(args, role, o, n)
  BY <1>2 DEF ScanAt
<1> HIDE DEF q, unclear
<1>6. ~o.error => (o.awaits # NoOption <=> unfinished)
  <2>1. ASSUME unfinished PROVE args[n] # NoOption
    <3>1. role[n] = RoleAt(args, role, n) /\ role[n] = "option"
      BY <1>1, <2>1 DEF HasRoles
    <3>2. args[n] \in ValueOptions
      BY <3>1 DEF RoleAt
    <3> QED
      BY <3>2, FieldsDiffer
  <2> QED
    BY <1>5, <2>1 DEF ScannedTo
<1>7. ~o.error => (o.noConfig /\ o.config # Absent <=> torn)
  <2>1. ~o.error => LastGiven(args, role, o, "--config", n)
    BY <1>5 DEF ScannedTo, ValueOptions
  <2> QED
    BY <1>5, <2>1 DEF ScannedTo, LastGiven, IsGiven
<1>8. q.error <=> unclear \/ unfinished \/ torn
  BY <1>3, <1>4, <1>6, <1>7
<1>9. ASSUME ~(unclear \/ unfinished \/ torn)
      PROVE  /\ q.positional = [k \in 1..Cardinality(positionals) |->
                                  args[CHOOSE p \in positionals : PlaceAmong(p, positionals) = k]]
             /\ q.noConfig <=> Places(role, "flag", n) # {}
  <2>1. ScannedTo(args, role, o, n)
    BY <1>4, <1>5, <1>9
  <2>2. positionals \in SUBSET Nat
    BY DEF Places
  <2> QED
    BY <1>3, <2>1, <2>2, ChosenPositionals DEF ScannedTo
<1>10. ASSUME ~(unclear \/ unfinished \/ torn), NEW option \in ValueOptions
       PROVE  LET given == Given(args, role, option, n)
              IN  /\ IsGiven(q, option) <=> given # {}
                  /\ given # {} => ValueIn(q, option) = ValueOf(option, args[LastOf(given)])
  <2> DEFINE given == Given(args, role, option, n)
  <2>1. LastGiven(args, role, o, option, n)
    BY <1>4, <1>5, <1>10 DEF ScannedTo
  <2>2. given \in SUBSET Nat
    BY DEF Given, Places
  <2>3. (IsGiven(q, option) <=> IsGiven(o, option)) /\ ValueIn(q, option) = ValueIn(o, option)
    BY <1>3 DEF IsGiven, ValueIn
  <2>4. IsGiven(o, option) <=> given # {}
    BY <2>1 DEF LastGiven
  <2>5. ASSUME given # {} PROVE ValueIn(o, option) = ValueOf(option, args[LastOf(given)])
    <3>1. PICK last \in given :
            (\A j \in given : j <= last) /\ ValueIn(o, option) = ValueOf(option, args[last])
      BY <2>1, <2>5 DEF LastGiven
    <3> HIDE DEF given
    <3>2. LastOf(given) = last
      BY <2>2, <3>1, ChosenLast
    <3> QED
      BY <3>1, <3>2
  <2> QED
    BY <2>3, <2>4, <2>5
<1> QED
  BY <1>8, <1>9, <1>10 DEF ScansRight, unclear, q, role
\* The arguments are those of a command line until they are dispatched.
ArgvAt == main = "dispatch" => argv \in Argvs

LEMMA ArgvStep == ArgvAt /\ CommandKnown /\ [Next]_vars => ArgvAt'
<1> SUFFICES ASSUME ArgvAt, CommandKnown, [Next]_vars, main' = "dispatch"
             PROVE  argv' \in Argvs
  BY DEF ArgvAt
<1>1. CASE MainStep
  <2> USE DEF Main
  <2>1. CASE Dispatch \/ (\E config \in ConfigPatches : LoadVoice(config)) \/ LoadFails
    BY <2>1 DEF Dispatch, LoadVoice, LoadFails
  <2>2. CASE \/ Platform
             \/ RegisterVoice("kal16", "rms") \/ RegisterVoice("rms", "rates")
             \/ EngineFails \/ CheckRates \/ OpenFails \/ OpenDevice \/ StartFails
    BY <2>2 DEF Platform, RegisterVoice, EngineFails, EngineLacks, CheckRates, OpenFails, OpenDevice,
                StartFails
  <2>3. CASE CommandFails \/ SayNotQueued
    BY <2>3 DEF CommandFails, SayNotQueued, DoctorUnsupported, SayUnsupported, StreamUnsupported,
                NoText, DoctorNoAudio, SayNoAudio, StreamNoAudio, DoctorCaught, SayCaught,
                StreamCaught, Returns
  <2>4. CASE StartDevice
    BY <2>4 DEF StartDevice, CommandKnown
  <2>5. CASE Doctor \/ Say \/ SayFails \/ NoPipe \/ StartStream \/ LoopEnds \/ StopAudio
    BY <2>5 DEF Doctor, Say, SayFails, NoPipe, StartStream, LoopEnds, StopAudio, Succeeds, Throws
  <2>6. CASE ForgetPipe \/ ClosePipe \/ UnwindDevice \/ UnwindEngine \/ Reported
    BY <2>6 DEF ForgetPipe, ClosePipe, UnwindDevice, UnwindEngine, Reported
  <2>7. CASE WriteError
    BY <2>7 DEF WriteError, programVars
  <2> QED BY <1>1, <2>1, <2>2, <2>3, <2>4, <2>5, <2>6, <2>7 DEF MainStep
<1>2. CASE UNCHANGED <<argv, main>>
  BY <1>2 DEF ArgvAt
<1>3. CASE ReaderLoop \/ WorkerLoop \/ ReadFails \/ ClientActs
  BY <1>2, <1>3 DEF ReaderLoop, WorkerLoop, ReadFails, ClientActs, LoopUnchanged, programVars
<1>4. CASE Exited \/ UNCHANGED vars
  BY <1>2, <1>4 DEF Exited, vars, programVars
<1> QED BY <1>1, <1>3, <1>4 DEF Next

LEMMA ScannedAtDispatch == ArgvAt => ArgumentsScannedRight
<1> SUFFICES ASSUME argv \in Argvs, argv # <<>> PROVE ScansRight(Arguments)
  BY DEF ArgvAt, ArgumentsScannedRight
<1>1. argv \in Seq(Words)
  BY ArgumentsAssumption DEF Words
<1>2. Tail(argv) \in Seq(Words)
  BY <1>1
<1> QED BY <1>2, ScansRightAlways DEF Arguments

\* parse_voice_cli makes of every command line, however long, what its arguments
\* mean.
THEOREM ArgumentsAlwaysScanned == Spec => []ArgumentsScannedRight
<1>1. Init => ArgvAt
  BY DEF Init, ArgvAt
<1>2. PartsAt => CommandKnown
  BY DEF PartsAt
<1> QED
  BY <1>1, <1>2, ArgvStep, ScannedAtDispatch, PartsAlways, PTL DEF Spec
=============================================================================
