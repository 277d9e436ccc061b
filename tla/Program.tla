------------------------------ MODULE Program ------------------------------
(***************************************************************************)
(* `trv` as a whole (main, doctor, say and stream in src/main.cpp): from   *)
(* the arguments to the exit code, with everything that may fail on the    *)
(* way and what the destructors do then.  What the commands do with text   *)
(* is said elsewhere: by SayCommand, by StreamCommand, which runs in here, *)
(* and, for the configuration file, by VoiceResolution.                    *)
(***************************************************************************)
EXTENDS StreamCommand, CommandLine, SpeechEngine

CONSTANTS
  Argvs,          \* command lines, without the program's name
  ConfigPatches   \* what configuration files may ask for

ASSUME ArgumentsAssumption == Argvs \subseteq Seq(STRING)

\* At most one thing is wrong with the computer.
Environments ==
  {"fine", "unsupported", "no kal16", "no rms", "bad rates", "no device", "no start",
   "no pipe"}

VARIABLES
  environment,
  argv,          \* the arguments, as far as they are still needed
  main,          \* where the main thread is
  device,        \* of MiniaudioOutput: closed, open, or started (initialized)
  workers,       \* the threads of StreamingRuntime are there
  signalPipe,    \* both ends are open
  handlerPipe,   \* signal_pipe_write is set
  status         \* the exit code, Running, or Thrown

programVars == <<environment, argv, main, device, workers, signalPipe, handlerPipe, status>>
vars == <<streamVars, registered, programVars>>

Running == -1
Thrown == -2   \* an exception is on its way to the catch of the command
kExitSuccess == 0
kExitUsage == 2
kExitUnsupported == 3
kExitAudioUnavailable == 4
kExitInternal == 5
kExitConfiguration == 6

Init ==
  /\ StreamInit /\ EngineInit
  /\ environment \in Environments /\ argv \in Argvs
  /\ main = "dispatch"
  /\ device = "closed" /\ workers = FALSE
  /\ signalPipe = FALSE /\ handlerPipe = FALSE
  /\ status = Running

\* A step of the main thread, which leaves alone what its caller does not name.
Main(from, to) == main = from /\ main' = to /\ UNCHANGED environment

Parts == <<device, workers, signalPipe, handlerPipe>>

Command == argv[1]
Arguments == Tail(argv)

-----------------------------------------------------------------------------
\* main().

IsDoctor == argv \in {<<"doctor">>, <<"doctor", "--json">>}

IsUsable ==
  /\ argv # <<>> /\ Command \in {"say", "stream"}
  /\ ~Scan(Arguments).error
  /\ Len(Scan(Arguments).positional) = IF Command = "say" THEN 1 ELSE 0

Dispatch ==
  /\ \/ IsDoctor /\ Main("dispatch", "platform") /\ UNCHANGED status
     \/ IsUsable /\ Main("dispatch", "voice") /\ UNCHANGED status
     \/ ~IsDoctor /\ ~IsUsable /\ Main("dispatch", "exited") /\ status' = kExitUsage
  /\ UNCHANGED <<streamVars, registered, argv, Parts>>

\* The configuration may say nothing, something, or be refused; then come the
\* options.
LoadVoice(config) ==
  LET o == Scan(Arguments)
      base == Patched(DefaultVoice, config)
  IN  /\ Main("voice", "platform")
      /\ o.noConfig => config = NoPatch
      /\ PatchSucceeds(DefaultVoice, config) /\ PatchSucceeds(base, o.patch)
      /\ settings' = Patched(base, o.patch)
      /\ argv' = IF Command = "say" THEN <<Command, o.positional[1]>> ELSE <<Command>>
      /\ UNCHANGED <<sessionVars, clientVars, batch, line, reader, outputVars,
                     signalRequested, registered, Parts, status>>

LoadFails ==
  /\ Main("voice", "exited")
  /\ ~Scan(Arguments).noConfig \/ ~PatchSucceeds(DefaultVoice, Scan(Arguments).patch)
  /\ status' = kExitConfiguration
  /\ UNCHANGED <<streamVars, registered, argv, Parts>>

-----------------------------------------------------------------------------
\* The ways on which doctor, say and stream fail before they do their work, each
\* with its own tests and its own catch.  `stream` tells its client: before the
\* destructors run when it returns an error, after them when something was thrown.

Tell(code) ==
  /\ said' = [said EXCEPT !["reader"] = ErrorEvent(code, NoString, FALSE)]
  /\ UNCHANGED <<sessionVars, settings, clientVars, batch, line, reader, holder, unread,
                 client, signalRequested>>

Returns(who, from, to, exitCode) ==
  /\ Main(from, to) /\ Command = who
  /\ status' = exitCode
  /\ UNCHANGED <<registered, argv, Parts>>

DoctorUnsupported ==
  /\ environment = "unsupported"
  /\ Returns("doctor", "platform", "exited", kExitUnsupported) /\ UNCHANGED streamVars

SayUnsupported ==
  /\ environment = "unsupported"
  /\ Returns("say", "platform", "exited", kExitUnsupported) /\ UNCHANGED streamVars

StreamUnsupported ==
  /\ environment = "unsupported"
  /\ Returns("stream", "platform", "report", kExitUnsupported)
  /\ Tell("unsupported_environment")

NeedsText == Command = "say" /\ argv[2] = ""

NoText ==
  /\ Returns("say", "platform", "exited", kExitUsage) /\ UNCHANGED streamVars
  /\ environment # "unsupported" /\ NeedsText

\* initialize has failed.
DoctorNoAudio ==
  /\ Returns("doctor", "no audio", "unwind", kExitAudioUnavailable) /\ UNCHANGED streamVars

SayNoAudio ==
  /\ Returns("say", "no audio", "unwind", kExitAudioUnavailable) /\ UNCHANGED streamVars

StreamNoAudio ==
  /\ Returns("stream", "no audio", "unwind", kExitAudioUnavailable)
  /\ Tell("audio_unavailable")

DoctorCaught ==
  /\ Returns("doctor", "caught", "exited", kExitInternal) /\ UNCHANGED streamVars

SayCaught ==
  /\ Returns("say", "caught", "exited", kExitInternal) /\ UNCHANGED streamVars

\* Mutant: the client is not told.
StreamCaughtSilently ==
  /\ Returns("stream", "caught", "report", kExitInternal) /\ UNCHANGED streamVars

StreamCaught ==
  /\ Returns("stream", "caught", "report", kExitInternal)
  /\ Tell("internal_error")

CommandFails ==
  \/ DoctorUnsupported \/ SayUnsupported \/ StreamUnsupported \/ NoText
  \/ DoctorNoAudio \/ SayNoAudio \/ StreamNoAudio
  \/ DoctorCaught \/ SayCaught \/ StreamCaught

-----------------------------------------------------------------------------
\* The engine and the device, which the three commands construct alike.

Platform ==
  /\ Main("platform", "kal16") /\ environment # "unsupported" /\ ~NeedsText
  /\ UNCHANGED <<streamVars, registered, argv, status, Parts>>

\* The constructor of FliteEngine.
Missing == [kal16 |-> "no kal16", rms |-> "no rms"]
RegisterVoice(model, next) ==
  /\ Main(model, next) /\ environment # Missing[model]
  /\ Register(model)
  /\ UNCHANGED <<streamVars, argv, status, Parts>>

CheckRates ==
  /\ environment # "bad rates" /\ Main("rates", "device")
  /\ UNCHANGED <<streamVars, registered, argv, status, Parts>>

EngineLacks ==
  \/ environment = "no kal16" /\ Main("kal16", "caught")
  \/ environment = "no rms" /\ Main("rms", "caught")
  \/ environment = "bad rates" /\ Main("rates", "caught")

\* Mutant: the constructor has no catch.
EngineFailsOnly ==
  /\ EngineLacks /\ status' = Thrown
  /\ UNCHANGED <<streamVars, registered, argv, Parts>>

\* No destructor runs for an engine that was not constructed: the constructor
\* itself undoes what it has done.
EngineFails ==
  /\ EngineLacks /\ status' = Thrown
  /\ Unregister
  /\ UNCHANGED <<streamVars, argv, Parts>>

\* MiniaudioOutput::initialize.
OpenFails ==
  /\ environment = "no device" /\ Main("device", "no audio")
  /\ UNCHANGED <<streamVars, registered, argv, status, Parts>>

OpenDevice ==
  /\ environment # "no device" /\ Main("device", "start")
  /\ device' = "open"
  /\ UNCHANGED <<streamVars, registered, argv, status, workers, signalPipe, handlerPipe>>

StartFails ==
  /\ environment = "no start" /\ Main("start", "no audio")
  /\ device' = "closed"
  /\ UNCHANGED <<streamVars, registered, argv, status, workers, signalPipe, handlerPipe>>

StartDevice ==
  /\ main = "start" /\ Main("start", Command) /\ environment # "no start"
  /\ device' = "started"
  /\ UNCHANGED <<streamVars, registered, argv, status, workers, signalPipe, handlerPipe>>

\* MiniaudioOutput::stop, called or by the destructor.
Stopped == IF device = "started" THEN "closed" ELSE device

-----------------------------------------------------------------------------
\* doctor and say; SayCommand has the details of the latter.

Succeeds(from) ==
  /\ Main(from, "unwind") /\ status' = kExitSuccess
  /\ device' = Stopped
  /\ UNCHANGED <<streamVars, registered, argv, workers, signalPipe, handlerPipe>>

Throws(from) ==
  /\ Main(from, "unwind") /\ status' = Thrown
  /\ UNCHANGED <<streamVars, registered, argv, Parts>>

Doctor == Succeeds("doctor")
Say == Succeeds("say")
SayFails == Throws("say")

\* There is no audio, or the queue refuses it.
SayNotQueued ==
  Returns("say", "say", "unwind", kExitInternal) /\ UNCHANGED streamVars

-----------------------------------------------------------------------------
\* stream.

NoPipe == environment = "no pipe" /\ Throws("stream")

StartStream ==
  /\ environment # "no pipe" /\ Main("stream", "loop")
  /\ signalPipe' = TRUE /\ handlerPipe' = TRUE
  /\ workers' = TRUE /\ voice' = settings /\ UNCHANGED held
  /\ reader' = "ready"
  /\ said' = [said EXCEPT !["reader"] =
       JsonEvent("ready", NoString, NoString, FALSE, Nothing, Nothing, settings)]
  /\ S!Silence
  /\ UNCHANGED <<settings, clientVars, batch, line, holder, unread, client, signalRequested,
                 registered, argv, device, status>>

LoopUnchanged == main = "loop" /\ UNCHANGED <<registered, programVars>>

ReaderLoop == ReaderStep /\ LoopUnchanged
WorkerLoop == workers /\ WorkerStep /\ LoopUnchanged
WorkerWrites(t) == workers /\ Write(t) /\ LoopUnchanged

\* Mutant: the device is declared after the runtime, so it is destroyed first.
ReadFailsDeviceFirst ==
  /\ main = "loop" /\ reader = "take" /\ batch = <<>> /\ status = Running
  /\ reader' = "close" /\ status' = Thrown /\ device' = Stopped
  /\ UNCHANGED <<sessionVars, settings, clientVars, batch, line, outputVars, signalRequested,
                 registered, environment, argv, main, workers, signalPipe, handlerPipe>>

\* poll or read fail: the destructor of the runtime shuts it down silently.
ReadFails ==
  /\ main = "loop" /\ reader = "take" /\ batch = <<>> /\ status = Running
  /\ reader' = "close" /\ status' = Thrown
  /\ UNCHANGED <<sessionVars, settings, clientVars, batch, line, outputVars, signalRequested,
                 registered, environment, argv, main, Parts>>

\* The threads are joined and the runtime is gone.
LoopEnds ==
  /\ reader = "left" /\ workers
  /\ Main("loop", IF status = Running THEN "stop" ELSE "unwind")
  /\ workers' = FALSE /\ line' = NoLine /\ voice' = DefaultVoice /\ held' = 0
  /\ S!Silence
  /\ UNCHANGED <<settings, clientVars, batch, reader, outputVars, signalRequested, registered,
                 argv, status, device, signalPipe, handlerPipe>>

StopAudio ==
  /\ Main("stop", "forget pipe") /\ device' = Stopped
  /\ UNCHANGED <<streamVars, registered, argv, status, workers, signalPipe, handlerPipe>>

\* The handler must not write to a descriptor that is somebody else's by then.
ForgetPipe ==
  /\ Main("forget pipe", "close pipe") /\ handlerPipe' = FALSE
  /\ UNCHANGED <<streamVars, registered, argv, status, device, workers, signalPipe>>

ClosePipe ==
  /\ Main("close pipe", "unwind") /\ signalPipe' = FALSE
  /\ status' = kExitSuccess
  /\ UNCHANGED <<streamVars, registered, argv, device, workers, handlerPipe>>

-----------------------------------------------------------------------------
\* The destructors, in the reverse order of the declarations.

CanUnwind == main = "unwind" /\ said["reader"] = Unsaid

UnwindDevice ==
  /\ CanUnwind /\ Main("unwind", "unwind engine")
  /\ device' = Stopped
  /\ UNCHANGED <<streamVars, registered, argv, status, workers, signalPipe, handlerPipe>>

UnwindEngine ==
  /\ Main("unwind engine", IF status = Thrown THEN "caught" ELSE "exited")
  /\ Unregister
  /\ UNCHANGED <<streamVars, argv, status, Parts>>

Reported ==
  /\ Main("report", "exited") /\ said["reader"] = Unsaid
  /\ UNCHANGED <<streamVars, registered, argv, status, Parts>>

\* The error event of a command that is not in its loop.
WriteError ==
  /\ main \in {"unwind", "report"} /\ Write("reader")
  /\ UNCHANGED <<registered, programVars>>

MainStep ==
  \/ Dispatch \/ (\E config \in ConfigPatches : LoadVoice(config)) \/ LoadFails
  \/ CommandFails \/ Platform
  \/ RegisterVoice("kal16", "rms") \/ RegisterVoice("rms", "rates") \/ EngineFails \/ CheckRates
  \/ OpenFails \/ OpenDevice \/ StartFails \/ StartDevice
  \/ Doctor \/ Say \/ SayFails \/ SayNotQueued
  \/ NoPipe \/ StartStream \/ LoopEnds \/ StopAudio \/ ForgetPipe \/ ClosePipe
  \/ UnwindDevice \/ UnwindEngine \/ Reported \/ WriteError

\* What the client does before the loop waits in its pipe, and a signal in
\* signal_requested, until the loop looks; after it nobody looks.
ClientActs ==
  /\ \/ /\ main = "loop" /\ reader # "ready"
        /\ (\E l \in Lines : ClientSends(l)) \/ ClientCloses \/ SignalArrives
     \/ ClientReads
  /\ UNCHANGED <<registered, programVars>>

Exited == main = "exited" /\ UNCHANGED vars

Next ==
  \/ MainStep \/ ReaderLoop \/ WorkerLoop \/ ReadFails
  \/ ClientActs \/ Exited

\* No thread waits for ever for a mutex or for room in the pipe that there is
\* again and again.  Nothing is assumed of the client.
Spec ==
  /\ Init /\ [][Next]_vars
  /\ WF_vars(MainStep) /\ SF_vars(ReaderLoop)
  /\ \A t \in Workers : SF_vars(WorkerWrites(t))

ClientIsReading == WF_vars(ClientReads /\ UNCHANGED <<registered, programVars>>)

-----------------------------------------------------------------------------
\* What went wrong on the way in is undone on the way out, wherever it happens:
\* no voice stays registered, no device open, no thread running.
NothingLeftBehind ==
  main = "exited" => registered = {} /\ device = "closed" /\ ~workers

\* No part outlives one that it uses: whoever speaks has the engine and a device,
\* and the signal handler its pipe, until the last moment.
PartsOutliveUsers ==
  /\ workers \/ main = "say" => device = "started" /\ registered = Models
  /\ handlerPipe => signalPipe

\* The gain of a voice that is in use saturates.
GainSaturates == main = "say" \/ phase # "idle" => \A v \in {voice, settings} : Saturates(v)

\* The exit code says to the caller of `trv stream` what the last event has said
\* to its client, who was told once, on every way out: by a return, from the loop
\* or with an error, or by the one catch, which an exception reaches only after
\* the destructor of the runtime has ended the threads and told nobody.
StreamEnded == main = "exited" /\ argv = <<"stream">>
                 /\ status \notin {kExitUsage, kExitConfiguration}
EndIsTold ==
  StreamEnded =>
    \/ status = kExitSuccess /\ client.end = "shutting_down"
    \/ status = kExitUnsupported /\ client.end = "unsupported_environment"
    \/ status = kExitAudioUnavailable /\ client.end = "audio_unavailable"
    \/ status = kExitInternal /\ client.end = "internal_error"

\* parse_voice_cli makes of any command line what its arguments mean.
ArgumentsScannedRight ==
  main = "dispatch" /\ argv # <<>> => ScansRight(Arguments)

\* `trv stream` ends when a signal comes, when its input ends or after a
\* shutdown, wherever its threads are, but only for a client that reads its
\* events: to one that does not, the reader and whoever holds state_mutex may be
\* writing for ever.
ShutdownTaken == line # NoLine /\ Code = "none" /\ command.type = "shutdown"
StopsWhenAsked ==
  ClientIsReading =>
    (main = "loop" /\ (signalRequested \/ closed \/ ShutdownTaken) ~> main = "exited")

\* Until then every line is dealt with, those that were read with another one
\* included: no line that is refused ends the stream.
Unserved == input # <<>> \/ batch # <<>> \/ line # NoLine
LinesServed ==
  ClientIsReading =>
    (main = "loop" /\ Unserved
      ~> ~Unserved \/ signalRequested \/ ShutdownTaken \/ status = Thrown)
=============================================================================
