----------------------------- MODULE SayCommand -----------------------------
(***************************************************************************)
(* `trv say <text>` (say() in src/main.cpp): synthesize one text, play it, *)
(* wait until it is played, exit.  One thread and the device callback of   *)
(* AudioOutput; the platform and the text have been checked.               *)
(***************************************************************************)
EXTENDS AudioOutput

CONSTANT FrameCounts    \* lengths of audio the engine may make; 0 is none

ASSUME FrameCountsAssumption == FrameCounts \subseteq Nat

VARIABLES
  main,      \* where the main thread is
  pcm,       \* frames of audio synthesized
  played,    \* frames the device was given (not in the code)
  exitCode   \* the exit code, or Running

vars == <<audioVars, main, pcm, played, exitCode>>

Running == -1
kExitSuccess == 0
kExitAudioUnavailable == 4
kExitInternal == 5
generation == 1

Init ==
  /\ AudioInit
  /\ main = "initialize" /\ pcm = 0 /\ played = 0 /\ exitCode = Running

\* A step of the main thread that leaves the audio alone.
Goes(from, to) == main = from /\ main' = to /\ UNCHANGED <<audioVars, played>>

\* The end of the program: the destructor of the output stops the device.
Exits(from, code) ==
  /\ main = from /\ main' = "exited"
  /\ exitCode' = code
  /\ StopAudio
  /\ UNCHANGED <<pcm, played>>

DeviceUnavailable == Exits("initialize", kExitAudioUnavailable)

Initialize ==
  /\ main = "initialize" /\ main' = "synthesize"
  /\ SetValidGeneration(generation)
  /\ UNCHANGED <<pcm, played, exitCode>>

EngineThrows == Exits("synthesize", kExitInternal)

Synthesize ==
  /\ Goes("synthesize", "enqueue")
  /\ \E frames \in FrameCounts : pcm' = frames
  /\ UNCHANGED exitCode

NotQueued ==
  /\ pcm = 0 \/ ~MayEnqueue(generation)
  /\ Exits("enqueue", kExitInternal)

EnqueueTest ==
  /\ pcm > 0 /\ MayEnqueue(generation)
  /\ Goes("enqueue", "enqueue_locked")
  /\ UNCHANGED <<pcm, exitCode>>

EnqueueClip ==
  /\ main = "enqueue_locked" /\ main' = "drain"
  /\ PushClip([generation |-> generation, frames |-> pcm, text |-> <<>>])
  /\ UNCHANGED <<pcm, played, exitCode>>

EnqueueFull ==
  /\ MutexFree /\ ~Fits(pcm)
  /\ Goes("enqueue_locked", "enqueue")
  /\ UNCHANGED <<pcm, exitCode>>

Drained ==
  /\ MutexFree /\ IsDrained(generation)
  /\ Goes("drain", "stop")
  /\ UNCHANGED <<pcm, exitCode>>

StopDevice == Exits("stop", kExitSuccess)

MainStep ==
  \/ DeviceUnavailable \/ Initialize \/ EngineThrows \/ Synthesize
  \/ NotQueued \/ EnqueueTest \/ EnqueueClip \/ EnqueueFull
  \/ Drained \/ StopDevice

Callback ==
  /\ main # "initialize"
  /\ CallbackBegin \/ CallbackDropCurrent \/ CallbackTake \/ CallbackCopy \/ CallbackEnd
  /\ played' = IF callback'.holds THEN played + callback'.written - callback.written
               ELSE played
  /\ UNCHANGED <<main, pcm, exitCode>>

Exited == main = "exited" /\ UNCHANGED vars

Next == MainStep \/ Callback \/ Exited

\* The mutex is free between callbacks, so a thread that waits for it gets
\* it; the device keeps asking for audio.
Spec == Init /\ [][Next]_vars /\ SF_vars(MainStep) /\ WF_vars(Callback)

-----------------------------------------------------------------------------
\* The program reports success only after the device was given every frame of
\* the text, and a text of which nothing was heard is reported as a failure.
SuccessMeansPlayed ==
  exitCode # Running => (exitCode = kExitSuccess <=> pcm > 0 /\ played = pcm)

\* `trv say` exits once the audio is played, the engine has failed or the device
\* is not there, if only the audio of its text fits the queue.
FittingTextExits == <>(main = "exited" \/ pcm > MaximumFrames)

\* `trv say` synthesizes, plays, drains and exits.
SayExits == <>(main = "exited")
=============================================================================
