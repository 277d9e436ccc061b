--------------------------- MODULE SayCommandProofs ---------------------------
(***************************************************************************)
(* `trv say` reports success exactly when the device was given every frame *)
(* of the text, for audio and buffers of any length.                       *)
(***************************************************************************)
EXTENDS SayCommand, AudioOutputProofs

-----------------------------------------------------------------------------
\* The inductive invariant.

BeforeClip == {"initialize", "synthesize", "enqueue", "enqueue_locked"}
AfterClip == {"drain", "stop"}

SayTypeOK ==
  /\ main \in BeforeClip \cup AfterClip \cup {"exited"}
  /\ pcm \in Nat /\ played \in Nat
  /\ exitCode \in {Running, kExitSuccess, kExitAudioUnavailable, kExitInternal}

\* The program has an exit code once it has exited, and no callback runs then.
ExitInv ==
  /\ exitCode # Running <=> main = "exited"
  /\ audioStopping <=> main = "exited"
  /\ ~callback.holds => callback.written = 0
  /\ audioStopping => ~callback.holds

\* All audio is of the one generation, so none is ever obsolete.
OneGeneration ==
  /\ main \notin {"initialize", "exited"} => validGeneration = generation
  /\ callback.holds => callback.valid = generation
  /\ HasCurrent => current.generation = generation
  /\ \A i \in 1..Len(audioQueue) : audioQueue[i].generation = generation

Succeeded == main = "exited" /\ exitCode = kExitSuccess

\* What has been played and what waits are together what was synthesized.
FramesAt ==
  /\ main \in {"initialize", "synthesize"} => pcm = 0
  /\ main \in BeforeClip => played = 0 /\ queuedFrames = 0
  /\ main = "enqueue_locked" => pcm > 0
  /\ main \in AfterClip => pcm > 0 /\ played + queuedFrames = pcm
  /\ main = "stop" => queuedFrames = 0
  /\ Succeeded => pcm > 0 /\ played = pcm
  /\ main = "exited" /\ ~Succeeded => pcm = 0

SayInv == AudioInv /\ SayTypeOK /\ ExitInv /\ OneGeneration /\ FramesAt

LEMMA SayInit == Init => SayInv
<1> SUFFICES ASSUME Init PROVE SayInv
  OBVIOUS
<1>1. AudioInv
  BY AudioInitInv DEF Init
<1>2. Len(<<>>) = 0
  BY EmptySeq
<1>3. SayTypeOK /\ ExitInv
  BY DEF Init, AudioInit, Idle, SayTypeOK, ExitInv, BeforeClip, Running
<1>4. OneGeneration
  BY <1>2 DEF Init, AudioInit, Idle, OneGeneration, HasCurrent
<1>5. FramesAt
  BY DEF Init, AudioInit, FramesAt, BeforeClip, AfterClip, Succeeded
<1> QED
  BY <1>1, <1>3, <1>4, <1>5 DEF SayInv

\* A step of the main thread that leaves the audio as it is.
LEMMA SameAudio ==
  ASSUME SayInv, UNCHANGED audioVars
  PROVE  AudioInv'
BY SameFrames DEF SayInv, AudioInv, AudioTypeOK, audioVars

\* An exit from `from` with a code: the audio stops where it is.
LEMMA ExitKeepsSayInv ==
  ASSUME SayInv, NEW code \in {kExitSuccess, kExitAudioUnavailable, kExitInternal},
         NEW from \in BeforeClip \cup AfterClip,
         Exits(from, code),
         IF code = kExitSuccess THEN from = "stop" ELSE pcm = 0
  PROVE  SayInv'
<1>1. AudioInv'
  BY StopAudioInv DEF SayInv, Exits
<1>2. SayTypeOK'
  BY DEF SayInv, SayTypeOK, Exits
<1>3. ExitInv'
  BY DEF SayInv, ExitInv, Exits, StopAudio, MutexFree, Running, kExitSuccess,
         kExitAudioUnavailable, kExitInternal
<1>4. OneGeneration'
  BY DEF SayInv, OneGeneration, Exits, StopAudio, HasCurrent
<1>5. FramesAt'
  BY DEF SayInv, SayTypeOK, FramesAt, Exits, BeforeClip, AfterClip, Succeeded
<1> QED
  BY <1>1, <1>2, <1>3, <1>4, <1>5 DEF SayInv

\* Nothing waits once the audio of the only generation is drained.
LEMMA DrainedIsEmpty ==
  ASSUME SayInv, IsDrained(generation)
  PROVE  queuedFrames = 0
<1>1. ~HasCurrent
  BY DEF SayInv, OneGeneration, IsDrained
<1>2. audioQueue = <<>>
  <2>1. audioQueue \in Seq(Clips)
    BY DEF SayInv, AudioInv, AudioTypeOK
  <2>2. Len(audioQueue) \in Nat /\ ~(\E i \in 1..Len(audioQueue) : TRUE)
    BY <2>1, LenProperties DEF SayInv, OneGeneration, IsDrained
  <2>3. Len(audioQueue) = 0
    BY <2>2
  <2> QED
    BY <2>1, <2>3, EmptySeq
<1>3. Waiting = 0
  BY <1>2, FramesOfEmpty, TotalEmpty DEF Waiting
<1> QED
  BY <1>1, <1>3, AudioInvParts DEF SayInv

LEMMA MainKeepsSayInv ==
  ASSUME SayInv, MainStep
  PROVE  SayInv'
<1> USE DEF BeforeClip, AfterClip
<1>1. CASE DeviceUnavailable
  BY <1>1, ExitKeepsSayInv
  DEF DeviceUnavailable, SayInv, FramesAt, Exits, kExitSuccess, kExitAudioUnavailable
<1>2. CASE Initialize
  <2>1. AudioInv'
    BY <1>2, SetValidGenerationInv DEF Initialize, SayInv, generation
  <2>2. SayTypeOK' /\ ExitInv'
    BY <1>2 DEF Initialize, SetValidGeneration, SayInv, SayTypeOK, ExitInv
  <2>3. OneGeneration'
    BY <1>2 DEF Initialize, SetValidGeneration, SayInv, OneGeneration, HasCurrent
  <2>4. FramesAt'
    BY <1>2 DEF Initialize, SetValidGeneration, SayInv, FramesAt, Succeeded
  <2> QED
    BY <2>1, <2>2, <2>3, <2>4 DEF SayInv
<1>3. CASE EngineThrows
  BY <1>3, ExitKeepsSayInv
  DEF EngineThrows, SayInv, FramesAt, Exits, kExitSuccess, kExitInternal
<1>4. CASE Synthesize \/ EnqueueTest \/ EnqueueFull \/ Drained
  <2>1. UNCHANGED audioVars /\ UNCHANGED <<played, exitCode>>
    BY <1>4 DEF Synthesize, EnqueueTest, EnqueueFull, Drained, Goes
  <2>2. AudioInv'
    BY <2>1, SameAudio
  <2>3. main' \in {"enqueue", "enqueue_locked", "stop"} /\ main \notin {"initialize", "exited"}
    BY <1>4 DEF Synthesize, EnqueueTest, EnqueueFull, Drained, Goes
  <2>4. SayTypeOK'
    BY <1>4, <2>1, <2>3, FrameCountsAssumption
    DEF Synthesize, EnqueueTest, EnqueueFull, Drained, SayInv, SayTypeOK
  <2>5. ExitInv' /\ OneGeneration'
    BY <2>1, <2>3 DEF SayInv, ExitInv, OneGeneration, HasCurrent, audioVars
  <2>6. FramesAt'
    <3>1. CASE Synthesize \/ EnqueueTest \/ EnqueueFull
      BY <2>1, <3>1
      DEF Synthesize, EnqueueTest, EnqueueFull, Goes, SayInv, FramesAt, Succeeded, audioVars
    <3>2. CASE Drained
      <4>1. queuedFrames = 0
        BY <3>2, DrainedIsEmpty DEF Drained
      <4> QED
        BY <2>1, <3>2, <4>1 DEF Drained, Goes, SayInv, FramesAt, Succeeded, audioVars
    <3> QED
      BY <1>4, <3>1, <3>2
  <2> QED
    BY <2>2, <2>4, <2>5, <2>6 DEF SayInv
<1>5. CASE NotQueued
  <2>1. pcm = 0
    <3>1. main = "enqueue"
      BY <1>5 DEF NotQueued, Exits
    <3>2. MayEnqueue(generation)
      BY <3>1 DEF SayInv, ExitInv, OneGeneration, MayEnqueue
    <3> QED
      BY <1>5, <3>2 DEF NotQueued
  <2> QED
    BY <1>5, <2>1, ExitKeepsSayInv DEF NotQueued, kExitSuccess, kExitInternal
<1>6. CASE EnqueueClip
  <2> DEFINE clip == [generation |-> generation, frames |-> pcm, text |-> <<>>]
  <2>1. main = "enqueue_locked" /\ main' = "drain" /\ UNCHANGED <<pcm, played, exitCode>>
    BY <1>6 DEF EnqueueClip
  <2>2. pcm \in Nat \ {0} /\ played = 0 /\ queuedFrames = 0
    BY <2>1 DEF SayInv, SayTypeOK, FramesAt
  <2>3. clip \in Clips /\ clip.frames = pcm /\ clip.generation = generation
    BY <2>2, EmptySeq DEF Clips, generation
  <2>4. PushClip(clip)
    BY <1>6 DEF EnqueueClip
  <2> HIDE DEF clip
  <2>5. AudioInv'
    BY <2>3, <2>4, PushClipInv DEF SayInv
  <2>6. SayTypeOK' /\ ExitInv'
    BY <2>1, <2>4 DEF PushClip, SayInv, SayTypeOK, ExitInv
  <2>7. OneGeneration'
    <3>1. audioQueue \in Seq(Clips) /\ audioQueue' = Append(audioQueue, clip)
      BY <2>4 DEF SayInv, AudioInv, AudioTypeOK, PushClip
    <3>2. \A i \in 1..Len(audioQueue') : audioQueue'[i].generation = generation
      BY <2>3, <3>1, AppendProperties, LenProperties DEF SayInv, OneGeneration
    <3> QED
      BY <2>1, <2>4, <3>2 DEF PushClip, SayInv, OneGeneration, HasCurrent, generation
  <2>8. FramesAt'
    BY <2>1, <2>2, <2>3, <2>4 DEF PushClip, FramesAt, Succeeded
  <2> QED
    BY <2>5, <2>6, <2>7, <2>8 DEF SayInv
<1>7. CASE StopDevice
  BY <1>7, ExitKeepsSayInv DEF StopDevice
<1> QED
  BY <1>1, <1>2, <1>3, <1>4, <1>5, <1>6, <1>7 DEF MainStep

LEMMA CallbackKeepsSayInv ==
  ASSUME SayInv, Callback
  PROVE  SayInv'
<1>1. /\ main # "initialize" /\ UNCHANGED <<main, pcm, exitCode>>
      /\ audioStopping' = audioStopping /\ validGeneration' = validGeneration
      /\ ~audioStopping
  BY DEF Callback, CallbackBegin, CallbackDropCurrent, CallbackTake, CallbackCopy, CallbackEnd,
         CallbackWantsMore, SayInv, ExitInv
<1>2. main # "exited"
  BY <1>1 DEF SayInv, ExitInv
<1>3. ASSUME callback.holds, HasCurrent PROVE ~Obsolete(current)
  BY <1>3 DEF SayInv, OneGeneration, Obsolete
<1>4. AudioInv'
  BY CallbackBeginInv, CallbackDropCurrentInv, CallbackTakeInv, CallbackCopyInv, CallbackEndInv
  DEF Callback, SayInv
<1>5. CASE CallbackBegin \/ CallbackEnd
  <2>1. /\ UNCHANGED <<audioQueue, current, currentFrame, queuedFrames>>
        /\ callback'.written = 0
        /\ callback'.holds => callback'.valid = validGeneration /\ callback.written = 0
    BY <1>5 DEF CallbackBegin, CallbackEnd, Idle, MutexFree, SayInv, ExitInv
  <2>2. played' = played
    BY <2>1 DEF Callback, SayInv, SayTypeOK
  <2>3. SayTypeOK'
    BY <1>1, <2>2 DEF SayInv, SayTypeOK
  <2>4. ExitInv' /\ OneGeneration'
    BY <1>1, <1>2, <2>1 DEF SayInv, ExitInv, OneGeneration, HasCurrent
  <2>5. FramesAt'
    BY <1>1, <2>1, <2>2 DEF SayInv, FramesAt, Succeeded
  <2> QED
    BY <1>4, <2>3, <2>4, <2>5 DEF SayInv
<1>6. CASE CallbackTake
  <2>1. audioQueue \in Seq(Clips) /\ audioQueue # <<>> /\ callback.holds /\ ~HasCurrent
    BY <1>6 DEF SayInv, AudioInv, AudioTypeOK, CallbackTake, CallbackWantsMore
  <2>2. /\ Head(audioQueue).generation = generation
        /\ \A i \in 1..Len(Tail(audioQueue)) : Tail(audioQueue)[i].generation = generation
    BY <2>1, HeadTailProperties, LenProperties, EmptySeq DEF SayInv, OneGeneration
  <2>3. ~Obsolete(Head(audioQueue))
    BY <2>1, <2>2 DEF SayInv, OneGeneration, Obsolete
  <2>4. /\ audioQueue' = Tail(audioQueue) /\ current' = Head(audioQueue)
        /\ UNCHANGED <<queuedFrames, callback>>
    BY <1>6, <2>3 DEF CallbackTake
  <2>5. played' = played
    BY <2>4 DEF Callback, SayInv, SayTypeOK, AudioInv, AudioTypeOK
  <2>6. SayTypeOK' /\ ExitInv'
    BY <1>1, <2>4, <2>5 DEF SayInv, SayTypeOK, ExitInv
  <2>7. OneGeneration'
    BY <1>1, <2>2, <2>4 DEF SayInv, OneGeneration, generation
  <2>8. FramesAt'
    BY <1>1, <2>4, <2>5 DEF SayInv, FramesAt, Succeeded
  <2> QED
    BY <1>4, <2>6, <2>7, <2>8 DEF SayInv
<1>7. CASE CallbackCopy
  <2> DEFINE n == CopiedFrames
  <2>1. /\ callback.holds /\ callback.written \in Nat /\ CallbackFrames \in Nat
        /\ callback.written < CallbackFrames
        /\ callback' = [callback EXCEPT !.written = @ + n]
        /\ callback'.holds /\ callback'.valid = callback.valid
        /\ callback'.written = callback.written + n
    BY <1>7, AudioAssumption DEF SayInv, AudioInv, AudioTypeOK, CallbackCopy, CallbackWantsMore
  <2>2. /\ RemainingFrames \in Nat \ {0} /\ queuedFrames \in Nat
        /\ RemainingFrames <= queuedFrames
    BY <1>7, AudioInvParts DEF SayInv, CallbackCopy
  <2>3. n \in Nat /\ n # 0 /\ n <= queuedFrames
    BY <2>1, <2>2 DEF CopiedFrames, Lesser
  <2>4. queuedFrames' = queuedFrames - n
    BY <1>7, <2>2, <2>3 DEF CallbackCopy, CountedOut, Lesser
  <2> HIDE DEF n
  <2>5. played' = played + n /\ played' \in Nat
    BY <2>1, <2>3 DEF Callback, SayInv, SayTypeOK
  <2>6. SayTypeOK' /\ ExitInv'
    BY <1>1, <2>1, <2>5 DEF SayInv, SayTypeOK, ExitInv
  <2>7. OneGeneration'
    BY <1>1, <1>7, <2>1 DEF SayInv, OneGeneration, CallbackCopy, HasCurrent
  <2>8. FramesAt'
    BY <1>1, <1>2, <2>2, <2>3, <2>4, <2>5 DEF SayInv, SayTypeOK, FramesAt, Succeeded, BeforeClip, AfterClip
  <2> QED
    BY <1>4, <2>6, <2>7, <2>8 DEF SayInv
<1>8. ~CallbackDropCurrent
  BY <1>3 DEF CallbackDropCurrent, CallbackWantsMore
<1> QED
  BY <1>5, <1>6, <1>7, <1>8 DEF Callback

LEMMA SayStep == SayInv /\ [Next]_vars => SayInv'
<1> SUFFICES ASSUME SayInv, [Next]_vars PROVE SayInv'
  OBVIOUS
<1>1. CASE Exited \/ UNCHANGED vars
  <2>1. UNCHANGED <<audioVars, main, pcm, played, exitCode>>
    BY <1>1 DEF Exited, vars
  <2>2. AudioInv'
    BY <2>1, SameAudio
  <2> QED
    BY <2>1, <2>2
    DEF audioVars, SayInv, SayTypeOK, ExitInv, OneGeneration, HasCurrent, FramesAt, Succeeded
<1> QED
  BY <1>1, MainKeepsSayInv, CallbackKeepsSayInv DEF Next

\* However the audio divides into buffers and wherever the program gives up, it
\* exits with success exactly if there was audio and the device got all of it.
THEOREM SuccessIsPlayed == Spec => []SuccessMeansPlayed
<1>1. SayInv => SuccessMeansPlayed
  BY DEF SayInv, SayTypeOK, ExitInv, FramesAt, Succeeded, SuccessMeansPlayed, Running
<1> QED
  BY <1>1, SayInit, SayStep, PTL DEF Spec
===============================================================================
