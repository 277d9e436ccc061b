---------------------------- MODULE AudioOutput ----------------------------
(***************************************************************************)
(* MiniaudioOutput (src/miniaudio_output.cpp): the queue of synthesized    *)
(* audio between the thread that synthesizes and the real-time callback of *)
(* the playback device.                                                    *)
(*                                                                         *)
(* `mutex` protects everything but valid_generation and stopping, which    *)
(* are atomics.  The callback holds it for a whole buffer, so its loop is  *)
(* modelled by the steps between taking and releasing the lock; the other  *)
(* critical sections (enqueue, interrupt, is_drained) are one step each    *)
(* and need the callback to be out.  A callback that finds the mutex taken *)
(* (try_lock) or nothing to play writes silence and changes no state.      *)
(*                                                                         *)
(* The operators below are the methods; the modules of the programs that   *)
(* use the class (StreamingRuntime, SayCommand) make actions of them.      *)
(***************************************************************************)
EXTENDS Integers, Sequences, Totals

CONSTANTS
  MaximumFrames,   \* maximum_frames: the sample rate times 20 seconds
  CallbackFrames   \* frame_count: frames the device asks for per callback

ASSUME AudioAssumption ==
  /\ MaximumFrames \in Nat \ {0}
  /\ CallbackFrames \in Nat \ {0}

VARIABLES
  audioQueue,       \* queue: clips waiting, oldest first
  current,          \* the clip being played, or NoClip when has_current is false
  currentFrame,     \* frames of it already handed to the device
  queuedFrames,     \* the running count of frames waiting
  validGeneration,  \* the only generation whose clips may be heard
  audioStopping,    \* stopping: the device is being shut down
  callback          \* the callback: where it is, the generation it loaded,
                    \* the frames it has written to the device's buffer

audioVars == <<audioQueue, current, currentFrame, queuedFrames,
               validGeneration, audioStopping, callback>>

NoClip == [generation |-> 0, frames |-> 0, text |-> <<>>]
Idle == [holds |-> FALSE, valid |-> 0, written |-> 0]

AudioInit ==
  /\ audioQueue = <<>>
  /\ current = NoClip
  /\ currentFrame = 0
  /\ queuedFrames = 0
  /\ validGeneration = 0
  /\ audioStopping = FALSE
  /\ callback = Idle

Lesser(a, b) == IF a < b THEN a ELSE b

HasCurrent == current # NoClip
RemainingFrames == current.frames - currentFrame
MutexFree == ~callback.holds

-----------------------------------------------------------------------------
\* enqueue: the loop condition, the capacity test and the push.

MayEnqueue(g) == ~audioStopping /\ g = validGeneration

\* Mutant: what already waits is not looked at.
FitsAlone(frames) == frames <= MaximumFrames

Fits(frames) ==
  frames <= MaximumFrames - Lesser(MaximumFrames, queuedFrames)

PushClip(clip) ==
  /\ MutexFree
  /\ Fits(clip.frames)
  /\ queuedFrames' = queuedFrames + clip.frames
  /\ audioQueue' = Append(audioQueue, clip)
  /\ UNCHANGED <<current, currentFrame, validGeneration, audioStopping, callback>>

SetValidGeneration(g) ==
  /\ validGeneration' = g
  /\ UNCHANGED <<audioQueue, current, currentFrame, queuedFrames,
                 audioStopping, callback>>

\* interrupt: forget every clip, whatever its generation.
ClearAudio ==
  /\ MutexFree
  /\ audioQueue' = <<>>
  /\ current' = NoClip
  /\ currentFrame' = 0
  /\ queuedFrames' = 0
  /\ UNCHANGED <<validGeneration, audioStopping, callback>>

\* Mutant: only the queue is looked at.
IsQueueDrained(g) == \A i \in 1..Len(audioQueue) : audioQueue[i].generation # g

\* is_drained, evaluated with the mutex held.
IsDrained(g) ==
  /\ ~(HasCurrent /\ current.generation = g)
  /\ \A i \in 1..Len(audioQueue) : audioQueue[i].generation # g

\* stop: ma_device_stop returns once no callback is running.
StopAudio ==
  /\ MutexFree
  /\ audioStopping' = TRUE
  /\ UNCHANGED <<audioQueue, current, currentFrame, queuedFrames,
                 validGeneration, callback>>

-----------------------------------------------------------------------------
\* The device callback.

CallbackBegin ==
  /\ MutexFree
  /\ ~audioStopping
  /\ HasCurrent \/ audioQueue # <<>>
  /\ callback' = [holds |-> TRUE, valid |-> validGeneration, written |-> 0]
  /\ UNCHANGED <<audioQueue, current, currentFrame, queuedFrames,
                 validGeneration, audioStopping>>

\* queued_frames without `frames` of them.
CountedOut(frames) == queuedFrames - Lesser(queuedFrames, frames)

\* Mutant: the generation of a clip does not matter.
NothingObsolete(clip) == FALSE

\* A clip is of another generation than the one the callback loaded.
Obsolete(clip) == clip.generation # callback.valid

CallbackWantsMore == callback.holds /\ callback.written < CallbackFrames

\* The clip being played is obsolete: give up the rest of it.
CallbackDropCurrent ==
  /\ CallbackWantsMore
  /\ HasCurrent /\ Obsolete(current)
  /\ queuedFrames' = CountedOut(RemainingFrames)
  /\ current' = NoClip
  /\ currentFrame' = 0
  /\ UNCHANGED <<audioQueue, validGeneration, audioStopping, callback>>

\* Take the next clip; an obsolete one is counted out and dropped.
CallbackTake ==
  /\ CallbackWantsMore
  /\ ~HasCurrent
  /\ audioQueue # <<>>
  /\ audioQueue' = Tail(audioQueue)
  /\ currentFrame' = 0
  /\ IF Obsolete(Head(audioQueue))
     THEN UNCHANGED current /\ queuedFrames' = CountedOut(Head(audioQueue).frames)
     ELSE current' = Head(audioQueue) /\ UNCHANGED queuedFrames
  /\ UNCHANGED <<validGeneration, audioStopping, callback>>

\* Copy frames of the current clip to the device; a clip copied to its end
\* is finished.
CopiedFrames == Lesser(RemainingFrames, CallbackFrames - callback.written)

\* Mutant: the end of the clip is passed, never met.
CopyPasses == currentFrame + CopiedFrames > current.frames

CopyFinishes == currentFrame + CopiedFrames = current.frames

CallbackCopy ==
  /\ CallbackWantsMore
  /\ HasCurrent /\ ~Obsolete(current)
  /\ callback' = [callback EXCEPT !.written = @ + CopiedFrames]
  /\ queuedFrames' = CountedOut(CopiedFrames)
  /\ currentFrame' = IF CopyFinishes THEN 0 ELSE currentFrame + CopiedFrames
  /\ current' = IF CopyFinishes THEN NoClip ELSE current
  /\ UNCHANGED <<audioQueue, validGeneration, audioStopping>>

CallbackEnd ==
  /\ callback.holds
  /\ \/ callback.written = CallbackFrames
     \/ ~HasCurrent /\ audioQueue = <<>>
  /\ callback' = Idle
  /\ UNCHANGED <<audioQueue, current, currentFrame, queuedFrames,
                 validGeneration, audioStopping>>

-----------------------------------------------------------------------------
\* What the class keeps true.

Clips == [generation : Nat \ {0}, frames : Nat \ {0}, text : Seq(STRING)]

AudioTypeOK ==
  /\ audioQueue \in Seq(Clips)
  /\ current \in Clips \cup {NoClip}
  /\ currentFrame \in Nat
  /\ queuedFrames \in Nat
  /\ validGeneration \in Nat
  /\ audioStopping \in BOOLEAN
  /\ callback \in [holds : BOOLEAN, valid : Nat, written : 0..CallbackFrames]

\* queued_frames is the number of frames that still wait, of the clip being
\* played and of those in the queue, and within the 20 seconds: the std::min
\* in each of its subtractions never has to save it from an underflow, and
\* neither obsolete clips nor interrupts leave frames behind that would shrink
\* the room for later audio.
QueuedFramesExact ==
  /\ queuedFrames = RemainingFrames
                      + Total([i \in 1..Len(audioQueue) |-> audioQueue[i].frames])
  /\ queuedFrames <= MaximumFrames
=============================================================================
