-------------------------- MODULE StreamingRuntime --------------------------
(***************************************************************************)
(* StreamingRuntime (src/streaming_runtime.cpp): the sessions of `trv      *)
(* stream`.  Four threads meet here:                                       *)
(*   - the reader (the main thread) runs handle() for every command and    *)
(*     shutdown() at the end;                                              *)
(*   - the maintenance thread flushes idle text and completes sessions;    *)
(*   - the synthesis thread turns queued phrases into audio clips;         *)
(*   - the device callback of AudioOutput plays the clips.                 *)
(*                                                                         *)
(* state_mutex protects the session.  `section` says which critical        *)
(* section of it is being executed, and where in it: sections of reader    *)
(* and maintenance thread contain steps that the other threads observe     *)
(* (the job queue, the generations, the counters, the audio), so they are  *)
(* not one step each.  What a section does to variables that only holders  *)
(* of the mutex touch is attached to the observable step next to it.       *)
(*                                                                         *)
(* The text of a clip and `event`, the event emitted by the last step, are *)
(* not in the code: they are there for the properties to speak about.      *)
(***************************************************************************)
EXTENDS JobQueue, Chunker, AudioOutput, VoiceSettings

CONSTANTS
  Sessions,        \* the names clients give sessions
  Texts,           \* the texts of append commands
  Patches,         \* the voice patches of start commands
  DefaultSettings, \* the voice the program was started with
  FrameCounts,     \* lengths of the audio the engine makes of a phrase
  Unsayable,       \* characters on which the engine may fail or stay silent
  MaxGeneration    \* bound: no session starts from this generation on

ASSUME RuntimeAssumption ==
  /\ "" \notin Sessions
  /\ \A text \in Texts : text \in Seq(STRING)
  /\ FrameCounts \subseteq Nat \ {0}
  /\ MaxGeneration \in Nat

VARIABLES
  stopping,           \* shutdown has begun
  currentGeneration,  \* current_generation: bumped by start, interrupt, shutdown
  outstanding,        \* outstanding_jobs; -1 is the wrapped value
  ownedBytes,         \* owned_text_bytes
  active, accepting, speakingEmitted,
  currentVoice,
  generation,         \* generation of the session
  session,
  buffer,             \* text not yet cut into phrases
  idle,               \* 400 ms have passed since last_append
  section,            \* the critical section of state_mutex being executed
  pushed,             \* length of a phrase queued but still in the buffer
  reader,             \* where the reader is: serving commands, or shutting down
  maintenance,        \* where the maintenance thread is
  synthesis,          \* where the synthesis thread is
  job,                \* the job it works on, or NoJob
  pcm,                \* frames of audio it made of it
  event               \* event emitted by the last step, or NoEvent

sessionVars == <<active, accepting, speakingEmitted, currentVoice, generation, session>>
textVars == <<buffer, idle, pushed>>
counters == <<outstanding, ownedBytes>>
synthesisVars == <<synthesis, job, pcm>>
generations == <<stopping, currentGeneration>>

vars == <<queueVars, audioVars, sessionVars, textVars, counters, generations,
          section, reader, maintenance, synthesisVars, event>>

NoSession == ""
NoJob == [generation |-> 0, session |-> NoSession, text |-> <<>>, voice |-> DefaultSettings]
NoEvent == [type |-> "none", session |-> NoSession]

Emit(type, s) == event' = [type |-> type, session |-> s]
Quiet == event' = NoEvent

Init ==
  /\ QueueInit
  /\ AudioInit
  /\ stopping = FALSE /\ currentGeneration = 0
  /\ outstanding = 0 /\ ownedBytes = 0
  /\ active = FALSE /\ accepting = FALSE /\ speakingEmitted = FALSE
  /\ currentVoice = DefaultSettings
  /\ generation = 0 /\ session = NoSession
  /\ buffer = <<>> /\ idle = FALSE /\ pushed = 0
  /\ section = "none"
  /\ reader = "serving" /\ maintenance = "asleep" /\ synthesis = "pop"
  /\ job = NoJob /\ pcm = 0
  /\ event = NoEvent

-----------------------------------------------------------------------------
\* commit_available_locked: the loop that cuts the buffer into phrases and
\* queues them.  Only append cuts without force.

Committing == section \in {"append", "finish", "flush", "drain"}
Forced == section # "append"

NextBytes == NextChunkBytes(buffer, Forced)
Phrase == SubSeq(buffer, 1, NextBytes)

\* Mutant: the last character of the phrase stays.
RestFrom(n) == SubSeq(buffer, n, Len(buffer))

Rest(n) == SubSeq(buffer, n + 1, Len(buffer))

\* A phrase of spaces is dropped.
CommitBlank ==
  /\ Committing /\ pushed = 0
  /\ NextBytes > 0
  /\ ~HasSpeakableText(Phrase)
  /\ buffer' = Rest(NextBytes)
  /\ ownedBytes' = ownedBytes - NextBytes
  /\ Quiet
  /\ UNCHANGED <<queueVars, audioVars, sessionVars, idle, pushed, outstanding,
                 generations, section, reader, maintenance, synthesisVars>>

\* The phrase is in the queue before it is counted as outstanding and before
\* it leaves the buffer: the synthesis thread may already work on it.
CommitPush ==
  /\ Committing /\ pushed = 0
  /\ NextBytes > 0
  /\ HasSpeakableText(Phrase)
  /\ Push([generation |-> generation, session |-> session,
           text |-> Phrase, voice |-> currentVoice])
  /\ pushed' = NextBytes
  /\ Quiet
  /\ UNCHANGED <<audioVars, sessionVars, buffer, idle, counters, generations,
                 section, reader, maintenance, synthesisVars>>

CommitCount ==
  /\ pushed > 0
  /\ outstanding' = outstanding + 1
  /\ buffer' = Rest(pushed)
  /\ pushed' = 0
  /\ Quiet
  /\ UNCHANGED <<queueVars, audioVars, sessionVars, idle, ownedBytes, generations,
                 section, reader, maintenance, synthesisVars>>

\* The loop ends: nothing to cut, or the queue refuses the next phrase.
Committed ==
  /\ Committing /\ pushed = 0
  /\ NextBytes = 0 \/ (HasSpeakableText(Phrase) /\ PushRefused(Phrase))

Commit == CommitBlank \/ CommitPush \/ CommitCount

-----------------------------------------------------------------------------
\* handle: the reader enters when no one is inside.

\* Mutant: without the mutex.
CanHandleUnlocked == reader = "serving"

CanHandle == reader = "serving" /\ section = "none"

\* A command that does not fit the session is answered and changes nothing.
Reject(s) ==
  /\ Emit("error", s)
  /\ UNCHANGED <<queueVars, audioVars, sessionVars, textVars, counters, generations,
                 section, reader, maintenance, synthesisVars>>

StartRejected(s) == CanHandle /\ active /\ Reject(s)

\* Mutant: the voice that is there is changed.
PreviousVoice == currentVoice

\* What a patch is laid over; refused, it may leave the voice partly changed.
BaseVoice == DefaultSettings

StartBadVoice(s, patch) ==
  /\ CanHandle /\ ~active
  /\ ~PatchSucceeds(BaseVoice, patch)
  /\ currentVoice' = Patched(BaseVoice, patch)
  /\ Emit("error", s)
  /\ UNCHANGED <<queueVars, audioVars, active, accepting, speakingEmitted, generation,
                 session, textVars, counters, generations, section, reader,
                 maintenance, synthesisVars>>

Start(s, patch) ==
  /\ CanHandle /\ ~active
  /\ currentGeneration < MaxGeneration
  /\ PatchSucceeds(BaseVoice, patch)
  /\ currentVoice' = Patched(BaseVoice, patch)
  /\ currentGeneration' = currentGeneration + 1
  /\ generation' = currentGeneration + 1
  /\ active' = TRUE /\ accepting' = TRUE /\ speakingEmitted' = FALSE
  /\ session' = s
  /\ buffer' = <<>> /\ idle' = FALSE
  /\ section' = "start"
  /\ Quiet
  /\ UNCHANGED <<queueVars, audioVars, pushed, counters, stopping, reader,
                 maintenance, synthesisVars>>

StartReady ==
  /\ section = "start"
  /\ SetValidGeneration(generation)
  /\ Emit("session_started", session)
  /\ section' = "none"
  /\ UNCHANGED <<queueVars, sessionVars, textVars, counters, generations, reader,
                 maintenance, synthesisVars>>

Receives(s) == active /\ accepting /\ s = session

MismatchRejected(s) == CanHandle /\ ~Receives(s) /\ Reject(s)

\* Mutant: only the text that is not cut yet counts against the capacity.
HasCapacityInBuffer(text) ==
  Len(text) <= kMaximumPendingTextBytes - Lesser(kMaximumPendingTextBytes, Len(buffer))

HasCapacity(text) ==
  Len(text) <= kMaximumPendingTextBytes - Lesser(kMaximumPendingTextBytes, ownedBytes)

AppendBackpressure(s, text) ==
  /\ CanHandle /\ Receives(s)
  /\ ~HasCapacity(text)
  /\ Emit("backpressure", s)
  /\ UNCHANGED <<queueVars, audioVars, sessionVars, textVars, counters, generations,
                 section, reader, maintenance, synthesisVars>>

AppendText(s, text) ==
  /\ CanHandle /\ Receives(s)
  /\ HasCapacity(text)
  /\ ownedBytes' = ownedBytes + Len(text)
  /\ buffer' = buffer \o text
  /\ idle' = FALSE
  /\ section' = "append"
  /\ Quiet
  /\ UNCHANGED <<queueVars, audioVars, sessionVars, pushed, outstanding, generations,
                 reader, maintenance, synthesisVars>>

AppendDone ==
  /\ section = "append" /\ Committed
  /\ Emit("accepted", session)
  /\ section' = "none"
  /\ UNCHANGED <<queueVars, audioVars, sessionVars, textVars, counters, generations,
                 reader, maintenance, synthesisVars>>

Finish(s) ==
  /\ CanHandle /\ Receives(s)
  /\ accepting' = FALSE
  /\ section' = "finish"
  /\ Quiet
  /\ UNCHANGED <<queueVars, audioVars, active, speakingEmitted, currentVoice,
                 generation, session, textVars, counters, generations, reader,
                 maintenance, synthesisVars>>

FinishDone ==
  /\ section = "finish" /\ Committed
  /\ section' = "none"
  /\ Quiet
  /\ UNCHANGED <<queueVars, audioVars, sessionVars, textVars, counters, generations,
                 reader, maintenance, synthesisVars>>

InterruptRejected(s) == CanHandle /\ ~(active /\ s = session) /\ Reject(s)

Interrupt(s) ==
  /\ CanHandle /\ active /\ s = session
  /\ currentGeneration' = currentGeneration + 1
  /\ section' = "interrupt_valid"
  /\ Quiet
  /\ UNCHANGED <<queueVars, audioVars, sessionVars, textVars, counters, stopping,
                 reader, maintenance, synthesisVars>>

InterruptValidity ==
  /\ section = "interrupt_valid"
  /\ SetValidGeneration(currentGeneration)
  /\ ownedBytes' = ownedBytes - Len(buffer)
  /\ buffer' = <<>>
  /\ section' = "interrupt_jobs"
  /\ Quiet
  /\ UNCHANGED <<queueVars, sessionVars, idle, pushed, outstanding, generations,
                 reader, maintenance, synthesisVars>>

\* Mutant: the generation that has just begun is cancelled.
InterruptedIsNew == currentGeneration

InterruptedGeneration == generation

InterruptJobs ==
  /\ section = "interrupt_jobs"
  /\ Cancel(InterruptedGeneration)
  /\ ownedBytes' = ownedBytes - CancelledBytes(InterruptedGeneration)
  /\ outstanding' = outstanding - CancelledJobs(InterruptedGeneration)
  /\ section' = "interrupt_audio"
  /\ Quiet
  /\ UNCHANGED <<audioVars, sessionVars, textVars, generations, reader,
                 maintenance, synthesisVars>>

InterruptAudio ==
  /\ section = "interrupt_audio"
  /\ ClearAudio
  /\ active' = FALSE /\ accepting' = FALSE /\ session' = NoSession
  /\ section' = "none"
  /\ Emit("interrupted", session)
  /\ UNCHANGED <<queueVars, speakingEmitted, currentVoice, generation, textVars,
                 counters, generations, reader, maintenance, synthesisVars>>

-----------------------------------------------------------------------------
\* shutdown, by the reader when the command loop ends.  The event comes
\* first, before the mutex is taken.

ShutdownBegin(emitEvent) ==
  /\ CanHandle
  /\ stopping' = TRUE
  /\ IF emitEvent THEN Emit("shutting_down", NoSession) ELSE Quiet
  /\ reader' = "shutdown"
  /\ UNCHANGED <<queueVars, audioVars, sessionVars, textVars, counters,
                 currentGeneration, section, maintenance, synthesisVars>>

Shutdown ==
  /\ reader = "shutdown" /\ section = "none"
  /\ currentGeneration' = currentGeneration + 1
  /\ section' = "shutdown_valid"
  /\ Quiet
  /\ UNCHANGED <<queueVars, audioVars, sessionVars, textVars, counters, stopping,
                 reader, maintenance, synthesisVars>>

\* Mutant: the audio output is not told that the generation is obsolete.
ShutdownKeepsValidity ==
  /\ section = "shutdown_valid"
  /\ section' = "shutdown_audio"
  /\ Quiet
  /\ UNCHANGED <<queueVars, audioVars, sessionVars, textVars, counters, generations,
                 reader, maintenance, synthesisVars>>

ShutdownValidity ==
  /\ section = "shutdown_valid"
  /\ SetValidGeneration(currentGeneration)
  /\ section' = "shutdown_audio"
  /\ Quiet
  /\ UNCHANGED <<queueVars, sessionVars, textVars, counters, generations, reader,
                 maintenance, synthesisVars>>

\* The buffer is cleared without being given back to ownedBytes.
ShutdownAudio ==
  /\ section = "shutdown_audio"
  /\ ClearAudio
  /\ active' = FALSE /\ accepting' = FALSE
  /\ buffer' = <<>>
  /\ section' = "none"
  /\ reader' = "stop_jobs"
  /\ Quiet
  /\ UNCHANGED <<queueVars, speakingEmitted, currentVoice, generation, session,
                 idle, pushed, counters, generations, maintenance, synthesisVars>>

ShutdownJobs ==
  /\ reader = "stop_jobs"
  /\ StopQueue
  /\ reader' = "joining"
  /\ Quiet
  /\ UNCHANGED <<audioVars, sessionVars, textVars, counters, generations, section,
                 maintenance, synthesisVars>>

Join ==
  /\ reader = "joining"
  /\ synthesis = "exited" /\ maintenance = "exited"
  /\ reader' = "joined"
  /\ Quiet
  /\ UNCHANGED <<queueVars, audioVars, sessionVars, textVars, counters, generations,
                 section, maintenance, synthesisVars>>

StopDevice ==
  /\ reader = "joined"
  /\ StopAudio
  /\ reader' = "exited"
  /\ Quiet
  /\ UNCHANGED <<queueVars, sessionVars, textVars, counters, generations, section,
                 maintenance, synthesisVars>>

-----------------------------------------------------------------------------
\* maintenance_loop: every 20 ms.

\* Time passes; only text that waits in the buffer can notice.
Tick ==
  /\ active /\ accepting /\ buffer # <<>> /\ ~idle
  /\ idle' = TRUE
  /\ Quiet
  /\ UNCHANGED <<queueVars, audioVars, sessionVars, buffer, pushed, counters,
                 generations, section, reader, maintenance, synthesisVars>>

Wake ==
  /\ maintenance = "asleep"
  /\ maintenance' = IF stopping THEN "exited" ELSE "awake"
  /\ Quiet
  /\ UNCHANGED <<queueVars, audioVars, sessionVars, textVars, counters, generations,
                 section, reader, synthesisVars>>

\* Mutants: a flush only of useful text; a drain only of text that is left.
WantsUsefulFlush == active /\ accepting /\ Len(buffer) >= kMinimumChunk /\ idle
WantsTextDrain == active /\ ~accepting /\ buffer # <<>>

WantsFlush == active /\ accepting /\ buffer # <<>> /\ idle
WantsDrain == active /\ ~accepting

MaintainSection(next) ==
  /\ maintenance = "awake" /\ section = "none"
  /\ section' = next
  /\ Quiet
  /\ UNCHANGED <<queueVars, audioVars, sessionVars, textVars, counters, generations,
                 reader, synthesisVars>>

FlushIdle == WantsFlush /\ MaintainSection("flush") /\ UNCHANGED maintenance
Drain == WantsDrain /\ MaintainSection("drain") /\ UNCHANGED maintenance
NothingToDo ==
  /\ ~WantsFlush /\ ~WantsDrain
  /\ MaintainSection("none")
  /\ maintenance' = "asleep"

\* Leave the section and sleep.
Leave ==
  /\ section' = "none"
  /\ maintenance' = "asleep"
  /\ Quiet
  /\ UNCHANGED <<queueVars, audioVars, sessionVars, textVars, counters, generations,
                 reader, synthesisVars>>

FlushDone == section = "flush" /\ Committed /\ Leave

DrainPending ==
  /\ section = "drain" /\ Committed
  /\ buffer # <<>> \/ outstanding # 0
  /\ Leave

\* Mutant: the jobs that are outstanding are forgotten.
DrainUncounted ==
  /\ section = "drain" /\ Committed
  /\ buffer = <<>>
  /\ section' = "drained"
  /\ Quiet
  /\ UNCHANGED <<queueVars, audioVars, sessionVars, textVars, counters, generations,
                 reader, maintenance, synthesisVars>>

\* No job is outstanding; whether audio is left is another mutex away.
DrainCounted ==
  /\ section = "drain" /\ Committed
  /\ buffer = <<>> /\ outstanding = 0
  /\ section' = "drained"
  /\ Quiet
  /\ UNCHANGED <<queueVars, audioVars, sessionVars, textVars, counters, generations,
                 reader, maintenance, synthesisVars>>

\* Mutant: wait for the end of the audio with state_mutex held.
DrainWaits ==
  /\ section = "drained"
  /\ MutexFree /\ ~IsDrained(generation)
  /\ Quiet
  /\ UNCHANGED <<queueVars, audioVars, sessionVars, textVars, counters, generations,
                 section, reader, maintenance, synthesisVars>>

DrainPlaying ==
  /\ section = "drained"
  /\ MutexFree /\ ~IsDrained(generation)
  /\ Leave

DrainFinished ==
  /\ section = "drained"
  /\ MutexFree /\ IsDrained(generation)
  /\ active' = FALSE /\ session' = NoSession
  /\ Emit("finished", session)
  /\ section' = "none"
  /\ maintenance' = "asleep"
  /\ UNCHANGED <<queueVars, audioVars, accepting, speakingEmitted, currentVoice,
                 generation, textVars, counters, generations, reader, synthesisVars>>

-----------------------------------------------------------------------------
\* synthesis_loop.

\* A step of the synthesis thread that changes nothing but itself.
SynthesisGoes(from, to) ==
  /\ synthesis = from /\ synthesis' = to
  /\ Quiet
  /\ UNCHANGED <<queueVars, audioVars, sessionVars, textVars, counters, generations,
                 section, reader, maintenance, job>>

JobIsCurrent == job.generation = currentGeneration

Sayable(text) == \A i \in 1..Len(text) : text[i] \notin Unsayable

TakeJob ==
  /\ synthesis = "pop"
  /\ Pop
  /\ job' = Head(jobs)
  /\ synthesis' = "popped"
  /\ Quiet
  /\ UNCHANGED <<audioVars, sessionVars, textVars, counters, generations, section,
                 reader, maintenance, pcm>>

SynthesisEnds == PopEnds /\ SynthesisGoes("pop", "exited") /\ UNCHANGED pcm

CheckBefore ==
  \/ JobIsCurrent /\ SynthesisGoes("popped", "synthesize") /\ UNCHANGED pcm
  \/ ~JobIsCurrent /\ SynthesisGoes("popped", "retire") /\ UNCHANGED pcm

\* The engine takes its time: the session may be gone when it returns.
Synthesize ==
  /\ SynthesisGoes("synthesize", "synthesized")
  /\ \E frames \in FrameCounts \cup (IF Sayable(job.text) THEN {} ELSE {0}) :
       pcm' = frames

SynthesizeThrows ==
  /\ ~Sayable(job.text)
  /\ SynthesisGoes("synthesize", "failed")
  /\ UNCHANGED pcm

CheckAfter ==
  \/ /\ JobIsCurrent /\ pcm > 0
     /\ SynthesisGoes("synthesized", "enqueue") /\ UNCHANGED pcm
  \/ /\ ~(JobIsCurrent /\ pcm > 0)
     /\ SynthesisGoes("synthesized", "retire") /\ UNCHANGED pcm

\* AudioOutput's enqueue: test, then lock, and again while it does not fit.
EnqueueTest ==
  \/ /\ MayEnqueue(job.generation)
     /\ SynthesisGoes("enqueue", "enqueue_locked") /\ UNCHANGED pcm
  \/ /\ ~MayEnqueue(job.generation)
     /\ SynthesisGoes("enqueue", "retire") /\ UNCHANGED pcm

EnqueueClip ==
  /\ synthesis = "enqueue_locked"
  /\ PushClip([generation |-> job.generation, frames |-> pcm, text |-> job.text])
  /\ synthesis' = "announce"
  /\ Quiet
  /\ UNCHANGED <<queueVars, sessionVars, textVars, counters, generations, section,
                 reader, maintenance, job, pcm>>

EnqueueFull ==
  /\ MutexFree /\ ~Fits(pcm)
  /\ SynthesisGoes("enqueue_locked", "enqueue") /\ UNCHANGED pcm

\* Mutant: the first audio is announced only while more text is expected.
IsFirstAudioOfReceiving ==
  active /\ accepting /\ generation = job.generation /\ ~speakingEmitted

\* state_mutex again: is this the first audio of the session that is open now?
IsFirstAudio == active /\ generation = job.generation /\ ~speakingEmitted

Announce ==
  /\ synthesis = "announce" /\ section = "none"
  /\ synthesis' = "retire"
  /\ speakingEmitted' = (speakingEmitted \/ IsFirstAudio)
  /\ IF IsFirstAudio THEN Emit("speaking", session) ELSE Quiet
  /\ UNCHANGED <<queueVars, audioVars, active, accepting, currentVoice, generation,
                 session, textVars, counters, generations, section, reader,
                 maintenance, job, pcm>>

CheckFailure ==
  \/ JobIsCurrent /\ SynthesisGoes("failed", "report") /\ UNCHANGED pcm
  \/ ~JobIsCurrent /\ SynthesisGoes("failed", "retire") /\ UNCHANGED pcm

\* The report is made without state_mutex.
Report ==
  /\ synthesis = "report"
  /\ synthesis' = "retire"
  /\ Emit("synthesis_failed", job.session)
  /\ UNCHANGED <<queueVars, audioVars, sessionVars, textVars, counters, generations,
                 section, reader, maintenance, job, pcm>>

Retire ==
  /\ synthesis = "retire"
  /\ ownedBytes' = ownedBytes - Len(job.text)
  /\ outstanding' = outstanding - 1
  /\ synthesis' = "pop"
  /\ job' = NoJob /\ pcm' = 0
  /\ Quiet
  /\ UNCHANGED <<queueVars, audioVars, sessionVars, textVars, generations, section,
                 reader, maintenance>>

-----------------------------------------------------------------------------
CallbackStep ==
  /\ CallbackBegin \/ CallbackDropCurrent \/ CallbackTake \/ CallbackCopy \/ CallbackEnd
  /\ Quiet
  /\ UNCHANGED <<queueVars, sessionVars, textVars, counters, generations, section,
                 reader, maintenance, synthesisVars>>

Command(s) ==
  \/ StartRejected(s)
  \/ \E patch \in Patches : StartBadVoice(s, patch) \/ Start(s, patch)
  \/ MismatchRejected(s)
  \/ \E text \in Texts : AppendBackpressure(s, text) \/ AppendText(s, text)
  \/ Finish(s)
  \/ InterruptRejected(s)
  \/ Interrupt(s)

Client ==
  \/ \E s \in Sessions : Command(s)
  \/ \E emitEvent \in BOOLEAN : ShutdownBegin(emitEvent)

ReaderCommit == section \in {"append", "finish"} /\ Commit
MaintenanceCommit == section \in {"flush", "drain"} /\ Commit

ReaderStep ==
  \/ ReaderCommit
  \/ StartReady \/ AppendDone \/ FinishDone
  \/ InterruptValidity \/ InterruptJobs \/ InterruptAudio
  \/ Shutdown \/ ShutdownValidity \/ ShutdownAudio \/ ShutdownJobs \/ Join \/ StopDevice

MaintenanceStep ==
  \/ MaintenanceCommit
  \/ Wake \/ FlushIdle \/ Drain \/ NothingToDo \/ FlushDone
  \/ DrainPending \/ DrainCounted \/ DrainPlaying \/ DrainFinished

SynthesisStep ==
  \/ TakeJob \/ SynthesisEnds \/ CheckBefore \/ Synthesize \/ SynthesizeThrows
  \/ CheckAfter \/ EnqueueTest \/ EnqueueClip \/ EnqueueFull \/ Announce
  \/ CheckFailure \/ Report \/ Retire

\* The program has exited.
Terminated == reader = "exited" /\ Quiet /\ UNCHANGED <<queueVars, audioVars,
  sessionVars, textVars, counters, generations, section, reader, maintenance, synthesisVars>>

Next ==
  \/ Client \/ ReaderStep \/ MaintenanceStep \/ SynthesisStep \/ CallbackStep
  \/ Tick \/ Terminated

Spec == Init /\ [][Next]_vars

-----------------------------------------------------------------------------
\* Fairness.

\* A std::mutex may be taken by others again and again before a waiting
\* thread gets it; no thread waits forever for one that is released each time.
ReaderFairness == SF_vars(ReaderStep)
MaintenanceFairness == SF_vars(MaintenanceStep)
\* The engine returns from every phrase.
SynthesisFairness == SF_vars(SynthesisStep)
\* A callback that has begun runs to its end.
CallbackEnds == WF_vars(callback.holds /\ CallbackStep)
\* The device keeps asking for audio.
DevicePlays == WF_vars(CallbackStep)
TimePasses == WF_vars(Tick)

\* What the operating system owes to the threads, whatever device and engine do.
ThreadsRun == Spec /\ ReaderFairness /\ MaintenanceFairness /\ CallbackEnds

\* What a session needs besides to be spoken.
PlaysFairly == SynthesisFairness /\ DevicePlays /\ TimePasses

-----------------------------------------------------------------------------
\* Types.

SessionVoices == {DefaultSettings} \cup {Patched(DefaultSettings, patch) : patch \in Patches}

Jobs == [generation : Nat \ {0}, session : Sessions, text : Seq(STRING),
         voice : SessionVoices]

ReaderSections ==
  {"start", "append", "finish", "interrupt_valid", "interrupt_jobs",
   "interrupt_audio", "shutdown_valid", "shutdown_audio"}
MaintenanceSections == {"flush", "drain", "drained"}

QueueTypeOK ==
  jobs \in Seq(Jobs) /\ queueBytes \in Int /\ queueStopped \in BOOLEAN

SessionTypeOK ==
  /\ stopping \in BOOLEAN /\ currentGeneration \in Nat
  /\ active \in BOOLEAN /\ accepting \in BOOLEAN /\ speakingEmitted \in BOOLEAN
  /\ currentVoice \in SessionVoices
  /\ generation \in Nat /\ session \in Sessions \cup {NoSession}

TextTypeOK ==
  /\ buffer \in Seq(STRING) /\ idle \in BOOLEAN /\ pushed \in 0..Len(buffer)
  /\ outstanding \in Int /\ ownedBytes \in Int

ThreadTypeOK ==
  /\ section \in {"none"} \cup ReaderSections \cup MaintenanceSections
  /\ reader \in {"serving", "shutdown", "stop_jobs", "joining", "joined", "exited"}
  /\ maintenance \in {"asleep", "awake", "exited"}

SynthesisTypeOK ==
  /\ synthesis \in {"pop", "popped", "synthesize", "synthesized", "failed", "enqueue",
                    "enqueue_locked", "announce", "report", "retire", "exited"}
  /\ job \in Jobs \cup {NoJob} /\ pcm \in Nat

EventTypes ==
  {"none", "error", "session_started", "backpressure", "accepted", "interrupted",
   "shutting_down", "finished", "speaking", "synthesis_failed"}

EventTypeOK == event \in [type : EventTypes, session : Sessions \cup {NoSession}]

\* Every variable has its type; a phrase that is pushed is still in the buffer.
TypeOK ==
  /\ AudioTypeOK /\ QueueTypeOK /\ SessionTypeOK /\ TextTypeOK
  /\ ThreadTypeOK /\ SynthesisTypeOK /\ EventTypeOK

-----------------------------------------------------------------------------
\* Safety.

HeldJobs == IF job = NoJob THEN 0 ELSE 1
UncountedJobs == IF pushed > 0 THEN 1 ELSE 0

\* Until shutdown throws text away ownedBytes is the number of bytes between
\* append and retirement, each counted once: also in the middle of a commit,
\* when the pushed phrase is in the queue and in the buffer, and whatever the
\* synthesis thread has already done with it.  Otherwise append would refuse
\* text there is room for, or, after an underflow, all text for ever.
OwnedAccounted ==
  LET owned == Len(buffer) - pushed + queueBytes + Len(job.text)
  IN  /\ IF reader \in {"serving", "shutdown"} THEN ownedBytes = owned
         ELSE ownedBytes >= owned
      /\ ownedBytes <= kMaximumPendingTextBytes

\* outstanding counts the jobs that are queued or being worked on, but for
\* the one that a commit has pushed and not counted yet (outstanding wraps
\* below zero if that job is retired first).  Outside a commit it is exact:
\* were it too small, a session would finish with text unspoken; too large,
\* no session would ever finish again.
OutstandingAccounted == outstanding = Len(jobs) + HeldJobs - UncountedJobs

\* A phrase cut from the buffer always fits the queue: the loop of
\* commit_available_locked, which leaves the text in the buffer when push
\* fails, never meets a refusal.
PushNeverRefused ==
  Committing /\ pushed = 0 /\ NextBytes > 0 /\ HasSpeakableText(Phrase)
    => ~PushRefused(Phrase)

\* Queued jobs belong to the session of `generation` and carry its name and
\* voice; when no session is open and the program is not shutting down, no
\* text of an earlier one is left anywhere but in the hands of the synthesis
\* thread, and that is text of an interrupted generation.
JobsOfOneSession ==
  /\ \A i \in 1..Len(jobs) : jobs[i].generation = generation
  /\ active => \A i \in 1..Len(jobs) :
       jobs[i].session = session /\ jobs[i].voice = currentVoice
  /\ ~active /\ section = "none" /\ reader = "serving" =>
       /\ jobs = <<>> /\ buffer = <<>>
       /\ job # NoJob => job.generation < currentGeneration

\* A session speaks with the program's voice changed by its own patch, whatever
\* patches were refused and whatever sessions there were before it, and the
\* whole of its patch was in order.
VoiceOfSession ==
  active => \E patch \in Patches :
    PatchSucceeds(DefaultSettings, patch) /\ currentVoice = Patched(DefaultSettings, patch)

\* A session whose audio is queued has been announced, or the synthesis
\* thread is about to announce it: `finished` never precedes `speaking`.
HeardIsAnnounced ==
  active /\ ~IsDrained(generation) =>
    speakingEmitted \/ (synthesis = "announce" /\ job.generation = generation)

\* The callback copies audio only while the session it belongs to is open:
\* nothing is heard after `interrupted` or `finished`, and nothing of an
\* earlier session in a later one, although the callback works with the valid
\* generation it loaded at its start and clips of an interrupted session may
\* still arrive after the queue was cleared.
SoundOnlyInSession ==
  [][callback'.written > callback.written
       => active /\ current.generation = generation]_vars

\* A report of the synthesis thread concerns the session that is open.
ReportsOpenSession ==
  [][event'.type = "synthesis_failed" => active /\ event'.session = session]_vars

-----------------------------------------------------------------------------
\* Liveness.

\* Audio of a phrase that will never fit: the synthesis thread waits with it until
\* its session is interrupted.
TooLong == pcm > MaximumFrames

\* If engine and device do their work, a session ends once finish is accepted:
\* with finished, or because it is interrupted or the program shuts down; unless
\* a phrase is too long.
FinishCompletes == PlaysFairly => ((active /\ ~accepting) ~> (~active \/ TooLong))

\* Shutdown ends the program, even if the device asks for no more audio and
\* the synthesis thread waits for room in a full audio queue, provided that the
\* engine returns: its thread is joined.
ShutdownExits == SynthesisFairness => (stopping ~> reader = "exited")

\* Every critical section is left, even if the engine never returns and the
\* device plays nothing: the reader stays available for commands.
MutexReleased == (section # "none") ~> (section = "none")

LiveText ==
  \/ buffer # <<>> \/ jobs # <<>>
  \/ job # NoJob /\ job.generation = generation
  \/ ~IsDrained(generation)

\* If they do, text that is accepted is spoken without waiting for finish, however
\* short it is, unless more text arrives, the session is interrupted or a phrase
\* is too long.
AcceptedIsSpoken ==
  PlaysFairly =>
    ((active /\ LiveText) ~> (~active \/ ~LiveText \/ section = "append" \/ TooLong))
=============================================================================
