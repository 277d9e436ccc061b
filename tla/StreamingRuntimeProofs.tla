----------------------- MODULE StreamingRuntimeProofs -----------------------
(***************************************************************************)
(* The counters of StreamingRuntime are exact, its queue holds one         *)
(* session's text, the device plays one session's audio, and what all of   *)
(* it does is what a SpeechSession does, for every instance: any texts,    *)
(* sessions, voices, chunk sizes and capacities.                           *)
(***************************************************************************)
EXTENDS RuntimeImplementsSession, AudioOutputProofs, ChunkerProofs

-----------------------------------------------------------------------------
\* Pushing, popping and cancelling keep the byte count of JobQueue exact.  What a
\* job carries besides its text does not matter, so these lemmas are about queues
\* of any set of records that have a text.

SizesOf(s) == [i \in 1..Len(s) |-> Len(s[i].text)]

\* A set of jobs: records whose text has a length.
HaveText(S) == \A j \in S : Len(j.text) \in Nat

LEMMA SizesOfType ==
  ASSUME NEW S, HaveText(S), NEW s \in Seq(S)
  PROVE  /\ SizesOf(s) \in Seq(Nat) /\ Len(SizesOf(s)) = Len(s)
         /\ Total(SizesOf(s)) \in Nat
<1>1. Len(s) \in Nat /\ \A i \in 1..Len(s) : s[i] \in S
  BY LenProperties, ElementOfSeq
<1>2. SizesOf(s) \in Seq(Nat)
  BY <1>1, IsASeq DEF SizesOf, HaveText
<1> QED
  BY <1>1, <1>2, LenProperties, TotalType DEF SizesOf

LEMMA SizesOfEmpty == Total(SizesOf(<<>>)) = 0
<1>1. SizesOf(<<>>) = <<>>
  BY EmptySeq DEF SizesOf
<1> QED
  BY <1>1, TotalEmpty

LEMMA SizesOfAppend ==
  ASSUME NEW S, HaveText(S), NEW s \in Seq(S), NEW j \in S
  PROVE  Total(SizesOf(Append(s, j))) = Total(SizesOf(s)) + Len(j.text)
<1> DEFINE more == Append(s, j)
<1>1. /\ more \in Seq(S)
      /\ Len(s) \in Nat /\ Len(more) = Len(s) + 1
      /\ \A i \in 1..Len(s) : more[i] = s[i]
      /\ more[Len(s) + 1] = j
  BY LenProperties, AppendProperties
<1>2. /\ SizesOf(s) \in Seq(Nat) /\ SizesOf(more) \in Seq(Nat)
      /\ Len(SizesOf(s)) = Len(s) /\ Len(SizesOf(more)) = Len(s) + 1
  BY <1>1, SizesOfType
<1>3. /\ \A i \in 1..Len(s) : SizesOf(more)[i] = SizesOf(s)[i]
      /\ SizesOf(more)[Len(s) + 1] = Len(j.text)
  BY <1>1 DEF SizesOf
<1> HIDE DEF more
<1> QED
  BY <1>2, <1>3, TotalAppend DEF more

LEMMA SizesOfTail ==
  ASSUME NEW S, HaveText(S), NEW s \in Seq(S), s # <<>>
  PROVE  Total(SizesOf(s)) = Len(Head(s).text) + Total(SizesOf(Tail(s)))
<1>1. /\ Len(s) \in Nat \ {0}
      /\ Head(s) \in S /\ Head(s) = s[1]
      /\ Tail(s) \in Seq(S)
      /\ Len(Tail(s)) = Len(s) - 1
      /\ \A i \in 1..(Len(s) - 1) : Tail(s)[i] = s[i + 1]
  BY HeadTailProperties, LenProperties, EmptySeq
<1> DEFINE f == SizesOf(s)
           g == SizesOf(Tail(s))
<1>2. /\ f \in Seq(Nat) /\ Len(f) = Len(s)
      /\ \A i \in 1..Len(s) : f[i] = Len(s[i].text)
  BY <1>1, SizesOfType DEF SizesOf
<1>3. /\ g \in Seq(Nat) /\ Len(g) = Len(s) - 1
      /\ \A i \in 1..(Len(s) - 1) : g[i] = Len(s[i + 1].text)
  BY <1>1, SizesOfType DEF SizesOf
<1>4. f # <<>>
  BY <1>1, <1>2, EmptySeq
<1> HIDE DEF f, g
<1>5. /\ Head(f) = f[1] /\ Tail(f) \in Seq(Nat)
      /\ Len(Tail(f)) = Len(s) - 1
      /\ \A i \in 1..(Len(s) - 1) : Tail(f)[i] = f[i + 1]
  BY <1>2, <1>4, HeadTailProperties
<1>6. Tail(f) = g
  <2>1. \A i \in 1..(Len(s) - 1) : Tail(f)[i] = g[i]
    BY <1>1, <1>2, <1>3, <1>5
  <2> QED
    BY <1>3, <1>5, <2>1, SeqEqual
<1>7. Total(f) = Head(f) + Total(g)
  BY <1>2, <1>4, <1>6, TotalTail
<1>8. Head(f) = Len(Head(s).text)
  BY <1>1, <1>2, <1>5
<1> QED
  BY <1>7, <1>8 DEF f, g

-----------------------------------------------------------------------------
\* The methods.

LEMMA PushExact ==
  ASSUME NEW S, HaveText(S), jobs \in Seq(S), queueBytes \in Int, QueueBytesExact,
         NEW j \in S, Push(j)
  PROVE  /\ jobs' \in Seq(S) /\ Len(jobs') = Len(jobs) + 1
         /\ QueueBytesExact'
<1>1. jobs' \in Seq(S) /\ Len(jobs') = Len(jobs) + 1
  BY AppendProperties DEF Push
<1>2. queueBytes' = Total(SizesOf(jobs'))
  BY SizesOfAppend DEF Push, QueueBytesExact, SizesOf
<1>3. queueBytes' <= kMaximumPendingTextBytes
  BY PendingTextAssumption DEF Push, PushRefused, HaveText
<1> QED
  BY <1>1, <1>2, <1>3 DEF QueueBytesExact, SizesOf

LEMMA PopExact ==
  ASSUME NEW S, HaveText(S), jobs \in Seq(S), QueueBytesExact, Pop
  PROVE  /\ Head(jobs) \in S
         /\ jobs' \in Seq(S) /\ Len(jobs') = Len(jobs) - 1
         /\ QueueBytesExact'
<1>1. Head(jobs) \in S /\ jobs' \in Seq(S) /\ Len(jobs') = Len(jobs) - 1
  BY HeadTailProperties DEF Pop
<1>2. /\ Total(SizesOf(jobs)) = Len(Head(jobs).text) + Total(SizesOf(jobs'))
      /\ Total(SizesOf(jobs')) \in Nat
      /\ Len(Head(jobs).text) \in Nat
  BY <1>1, SizesOfTail, SizesOfType DEF Pop, HaveText
<1>3. queueBytes = Total(SizesOf(jobs)) /\ queueBytes <= kMaximumPendingTextBytes
  BY DEF QueueBytesExact, SizesOf
<1>4. queueBytes' = Total(SizesOf(jobs')) /\ queueBytes' <= kMaximumPendingTextBytes
  BY <1>2, <1>3, PendingTextAssumption DEF Pop
<1> QED
  BY <1>1, <1>4 DEF QueueBytesExact, SizesOf

\* When the queue holds one generation only, cancelling it empties the queue.
LEMMA CancelExact ==
  ASSUME NEW S, HaveText(S), jobs \in Seq(S), QueueBytesExact,
         NEW g, \A i \in 1..Len(jobs) : jobs[i].generation = g,
         Cancel(g)
  PROVE  /\ jobs' = <<>> /\ QueueBytesExact'
         /\ CancelledJobs(g) = Len(jobs)
         /\ CancelledBytes(g) = queueBytes
<1>1. Len(jobs) \in Nat
  BY LenProperties
<1>2. Cancelled(g) = 1..Len(jobs)
  BY DEF Cancelled
<1>3. CancelledJobs(g) = Len(jobs)
  <2>1. Cardinality(1..Len(jobs)) = IF 1 > Len(jobs) THEN 0 ELSE Len(jobs) - 1 + 1
    BY <1>1, FS_Interval
  <2> QED
    BY <1>1, <1>2, <2>1 DEF CancelledJobs
<1>4. CancelledBytes(g) = queueBytes
  BY <1>2 DEF CancelledBytes, QueueBytesExact
<1>5. jobs' = <<>>
  <2>1. Cardinality({}) = 0
    BY FS_EmptySet
  <2>2. (1..Len(jobs)) \ Cancelled(g) = {}
    BY <1>2
  <2>3. jobs' = ElementsAt(jobs, {})
    BY <2>2 DEF Cancel
  <2> QED
    BY <2>1, <2>3 DEF ElementsAt
<1>6. queueBytes \in Nat
  BY SizesOfType DEF QueueBytesExact, SizesOf
<1>7. queueBytes' = 0
  BY <1>4, <1>6 DEF Cancel
<1>8. QueueBytesExact'
  BY <1>5, <1>7, SizesOfEmpty, PendingTextAssumption DEF QueueBytesExact, SizesOf
<1> QED
  BY <1>3, <1>4, <1>5, <1>8

-----------------------------------------------------------------------------
\* The inductive invariant.

Interrupting == section \in {"interrupt_valid", "interrupt_jobs", "interrupt_audio"}

\* Who is in a critical section, and what that says of the session.
SectionInv ==
  /\ pushed > 0 => Committing
  /\ section \in ReaderSections =>
       IF section \in {"shutdown_valid", "shutdown_audio"} THEN reader = "shutdown"
       ELSE reader = "serving" /\ active
  /\ section \in MaintenanceSections => active
  /\ active => /\ reader \in {"serving", "shutdown"}
               /\ session \in Sessions /\ generation > 0
  /\ reader \notin {"serving", "shutdown"} => section = "none"
  /\ queueStopped => reader \in {"joining", "joined", "exited"}

\* What the synthesis thread holds.
SynthesisInv ==
  /\ job = NoJob <=> synthesis \in {"pop", "exited"}
  /\ synthesis \in {"enqueue", "enqueue_locked"} => pcm > 0

\* Generations only grow, and an interrupt first leaves the session behind.
GenerationInv ==
  /\ generation <= currentGeneration
  /\ Interrupting => generation < currentGeneration
  /\ job.generation <= generation

\* What the steps of interrupt and drain have already made sure of.
EmptiedInv ==
  /\ section \in {"interrupt_jobs", "interrupt_audio"} => buffer = <<>>
  /\ section = "interrupt_audio" => jobs = <<>>
  /\ section = "drained" => buffer = <<>> /\ jobs = <<>> /\ job = NoJob

IInv ==
  /\ TypeOK
  /\ AudioInv
  /\ SectionInv
  /\ SynthesisInv
  /\ GenerationInv
  /\ EmptiedInv
  /\ QueueBytesExact
  /\ OwnedAccounted
  /\ OutstandingAccounted
  /\ JobsOfOneSession
  /\ VoiceOfSession

-----------------------------------------------------------------------------
\* Which actions touch which variables.

LEMMA AudioFrame ==
  ASSUME Next
  PROVE  \/ UNCHANGED audioVars
         \/ StartReady \/ InterruptValidity \/ InterruptAudio
         \/ ShutdownValidity \/ ShutdownAudio \/ StopDevice
         \/ EnqueueClip \/ CallbackStep
<1>1. CASE Client
  BY <1>1 DEF Client, Command, StartRejected, StartBadVoice, Start, MismatchRejected,
    AppendBackpressure, AppendText, Finish, InterruptRejected, Interrupt,
    ShutdownBegin, Reject
<1>2. CASE ReaderStep
  BY <1>2 DEF ReaderStep, ReaderCommit, Commit, CommitBlank, CommitPush, CommitCount,
    AppendDone, FinishDone, InterruptJobs, Shutdown, ShutdownJobs, Join
<1>3. CASE MaintenanceStep
  BY <1>3 DEF MaintenanceStep, MaintenanceCommit, Commit, CommitBlank, CommitPush,
    CommitCount, Wake, FlushIdle, Drain, NothingToDo, MaintainSection, FlushDone,
    DrainPending, DrainCounted, DrainPlaying, DrainFinished, Leave
<1>4. CASE SynthesisStep
  BY <1>4 DEF SynthesisStep, TakeJob, SynthesisEnds, CheckBefore, Synthesize,
    SynthesizeThrows, CheckAfter, EnqueueTest, EnqueueFull, Announce, CheckFailure,
    Report, Retire, SynthesisGoes
<1>5. CASE Tick \/ Terminated
  BY <1>5 DEF Tick, Terminated
<1> QED
  BY <1>1, <1>2, <1>3, <1>4, <1>5 DEF Next

LEMMA QueueFrame ==
  ASSUME Next
  PROVE  UNCHANGED queueVars \/ CommitPush \/ InterruptJobs \/ ShutdownJobs \/ TakeJob
<1>1. CASE Client
  BY <1>1 DEF Client, Command, StartRejected, StartBadVoice, Start, MismatchRejected,
    AppendBackpressure, AppendText, Finish, InterruptRejected, Interrupt,
    ShutdownBegin, Reject
<1>2. CASE ReaderStep
  BY <1>2 DEF ReaderStep, ReaderCommit, Commit, CommitBlank, CommitCount,
    StartReady, AppendDone, FinishDone, InterruptValidity, InterruptAudio,
    Shutdown, ShutdownValidity, ShutdownAudio, Join, StopDevice
<1>3. CASE MaintenanceStep
  BY <1>3 DEF MaintenanceStep, MaintenanceCommit, Commit, CommitBlank,
    CommitCount, Wake, FlushIdle, Drain, NothingToDo, MaintainSection, FlushDone,
    DrainPending, DrainCounted, DrainPlaying, DrainFinished, Leave
<1>4. CASE SynthesisStep
  BY <1>4 DEF SynthesisStep, SynthesisEnds, CheckBefore, Synthesize,
    SynthesizeThrows, CheckAfter, EnqueueTest, EnqueueClip, EnqueueFull, Announce,
    CheckFailure, Report, Retire, SynthesisGoes
<1>5. CASE CallbackStep \/ Tick \/ Terminated
  BY <1>5 DEF CallbackStep, Tick, Terminated
<1> QED
  BY <1>1, <1>2, <1>3, <1>4, <1>5 DEF Next

LEMMA TextFrame ==
  ASSUME Next
  PROVE  \/ UNCHANGED <<textVars, counters>>
         \/ CommitBlank \/ CommitPush \/ CommitCount
         \/ \E s \in Sessions, patch \in Patches : Start(s, patch)
         \/ \E s \in Sessions, text \in Texts : AppendText(s, text)
         \/ InterruptValidity \/ InterruptJobs \/ ShutdownAudio \/ Tick \/ Retire
<1>1. CASE Client
  BY <1>1 DEF Client, Command, StartRejected, StartBadVoice, MismatchRejected,
    AppendBackpressure, Finish, InterruptRejected, Interrupt, ShutdownBegin, Reject
<1>2. CASE ReaderStep
  BY <1>2 DEF ReaderStep, ReaderCommit, Commit, StartReady, AppendDone, FinishDone,
    InterruptAudio, Shutdown, ShutdownValidity, ShutdownJobs, Join, StopDevice
<1>3. CASE MaintenanceStep
  BY <1>3 DEF MaintenanceStep, MaintenanceCommit, Commit, Wake, FlushIdle, Drain,
    NothingToDo, MaintainSection, FlushDone, DrainPending, DrainCounted, DrainPlaying,
    DrainFinished, Leave
<1>4. CASE SynthesisStep
  BY <1>4 DEF SynthesisStep, TakeJob, SynthesisEnds, CheckBefore, Synthesize,
    SynthesizeThrows, CheckAfter, EnqueueTest, EnqueueClip, EnqueueFull, Announce,
    CheckFailure, Report, SynthesisGoes
<1>5. CASE CallbackStep \/ Tick \/ Terminated
  BY <1>5 DEF CallbackStep, Terminated
<1> QED
  BY <1>1, <1>2, <1>3, <1>4, <1>5 DEF Next

LEMMA SessionFrame ==
  ASSUME Next
  PROVE  \/ UNCHANGED <<sessionVars, generations>>
         \/ \E s \in Sessions, patch \in Patches : StartBadVoice(s, patch)
         \/ \E s \in Sessions, patch \in Patches : Start(s, patch)
         \/ \E s \in Sessions : Finish(s)
         \/ \E s \in Sessions : Interrupt(s)
         \/ InterruptAudio
         \/ \E emitEvent \in BOOLEAN : ShutdownBegin(emitEvent)
         \/ Shutdown \/ ShutdownAudio \/ DrainFinished \/ Announce
<1>1. CASE Client
  BY <1>1 DEF Client, Command, StartRejected, MismatchRejected, AppendBackpressure,
    AppendText, InterruptRejected, Reject
<1>2. CASE ReaderStep
  BY <1>2 DEF ReaderStep, ReaderCommit, Commit, CommitBlank, CommitPush, CommitCount,
    StartReady, AppendDone, FinishDone, InterruptValidity, InterruptJobs,
    ShutdownValidity, ShutdownJobs, Join, StopDevice
<1>3. CASE MaintenanceStep
  BY <1>3 DEF MaintenanceStep, MaintenanceCommit, Commit, CommitBlank, CommitPush,
    CommitCount, Wake, FlushIdle, Drain, NothingToDo, MaintainSection, FlushDone,
    DrainPending, DrainCounted, DrainPlaying, Leave
<1>4. CASE SynthesisStep
  BY <1>4 DEF SynthesisStep, TakeJob, SynthesisEnds, CheckBefore, Synthesize,
    SynthesizeThrows, CheckAfter, EnqueueTest, EnqueueClip, EnqueueFull,
    CheckFailure, Report, Retire, SynthesisGoes
<1>5. CASE CallbackStep \/ Tick \/ Terminated
  BY <1>5 DEF CallbackStep, Tick, Terminated
<1> QED
  BY <1>1, <1>2, <1>3, <1>4, <1>5 DEF Next

LEMMA SynthesisFrame ==
  ASSUME Next
  PROVE  UNCHANGED synthesisVars \/ SynthesisStep
<1>1. CASE Client
  BY <1>1 DEF Client, Command, StartRejected, StartBadVoice, Start, MismatchRejected,
    AppendBackpressure, AppendText, Finish, InterruptRejected, Interrupt,
    ShutdownBegin, Reject
<1>2. CASE ReaderStep
  BY <1>2 DEF ReaderStep, ReaderCommit, Commit, CommitBlank, CommitPush, CommitCount,
    StartReady, AppendDone, FinishDone, InterruptValidity, InterruptJobs,
    InterruptAudio, Shutdown, ShutdownValidity, ShutdownAudio, ShutdownJobs, Join,
    StopDevice
<1>3. CASE MaintenanceStep
  BY <1>3 DEF MaintenanceStep, MaintenanceCommit, Commit, CommitBlank, CommitPush,
    CommitCount, Wake, FlushIdle, Drain, NothingToDo, MaintainSection, FlushDone,
    DrainPending, DrainCounted, DrainPlaying, DrainFinished, Leave
<1>4. CASE CallbackStep \/ Tick \/ Terminated
  BY <1>4 DEF CallbackStep, Tick, Terminated
<1> QED
  BY <1>1, <1>2, <1>3, <1>4 DEF Next

LEMMA JobFrame ==
  ASSUME Next
  PROVE  UNCHANGED job \/ TakeJob \/ Retire
<1>1. SynthesisStep => UNCHANGED job \/ TakeJob \/ Retire
  BY DEF SynthesisStep, SynthesisEnds, CheckBefore, Synthesize, SynthesizeThrows,
    CheckAfter, EnqueueTest, EnqueueClip, EnqueueFull, Announce, CheckFailure, Report,
    SynthesisGoes
<1> QED
  BY <1>1, SynthesisFrame DEF synthesisVars

\* The reader leaves the sessions behind in ShutdownAudio only.
LEMMA ReaderFrame ==
  ASSUME Next
  PROVE  \/ reader' \in {"serving", "shutdown"} <=> reader \in {"serving", "shutdown"}
         \/ ShutdownAudio
<1>1. CASE Client
  BY <1>1 DEF Client, Command, StartRejected, StartBadVoice, Start, MismatchRejected,
    AppendBackpressure, AppendText, Finish, InterruptRejected, Interrupt,
    ShutdownBegin, Reject, CanHandle
<1>2. CASE ReaderStep
  BY <1>2 DEF ReaderStep, ReaderCommit, Commit, CommitBlank, CommitPush, CommitCount,
    StartReady, AppendDone, FinishDone, InterruptValidity, InterruptJobs,
    InterruptAudio, Shutdown, ShutdownValidity, ShutdownJobs, Join, StopDevice
<1>3. CASE MaintenanceStep
  BY <1>3 DEF MaintenanceStep, MaintenanceCommit, Commit, CommitBlank, CommitPush,
    CommitCount, Wake, FlushIdle, Drain, NothingToDo, MaintainSection, FlushDone,
    DrainPending, DrainCounted, DrainPlaying, DrainFinished, Leave
<1>4. CASE SynthesisStep
  BY <1>4 DEF SynthesisStep, TakeJob, SynthesisEnds, CheckBefore, Synthesize,
    SynthesizeThrows, CheckAfter, EnqueueTest, EnqueueClip, EnqueueFull, Announce,
    CheckFailure, Report, Retire, SynthesisGoes
<1>5. CASE CallbackStep \/ Tick \/ Terminated
  BY <1>5 DEF CallbackStep, Tick, Terminated
<1> QED
  BY <1>1, <1>2, <1>3, <1>4, <1>5 DEF Next

\* The actions that move text or count it.
LEMMA CountersFrame ==
  ASSUME Next
  PROVE  \/ UNCHANGED <<buffer, pushed, outstanding, ownedBytes, queueBytes, jobs, job>>
         \/ CommitBlank \/ CommitPush \/ CommitCount
         \/ \E s \in Sessions, patch \in Patches : Start(s, patch)
         \/ \E s \in Sessions, text \in Texts : AppendText(s, text)
         \/ InterruptValidity \/ InterruptJobs \/ ShutdownAudio \/ TakeJob \/ Retire
BY TextFrame, QueueFrame, JobFrame
DEF textVars, counters, queueVars, Tick, ShutdownJobs, StopQueue

-----------------------------------------------------------------------------
\* Facts about the values.

LEMMA JobsHaveText == HaveText(Jobs)
<1>1. \A text \in Seq(STRING) : Len(text) \in Nat
  BY LenProperties
<1> QED
  BY <1>1 DEF HaveText, Jobs

LEMMA EmptyText == <<>> \in Seq(STRING) /\ Len(<<>>) = 0
BY EmptySeq

\* What the commit loop cuts off and what it leaves.
LEMMA CutFacts ==
  ASSUME TextTypeOK
  PROVE  /\ Len(buffer) \in Nat
         /\ NextBytes \in 0..Len(buffer)
         /\ Phrase \in Seq(STRING) /\ Len(Phrase) = NextBytes
         /\ \A n \in 0..Len(buffer) :
              Rest(n) \in Seq(STRING) /\ Len(Rest(n)) = Len(buffer) - n
<1>1. buffer \in Seq(STRING) /\ Len(buffer) \in Nat
  BY LenProperties DEF TextTypeOK
<1>2. \A i \in 1..Len(buffer) : buffer[i] \in STRING
  BY <1>1, ElementOfSeq
<1>3. NextBytes \in 0..Len(buffer)
  BY <1>1, ChunkWithinBuffer DEF NextBytes, Forced
<1>4. Phrase \in Seq(STRING) /\ Len(Phrase) = NextBytes
  <2>1. \A i \in 1..NextBytes : buffer[i] \in STRING
    BY <1>1, <1>2, <1>3
  <2> QED
    BY <1>1, <1>3, <2>1, SubSeqProperties DEF Phrase
<1>5. ASSUME NEW n \in 0..Len(buffer)
      PROVE  Rest(n) \in Seq(STRING) /\ Len(Rest(n)) = Len(buffer) - n
  <2>1. \A i \in (n + 1)..Len(buffer) : buffer[i] \in STRING
    BY <1>1, <1>2, <1>5
  <2> QED
    BY <1>1, <1>5, <2>1, SubSeqProperties DEF Rest
<1> QED
  BY <1>1, <1>3, <1>4, <1>5

-----------------------------------------------------------------------------
\* Each part of the invariant is preserved by every step.

LEMMA AudioPreserved == ASSUME IInv, Next PROVE AudioInv'
<1>1. AudioInv /\ generation \in Nat /\ currentGeneration \in Nat
  BY DEF IInv, TypeOK, SessionTypeOK
<1>2. CASE UNCHANGED audioVars
  <2>1. AudioTypeOK'
    BY <1>1, <1>2 DEF AudioInv, AudioTypeOK, audioVars
  <2> QED
    BY <1>1, <1>2, <2>1, SameFrames DEF audioVars
<1>3. CASE StartReady
  BY <1>1, <1>3, SetValidGenerationInv DEF StartReady
<1>4. CASE InterruptValidity \/ ShutdownValidity
  BY <1>1, <1>4, SetValidGenerationInv DEF InterruptValidity, ShutdownValidity
<1>5. CASE InterruptAudio \/ ShutdownAudio
  BY <1>1, <1>5, ClearAudioInv DEF InterruptAudio, ShutdownAudio
<1>6. CASE StopDevice
  BY <1>1, <1>6, StopAudioInv DEF StopDevice
<1>7. CASE EnqueueClip
  <2>1. job \in Jobs /\ pcm \in Nat \ {0}
    BY <1>7 DEF IInv, TypeOK, SynthesisTypeOK, SynthesisInv, EnqueueClip
  <2>2. [generation |-> job.generation, frames |-> pcm, text |-> job.text] \in Clips
    BY <2>1 DEF Jobs, Clips
  <2> QED
    BY <1>1, <1>7, <2>2, PushClipInv DEF EnqueueClip
<1>8. CASE CallbackStep
  BY <1>1, <1>8, CallbackBeginInv, CallbackDropCurrentInv, CallbackTakeInv,
    CallbackCopyInv, CallbackEndInv DEF CallbackStep
<1> QED
  BY <1>2, <1>3, <1>4, <1>5, <1>6, <1>7, <1>8, AudioFrame

LEMMA QueuePreserved == ASSUME IInv, Next PROVE QueueTypeOK' /\ QueueBytesExact'
<1>1. /\ jobs \in Seq(Jobs) /\ queueBytes \in Int /\ queueStopped \in BOOLEAN
      /\ QueueBytesExact /\ HaveText(Jobs)
  BY JobsHaveText DEF IInv, TypeOK, QueueTypeOK
<1>2. QueueBytesExact' /\ jobs' \in Seq(Jobs) => queueBytes' \in Int
  BY <1>1, SizesOfType DEF QueueBytesExact, SizesOf
<1>3. CASE UNCHANGED queueVars
  BY <1>1, <1>3 DEF QueueTypeOK, QueueBytesExact, queueVars
<1>4. CASE CommitPush
  <2> DEFINE new == [generation |-> generation, session |-> session,
                     text |-> Phrase, voice |-> currentVoice]
  <2>1. active
    BY <1>4 DEF IInv, SectionInv, CommitPush, Committing, ReaderSections,
      MaintenanceSections
  <2>2. new \in Jobs
    BY <2>1, CutFacts DEF IInv, TypeOK, SessionTypeOK, SectionInv, Jobs
  <2> HIDE DEF new
  <2>3. Push(new) /\ queueStopped' = queueStopped
    BY <1>4 DEF CommitPush, Push, new
  <2> QED
    BY <1>1, <1>2, <2>2, <2>3, PushExact DEF QueueTypeOK
<1>5. CASE InterruptJobs
  <2>1. Cancel(generation) /\ queueStopped' = queueStopped
    BY <1>5 DEF InterruptJobs, InterruptedGeneration, Cancel
  <2>2. \A i \in 1..Len(jobs) : jobs[i].generation = generation
    BY DEF IInv, JobsOfOneSession
  <2>3. jobs' = <<>> /\ QueueBytesExact'
    BY <1>1, <2>1, <2>2, CancelExact
  <2>4. jobs' \in Seq(Jobs)
    BY <2>3, EmptySeq
  <2> QED
    BY <1>1, <1>2, <2>1, <2>3, <2>4 DEF QueueTypeOK
<1>6. CASE ShutdownJobs
  BY <1>1, <1>6 DEF ShutdownJobs, StopQueue, QueueTypeOK, QueueBytesExact
<1>7. CASE TakeJob
  <2>1. Pop /\ queueStopped' = queueStopped
    BY <1>7 DEF TakeJob, Pop
  <2> QED
    BY <1>1, <1>2, <2>1, PopExact DEF QueueTypeOK
<1> QED
  BY <1>3, <1>4, <1>5, <1>6, <1>7, QueueFrame

LEMMA SessionPreserved == ASSUME IInv, Next PROVE SessionTypeOK'
<1> USE DEF SessionTypeOK
<1>1. SessionTypeOK
  BY DEF IInv, TypeOK
<1>2. CASE UNCHANGED <<sessionVars, generations>>
  BY <1>1, <1>2 DEF sessionVars, generations
<1>3. CASE \E s \in Sessions, patch \in Patches : StartBadVoice(s, patch) \/ Start(s, patch)
  <2>1. PICK s \in Sessions, patch \in Patches : StartBadVoice(s, patch) \/ Start(s, patch)
    BY <1>3
  <2>2. currentVoice' \in SessionVoices
    BY <2>1 DEF StartBadVoice, Start, BaseVoice, SessionVoices
  <2>3. CASE StartBadVoice(s, patch)
    BY <1>1, <2>2, <2>3 DEF StartBadVoice, generations
  <2>4. CASE Start(s, patch)
    <3>1. currentGeneration' \in Nat /\ generation' \in Nat
      BY <1>1, <2>4 DEF Start
    <3>2. stopping' = stopping /\ active' = TRUE /\ accepting' = TRUE
          /\ speakingEmitted' = FALSE /\ session' = s
      BY <2>4 DEF Start
    <3> QED
      BY <1>1, <2>2, <3>1, <3>2
  <2> QED
    BY <2>1, <2>3, <2>4
<1>4. CASE \E s \in Sessions : Finish(s)
  BY <1>1, <1>4 DEF Finish, generations
<1>5. CASE (\E s \in Sessions : Interrupt(s)) \/ Shutdown
  BY <1>1, <1>5 DEF Interrupt, Shutdown, sessionVars
<1>6. CASE InterruptAudio
  BY <1>1, <1>6 DEF InterruptAudio, generations
<1>7. CASE \E emitEvent \in BOOLEAN : ShutdownBegin(emitEvent)
  BY <1>1, <1>7 DEF ShutdownBegin, sessionVars
<1>8. CASE ShutdownAudio
  BY <1>1, <1>8 DEF ShutdownAudio, generations
<1>9. CASE DrainFinished
  BY <1>1, <1>9 DEF DrainFinished, generations
<1>10. CASE Announce
  BY <1>1, <1>10 DEF Announce, IsFirstAudio, generations
<1> QED
  BY <1>2, <1>3, <1>4, <1>5, <1>6, <1>7, <1>8, <1>9, <1>10, SessionFrame

LEMMA TextPreserved == ASSUME IInv, Next PROVE TextTypeOK'
<1> USE DEF TextTypeOK
<1>1. TextTypeOK /\ Len(buffer) \in Nat
  BY CutFacts DEF IInv, TypeOK
<1>2. CASE UNCHANGED <<textVars, counters>>
  BY <1>1, <1>2 DEF textVars, counters
<1>3. CASE CommitBlank
  BY <1>1, <1>3, CutFacts DEF CommitBlank
<1>4. CASE CommitPush
  BY <1>1, <1>4, CutFacts DEF CommitPush, counters
<1>5. CASE CommitCount
  BY <1>1, <1>5, CutFacts DEF CommitCount
<1>6. pushed > 0 => Committing
  BY DEF IInv, SectionInv
<1>7. CASE \E s \in Sessions, patch \in Patches : Start(s, patch)
  <2>1. /\ buffer' = <<>> /\ idle' = FALSE /\ pushed' = pushed
        /\ outstanding' = outstanding /\ ownedBytes' = ownedBytes
    BY <1>7 DEF Start, counters
  <2>2. pushed = 0
    BY <1>1, <1>6, <1>7 DEF Start, CanHandle, Committing
  <2>3. buffer' \in Seq(STRING) /\ pushed' \in 0..Len(buffer')
    BY <2>1, <2>2, EmptyText
  <2>4. idle' \in BOOLEAN
    BY <2>1
  <2> QED
    BY <1>1, <2>1, <2>3, <2>4
<1>8. CASE \E s \in Sessions, text \in Texts : AppendText(s, text)
  <2>1. PICK text \in Texts : /\ buffer' = buffer \o text
                             /\ ownedBytes' = ownedBytes + Len(text)
                             /\ idle' = FALSE
                             /\ UNCHANGED <<pushed, outstanding>>
    BY <1>8 DEF AppendText
  <2>2. text \in Seq(STRING) /\ Len(text) \in Nat
    BY RuntimeAssumption, LenProperties
  <2>3. buffer' \in Seq(STRING) /\ Len(buffer') = Len(buffer) + Len(text)
    BY <1>1, <2>1, <2>2, ConcatProperties
  <2>4. pushed' \in 0..Len(buffer')
    BY <1>1, <2>1, <2>2, <2>3
  <2>5. outstanding' \in Int /\ ownedBytes' \in Int
    BY <1>1, <2>1, <2>2
  <2>6. idle' \in BOOLEAN
    BY <2>1
  <2> QED
    BY <2>3, <2>4, <2>5, <2>6
<1>9. CASE InterruptValidity \/ ShutdownAudio
  <2>1. /\ buffer' = <<>> /\ idle' = idle /\ pushed' = pushed
        /\ outstanding' = outstanding /\ ownedBytes' \in Int
    BY <1>1, <1>9 DEF InterruptValidity, ShutdownAudio, counters
  <2>2. pushed = 0
    BY <1>1, <1>6, <1>9 DEF InterruptValidity, ShutdownAudio, Committing
  <2> QED
    BY <1>1, <2>1, <2>2, EmptyText
<1>10. CASE InterruptJobs
  <2>1. CancelledBytes(generation) \in Int /\ CancelledJobs(generation) \in Int
    <3>1. CancelledBytes(generation) = queueBytes /\ CancelledJobs(generation) = Len(jobs)
      BY <1>10, CancelExact, JobsHaveText
      DEF IInv, TypeOK, QueueTypeOK, JobsOfOneSession, InterruptJobs, InterruptedGeneration
    <3> QED
      BY <3>1, LenProperties DEF IInv, TypeOK, QueueTypeOK
  <2> QED
    BY <1>1, <1>10, <2>1 DEF InterruptJobs, InterruptedGeneration, textVars
<1>11. CASE Tick
  BY <1>1, <1>11 DEF Tick, counters
<1>12. CASE Retire
  <2>1. Len(job.text) \in Nat
    BY EmptyText, JobsHaveText DEF IInv, TypeOK, SynthesisTypeOK, HaveText, NoJob
  <2> QED
    BY <1>1, <1>12, <2>1 DEF Retire, textVars
<1> QED
  BY <1>2, <1>3, <1>4, <1>5, <1>7, <1>8, <1>9, <1>10, <1>11, <1>12, TextFrame

LEMMA SynthesisPreserved == ASSUME IInv, Next PROVE SynthesisTypeOK' /\ SynthesisInv'
<1> USE DEF SynthesisTypeOK, SynthesisInv
<1>1. SynthesisTypeOK /\ SynthesisInv
  BY DEF IInv, TypeOK
<1>2. CASE UNCHANGED synthesisVars
  BY <1>1, <1>2 DEF synthesisVars
<1>3. CASE TakeJob
  <2>1. job' \in Jobs
    BY <1>3, HeadTailProperties DEF IInv, TypeOK, QueueTypeOK, TakeJob, Pop
  <2>2. job' # NoJob
    BY <2>1 DEF Jobs, NoJob
  <2> QED
    BY <1>1, <1>3, <2>1, <2>2 DEF TakeJob
<1>4. CASE SynthesisEnds \/ CheckBefore \/ SynthesizeThrows \/ CheckFailure \/ Report
  BY <1>1, <1>4 DEF SynthesisEnds, CheckBefore, SynthesizeThrows, CheckFailure, Report,
    SynthesisGoes, synthesisVars
<1>5. CASE Synthesize
  <2>1. synthesis = "synthesize" /\ synthesis' = "synthesized" /\ job' = job
    BY <1>5 DEF Synthesize, SynthesisGoes
  <2>2. pcm' \in FrameCounts \cup {0}
    <3>1. PICK frames \in FrameCounts \cup (IF Sayable(job.text) THEN {} ELSE {0}) :
            pcm' = frames
      BY <1>5 DEF Synthesize
    <3> QED
      BY <3>1
  <2>3. FrameCounts \subseteq Nat \ {0}
    BY RuntimeAssumption
  <2>4. pcm' \in Nat
    BY <2>2, <2>3
  <2> QED
    BY <1>1, <2>1, <2>4
<1>6. CASE CheckAfter \/ EnqueueTest \/ EnqueueClip \/ EnqueueFull \/ Announce
  BY <1>1, <1>6 DEF CheckAfter, EnqueueTest, EnqueueClip, EnqueueFull, Announce,
    SynthesisGoes
<1>7. CASE Retire
  BY <1>1, <1>7 DEF Retire
<1> QED
  BY <1>2, <1>3, <1>4, <1>5, <1>6, <1>7, SynthesisFrame DEF SynthesisStep

LEMMA ThreadPreserved == ASSUME IInv, Next PROVE ThreadTypeOK'
<1> USE DEF ThreadTypeOK, ReaderSections, MaintenanceSections
<1>1. ThreadTypeOK
  BY DEF IInv, TypeOK
<1>2. CASE Client
  BY <1>1, <1>2 DEF Client, Command, StartRejected, StartBadVoice, Start,
    MismatchRejected, AppendBackpressure, AppendText, Finish, InterruptRejected,
    Interrupt, ShutdownBegin, Reject
<1>3. CASE ReaderStep
  BY <1>1, <1>3 DEF ReaderStep, ReaderCommit, Commit, CommitBlank, CommitPush,
    CommitCount, StartReady, AppendDone, FinishDone, InterruptValidity, InterruptJobs,
    InterruptAudio, Shutdown, ShutdownValidity, ShutdownAudio, ShutdownJobs, Join,
    StopDevice
<1>4. CASE MaintenanceStep
  BY <1>1, <1>4 DEF MaintenanceStep, MaintenanceCommit, Commit, CommitBlank, CommitPush,
    CommitCount, Wake, FlushIdle, Drain, NothingToDo, MaintainSection, FlushDone,
    DrainPending, DrainCounted, DrainPlaying, DrainFinished, Leave
<1>5. CASE SynthesisStep
  BY <1>1, <1>5 DEF SynthesisStep, TakeJob, SynthesisEnds, CheckBefore, Synthesize,
    SynthesizeThrows, CheckAfter, EnqueueTest, EnqueueClip, EnqueueFull, Announce,
    CheckFailure, Report, Retire, SynthesisGoes
<1>6. CASE CallbackStep \/ Tick \/ Terminated
  BY <1>1, <1>6 DEF CallbackStep, Tick, Terminated
<1> QED
  BY <1>2, <1>3, <1>4, <1>5, <1>6 DEF Next

LEMMA EventPreserved == ASSUME IInv, Next PROVE EventTypeOK'
<1>1. session \in Sessions \cup {NoSession}
  BY DEF IInv, TypeOK, SessionTypeOK
<1>2. job.session \in Sessions \cup {NoSession}
  BY DEF IInv, TypeOK, SynthesisTypeOK, Jobs, NoJob
<1>3. Quiet => EventTypeOK'
  BY DEF EventTypeOK, EventTypes, Quiet, NoEvent
<1>4. \A type \in EventTypes, s \in Sessions \cup {NoSession} : Emit(type, s) => EventTypeOK'
  BY DEF EventTypeOK, Emit
<1>5. CASE Client
  BY <1>1, <1>3, <1>4, <1>5 DEF EventTypes, Client, Command, StartRejected, StartBadVoice, Start,
    MismatchRejected, AppendBackpressure, AppendText, Finish, InterruptRejected,
    Interrupt, ShutdownBegin, Reject
<1>6. CASE ReaderStep
  BY <1>1, <1>3, <1>4, <1>6 DEF EventTypes, ReaderStep, ReaderCommit, Commit, CommitBlank, CommitPush,
    CommitCount, StartReady, AppendDone, FinishDone, InterruptValidity, InterruptJobs,
    InterruptAudio, Shutdown, ShutdownValidity, ShutdownAudio, ShutdownJobs, Join,
    StopDevice
<1>7. CASE MaintenanceStep
  BY <1>1, <1>3, <1>4, <1>7 DEF EventTypes, MaintenanceStep, MaintenanceCommit, Commit, CommitBlank, CommitPush,
    CommitCount, Wake, FlushIdle, Drain, NothingToDo, MaintainSection, FlushDone,
    DrainPending, DrainCounted, DrainPlaying, DrainFinished, Leave
<1>8. CASE SynthesisStep
  BY <1>1, <1>2, <1>3, <1>4, <1>8 DEF EventTypes, SynthesisStep, TakeJob, SynthesisEnds, CheckBefore,
    Synthesize, SynthesizeThrows, CheckAfter, EnqueueTest, EnqueueClip, EnqueueFull,
    Announce, CheckFailure, Report, Retire, SynthesisGoes
<1>9. CASE CallbackStep \/ Tick \/ Terminated
  BY <1>3, <1>4, <1>9 DEF CallbackStep, Tick, Terminated
<1> QED
  BY <1>5, <1>6, <1>7, <1>8, <1>9 DEF Next

LEMMA SectionPreserved == ASSUME IInv, Next PROVE SectionInv'
<1> USE DEF SectionInv, ReaderSections, MaintenanceSections, Committing
<1>1. /\ SectionInv /\ pushed \in Nat
      /\ currentGeneration \in Nat /\ active \in BOOLEAN
  BY CutFacts DEF IInv, TypeOK, TextTypeOK, SessionTypeOK
<1>2. CASE Client
  BY <1>1, <1>2 DEF Client, Command, StartRejected, StartBadVoice, Start,
    MismatchRejected, AppendBackpressure, AppendText, Finish, InterruptRejected,
    Interrupt, ShutdownBegin, Reject, CanHandle, Receives, queueVars, sessionVars,
    textVars
<1>3. CASE Commit
  BY <1>1, <1>3, CutFacts DEF Commit, CommitBlank, CommitPush, CommitCount, Push,
    queueVars, sessionVars
<1>4. CASE ReaderStep /\ ~ReaderCommit
  BY <1>1, <1>4 DEF ReaderStep, StartReady, AppendDone, FinishDone, InterruptValidity,
    InterruptJobs, Cancel, InterruptAudio, Shutdown, ShutdownValidity, ShutdownAudio,
    ShutdownJobs, StopQueue, Join, StopDevice, Committed, queueVars, sessionVars, textVars
<1>5. CASE MaintenanceStep /\ ~MaintenanceCommit
  BY <1>1, <1>5 DEF MaintenanceStep, Wake, FlushIdle, WantsFlush, Drain, WantsDrain,
    NothingToDo, MaintainSection, FlushDone, DrainPending, DrainCounted, DrainPlaying,
    DrainFinished, Leave, Committed, queueVars, sessionVars, textVars
<1>6. CASE SynthesisStep
  BY <1>1, <1>6 DEF SynthesisStep, TakeJob, Pop, SynthesisEnds, CheckBefore, Synthesize,
    SynthesizeThrows, CheckAfter, EnqueueTest, EnqueueClip, EnqueueFull, Announce,
    CheckFailure, Report, Retire, SynthesisGoes, queueVars, sessionVars, textVars
<1>7. CASE CallbackStep \/ Tick \/ Terminated
  BY <1>1, <1>7 DEF CallbackStep, Tick, Terminated, queueVars, sessionVars, textVars
<1> QED
  BY <1>2, <1>3, <1>4, <1>5, <1>6, <1>7
  DEF Next, ReaderStep, MaintenanceStep, ReaderCommit, MaintenanceCommit

\* What interrupt takes from the queue is all there is.
LEMMA InterruptEmpties ==
  ASSUME IInv, InterruptJobs
  PROVE  /\ jobs' = <<>> /\ queueBytes' = 0
         /\ ownedBytes' = ownedBytes - queueBytes
         /\ outstanding' = outstanding - Len(jobs)
<1>1. /\ jobs \in Seq(Jobs) /\ queueBytes \in Int /\ QueueBytesExact /\ HaveText(Jobs)
      /\ \A i \in 1..Len(jobs) : jobs[i].generation = generation
      /\ Cancel(generation)
  BY JobsHaveText
  DEF IInv, TypeOK, QueueTypeOK, JobsOfOneSession, InterruptJobs, InterruptedGeneration
<1>2. /\ jobs' = <<>>
      /\ CancelledJobs(generation) = Len(jobs) /\ CancelledBytes(generation) = queueBytes
  BY <1>1, CancelExact
<1> QED
  BY <1>1, <1>2 DEF InterruptJobs, InterruptedGeneration, Cancel

\* The numbers the counters are made of.
LEMMA CounterTypes ==
  ASSUME IInv
  PROVE  /\ Len(buffer) \in Nat /\ pushed \in 0..Len(buffer)
         /\ queueBytes \in Nat /\ Len(jobs) \in Nat
         /\ Len(job.text) \in Nat /\ (job = NoJob => Len(job.text) = 0)
         /\ outstanding \in Int /\ ownedBytes \in Int
<1>1. Len(buffer) \in Nat /\ pushed \in 0..Len(buffer)
  BY CutFacts DEF IInv, TypeOK, TextTypeOK
<1>2. queueBytes \in Nat /\ Len(jobs) \in Nat
  BY SizesOfType, LenProperties, JobsHaveText
  DEF IInv, TypeOK, QueueTypeOK, QueueBytesExact, SizesOf
<1>3. Len(job.text) \in Nat /\ (job = NoJob => Len(job.text) = 0)
  BY EmptyText, JobsHaveText DEF IInv, TypeOK, SynthesisTypeOK, HaveText, NoJob
<1> QED
  BY <1>1, <1>2, <1>3 DEF IInv, TypeOK, TextTypeOK

\* The synthesis thread takes a phrase: it had none, and this one is counted.
LEMMA TakeFacts ==
  ASSUME IInv, TakeJob
  PROVE  /\ job = NoJob /\ job' \in Jobs /\ job' # NoJob
         /\ job' = Head(jobs) /\ job'.generation = generation
         /\ jobs' = Tail(jobs) /\ Len(jobs') = Len(jobs) - 1 /\ Len(jobs) > 0
         /\ queueBytes' = queueBytes - Len(job'.text) /\ Len(job'.text) \in Nat
<1>1. /\ jobs \in Seq(Jobs) /\ jobs # <<>> /\ job' = Head(jobs) /\ jobs' = Tail(jobs)
      /\ queueBytes' = queueBytes - Len(job'.text)
  BY DEF IInv, TypeOK, QueueTypeOK, TakeJob, Pop
<1>2. /\ job' \in Jobs /\ Len(jobs) \in Nat /\ Len(jobs) > 0
      /\ Head(jobs) = jobs[1] /\ Len(jobs') = Len(jobs) - 1
  BY <1>1, HeadTailProperties, LenProperties, EmptySeq
<1>3. job' # NoJob
  BY <1>2 DEF Jobs, NoJob
<1>4. job'.generation = generation
  BY <1>1, <1>2 DEF IInv, JobsOfOneSession
<1>5. job = NoJob
  BY DEF IInv, SynthesisInv, TakeJob
<1>6. Len(job'.text) \in Nat
  BY <1>2, JobsHaveText DEF HaveText
<1> QED
  BY <1>1, <1>2, <1>3, <1>4, <1>5, <1>6

LEMMA GenerationPreserved == ASSUME IInv, Next PROVE GenerationInv'
<1> USE DEF GenerationInv, Interrupting
<1>1. /\ GenerationInv /\ generation \in Nat /\ currentGeneration \in Nat
      /\ job.generation \in Nat
  BY DEF IInv, TypeOK, SessionTypeOK, SynthesisTypeOK, Jobs, NoJob
<1>2. UNCHANGED <<generation, currentGeneration>>
      \/ (\E s \in Sessions, patch \in Patches : Start(s, patch))
      \/ (\E s \in Sessions : Interrupt(s)) \/ Shutdown
  BY SessionFrame DEF sessionVars, generations, StartBadVoice, Finish, InterruptAudio,
    ShutdownBegin, ShutdownAudio, DrainFinished, Announce
<1>3. CASE \E s \in Sessions, patch \in Patches : Start(s, patch)
  BY <1>1, <1>3 DEF Start, synthesisVars
<1>4. CASE (\E s \in Sessions : Interrupt(s)) \/ Shutdown
  BY <1>1, <1>4 DEF Interrupt, Shutdown, sessionVars, synthesisVars
<1>5. CASE UNCHANGED <<generation, currentGeneration>>
  <2>1. Interrupting' => Interrupting \/ Interrupt(session)
    <3>1. CASE Client
      BY <3>1 DEF Client, Command, StartRejected, StartBadVoice, Start, MismatchRejected,
        AppendBackpressure, AppendText, Finish, InterruptRejected, Interrupt,
        ShutdownBegin, Reject
    <3>2. CASE ReaderStep
      BY <3>2 DEF ReaderStep, ReaderCommit, Commit, CommitBlank, CommitPush, CommitCount,
        StartReady, AppendDone, FinishDone, InterruptValidity, InterruptJobs,
        InterruptAudio, Shutdown, ShutdownValidity, ShutdownAudio, ShutdownJobs, Join,
        StopDevice
    <3>3. CASE MaintenanceStep
      BY <3>3 DEF MaintenanceStep, MaintenanceCommit, Commit, CommitBlank, CommitPush,
        CommitCount, Wake, FlushIdle, Drain, NothingToDo, MaintainSection, FlushDone,
        DrainPending, DrainCounted, DrainPlaying, DrainFinished, Leave
    <3>4. CASE SynthesisStep
      BY <3>4 DEF SynthesisStep, TakeJob, SynthesisEnds, CheckBefore, Synthesize,
        SynthesizeThrows, CheckAfter, EnqueueTest, EnqueueClip, EnqueueFull, Announce,
        CheckFailure, Report, Retire, SynthesisGoes
    <3>5. CASE CallbackStep \/ Tick \/ Terminated
      BY <3>5 DEF CallbackStep, Tick, Terminated
    <3> QED
      BY <3>1, <3>2, <3>3, <3>4, <3>5 DEF Next
  <2>2. ~Interrupt(session)
    BY <1>1, <1>5 DEF Interrupt
  <2>3. job'.generation <= generation
    BY <1>1, JobFrame, TakeFacts DEF Retire, NoJob
  <2> QED
    BY <1>1, <1>5, <2>1, <2>2, <2>3
<1> QED
  BY <1>2, <1>3, <1>4, <1>5

LEMMA OwnedPreserved == ASSUME IInv, Next PROVE OwnedAccounted'
<1> USE DEF OwnedAccounted
<1>1. OwnedAccounted /\ SectionInv /\ SynthesisInv /\ TextTypeOK
  BY DEF IInv, TypeOK
<1>2. /\ kMaximumPendingTextBytes \in Nat /\ ownedBytes \in Int
      /\ Len(buffer) \in Nat /\ pushed \in Nat /\ queueBytes \in Nat
      /\ Len(job.text) \in Nat
  BY PendingTextAssumption, CounterTypes
<1>3. CASE ShutdownAudio
  <2>1. pushed = 0
    BY <1>1, <1>3, CounterTypes DEF SectionInv, Committing, ShutdownAudio
  <2>2. /\ ownedBytes' = ownedBytes /\ buffer' = <<>> /\ pushed' = pushed
        /\ queueBytes' = queueBytes /\ job' = job /\ reader' = "stop_jobs"
    BY <1>3 DEF ShutdownAudio, counters, queueVars, synthesisVars
  <2> QED
    BY <1>1, <2>1, <2>2, CounterTypes, EmptyText
<1>4. CASE ~ShutdownAudio
  <2> DEFINE owned == Len(buffer) - pushed + queueBytes + Len(job.text)
  <2>1. /\ owned \in Int /\ ownedBytes \in Int
        /\ ownedBytes <= kMaximumPendingTextBytes
    BY <1>1, CounterTypes
  <2>2. SUFFICES /\ ownedBytes' - owned' = ownedBytes - owned
                 /\ owned' \in Int /\ ownedBytes' \in Int
                 /\ ownedBytes' <= kMaximumPendingTextBytes
    <3> HIDE DEF owned
    <3>1. reader' \in {"serving", "shutdown"} <=> reader \in {"serving", "shutdown"}
      BY <1>4, ReaderFrame
    <3> QED
      BY <1>1, <2>1, <3>1 DEF owned
  <2>3. CASE UNCHANGED <<buffer, pushed, outstanding, ownedBytes, queueBytes, jobs, job>>
    BY <1>1, <2>1, <2>3
  <2>4. CASE CommitBlank
    <3>1. /\ buffer' = Rest(NextBytes) /\ ownedBytes' = ownedBytes - NextBytes
          /\ UNCHANGED <<pushed, queueBytes, job>>
      BY <2>4 DEF CommitBlank, queueVars, synthesisVars
    <3>2. NextBytes \in Nat /\ Len(buffer') = Len(buffer) - NextBytes
      BY <1>1, <3>1, CutFacts
    <3>3. owned' = owned - NextBytes
      BY <1>2, <3>1, <3>2
    <3> HIDE DEF owned
    <3> QED
      BY <1>2, <2>1, <3>1, <3>2, <3>3
  <2>5. CASE CommitPush
    <3>1. /\ buffer' = buffer /\ ownedBytes' = ownedBytes /\ job' = job
          /\ pushed = 0 /\ pushed' = NextBytes
          /\ queueBytes' = queueBytes + Len(Phrase)
      BY <2>5 DEF CommitPush, Push, counters, synthesisVars
    <3>2. Len(Phrase) = NextBytes /\ NextBytes \in Nat
      BY <1>1, CutFacts
    <3>3. owned' = owned
      BY <3>1, <3>2, CounterTypes
    <3> HIDE DEF owned
    <3> QED
      BY <2>1, <3>1, <3>3
  <2>6. CASE CommitCount
    <3>1. /\ buffer' = Rest(pushed) /\ pushed' = 0
          /\ UNCHANGED <<ownedBytes, queueBytes, job>>
      BY <2>6 DEF CommitCount, queueVars, synthesisVars
    <3>2. Len(buffer') = Len(buffer) - pushed
      BY <1>1, <3>1, CounterTypes, CutFacts
    <3>3. owned' = owned
      BY <3>1, <3>2, CounterTypes
    <3> HIDE DEF owned
    <3> QED
      BY <2>1, <3>1, <3>3
  <2>7. CASE \E s \in Sessions, patch \in Patches : Start(s, patch)
    <3>1. buffer = <<>>
      BY <2>7 DEF IInv, JobsOfOneSession, Start, CanHandle
    <3> QED
      BY <1>1, <2>7, <3>1, CounterTypes DEF Start, counters, queueVars, synthesisVars
  <2>8. CASE \E s \in Sessions, text \in Texts : AppendText(s, text)
    <3>1. PICK text \in Texts : /\ buffer' = buffer \o text
                               /\ ownedBytes' = ownedBytes + Len(text)
                               /\ HasCapacity(text)
                               /\ UNCHANGED <<pushed, queueBytes, job>>
      BY <2>8 DEF AppendText, queueVars, synthesisVars
    <3>2. text \in Seq(STRING) /\ Len(text) \in Nat
      BY RuntimeAssumption, LenProperties
    <3>3. Len(buffer') = Len(buffer) + Len(text)
      BY <1>1, <3>1, <3>2, ConcatProperties DEF TextTypeOK
    <3>4. ownedBytes' <= kMaximumPendingTextBytes
      BY <1>1, <1>2, <3>1, <3>2, CounterTypes DEF HasCapacity, Lesser
    <3>5. pushed' = pushed /\ queueBytes' = queueBytes /\ Len(job'.text) = Len(job.text)
      BY <3>1
    <3>6. owned' = owned + Len(text)
      BY <3>2, <3>3, <3>5, CounterTypes
    <3> HIDE DEF owned
    <3> QED
      BY <2>1, <3>1, <3>2, <3>4, <3>6
  <2>9. CASE InterruptValidity
    <3>1. pushed = 0
      BY <1>1, <2>9, CounterTypes DEF SectionInv, Committing, InterruptValidity
    <3>2. /\ ownedBytes' = ownedBytes - Len(buffer) /\ buffer' = <<>>
          /\ UNCHANGED <<pushed, queueBytes, job>>
      BY <2>9 DEF InterruptValidity, queueVars, synthesisVars
    <3>3. Len(buffer') = 0
      BY <3>2, EmptyText
    <3>4. pushed' = pushed /\ queueBytes' = queueBytes /\ Len(job'.text) = Len(job.text)
      BY <3>2
    <3>5. owned' = owned - Len(buffer)
      BY <3>1, <3>3, <3>4, CounterTypes
    <3> HIDE DEF owned
    <3> QED
      BY <1>2, <2>1, <3>2, <3>5
  <2>10. CASE InterruptJobs
    <3>1. UNCHANGED <<buffer, pushed, job>>
      BY <2>10 DEF InterruptJobs, textVars, synthesisVars
    <3>2. owned' = owned - queueBytes
      BY <2>10, <3>1, CounterTypes, InterruptEmpties
    <3>3. ownedBytes' = ownedBytes - queueBytes /\ queueBytes \in Nat
      BY <2>10, CounterTypes, InterruptEmpties
    <3> HIDE DEF owned
    <3> QED
      BY <1>2, <2>1, <3>2, <3>3
  <2>11. CASE TakeJob
    <3>1. UNCHANGED <<buffer, pushed, ownedBytes>>
      BY <2>11 DEF TakeJob, textVars, counters
    <3>2. owned' = owned
      BY <2>11, <3>1, CounterTypes, TakeFacts
    <3> QED
      BY <1>1, <2>1, <3>1, <3>2
  <2>12. CASE Retire
    <3>1. /\ ownedBytes' = ownedBytes - Len(job.text) /\ job' = NoJob
          /\ UNCHANGED <<buffer, pushed, queueBytes>>
      BY <2>12 DEF Retire, textVars, queueVars
    <3>2. Len(job'.text) = 0
      BY <3>1, EmptyText DEF NoJob
    <3>3. owned' = owned - Len(job.text)
      BY <3>1, <3>2, CounterTypes
    <3>4. Len(job.text) \in Nat
      BY CounterTypes
    <3> HIDE DEF owned
    <3> QED
      BY <1>2, <2>1, <3>1, <3>3, <3>4
  <2> QED
    BY <1>4, <2>3, <2>4, <2>5, <2>6, <2>7, <2>8, <2>9, <2>10, <2>11, <2>12, CountersFrame
<1> QED
  BY <1>3, <1>4

LEMMA OutstandingPreserved == ASSUME IInv, Next PROVE OutstandingAccounted'
<1> USE DEF OutstandingAccounted, HeldJobs, UncountedJobs
<1>1. OutstandingAccounted /\ SynthesisInv /\ TextTypeOK
  BY DEF IInv, TypeOK
<1>2. CASE UNCHANGED <<buffer, pushed, outstanding, ownedBytes, queueBytes, jobs, job>>
  BY <1>1, <1>2
<1>3. CASE CommitPush
  <2>1. /\ outstanding' = outstanding /\ job' = job
        /\ pushed = 0 /\ pushed' = NextBytes /\ NextBytes > 0
        /\ jobs' = Append(jobs, [generation |-> generation, session |-> session,
                                 text |-> Phrase, voice |-> currentVoice])
    BY <1>3 DEF CommitPush, Push, counters, synthesisVars
  <2>2. Len(jobs') = Len(jobs) + 1
    BY <2>1, AppendProperties DEF IInv, TypeOK, QueueTypeOK
  <2> QED
    BY <1>1, <2>1, <2>2, CounterTypes
<1>4. CASE CommitCount
  BY <1>1, <1>4, CounterTypes DEF CommitCount, queueVars, synthesisVars
<1>5. CASE InterruptValidity \/ CommitBlank \/ ShutdownAudio
           \/ (\E s \in Sessions, patch \in Patches : Start(s, patch))
           \/ (\E s \in Sessions, text \in Texts : AppendText(s, text))
  BY <1>1, <1>5 DEF InterruptValidity, CommitBlank, ShutdownAudio, Start, AppendText,
    counters, queueVars, synthesisVars
<1>6. CASE InterruptJobs
  <2>1. pushed = 0
    BY <1>6, CounterTypes DEF IInv, SectionInv, Committing, InterruptJobs
  <2>2. UNCHANGED <<pushed, job>>
    BY <1>6 DEF InterruptJobs, textVars, synthesisVars
  <2>3. Len(jobs') = 0 /\ outstanding' = outstanding - Len(jobs)
    BY <1>6, InterruptEmpties, EmptyText
  <2> QED
    BY <1>1, <2>1, <2>2, <2>3, CounterTypes
<1>7. CASE TakeJob
  BY <1>1, <1>7, TakeFacts, CounterTypes DEF TakeJob, textVars, counters
<1>8. CASE Retire
  <2>1. job # NoJob
    BY <1>1, <1>8 DEF SynthesisInv, Retire
  <2> QED
    BY <1>1, <1>8, <2>1, CounterTypes DEF Retire, textVars, queueVars
<1> QED
  BY <1>2, <1>3, <1>4, <1>5, <1>6, <1>7, <1>8, CountersFrame

LEMMA EmptiedPreserved == ASSUME IInv, Next PROVE EmptiedInv'
<1> USE DEF EmptiedInv
<1>1. EmptiedInv /\ SectionInv
  BY DEF IInv
<1>2. CASE section' = section
  <2>1. SUFFICES ASSUME section \in {"interrupt_jobs", "interrupt_audio", "drained"}
                 PROVE  EmptiedInv'
    BY <1>2
  <2>2. UNCHANGED <<buffer, jobs, job>> \/ TakeJob \/ Retire
    BY <1>1, <1>2, <2>1, CountersFrame DEF CommitBlank, CommitPush, CommitCount,
      SectionInv, Committing, Start, AppendText, CanHandle, InterruptValidity,
      InterruptJobs, ShutdownAudio
  <2>3. UNCHANGED <<buffer, jobs, job>> \/ section = "interrupt_jobs"
          \/ (UNCHANGED <<buffer, jobs>> /\ section = "interrupt_audio")
    BY <1>1, <2>1, <2>2 DEF TakeJob, Pop, Retire, IInv, SynthesisInv, queueVars, textVars
  <2>4. UNCHANGED buffer
    BY <2>2 DEF TakeJob, Retire, textVars
  <2> QED
    BY <1>1, <1>2, <2>1, <2>3, <2>4
<1>3. CASE section' # section
  <2>1. section' \notin {"interrupt_jobs", "interrupt_audio", "drained"}
          \/ InterruptValidity \/ InterruptJobs \/ DrainCounted
    <3>1. CASE Client
      BY <3>1 DEF Client, Command, StartRejected, StartBadVoice, Start, MismatchRejected,
        AppendBackpressure, AppendText, Finish, InterruptRejected, Interrupt,
        ShutdownBegin, Reject, CanHandle
    <3>2. CASE ReaderStep
      BY <1>3, <3>2 DEF ReaderStep, ReaderCommit, Commit, CommitBlank, CommitPush,
        CommitCount, StartReady, AppendDone, FinishDone, InterruptAudio, Shutdown,
        ShutdownValidity, ShutdownAudio, ShutdownJobs, Join, StopDevice
    <3>3. CASE MaintenanceStep
      BY <1>3, <3>3 DEF MaintenanceStep, MaintenanceCommit, Commit, CommitBlank,
        CommitPush, CommitCount, Wake, FlushIdle, Drain, NothingToDo, MaintainSection,
        FlushDone, DrainPending, DrainPlaying, DrainFinished, Leave
    <3>4. CASE SynthesisStep
      BY <1>3, <3>4 DEF SynthesisStep, TakeJob, SynthesisEnds, CheckBefore, Synthesize,
        SynthesizeThrows, CheckAfter, EnqueueTest, EnqueueClip, EnqueueFull, Announce,
        CheckFailure, Report, Retire, SynthesisGoes
    <3>5. CASE CallbackStep \/ Tick \/ Terminated
      BY <1>3, <3>5 DEF CallbackStep, Tick, Terminated
    <3> QED
      BY <3>1, <3>2, <3>3, <3>4, <3>5 DEF Next
  <2>2. CASE section' \notin {"interrupt_jobs", "interrupt_audio", "drained"}
    BY <2>2
  <2>3. CASE InterruptValidity
    BY <2>3 DEF InterruptValidity
  <2>4. CASE InterruptJobs
    BY <1>1, <2>4, InterruptEmpties DEF InterruptJobs, textVars
  <2>5. CASE DrainCounted
    <3>1. buffer = <<>> /\ pushed = 0 /\ outstanding = 0 /\ section' = "drained"
          /\ UNCHANGED <<buffer, jobs, job>>
      BY <2>5 DEF DrainCounted, Committed, textVars, queueVars, synthesisVars
    <3>2. Len(jobs) = 0 /\ job = NoJob
      BY <3>1, CounterTypes DEF IInv, OutstandingAccounted, HeldJobs, UncountedJobs
    <3>3. jobs = <<>>
      BY <3>2, EmptySeq DEF IInv, TypeOK, QueueTypeOK
    <3> QED
      BY <3>1, <3>2, <3>3
  <2> QED
    BY <2>1, <2>2, <2>3, <2>4, <2>5
<1> QED
  BY <1>2, <1>3

\* The first two parts of JobsOfOneSession, about what is queued.
LEMMA QueuedPreserved ==
  ASSUME IInv, Next
  PROVE  /\ \A i \in 1..Len(jobs') : jobs'[i].generation = generation'
         /\ active' => \A i \in 1..Len(jobs') :
              jobs'[i].session = session' /\ jobs'[i].voice = currentVoice'
<1>1. /\ jobs \in Seq(Jobs) /\ Len(jobs) \in Nat
      /\ \A i \in 1..Len(jobs) : jobs[i].generation = generation
      /\ active => \A i \in 1..Len(jobs) :
           jobs[i].session = session /\ jobs[i].voice = currentVoice
  BY CounterTypes DEF IInv, TypeOK, QueueTypeOK, JobsOfOneSession
<1>2. CASE \E s \in Sessions, patch \in Patches : Start(s, patch)
  <2>1. jobs = <<>>
    BY <1>2 DEF IInv, JobsOfOneSession, Start, CanHandle
  <2>2. jobs' = <<>>
    BY <1>2, <2>1 DEF Start, queueVars
  <2> QED
    BY <2>2, EmptyText
<1>3. CASE InterruptJobs
  BY <1>3, InterruptEmpties, EmptyText
<1>4. CASE CommitPush
  <2> DEFINE new == [generation |-> generation, session |-> session,
                     text |-> Phrase, voice |-> currentVoice]
  <2>1. active
    BY <1>4 DEF IInv, SectionInv, CommitPush, Committing, ReaderSections,
      MaintenanceSections
  <2>2. jobs' = Append(jobs, new) /\ UNCHANGED sessionVars
    BY <1>4 DEF CommitPush, Push
  <2>3. /\ new.generation = generation /\ new.session = session
        /\ new.voice = currentVoice
    OBVIOUS
  <2> HIDE DEF new
  <2>4. /\ Len(jobs') = Len(jobs) + 1 /\ jobs'[Len(jobs) + 1] = new
        /\ \A i \in 1..Len(jobs) : jobs'[i] = jobs[i]
    BY <1>1, <2>2, AppendProperties
  <2> QED
    BY <1>1, <2>1, <2>2, <2>3, <2>4 DEF sessionVars
<1>5. CASE TakeJob
  <2>1. /\ Len(jobs') = Len(jobs) - 1
        /\ \A i \in 1..Len(jobs') : jobs'[i] = jobs[i + 1]
    BY <1>1, <1>5, TakeFacts, HeadTailProperties DEF TakeJob, Pop
  <2>2. \A i \in 1..Len(jobs') : i + 1 \in 1..Len(jobs)
    BY <1>1, <2>1
  <2>3. UNCHANGED <<active, generation, session, currentVoice>>
    BY <1>5 DEF TakeJob, sessionVars
  <2> QED
    BY <1>1, <2>1, <2>2, <2>3
<1>6. CASE jobs' = jobs /\ ~\E s \in Sessions, patch \in Patches : Start(s, patch)
  <2>1. generation' = generation
    BY <1>6, SessionFrame DEF sessionVars, StartBadVoice, Finish, Interrupt,
      InterruptAudio, ShutdownBegin, Shutdown, ShutdownAudio, DrainFinished, Announce
  <2>2. active' => active /\ session' = session /\ currentVoice' = currentVoice
    BY <1>6, SessionFrame DEF sessionVars, StartBadVoice, Finish, Interrupt,
      InterruptAudio, ShutdownBegin, Shutdown, ShutdownAudio, DrainFinished, Announce
  <2> QED
    BY <1>1, <1>6, <2>1, <2>2
<1> QED
  BY <1>2, <1>3, <1>4, <1>5, <1>6, QueueFrame DEF queueVars, ShutdownJobs, StopQueue

\* The ways to have no session, in no critical section, before shutdown.
LEMMA ClosedFrame ==
  ASSUME IInv, Next, ~active', section' = "none", reader' = "serving"
  PROVE  \/ ~active /\ section = "none" /\ reader = "serving"
         \/ InterruptAudio \/ DrainFinished
<1> USE DEF SectionInv, ReaderSections, MaintenanceSections
<1>1. SectionInv
  BY DEF IInv
<1>2. CASE Client
  BY <1>1, <1>2 DEF Client, Command, StartRejected, StartBadVoice, Start,
    MismatchRejected, AppendBackpressure, AppendText, Finish, InterruptRejected,
    Interrupt, ShutdownBegin, Reject, CanHandle, sessionVars
<1>3. CASE ReaderStep
  BY <1>1, <1>3 DEF ReaderStep, ReaderCommit, Commit, CommitBlank, CommitPush,
    CommitCount, StartReady, AppendDone, FinishDone, InterruptValidity, InterruptJobs,
    Shutdown, ShutdownValidity, ShutdownAudio, ShutdownJobs, Join, StopDevice, sessionVars
<1>4. CASE MaintenanceStep
  BY <1>1, <1>4 DEF MaintenanceStep, MaintenanceCommit, Commit, CommitBlank, CommitPush,
    CommitCount, Wake, FlushIdle, Drain, NothingToDo, MaintainSection, FlushDone,
    DrainPending, DrainCounted, DrainPlaying, Leave, sessionVars
<1>5. CASE SynthesisStep
  BY <1>1, <1>5 DEF SynthesisStep, TakeJob, SynthesisEnds, CheckBefore, Synthesize,
    SynthesizeThrows, CheckAfter, EnqueueTest, EnqueueClip, EnqueueFull, Announce,
    CheckFailure, Report, Retire, SynthesisGoes, sessionVars
<1>6. CASE CallbackStep \/ Tick \/ Terminated
  BY <1>1, <1>6 DEF CallbackStep, Tick, Terminated, sessionVars
<1> QED
  BY <1>2, <1>3, <1>4, <1>5, <1>6 DEF Next

LEMMA JobsPreserved == ASSUME IInv, Next PROVE JobsOfOneSession'
<1>1. SUFFICES ASSUME ~active', section' = "none", reader' = "serving"
               PROVE  /\ jobs' = <<>> /\ buffer' = <<>>
                      /\ job' # NoJob => job'.generation < currentGeneration'
  BY QueuedPreserved DEF JobsOfOneSession
<1>2. /\ JobsOfOneSession /\ EmptiedInv /\ GenerationInv /\ SectionInv
      /\ generation \in Nat /\ currentGeneration \in Nat /\ job.generation \in Nat
  BY DEF IInv, TypeOK, SessionTypeOK, SynthesisTypeOK, Jobs, NoJob
<1>3. CASE InterruptAudio
  BY <1>2, <1>3 DEF InterruptAudio, EmptiedInv, GenerationInv, Interrupting, queueVars,
    textVars, synthesisVars, generations
<1>4. CASE DrainFinished
  BY <1>2, <1>4 DEF DrainFinished, EmptiedInv, queueVars, textVars, synthesisVars
<1>5. CASE ~active /\ section = "none" /\ reader = "serving"
  <2>1. /\ jobs = <<>> /\ buffer = <<>>
        /\ job # NoJob => job.generation < currentGeneration
    BY <1>2, <1>5 DEF JobsOfOneSession
  <2>2. pushed = 0
    BY <1>2, <1>5, CounterTypes DEF SectionInv, Committing
  <2>3. UNCHANGED <<buffer, jobs, job>> \/ Retire
    BY <1>1, <1>5, <2>1, <2>2, CountersFrame DEF CommitBlank, CommitPush, CommitCount,
      Committing, Start, AppendText, Receives, InterruptValidity, InterruptJobs,
      ShutdownAudio, TakeJob, Pop
  <2>4. currentGeneration' \in {currentGeneration, currentGeneration + 1}
    BY SessionFrame DEF generations, StartBadVoice, Start, Finish, Interrupt,
      InterruptAudio, ShutdownBegin, Shutdown, ShutdownAudio, DrainFinished, Announce
  <2>5. currentGeneration' \in Nat
    BY SessionPreserved DEF SessionTypeOK
  <2> QED
    BY <1>2, <2>1, <2>3, <2>4, <2>5 DEF Retire, textVars, queueVars
<1> QED
  BY <1>1, <1>3, <1>4, <1>5, ClosedFrame

LEMMA VoicePreserved == ASSUME IInv, Next PROVE VoiceOfSession'
<1> USE DEF VoiceOfSession
<1>1. VoiceOfSession
  BY DEF IInv
<1>2. CASE \E s \in Sessions, patch \in Patches : Start(s, patch)
  BY <1>2 DEF Start, BaseVoice
<1>3. CASE ~\E s \in Sessions, patch \in Patches : Start(s, patch)
  <2>1. active' => active /\ currentVoice' = currentVoice
    BY <1>3, SessionFrame DEF sessionVars, StartBadVoice, Finish, Interrupt,
      InterruptAudio, ShutdownBegin, Shutdown, ShutdownAudio, DrainFinished, Announce
  <2> QED
    BY <1>1, <2>1
<1> QED
  BY <1>2, <1>3

-----------------------------------------------------------------------------
\* The theorems.

LEMMA InitIInv == Init => IInv
<1> SUFFICES ASSUME Init PROVE IInv
  OBVIOUS
<1> USE DEF Init, QueueInit
<1>1. AudioInv
  BY AudioInitInv
<1>2. QueueTypeOK /\ QueueBytesExact
  <2>1. queueStopped \in BOOLEAN
    OBVIOUS
  <2>2. jobs \in Seq(Jobs) /\ queueBytes \in Int
    BY EmptySeq
  <2>3. 0 = Total(SizesOf(jobs)) /\ 0 <= kMaximumPendingTextBytes
    BY SizesOfEmpty, PendingTextAssumption
  <2> QED
    BY <2>1, <2>2, <2>3 DEF QueueTypeOK, QueueBytesExact, SizesOf
<1>3. DefaultSettings \in SessionVoices
  BY DEF SessionVoices
<1>4. SessionTypeOK
  <2>1. stopping \in BOOLEAN /\ active \in BOOLEAN /\ accepting \in BOOLEAN
        /\ speakingEmitted \in BOOLEAN
    OBVIOUS
  <2> QED
    BY <1>3, <2>1 DEF SessionTypeOK
<1>5. TextTypeOK
  <2>1. idle \in BOOLEAN
    OBVIOUS
  <2> QED
    BY <2>1, EmptyText DEF TextTypeOK
<1>6. ThreadTypeOK /\ SynthesisTypeOK
  BY DEF ThreadTypeOK, SynthesisTypeOK
<1>7. EventTypeOK
  BY DEF EventTypeOK, EventTypes, NoEvent
<1>8. SectionInv /\ SynthesisInv /\ GenerationInv /\ EmptiedInv
  BY DEF SectionInv, Committing, ReaderSections, MaintenanceSections, SynthesisInv,
    GenerationInv, Interrupting, EmptiedInv, NoJob
<1>9. OwnedAccounted /\ OutstandingAccounted
  BY EmptyText, PendingTextAssumption
  DEF OwnedAccounted, OutstandingAccounted, HeldJobs, UncountedJobs, NoJob
<1>10. JobsOfOneSession
  BY EmptyText DEF JobsOfOneSession
<1>11. VoiceOfSession
  BY DEF VoiceOfSession
<1>12. TypeOK
  BY <1>1, <1>2, <1>4, <1>5, <1>6, <1>7 DEF TypeOK, AudioInv
<1> QED
  BY <1>1, <1>2, <1>8, <1>9, <1>10, <1>11, <1>12 DEF IInv

LEMMA NextIInv == IInv /\ Next => IInv'
<1> SUFFICES ASSUME IInv, Next PROVE IInv'
  OBVIOUS
<1>1. TypeOK'
  BY AudioPreserved, QueuePreserved, SessionPreserved, TextPreserved, ThreadPreserved,
    SynthesisPreserved, EventPreserved DEF TypeOK, AudioInv
<1> QED
  BY <1>1, AudioPreserved, QueuePreserved, SectionPreserved, SynthesisPreserved,
    GenerationPreserved, EmptiedPreserved, OwnedPreserved, OutstandingPreserved,
    JobsPreserved, VoicePreserved DEF IInv

LEMMA StutterIInv == IInv /\ UNCHANGED vars => IInv'
<1> SUFFICES ASSUME IInv, UNCHANGED vars PROVE IInv'
  OBVIOUS
<1>1. /\ UNCHANGED <<jobs, queueBytes, queueStopped>>
      /\ UNCHANGED <<audioQueue, current, currentFrame, queuedFrames, validGeneration,
                     audioStopping, callback>>
      /\ UNCHANGED <<active, accepting, speakingEmitted, currentVoice, generation, session>>
      /\ UNCHANGED <<buffer, idle, pushed, outstanding, ownedBytes>>
      /\ UNCHANGED <<stopping, currentGeneration, section, reader, maintenance>>
      /\ UNCHANGED <<synthesis, job, pcm, event>>
  BY DEF vars, queueVars, audioVars, sessionVars, textVars, counters, generations,
    synthesisVars
<1>2. TypeOK'
  <2>1. TypeOK
    BY DEF IInv
  <2>2. AudioTypeOK' /\ QueueTypeOK'
    BY <1>1, <2>1 DEF TypeOK, AudioTypeOK, QueueTypeOK
  <2>3. SessionTypeOK' /\ TextTypeOK'
    BY <1>1, <2>1 DEF TypeOK, SessionTypeOK, TextTypeOK
  <2>4. ThreadTypeOK' /\ SynthesisTypeOK' /\ EventTypeOK'
    BY <1>1, <2>1 DEF TypeOK, ThreadTypeOK, SynthesisTypeOK, EventTypeOK
  <2> QED
    BY <2>2, <2>3, <2>4 DEF TypeOK
<1>3. AudioInv' /\ QueueBytesExact'
  <2>1. AudioInv /\ QueueBytesExact
    BY DEF IInv
  <2>2. QueueBytesExact'
    BY <1>1, <2>1 DEF QueueBytesExact
  <2>3. AudioTypeOK'
    BY <1>2 DEF TypeOK
  <2> QED
    BY <1>1, <2>1, <2>2, <2>3, SameFrames
<1>4. SectionInv' /\ SynthesisInv' /\ GenerationInv' /\ EmptiedInv'
  BY <1>1 DEF IInv, SectionInv, Committing, SynthesisInv, GenerationInv, Interrupting,
    EmptiedInv
<1>5. OwnedAccounted' /\ OutstandingAccounted' /\ JobsOfOneSession' /\ VoiceOfSession'
  BY <1>1 DEF IInv, OwnedAccounted, OutstandingAccounted, HeldJobs, UncountedJobs,
    JobsOfOneSession, VoiceOfSession
<1> QED
  BY <1>2, <1>3, <1>4, <1>5 DEF IInv

\* The inductive invariant holds in every behaviour.
THEOREM Inductive == Spec => []IInv
<1>1. IInv /\ [Next]_vars => IInv'
  BY NextIInv, StutterIInv
<1> QED
  BY InitIInv, <1>1, PTL DEF Spec

\* Every variable keeps its type, and a phrase that is being queued stays in the
\* buffer until it is counted.
THEOREM TypeCorrect == Spec => []TypeOK
BY Inductive, PTL DEF IInv

\* owned_text_bytes is exact until shutdown throws text away, and never above the
\* capacity, whatever the four threads do in whatever order.
THEOREM OwnedBytesExact == Spec => []OwnedAccounted
BY Inductive, PTL DEF IInv

\* outstanding_jobs counts exactly the jobs between push and retirement, but for
\* the one pushed and not counted yet.
THEOREM OutstandingExact == Spec => []OutstandingAccounted
BY Inductive, PTL DEF IInv

\* JobQueue's byte count is that of its jobs, and within the capacity.
THEOREM QueueExact == Spec => []QueueBytesExact
BY Inductive, PTL DEF IInv

\* AudioOutput's frame count is that of the audio waiting, and within 20 seconds.
THEOREM FramesExact == Spec => []QueuedFramesExact
<1>1. IInv => QueuedFramesExact
  BY DEF IInv, AudioInv
<1> QED
  BY <1>1, Inductive, PTL

\* The queue holds text of one session only, under its name and with its voice,
\* and nothing of a session that has ended.
THEOREM QueueOfOneSession == Spec => []JobsOfOneSession
BY Inductive, PTL DEF IInv

\* A session's voice is the program's with the session's own patch, and none of a
\* patch that was refused.
THEOREM VoiceExact == Spec => []VoiceOfSession
BY Inductive, PTL DEF IInv

\* commit_available_locked is never refused by the queue: a phrase that is cut is
\* always queued.  The bytes in the queue and in the buffer are all owned, and what
\* is owned fits; and the queue is stopped only when no session can commit.
THEOREM NeverRefused == Spec => []PushNeverRefused
<1>1. IInv => PushNeverRefused
  <2> SUFFICES ASSUME IInv, Committing, pushed = 0
               PROVE  ~PushRefused(Phrase)
    BY DEF PushNeverRefused
  <2>1. active /\ reader \in {"serving", "shutdown"} /\ ~queueStopped
    BY DEF IInv, TypeOK, QueueTypeOK, SectionInv, Committing, ReaderSections,
      MaintenanceSections
  <2>2. Len(buffer) + queueBytes + Len(job.text) <= kMaximumPendingTextBytes
    BY <2>1, CounterTypes DEF IInv, OwnedAccounted
  <2>3. Len(Phrase) \in 0..Len(buffer)
    BY CutFacts DEF IInv, TypeOK
  <2>4. queueBytes + Len(Phrase) <= kMaximumPendingTextBytes
    BY <2>2, <2>3, CounterTypes, PendingTextAssumption
  <2> QED
    BY <2>1, <2>3, <2>4, CounterTypes, PendingTextAssumption DEF PushRefused
<1> QED
  BY <1>1, Inductive, PTL

-----------------------------------------------------------------------------
\* Audio is heard in its session only, and announced.  The invariant above knows
\* nothing of the clips: what follows extends it to them.

\* No clip of generation g is there, and none is on its way.
Unheard(g) ==
  /\ HasCurrent => current.generation # g
  /\ \A i \in 1..Len(audioQueue) : audioQueue[i].generation # g
  /\ \A i \in 1..Len(jobs) : jobs[i].generation # g
  /\ job # NoJob => job.generation # g

\* What may be heard of generation g is of the open session, or nothing.
OpenOrUnheard(g) == (active /\ g = generation) \/ Unheard(g)

\* Clips are of the latest session or of an earlier one.
ClipsPast ==
  /\ HasCurrent => current.generation <= generation
  /\ \A i \in 1..Len(audioQueue) : audioQueue[i].generation <= generation

\* A session that is cut short is obsolete to the audio output before the audio
\* is cleared.
Overtaken ==
  /\ section \in {"interrupt_jobs", "interrupt_audio", "shutdown_audio"}
       => generation < validGeneration
  /\ section = "shutdown_valid" => generation < currentGeneration

SoundInv ==
  /\ ClipsPast
  /\ Overtaken
  /\ OpenOrUnheard(validGeneration)
  /\ callback.holds => OpenOrUnheard(callback.valid)
  /\ HeardIsAnnounced

LEMMA SoundTypes ==
  ASSUME IInv
  PROVE  /\ generation \in Nat /\ currentGeneration \in Nat /\ validGeneration \in Nat
         /\ generation <= currentGeneration
         /\ job.generation \in Nat /\ job.generation <= generation
         /\ HasCurrent => current \in Clips /\ current.generation \in Nat
         /\ audioQueue \in Seq(Clips) /\ Len(audioQueue) \in Nat
         /\ \A i \in 1..Len(audioQueue) : audioQueue[i].generation \in Nat
         /\ jobs \in Seq(Jobs) /\ Len(jobs) \in Nat
         /\ \A i \in 1..Len(jobs) : jobs[i].generation = generation
         /\ callback.written \in Nat
<1>1. audioQueue \in Seq(Clips) /\ current \in Clips \cup {NoClip}
  BY DEF IInv, TypeOK, AudioTypeOK
<1>2. Len(audioQueue) \in Nat /\ \A i \in 1..Len(audioQueue) : audioQueue[i] \in Clips
  BY <1>1, LenProperties, ElementOfSeq
<1>3. job.generation \in Nat
  BY DEF IInv, TypeOK, SynthesisTypeOK, Jobs, NoJob
<1>4. callback.written \in Nat
  BY AudioAssumption DEF IInv, TypeOK, AudioTypeOK
<1>5. jobs \in Seq(Jobs) /\ Len(jobs) \in Nat
  BY LenProperties DEF IInv, TypeOK, QueueTypeOK
<1> QED
  BY <1>1, <1>2, <1>3, <1>4, <1>5
  DEF IInv, TypeOK, AudioTypeOK, SessionTypeOK, GenerationInv, JobsOfOneSession, HasCurrent,
    Clips

\* Where clips come from: a clip in the audio output was there before, or is what
\* the synthesis thread had in its hands.
LEMMA ClipOrigins ==
  ASSUME IInv, Next
  PROVE  /\ HasCurrent' =>
              \/ HasCurrent /\ current' = current
              \/ \E k \in 1..Len(audioQueue) : current' = audioQueue[k]
         /\ \A i \in 1..Len(audioQueue') :
              \/ \E k \in 1..Len(audioQueue) : audioQueue'[i] = audioQueue[k]
              \/ /\ EnqueueClip /\ job # NoJob
                 /\ audioQueue'[i].generation = job.generation
<1>1. audioQueue \in Seq(Clips) /\ Len(audioQueue) \in Nat
  BY SoundTypes
<1>2. CASE UNCHANGED <<audioQueue, current>>
  BY <1>1, <1>2 DEF HasCurrent
<1>3. CASE audioQueue' = <<>> /\ current' = NoClip
  BY <1>3, EmptyText DEF HasCurrent
<1>4. CASE EnqueueClip
  <2> DEFINE clip == [generation |-> job.generation, frames |-> pcm, text |-> job.text]
  <2>1. audioQueue' = Append(audioQueue, clip) /\ current' = current
    BY <1>4 DEF EnqueueClip, PushClip
  <2>2. job # NoJob /\ job \in Jobs /\ pcm \in Nat \ {0}
    BY <1>4 DEF EnqueueClip, IInv, SynthesisInv, TypeOK, SynthesisTypeOK
  <2>3. clip.generation = job.generation /\ clip \in Clips
    BY <2>2 DEF Jobs, Clips
  <2> HIDE DEF clip
  <2>4. /\ Len(audioQueue') = Len(audioQueue) + 1
        /\ audioQueue'[Len(audioQueue) + 1] = clip
        /\ \A i \in 1..Len(audioQueue) : audioQueue'[i] = audioQueue[i]
    BY <1>1, <2>1, <2>3, AppendProperties
  <2> QED
    BY <1>1, <1>4, <2>1, <2>2, <2>3, <2>4 DEF HasCurrent
<1>5. CASE CallbackTake
  <2>1. /\ audioQueue # <<>> /\ audioQueue' = Tail(audioQueue)
        /\ current' = current \/ current' = Head(audioQueue)
    BY <1>5 DEF CallbackTake
  <2>2. /\ Len(audioQueue') = Len(audioQueue) - 1 /\ Len(audioQueue) > 0
        /\ Head(audioQueue) = audioQueue[1]
        /\ \A i \in 1..Len(audioQueue') : audioQueue'[i] = audioQueue[i + 1]
    BY <1>1, <2>1, HeadTailProperties, EmptySeq
  <2> QED
    BY <1>1, <2>1, <2>2 DEF HasCurrent
<1>6. CASE audioQueue' = audioQueue /\ current' \in {current, NoClip}
  BY <1>1, <1>6 DEF HasCurrent
<1> QED
  BY <1>2, <1>3, <1>4, <1>5, <1>6, AudioFrame
  DEF audioVars, StartReady, InterruptValidity, InterruptAudio, ShutdownValidity,
    ShutdownAudio, StopDevice, StopAudio, SetValidGeneration, ClearAudio, CallbackStep,
    CallbackBegin, CallbackDropCurrent, CallbackCopy, CallbackEnd

\* And where jobs come from: a job was there before, or is cut from the buffer of
\* the open session.
LEMMA JobOrigins ==
  ASSUME IInv, Next
  PROVE  /\ job' # NoJob => (job # NoJob /\ job' = job) \/ \E k \in 1..Len(jobs) : job' = jobs[k]
         /\ \A i \in 1..Len(jobs') :
              \/ \E k \in 1..Len(jobs) : jobs'[i] = jobs[k]
              \/ active /\ active' /\ jobs'[i].generation = generation
<1>1. jobs \in Seq(Jobs) /\ Len(jobs) \in Nat
  BY SoundTypes
<1>2. job' # NoJob => (job # NoJob /\ job' = job) \/ \E k \in 1..Len(jobs) : job' = jobs[k]
  <2>1. TakeJob => job' = jobs[1] /\ 1 \in 1..Len(jobs)
    BY <1>1, TakeFacts, HeadTailProperties, EmptySeq
  <2> QED
    BY <2>1, JobFrame DEF Retire
<1>3. CASE CommitPush
  <2> DEFINE new == [generation |-> generation, session |-> session,
                     text |-> Phrase, voice |-> currentVoice]
  <2>1. active
    BY <1>3 DEF IInv, SectionInv, CommitPush, Committing, ReaderSections,
      MaintenanceSections
  <2>2. jobs' = Append(jobs, new) /\ active' = active
    BY <1>3 DEF CommitPush, Push, sessionVars
  <2>3. new.generation = generation
    OBVIOUS
  <2> HIDE DEF new
  <2>4. /\ Len(jobs') = Len(jobs) + 1 /\ jobs'[Len(jobs) + 1] = new
        /\ \A i \in 1..Len(jobs) : jobs'[i] = jobs[i]
    BY <1>1, <2>2, AppendProperties
  <2> QED
    BY <1>1, <1>2, <2>1, <2>2, <2>3, <2>4
<1>4. CASE InterruptJobs
  BY <1>2, <1>4, InterruptEmpties, EmptyText
<1>5. CASE TakeJob
  <2>1. /\ Len(jobs') = Len(jobs) - 1
        /\ \A i \in 1..Len(jobs') : jobs'[i] = jobs[i + 1]
    BY <1>1, <1>5, TakeFacts, HeadTailProperties DEF TakeJob, Pop
  <2> QED
    BY <1>1, <1>2, <2>1
<1>6. CASE jobs' = jobs
  BY <1>1, <1>2, <1>6
<1> QED
  BY <1>3, <1>4, <1>5, <1>6, QueueFrame DEF queueVars, ShutdownJobs, StopQueue

LEMMA UnheardStays ==
  ASSUME IInv, Next, NEW g, Unheard(g), active => g # generation
  PROVE  Unheard(g)'
<1>1. /\ HasCurrent => current.generation # g
      /\ \A i \in 1..Len(audioQueue) : audioQueue[i].generation # g
      /\ \A i \in 1..Len(jobs) : jobs[i].generation # g
      /\ job # NoJob => job.generation # g
  BY DEF Unheard
<1>2. /\ HasCurrent' => current'.generation # g
      /\ \A i \in 1..Len(audioQueue') : audioQueue'[i].generation # g
  BY <1>1, ClipOrigins
<1>3. /\ \A i \in 1..Len(jobs') : jobs'[i].generation # g
      /\ job' # NoJob => job'.generation # g
  BY <1>1, JobOrigins
<1> QED
  BY <1>2, <1>3 DEF Unheard, HasCurrent, NoJob

\* Sessions begin in Start, and end in one of three ways.
LEMMA SessionGoesOn ==
  ASSUME IInv, Next
  PROVE  \/ \E s \in Sessions, patch \in Patches : Start(s, patch)
         \/ /\ generation' = generation
            /\ active' = active \/ InterruptAudio \/ ShutdownAudio \/ DrainFinished
            /\ active' => active
            /\ speakingEmitted' = speakingEmitted \/ Announce
BY SessionFrame DEF sessionVars, StartBadVoice, Finish, Interrupt, InterruptAudio,
  ShutdownBegin, Shutdown, ShutdownAudio, DrainFinished, Announce

LEMMA OpenStays ==
  ASSUME IInv, Next, NEW g, OpenOrUnheard(g), active => active'
  PROVE  OpenOrUnheard(g)'
<1>1. CASE active /\ g = generation
  <2>1. active' /\ generation' = generation
    BY <1>1, SessionGoesOn DEF Start
  <2> QED
    BY <1>1, <2>1 DEF OpenOrUnheard
<1>2. CASE ~(active /\ g = generation)
  BY <1>2, UnheardStays DEF OpenOrUnheard
<1> QED
  BY <1>1, <1>2

LEMMA ClipsPastPreserved == ASSUME IInv, Next, ClipsPast PROVE ClipsPast'
<1>1. generation \in Nat /\ currentGeneration \in Nat /\ generation <= currentGeneration
  BY SoundTypes
<1>2. generation' \in Nat /\ generation <= generation'
  <2>1. CASE \E s \in Sessions, patch \in Patches : Start(s, patch)
    <3>1. generation' = currentGeneration + 1
      BY <2>1 DEF Start
    <3> QED
      BY <1>1, <3>1
  <2> QED
    BY <1>1, <2>1, SessionGoesOn
<1>3. /\ HasCurrent => current.generation \in Nat /\ current.generation <= generation
      /\ \A i \in 1..Len(audioQueue) :
           audioQueue[i].generation \in Nat /\ audioQueue[i].generation <= generation
      /\ job.generation \in Nat /\ job.generation <= generation
  BY SoundTypes DEF ClipsPast
<1>4. HasCurrent' => current'.generation <= generation'
  <2>1. HasCurrent' => current'.generation \in Nat /\ current'.generation <= generation
    BY <1>3, ClipOrigins
  <2> QED
    BY <1>1, <1>2, <2>1
<1>5. \A i \in 1..Len(audioQueue') : audioQueue'[i].generation <= generation'
  BY <1>1, <1>2, <1>3, ClipOrigins
<1> QED
  BY <1>4, <1>5 DEF ClipsPast

LEMMA OvertakenPreserved == ASSUME IInv, Next, Overtaken PROVE Overtaken'
<1> DEFINE Overtaking ==
      {"interrupt_jobs", "interrupt_audio", "shutdown_audio", "shutdown_valid"}
<1>1. /\ generation \in Nat /\ currentGeneration \in Nat /\ validGeneration \in Nat
      /\ generation <= currentGeneration
      /\ Interrupting => generation < currentGeneration
  BY SoundTypes DEF IInv, GenerationInv
<1>2. \/ section' \notin Overtaking
      \/ section' = section
      \/ InterruptValidity \/ InterruptJobs \/ Shutdown \/ ShutdownValidity
  <2>1. CASE Client
    BY <2>1 DEF Client, Command, StartRejected, StartBadVoice, Start, MismatchRejected,
      AppendBackpressure, AppendText, Finish, InterruptRejected, Interrupt,
      ShutdownBegin, Reject, CanHandle
  <2>2. CASE ReaderStep
    BY <2>2 DEF ReaderStep, ReaderCommit, Commit, CommitBlank, CommitPush, CommitCount,
      StartReady, AppendDone, FinishDone, InterruptAudio, ShutdownAudio, ShutdownJobs,
      Join, StopDevice
  <2>3. CASE MaintenanceStep
    BY <2>3 DEF MaintenanceStep, MaintenanceCommit, Commit, CommitBlank, CommitPush,
      CommitCount, Wake, FlushIdle, Drain, NothingToDo, MaintainSection, FlushDone,
      DrainPending, DrainCounted, DrainPlaying, DrainFinished, Leave
  <2>4. CASE SynthesisStep
    BY <2>4 DEF SynthesisStep, TakeJob, SynthesisEnds, CheckBefore, Synthesize,
      SynthesizeThrows, CheckAfter, EnqueueTest, EnqueueClip, EnqueueFull, Announce,
      CheckFailure, Report, Retire, SynthesisGoes
  <2>5. CASE CallbackStep \/ Tick \/ Terminated
    BY <2>5 DEF CallbackStep, Tick, Terminated
  <2> QED
    BY <2>1, <2>2, <2>3, <2>4, <2>5 DEF Next
<1>3. CASE InterruptValidity
  BY <1>1, <1>3 DEF InterruptValidity, SetValidGeneration, Overtaken, Interrupting, sessionVars
<1>4. CASE InterruptJobs
  BY <1>1, <1>4 DEF InterruptJobs, Overtaken, sessionVars, audioVars, Interrupting
<1>5. CASE Shutdown
  BY <1>1, <1>5 DEF Shutdown, Overtaken, sessionVars
<1>6. CASE ShutdownValidity
  BY <1>1, <1>6 DEF ShutdownValidity, SetValidGeneration, Overtaken, sessionVars
<1>7. CASE section' = section /\ section \in Overtaking
  <2>1. UNCHANGED <<generation, currentGeneration>>
    BY <1>7, SessionFrame DEF sessionVars, generations, StartBadVoice, Start, Finish,
      Interrupt, CanHandle, InterruptAudio, ShutdownBegin, Shutdown, ShutdownAudio,
      DrainFinished, Announce
  <2>2. validGeneration' = validGeneration
    BY <1>7, AudioFrame DEF audioVars, StartReady, InterruptValidity, InterruptAudio,
      ShutdownValidity, ShutdownAudio, StopDevice, StopAudio, ClearAudio, EnqueueClip,
      PushClip, CallbackStep, CallbackBegin, CallbackDropCurrent, CallbackTake,
      CallbackCopy, CallbackEnd
  <2> QED
    BY <1>7, <2>1, <2>2 DEF Overtaken
<1>8. CASE section' \notin Overtaking
  BY <1>8 DEF Overtaken
<1> QED
  BY <1>2, <1>3, <1>4, <1>5, <1>6, <1>7, <1>8

LEMMA ValidPreserved == ASSUME IInv, SoundInv, Next PROVE OpenOrUnheard(validGeneration)'
<1> DEFINE Same == UNCHANGED <<audioQueue, current, jobs, job>>
<1>1. /\ generation \in Nat /\ currentGeneration \in Nat /\ validGeneration \in Nat
      /\ HasCurrent => current.generation \in Nat /\ current.generation <= generation
      /\ \A i \in 1..Len(audioQueue) :
           audioQueue[i].generation \in Nat /\ audioQueue[i].generation <= generation
      /\ job.generation \in Nat /\ job.generation <= generation
      /\ \A i \in 1..Len(jobs) : jobs[i].generation = generation
  BY SoundTypes DEF SoundInv, ClipsPast
<1>2. OpenOrUnheard(validGeneration) /\ Overtaken
  BY DEF SoundInv
<1>3. CASE validGeneration' = validGeneration /\ (active => active')
  <2>1. PICK g : g = validGeneration
    OBVIOUS
  <2>2. OpenOrUnheard(g)'
    BY <1>2, <1>3, <2>1, OpenStays DEF OpenOrUnheard, Unheard
  <2> QED
    BY <1>3, <2>1, <2>2 DEF OpenOrUnheard, Unheard
<1>4. CASE StartReady
  <2>1. active
    BY <1>4 DEF IInv, SectionInv, ReaderSections, StartReady
  <2> QED
    BY <1>4, <2>1 DEF StartReady, SetValidGeneration, sessionVars, OpenOrUnheard
<1>5. CASE InterruptValidity \/ ShutdownValidity
  <2>1. Same /\ generation < validGeneration'
    BY <1>1, <1>2, <1>5 DEF InterruptValidity, ShutdownValidity, SetValidGeneration,
      Overtaken, IInv, GenerationInv, Interrupting, queueVars, synthesisVars
  <2> QED
    BY <1>1, <2>1 DEF OpenOrUnheard, Unheard, HasCurrent
<1>6. CASE InterruptAudio \/ ShutdownAudio
  <2>1. /\ audioQueue' = <<>> /\ current' = NoClip /\ UNCHANGED <<jobs, job>>
        /\ validGeneration' = validGeneration /\ generation < validGeneration
    BY <1>2, <1>6 DEF InterruptAudio, ShutdownAudio, ClearAudio, Overtaken, queueVars,
      synthesisVars
  <2> QED
    BY <1>1, <2>1, EmptyText DEF OpenOrUnheard, Unheard, HasCurrent
<1>7. CASE DrainFinished
  <2>1. Same /\ validGeneration' = validGeneration
    BY <1>7 DEF DrainFinished, audioVars, queueVars, synthesisVars
  <2>2. jobs = <<>> /\ job = NoJob /\ IsDrained(generation)
    BY <1>7 DEF DrainFinished, IInv, EmptiedInv
  <2>3. Unheard(generation)
    BY <2>2, EmptyText DEF Unheard, IsDrained
  <2>4. Unheard(validGeneration)
    BY <1>2, <2>3 DEF OpenOrUnheard
  <2> QED
    BY <2>1, <2>4 DEF OpenOrUnheard, Unheard, HasCurrent
<1>8. \/ validGeneration' = validGeneration
      \/ StartReady \/ InterruptValidity \/ ShutdownValidity
  BY AudioFrame DEF audioVars, InterruptAudio, ShutdownAudio, StopDevice, StopAudio,
    ClearAudio, EnqueueClip, PushClip, CallbackStep, CallbackBegin, CallbackDropCurrent,
    CallbackTake, CallbackCopy, CallbackEnd
<1>9. (active => active') \/ InterruptAudio \/ ShutdownAudio \/ DrainFinished
  BY SessionGoesOn DEF Start
<1> QED
  BY <1>3, <1>4, <1>5, <1>6, <1>7, <1>8, <1>9

LEMMA CallbackPreserved ==
  ASSUME IInv, SoundInv, Next, callback'.holds
  PROVE  OpenOrUnheard(callback.valid)'
<1>1. CASE callback.holds /\ callback'.valid = callback.valid
  <2>1. OpenOrUnheard(callback.valid)
    BY <1>1 DEF SoundInv
  <2>2. active => active'
    BY <1>1, SessionGoesOn DEF Start, InterruptAudio, ShutdownAudio, DrainFinished,
      ClearAudio, MutexFree
  <2>3. PICK g : g = callback.valid
    OBVIOUS
  <2>4. OpenOrUnheard(g)'
    BY <2>1, <2>2, <2>3, OpenStays DEF OpenOrUnheard, Unheard
  <2> QED
    BY <1>1, <2>3, <2>4 DEF OpenOrUnheard, Unheard
<1>2. CASE CallbackStep /\ CallbackBegin
  <2>1. /\ callback'.valid = validGeneration
        /\ UNCHANGED <<audioQueue, current, jobs, job, active, generation>>
    BY <1>2 DEF CallbackStep, CallbackBegin, queueVars, synthesisVars, sessionVars
  <2>2. OpenOrUnheard(validGeneration)
    BY DEF SoundInv
  <2> QED
    BY <2>1, <2>2 DEF OpenOrUnheard, Unheard, HasCurrent
<1>3. \/ callback' = callback
      \/ CallbackStep /\ CallbackBegin
      \/ callback.holds /\ callback'.valid = callback.valid
      \/ ~callback'.holds
  <2>1. CASE CallbackStep /\ CallbackCopy
    BY <2>1 DEF IInv, TypeOK, AudioTypeOK, CallbackCopy, CallbackWantsMore
  <2>2. CASE CallbackStep /\ CallbackEnd
    BY <2>2 DEF CallbackEnd, Idle
  <2> QED
    BY <2>1, <2>2, AudioFrame DEF audioVars, StartReady, InterruptValidity, InterruptAudio,
      ShutdownValidity, ShutdownAudio, StopDevice, StopAudio, SetValidGeneration,
      ClearAudio, EnqueueClip, PushClip, CallbackStep, CallbackDropCurrent, CallbackTake
<1> QED
  BY <1>1, <1>2, <1>3

\* The synthesis thread announces what it has queued before it does anything else.
LEMMA AnnounceFrame ==
  ASSUME Next, synthesis = "announce"
  PROVE  UNCHANGED <<synthesis, job>> \/ Announce
BY SynthesisFrame DEF synthesisVars, SynthesisStep, TakeJob, SynthesisEnds, CheckBefore,
  Synthesize, SynthesizeThrows, CheckAfter, EnqueueTest, EnqueueClip, EnqueueFull,
  CheckFailure, Report, Retire, SynthesisGoes

LEMMA HeardPreserved == ASSUME IInv, SoundInv, Next PROVE HeardIsAnnounced'
<1>1. /\ generation \in Nat /\ currentGeneration \in Nat /\ generation <= currentGeneration
      /\ HasCurrent => current.generation \in Nat /\ current.generation <= generation
      /\ \A i \in 1..Len(audioQueue) :
           audioQueue[i].generation \in Nat /\ audioQueue[i].generation <= generation
  BY SoundTypes DEF SoundInv, ClipsPast
<1>2. CASE \E s \in Sessions, patch \in Patches : Start(s, patch)
  <2>1. generation' = currentGeneration + 1 /\ UNCHANGED <<audioQueue, current>>
    BY <1>2 DEF Start, audioVars
  <2>2. IsDrained(generation)'
    BY <1>1, <2>1 DEF IsDrained, HasCurrent
  <2> QED
    BY <2>2 DEF HeardIsAnnounced
<1>3. CASE ~\E s \in Sessions, patch \in Patches : Start(s, patch)
  <2>1. SUFFICES ASSUME active', ~IsDrained(generation)'
                 PROVE  speakingEmitted'
                          \/ (synthesis' = "announce" /\ job'.generation = generation')
    BY DEF HeardIsAnnounced
  <2>2. /\ active /\ generation' = generation
        /\ speakingEmitted' = speakingEmitted \/ Announce
    BY <1>3, <2>1, SessionGoesOn
  <2>3. CASE EnqueueClip /\ job.generation = generation
    BY <2>2, <2>3 DEF EnqueueClip
  <2>4. CASE ~IsDrained(generation)
    <3>1. speakingEmitted \/ (synthesis = "announce" /\ job.generation = generation)
      BY <2>2, <2>4 DEF SoundInv, HeardIsAnnounced
    <3>2. CASE Announce
      BY <2>2, <3>1, <3>2 DEF Announce, IsFirstAudio
    <3>3. CASE ~Announce
      BY <2>2, <3>1, <3>3, AnnounceFrame
    <3> QED
      BY <3>2, <3>3
  <2>5. ~IsDrained(generation) \/ (EnqueueClip /\ job.generation = generation)
    <3>1. \/ HasCurrent' /\ current'.generation = generation
          \/ \E i \in 1..Len(audioQueue') : audioQueue'[i].generation = generation
      BY <2>1, <2>2 DEF IsDrained, HasCurrent
    <3> QED
      BY <3>1, ClipOrigins DEF IsDrained
  <2> QED
    BY <2>3, <2>4, <2>5
<1> QED
  BY <1>2, <1>3

LEMMA InitSound == Init => SoundInv
<1> SUFFICES ASSUME Init PROVE SoundInv
  OBVIOUS
<1>1. ~HasCurrent /\ audioQueue = <<>> /\ jobs = <<>> /\ job = NoJob
  BY DEF Init, AudioInit, QueueInit, HasCurrent
<1>2. ~callback.holds /\ ~active /\ section = "none"
  BY DEF Init, AudioInit, Idle
<1> QED
  BY <1>1, <1>2, EmptyText DEF SoundInv, ClipsPast, Overtaken, OpenOrUnheard, Unheard,
    HeardIsAnnounced

LEMMA NextSound == IInv /\ SoundInv /\ [Next]_vars => SoundInv'
<1>1. ASSUME IInv, SoundInv, Next PROVE SoundInv'
  <2>1. ClipsPast' /\ Overtaken'
    BY <1>1, ClipsPastPreserved, OvertakenPreserved DEF SoundInv
  <2>2. OpenOrUnheard(validGeneration)' /\ (callback'.holds => OpenOrUnheard(callback.valid)')
    BY <1>1, ValidPreserved, CallbackPreserved
  <2>3. HeardIsAnnounced'
    BY <1>1, HeardPreserved
  <2> QED
    BY <2>1, <2>2, <2>3 DEF SoundInv
<1>2. ASSUME SoundInv, UNCHANGED vars PROVE SoundInv'
  <2>1. /\ UNCHANGED <<audioQueue, current, validGeneration, callback, jobs, job>>
        /\ UNCHANGED <<active, generation, currentGeneration, section>>
        /\ UNCHANGED <<speakingEmitted, synthesis>>
    BY <1>2 DEF vars, queueVars, audioVars, sessionVars, generations, synthesisVars
  <2> QED
    BY <1>2, <2>1 DEF SoundInv, ClipsPast, Overtaken, OpenOrUnheard, Unheard, HasCurrent,
      HeardIsAnnounced, IsDrained
<1> QED
  BY <1>1, <1>2

\* What is heard is announced: the audio of the open session waits or plays only if
\* speaking was emitted for it, or is about to be.
THEOREM AnnouncedBeforeHeard == Spec => []HeardIsAnnounced
<1>1. SoundInv => HeardIsAnnounced
  BY DEF SoundInv
<1> QED
  BY <1>1, Inductive, InitSound, NextSound, PTL DEF Spec

\* The device gets audio of the open session and of no other, wherever the callback
\* is when the session is interrupted, finished or replaced.
THEOREM SoundInSession == Spec => SoundOnlyInSession
<1>1. ASSUME IInv, SoundInv, Next, callback'.written > callback.written
      PROVE  active /\ current.generation = generation
  <2>1. CASE CallbackCopy
    <3>1. HasCurrent /\ current.generation = callback.valid /\ callback.holds
      BY <2>1 DEF CallbackCopy, CallbackWantsMore, Obsolete
    <3> QED
      BY <1>1, <3>1 DEF SoundInv, OpenOrUnheard, Unheard
  <2>2. CASE CallbackBegin \/ CallbackEnd
    <3>1. callback'.written = 0
      BY <2>2 DEF CallbackBegin, CallbackEnd, Idle
    <3> QED
      BY <1>1, <3>1, SoundTypes
  <2>3. CASE callback' = callback
    BY <1>1, <2>3, SoundTypes
  <2>4. CallbackStep => CallbackCopy \/ CallbackBegin \/ CallbackEnd \/ callback' = callback
    BY DEF CallbackStep, CallbackDropCurrent, CallbackTake
  <2>5. StartReady \/ InterruptValidity \/ ShutdownValidity => callback' = callback
    BY DEF StartReady, InterruptValidity, ShutdownValidity, SetValidGeneration
  <2>6. InterruptAudio \/ ShutdownAudio \/ StopDevice => callback' = callback
    BY DEF InterruptAudio, ShutdownAudio, StopDevice, StopAudio, ClearAudio
  <2>7. EnqueueClip => callback' = callback
    BY DEF EnqueueClip, PushClip
  <2>8. UNCHANGED audioVars => callback' = callback
    BY DEF audioVars
  <2> QED
    BY <1>1, <2>1, <2>2, <2>3, <2>4, <2>5, <2>6, <2>7, <2>8, AudioFrame
<1>2. ASSUME IInv, SoundInv, [Next]_vars
      PROVE  [callback'.written > callback.written
                => active /\ current.generation = generation]_vars
  BY <1>1, <1>2
<1> QED
  BY <1>2, Inductive, InitSound, NextSound, PTL DEF Spec, SoundOnlyInSession

-----------------------------------------------------------------------------
\* Each step of the runtime is a step of a SpeechSession, or none.  The text a
\* session still has to speak is in five places; a step moves a piece of it from
\* one place to the next, takes a piece out, or leaves it alone.

\* Taking a piece out of a text.

LEMMA SubSeqFront ==
  ASSUME NEW S, NEW a \in Seq(S), NEW b \in Seq(S)
  PROVE  /\ SubSeq(a \o b, 1, Len(a)) = a
         /\ SubSeq(a \o b, Len(a) + 1, Len(a \o b)) = b
<1>1. /\ Len(a) \in Nat /\ Len(b) \in Nat /\ a \o b \in Seq(S)
      /\ Len(a \o b) = Len(a) + Len(b)
  BY LenProperties, ConcatProperties
<1>2. SubSeq(a \o b, 1, Len(a)) = a
  <2>1. CASE a = <<>>
    <3>1. Len(a) = 0
      BY <2>1, EmptySeq
    <3>2. SubSeq(a \o b, 1, Len(a)) = <<>>
      BY <3>1, SubSeqEmpty
    <3> QED
      BY <2>1, <3>2
  <2>2. CASE a # <<>>
    <3>1. 1 \in 1..Len(a) /\ Len(a) \in 1..Len(a)
      BY <1>1, <2>2, EmptySeq
    <3>2. SubSeq(a \o b, 1, Len(a)) = SubSeq(a, 1, Len(a))
      BY <3>1, SubSeqOfConcat1
    <3> QED
      BY <3>2, SubSeqFull
  <2> QED
    BY <2>1, <2>2
<1>3. SubSeq(a \o b, Len(a) + 1, Len(a \o b)) = b
  <2>1. CASE b = <<>>
    <3>1. Len(b) = 0
      BY <2>1, EmptySeq
    <3>2. SubSeq(a \o b, Len(a) + 1, Len(a \o b)) = <<>>
      BY <1>1, <3>1, SubSeqEmpty
    <3> QED
      BY <2>1, <3>2
  <2>2. CASE b # <<>>
    <3>1. Len(b) # 0
      BY <1>1, <2>2, EmptySeq
    <3>2. /\ Len(a) + 1 \in Len(a) + 1 .. Len(a) + Len(b)
          /\ Len(a) + Len(b) \in Len(a) + 1 .. Len(a) + Len(b)
          /\ (Len(a) + 1) - Len(a) = 1 /\ (Len(a) + Len(b)) - Len(a) = Len(b)
      BY <1>1, <3>1
    <3>3. SubSeq(a \o b, Len(a) + 1, Len(a) + Len(b)) = SubSeq(b, 1, Len(b))
      BY <3>2, SubSeqOfConcat2
    <3> QED
      BY <1>1, <3>3, SubSeqFull
  <2> QED
    BY <2>1, <2>2
<1> QED
  BY <1>2, <1>3

\* i .. j is where b is in p.
Located(p, a, b, c, i, j) ==
  /\ i \in 1..Len(p) /\ j \in 1..Len(p) /\ i <= j
  /\ SubSeq(p, i, j) = b
  /\ SubSeq(p, 1, i - 1) \o SubSeq(p, j + 1, Len(p)) = a \o c

LEMMA TakenOut ==
  ASSUME NEW S, NEW a \in Seq(S), NEW b \in Seq(S), NEW c \in Seq(S), b # <<>>
  PROVE  \E i, j : Located(a \o (b \o c), a, b, c, i, j)
<1> DEFINE p == a \o (b \o c)
           i == Len(a) + 1
           j == Len(a) + Len(b)
<1>1. /\ Len(a) \in Nat /\ Len(b) \in Nat \ {0} /\ Len(c) \in Nat
      /\ b \o c \in Seq(S) /\ p \in Seq(S) /\ a \o b \in Seq(S)
      /\ Len(a \o b) = j /\ Len(p) = Len(a) + (Len(b) + Len(c))
  <2>1. b \o c \in Seq(S) /\ a \o b \in Seq(S)
    BY ConcatProperties
  <2>2. p \in Seq(S) /\ Len(p) = Len(a) + Len(b \o c)
    BY <2>1, ConcatProperties
  <2>3. Len(a) \in Nat /\ Len(b) \in Nat \ {0} /\ Len(c) \in Nat
    BY LenProperties, EmptySeq
  <2> QED
    BY <2>1, <2>2, <2>3, ConcatProperties
<1>2. p = (a \o b) \o c
  <2>1. Associative(S)
    BY AlwaysAssociative
  <2> QED
    BY <2>1 DEF Associative
<1>3. i \in 1..Len(p) /\ j \in 1..Len(p) /\ i <= j /\ i - 1 = Len(a)
  BY <1>1
<1>4. SubSeq(p, 1, i - 1) = a
  BY <1>1, <1>3, SubSeqFront
<1>5. SubSeq(p, j + 1, Len(p)) = c
  <2> DEFINE ab == a \o b
  <2>1. ab \in Seq(S) /\ Len(ab) = j
    BY <1>1
  <2> HIDE DEF ab
  <2>2. SubSeq(ab \o c, Len(ab) + 1, Len(ab \o c)) = c
    BY <2>1, SubSeqFront
  <2>3. p = ab \o c
    BY <1>2 DEF ab
  <2> HIDE DEF p, j
  <2> QED
    BY <2>1, <2>2, <2>3
<1>6. SubSeq(p, i, j) = b
  <2> DEFINE bc == b \o c
  <2>1. bc \in Seq(S) /\ Len(bc) = Len(b) + Len(c)
    BY ConcatProperties DEF bc
  <2>2. SubSeq(bc, 1, Len(b)) = b
    BY SubSeqFront DEF bc
  <2>3. p = a \o bc
    OBVIOUS
  <2> HIDE DEF bc
  <2>4. /\ Len(a) + 1 \in Len(a) + 1 .. Len(a) + Len(bc)
        /\ Len(a) + Len(b) \in Len(a) + 1 .. Len(a) + Len(bc)
        /\ (Len(a) + 1) - Len(a) = 1 /\ (Len(a) + Len(b)) - Len(a) = Len(b)
    BY <1>1, <2>1
  <2>5. SubSeq(a \o bc, Len(a) + 1, Len(a) + Len(b)) = SubSeq(bc, 1, Len(b))
    BY <2>1, <2>4, SubSeqOfConcat2
  <2> QED
    BY <2>2, <2>3, <2>5
<1> HIDE DEF p, i, j
<1>7. Located(p, a, b, c, i, j)
  BY <1>3, <1>4, <1>5, <1>6 DEF Located
<1> QED
  BY <1>7 DEF p

-----------------------------------------------------------------------------
\* The text of a session in a sequence of clips or jobs.

HaveTexts(S) == \A x \in S : x.text \in Seq(STRING)
OwnTexts(s, g) == [i \in 1..Len(s) |-> Own(s[i], g)]

LEMMA ClipsAndJobsHaveTexts == HaveTexts(Clips) /\ HaveTexts(Jobs)
BY DEF HaveTexts, Clips, Jobs

LEMMA OwnType ==
  ASSUME NEW x, NEW g, x.text \in Seq(STRING)
  PROVE  Own(x, g) \in Seq(STRING)
BY EmptyText DEF Own

LEMMA OwnTextsType ==
  ASSUME NEW S, HaveTexts(S), NEW s \in Seq(S), NEW g
  PROVE  OwnTexts(s, g) \in Seq(Seq(STRING)) /\ Len(OwnTexts(s, g)) = Len(s)
<1> DEFINE T == Seq(STRING)
<1>1. Len(s) \in Nat /\ \A i \in 1..Len(s) : s[i] \in S
  BY LenProperties, ElementOfSeq
<1>2. \A i \in 1..Len(s) : Own(s[i], g) \in T
  BY <1>1, OwnType DEF HaveTexts
<1> HIDE DEF T
<1>3. OwnTexts(s, g) \in Seq(T) /\ Len(OwnTexts(s, g)) = Len(s)
  BY <1>1, <1>2 DEF OwnTexts
<1> QED
  BY <1>3 DEF T

LEMMA OwnTextEmpty == ASSUME NEW g PROVE OwnText(<<>>, g) = <<>>
<1>1. OwnTexts(<<>>, g) = <<>>
  BY EmptySeq DEF OwnTexts
<1>2. FlattenSeq(<<>>) = <<>>
  <2>1. Len(<<>>) = 0
    BY EmptySeq
  <2> QED
    BY <2>1 DEF FlattenSeq
<1> QED
  BY <1>1, <1>2 DEF OwnText, OwnTexts

LEMMA OwnTextAppend ==
  ASSUME NEW S, HaveTexts(S), NEW s \in Seq(S), NEW x \in S, NEW g
  PROVE  /\ OwnText(s, g) \in Seq(STRING)
         /\ OwnText(Append(s, x), g) = OwnText(s, g) \o Own(x, g)
<1> DEFINE more == Append(s, x)
<1>1. OwnTexts(s, g) \in Seq(Seq(STRING)) /\ Own(x, g) \in Seq(STRING)
  BY OwnTextsType, OwnType DEF HaveTexts
<1>2. /\ Len(s) \in Nat /\ Len(more) = Len(s) + 1
      /\ \A i \in 1..Len(s) : more[i] = s[i]
      /\ more[Len(s) + 1] = x
  BY LenProperties, AppendProperties
<1>3. OwnTexts(more, g) = Append(OwnTexts(s, g), Own(x, g))
  <2> HIDE DEF more
  <2>1. Len(OwnTexts(s, g)) = Len(s)
    BY OwnTextsType
  <2> QED
    BY <1>2, <2>1 DEF OwnTexts
<1>4. /\ FlattenSeq(OwnTexts(s, g)) \in Seq(STRING)
      /\ FlattenSeq(Append(OwnTexts(s, g), Own(x, g))) = FlattenSeq(OwnTexts(s, g)) \o Own(x, g)
  BY <1>1, FlattenAppend
<1> QED
  BY <1>3, <1>4 DEF OwnText, OwnTexts

LEMMA OwnTextType ==
  ASSUME NEW S, HaveTexts(S), NEW s \in Seq(S), NEW g
  PROVE  OwnText(s, g) \in Seq(STRING)
<1>1. OwnTexts(s, g) \in Seq(Seq(STRING))
  BY OwnTextsType
<1>2. FlattenSeq(OwnTexts(s, g)) \in Seq(STRING)
  BY <1>1, EmptyText, FlattenAppend
<1> QED
  BY <1>2 DEF OwnText, OwnTexts

LEMMA OwnTextTail ==
  ASSUME NEW S, HaveTexts(S), NEW s \in Seq(S), s # <<>>, NEW g
  PROVE  OwnText(s, g) = Own(Head(s), g) \o OwnText(Tail(s), g)
<1> DEFINE tail == Tail(s)
<1>1. /\ OwnTexts(s, g) \in Seq(Seq(STRING)) /\ Len(OwnTexts(s, g)) = Len(s)
      /\ Len(s) \in Nat \ {0}
  BY OwnTextsType, LenProperties, EmptySeq
<1>2. /\ Head(s) = s[1] /\ tail \in Seq(S) /\ Len(tail) = Len(s) - 1
      /\ \A i \in 1..(Len(s) - 1) : tail[i] = s[i + 1]
  BY <1>1, HeadTailProperties
<1>3. /\ OwnTexts(s, g) # <<>>
      /\ Head(OwnTexts(s, g)) = Own(Head(s), g)
  BY <1>1, <1>2, EmptySeq DEF OwnTexts
<1>4. Tail(OwnTexts(s, g)) = OwnTexts(tail, g)
  <2> HIDE DEF tail
  <2> QED
    BY <1>1, <1>2, <1>3 DEF OwnTexts
<1>5. FlattenSeq(OwnTexts(s, g))
        = Head(OwnTexts(s, g)) \o FlattenSeq(Tail(OwnTexts(s, g)))
  BY <1>1, <1>3, FlattenFront
<1> QED
  BY <1>3, <1>4, <1>5 DEF OwnText, OwnTexts

LEMMA OwnTextNone ==
  ASSUME NEW s, NEW g, Len(s) \in Nat, \A i \in 1..Len(s) : s[i].generation # g
  PROVE  OwnText(s, g) = <<>>
<1>1. OwnTexts(s, g) = [i \in 1..Len(s) |-> <<>>]
  BY DEF OwnTexts, Own
<1>2. Len(OwnTexts(s, g)) = Len(s)
  BY <1>1
<1>3. FlattenSeq(OwnTexts(s, g)) = <<>>
  <2> DEFINE t == OwnTexts(s, g)
  <2>1. Len(t) \in Nat /\ t = [i \in 1..Len(t) |-> <<>>]
    BY <1>1, <1>2
  <2> HIDE DEF t
  <2>2. FlattenSeq(t) = <<>>
    BY <2>1, FlattenNothing
  <2> QED
    BY <2>2 DEF t
<1> QED
  BY <1>3 DEF OwnText, OwnTexts

-----------------------------------------------------------------------------
\* What a session's text needs besides: which generation is open, valid and heard.

Cut == {"interrupt_valid", "interrupt_jobs", "interrupt_audio",
        "shutdown_valid", "shutdown_audio"}

\* An open session is of the current generation until it is cut short.
OpenIsCurrent == active /\ generation # currentGeneration => section \in Cut

\* Nothing of a session is there before it has started.
BeginsEmpty ==
  section = "start" =>
    accepting /\ ~speakingEmitted /\ buffer = <<>> /\ pushed = 0 /\ Unheard(generation)

\* Only text with something unsayable makes no audio.
SilenceHasReason ==
  synthesis = "failed" \/ (synthesis = "synthesized" /\ pcm = 0) => ~Sayable(job.text)

\* The valid generation is the session's once it has started, or a later one.
ValidInOrder ==
  /\ validGeneration <= currentGeneration
  /\ active /\ section # "start" => generation <= validGeneration
  /\ audioStopping => reader = "exited"

\* A callback that meets clips of the session began when the session was valid.
CallbackInOrder ==
  callback.holds =>
    /\ callback.valid <= validGeneration
    /\ active /\ ~IsDrained(generation) => generation <= callback.valid

\* A session is drained once no more text is accepted.
DrainedIsClosed == section \in {"drain", "drained"} => ~accepting

SessionInv ==
  /\ OpenIsCurrent
  /\ BeginsEmpty
  /\ SilenceHasReason
  /\ ValidInOrder
  /\ CallbackInOrder
  /\ DrainedIsClosed

\* Who leaves the sections in which a session begins or is cut short.
LEMMA SectionFrame ==
  ASSUME Next
  PROVE  /\ section \in Cut => section' \in Cut \/ InterruptAudio \/ ShutdownAudio
         /\ section' = "start" =>
              \/ section = "start"
              \/ \E s \in Sessions, patch \in Patches : Start(s, patch)
         /\ section = "start" => section' = "start" \/ StartReady
         /\ section' \in {"drain", "drained"} =>
              section \in {"drain", "drained"} \/ (Drain /\ ~accepting)
<1> USE DEF Cut
<1>1. CASE Client
  BY <1>1 DEF Client, Command, StartRejected, StartBadVoice, Start, MismatchRejected,
    AppendBackpressure, AppendText, Finish, InterruptRejected, Interrupt,
    ShutdownBegin, Reject, CanHandle
<1>2. CASE ReaderStep
  BY <1>2 DEF ReaderStep, ReaderCommit, Commit, CommitBlank, CommitPush, CommitCount,
    StartReady, AppendDone, FinishDone, InterruptValidity, InterruptJobs,
    InterruptAudio, Shutdown, ShutdownValidity, ShutdownAudio, ShutdownJobs, Join,
    StopDevice
<1>3. CASE MaintenanceStep
  BY <1>3 DEF MaintenanceStep, MaintenanceCommit, Commit, CommitBlank, CommitPush,
    CommitCount, Wake, FlushIdle, Drain, NothingToDo, MaintainSection, FlushDone,
    DrainPending, DrainCounted, DrainPlaying, DrainFinished, Leave, WantsDrain
<1>4. CASE SynthesisStep
  BY <1>4 DEF SynthesisStep, TakeJob, SynthesisEnds, CheckBefore, Synthesize,
    SynthesizeThrows, CheckAfter, EnqueueTest, EnqueueClip, EnqueueFull, Announce,
    CheckFailure, Report, Retire, SynthesisGoes
<1>5. CASE CallbackStep \/ Tick \/ Terminated
  BY <1>5 DEF CallbackStep, Tick, Terminated
<1> QED
  BY <1>1, <1>2, <1>3, <1>4, <1>5 DEF Next

LEMMA OpenIsCurrentPreserved ==
  ASSUME IInv, OpenIsCurrent, Next
  PROVE  OpenIsCurrent'
<1>1. \/ UNCHANGED <<active, generation, currentGeneration>>
      \/ \E s \in Sessions, patch \in Patches : Start(s, patch)
      \/ \E s \in Sessions : Interrupt(s)
      \/ Shutdown
      \/ ~active'
  BY SessionFrame DEF sessionVars, generations, StartBadVoice, Finish, InterruptAudio,
    ShutdownBegin, ShutdownAudio, DrainFinished, Announce
<1>2. InterruptAudio \/ ShutdownAudio => ~active'
  BY DEF InterruptAudio, ShutdownAudio
<1>3. CASE UNCHANGED <<active, generation, currentGeneration>>
  BY <1>2, <1>3, SectionFrame DEF OpenIsCurrent
<1>4. CASE \E s \in Sessions, patch \in Patches : Start(s, patch)
  BY <1>4 DEF OpenIsCurrent, Start
<1>5. CASE (\E s \in Sessions : Interrupt(s)) \/ Shutdown
  BY <1>5 DEF OpenIsCurrent, Interrupt, Shutdown, Cut
<1> QED
  BY <1>1, <1>3, <1>4, <1>5 DEF OpenIsCurrent

LEMMA BeginsEmptyPreserved ==
  ASSUME IInv, ClipsPast, BeginsEmpty, Next
  PROVE  BeginsEmpty'
<1>1. CASE \E s \in Sessions, patch \in Patches : Start(s, patch)
  <2>1. /\ accepting' /\ ~speakingEmitted' /\ buffer' = <<>> /\ pushed' = pushed
        /\ generation' = currentGeneration + 1
        /\ UNCHANGED <<current, audioQueue, jobs, job>>
        /\ ~active /\ section = "none" /\ reader = "serving"
    BY <1>1 DEF Start, CanHandle, audioVars, queueVars, synthesisVars
  <2>2. jobs = <<>>
    BY <2>1 DEF IInv, JobsOfOneSession
  <2>3. pushed = 0
    BY <2>1, CounterTypes DEF IInv, SectionInv, Committing
  <2>4. /\ generation \in Nat /\ currentGeneration \in Nat /\ generation <= currentGeneration
        /\ HasCurrent => current.generation \in Nat /\ current.generation <= generation
        /\ \A i \in 1..Len(audioQueue) :
             audioQueue[i].generation \in Nat /\ audioQueue[i].generation <= generation
        /\ job.generation \in Nat /\ job.generation <= generation
    BY SoundTypes DEF ClipsPast
  <2>5. Unheard(generation)'
    BY <2>1, <2>2, <2>4, EmptyText DEF Unheard, HasCurrent, NoJob
  <2> QED
    BY <2>1, <2>3, <2>5 DEF BeginsEmpty
<1>2. CASE section = "start" /\ section' = "start"
  <2>1. /\ accepting /\ ~speakingEmitted /\ buffer = <<>> /\ pushed = 0
        /\ Unheard(generation)
    BY <1>2 DEF BeginsEmpty
  <2>2. UNCHANGED <<accepting, speakingEmitted, generation>>
    BY <1>2, SessionFrame DEF sessionVars, StartBadVoice, Start, CanHandle, Finish,
      Interrupt, InterruptAudio, ShutdownBegin, Shutdown, ShutdownAudio, DrainFinished,
      Announce
  <2>3. UNCHANGED <<buffer, pushed>>
    BY <1>2, <2>1, TextFrame DEF textVars, CommitBlank, CommitPush, CommitCount,
      Committing, Start, AppendText, CanHandle, InterruptValidity, InterruptJobs,
      ShutdownAudio, Tick, Retire
  <2>4. jobs = <<>>
    <3>1. jobs \in Seq(Jobs) /\ Len(jobs) \in Nat
          /\ \A i \in 1..Len(jobs) : jobs[i].generation = generation
      BY SoundTypes
    <3>2. \A i \in 1..Len(jobs) : FALSE
      BY <2>1, <3>1 DEF Unheard
    <3>3. Len(jobs) = 0
      BY <3>1, <3>2
    <3> QED
      BY <3>1, <3>3, EmptySeq
  <2>5. jobs' = <<>> /\ ~TakeJob
    BY <1>2, <2>4, QueueFrame DEF queueVars, CommitPush, Committing, InterruptJobs,
      ShutdownJobs, StopQueue, TakeJob, Pop
  <2>6. job' # NoJob => job # NoJob /\ job' = job
    BY <2>5, JobFrame DEF Retire
  <2>7. /\ HasCurrent' => current'.generation # generation
        /\ \A i \in 1..Len(audioQueue') : audioQueue'[i].generation # generation
    BY <2>1, ClipOrigins DEF Unheard
  <2>8. Unheard(generation)'
    BY <2>1, <2>2, <2>5, <2>6, <2>7, EmptyText DEF Unheard, HasCurrent, NoJob
  <2> QED
    BY <2>1, <2>2, <2>3, <2>8 DEF BeginsEmpty
<1> QED
  BY <1>1, <1>2, SectionFrame DEF BeginsEmpty

LEMMA SilenceHasReasonPreserved ==
  ASSUME IInv, SilenceHasReason, Next
  PROVE  SilenceHasReason'
<1>1. CASE UNCHANGED synthesisVars
  BY <1>1 DEF synthesisVars, SilenceHasReason, Sayable
<1>2. CASE Synthesize
  <2>1. /\ pcm' \in FrameCounts \/ ~Sayable(job.text)
        /\ synthesis' = "synthesized" /\ job' = job
    BY <1>2 DEF Synthesize, SynthesisGoes
  <2>2. 0 \notin FrameCounts
    BY RuntimeAssumption
  <2> QED
    BY <2>1, <2>2 DEF SilenceHasReason, Sayable
<1>3. CASE SynthesizeThrows
  BY <1>3 DEF SynthesizeThrows, SynthesisGoes, SilenceHasReason, Sayable
<1>4. CASE SynthesisStep /\ ~Synthesize /\ ~SynthesizeThrows
  <2>1. synthesis' \notin {"synthesized", "failed"}
    BY <1>4 DEF SynthesisStep, TakeJob, SynthesisEnds, CheckBefore, CheckAfter,
      EnqueueTest, EnqueueClip, EnqueueFull, Announce, CheckFailure, Report, Retire,
      SynthesisGoes
  <2> QED
    BY <2>1 DEF SilenceHasReason
<1> QED
  BY <1>1, <1>2, <1>3, <1>4, SynthesisFrame

\* The valid generation changes in three places.
LEMMA ValidFrame ==
  ASSUME IInv, OpenIsCurrent, ValidInOrder, Next
  PROVE  /\ \/ validGeneration' = validGeneration
            \/ StartReady /\ validGeneration' = generation /\ generation = currentGeneration
            \/ /\ InterruptValidity \/ ShutdownValidity
               /\ validGeneration' = currentGeneration
         /\ validGeneration' >= validGeneration
         /\ currentGeneration' \in Nat /\ currentGeneration' >= currentGeneration
<1>1. /\ generation \in Nat /\ currentGeneration \in Nat /\ validGeneration \in Nat
      /\ generation <= currentGeneration /\ validGeneration <= currentGeneration
  BY SoundTypes DEF ValidInOrder
<1>2. StartReady => validGeneration' = generation /\ generation = currentGeneration
  BY DEF StartReady, SetValidGeneration, OpenIsCurrent, Cut, IInv, SectionInv,
    ReaderSections
<1>3. \/ validGeneration' = validGeneration
      \/ StartReady \/ InterruptValidity \/ ShutdownValidity
  BY AudioFrame DEF audioVars, InterruptAudio, ShutdownAudio, StopDevice, StopAudio,
    ClearAudio, EnqueueClip, PushClip, CallbackStep, CallbackBegin, CallbackDropCurrent,
    CallbackTake, CallbackCopy, CallbackEnd
<1>4. InterruptValidity \/ ShutdownValidity => validGeneration' = currentGeneration
  BY DEF InterruptValidity, ShutdownValidity, SetValidGeneration
<1>5. currentGeneration' \in {currentGeneration, currentGeneration + 1}
  BY SessionFrame DEF generations, StartBadVoice, Start, Finish, Interrupt,
    InterruptAudio, ShutdownBegin, Shutdown, ShutdownAudio, DrainFinished, Announce
<1> QED
  BY <1>1, <1>2, <1>3, <1>4, <1>5

LEMMA ExitedFrame ==
  ASSUME IInv, Next
  PROVE  /\ reader = "exited" => reader' = "exited"
         /\ audioStopping' = audioStopping \/ (StopDevice /\ reader' = "exited")
<1>1. reader = "exited" => reader' = "exited"
  <2> USE DEF IInv, SectionInv
  <2>1. CASE Client
    BY <2>1 DEF Client, Command, StartRejected, StartBadVoice, Start, MismatchRejected,
      AppendBackpressure, AppendText, Finish, InterruptRejected, Interrupt,
      ShutdownBegin, Reject, CanHandle
  <2>2. CASE ReaderStep
    BY <2>2 DEF ReaderStep, ReaderCommit, Commit, CommitBlank, CommitPush, CommitCount,
      StartReady, AppendDone, FinishDone, InterruptValidity, InterruptJobs,
      InterruptAudio, Shutdown, ShutdownValidity, ShutdownAudio, ShutdownJobs, Join,
      StopDevice
  <2>3. CASE MaintenanceStep
    BY <2>3 DEF MaintenanceStep, MaintenanceCommit, Commit, CommitBlank, CommitPush,
      CommitCount, Wake, FlushIdle, Drain, NothingToDo, MaintainSection, FlushDone,
      DrainPending, DrainCounted, DrainPlaying, DrainFinished, Leave
  <2>4. CASE SynthesisStep
    BY <2>4 DEF SynthesisStep, TakeJob, SynthesisEnds, CheckBefore, Synthesize,
      SynthesizeThrows, CheckAfter, EnqueueTest, EnqueueClip, EnqueueFull, Announce,
      CheckFailure, Report, Retire, SynthesisGoes
  <2>5. CASE CallbackStep \/ Tick \/ Terminated
    BY <2>5 DEF CallbackStep, Tick, Terminated
  <2> QED
    BY <2>1, <2>2, <2>3, <2>4, <2>5 DEF Next
<1>2. audioStopping' = audioStopping \/ StopDevice
  BY AudioFrame DEF audioVars, StartReady, InterruptValidity, InterruptAudio,
    ShutdownValidity, ShutdownAudio, SetValidGeneration, ClearAudio, EnqueueClip,
    PushClip, CallbackStep, CallbackBegin, CallbackDropCurrent, CallbackTake,
    CallbackCopy, CallbackEnd
<1> QED
  BY <1>1, <1>2 DEF StopDevice

LEMMA ValidInOrderPreserved ==
  ASSUME IInv, OpenIsCurrent, ValidInOrder, Next
  PROVE  ValidInOrder'
<1>1. /\ generation \in Nat /\ currentGeneration \in Nat /\ validGeneration \in Nat
      /\ generation <= currentGeneration /\ validGeneration <= currentGeneration
  BY SoundTypes DEF ValidInOrder
<1>2. validGeneration' <= currentGeneration'
  BY <1>1, ValidFrame
<1>3. ASSUME active', section' # "start" PROVE generation' <= validGeneration'
  <2>1. active /\ generation' = generation
    BY <1>3, SessionGoesOn DEF Start
  <2>2. CASE section # "start"
    BY <1>1, <2>1, <2>2, ValidFrame DEF ValidInOrder
  <2>3. CASE StartReady
    BY <1>1, <2>1, <2>3 DEF StartReady, SetValidGeneration
  <2> QED
    BY <1>3, <2>2, <2>3, SectionFrame
<1>4. audioStopping' => reader' = "exited"
  BY ExitedFrame DEF ValidInOrder
<1> QED
  BY <1>2, <1>3, <1>4 DEF ValidInOrder

LEMMA CallbackFrame ==
  ASSUME IInv, Next, callback'.holds
  PROVE  \/ callback.holds /\ callback'.valid = callback.valid
         \/ CallbackStep /\ CallbackBegin
<1>1. CASE CallbackStep /\ CallbackCopy
  BY <1>1 DEF IInv, TypeOK, AudioTypeOK, CallbackCopy, CallbackWantsMore
<1>2. CASE CallbackStep /\ CallbackEnd
  BY <1>2 DEF CallbackEnd, Idle
<1> QED
  BY <1>1, <1>2, AudioFrame DEF audioVars, StartReady, InterruptValidity, InterruptAudio,
    ShutdownValidity, ShutdownAudio, StopDevice, StopAudio, SetValidGeneration,
    ClearAudio, EnqueueClip, PushClip, CallbackStep, CallbackDropCurrent, CallbackTake

LEMMA CallbackInOrderPreserved ==
  ASSUME IInv, SoundInv, SessionInv, Next
  PROVE  CallbackInOrder'
<1>1. /\ generation \in Nat /\ currentGeneration \in Nat /\ validGeneration \in Nat
      /\ generation <= currentGeneration
      /\ HasCurrent => current.generation \in Nat /\ current.generation <= generation
      /\ \A i \in 1..Len(audioQueue) :
           audioQueue[i].generation \in Nat /\ audioQueue[i].generation <= generation
      /\ callback.valid \in Nat
  BY SoundTypes DEF SoundInv, ClipsPast, IInv, TypeOK, AudioTypeOK
<1>2. /\ validGeneration' >= validGeneration
      /\ CallbackStep => validGeneration' = validGeneration
  BY ValidFrame DEF SessionInv, CallbackStep, CallbackBegin, CallbackDropCurrent,
    CallbackTake, CallbackCopy, CallbackEnd
<1>3. CASE callback.holds /\ callback'.valid = callback.valid
  <2>1. callback.valid <= validGeneration /\ validGeneration' \in Int
    <3>1. validGeneration' \in Nat
      BY <1>1, ValidFrame DEF SessionInv
    <3> QED
      BY <1>3, <3>1 DEF SessionInv, CallbackInOrder
  <2>2. ASSUME active', ~IsDrained(generation)' PROVE generation' <= callback'.valid
    <3>1. CASE \E s \in Sessions, patch \in Patches : Start(s, patch)
      <4>1. generation' = currentGeneration + 1 /\ UNCHANGED <<audioQueue, current>>
        BY <3>1 DEF Start, audioVars
      <4>2. IsDrained(generation)'
        BY <1>1, <4>1 DEF IsDrained, HasCurrent
      <4> QED
        BY <2>2, <4>2
    <3>2. CASE ~\E s \in Sessions, patch \in Patches : Start(s, patch)
      <4>1. active /\ generation' = generation
        BY <2>2, <3>2, SessionGoesOn
      <4>2. ~EnqueueClip
        BY <1>3 DEF EnqueueClip, PushClip, MutexFree
      <4>3. \/ HasCurrent' /\ current'.generation = generation
            \/ \E i \in 1..Len(audioQueue') : audioQueue'[i].generation = generation
        BY <2>2, <4>1 DEF IsDrained, HasCurrent
      <4>4. ~IsDrained(generation)
        BY <4>2, <4>3, ClipOrigins DEF IsDrained
      <4> QED
        BY <1>3, <4>1, <4>4 DEF SessionInv, CallbackInOrder
    <3> QED
      BY <3>1, <3>2
  <2> QED
    BY <1>1, <1>2, <1>3, <2>1, <2>2 DEF CallbackInOrder
<1>4. CASE CallbackStep /\ CallbackBegin
  <2>1. /\ callback'.valid = validGeneration /\ validGeneration' = validGeneration
        /\ UNCHANGED <<audioQueue, current, active, generation>>
    BY <1>4 DEF CallbackStep, CallbackBegin, sessionVars
  <2>2. ASSUME active, ~IsDrained(generation) PROVE generation <= validGeneration
    <3>1. section # "start"
      BY <2>2 DEF SessionInv, BeginsEmpty, Unheard, IsDrained
    <3> QED
      BY <2>2, <3>1 DEF SessionInv, ValidInOrder
  <2> QED
    BY <1>1, <2>1, <2>2 DEF CallbackInOrder, IsDrained, HasCurrent
<1>5. CASE ~callback'.holds
  BY <1>5 DEF CallbackInOrder
<1> QED
  BY <1>3, <1>4, <1>5, CallbackFrame

LEMMA DrainedIsClosedPreserved ==
  ASSUME DrainedIsClosed, Next
  PROVE  DrainedIsClosed'
<1>1. ASSUME section' \in {"drain", "drained"} PROVE accepting' = accepting
  BY <1>1, SessionFrame DEF sessionVars, StartBadVoice, Start, Finish, Interrupt,
    InterruptAudio, ShutdownBegin, Shutdown, ShutdownAudio, DrainFinished, Announce
<1> QED
  BY <1>1, SectionFrame DEF DrainedIsClosed

LEMMA InitSession == Init => SessionInv
<1> SUFFICES ASSUME Init PROVE SessionInv
  OBVIOUS
<1>1. /\ ~callback.holds /\ ~active /\ section = "none" /\ synthesis = "pop"
      /\ validGeneration = 0 /\ currentGeneration = 0 /\ ~audioStopping
  BY DEF Init, AudioInit, Idle
<1> QED
  BY <1>1 DEF SessionInv, OpenIsCurrent, BeginsEmpty, SilenceHasReason, ValidInOrder,
    CallbackInOrder, DrainedIsClosed

LEMMA NextSession == IInv /\ SoundInv /\ SessionInv /\ [Next]_vars => SessionInv'
<1>1. ASSUME IInv, SoundInv, SessionInv, Next PROVE SessionInv'
  BY <1>1, OpenIsCurrentPreserved, BeginsEmptyPreserved, SilenceHasReasonPreserved,
    ValidInOrderPreserved, CallbackInOrderPreserved, DrainedIsClosedPreserved DEF SessionInv, SoundInv
<1>2. ASSUME SessionInv, UNCHANGED vars PROVE SessionInv'
  <2>1. /\ UNCHANGED <<audioQueue, current, validGeneration, callback, audioStopping>>
        /\ UNCHANGED <<active, accepting, generation, currentGeneration, section>>
        /\ UNCHANGED <<speakingEmitted, synthesis, job, pcm, jobs, buffer, pushed, reader>>
    BY <1>2 DEF vars, queueVars, audioVars, sessionVars, textVars, generations, synthesisVars
  <2> QED
    BY <1>2, <2>1 DEF SessionInv, OpenIsCurrent, BeginsEmpty, SilenceHasReason,
      ValidInOrder, CallbackInOrder, DrainedIsClosed, Unheard, HasCurrent, IsDrained, Sayable
<1> QED
  BY <1>1, <1>2

-----------------------------------------------------------------------------
\* The steps of SpeechSession, seen from its text.

\* The client is told nothing, and the session stays in its phase.
Untold ==
  /\ UNCHANGED <<Phase, SessionName, Announced>>
  /\ LifecycleEvent' = NoEvent

LEMMA SilentStep ==
  ASSUME Untold, Pending' = Pending
  PROVE  Session!Next
BY DEF Untold, NoEvent, NoSession, Session!Next, Session!Silence, Session!NoEvent,
  Session!NoSession

\* Text that goes without having been spoken.
LEMMA LeftOut ==
  ASSUME Untold, NEW a \in Seq(STRING), NEW b \in Seq(STRING), NEW c \in Seq(STRING),
         Pending = a \o (b \o c), Pending' = a \o c,
         \/ b = <<>>
         \/ Phase = "interrupting"
         \/ Phase \in {"receiving", "finishing"} /\ Session!Omissible(b)
  PROVE  Session!Next
<1>1. CASE b = <<>>
  <2>1. b \o c = c
    BY <1>1, ConcatEmptySeq
  <2> QED
    BY <2>1, SilentStep
<1>2. CASE b # <<>>
  <2>1. PICK i, j : Located(Pending, a, b, c, i, j)
    <3>1. \E i, j : Located(a \o (b \o c), a, b, c, i, j)
      BY <1>2, TakenOut
    <3> QED
      BY <3>1
  <2>2. /\ i \in 1..Len(Pending) /\ j \in 1..Len(Pending) /\ i <= j
        /\ SubSeq(Pending, i, j) = b /\ Session!Without(i, j) = Pending'
    BY <2>1 DEF Located, Session!Without
  <2>3. /\ Phase' = Phase /\ SessionName' = SessionName /\ Announced' = Announced
        /\ LifecycleEvent' = Session!NoEvent
    BY DEF Untold, NoEvent, NoSession, Session!NoEvent, Session!NoSession
  <2>4. Session!Omit(i, j) \/ Session!Discard(i, j)
    BY <1>2, <2>2, <2>3 DEF Session!Omit, Session!Discard
  <2> QED
    BY <2>2, <2>4 DEF Session!Next
<1> QED
  BY <1>1, <1>2

LEMMA TakenFirst ==
  ASSUME Untold, Phase # "idle", NEW b \in Seq(STRING), NEW c \in Seq(STRING),
         Pending = b \o c, Pending' = c
  PROVE  Session!Next
<1>1. CASE b = <<>>
  <2>1. b \o c = c
    BY <1>1, ConcatEmptySeq
  <2> QED
    BY <2>1, SilentStep
<1>2. CASE b # <<>>
  <2>1. /\ Len(b) \in Nat \ {0} /\ Len(c) \in Nat /\ Len(b \o c) = Len(b) + Len(c)
    BY <1>2, LenProperties, EmptySeq, ConcatProperties
  <2>2. SubSeq(b \o c, Len(b) + 1, Len(b \o c)) = c
    BY SubSeqFront
  <2>3. Len(b) \in 1..Len(Pending)
    BY <2>1
  <2>4. Pending' = SubSeq(Pending, Len(b) + 1, Len(Pending))
    BY <2>2
  <2>5. Session!Speak(Len(b))
    BY <2>4 DEF Session!Speak, Untold, NoEvent, NoSession, Session!NoEvent,
      Session!NoSession
  <2> QED
    BY <2>3, <2>5 DEF Session!Next
<1> QED
  BY <1>1, <1>2

-----------------------------------------------------------------------------
\* The parts of the pending text.

LEMMA PartsType ==
  ASSUME IInv
  PROVE  /\ Own(current, generation) \in Seq(STRING)
         /\ OwnText(audioQueue, generation) \in Seq(STRING)
         /\ Held \in Seq(STRING)
         /\ OwnText(jobs, generation) \in Seq(STRING)
         /\ Rest(pushed) \in Seq(STRING)
         /\ InAudio \in Seq(STRING) /\ InJobs \in Seq(STRING)
<1>1. Own(current, generation) \in Seq(STRING)
  <2>1. current \in Clips \cup {NoClip}
    BY DEF IInv, TypeOK, AudioTypeOK
  <2>2. NoClip.text \in Seq(STRING)
    BY EmptyText DEF NoClip
  <2>3. current.text \in Seq(STRING)
    BY <2>1, <2>2, ClipsAndJobsHaveTexts DEF HaveTexts
  <2> QED
    BY <2>3, OwnType
<1>2. OwnText(audioQueue, generation) \in Seq(STRING)
  BY ClipsAndJobsHaveTexts, OwnTextType DEF IInv, TypeOK, AudioTypeOK
<1>3. Held \in Seq(STRING)
  <2>1. job \in Jobs \cup {NoJob}
    BY DEF IInv, TypeOK, SynthesisTypeOK
  <2>2. NoJob.text \in Seq(STRING)
    BY EmptyText DEF NoJob
  <2>3. job.text \in Seq(STRING)
    BY <2>1, <2>2, ClipsAndJobsHaveTexts DEF HaveTexts
  <2>4. Own(job, generation) \in Seq(STRING)
    BY <2>3, OwnType
  <2> QED
    BY <2>4, EmptyText DEF Held
<1>4. OwnText(jobs, generation) \in Seq(STRING)
  BY ClipsAndJobsHaveTexts, OwnTextType DEF IInv, TypeOK, QueueTypeOK
<1>5. Rest(pushed) \in Seq(STRING)
  BY CutFacts, CounterTypes DEF IInv, TypeOK
<1>6. InAudio \in Seq(STRING) /\ InJobs \in Seq(STRING)
  BY <1>1, <1>2, <1>3, <1>4, ConcatProperties DEF InAudio, InJobs
<1> QED
  BY <1>1, <1>2, <1>3, <1>4, <1>5, <1>6

\* What a step does to the pending text is what it does to its three parts.
LEMMA SamePending ==
  ASSUME Phase' = Phase, InAudio' = InAudio, InJobs' = InJobs,
         Rest(pushed)' = Rest(pushed)
  PROVE  Pending' = Pending
BY DEF Pending

LEMMA SameAudio ==
  ASSUME UNCHANGED <<current, audioQueue, generation>>
  PROVE  InAudio' = InAudio
BY DEF InAudio

LEMMA SameJobs ==
  ASSUME UNCHANGED <<jobs, generation>>, Held' = Held
  PROVE  InJobs' = InJobs
BY DEF InJobs

LEMMA SameRest ==
  ASSUME UNCHANGED <<buffer, pushed>>
  PROVE  Rest(pushed)' = Rest(pushed)
BY DEF Rest

\* Whose text of the session is open, in which phase.
LEMMA PhaseFacts ==
  ASSUME IInv, SessionInv
  PROVE  /\ Phase = "idle" <=> ~active \/ section = "start"
         /\ Phase = "interrupting" <=> active /\ section # "start" /\ generation # currentGeneration
         /\ Phase \in {"idle", "interrupting", "receiving", "finishing"}
         /\ Phase \in {"receiving", "finishing"} =>
              active /\ generation = currentGeneration /\ validGeneration = generation
<1>1. /\ generation \in Nat /\ currentGeneration \in Nat /\ validGeneration \in Nat
      /\ generation <= currentGeneration
  BY SoundTypes
<1> QED
  BY <1>1 DEF Phase, SessionInv, ValidInOrder

-----------------------------------------------------------------------------
\* Which steps matter to the session.

\* The steps that begin, end or announce it.
SessionStep ==
  \/ \E s \in Sessions, patch \in Patches : Start(s, patch)
  \/ StartReady
  \/ \E s \in Sessions : Finish(s)
  \/ \E s \in Sessions : Interrupt(s)
  \/ InterruptAudio \/ Shutdown \/ ShutdownAudio \/ DrainFinished \/ Announce

\* The steps that move its text.
TextStep ==
  \/ CommitBlank \/ CommitPush \/ CommitCount
  \/ \E s \in Sessions, text \in Texts : AppendText(s, text)
  \/ InterruptValidity \/ InterruptJobs
  \/ TakeJob \/ CheckBefore \/ CheckAfter \/ EnqueueTest \/ EnqueueClip \/ CheckFailure
  \/ CallbackStep /\ (CallbackDropCurrent \/ CallbackTake \/ CallbackCopy)

Lifecycle == {"session_started", "speaking", "finished", "interrupted"}

LEMMA EventFrame ==
  ASSUME Next, ~SessionStep
  PROVE  event'.type \notin Lifecycle
<1> USE DEF Lifecycle
<1>1. Quiet => event'.type \notin Lifecycle
  BY DEF Quiet, NoEvent
<1>2. \A s, type : Emit(type, s) => event'.type = type
  BY DEF Emit
<1>3. CASE Client
  BY <1>1, <1>2, <1>3 DEF SessionStep, Client, Command, StartRejected, StartBadVoice,
    MismatchRejected, AppendBackpressure, AppendText, InterruptRejected, ShutdownBegin,
    Reject
<1>4. CASE ReaderStep
  BY <1>1, <1>2, <1>4 DEF SessionStep, ReaderStep, ReaderCommit, Commit, CommitBlank, CommitPush,
    CommitCount, AppendDone, FinishDone, InterruptValidity, InterruptJobs,
    ShutdownValidity, ShutdownJobs, Join, StopDevice
<1>5. CASE MaintenanceStep
  BY <1>1, <1>5 DEF SessionStep, MaintenanceStep, MaintenanceCommit, Commit, CommitBlank,
    CommitPush, CommitCount, Wake, FlushIdle, Drain, NothingToDo, MaintainSection,
    FlushDone, DrainPending, DrainCounted, DrainPlaying, Leave
<1>6. CASE SynthesisStep
  BY <1>1, <1>2, <1>6 DEF SessionStep, SynthesisStep, TakeJob, SynthesisEnds, CheckBefore,
    Synthesize, SynthesizeThrows, CheckAfter, EnqueueTest, EnqueueClip, EnqueueFull,
    CheckFailure, Report, Retire, SynthesisGoes
<1>7. CASE CallbackStep \/ Tick \/ Terminated
  BY <1>1, <1>7 DEF CallbackStep, Tick, Terminated
<1> QED
  BY <1>3, <1>4, <1>5, <1>6, <1>7 DEF Next

\* The other steps tell the client nothing.
LEMMA OthersUntold ==
  ASSUME IInv, Next, ~SessionStep
  PROVE  /\ UNCHANGED <<active, accepting, generation, currentGeneration>>
         /\ section' = "start" <=> section = "start"
         /\ Untold
<1>1. UNCHANGED <<active, accepting, speakingEmitted, generation, session, currentGeneration>>
  BY SessionFrame DEF SessionStep, sessionVars, generations, StartBadVoice, ShutdownBegin
<1>2. section' = "start" <=> section = "start"
  BY SectionFrame DEF SessionStep
<1>3. LifecycleEvent' = NoEvent
  BY EventFrame DEF LifecycleEvent, Lifecycle
<1>4. Phase' = Phase
  BY <1>1, <1>2 DEF Phase
<1>5. UNCHANGED <<SessionName, Announced>>
  BY <1>1, <1>4 DEF SessionName, Announced
<1> QED
  BY <1>1, <1>2, <1>3, <1>4, <1>5 DEF Untold

\* And most of them leave the text where it is.
LEMMA OthersStill ==
  ASSUME IInv, Next, ~SessionStep, ~TextStep
  PROVE  UNCHANGED <<current, audioQueue, jobs, buffer, pushed>> /\ Held' = Held
<1>1. UNCHANGED <<current, audioQueue>>
  BY AudioFrame DEF SessionStep, TextStep, audioVars, ShutdownValidity, StopDevice,
    StopAudio, SetValidGeneration, CallbackStep, CallbackBegin, CallbackEnd
<1>2. UNCHANGED jobs
  BY QueueFrame DEF TextStep, queueVars, ShutdownJobs, StopQueue
<1>3. UNCHANGED <<buffer, pushed>>
  BY TextFrame DEF SessionStep, TextStep, textVars, Tick, Retire
<1>4. Held' = Held
  <2>1. generation' = generation
    BY OthersUntold
  <2>2. CASE UNCHANGED synthesisVars
    BY <2>1, <2>2 DEF synthesisVars, Held
  <2>3. CASE Synthesize \/ SynthesizeThrows \/ EnqueueFull
    BY <2>1, <2>3 DEF Synthesize, SynthesizeThrows, EnqueueFull, SynthesisGoes, Held,
      Unspoken
  <2>4. CASE SynthesisEnds \/ Report \/ Retire
    BY <2>4 DEF SynthesisEnds, Report, Retire, SynthesisGoes, Held, Unspoken
  <2> QED
    BY <2>2, <2>3, <2>4, SynthesisFrame DEF SynthesisStep, SessionStep, TextStep
<1> QED
  BY <1>1, <1>2, <1>3, <1>4

LEMMA StillSimulated ==
  ASSUME IInv, Next, ~SessionStep, ~TextStep
  PROVE  Session!Next
<1>1. UNCHANGED <<current, audioQueue, jobs, buffer, pushed>> /\ Held' = Held
  BY OthersStill
<1>2. generation' = generation /\ Untold /\ Phase' = Phase
  BY OthersUntold DEF Untold
<1>3. InAudio' = InAudio /\ InJobs' = InJobs /\ Rest(pushed)' = Rest(pushed)
  BY <1>1, <1>2, SameAudio, SameJobs, SameRest
<1>4. Pending' = Pending
  BY <1>2, <1>3, SamePending
<1> QED
  BY <1>2, <1>4, SilentStep

-----------------------------------------------------------------------------
\* Text that moves, text that is spoken and text that is given up.

LEMMA NothingMoves ==
  ASSUME Untold, UNCHANGED <<current, audioQueue, jobs, buffer, pushed, generation>>,
         Held' = Held
  PROVE  Session!Next
<1>1. InAudio' = InAudio /\ InJobs' = InJobs /\ Rest(pushed)' = Rest(pushed)
  BY SameAudio, SameJobs, SameRest
<1>2. Pending' = Pending
  BY <1>1, SamePending DEF Untold
<1> QED
  BY <1>2, SilentStep

LEMMA IdleSilence ==
  ASSUME Untold, Phase = "idle"
  PROVE  Session!Next
<1>1. Pending = <<>> /\ Pending' = <<>>
  BY DEF Pending, Untold
<1> QED
  BY <1>1, SilentStep

LEMMA NoClipNoText == ASSUME NEW g PROVE Own(NoClip, g) = <<>>
BY DEF Own, NoClip

\* Joining texts is associative.
LEMMA TextsAssociate == Associative(STRING)
BY AlwaysAssociative

Regroups(w, x, y, z) ==
  /\ w \o (x \o (y \o z)) = (w \o x) \o (y \o z)
  /\ (w \o (x \o y)) \o z = (w \o x) \o (y \o z)
  /\ w \o (x \o z) = (w \o x) \o z

LEMMA Regrouped ==
  ASSUME NEW S, NEW w \in Seq(S), NEW x \in Seq(S), NEW y \in Seq(S),
         NEW z \in Seq(S)
  PROVE  Regroups(w, x, y, z)
<1>0. Associative(S)
  BY AlwaysAssociative
<1>1. w \o x \in Seq(S)
  BY ConcatProperties
<1>2. y \o z \in Seq(S)
  BY ConcatProperties
<1>3. (w \o x) \o y = w \o (x \o y)
  BY <1>0, Zenon DEF Associative
<1>4. (w \o x) \o z = w \o (x \o z)
  BY <1>0, Zenon DEF Associative
<1>5. (w \o x) \o (y \o z) = w \o (x \o (y \o z))
  BY <1>0, <1>2, Zenon DEF Associative
<1>6. ((w \o x) \o y) \o z = (w \o x) \o (y \o z)
  BY <1>0, <1>1, Zenon DEF Associative
<1> QED
  BY <1>3, <1>4, <1>5, <1>6 DEF Regroups

LEMMA WithEmpty ==
  ASSUME NEW a \in Seq(STRING)
  PROVE  a \o <<>> = a /\ <<>> \o a = a
BY ConcatEmptySeq

\* The job that is held is given up.
LEMMA HeldGivenUp ==
  ASSUME IInv, SessionInv, Untold,
         UNCHANGED <<current, audioQueue, jobs, buffer, pushed, generation>>,
         Held' = <<>>,
         job.generation = generation /\ Phase # "idle" =>
           Phase = "interrupting" \/ ~Sayable(job.text)
  PROVE  Session!Next
<1>1. CASE Phase = "idle"
  BY <1>1, IdleSilence
<1>2. CASE Phase # "idle"
  <2> DEFINE J == OwnText(jobs, generation)
             R == Rest(pushed)
  <2>1. /\ InAudio \in Seq(STRING) /\ Held \in Seq(STRING) /\ J \in Seq(STRING)
        /\ R \in Seq(STRING) /\ J \o R \in Seq(STRING)
    BY PartsType, ConcatProperties
  <2>2. InAudio' = InAudio /\ R' = R /\ J' = J
    BY SameAudio, SameRest
  <2>3. Pending = InAudio \o ((Held \o J) \o R)
    BY <1>2 DEF Pending, InJobs
  <2>4. Pending' = InAudio \o ((<<>> \o J) \o R)
    BY <1>2, <2>2 DEF Pending, InJobs, Untold
  <2> HIDE DEF J, R
  <2>5. Pending = InAudio \o (Held \o (J \o R))
    BY <2>1, <2>3, TextsAssociate DEF Associative
  <2>6. Pending' = InAudio \o (J \o R)
    BY <2>1, <2>4, WithEmpty
  <2>7. \/ Held = <<>>
        \/ Phase = "interrupting"
        \/ Phase \in {"receiving", "finishing"} /\ Session!Omissible(Held)
    <3>1. Held = <<>> \/ (job.generation = generation /\ Held = job.text)
      BY DEF Held, Own
    <3>2. ~Sayable(job.text) => Session!Omissible(job.text)
      BY DEF Sayable, Session!Omissible
    <3> QED
      BY <1>2, <3>1, <3>2, PhaseFacts
  <2> QED
    BY <2>1, <2>5, <2>6, <2>7, LeftOut
<1> QED
  BY <1>1, <1>2

LEMMA CheckBeforeSimulated ==
  ASSUME IInv, SessionInv, Untold, generation' = generation, CheckBefore
  PROVE  Session!Next
<1>1. UNCHANGED <<current, audioQueue, jobs, buffer, pushed, job>>
  BY DEF CheckBefore, SynthesisGoes, audioVars, queueVars, textVars
<1>2. CASE synthesis' = "synthesize"
  <2>1. Held' = Held
    BY <1>1, <1>2 DEF CheckBefore, SynthesisGoes, Held, Unspoken
  <2> QED
    BY <1>1, <2>1, NothingMoves
<1>3. CASE ~JobIsCurrent /\ synthesis' = "retire"
  <2>1. Held' = <<>>
    BY <1>3 DEF Held, Unspoken
  <2>2. job.generation = generation /\ Phase # "idle" => Phase = "interrupting"
    BY <1>3, PhaseFacts DEF JobIsCurrent
  <2> QED
    BY <1>1, <2>1, <2>2, HeldGivenUp
<1> QED
  BY <1>2, <1>3 DEF CheckBefore, SynthesisGoes

LEMMA CheckAfterSimulated ==
  ASSUME IInv, SessionInv, Untold, generation' = generation, CheckAfter
  PROVE  Session!Next
<1>1. UNCHANGED <<current, audioQueue, jobs, buffer, pushed, job>>
      /\ synthesis = "synthesized"
  BY DEF CheckAfter, SynthesisGoes, audioVars, queueVars, textVars
<1>2. CASE synthesis' = "enqueue"
  <2>1. Held' = Held
    BY <1>1, <1>2 DEF Held, Unspoken
  <2> QED
    BY <1>1, <2>1, NothingMoves
<1>3. CASE ~(JobIsCurrent /\ pcm > 0) /\ synthesis' = "retire"
  <2>1. Held' = <<>>
    BY <1>3 DEF Held, Unspoken
  <2>2. pcm \in Nat
    BY DEF IInv, TypeOK, SynthesisTypeOK
  <2>3. job.generation = generation /\ Phase # "idle" =>
          Phase = "interrupting" \/ ~Sayable(job.text)
    <3>1. CASE ~JobIsCurrent
      BY <3>1, PhaseFacts DEF JobIsCurrent
    <3>2. CASE pcm = 0
      <4>1. SilenceHasReason
        BY DEF SessionInv
      <4> QED
        BY <1>1, <3>2, <4>1 DEF SilenceHasReason
    <3> QED
      BY <1>3, <2>2, <3>1, <3>2
  <2> QED
    BY <1>1, <2>1, <2>3, HeldGivenUp
<1> QED
  BY <1>2, <1>3 DEF CheckAfter, SynthesisGoes

LEMMA CheckFailureSimulated ==
  ASSUME IInv, SessionInv, Untold, generation' = generation, CheckFailure
  PROVE  Session!Next
<1>1. /\ UNCHANGED <<current, audioQueue, jobs, buffer, pushed, job>>
      /\ synthesis = "failed" /\ synthesis' \in {"report", "retire"}
  BY DEF CheckFailure, SynthesisGoes, audioVars, queueVars, textVars
<1>2. Held' = <<>>
  BY <1>1 DEF Held, Unspoken
<1>3. ~Sayable(job.text)
  BY <1>1 DEF SessionInv, SilenceHasReason
<1> QED
  BY <1>1, <1>2, <1>3, HeldGivenUp

LEMMA EnqueueTestSimulated ==
  ASSUME IInv, SessionInv, Untold, generation' = generation, EnqueueTest
  PROVE  Session!Next
<1>1. UNCHANGED <<current, audioQueue, jobs, buffer, pushed, job>>
      /\ synthesis = "enqueue"
  BY DEF EnqueueTest, SynthesisGoes, audioVars, queueVars, textVars
<1>2. CASE synthesis' = "enqueue_locked"
  <2>1. Held' = Held
    BY <1>1, <1>2 DEF Held, Unspoken
  <2> QED
    BY <1>1, <2>1, NothingMoves
<1>3. CASE ~MayEnqueue(job.generation) /\ synthesis' = "retire"
  <2>1. Held' = <<>>
    BY <1>3 DEF Held, Unspoken
  <2>2. job.generation = generation /\ Phase # "idle" => Phase = "interrupting"
    <3>1. audioStopping => Phase = "idle"
      BY PhaseFacts DEF SessionInv, ValidInOrder, IInv, SectionInv
    <3> QED
      BY <1>3, <3>1, PhaseFacts DEF MayEnqueue
  <2> QED
    BY <1>1, <2>1, <2>2, HeldGivenUp
<1> QED
  BY <1>2, <1>3 DEF EnqueueTest, SynthesisGoes

\* The commit loop.

\* What is pushed, or dropped, is the front of the buffer.
LEMMA FrontOfBuffer ==
  ASSUME IInv, pushed = 0, NextBytes > 0
  PROVE  /\ Rest(pushed) = buffer /\ buffer \in Seq(STRING)
         /\ Phrase \in Seq(STRING) /\ Rest(NextBytes) \in Seq(STRING)
         /\ buffer = Phrase \o Rest(NextBytes)
<1>1. buffer \in Seq(STRING) /\ TextTypeOK
  BY DEF IInv, TypeOK, TextTypeOK
<1>2. /\ NextBytes \in 1..Len(buffer) /\ Len(buffer) \in Nat
      /\ Phrase \in Seq(STRING) /\ Rest(NextBytes) \in Seq(STRING)
  BY <1>1, CutFacts
<1>3. /\ 1 \in 1..(Len(buffer) + 1) /\ NextBytes \in 0..Len(buffer)
      /\ Len(buffer) \in NextBytes..Len(buffer)
  BY <1>2
<1>4. SubSeq(buffer, 1, NextBytes) \o SubSeq(buffer, NextBytes + 1, Len(buffer))
        = SubSeq(buffer, 1, Len(buffer))
  <2> DEFINE n == NextBytes
  <2>1. 1 - 1 <= n /\ n \in (1 - 1)..Len(buffer) /\ Len(buffer) \in n..Len(buffer)
    BY <1>2
  <2> HIDE DEF n
  <2>2. SubSeq(buffer, 1, n) \o SubSeq(buffer, n + 1, Len(buffer))
          = SubSeq(buffer, 1, Len(buffer))
    BY <1>1, <1>3, <2>1, ConcatAdjacentSubSeq
  <2> QED
    BY <2>2 DEF n
<1>5. SubSeq(buffer, 1, Len(buffer)) = buffer
  BY <1>1, SubSeqFull
<1>6. Rest(pushed) = buffer
  BY <1>5 DEF Rest
<1> QED
  BY <1>1, <1>2, <1>4, <1>5, <1>6 DEF Phrase, Rest

\* A buffer nothing of which is pushed is all rest.
LEMMA RestOfNone ==
  ASSUME NEW b \in Seq(STRING), buffer' = b, pushed' = 0
  PROVE  Rest(pushed)' = b
<1>1. SubSeq(b, 1, Len(b)) = b
  BY SubSeqFull
<1> QED
  BY <1>1 DEF Rest

\* A commit is made in an open session that nobody cuts short.
LEMMA CommitIsOpen ==
  ASSUME IInv, SessionInv, Committing
  PROVE  Phase \in {"receiving", "finishing"}
<1>1. active /\ section # "start" /\ section \notin Cut
  BY DEF IInv, SectionInv, Committing, ReaderSections, MaintenanceSections, Cut
<1> QED
  BY <1>1, PhaseFacts DEF SessionInv, OpenIsCurrent

LEMMA CommitBlankSimulated ==
  ASSUME IInv, SessionInv, Untold, generation' = generation, CommitBlank
  PROVE  Session!Next
<1>1. /\ UNCHANGED <<current, audioQueue, jobs, job, synthesis, pushed>>
      /\ pushed = 0 /\ NextBytes > 0 /\ buffer' = Rest(NextBytes)
      /\ Committing /\ ~HasSpeakableText(Phrase)
  BY DEF CommitBlank, audioVars, queueVars, synthesisVars
<1>2. InAudio' = InAudio /\ InJobs' = InJobs
  BY <1>1, SameAudio, SameJobs DEF Held
<1>3. Phase \in {"receiving", "finishing"}
  BY <1>1, CommitIsOpen
<1> DEFINE a == InAudio \o InJobs
           R == Rest(NextBytes)
<1>4. /\ Rest(pushed) = Phrase \o R /\ Phrase \in Seq(STRING) /\ R \in Seq(STRING)
      /\ Phrase \o R \in Seq(STRING)
  BY <1>1, FrontOfBuffer, ConcatProperties
<1>5. Rest(pushed)' = R
  BY <1>1, <1>4, RestOfNone
<1>6. InAudio \in Seq(STRING) /\ InJobs \in Seq(STRING) /\ a \in Seq(STRING)
  BY PartsType, ConcatProperties
<1>7. Pending = InAudio \o (InJobs \o (Phrase \o R))
  BY <1>3, <1>4 DEF Pending
<1>8. Pending' = InAudio \o (InJobs \o R)
  BY <1>2, <1>3, <1>5 DEF Pending, Untold
<1> HIDE DEF R
<1>9. Pending = a \o (Phrase \o R) /\ Pending' = a \o R
  <2>1. Regroups(InAudio, InJobs, Phrase, R)
    BY <1>4, <1>6, Regrouped
  <2> QED
    BY <1>7, <1>8, <2>1 DEF Regroups
<1>10. Session!Omissible(Phrase)
  BY <1>1 DEF HasSpeakableText, AsciiSpace, Spaces, Session!Omissible, Session!Blank
<1> HIDE DEF a
<1> QED
  BY <1>3, <1>4, <1>6, <1>9, <1>10, LeftOut

LEMMA CommitPushSimulated ==
  ASSUME IInv, SessionInv, Untold, Next, generation' = generation, CommitPush
  PROVE  Session!Next
<1> DEFINE new == [generation |-> generation, session |-> session,
                   text |-> Phrase, voice |-> currentVoice]
           R == Rest(NextBytes)
           J == OwnText(jobs, generation)
<1>1. /\ UNCHANGED <<current, audioQueue, job, synthesis, buffer>>
      /\ pushed = 0 /\ NextBytes > 0 /\ pushed' = NextBytes /\ jobs' = Append(jobs, new)
      /\ Committing
  BY DEF CommitPush, Push, audioVars, synthesisVars
<1>2. InAudio' = InAudio /\ Held' = Held
  BY <1>1, SameAudio DEF Held
<1>3. /\ Rest(pushed) = Phrase \o R /\ Phrase \in Seq(STRING) /\ R \in Seq(STRING)
      /\ Phrase \o R \in Seq(STRING)
  BY <1>1, FrontOfBuffer, ConcatProperties
<1>4. Rest(pushed)' = R
  BY <1>1 DEF Rest
<1>5. OwnText(jobs, generation)' = J \o Phrase
  <2>1. jobs \in Seq(Jobs) /\ jobs' \in Seq(Jobs)
    BY QueuePreserved DEF IInv, TypeOK, QueueTypeOK
  <2>2. new \in Jobs
    <3>1. Len(jobs) \in Nat /\ Len(jobs') = Len(jobs) + 1 /\ jobs'[Len(jobs) + 1] = new
      BY <1>1, <2>1
    <3> QED
      BY <2>1, <3>1
  <2>3. Own(new, generation) = Phrase
    BY DEF Own
  <2> HIDE DEF new
  <2>4. OwnText(Append(jobs, new), generation) = J \o Own(new, generation)
    BY <2>1, <2>2, ClipsAndJobsHaveTexts, OwnTextAppend
  <2> QED
    BY <1>1, <2>3, <2>4 DEF OwnText
<1>6. /\ InAudio \in Seq(STRING) /\ Held \in Seq(STRING) /\ J \in Seq(STRING)
      /\ Held \o J \in Seq(STRING)
  BY PartsType, ConcatProperties
<1>7. InJobs = Held \o J /\ InJobs' = Held \o (J \o Phrase)
  BY <1>2, <1>5 DEF InJobs
<1> HIDE DEF R, J
<1>8. InJobs' \o R = InJobs \o (Phrase \o R)
  <2>1. Regroups(Held, J, Phrase, R)
    BY <1>3, <1>6, Regrouped
  <2> QED
    BY <1>7, <2>1 DEF Regroups
<1>9. Pending' = Pending
  BY <1>2, <1>3, <1>4, <1>8 DEF Pending, Untold
<1> QED
  BY <1>9, SilentStep

LEMMA CommitCountSimulated ==
  ASSUME IInv, SessionInv, Untold, generation' = generation, CommitCount
  PROVE  Session!Next
<1>1. /\ UNCHANGED <<current, audioQueue, jobs, job, synthesis>>
      /\ buffer' = Rest(pushed) /\ pushed' = 0
  BY DEF CommitCount, audioVars, queueVars, synthesisVars
<1>2. InAudio' = InAudio /\ InJobs' = InJobs
  BY <1>1, SameAudio, SameJobs DEF Held
<1>3. Rest(pushed)' = Rest(pushed)
  BY <1>1, PartsType, RestOfNone
<1>4. Pending' = Pending
  BY <1>2, <1>3, SamePending DEF Untold
<1> QED
  BY <1>4, SilentStep

-----------------------------------------------------------------------------
\* Text comes, and is thrown away.

LEMMA AppendSimulated ==
  ASSUME IInv, SessionInv, Untold, generation' = generation,
         NEW s \in Sessions, NEW text \in Texts, AppendText(s, text)
  PROVE  Session!Next
<1> DEFINE A == InAudio
           J == InJobs
<1>1. /\ UNCHANGED <<current, audioQueue, jobs, job, synthesis, pushed>>
      /\ section = "none" /\ active /\ accepting /\ buffer' = buffer \o text
  BY DEF AppendText, CanHandle, Receives, audioVars, queueVars, synthesisVars
<1>2. pushed = 0
  BY <1>1, CounterTypes DEF IInv, SectionInv, Committing
<1>3. Phase = "receiving"
  BY <1>1 DEF Phase, SessionInv, OpenIsCurrent, Cut
<1>4. buffer \in Seq(STRING) /\ text \in Seq(STRING) /\ buffer \o text \in Seq(STRING)
  BY RuntimeAssumption, ConcatProperties DEF IInv, TypeOK, TextTypeOK
<1>5. Rest(pushed) = buffer
  BY <1>2, <1>4, SubSeqFull DEF Rest
<1>6. Rest(pushed)' = buffer \o text
  BY <1>1, <1>2, <1>4, RestOfNone
<1>7. InAudio' = A /\ InJobs' = J
  BY <1>1, SameAudio, SameJobs DEF Held
<1>8. A \in Seq(STRING) /\ J \in Seq(STRING)
  BY PartsType
<1>9. Regroups(A, J, buffer, text)
  <2> HIDE DEF A, J
  <2> QED
    BY <1>4, <1>8, Regrouped
<1>10. Pending = A \o (J \o buffer) /\ Pending' = A \o (J \o (buffer \o text))
  BY <1>3, <1>5, <1>6, <1>7 DEF Pending, Untold
<1> HIDE DEF A, J
<1>11. Pending' = Pending \o text
  BY <1>9, <1>10 DEF Regroups
<1>12. Session!Accept(text)
  BY <1>3, <1>11 DEF Session!Accept, Untold, NoEvent, NoSession, Session!NoEvent,
    Session!NoSession
<1> QED
  BY <1>12 DEF Session!Next

LEMMA InterruptValiditySimulated ==
  ASSUME IInv, SessionInv, Untold, generation' = generation, InterruptValidity
  PROVE  Session!Next
<1> DEFINE a == InAudio \o InJobs
           R == Rest(pushed)
<1>1. /\ UNCHANGED <<current, audioQueue, jobs, job, synthesis, pushed>>
      /\ section = "interrupt_valid" /\ buffer' = <<>>
  BY DEF InterruptValidity, SetValidGeneration, queueVars, synthesisVars
<1>2. pushed = 0
  BY <1>1, CounterTypes DEF IInv, SectionInv, Committing
<1>3. Phase = "interrupting"
  BY <1>1, PhaseFacts, SoundTypes DEF IInv, SectionInv, ReaderSections, GenerationInv, Interrupting
<1>4. R' = <<>>
  BY <1>1, <1>2, EmptyText, RestOfNone
<1>5. InAudio' = InAudio /\ InJobs' = InJobs
  BY <1>1, SameAudio, SameJobs DEF Held
<1>6. /\ InAudio \in Seq(STRING) /\ InJobs \in Seq(STRING) /\ R \in Seq(STRING)
      /\ a \in Seq(STRING) /\ <<>> \in Seq(STRING)
  BY PartsType, EmptyText, ConcatProperties
<1>7. Pending = InAudio \o (InJobs \o R)
  BY <1>3 DEF Pending
<1>8. Pending' = InAudio \o (InJobs \o <<>>)
  BY <1>3, <1>4, <1>5 DEF Pending, Untold
<1> HIDE DEF R
<1>9. Regroups(InAudio, InJobs, R, R) /\ Regroups(InAudio, InJobs, R, <<>>)
  BY <1>6, Regrouped
<1>10. R \o <<>> = R
  BY <1>6, WithEmpty
<1>11. Pending = a \o (R \o <<>>) /\ Pending' = a \o <<>>
  BY <1>7, <1>8, <1>9, <1>10 DEF Regroups
<1> HIDE DEF a
<1> QED
  BY <1>3, <1>6, <1>11, LeftOut

LEMMA InterruptJobsSimulated ==
  ASSUME IInv, SessionInv, Untold, generation' = generation, InterruptJobs
  PROVE  Session!Next
<1> DEFINE J == OwnText(jobs, generation)
           R == Rest(pushed)
           A == InAudio
           H == Held
           a == A \o H
<1>1. /\ UNCHANGED <<current, audioQueue, job, synthesis, buffer, pushed>>
      /\ section = "interrupt_jobs" /\ jobs' = <<>>
  BY InterruptEmpties DEF InterruptJobs, audioVars, textVars, synthesisVars
<1>2. Phase = "interrupting"
  BY <1>1, PhaseFacts, SoundTypes DEF IInv, SectionInv, ReaderSections, GenerationInv, Interrupting
<1>3. A' = A /\ R' = R /\ H' = H
  BY <1>1, SameAudio, SameRest DEF Held
<1>4. J' = <<>>
  <2>1. OwnText(<<>>, generation) = <<>>
    BY OwnTextEmpty
  <2>2. OwnText(jobs', generation') = OwnText(<<>>, generation)
    BY <1>1
  <2> QED
    BY <2>1, <2>2 DEF OwnText
<1>5. /\ A \in Seq(STRING) /\ H \in Seq(STRING) /\ J \in Seq(STRING) /\ R \in Seq(STRING)
      /\ a \in Seq(STRING)
  BY PartsType, ConcatProperties
<1>6. Pending = A \o ((H \o J) \o R)
  BY <1>2 DEF Pending, InJobs
<1>7. Pending' = A \o ((H \o <<>>) \o R)
  BY <1>2, <1>3, <1>4 DEF Pending, InJobs, Untold
<1> HIDE DEF A, H, J, R
<1>8. Regroups(H, J, J, R) /\ Regroups(A, H, J, R)
  BY <1>5, Regrouped
<1>9. H \o <<>> = H
  BY <1>5, WithEmpty
<1>10. Pending = a \o (J \o R) /\ Pending' = a \o R
  BY <1>6, <1>7, <1>8, <1>9 DEF Regroups
<1> HIDE DEF a
<1> QED
  BY <1>2, <1>5, <1>10, LeftOut

-----------------------------------------------------------------------------
\* Text goes through the hands of the synthesis thread.

LEMMA TakeJobSimulated ==
  ASSUME IInv, SessionInv, Untold, generation' = generation, TakeJob
  PROVE  Session!Next
<1>1. /\ UNCHANGED <<current, audioQueue, buffer, pushed>>
      /\ synthesis = "pop" /\ synthesis' = "popped"
      /\ jobs # <<>> /\ jobs' = Tail(jobs) /\ job' = Head(jobs)
  BY DEF TakeJob, Pop, audioVars, textVars
<1> DEFINE first == Own(Head(jobs), generation)
           others == OwnText(Tail(jobs), generation)
<1>2. OwnText(jobs, generation) = first \o others
  BY <1>1, ClipsAndJobsHaveTexts, OwnTextTail DEF IInv, TypeOK, QueueTypeOK
<1>3. Held = <<>> /\ Held' = first
  BY <1>1 DEF Held, Unspoken, Own
<1>4. OwnText(jobs, generation)' = others
  BY <1>1 DEF OwnText
<1>5. OwnText(jobs, generation) \in Seq(STRING)
  BY PartsType
<1>6. InJobs = OwnText(jobs, generation)
  <2>1. InJobs = <<>> \o OwnText(jobs, generation)
    BY <1>3 DEF InJobs
  <2> QED
    BY <1>5, <2>1, WithEmpty
<1>7. InJobs' = InJobs
  BY <1>2, <1>3, <1>4, <1>6 DEF InJobs
<1>8. InAudio' = InAudio /\ Rest(pushed)' = Rest(pushed)
  BY <1>1, SameAudio, SameRest
<1>9. Pending' = Pending
  BY <1>7, <1>8, SamePending DEF Untold
<1> QED
  BY <1>9, SilentStep

LEMMA EnqueueClipSimulated ==
  ASSUME IInv, SessionInv, Untold, generation' = generation, EnqueueClip
  PROVE  Session!Next
<1> DEFINE clip == [generation |-> job.generation, frames |-> pcm, text |-> job.text]
           C == Own(current, generation)
           Q == OwnText(audioQueue, generation)
           H == Held
           J == OwnText(jobs, generation)
           R == Rest(pushed)
<1>1. /\ UNCHANGED <<current, jobs, job, buffer, pushed>>
      /\ synthesis = "enqueue_locked" /\ synthesis' = "announce"
      /\ audioQueue' = Append(audioQueue, clip)
  BY DEF EnqueueClip, PushClip, queueVars, textVars
<1>2. clip \in Clips /\ audioQueue \in Seq(Clips)
  <2>1. job \in Jobs /\ pcm \in Nat \ {0}
    BY <1>1 DEF IInv, TypeOK, SynthesisTypeOK, SynthesisInv
  <2> QED
    BY <2>1 DEF Jobs, Clips, IInv, TypeOK, AudioTypeOK
<1>3. Own(clip, generation) = H
  BY <1>1 DEF Held, Unspoken, Own
<1>4. Held' = <<>>
  BY <1>1 DEF Held, Unspoken
<1>5. OwnText(Append(audioQueue, clip), generation) = Q \o Own(clip, generation)
  <2> HIDE DEF clip
  <2> QED
    BY <1>2, ClipsAndJobsHaveTexts, OwnTextAppend
<1>6. OwnText(audioQueue, generation)' = Q \o H
  BY <1>1, <1>3, <1>5 DEF OwnText
<1>7. InAudio' = C \o (Q \o H)
  BY <1>1, <1>6 DEF InAudio, Own
<1>8. InJobs' = <<>> \o J /\ R' = R
  BY <1>1, <1>4, SameRest DEF InJobs, OwnText
<1>9. /\ C \in Seq(STRING) /\ Q \in Seq(STRING) /\ H \in Seq(STRING) /\ J \in Seq(STRING)
      /\ R \in Seq(STRING) /\ InAudio \in Seq(STRING)
  BY PartsType
<1>10. InAudio = C \o Q /\ InJobs = H \o J
  BY DEF InAudio, InJobs
<1> HIDE DEF C, Q, H, J, R, clip
<1>11. InAudio' = InAudio \o H
  <2>1. Regroups(C, Q, Q, H)
    BY <1>9, Regrouped
  <2> QED
    BY <1>7, <1>10, <2>1 DEF Regroups
<1>12. InAudio' \o (InJobs' \o R') = InAudio \o (InJobs \o R)
  <2>1. Regroups(InAudio, H, J, R) /\ Regroups(H, J, J, R)
    BY <1>9, Regrouped
  <2>2. <<>> \o J = J
    BY <1>9, WithEmpty
  <2>3. InAudio' \o (InJobs' \o R') = (InAudio \o H) \o (J \o R)
    BY <1>8, <1>11, <2>2
  <2>4. InJobs \o R = H \o (J \o R)
    BY <1>10, <2>1 DEF Regroups
  <2>5. InAudio \o (H \o (J \o R)) = (InAudio \o H) \o (J \o R)
    BY <2>1 DEF Regroups
  <2> QED
    BY <2>3, <2>4, <2>5
<1>13. Pending' = Pending
  BY <1>12 DEF Pending, Untold, R
<1> QED
  BY <1>13, SilentStep

-----------------------------------------------------------------------------
\* Text is spoken, or its clip is obsolete.

\* A callback holds no clip of an open session for obsolete.
LEMMA ObsoleteIsOver ==
  ASSUME IInv, SessionInv, callback.holds,
         NEW clip, clip.generation = generation, ~IsDrained(generation), Obsolete(clip)
  PROVE  Phase \in {"idle", "interrupting"}
<1>1. /\ generation \in Nat /\ validGeneration \in Nat /\ callback.valid \in Nat
  BY SoundTypes DEF IInv, TypeOK, AudioTypeOK
<1>2. active => generation <= callback.valid /\ callback.valid <= validGeneration
  BY DEF SessionInv, CallbackInOrder
<1>3. callback.valid # generation
  BY DEF Obsolete
<1> QED
  BY <1>1, <1>2, <1>3, PhaseFacts

LEMMA CallbackDropSimulated ==
  ASSUME IInv, SessionInv, Untold, generation' = generation, CallbackStep,
         CallbackDropCurrent
  PROVE  Session!Next
<1> DEFINE C == Own(current, generation)
           Q == OwnText(audioQueue, generation)
           J == InJobs
           R == Rest(pushed)
<1>1. /\ UNCHANGED <<audioQueue, jobs, job, synthesis, buffer, pushed>>
      /\ callback.holds /\ HasCurrent /\ Obsolete(current) /\ current' = NoClip
  BY DEF CallbackStep, CallbackDropCurrent, CallbackWantsMore, queueVars, textVars,
    synthesisVars
<1>2. C = <<>> \/ Phase \in {"idle", "interrupting"}
  <2>1. current.generation = generation => ~IsDrained(generation)
    BY <1>1 DEF IsDrained
  <2> QED
    BY <1>1, <2>1, ObsoleteIsOver DEF Own
<1>3. CASE Phase = "idle"
  BY <1>3, IdleSilence
<1>4. CASE Phase # "idle"
  <2>1. J' = J /\ R' = R
    BY <1>1, SameJobs, SameRest DEF Held
  <2>2. InAudio' = <<>> \o Q
    BY <1>1 DEF InAudio, OwnText, Own, NoClip
  <2>3. /\ C \in Seq(STRING) /\ Q \in Seq(STRING) /\ J \in Seq(STRING) /\ R \in Seq(STRING)
        /\ <<>> \in Seq(STRING) /\ J \o R \in Seq(STRING)
    BY PartsType, EmptyText, ConcatProperties
  <2>4. Pending = (C \o Q) \o (J \o R)
    BY <1>4 DEF Pending, InAudio
  <2>5. Pending' = (<<>> \o Q) \o (J \o R)
    BY <1>4, <2>1, <2>2 DEF Pending, Untold
  <2> HIDE DEF C, Q, J, R
  <2> DEFINE c == Q \o (J \o R)
  <2>6. c \in Seq(STRING) /\ C \o c \in Seq(STRING)
    BY <2>3, ConcatProperties
  <2>7. Regroups(C, Q, J, R)
    BY <2>3, Regrouped
  <2>8. Pending = C \o c
    BY <2>4, <2>7 DEF Regroups
  <2>9. Pending' = c
    BY <2>3, <2>5, WithEmpty
  <2> HIDE DEF c
  <2>10. Pending = <<>> \o (C \o c) /\ Pending' = <<>> \o c
    BY <2>6, <2>8, <2>9, WithEmpty
  <2> QED
    BY <1>2, <1>4, <2>3, <2>6, <2>10, LeftOut
<1> QED
  BY <1>3, <1>4

LEMMA CallbackTakeSimulated ==
  ASSUME IInv, SessionInv, Untold, generation' = generation, CallbackStep, CallbackTake
  PROVE  Session!Next
<1> DEFINE F == Own(Head(audioQueue), generation)
           O == OwnText(Tail(audioQueue), generation)
           Q == OwnText(audioQueue, generation)
           J == InJobs
           R == Rest(pushed)
<1>1. /\ UNCHANGED <<jobs, job, synthesis, buffer, pushed>>
      /\ callback.holds /\ current = NoClip
      /\ audioQueue # <<>> /\ audioQueue' = Tail(audioQueue)
      /\ IF Obsolete(Head(audioQueue)) THEN current' = current
         ELSE current' = Head(audioQueue)
  BY DEF CallbackStep, CallbackTake, CallbackWantsMore, HasCurrent, queueVars, textVars,
    synthesisVars
<1>2. /\ audioQueue \in Seq(Clips) /\ Head(audioQueue) \in Clips
      /\ Tail(audioQueue) \in Seq(Clips) /\ Head(audioQueue) = audioQueue[1]
      /\ 1 \in 1..Len(audioQueue)
  BY <1>1, HeadTailProperties, EmptySeq DEF IInv, TypeOK, AudioTypeOK
<1>3. Q = F \o O
  BY <1>1, <1>2, ClipsAndJobsHaveTexts, OwnTextTail
<1>4. /\ Q \in Seq(STRING) /\ J \in Seq(STRING) /\ R \in Seq(STRING)
      /\ F \in Seq(STRING) /\ O \in Seq(STRING) /\ J \o R \in Seq(STRING)
      /\ <<>> \in Seq(STRING)
  <2>1. F \in Seq(STRING)
    BY <1>2, ClipsAndJobsHaveTexts, OwnType DEF HaveTexts
  <2>2. O \in Seq(STRING)
    BY <1>2, ClipsAndJobsHaveTexts, OwnTextType
  <2> QED
    BY <2>1, <2>2, PartsType, EmptyText, ConcatProperties
<1>5. InAudio = Q
  <2>1. InAudio = <<>> \o Q
    BY <1>1 DEF InAudio, Own, NoClip
  <2> QED
    BY <1>4, <2>1, WithEmpty
<1>6. J' = J /\ R' = R
  BY <1>1, SameJobs, SameRest DEF Held
<1>7. OwnText(audioQueue, generation)' = O
  BY <1>1 DEF OwnText
<1>8. CASE ~Obsolete(Head(audioQueue))
  <2>1. InAudio' = F \o O
    BY <1>1, <1>7, <1>8 DEF InAudio, Own
  <2>2. InAudio' = InAudio
    BY <1>3, <1>5, <2>1
  <2>3. Pending' = Pending
    BY <1>6, <2>2, SamePending DEF Untold
  <2> QED
    BY <2>3, SilentStep
<1>9. CASE Obsolete(Head(audioQueue)) /\ Phase = "idle"
  BY <1>9, IdleSilence
<1>10. CASE Obsolete(Head(audioQueue)) /\ Phase # "idle"
  <2>1. F = <<>> \/ Phase = "interrupting"
    <3>1. Head(audioQueue).generation = generation => ~IsDrained(generation)
      BY <1>2 DEF IsDrained
    <3> QED
      BY <1>1, <1>10, <3>1, ObsoleteIsOver DEF Own
  <2>2. InAudio' = <<>> \o O
    <3>1. current' = NoClip
      BY <1>1, <1>10
    <3> QED
      BY <1>7, <3>1 DEF InAudio, Own, NoClip
  <2>3. Pending = (F \o O) \o (J \o R)
    BY <1>3, <1>5, <1>10 DEF Pending
  <2>4. Pending' = (<<>> \o O) \o (J \o R)
    BY <1>6, <1>10, <2>2 DEF Pending, Untold
  <2> HIDE DEF F, O, Q, J, R
  <2> DEFINE c == O \o (J \o R)
  <2>5. c \in Seq(STRING) /\ F \o c \in Seq(STRING)
    BY <1>4, ConcatProperties
  <2>6. Regroups(F, O, J, R)
    BY <1>4, Regrouped
  <2>7. Pending = F \o c
    BY <2>3, <2>6 DEF Regroups
  <2>8. Pending' = c
    BY <1>4, <2>4, WithEmpty
  <2> HIDE DEF c
  <2>9. Pending = <<>> \o (F \o c) /\ Pending' = <<>> \o c
    BY <2>5, <2>7, <2>8, WithEmpty
  <2> QED
    BY <1>4, <1>10, <2>1, <2>5, <2>9, LeftOut
<1> QED
  BY <1>8, <1>9, <1>10

LEMMA CallbackCopySimulated ==
  ASSUME IInv, SessionInv, Untold, generation' = generation, CallbackStep, CallbackCopy
  PROVE  Session!Next
<1> DEFINE C == Own(current, generation)
           Q == OwnText(audioQueue, generation)
           J == InJobs
           R == Rest(pushed)
<1>1. /\ UNCHANGED <<audioQueue, jobs, job, synthesis, buffer, pushed>>
      /\ current' = current \/ current' = NoClip
  BY DEF CallbackStep, CallbackCopy, queueVars, textVars, synthesisVars
<1>2. J' = J /\ R' = R
  BY <1>1, SameJobs, SameRest DEF Held
<1>3. CASE current' = current
  <2>1. InAudio' = InAudio
    BY <1>1, <1>3, SameAudio
  <2>2. Pending' = Pending
    BY <1>2, <2>1, SamePending DEF Untold
  <2> QED
    BY <2>2, SilentStep
<1>4. CASE Phase = "idle"
  BY <1>4, IdleSilence
<1>5. CASE current' = NoClip /\ Phase # "idle"
  <2>1. InAudio' = <<>> \o Q
    BY <1>1, <1>5 DEF InAudio, OwnText, Own, NoClip
  <2>2. /\ C \in Seq(STRING) /\ Q \in Seq(STRING) /\ J \in Seq(STRING) /\ R \in Seq(STRING)
        /\ J \o R \in Seq(STRING)
    BY PartsType, ConcatProperties
  <2>3. Pending = (C \o Q) \o (J \o R)
    BY <1>5 DEF Pending, InAudio
  <2>4. Pending' = (<<>> \o Q) \o (J \o R)
    BY <1>2, <1>5, <2>1 DEF Pending, Untold
  <2> HIDE DEF C, Q, J, R
  <2> DEFINE c == Q \o (J \o R)
  <2>5. c \in Seq(STRING)
    BY <2>2, ConcatProperties
  <2>6. Regroups(C, Q, J, R)
    BY <2>2, Regrouped
  <2>7. Pending = C \o c
    BY <2>3, <2>6 DEF Regroups
  <2>8. Pending' = c
    BY <2>2, <2>4, WithEmpty
  <2> HIDE DEF c
  <2> QED
    BY <1>5, <2>2, <2>5, <2>7, <2>8, TakenFirst
<1> QED
  BY <1>1, <1>3, <1>4, <1>5

\* Every step that moves text is a step of the session.
LEMMA TextSimulated ==
  ASSUME IInv, SessionInv, Next, ~SessionStep, TextStep
  PROVE  Session!Next
<1>1. Untold /\ generation' = generation
  BY OthersUntold
<1>2. CASE CommitBlank \/ CommitPush \/ CommitCount
  BY <1>1, <1>2, CommitBlankSimulated, CommitPushSimulated, CommitCountSimulated
<1>3. CASE \E s \in Sessions, text \in Texts : AppendText(s, text)
  BY <1>1, <1>3, AppendSimulated
<1>4. CASE InterruptValidity \/ InterruptJobs
  BY <1>1, <1>4, InterruptValiditySimulated, InterruptJobsSimulated
<1>5. CASE TakeJob \/ CheckBefore \/ CheckAfter \/ EnqueueTest \/ EnqueueClip \/ CheckFailure
  BY <1>1, <1>5, TakeJobSimulated, CheckBeforeSimulated, CheckAfterSimulated,
    EnqueueTestSimulated, EnqueueClipSimulated, CheckFailureSimulated
<1>6. CASE CallbackStep /\ (CallbackDropCurrent \/ CallbackTake \/ CallbackCopy)
  BY <1>1, <1>6, CallbackDropSimulated, CallbackTakeSimulated, CallbackCopySimulated
<1> QED
  BY <1>2, <1>3, <1>4, <1>5, <1>6 DEF TextStep

-----------------------------------------------------------------------------
\* The session begins, is announced, and ends.

\* A step that moves no text leaves the pending text of an open session.
LEMMA StillPending ==
  ASSUME UNCHANGED <<current, audioQueue, jobs, buffer, pushed, generation>>,
         Held' = Held, Phase # "idle", Phase' # "idle"
  PROVE  Pending' = Pending
<1>1. InAudio' = InAudio /\ InJobs' = InJobs /\ Rest(pushed)' = Rest(pushed)
  BY SameAudio, SameJobs, SameRest
<1> QED
  BY <1>1 DEF Pending

\* The text of a session nothing of which is left anywhere.
LEMMA NothingPending ==
  ASSUME IInv, IsDrained(generation), jobs = <<>>, buffer = <<>>, pushed = 0, Held = <<>>
  PROVE  InAudio = <<>> /\ InJobs = <<>> /\ Rest(pushed) = <<>>
<1>1. Own(current, generation) = <<>>
  BY DEF IsDrained, HasCurrent, Own, NoClip
<1>2. OwnText(audioQueue, generation) = <<>>
  BY SoundTypes, OwnTextNone DEF IsDrained
<1>3. OwnText(jobs, generation) = <<>>
  BY OwnTextEmpty
<1>4. Rest(pushed) = <<>>
  BY EmptyText, SubSeqFull DEF Rest
<1>5. <<>> \o <<>> = <<>>
  BY EmptyText, WithEmpty
<1> QED
  BY <1>1, <1>2, <1>3, <1>4, <1>5 DEF InAudio, InJobs

LEMMA StartSimulated ==
  ASSUME IInv, SessionInv, NEW s \in Sessions, NEW patch \in Patches, Start(s, patch)
  PROVE  Session!Next
<1>1. Phase = "idle" /\ Phase' = "idle"
  BY DEF Start, Phase
<1>2. LifecycleEvent' = NoEvent
  BY DEF Start, Quiet, LifecycleEvent, NoEvent
<1>3. Untold
  BY <1>1, <1>2 DEF Untold, SessionName, Announced
<1> QED
  BY <1>1, <1>3, IdleSilence

LEMMA StartReadySimulated ==
  ASSUME IInv, SessionInv, StartReady
  PROVE  Session!Next
<1>1. /\ UNCHANGED <<current, audioQueue, jobs, job, synthesis, buffer, pushed, generation,
                     active, accepting, speakingEmitted, session, currentGeneration>>
      /\ section = "start" /\ section' = "none"
      /\ event' = [type |-> "session_started", session |-> session]
  BY DEF StartReady, SetValidGeneration, Emit, queueVars, sessionVars, textVars,
    generations, synthesisVars
<1>2. /\ active /\ session \in Sessions /\ accepting /\ ~speakingEmitted
      /\ generation = currentGeneration
  BY <1>1 DEF IInv, SectionInv, ReaderSections, SessionInv, BeginsEmpty, OpenIsCurrent, Cut
<1>3. Phase = "idle" /\ Phase' = "receiving"
  BY <1>1, <1>2 DEF Phase
<1>4. Pending' = <<>>
  <2>1. Unheard(generation) /\ buffer = <<>> /\ pushed = 0
    BY <1>1 DEF SessionInv, BeginsEmpty
  <2>2. IsDrained(generation)
    BY <2>1 DEF Unheard, IsDrained
  <2>3. jobs = <<>>
    <3>1. Len(jobs) = 0
      BY <2>1, SoundTypes DEF Unheard
    <3> QED
      BY <3>1, SoundTypes, EmptySeq
  <2>4. Held = <<>>
    BY <2>1 DEF Unheard, Held, Own, NoJob
  <2>5. InAudio = <<>> /\ InJobs = <<>> /\ Rest(pushed) = <<>>
    BY <2>1, <2>2, <2>3, <2>4, NothingPending
  <2>6. InAudio' = <<>> /\ InJobs' = <<>> /\ Rest(pushed)' = <<>>
    BY <1>1, <2>5, SameAudio, SameJobs, SameRest DEF Held
  <2>7. <<>> \o (<<>> \o <<>>) = <<>>
    BY EmptyText, WithEmpty
  <2> QED
    BY <1>3, <2>6, <2>7 DEF Pending
<1>5. /\ SessionName' = session /\ Announced' = FALSE
      /\ LifecycleEvent' = [type |-> "session_started", session |-> session]
  BY <1>1, <1>2, <1>3 DEF SessionName, Announced, LifecycleEvent
<1>6. Session!Open(session)
  BY <1>3, <1>4, <1>5 DEF Session!Open
<1> QED
  BY <1>2, <1>6 DEF Session!Next

LEMMA FinishSimulated ==
  ASSUME IInv, SessionInv, NEW s \in Sessions, Finish(s)
  PROVE  Session!Next
<1>1. /\ UNCHANGED <<current, audioQueue, jobs, job, synthesis, buffer, pushed, generation,
                     active, speakingEmitted, session, currentGeneration>>
      /\ section = "none" /\ section' = "finish"
      /\ active /\ accepting /\ ~accepting'
      /\ event' = NoEvent
  BY DEF Finish, CanHandle, Receives, Quiet, audioVars, queueVars, textVars, generations,
    synthesisVars
<1>2. generation = currentGeneration
  BY <1>1 DEF SessionInv, OpenIsCurrent, Cut
<1>3. Phase = "receiving" /\ Phase' = "finishing"
  BY <1>1, <1>2 DEF Phase
<1>4. Pending' = Pending
  BY <1>1, <1>3, StillPending DEF Held
<1>5. /\ SessionName' = SessionName /\ Announced' = Announced
      /\ LifecycleEvent' = Session!NoEvent
  BY <1>1, <1>3 DEF SessionName, Announced, LifecycleEvent, NoEvent, NoSession,
    Session!NoEvent, Session!NoSession
<1>6. Session!Close
  BY <1>3, <1>4, <1>5 DEF Session!Close
<1> QED
  BY <1>6 DEF Session!Next

\* A command, or the end of the program, makes the generation obsolete.
LEMMA OvertakenSimulated ==
  ASSUME IInv, SessionInv, active, section = "none",
         UNCHANGED <<current, audioQueue, jobs, job, synthesis, buffer, pushed, generation,
                     active, speakingEmitted, session>>,
         currentGeneration' = currentGeneration + 1,
         section' \in Cut, event' = NoEvent
  PROVE  Session!Next
<1>1. /\ generation = currentGeneration /\ generation \in Nat
  BY SoundTypes DEF SessionInv, OpenIsCurrent, Cut
<1>2. Phase \in {"receiving", "finishing"} /\ Phase' = "interrupting"
  BY <1>1 DEF Phase, Cut
<1>3. Pending' = Pending
  BY <1>2, StillPending DEF Held
<1>4. /\ SessionName' = SessionName /\ Announced' = Announced
      /\ LifecycleEvent' = Session!NoEvent
  BY <1>2 DEF SessionName, Announced, LifecycleEvent, NoEvent, NoSession,
    Session!NoEvent, Session!NoSession
<1>5. Session!Interrupt
  BY <1>2, <1>3, <1>4 DEF Session!Interrupt
<1> QED
  BY <1>5 DEF Session!Next

LEMMA InterruptSimulated ==
  ASSUME IInv, SessionInv, NEW s \in Sessions, Interrupt(s)
  PROVE  Session!Next
<1>1. /\ UNCHANGED <<current, audioQueue, jobs, job, synthesis, buffer, pushed, generation,
                     active, speakingEmitted, session>>
      /\ section = "none" /\ section' = "interrupt_valid"
      /\ active /\ currentGeneration' = currentGeneration + 1 /\ event' = NoEvent
  BY DEF Interrupt, CanHandle, Quiet, audioVars, queueVars, sessionVars, textVars,
    synthesisVars
<1>2. section' \in Cut
  BY <1>1 DEF Cut
<1> QED
  BY <1>1, <1>2, OvertakenSimulated

LEMMA ShutdownSimulated ==
  ASSUME IInv, SessionInv, Shutdown
  PROVE  Session!Next
<1>1. /\ UNCHANGED <<current, audioQueue, jobs, job, synthesis, buffer, pushed, generation,
                     active, speakingEmitted, session>>
      /\ section = "none" /\ section' = "shutdown_valid"
      /\ currentGeneration' = currentGeneration + 1 /\ event' = NoEvent
  BY DEF Shutdown, Quiet, audioVars, queueVars, sessionVars, textVars, synthesisVars
<1>2. section' \in Cut
  BY <1>1 DEF Cut
<1>3. CASE active
  BY <1>1, <1>2, <1>3, OvertakenSimulated
<1>4. CASE ~active
  <2>1. Phase = "idle" /\ Phase' = "idle"
    BY <1>1, <1>4 DEF Phase
  <2>2. Untold
    BY <1>1, <2>1 DEF Untold, SessionName, Announced, LifecycleEvent, NoEvent
  <2> QED
    BY <2>1, <2>2, IdleSilence
<1> QED
  BY <1>3, <1>4

\* The session is gone.
LEMMA GoneSimulated ==
  ASSUME Phase = "interrupting", ~active',
         \/ event' = NoEvent
         \/ event' = [type |-> "interrupted", session |-> session]
  PROVE  Session!Next
<1>1. Phase' = "idle"
  BY DEF Phase
<1>2. /\ SessionName = session /\ SessionName' = NoSession /\ Announced' = FALSE
      /\ Pending' = <<>>
  BY <1>1 DEF SessionName, Announced, Pending
<1>3. \/ LifecycleEvent' = NoEvent
      \/ LifecycleEvent' = [type |-> "interrupted", session |-> session]
  BY DEF LifecycleEvent
<1>4. Session!Interrupted
  BY <1>1, <1>2, <1>3 DEF Session!Interrupted, Session!Tell, NoEvent, NoSession,
    Session!NoEvent, Session!NoSession
<1> QED
  BY <1>4 DEF Session!Next

LEMMA InterruptAudioSimulated ==
  ASSUME IInv, SessionInv, InterruptAudio
  PROVE  Session!Next
<1>1. /\ ~active' /\ event' = [type |-> "interrupted", session |-> session]
      /\ section = "interrupt_audio"
  BY DEF InterruptAudio, Emit
<1>2. Phase = "interrupting"
  BY <1>1, PhaseFacts, SoundTypes DEF IInv, SectionInv, ReaderSections, GenerationInv, Interrupting
<1> QED
  BY <1>1, <1>2, GoneSimulated

LEMMA ShutdownAudioSimulated ==
  ASSUME IInv, SoundInv, SessionInv, ShutdownAudio
  PROVE  Session!Next
<1>1. ~active' /\ event' = NoEvent /\ section = "shutdown_audio"
  BY DEF ShutdownAudio, Quiet
<1>2. CASE active
  <2>1. generation < validGeneration /\ validGeneration <= currentGeneration
    BY <1>1 DEF SoundInv, Overtaken, SessionInv, ValidInOrder
  <2>2. Phase = "interrupting"
    BY <1>1, <1>2, <2>1, PhaseFacts, SoundTypes
  <2> QED
    BY <1>1, <2>2, GoneSimulated
<1>3. CASE ~active
  <2>1. Phase = "idle" /\ Phase' = "idle"
    BY <1>1, <1>3 DEF Phase
  <2>2. Untold
    BY <1>1, <2>1 DEF Untold, SessionName, Announced, LifecycleEvent, NoEvent
  <2> QED
    BY <2>1, <2>2, IdleSilence
<1> QED
  BY <1>2, <1>3

LEMMA DrainFinishedSimulated ==
  ASSUME IInv, SessionInv, DrainFinished
  PROVE  Session!Next
<1>1. /\ section = "drained" /\ IsDrained(generation) /\ ~active'
      /\ event' = [type |-> "finished", session |-> session]
  BY DEF DrainFinished, Emit
<1>2. active /\ buffer = <<>> /\ jobs = <<>> /\ job = NoJob
  BY <1>1 DEF IInv, SectionInv, MaintenanceSections, EmptiedInv
<1>3. ~accepting /\ generation = currentGeneration
  BY <1>1, <1>2 DEF SessionInv, DrainedIsClosed, OpenIsCurrent, Cut
<1>4. Phase = "finishing" /\ Phase' = "idle"
  BY <1>1, <1>2, <1>3 DEF Phase
<1>5. Pending = <<>> /\ Pending' = <<>>
  <2>1. pushed = 0
    BY <1>2, CounterTypes, EmptyText
  <2>2. Held = <<>>
    BY <1>2 DEF Held, Own, NoJob
  <2>3. InAudio = <<>> /\ InJobs = <<>> /\ Rest(pushed) = <<>>
    BY <1>1, <1>2, <2>1, <2>2, NothingPending
  <2>4. <<>> \o (<<>> \o <<>>) = <<>>
    BY EmptyText, WithEmpty
  <2> QED
    BY <1>4, <2>3, <2>4 DEF Pending
<1>6. /\ SessionName = session /\ SessionName' = NoSession /\ Announced' = FALSE
      /\ LifecycleEvent' = [type |-> "finished", session |-> session]
  BY <1>1, <1>4 DEF SessionName, Announced, LifecycleEvent
<1>7. Session!Complete
  BY <1>4, <1>5, <1>6 DEF Session!Complete, Session!Tell, NoSession, Session!NoSession
<1> QED
  BY <1>7 DEF Session!Next

LEMMA AnnounceSimulated ==
  ASSUME IInv, SessionInv, Announce
  PROVE  Session!Next
<1>1. /\ UNCHANGED <<current, audioQueue, jobs, buffer, pushed, generation, active,
                     accepting, session, currentGeneration>>
      /\ section = "none" /\ section' = "none"
      /\ synthesis = "announce" /\ synthesis' = "retire"
      /\ speakingEmitted' = (speakingEmitted \/ IsFirstAudio)
      /\ event' = IF IsFirstAudio THEN [type |-> "speaking", session |-> session] ELSE NoEvent
  BY DEF Announce, Emit, Quiet, audioVars, queueVars, textVars, generations
<1>2. Phase' = Phase /\ SessionName' = SessionName
  BY <1>1 DEF Phase, SessionName
<1>3. Held' = <<>> /\ Held = <<>>
  BY <1>1 DEF Held, Unspoken
<1>4. Pending' = Pending
  BY <1>1, <1>2, <1>3, StillPending DEF Pending
<1>5. CASE ~IsFirstAudio
  <2>1. Untold
    BY <1>1, <1>2, <1>5 DEF Untold, Announced, LifecycleEvent, NoEvent, IInv, TypeOK,
      SessionTypeOK
  <2> QED
    BY <1>4, <2>1, SilentStep
<1>6. CASE IsFirstAudio
  <2>1. active /\ ~speakingEmitted /\ generation = currentGeneration
    BY <1>1, <1>6 DEF IsFirstAudio, SessionInv, OpenIsCurrent, Cut
  <2>2. Phase \in {"receiving", "finishing"}
    BY <1>1, <2>1 DEF Phase
  <2>3. /\ SessionName = session /\ ~Announced /\ Announced'
        /\ LifecycleEvent' = [type |-> "speaking", session |-> session]
    BY <1>1, <1>2, <1>6, <2>1, <2>2 DEF SessionName, Announced, LifecycleEvent
  <2>4. Session!Announce
    BY <1>2, <1>4, <2>2, <2>3 DEF Session!Announce, Session!Tell, Announced
  <2> QED
    BY <2>4 DEF Session!Next
<1> QED
  BY <1>5, <1>6

LEMMA SessionSimulated ==
  ASSUME IInv, SoundInv, SessionInv, SessionStep
  PROVE  Session!Next
BY StartSimulated, StartReadySimulated, FinishSimulated, InterruptSimulated,
  InterruptAudioSimulated, ShutdownSimulated, ShutdownAudioSimulated,
  DrainFinishedSimulated, AnnounceSimulated DEF SessionStep

\* The initial states are those of a session, and every step is a step of it.
LEMMA InitSimulated == Init => Session!Init
<1> SUFFICES ASSUME Init PROVE Session!Init
  OBVIOUS
<1>1. ~active /\ event = NoEvent
  BY DEF Init
<1>2. Phase = "idle"
  BY <1>1 DEF Phase
<1>3. SessionName = NoSession /\ Pending = <<>> /\ Announced = FALSE /\ LifecycleEvent = NoEvent
  BY <1>1, <1>2 DEF SessionName, Pending, Announced, LifecycleEvent, NoEvent
<1> QED
  BY <1>2, <1>3 DEF Session!Init, NoEvent, NoSession, Session!NoEvent, Session!NoSession

LEMMA NextSimulated ==
  IInv /\ SoundInv /\ SessionInv /\ [Next]_vars => [Session!Next]_(Session!vars)
<1>1. ASSUME IInv, SoundInv, SessionInv, Next PROVE Session!Next
  BY <1>1, SessionSimulated, TextSimulated, StillSimulated
<1>2. ASSUME UNCHANGED vars PROVE UNCHANGED Session!vars
  <2>1. UNCHANGED <<active, accepting, speakingEmitted, generation, session,
                    currentGeneration, section, event, current, audioQueue, jobs, buffer,
                    pushed, job, synthesis>>
    BY <1>2 DEF vars, queueVars, audioVars, sessionVars, textVars, generations,
      synthesisVars
  <2>2. Phase' = Phase /\ LifecycleEvent' = LifecycleEvent
    BY <2>1 DEF Phase, LifecycleEvent
  <2>3. InAudio' = InAudio /\ InJobs' = InJobs /\ Rest(pushed)' = Rest(pushed)
    BY <2>1, SameAudio, SameJobs, SameRest DEF Held
  <2>4. Pending' = Pending
    BY <2>2, <2>3, SamePending
  <2>5. SessionName' = SessionName /\ Announced' = Announced
    BY <2>1, <2>2 DEF SessionName, Announced
  <2> QED
    BY <2>2, <2>4, <2>5 DEF Session!vars
<1> QED
  BY <1>1, <1>2

-----------------------------------------------------------------------------
\* The clips of an open session are played.

OwnMarks(s, g) == [i \in 1..Len(s) |-> IsOwn(s[i], g)]

LEMMA OwnMarksType ==
  ASSUME NEW S, NEW s \in Seq(S), NEW g
  PROVE  /\ OwnMarks(s, g) \in Seq(Nat) /\ Len(OwnMarks(s, g)) = Len(s)
         /\ Total(OwnMarks(s, g)) \in Nat
<1>1. Len(s) \in Nat
  BY LenProperties
<1>2. OwnMarks(s, g) \in Seq(Nat)
  BY <1>1, IsASeq DEF OwnMarks, IsOwn
<1> QED
  BY <1>1, <1>2, LenProperties, TotalType DEF OwnMarks

LEMMA OwnMarksAppend ==
  ASSUME NEW S, NEW s \in Seq(S), NEW x \in S, NEW g
  PROVE  Total(OwnMarks(Append(s, x), g)) = Total(OwnMarks(s, g)) + IsOwn(x, g)
<1> DEFINE more == Append(s, x)
<1>1. /\ more \in Seq(S)
      /\ Len(s) \in Nat /\ Len(more) = Len(s) + 1
      /\ \A i \in 1..Len(s) : more[i] = s[i]
      /\ more[Len(s) + 1] = x
  BY LenProperties, AppendProperties
<1>2. /\ OwnMarks(s, g) \in Seq(Nat) /\ OwnMarks(more, g) \in Seq(Nat)
      /\ Len(OwnMarks(s, g)) = Len(s) /\ Len(OwnMarks(more, g)) = Len(s) + 1
  BY <1>1, OwnMarksType
<1>3. /\ \A i \in 1..Len(s) : OwnMarks(more, g)[i] = OwnMarks(s, g)[i]
      /\ OwnMarks(more, g)[Len(s) + 1] = IsOwn(x, g)
  BY <1>1 DEF OwnMarks
<1> HIDE DEF more
<1> QED
  BY <1>2, <1>3, TotalAppend DEF more

LEMMA OwnMarksTail ==
  ASSUME NEW S, NEW s \in Seq(S), s # <<>>, NEW g
  PROVE  Total(OwnMarks(s, g)) = IsOwn(Head(s), g) + Total(OwnMarks(Tail(s), g))
<1>1. /\ Len(s) \in Nat \ {0}
      /\ Head(s) = s[1]
      /\ Tail(s) \in Seq(S)
      /\ Len(Tail(s)) = Len(s) - 1
      /\ \A i \in 1..(Len(s) - 1) : Tail(s)[i] = s[i + 1]
  BY HeadTailProperties, LenProperties, EmptySeq
<1> DEFINE f == OwnMarks(s, g)
           h == OwnMarks(Tail(s), g)
<1>2. /\ f \in Seq(Nat) /\ Len(f) = Len(s)
      /\ \A i \in 1..Len(s) : f[i] = IsOwn(s[i], g)
  BY <1>1, OwnMarksType DEF OwnMarks
<1>3. /\ h \in Seq(Nat) /\ Len(h) = Len(s) - 1
      /\ \A i \in 1..(Len(s) - 1) : h[i] = IsOwn(s[i + 1], g)
  BY <1>1, OwnMarksType DEF OwnMarks
<1>4. f # <<>>
  BY <1>1, <1>2, EmptySeq
<1> HIDE DEF f, h
<1>5. /\ Head(f) = f[1] /\ Tail(f) \in Seq(Nat)
      /\ Len(Tail(f)) = Len(s) - 1
      /\ \A i \in 1..(Len(s) - 1) : Tail(f)[i] = f[i + 1]
  BY <1>2, <1>4, HeadTailProperties
<1>6. Tail(f) = h
  <2>1. \A i \in 1..(Len(s) - 1) : Tail(f)[i] = h[i]
    BY <1>1, <1>2, <1>3, <1>5
  <2> QED
    BY <1>3, <1>5, <2>1, SeqEqual
<1>7. Total(f) = Head(f) + Total(h)
  BY <1>2, <1>4, <1>6, TotalTail
<1>8. Head(f) = IsOwn(Head(s), g)
  BY <1>1, <1>2, <1>5
<1> QED
  BY <1>7, <1>8 DEF f, h

\* The count of a session's clips, in the queue and in the hands of the device.
OwnQueued == Total(OwnMarks(audioQueue, generation))
OwnPlaying == IF HasCurrent THEN IsOwn(current, generation) ELSE 0

LEMMA OwnClipsParts ==
  ASSUME IInv
  PROVE  /\ OwnClips = OwnQueued + OwnPlaying
         /\ OwnQueued \in Nat /\ OwnPlaying \in Nat
<1>1. OwnQueued \in Nat
  BY OwnMarksType DEF IInv, TypeOK, AudioTypeOK, OwnQueued
<1>2. OwnPlaying \in Nat
  BY DEF OwnPlaying, IsOwn
<1> QED
  BY <1>1, <1>2 DEF OwnClips, OwnQueued, OwnPlaying, OwnMarks

LEMMA ClipsCounted ==
  ASSUME audioQueue' \in Seq(Clips)
  PROVE  OwnClips' \in Nat
<1>1. Total(OwnMarks(audioQueue', generation')) \in Nat
  BY OwnMarksType
<1> QED
  BY <1>1 DEF OwnClips, OwnMarks, IsOwn

LEMMA SameClips ==
  ASSUME UNCHANGED <<audioQueue, current, generation>>
  PROVE  OwnClips' = OwnClips
BY DEF OwnClips, HasCurrent, IsOwn

\* While a session is open, nobody clears the audio.
LEMMA AudioNotCleared ==
  ASSUME IInv, SoundInv, SessionInv, Next, Phase \in {"receiving", "finishing"}
  PROVE  /\ generation' = generation
         /\ ~InterruptAudio /\ ~ShutdownAudio
<1>1. /\ active /\ generation = currentGeneration /\ validGeneration = generation
      /\ generation \in Nat
  BY PhaseFacts, SoundTypes
<1>2. generation' = generation
  BY <1>1, SessionGoesOn DEF Start
<1>3. ~InterruptAudio
  BY <1>1 DEF InterruptAudio, IInv, GenerationInv, Interrupting
<1>4. ~ShutdownAudio
  BY <1>1 DEF ShutdownAudio, SoundInv, Overtaken
<1> QED
  BY <1>2, <1>3, <1>4

LEMMA EnqueueKeepsClips ==
  ASSUME IInv, EnqueueClip, generation' = generation
  PROVE  OwnClips' >= OwnClips
<1> DEFINE clip == [generation |-> job.generation, frames |-> pcm, text |-> job.text]
<1>1. audioQueue' = Append(audioQueue, clip) /\ current' = current
  BY DEF EnqueueClip, PushClip
<1>2. clip \in Clips /\ audioQueue \in Seq(Clips)
  <2>1. job \in Jobs /\ pcm \in Nat \ {0}
    BY DEF EnqueueClip, IInv, TypeOK, SynthesisTypeOK, SynthesisInv
  <2> QED
    BY <2>1 DEF Jobs, Clips, IInv, TypeOK, AudioTypeOK
<1> HIDE DEF clip
<1>3. OwnQueued' = OwnQueued + IsOwn(clip, generation)
  <2>1. Total(OwnMarks(Append(audioQueue, clip), generation))
          = Total(OwnMarks(audioQueue, generation)) + IsOwn(clip, generation)
    BY <1>2, OwnMarksAppend
  <2> QED
    BY <1>1, <2>1 DEF OwnQueued, OwnMarks
<1>4. OwnPlaying' = OwnPlaying
  BY <1>1 DEF OwnPlaying, HasCurrent, IsOwn
<1>5. OwnClips' = OwnQueued' + OwnPlaying'
  BY DEF OwnClips, OwnQueued, OwnPlaying, OwnMarks
<1>6. IsOwn(clip, generation) \in Nat
  BY DEF IsOwn
<1> QED
  BY <1>3, <1>4, <1>5, <1>6, OwnClipsParts

LEMMA DropKeepsClips ==
  ASSUME IInv, SessionInv, Phase \in {"receiving", "finishing"}, generation' = generation,
         CallbackDropCurrent
  PROVE  OwnClips' = OwnClips
<1>1. /\ audioQueue' = audioQueue /\ current' = NoClip /\ HasCurrent
      /\ callback.holds /\ Obsolete(current)
  BY DEF CallbackDropCurrent, CallbackWantsMore
<1>2. current.generation # generation
  <2>1. current.generation = generation => ~IsDrained(generation)
    BY <1>1 DEF IsDrained
  <2> QED
    BY <1>1, <2>1, ObsoleteIsOver
<1>3. OwnPlaying = 0 /\ OwnPlaying' = 0
  BY <1>1, <1>2 DEF OwnPlaying, IsOwn, HasCurrent
<1>4. OwnQueued' = OwnQueued
  BY <1>1 DEF OwnQueued, OwnMarks, IsOwn
<1>5. OwnClips' = OwnQueued' + OwnPlaying'
  BY DEF OwnClips, OwnQueued, OwnPlaying, OwnMarks
<1> QED
  BY <1>3, <1>4, <1>5, OwnClipsParts

LEMMA TakeKeepsClips ==
  ASSUME IInv, SessionInv, Phase \in {"receiving", "finishing"}, generation' = generation,
         CallbackTake
  PROVE  OwnClips' = OwnClips
<1> DEFINE head == Head(audioQueue)
<1>1. /\ audioQueue # <<>> /\ audioQueue' = Tail(audioQueue) /\ ~HasCurrent /\ callback.holds
      /\ IF Obsolete(head) THEN current' = current ELSE current' = head
  BY DEF CallbackTake, CallbackWantsMore
<1>2. /\ audioQueue \in Seq(Clips) /\ head \in Clips /\ head = audioQueue[1]
      /\ 1 \in 1..Len(audioQueue)
  BY <1>1, HeadTailProperties, EmptySeq DEF IInv, TypeOK, AudioTypeOK
<1>3. OwnQueued = IsOwn(head, generation) + OwnQueued'
  <2>1. Total(OwnMarks(audioQueue, generation))
          = IsOwn(head, generation) + Total(OwnMarks(Tail(audioQueue), generation))
    BY <1>1, <1>2, OwnMarksTail
  <2> QED
    BY <1>1, <2>1 DEF OwnQueued, OwnMarks
<1>4. OwnPlaying' = IsOwn(head, generation)
  <2>1. CASE Obsolete(head)
    <3>1. head.generation = generation => ~IsDrained(generation)
      BY <1>2 DEF IsDrained
    <3>2. head.generation # generation
      BY <1>1, <2>1, <3>1, ObsoleteIsOver
    <3> HIDE DEF head
    <3>3. ~HasCurrent'
      BY <1>1, <2>1 DEF HasCurrent
    <3> QED
      BY <3>2, <3>3 DEF OwnPlaying, IsOwn
  <2>2. CASE ~Obsolete(head)
    <3> HIDE DEF head
    <3>1. current' = head
      BY <1>1, <2>2
    <3>2. head # NoClip
      BY <1>2 DEF Clips, NoClip
    <3> QED
      BY <3>1, <3>2 DEF OwnPlaying, HasCurrent, IsOwn
  <2> QED
    BY <2>1, <2>2
<1>5. OwnPlaying = 0
  BY <1>1 DEF OwnPlaying
<1>6. OwnClips' = OwnQueued' + OwnPlaying'
  BY DEF OwnClips, OwnQueued, OwnPlaying, OwnMarks
<1>7. IsOwn(head, generation) \in Nat
  BY DEF IsOwn
<1>8. OwnQueued' \in Nat
  <2>1. Tail(audioQueue) \in Seq(Clips)
    BY <1>1, <1>2, HeadTailProperties
  <2>2. Total(OwnMarks(Tail(audioQueue), generation)) \in Nat
    BY <2>1, OwnMarksType
  <2> QED
    BY <1>1, <2>2 DEF OwnQueued, OwnMarks
<1> HIDE DEF head
<1> QED
  BY <1>3, <1>4, <1>5, <1>6, <1>7, <1>8, OwnClipsParts

LEMMA CopyWrites ==
  ASSUME IInv, CallbackCopy
  PROVE  callback'.written > callback.written
<1>1. /\ HasCurrent /\ callback.written < CallbackFrames
      /\ callback' = [callback EXCEPT !.written = @ + CopiedFrames]
  BY DEF CallbackCopy, CallbackWantsMore
<1>2. /\ RemainingFrames \in Nat /\ RemainingFrames > 0
      /\ callback \in [holds : BOOLEAN, valid : Nat, written : 0..CallbackFrames]
      /\ callback.written \in Nat /\ CallbackFrames \in Nat
  BY <1>1, AudioInvParts, SoundTypes, AudioAssumption DEF IInv, TypeOK, AudioTypeOK
<1>3. CopiedFrames \in Nat /\ CopiedFrames > 0
  BY <1>1, <1>2 DEF CopiedFrames, Lesser
<1>4. callback'.written = callback.written + CopiedFrames
  BY <1>1, <1>2
<1> QED
  BY <1>2, <1>3, <1>4

LEMMA ClipsPlayed ==
  ASSUME IInv, SoundInv, SessionInv, Next, OwnClips' < OwnClips,
         Phase \in {"receiving", "finishing"}
  PROVE  callback'.written > callback.written
<1>1. generation' = generation /\ ~InterruptAudio /\ ~ShutdownAudio
  BY AudioNotCleared
<1>2. OwnClips \in Nat
  BY OwnClipsParts
<1>3. ~(OwnClips' = OwnClips) /\ ~(OwnClips' >= OwnClips)
  <2>1. audioQueue' \in Seq(Clips)
    BY NextIInv DEF IInv, TypeOK, AudioTypeOK
  <2>2. OwnClips' \in Nat
    BY <2>1, ClipsCounted
  <2> QED
    BY <1>2, <2>2
<1>4. ~UNCHANGED <<audioQueue, current>>
  BY <1>1, <1>3, SameClips
<1>5. ~EnqueueClip
  BY <1>1, <1>3, EnqueueKeepsClips
<1>6. CallbackStep
  BY <1>1, <1>4, <1>5, AudioFrame DEF audioVars, StartReady, InterruptValidity,
    ShutdownValidity, SetValidGeneration, StopDevice, StopAudio
<1>7. CallbackCopy
  BY <1>1, <1>3, <1>4, <1>6, DropKeepsClips, TakeKeepsClips DEF CallbackStep,
    CallbackBegin, CallbackEnd
<1> QED
  BY <1>7, CopyWrites

\* Whatever the reader, the maintenance thread, the synthesis thread and the device
\* callback do between each other's steps, a client sees one session after another:
\* what it appends is spoken in order and but once, nothing but blanks and what the
\* engine cannot say is left out, no clip is given up before it was played, and
\* `finished` comes when all is said.
THEOREM SessionImplemented == Spec => ImplementsSession
<1>1. IInv /\ SoundInv /\ SessionInv /\ [Next]_vars
        => [OwnClips' < OwnClips /\ Phase \in {"receiving", "finishing"}
              => callback'.written > callback.written]_vars
  BY ClipsPlayed
<1>2. Spec => Session!Spec
  BY Inductive, InitSound, NextSound, InitSession, NextSession, InitSimulated,
    NextSimulated, PTL DEF Spec, Session!Spec
<1>3. Spec => ClipsArePlayed
  BY <1>1, Inductive, InitSound, NextSound, InitSession, NextSession, PTL
  DEF Spec, ClipsArePlayed
<1> QED
  BY <1>2, <1>3 DEF ImplementsSession
=============================================================================
