# Verification of Tiny Robotic Voice

TLA+ models of `trv` (the C++ program under `src/`), TLC runs over small instances
and TLAPS proofs for all instances. Paths such as `main.cpp:330` are relative to
`src/src/`, headers to `src/include/trv/`; "the program's README" is `src/README.md`.

## 1. The system

`trv` turns text into robotic speech on macOS. `trv say` speaks one text and exits;
`trv stream` reads JSON commands, one a line, and speaks the text of one session after
another while it arrives; `trv doctor` prints a diagnosis.

| part | state | operations | with whom |
|---|---|---|---|
| PhraseChunker (`chunker.cpp`) | none | `next_chunk_bytes`, `has_speakable_text` | called with the buffer of a session |
| JobQueue (`streaming_runtime.cpp:31-85`) | `jobs_`, `bytes_`, `stopped_`, its mutex and condition variable | `push`, `pop`, `cancel`, `stop` | fed by reader and maintenance thread, emptied by the synthesis thread |
| StreamingRuntime (`streaming_runtime.cpp:88-337`) | the session (buffer, voice, generation, flags) under `state_mutex`; atomics `current_generation`, `outstanding_jobs`, `owned_text_bytes`, `stopping` | `handle` of `start`, `append`, `finish`, `interrupt`; `shutdown`; the two loops | all of the above and below |
| MiniaudioOutput (`miniaudio_output.cpp`) | `queue`, `current`, `position`, `queued_frames` under a mutex; the atomics `valid_generation`, `stopping` | `enqueue`, `set_valid_generation`, `interrupt`, `is_drained`, `stop`, the device callback (`try_lock`) | the synthesis thread enqueues, the device's thread plays, the others ask and clear |
| `stream` (`main.cpp:281-394`) | `pending`, `discarding_oversized_line`, `continue_reading`; `signal_requested` and a pipe | poll, read, line assembly, end of input, the signal handler | calls `parse_command`, then `handle` |
| `say` (`main.cpp:243-279`) | none of its own | synthesize, enqueue, wait, stop | MiniaudioOutput, the engine |
| Voice settings (`voice_settings.cpp`) | none | check a patch, lay it over a voice | configuration, options, `start` |
| Command line and configuration (`main.cpp:62-182`) | the program's voice | scan options, find, measure and read the file | voice settings |
| Protocol messages (`protocol.cpp`) | none | `parse_command`, `json_event` | `stream` |
| Flite engine (`flite_engine.cpp`) | the two voices of Flite's registry; their features, which every synthesis sets | constructor, destructor, `synthesize` | the synthesis thread, `say`; `doctor` builds one to see whether it can be built |
| Output gain (`audio_processing.cpp`) | none | `apply_output_gain` | the synthesis thread, `say` |
| `doctor` (`main.cpp:192-241`) and `main` (`main.cpp:398-432`) | none of their own | try platform, engine and device; choose the command | everything above |

Four threads meet in `trv stream`: the reader (main thread), the maintenance thread (every
20 ms: flush idle text, complete a finished session), the synthesis thread and the device's
callback. A text goes from the buffer to the job queue, into the hands of the synthesis
thread, to the audio queue and into the clip being played. Each stop has a lock or an atomic
of its own, and a *generation* number is all that tells a stale job or clip from a live one:
`interrupt` does not wait for the synthesis thread.

What is hard about it:

* a commit pushes a phrase before it counts it and before it leaves the buffer, and
  the synthesis thread may be done with it by then;
* `finished` rests on three observations that are not atomic together: the buffer is
  empty, no job is outstanding, the audio is drained;
* generations are tested without a lock before synthesis, after it, in `enqueue` and
  by the callback (once, for a whole buffer), while `interrupt` clears the queues;
* counters are unsigned and corrected in several threads;
* text that is too short to cut needs a timer; `finish` must end every session;
* shutdown joins a thread that may wait for room in a queue nothing empties any more;
* a signal may come between the test of its flag and `poll`;
* lines come in pieces, and may be too long; voices come in three layers;
* events of three threads go into one pipe, two of them with `state_mutex` held, and
  the client may not be reading;
* engine, device, pipe and threads are built one on the other, each may fail, and the
  way out leads through returns, exceptions and destructors.

`PROJECT.json` lists these, at their lines, with the properties that would break.

### What would make each part correct

| part | properties |
|---|---|
| PhraseChunker | phrases within the buffer, progress under force, the phrases are the text, words kept, sizes |
| JobQueue | the byte count is the sum, jobs of one session only, never refuses what `append` admitted |
| StreamingRuntime | exact counters; an abstract session refined; sessions end; text is spoken; the mutex is released; the program exits |
| MiniaudioOutput | the frame count is exact; no sound outside its session |
| `stream` | each line answered once, in order, whatever the reads; ends on signal and end of input; events in an order that makes sense; a client that hears all of them knows the session |
| Protocol messages | refused with a code that is deserved, accepted as written |
| Command line | every argument in its role; exit codes |
| engine, gain | a constructor that fails leaves no voice registered; samples saturate |
| the program | what is built is taken down, in order, wherever building stops; the exit code agrees with the last event |
| `say` | success means played; exits |
| Voice | fields resolved in the documented order; nothing invalid accepted, nothing valid refused |

## 2. The modules

| module | models | remarks |
|---|---|---|
| `Chunker` | `chunker.cpp` | operators over sequences of characters |
| `ChunkedText` | the commit loop over a text that arrives in fragments | one step a fragment; the flush of the maintenance thread may come between any two of them |
| `JobQueue` | class `JobQueue` | one action an operation: its mutex covers each whole body |
| `AudioOutput` | `MiniaudioOutput` | the callback is five actions between `try_lock` and unlock |
| `VoiceSettings` | `voice_settings.cpp` | a patch is a function on some of the fields, numbers in hundredths |
| `StreamingRuntime` | the four threads of `trv stream` | extends the five above |
| `SpeechSession` | what a client is promised | abstract: pending text and a phase, no threads |
| `RuntimeImplementsSession` | the refinement mapping | pending text is collected from all five places |
| `SayCommand` | `say()` | extends `AudioOutput` |
| `ProtocolReader` | the loop of `stream()` and the signal handler | what a line means to the runtime is left to `StreamingRuntime` |
| `VoiceResolution` | `load_voice_settings` and the voice of a `start` | the file may change between its three looks |
| `Protocol` | `protocol.cpp` | `ParseCode`, `CommandOf`, `JsonEvent`; a reference without an order of tests |
| `CommandLine` | the scan of options | a function by recursion over the number of arguments; a reference by the role of each argument |
| `SpeechEngine` | `flite_engine.cpp`, `audio_processing.cpp` | the registry; the gain is an operator |
| `StreamCommand` | `stream` between its pipes | whole lines, `handle`, the events of three threads, the client; the session is an instance of `SpeechSession` |
| `Program` | `main`, `doctor`, and `say` and `stream` from the platform to the last destructor | extends `CommandLine`, `SpeechEngine` and `StreamCommand`; `StreamCommand` runs in it |
| `Totals` | the sum of a sequence | |
| `MC...` | instances for TLC | |
| `...Proofs` | theorems | |

How state and actions correspond to the code:

* **Mutexes.** `section` is the critical section of `state_mutex` being executed.
  Between two steps of a section other threads can observe something: a section
  is one step for each access to a variable that others read without `state_mutex` (job
  queue, atomics, audio), and accesses that only holders see are attached to a neighbour.
  The audio mutex is held across steps by the callback only (`callback.holds`); for
  all other users a critical section of it is one step, guarded by `MutexFree`.
* **The callback** takes the mutex with `try_lock`. If it does not get it, it plays
  silence and changes nothing: that is not taking a step. It loads the valid generation once.
* **`enqueue`** tests the generation without the lock (`EnqueueTest`), then looks for
  room under it (`EnqueueClip`, `EnqueueFull`). The 10 ms sleep is the pause between steps.
* **Unsigned counters** (`outstanding`, `ownedBytes`, `queueBytes`) are integers: the properties
  say they stay exact or non-negative where wrapping would do harm, -1 being the value that
  the code would wrap to. `queued_frames` saturates in the code and in the model.
* **Time.** `Tick` makes waiting text 400 ms old, at any time; the next append makes it new.
  `ChunkedText` has no clock: where `MayPause`, its flush comes whenever text waits between two
  fragments, so a client may pause anywhere, in a word too.
* **Events.** `event` is the event of the last step. It, the `text` of a clip, the
  `config` and the patch of a session in `VoiceResolution`, `played` in `SayCommand` and
  `sent`, `written` in `ProtocolReader` are for the properties and are not in the code.
* **The engine** is external: of a phrase it makes audio of some length, none, or throws
  (the latter two only when a character of `Unsayable` occurs, so that a run can tell text that
  may be left out from text that may not).
* **A refused voice.** `handle` has a branch for it (`StartBadVoice`) which
  `parse_command` never lets a command reach, as `AcceptedApplies` shows. The runtime is a
  class of its own, so its model and `RuntimeSafety` keep the branch.
* **The reader's steps.** `poll`, its result and the test of the flag after it are one step: a
  signal between them only makes the loop leave, as it does when it comes before.
* **Bytes.** Texts are sequences of characters of one byte.
* **Two views of `stream`.** `StreamingRuntime` has every access of every thread and takes commands
  and events as instantaneous; `RuntimeImplementsSession` shows that it implements
  `SpeechSession`. `StreamCommand` builds on that abstract session and adds what surrounds it: what
  is read in one go (`batch`), where the reader is, who holds `state_mutex` while its event
  waits for room in standard output (`said`, `holder`, `unread`). What the client concludes from
  the events is `client`, which is not in the code.
* **`held`.** `owned_text_bytes` counts a job until the synthesis thread retires it, which may be after
  its clip was played or its session interrupted. `held` is the bytes of such a job: `append` may be
  answered with `backpressure` because of it, and `finished` waits for it.
* **`recoverable`.** The code sends it with every error: false when the stream ends
  (`main.cpp:283-294`, `:390`), and also for a phrase that could not be synthesized
  (`streaming_runtime.cpp:173`), after which the stream goes on. No document defines the field. The
  client here takes false for the end, but for `synthesis_failed`, which it tells by its code
  (`Failure`), as a client has to. Such a failure may come after `interrupted`, and then even while the
  next session is open, as `runtime_reports` shows; never after the `finished` of its session.
* **A line** is a JSON object, a function from field names to values, or the code with which
  the limit and yyjson refuse it. A value of the wrong type is `Bad`. `Int64Max` stands for 2^63 - 1.
* **Faults.** `environment` is what is wrong with the computer: at most one thing, for the run; an
  exception in the loop (`ReadFails`) comes besides. `doctor`, `say` and `stream` test and catch for
  themselves, so each has its own actions for it (`DoctorNoAudio`, `SayNoAudio`, `StreamNoAudio`, ...), while
  the engine and the device they construct are the same classes. A function that returns an error and one
  that throws differ in when the client of `stream` is told: before or after the destructors.
* **A constructor that fails.** C++ runs no destructor for an object that was not constructed:
  `EngineFails` does what the constructor's own `catch` does, and goes to the catch of the command.
* **Destructors.** `unwind` and `unwind engine` are the places of the main thread where device and
  engine are destroyed, in the reverse order of their declarations. The destructor of the runtime is
  the silent `shutdown` from `close` on.
* **The gain** is in hundredths, and the factor of each gain comes from a table.

## 3. The runs

The modules with counters or data of their own have a type invariant (`StreamingRuntime` with
`AudioOutput` and `JobQueue`, `ProtocolReader`, `VoiceResolution`). The sizes are the code's orders in small:
minimum < preferred < hard limit of a phrase; a capacity that a second append may exceed; a
queue that clips may fill.

| run | what it shows | bounds |
|---|---|---|
| `runtime_safety` | `OwnedAccounted`, `OutstandingAccounted`, `QueueBytesExact` at every step of every thread; `PushNeverRefused`; `JobsOfOneSession`; `VoiceOfSession`; `HeardIsAnnounced`; `QueuedFramesExact`; `SoundOnlyInSession` | two session names, three generations (a session, its interruption, a second one), blank, sayable and unsayable text, capacity 3, a patch that is refused; clips of 2 frames, a queue of 4, three frames a callback: clips end inside a callback and callbacks inside a clip |
| `runtime_session` | `ImplementsSession`: text spoken in order, none lost, no clip of it given up unplayed, events right, also when a session is interrupted and replaced | one session name, three generations, capacity 4: phrases in all stages at once |
| `runtime_liveness` | `FinishCompletes`, `AcceptedIsSpoken`, if the engine returns and the device plays; `ShutdownExits`, if the engine returns, although the device is silent and a clip of 2 frames never fits a queue of 1; `MutexReleased` with an engine that hangs and a silent device | one session, two generations, a letter (that may turn out unsayable, by no audio or a failure) or two blanks, a capacity of 2; clips that fit the queue and clips that do not (excepted by `TooLong`) |
| `program` | `EventsMakeSense`, `ClientKnows`: what a client concludes from the events is so; `LinesParsedRight`; `ArgumentsScannedRight`; `GainSaturates`; `NothingLeftBehind`, `PartsOutliveUsers`: what was built is taken down, in order; `EndIsTold`: the exit code says what the last event has said; `StopsWhenAsked`, `LinesServed`: those read together with another line included | see below |
| `runtime_reports` | *violation*, see below | |
| `chunked_text` | `Reconstructs`, `PhraseSizes`, `WordsKept` | all texts of up to 6 characters over an alphabet with every class of the code, limits 2, 4, 5, all divisions, a pause after any fragment |
| `chunked_fragments` | *violation* | |
| `say` | `SuccessMeansPlayed`; `FittingTextExits`: it exits if its audio fits the queue | audio of 0 to 25 frames, 24 being the size of the queue |
| `say_too_long` | *violation* | |
| `reader` | `PendingIsUnended`, `LinesAnswered`: what happens to a line does not depend on how it was read; `SignalEnds`, `InputEnds` | all texts of up to 4 bytes, limit 2, reads of 1 or 2 bytes, a signal anywhere |
| `reader_last_line` | *violation* | |
| `voice_resolution` | `ResolutionOrder`, `ValidOrRefused`, `AcceptedApplies` | a model, a preset and a speed, absent, good or bad, in each of file, options and start; files that change |

`program` has command lines of up to three arguments for `say` and of one for `stream`, each with every
fault; 4,300 messages with every field absent, good, bad and at its limits; and streams of three
lines out of seven (a loud voice, two seqs and a bad one, finish, interrupt, shutdown) with two
lines in the input pipe, one event in the output pipe and the end of the input, a signal and a
failing read at any time. Three lines open a session, fill it and end it, or fill it twice; one event
in the pipe is enough to block whoever writes the next. Its text may turn out unsayable. These are
146,373 states.

`MaxGeneration` bounds the number of sessions in the runs; a generation is only compared for
equality, and three make an obsolete one, a current one and one in between.
`MaxText` and `MaxInput` bound the length of texts, `MaxLines`, `PipeLines` and `PipeEvents`
the traffic of `stream`. Each is named in its cfg.
`RuntimeSafety` uses the symmetry of the session names, and states no liveness.
Deadlock is checked in every run: a program that has exited stutters explicitly.

### Disagreements found

* `say_too_long`: **a text of more than 20 seconds of audio makes `trv say` wait for ever**:
  its single clip never fits the queue (`miniaudio_output.cpp:139`), which is empty. A phrase of
  `trv stream` may hit the same wall, although it has 180 characters at most (a run of digits
  is spoken slowly): then the session does not finish and must be interrupted.
* `chunked_fragments`: a full stop that is the last character received counts as the end of a
  sentence, so fragment boundaries do have a meaning (`chunker.cpp:35`).
* `runtime_reports`: `synthesis_failed` may follow `interrupted` for the same session
  (`streaming_runtime.cpp:172`): the test and the report are not under the mutex.
* `reader_last_line`: an oversized line that the end of the input cuts off is dropped without
  `line_too_large` (`main.cpp:352`).

### Fairness

* Reader, maintenance and synthesis thread: strong fairness. A mutex may be taken by
  others again and again, and the code gives a thread no claim to it; the assumption is
  that a thread that finds it free infinitely often gets it some time. No section
  waits for anything but the audio mutex, which the callback holds for one buffer only.
* `CallbackEnds`: a callback that has begun ends (it does not block).
* `DevicePlays`, `TimePasses`, and that the engine returns, are assumed only where
  needed: `ShutdownExits` does without a playing device, `MutexReleased` without device and
  engine. Nothing is assumed of the client.
* `ProtocolReader`: weak fairness of the reader, which waits for no lock there, and of the
  handler's second write.
* `SayCommand`: as for the threads above, with a device that plays.
* `Program`: weak fairness of the main thread's way in and out, strong fairness of the reader's
  loop and of each thread that writes an event: they wait for `state_mutex` and for room in a pipe.
  `StopsWhenAsked` and `LinesServed` assume `ClientIsReading` in addition, and need it: **a client
  that stops reading standard output blocks the thread that writes, with it `state_mutex`, with that
  the reader, and so the reaction to SIGTERM and to `shutdown`** (`main.cpp:310`). No document of
  the program says otherwise, so this is an assumption here and not a finding.

## 4. What is proved

All proofs are checked by TLAPS for every value of the constants that satisfies the named
assumptions (`RuntimeAssumption`, `AudioAssumption`, `ArgumentsAssumption`, ...: names differ from the
empty one, texts and command lines are sequences of strings, the sign for an absent option is no string,
clips have frames, limits are naturals in the code's order).

`StreamingRuntimeProofs` has one inductive invariant, `IInv`:

* the type invariant, and `AudioInv`: the types of the output, the shape of the callback (it
  holds the mutex while it works) and `QueuedFramesExact`;
* `SectionInv`: which thread is inside the section, so that a commit cannot overlap another
  section, and when a phrase is between push and count;
* `SynthesisInv`: where the synthesis thread holds a job;
* `GenerationInv`, `EmptiedInv`: generations only grow, what is queued is of the
  session's generation, and after an interrupt the buffer and the queue are empty;
* `QueueBytesExact`, `OwnedAccounted`, `OutstandingAccounted`, `JobsOfOneSession`,
  `VoiceOfSession`: the properties themselves, which need each other. `OwnedAccounted`
  is not inductive alone: an interrupt gives back the bytes of *cancelled* jobs, which are all the
  jobs only because of `JobsOfOneSession`; that in turn needs an empty queue at `start`.

One lemma per conjunct shows that every action preserves it; frame lemmas say which actions
touch which variables at all. `QueuedFramesExact` and the byte sums rest on the sum of a sequence
under append and tail (first section of `AudioOutputProofs`), and the
cuts on `ChunkerProofs`: a cut lies within the buffer. From `IInv` follow the theorems
`TypeCorrect`, `OwnedBytesExact`, `OutstandingExact`, `QueueExact`, `FramesExact`,
`QueueOfOneSession`, `VoiceExact` and `NeverRefused`: for any capacity, any phrase limits and any
number of sessions, which no run shows.

On top of it `SoundInv` follows the clips. No clip is of a later session than `generation`
(`ClipsPast`); a session that is cut short is obsolete to the output before its audio is cleared
(`Overtaken`); and the generation that may be heard, the valid one and the one the callback loaded,
is that of the open session or one of which no clip is there or on its way (`OpenOrUnheard`): that
is what a clip arriving late in a cleared queue, and a callback older than the session, have to
respect. `ClipOrigins` and `JobOrigins` say where clips and jobs come from. From it follow
`SoundInSession` and `AnnouncedBeforeHeard`.

The rest of `StreamingRuntimeProofs` proves `SessionImplemented`: `Spec => ImplementsSession`, for any
texts, any engine and any number of sessions.

* `SessionInv` is what the mapping needs besides. An open session is of the current generation until it is
  cut short (`OpenIsCurrent`), and then of the valid one (`ValidInOrder`), so nothing of it is refused. A
  callback that meets its clips began when it was valid (`CallbackInOrder`), so none is dropped. Before it
  starts there is nothing of it anywhere (`BeginsEmpty`); it is drained only when closed
  (`DrainedIsClosed`); and only the unsayable makes no audio (`SilenceHasReason`).
* Text. `OwnTextAppend` and `OwnTextTail` take the text of a queue apart at either end (they rest on
  `FlattenAppend` and `FlattenFront` of `ChunkerProofs`). A phrase that is pushed, taken, synthesized or
  enqueued moves from one of the five places to the next and leaves what they make together as it was
  (`SilentStep`); a clip played to its end is the front of it (`TakenFirst`); what goes otherwise is a
  piece of it, blank, unsayable or of an interrupted session (`LeftOut`).
* Steps. One lemma per action: `SessionStep` are those that open, announce, close and end the session,
  `TextStep` those that move text, and `StillSimulated` is all the others. `NextSimulated` puts them
  together.
* `SpeechSession` lets any text go off the front as spoken. That it is not given up unplayed is
  `ClipsArePlayed`: while the session is not interrupted, the number of its clips drops only in a step of
  the callback that writes frames to the device.

`ProtocolReaderProofs` proves the reader's safety for every input, line limit and read size.
`IInv` there is the type invariant, `PendingIsUnended`, `LinesAnswered`, that a line has a
beginning (`HasStart`), and what the loop knows at each of its places (`LoopInv`). Its theorems
are `ReaderTypeCorrect`, `PendingExact` and `EveryLineAnswered`.

`VoiceResolutionProofs` proves the voice for every set of patches, where the runs have a few. The
key is `ValidSucceeds`: over a voice that is in range, a patch succeeds if and only if it is valid,
whatever voice it is, so what `parse_command` finds out on the built-in voice is true of every
other. `ResolvedMore` lays one layer over those before it. `VInv` is the three properties, the
type invariant, and what they say of the voice before it is ready (`LayersInv`, `SettingsInv`); the
theorems are `FieldsResolved`, `NothingInvalid`, `AcceptedAlwaysApplies` and
`ResolutionTypeCorrect`.

`SayCommandProofs` proves `SuccessIsPlayed`: if `trv say` returns 0, all of its audio has been played.
The invariant says where the one clip is at each place of `say` (not made, in hand, queued, in the
callback) and that what has been played and what is left of it add up to it.

`ChunkedTextProofs` proves what the commit loop makes of a whole text, however it arrives and wherever
the client pauses:
`NothingLost` (the phrases and the buffer, put together, are the text received), `SizesKept`,
`WordsStayWhole` and `TextExact`. That a phrase appended flattens to the text appended is
`FlattenAppend`, by the least length at which it would fail, since the induction theorems cannot be
used. `WordsKept` is not inductive, since it does not look at the last phrase, which the next step may
make the one before the last: `CutsWell` is about all phrases. A forced cut that takes all of the buffer
(`rest`) is where the client paused or finished, and may be anywhere.

`ProgramProofs` proves eight properties of `Program` and its modules, for any command lines, messages and
texts, and any number of lines.

* `PartsAt` says for each place of the main thread which voices are registered, what
  state the device is in, whether the threads and the pipe are there; `CommandKnown` is needed
  since the way forks by the command. Whatever the threads, the client or a signal do leaves the parts
  alone (`PartsStep`). From it follow `CleanExit` and `PartsInOrder`.
* `GainIsSafe` rests on the monotony of product, rounding and clamp, and on the voices in use being in
  range (`VoicesInOrder`).
* The conversation (`TalkInv`, `LinesAt`, `OwedAt`): which event each thread may be writing, by who holds
  `state_mutex` and where the reader is; that whenever nobody holds the mutex, what the client concludes
  from the events told so far *is* the session; that a failure being reported is of the open session or
  of an interrupted one, and its job is not retired (`Failed`), which is why `finished` cannot
  overtake it; and that the client remembers the lines that still owe it an answer.
  From it follow `EventsInOrder` and `ClientUpToDate`.
* The end: outside the loop no thread speaks (`IdleAt`), in the loop the client has not been told the end
  before the farewell, and never by an exception (`LoopAt`), after it the farewell has been told (`DoneAt`), and
  on the way out the one event that is due is being written or has been told (`EndAt`). With `StatusAt` and
  `CodesAt`, which say what the exit code is at each place, `EndAlwaysTold` follows.
* `ParsingCorrect` rests on three lemmas, one for each direction of the reference:
  `RefusalDeserved`, `AcceptedDeservesNone`, `CommandAsWritten`.
* `ArgumentsAlwaysScanned`: for a command line of any length the scan gives each argument its
  role, and the options their values. `ScanAt` says it of the first *n* arguments; the least *n* at which
  it would fail is one argument behind one at which it holds.

### Only model-checked

Liveness under fairness and ENABLED (out of the prover's reach), and what the runs show to be violated.
Every safety property, action property and refinement that a run checks is also a theorem.

## 5. What is not modelled

* Flite, miniaudio, yyjson, under `third_party`: external. JSON is accepted or not.
* The features that `synthesize` sets in a voice (`flite_engine.cpp:57-63`): all three are overwritten before
  every synthesis from the voice alone. What else Flite may keep in a voice is its own.
* The refusal of a clip with other channels or another rate in `enqueue` (`miniaudio_output.cpp:130`): the
  engine has one rate, which the constructor checks, and that is the one the device is opened with.
* `shutdown` sets `stopping` and says `shutting_down` without `state_mutex` (`streaming_runtime.cpp:313-318`);
  in `StreamingRuntime` this step waits until no section is being executed. The flag is read between
  sections only; in `StreamCommand` the event comes at any time.
* What `doctor` prints, `print_usage`, the texts of messages: output only.
* `tools/acceptance_producer.py`: a client for tests by ear; `StreamCommand` has any client.
* UTF-8: a hard cut may divide a character; `WordsKept` says that it does so only in words that
  reach beyond every space, or where the client itself paused within the character.
* A standard output that is closed: a write to it ends the program by SIGPIPE.
* SIGINT and SIGTERM during `say` and `doctor`, which install the handlers and do not look at the flag.

## 6. Plan

More of the model: `ProtocolReader` composed with `StreamCommand`, from the byte to the event.
