--------------------------- MODULE ProtocolReader ---------------------------
(***************************************************************************)
(* The command loop of `trv stream` (stream() in src/main.cpp): bytes come *)
(* from standard input in pieces of any size, are put together to lines,   *)
(* and every line is answered by handle_line.  The loop ends at a shutdown *)
(* command, at the end of the input, or when a signal comes: its handler   *)
(* sets a flag, then writes to a pipe that wakes the poll.                 *)
(*                                                                         *)
(* What the sessions do with a command is StreamingRuntime's business; here *)
(* a line is a shutdown, another command, or not a command at all.         *)
(***************************************************************************)
EXTENDS Integers, Sequences, FiniteSets

CONSTANTS
  Inputs,                      \* what clients may send before they close
  ShutdownLines,               \* lines that are shutdown commands
  CommandLines,                \* lines that are commands for the runtime
  kMaximumProtocolLineBytes,   \* 1 MiB in the code
  ReadBytes                    \* size of `input`: 4096

Newline == "\n"

ASSUME ReaderAssumption ==
  /\ \A text \in Inputs : text \in Seq(STRING)
  /\ kMaximumProtocolLineBytes \in Nat
  /\ ReadBytes \in Nat \ {0}

VARIABLES
  sent,        \* the text of the client
  written,     \* how much of it is in standard input
  closed,      \* standard input has ended
  received,    \* how much of it read() has returned
  processed,   \* how much of it the loop over `input` has seen
  pending,     \* the line that is being put together
  discarding,  \* discarding_oversized_line
  continueReading,
  at,          \* where the reader is
  answers,     \* what became of the lines so far (events and calls)
  signalRequested,
  handler,     \* the signal handler: not called, between its writes, done
  exitCode     \* the exit code, or Running

client == <<sent, written, closed>>
lines == <<processed, pending, discarding, answers, continueReading>>
signal == <<signalRequested, handler>>
vars == <<client, received, lines, at, signal, exitCode>>

Running == -1
kExitSuccess == 0
kExitInternal == 5

Init ==
  /\ sent \in Inputs
  /\ written = 0 /\ closed = FALSE
  /\ received = 0 /\ processed = 0
  /\ pending = <<>> /\ discarding = FALSE
  /\ continueReading = TRUE
  /\ at = "test"
  /\ answers = <<>>
  /\ signalRequested = FALSE /\ handler = "idle"
  /\ exitCode = Running

-----------------------------------------------------------------------------
\* The client, at its own pace.

ClientWrites ==
  /\ written < Len(sent)
  /\ written' = written + 1
  /\ UNCHANGED <<sent, closed, received, lines, at, signal, exitCode>>

ClientCloses ==
  /\ written = Len(sent) /\ ~closed
  /\ closed' = TRUE
  /\ UNCHANGED <<sent, written, received, lines, at, signal, exitCode>>

-----------------------------------------------------------------------------
\* The signal handler may run on any thread of the process.

SignalArrives ==
  /\ at # "exited" /\ handler = "idle"
  /\ signalRequested' = TRUE /\ handler' = "notifies"
  /\ UNCHANGED <<client, received, lines, at, exitCode>>

SignalNotifies ==
  /\ handler = "notifies"
  /\ handler' = "done"
  /\ UNCHANGED <<client, received, lines, at, signalRequested, exitCode>>

PipeReadable == handler = "done"

-----------------------------------------------------------------------------
\* The loop.

Goes(from, to) == at = from /\ at' = to /\ UNCHANGED <<client, signal, exitCode>>

Continues == continueReading /\ ~signalRequested

TestLoop ==
  /\ Goes("test", IF Continues THEN "poll" ELSE "leave")
  /\ UNCHANGED <<received, lines>>

\* Mutant: the end of the input does not wake the reader.
InputHasBytes == received < written

InputReady == received < written \/ closed

\* Mutant: the flag, but not the pipe.
PollSeesFlag == FALSE

\* Whether the pipe wakes poll.
PollWakes == PipeReadable

\* Both descriptors are looked at when poll returns, and the flag after it.
PollReturns ==
  /\ InputReady \/ PollWakes
  /\ Goes("poll", IF PollWakes \/ signalRequested THEN "leave" ELSE "read")
  /\ UNCHANGED <<received, lines>>

\* poll reports neither bytes nor the end of the input, only an error.
PollReportsError ==
  /\ ~InputReady /\ ~PollWakes
  /\ Goes("poll", IF signalRequested THEN "leave" ELSE "test")
  /\ UNCHANGED <<received, lines>>

\* EINTR: a signal that happens to be delivered to this thread.
Interrupted ==
  /\ signalRequested
  /\ Goes("poll", "test") \/ Goes("read", "test")
  /\ UNCHANGED <<received, lines>>

\* poll or read fail: the exception ends the program.
ReadFails ==
  /\ at \in {"poll", "read"} /\ at' = "exited"
  /\ exitCode' = kExitInternal
  /\ UNCHANGED <<client, received, lines, signal>>

\* Mutant: the whole buffer is taken to be filled.
ReadWhole(n) ==
  /\ received < written
  /\ Goes("read", "process")
  /\ received' = received + ReadBytes
  /\ UNCHANGED lines

Read(n) ==
  /\ n <= ReadBytes /\ received + n <= written
  /\ Goes("read", "process")
  /\ received' = received + n
  /\ UNCHANGED lines

\* parse_command, and the runtime for what it accepts.
Parse(line) ==
  IF Len(line) > kMaximumProtocolLineBytes THEN "line_too_large"
  ELSE IF line \in ShutdownLines THEN "shutdown"
  ELSE IF line \in CommandLines THEN "command"
  ELSE "error"

HandleLine(line) ==
  /\ answers' = Append(answers, Parse(line))
  /\ continueReading' = (Parse(line) # "shutdown")

\* The last line need not end with a newline.
EndOfInput ==
  /\ closed /\ received = written
  /\ Goes("read", "leave")
  /\ IF pending # <<>> /\ ~discarding THEN HandleLine(pending)
     ELSE UNCHANGED <<answers, continueReading>>
  /\ UNCHANGED <<received, processed, pending, discarding>>

NextByte == sent[processed + 1]

\* One turn of the loop over the bytes read.
Processes ==
  /\ processed < received /\ continueReading
  /\ Goes("process", "process")
  /\ processed' = processed + 1
  /\ UNCHANGED received

\* Mutant: the next line is put after this one.
LineKept == pending
NextLine == <<>>

LineEnds ==
  /\ Processes /\ NextByte = Newline
  /\ ~discarding
  /\ HandleLine(pending)
  /\ pending' = NextLine
  /\ UNCHANGED discarding

DiscardedLineEnds ==
  /\ Processes /\ NextByte = Newline
  /\ discarding /\ discarding' = FALSE
  /\ answers' = Append(answers, "line_too_large")
  /\ pending' = NextLine
  /\ UNCHANGED continueReading

\* Mutant: a line of the maximal length is discarded.
ReachesLimit(line) == Len(line) >= kMaximumProtocolLineBytes

ExceedsLimit(line) == Len(line) > kMaximumProtocolLineBytes

LineGrows ==
  LET longer == Append(pending, NextByte)
  IN  /\ Processes /\ NextByte # Newline
      /\ ~discarding /\ discarding' = ExceedsLimit(longer)
      /\ pending' = IF ExceedsLimit(longer) THEN <<>> ELSE longer
      /\ UNCHANGED <<answers, continueReading>>

ByteDiscarded ==
  /\ Processes /\ NextByte # Newline
  /\ discarding
  /\ UNCHANGED <<pending, discarding, answers, continueReading>>

Processed ==
  /\ processed = received \/ ~continueReading
  /\ Goes("process", "test")
  /\ UNCHANGED <<received, lines>>

\* runtime.shutdown, audio.stop and the end of the program.
Leave ==
  /\ at = "leave" /\ at' = "exited"
  /\ exitCode' = kExitSuccess
  /\ UNCHANGED <<client, received, lines, signal>>

Reader ==
  \/ TestLoop \/ PollReturns
  \/ (\E n \in 1..ReadBytes : Read(n))
  \/ EndOfInput
  \/ LineEnds \/ DiscardedLineEnds \/ LineGrows \/ ByteDiscarded
  \/ Processed \/ Leave

Environment ==
  \/ ClientWrites \/ ClientCloses \/ SignalArrives \/ SignalNotifies
  \/ PollReportsError \/ Interrupted \/ ReadFails

Exited == at = "exited" /\ UNCHANGED vars

Next == Reader \/ Environment \/ Exited

Spec == Init /\ [][Next]_vars

\* The reader is a thread of its own and the handler runs to its end; nothing
\* is assumed of the client, nor of EINTR.
FairSpec == Spec /\ WF_vars(Reader) /\ WF_vars(SignalNotifies)

-----------------------------------------------------------------------------
\* Every variable of the reader keeps its type, and no byte is looked at before
\* it was read or read before it was written.
TypeOK ==
  /\ sent \in Inputs
  /\ written \in 0..Len(sent) /\ closed \in BOOLEAN
  /\ received \in 0..written /\ processed \in 0..received
  /\ pending \in Seq(STRING) /\ discarding \in BOOLEAN
  /\ continueReading \in BOOLEAN
  /\ at \in {"test", "poll", "read", "process", "leave", "exited"}
  /\ answers \in Seq({"line_too_large", "shutdown", "command", "error"})
  /\ signalRequested \in BOOLEAN
  /\ handler \in {"idle", "notifies", "done"}
  /\ exitCode \in {Running, kExitSuccess, kExitInternal}

\* The lines of the text, without a reader: the positions of the newlines up
\* to n, the number of lines they end, and the characters after the last one.
EndsUpTo(n) == {e \in 1..n : sent[e] = Newline}
LinesUpTo(n) == Cardinality(EndsUpTo(n))
IsStart(s, n) ==
  /\ s \in 1..(n + 1)
  /\ s = 1 \/ sent[s - 1] = Newline
  /\ \A i \in s..n : sent[i] # Newline
UnendedStart(n) == CHOOSE s \in 1..(n + 1) : IsStart(s, n)
Unended(n) == SubSeq(sent, UnendedStart(n), n)

\* The buffer holds exactly the line that has begun, whatever pieces it came
\* in, until it is too long; then nothing of it, and it is known to be.
PendingIsUnended ==
  LET line == Unended(processed)
  IN  /\ discarding <=> Len(line) > kMaximumProtocolLineBytes
      /\ pending = IF discarding THEN <<>> ELSE line

\* Every line has been answered once, in order, as if it had been read whole:
\* an oversized one by line_too_large, without a part of it or of the line
\* after it being taken for a command.  Nothing is answered after a shutdown.
\* The unterminated last line is answered at the end of the input only.
LinesAnswered ==
  LET n == LinesUpTo(processed)
  IN  /\ \A e \in EndsUpTo(processed) : answers[LinesUpTo(e)] = Parse(Unended(e - 1))
      /\ Len(answers) \in {n, n + 1}
      /\ Len(answers) = n + 1 =>
           /\ at \in {"leave", "exited"} /\ closed /\ processed = Len(sent)
           /\ Unended(processed) # <<>> /\ answers[n + 1] = Parse(Unended(processed))
      /\ \A i \in 1..(Len(answers) - 1) : answers[i] # "shutdown"

\* A signal ends the program, although the client may be silent and the signal
\* may come between the test of the flag and the poll, on another thread.
SignalEnds == signalRequested ~> at = "exited"

\* The program ends with its input.
InputEnds == closed ~> at = "exited"

\* When the input ends, no line has gone without an answer.
NoLineUnanswered ==
  at = "exited" /\ exitCode = kExitSuccess /\ ~signalRequested /\ continueReading =>
    Len(answers) = LinesUpTo(Len(sent)) + (IF Unended(Len(sent)) = <<>> THEN 0 ELSE 1)
=============================================================================
