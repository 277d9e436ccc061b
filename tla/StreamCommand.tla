---------------------------- MODULE StreamCommand ----------------------------
(***************************************************************************)
(* `trv stream` between its two pipes: lines come in, parse_command and    *)
(* handle() deal with them, and the events of three threads go out through *)
(* a pipe that is full when the client does not read.                      *)
(*                                                                         *)
(* The session is a SpeechSession, which the runtime implements (module    *)
(* RuntimeImplementsSession); lines come whole (module ProtocolReader).    *)
(* What is added here is how events leave the program: a thread emits with *)
(* state_mutex still held, so `holder` may wait for the client.            *)
(***************************************************************************)
EXTENDS Protocol, SequencesExt

CONSTANTS
  Sessions, Texts, Unsayable,
  Messages,     \* what clients may send
  Lines,        \* what they do send, in the model
  MaxLines,     \* bound: lines of one client
  Capacity,     \* kMaximumPendingTextBytes
  PipeLines,    \* lines that fit standard input's pipe
  PipeEvents    \* events that fit standard output's pipe

ASSUME MessagesAssumption == Lines \subseteq Messages /\ \A l \in Messages : IsLine(l)

VARIABLES
  phase, session, pending, announced, event,   \* of the SpeechSession
  settings,     \* the program's voice
  voice,        \* the voice of the session
  held,         \* bytes of the job that the synthesis thread has not retired,
                \* although pending has them no more
  input, sent,  \* lines in standard input, lines sent so far
  closed,       \* the client has closed it
  batch,        \* lines that were read and not yet handled
  line,         \* the line being handled, or NoLine
  reader,       \* where the reader is
  said,         \* for each thread the event it is writing, or Unsaid
  holder,       \* the thread that holds state_mutex, or "none"
  unread,       \* events in the pipe
  client,       \* what the client knows from the events (not in the code)
  signalRequested

S == INSTANCE SpeechSession

sessionVars == <<phase, session, pending, announced, event, voice, held>>
clientVars == <<input, sent, closed>>
outputVars == <<said, holder, unread, client>>
streamVars == <<sessionVars, settings, clientVars, batch, line, reader,
                outputVars, signalRequested>>

NoLine == [form |-> "none", fields |-> NoPatch]
Workers == {"synthesis", "maintenance"}
Unsaid == NoPatch   \* no event, for events have a type

StreamInit ==
  /\ S!Init /\ settings = DefaultVoice /\ voice = DefaultVoice /\ held = 0
  /\ input = <<>> /\ sent = 0 /\ closed = FALSE
  /\ batch = <<>> /\ line = NoLine /\ reader = "none"
  /\ said = [t \in Workers \cup {"reader"} |-> Unsaid]
  /\ holder = "none" /\ unread = 0
  /\ client = [ready |-> FALSE, session |-> NoString, announced |-> FALSE, interrupted |-> {},
               unechoed |-> <<>>, end |-> NoString, surprised |-> FALSE]
  /\ signalRequested = FALSE

-----------------------------------------------------------------------------
\* The client, which takes the events for what they say.

Has(e, f, value) == f \in DOMAIN e /\ e[f] = value

\* The seq that an event may give back for a line: that of an acceptable append.
EchoOf(l) ==
  IF ParseCode(l) = "none" /\ l.fields["type"] = "append" /\ "seq" \in DOMAIN l.fields
  THEN l.fields["seq"] ELSE Nothing

ClientSends(l) ==
  /\ sent < MaxLines /\ ~closed /\ Len(input) < PipeLines
  /\ input' = Append(input, l) /\ sent' = sent + 1
  /\ client' = [client EXCEPT !.unechoed = Append(@, EchoOf(l))]
  /\ UNCHANGED <<sessionVars, settings, closed, batch, line, reader, said, holder, unread,
                 signalRequested>>

ClientCloses ==
  /\ ~closed /\ closed' = TRUE
  /\ UNCHANGED <<sessionVars, settings, input, sent, batch, line, reader, outputVars,
                 signalRequested>>

ClientReads ==
  /\ unread > 0 /\ unread' = unread - 1
  /\ UNCHANGED <<sessionVars, settings, clientVars, batch, line, reader, said, holder, client,
                 signalRequested>>

SignalArrives ==
  /\ ~signalRequested /\ signalRequested' = TRUE
  /\ UNCHANGED <<sessionVars, settings, clientVars, batch, line, reader, outputVars>>

\* The failure of a phrase is not recoverable either, but the stream goes on.
Failure(e) == Has(e, "code", "synthesis_failed")
Final(e) == Has(e, "recoverable", FALSE) /\ ~Failure(e)

\* The reason that an event gives for the end of the stream, if it is one.
EndSaid(e) ==
  IF e["type"] = "shutting_down" THEN "shutting_down"
  ELSE IF Final(e) THEN e["code"] ELSE NoString

\* What may come next, for a client that has seen all events so far.
Expected(e) ==
  LET c == client
  IN  /\ IF c.ready THEN e["type"] # "ready" ELSE e["type"] = "ready" \/ Final(e)
      /\ c.end # NoString => e["type"] \in {"speaking", "finished"} \/ Failure(e)
      /\ e["type"] = "session_started" => c.session = NoString
      /\ e["type"] \in {"accepted", "speaking", "finished", "interrupted"}
           \/ Has(e, "code", "backpressure") => c.session # NoString /\ Has(e, "session", c.session)
      /\ e["type"] = "speaking" => ~c.announced
      /\ Failure(e) => \E s \in {c.session} \cup c.interrupted : Has(e, "session", s)
      /\ "seq" \in DOMAIN e => \E i \in 1..Len(c.unechoed) : c.unechoed[i] = e["seq"]

\* What the client knows after it.
Told(e) ==
  LET c == client
      over == e["type"] \in {"finished", "interrupted"}
      echoed == Min({i \in 1..Len(c.unechoed) : c.unechoed[i] = e["seq"]})
  IN  [ready       |-> TRUE,
       session     |-> IF e["type"] = "session_started" THEN e["session"]
                       ELSE IF over THEN NoString ELSE c.session,
       announced   |-> e["type"] = "speaking" \/ (c.announced /\ ~over),
       interrupted |-> c.interrupted \cup
                         (IF e["type"] = "interrupted" THEN {c.session} ELSE {}),
       unechoed    |-> IF "seq" \in DOMAIN e
                       THEN SubSeq(c.unechoed, echoed + 1, Len(c.unechoed)) ELSE c.unechoed,
       end         |-> IF EndSaid(e) = NoString THEN c.end ELSE EndSaid(e),
       surprised   |-> FALSE]

-----------------------------------------------------------------------------
\* emit: output_mutex makes the writing of an event one step.

\* Mutant: the mutex is released before the event is written.
SaysUnlocked(t, e) == said' = [said EXCEPT ![t] = e] /\ UNCHANGED holder

\* A thread in a section of state_mutex emits an event; the section ends when
\* it is written.
Says(t, e) == said' = [said EXCEPT ![t] = e] /\ holder' = t

\* Where the reader goes when its event is written.
Onward == [answer |-> "take", farewell |-> "close", ready |-> "take"]

Write(t) ==
  /\ said[t] # Unsaid /\ unread < PipeEvents
  /\ said' = [said EXCEPT ![t] = Unsaid] /\ unread' = unread + 1
  /\ holder' = IF holder = t THEN "none" ELSE holder
  /\ client' = IF client.surprised \/ ~Expected(said[t])
               THEN [client EXCEPT !.surprised = TRUE] ELSE Told(said[t])
  /\ IF t = "reader" /\ reader \in DOMAIN Onward
     THEN /\ reader' = Onward[reader]
          /\ line' = IF reader = "answer" THEN NoLine ELSE line
     ELSE UNCHANGED <<reader, line>>
  /\ S!Silence /\ UNCHANGED <<voice, held, settings, clientVars, batch, signalRequested>>

-----------------------------------------------------------------------------
\* The loop.

Goes(from, to) ==
  /\ reader = from /\ reader' = to
  /\ UNCHANGED <<settings, sent, closed, unread, client, signalRequested>>

Quiet == UNCHANGED <<sessionVars, said, holder>>

\* What has come is read at once; the signal is not looked at between its lines.
ReadLines(n) ==
  /\ Goes("take", "take") /\ batch = <<>> /\ ~signalRequested
  /\ batch' = SubSeq(input, 1, n) /\ input' = SubSeq(input, n + 1, Len(input))
  /\ Quiet /\ UNCHANGED line

TakeLine ==
  /\ Goes("take", "handle") /\ batch # <<>>
  /\ line' = Head(batch) /\ batch' = Tail(batch)
  /\ Quiet /\ UNCHANGED input

\* Mutant: without the pipe a signal does not end poll.
LeaveLoopAwake ==
  /\ Goes("take", "shutdown") /\ batch = <<>>
  /\ (closed /\ input = <<>>) \/ (signalRequested /\ (closed \/ input # <<>>))
  /\ Quiet /\ UNCHANGED <<input, batch, line>>

LeaveLoop ==
  /\ Goes("take", "shutdown") /\ batch = <<>>
  /\ signalRequested \/ (closed /\ input = <<>>)
  /\ Quiet /\ UNCHANGED <<input, batch, line>>

Code == ParseCode(line)
command == CommandOf(line)

\* Mutant: a line that is refused ends the loop.
RefuseForGood ==
  /\ Goes("handle", "shutdown") /\ Code # "none"
  /\ Quiet /\ UNCHANGED <<input, batch, line>>

Refuse ==
  /\ Goes("handle", "answer") /\ Code # "none"
  /\ said' = [said EXCEPT !["reader"] = ErrorEvent(Code, NoString, TRUE)]
  /\ UNCHANGED <<sessionVars, holder, input, batch, line>>

-----------------------------------------------------------------------------
\* handle(), which waits for state_mutex.

Handles(type, to) ==
  /\ Goes("handle", to)
  /\ Code = "none" /\ command.type = type
  /\ holder = "none"
  /\ line' = IF to = "take" THEN NoLine ELSE line
  /\ UNCHANGED input

Answers(e) == Says("reader", e) /\ UNCHANGED batch

Fits(c) ==
  IF c.type = "start" THEN phase = "idle"
  ELSE c.session = session /\ (phase = "receiving" \/ (c.type = "interrupt" /\ phase # "idle"))

Reject(type) ==
  /\ Handles(type, "answer") /\ type # "shutdown" /\ ~Fits(command)
  /\ Answers(ErrorEvent("invalid_state", command.session, TRUE))
  /\ UNCHANGED sessionVars

\* A patch that parse_command accepts is never refused here (AcceptedApplies).
Start ==
  /\ Handles("start", "answer") /\ Fits(command)
  /\ PatchSucceeds(settings, command.voice)
  /\ voice' = Patched(settings, command.voice)
  /\ S!Open(command.session) /\ UNCHANGED held
  /\ Answers(JsonEvent("session_started", command.session, NoString, FALSE, Nothing, Nothing, voice'))

\* owned_text_bytes is at least held, and at most that and what is pending: text
\* counts until it is synthesized, whether it is still to be spoken or not.
AppendText ==
  /\ Handles("append", "answer") /\ Fits(command)
  /\ held + Len(command.text) <= Capacity
  /\ S!Accept(command.text) /\ UNCHANGED <<voice, held>>
  /\ Answers(JsonEvent("accepted", session, NoString, FALSE, command.seq, Len(command.text), Nothing))

Backpressure ==
  /\ Handles("append", "answer") /\ Fits(command)
  /\ held + Len(pending) + Len(command.text) > Capacity
  /\ Answers(JsonEvent("error", command.session, "backpressure", TRUE, command.seq, Nothing,
                       Nothing))
  /\ UNCHANGED sessionVars

Finish ==
  /\ Handles("finish", "take") /\ Fits(command)
  /\ S!Close /\ UNCHANGED <<voice, held, said, holder, batch>>

\* The job in the synthesis thread's hands is all that is not cancelled.
Interrupt ==
  /\ Handles("interrupt", "interrupt") /\ Fits(command)
  /\ S!Interrupt /\ holder' = "reader" /\ UNCHANGED <<voice, said, batch>>
  /\ held' \in {held} \cup {n \in 1..Capacity : held = 0 /\ n <= Len(pending)}

\* Mutant: the client is not told.
InterruptedSilently ==
  /\ Goes("interrupt", "take")
  /\ S!Interrupted /\ event'.type = "interrupted" /\ holder' = "none"
  /\ UNCHANGED <<voice, held, said, input, batch, line>>

Interrupted ==
  /\ Goes("interrupt", "answer")
  /\ S!Interrupted /\ event'.type = "interrupted"
  /\ Answers(Event("interrupted", session))
  /\ UNCHANGED <<voice, held, input, line>>

\* What else was read with a shutdown is not looked at.
ShutdownCommand ==
  /\ Handles("shutdown", "shutdown")
  /\ batch' = <<>> /\ Quiet

-----------------------------------------------------------------------------
\* shutdown(): the event is emitted without state_mutex.

Farewell ==
  /\ Goes("shutdown", "farewell")
  /\ said' = [said EXCEPT !["reader"] = Event("shutting_down", NoString)]
  /\ UNCHANGED <<sessionVars, holder, input, batch, line>>

Close ==
  /\ holder = "none" /\ holder' = IF phase = "idle" THEN "none" ELSE "reader"
  /\ Goes("close", IF phase = "idle" THEN "join" ELSE "closing")
  /\ IF phase = "idle" THEN UNCHANGED sessionVars ELSE S!Interrupt /\ UNCHANGED <<voice, held>>
  /\ UNCHANGED <<said, input, batch, line>>

CloseDone ==
  /\ Goes("closing", "join")
  /\ S!Interrupted /\ event' = S!NoEvent
  /\ holder' = "none"
  /\ UNCHANGED <<voice, held, said, input, batch, line>>

Join ==
  /\ Goes("join", "left")
  /\ \A t \in Workers : said[t] = Unsaid
  /\ Quiet /\ UNCHANGED <<input, batch, line>>

ReaderStep ==
  \/ (\E n \in 1..Len(input) : ReadLines(n))
  \/ TakeLine \/ LeaveLoop \/ Refuse
  \/ (\E type \in CommandTypes : Reject(type))
  \/ Start \/ AppendText \/ Backpressure \/ Finish \/ Interrupt \/ Interrupted
  \/ ShutdownCommand \/ Farewell \/ Close \/ CloseDone \/ Join
  \/ Write("reader")

-----------------------------------------------------------------------------
\* The other threads, as the SpeechSession lets them.

Works == UNCHANGED <<settings, voice, clientVars, batch, line, reader, unread, client,
                     signalRequested>>

Announce ==
  /\ said["synthesis"] = Unsaid /\ holder = "none"
  /\ S!Announce /\ Says("synthesis", Event("speaking", session))
  /\ UNCHANGED held /\ Works

\* Not before the synthesis thread has retired its jobs (outstanding_jobs).
Complete ==
  /\ said["maintenance"] = Unsaid /\ holder = "none" /\ held = 0
  /\ S!Complete /\ Says("maintenance", Event("finished", session))
  /\ UNCHANGED held /\ Works

\* The synthesis thread keeps a job of n bytes that pending has no more.
Keeps(n) == held = 0 /\ n <= Capacity /\ held' = n

UnsayableText(i, j) == ToSet(SubSeq(pending, i, j)) \cap Unsayable # {}

\* The generation is tested here, and the report is written without state_mutex:
\* an interrupt, and another session, may come between.
Fail(i, j) ==
  /\ said["synthesis"] = Unsaid
  /\ UnsayableText(i, j) /\ Keeps(j - i + 1)
  /\ S!Omit(i, j)
  /\ said' = [said EXCEPT !["synthesis"] = ErrorEvent("synthesis_failed", session, FALSE)]
  /\ UNCHANGED holder /\ Works

\* Mutant: the job is retired before its failure is reported.
RetireBeforeReport ==
  /\ held > 0 /\ held' = 0
  /\ S!Silence /\ UNCHANGED <<said, holder>> /\ Works

\* Both counters give the job back, after its failure has been reported.
Retire ==
  /\ held > 0 /\ said["synthesis"] = Unsaid /\ held' = 0
  /\ S!Silence /\ UNCHANGED <<said, holder>> /\ Works

\* A clip may be played before its job is retired.
Play(n) ==
  /\ S!Speak(n)
  /\ UNCHANGED held \/ (phase # "interrupting" /\ Keeps(n))
  /\ UNCHANGED <<said, holder>> /\ Works

\* Blank text is never a job.
LeaveOut(i, j) ==
  /\ S!Omit(i, j)
  /\ IF UnsayableText(i, j) THEN Keeps(j - i + 1) ELSE UNCHANGED held
  /\ UNCHANGED <<said, holder>> /\ Works

WorkerStep ==
  \/ Announce \/ Complete \/ Retire
  \/ (\E n \in 1..Len(pending) : Play(n))
  \/ (\E i, j \in 1..Len(pending) : i <= j /\ (Fail(i, j) \/ LeaveOut(i, j)))
  \/ (\E t \in Workers : Write(t))

-----------------------------------------------------------------------------
\* The events come in an order that makes sense to a client that reads all of
\* them: ready first and nothing after the last error; a session starts when
\* there is none, speaks at most once, and what is said of it comes before its
\* finished or interrupted, although three threads write - only the failure of a
\* phrase may come after interrupted, but never after finished; after
\* shutting_down there is only what the other threads had begun.  The seqs that
\* come back are those of appends, as the client wrote them and in the order it
\* sent them.
EventsMakeSense == ~client.surprised

\* A client that has been told everything knows the session: a command that
\* fits what it was told is refused only if an event is still on its way.
ClientKnows ==
  (\A t \in DOMAIN said : said[t] = Unsaid) /\ holder = "none" /\ client.end = NoString
    /\ client.ready /\ reader \in {"take", "handle"}
  => /\ client.session = (IF phase = "idle" THEN NoString ELSE session)
     /\ client.announced = announced

\* parse_command makes of whatever a client may send what the documentation says.
LinesParsedRight == reader = "ready" => \A l \in Messages : ParsedRight(l)
=============================================================================
