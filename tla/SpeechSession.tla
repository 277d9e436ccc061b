--------------------------- MODULE SpeechSession ---------------------------
(***************************************************************************)
(* What `trv stream` promises its client about one session after another,  *)
(* without threads, queues, phrases or counters (README.md, "Streaming").  *)
(* All there is to a session is the text accepted and not yet spoken:      *)
(*   - it is spoken in the order in which it was accepted;                 *)
(*   - none of it is left out but blanks and what the engine cannot say;   *)
(*   - `finished` comes when all of it has been spoken, after a finish;    *)
(*   - an interrupted session ends with nothing left to speak.             *)
(***************************************************************************)
EXTENDS Integers, SequencesExt

CONSTANTS Sessions, Texts, Unsayable

VARIABLES
  phase,      \* idle, receiving, finishing, or interrupting
  session,    \* the client's name for it
  pending,    \* text accepted and not yet spoken
  announced,  \* the client was told that it is speaking
  event       \* lifecycle event of the last step, or NoEvent

vars == <<phase, session, pending, announced, event>>

NoSession == ""
NoEvent == [type |-> "none", session |-> NoSession]
Tell(type) == event' = [type |-> type, session |-> session]

Blank == {" ", "\n"}

\* Text that may stay unspoken: all blank, or with something unsayable.
Omissible(text) ==
  \/ \A i \in 1..Len(text) : text[i] \in Blank
  \/ \E i \in 1..Len(text) : text[i] \in Unsayable

\* pending without its characters i .. j.
Without(i, j) == SubSeq(pending, 1, i - 1) \o SubSeq(pending, j + 1, Len(pending))

Init ==
  /\ phase = "idle" /\ session = NoSession
  /\ pending = <<>> /\ announced = FALSE
  /\ event = NoEvent

Open(s) ==
  /\ phase = "idle"
  /\ phase' = "receiving" /\ session' = s
  /\ pending' = <<>> /\ announced' = FALSE
  /\ event' = [type |-> "session_started", session |-> s]

Accept(text) ==
  /\ phase = "receiving"
  /\ UNCHANGED <<phase, session, announced>>
  /\ event' = NoEvent
  /\ pending' = pending \o text

Close ==
  /\ phase = "receiving" /\ phase' = "finishing"
  /\ event' = NoEvent
  /\ UNCHANGED <<session, pending, announced>>

Announce ==
  /\ phase \in {"receiving", "finishing"}
  /\ ~announced /\ announced' = TRUE
  /\ Tell("speaking")
  /\ UNCHANGED <<phase, session, pending>>

\* The next piece of text has been played to its end.
Speak(n) ==
  /\ phase # "idle"
  /\ UNCHANGED <<phase, session, announced>>
  /\ event' = NoEvent
  /\ pending' = SubSeq(pending, n + 1, Len(pending))

Omit(i, j) ==
  /\ phase \in {"receiving", "finishing"}
  /\ UNCHANGED <<phase, session, announced>>
  /\ event' = NoEvent
  /\ Omissible(SubSeq(pending, i, j))
  /\ pending' = Without(i, j)

Complete ==
  /\ phase = "finishing" /\ pending = <<>>
  /\ phase' = "idle" /\ session' = NoSession /\ announced' = FALSE
  /\ Tell("finished")
  /\ UNCHANGED pending

\* A command or the end of the program cuts the session short.
Interrupt ==
  /\ phase \in {"receiving", "finishing"} /\ phase' = "interrupting"
  /\ event' = NoEvent
  /\ UNCHANGED <<session, pending, announced>>

Discard(i, j) ==
  /\ phase = "interrupting"
  /\ UNCHANGED <<phase, session, announced>>
  /\ event' = NoEvent
  /\ pending' = Without(i, j)

\* The end of the program is not reported for its session.
Interrupted ==
  /\ phase = "interrupting" /\ phase' = "idle"
  /\ session' = NoSession /\ pending' = <<>> /\ announced' = FALSE
  /\ Tell("interrupted") \/ event' = NoEvent

Silence == event' = NoEvent /\ UNCHANGED <<phase, session, pending, announced>>

Next ==
  \/ Silence
  \/ \E s \in Sessions : Open(s)
  \/ \E text \in Texts : Accept(text)
  \/ \E n \in 1..Len(pending) : Speak(n)
  \/ \E i, j \in 1..Len(pending) : i <= j /\ (Omit(i, j) \/ Discard(i, j))
  \/ Close \/ Announce \/ Complete \/ Interrupt \/ Interrupted

Spec == Init /\ [][Next]_vars
=============================================================================
