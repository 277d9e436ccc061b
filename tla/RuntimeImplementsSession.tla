---------------------- MODULE RuntimeImplementsSession ----------------------
(***************************************************************************)
(* StreamingRuntime implements SpeechSession: the text a session still has *)
(* to speak is scattered over the clip being played, the audio queue, the  *)
(* hands of the synthesis thread, the job queue and the buffer.            *)
(***************************************************************************)
EXTENDS StreamingRuntime

Phase ==
  IF ~active \/ section = "start" THEN "idle"
  ELSE IF generation # currentGeneration THEN "interrupting"
  ELSE IF accepting THEN "receiving"
  ELSE "finishing"

\* The text of clips and jobs that is of generation g.
Own(x, g) == IF x.generation = g THEN x.text ELSE <<>>
OwnText(s, g) == FlattenSeq([i \in 1..Len(s) |-> Own(s[i], g)])

\* The job in the hands of the synthesis thread counts while its text is neither
\* a clip nor given up.
Unspoken == {"popped", "synthesize", "synthesized", "failed", "enqueue", "enqueue_locked"}
Held == IF synthesis \in Unspoken THEN Own(job, generation) ELSE <<>>

InAudio == Own(current, generation) \o OwnText(audioQueue, generation)
InJobs == Held \o OwnText(jobs, generation)
Pending == IF Phase = "idle" THEN <<>> ELSE InAudio \o (InJobs \o Rest(pushed))

SessionName == IF Phase = "idle" THEN NoSession ELSE session
Announced == Phase # "idle" /\ speakingEmitted

LifecycleEvent ==
  IF event.type \in {"session_started", "speaking", "finished", "interrupted"}
  THEN event ELSE NoEvent

Session == INSTANCE SpeechSession
  WITH phase <- Phase,
       session <- SessionName,
       pending <- Pending,
       announced <- Announced,
       event <- LifecycleEvent

\* A SpeechSession speaks text by whatever takes it off the front.  Here that is
\* playing it: unless the session is interrupted, no clip of it is given up.
IsOwn(x, g) == IF x.generation = g THEN 1 ELSE 0
OwnClips ==
  Total([i \in 1..Len(audioQueue) |-> IsOwn(audioQueue[i], generation)])
    + (IF HasCurrent THEN IsOwn(current, generation) ELSE 0)
ClipsArePlayed ==
  [][OwnClips' < OwnClips /\ Phase \in {"receiving", "finishing"}
       => callback'.written > callback.written]_vars

\* Every behaviour of the threads is, to the client, a behaviour of a
\* SpeechSession: nothing accepted is lost, reordered or said twice, whatever
\* is cut, queued, cancelled and played meanwhile, and the lifecycle events
\* come when they should and carry the right session.
ImplementsSession == Session!Spec /\ ClipsArePlayed
=============================================================================
