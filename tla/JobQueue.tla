------------------------------ MODULE JobQueue ------------------------------
(***************************************************************************)
(* JobQueue (src/streaming_runtime.cpp): the phrases waiting for the       *)
(* synthesis thread, oldest first, and a running count of their bytes.     *)
(* Its mutex is held for the whole of every method and for nothing else,   *)
(* so each method is one step.                                             *)
(***************************************************************************)
EXTENDS Integers, Sequences, Totals

CONSTANT kMaximumPendingTextBytes    \* 64 KiB in the code

ASSUME PendingTextAssumption == kMaximumPendingTextBytes \in Nat \ {0}

VARIABLES
  jobs,          \* jobs_: a job is [generation, session, text, voice]
  queueBytes,    \* bytes_
  queueStopped   \* stopped_

queueVars == <<jobs, queueBytes, queueStopped>>

QueueInit == jobs = <<>> /\ queueBytes = 0 /\ queueStopped = FALSE

PushRefused(text) ==
  queueStopped \/ queueBytes + Len(text) > kMaximumPendingTextBytes

Push(job) ==
  /\ ~PushRefused(job.text)
  /\ queueBytes' = queueBytes + Len(job.text)
  /\ jobs' = Append(jobs, job)
  /\ UNCHANGED queueStopped

\* pop, when it does not wait: it also drains a queue that was stopped.
Pop ==
  /\ jobs # <<>>
  /\ queueBytes' = queueBytes - Len(Head(jobs).text)
  /\ jobs' = Tail(jobs)
  /\ UNCHANGED queueStopped

PopEnds == queueStopped /\ jobs = <<>>

\* cancel: remove the jobs of a generation; the caller is told what went.
Cancelled(g) == {i \in 1..Len(jobs) : jobs[i].generation = g}

\* Mutants: a counter of what went stays at zero.
NoJobs(g) == 0
NoBytes(g) == 0

CancelledJobs(g) == Cardinality(Cancelled(g))
CancelledBytes(g) == Total([i \in Cancelled(g) |-> Len(jobs[i].text)])

\* The elements of s at `positions`, in their order.
ElementsAt(s, positions) ==
  [k \in 1..Cardinality(positions) |->
     s[CHOOSE i \in positions : Cardinality({j \in positions : j <= i}) = k]]

Cancel(g) ==
  /\ jobs' = ElementsAt(jobs, (1..Len(jobs)) \ Cancelled(g))
  /\ queueBytes' = queueBytes - CancelledBytes(g)
  /\ UNCHANGED queueStopped

StopQueue == queueStopped' = TRUE /\ UNCHANGED <<jobs, queueBytes>>

-----------------------------------------------------------------------------
\* bytes_ is the number of bytes of the jobs in the queue, and no more than
\* the 64 KiB: whatever is pushed, popped and cancelled in whatever order.
QueueBytesExact ==
  /\ queueBytes = Total([i \in 1..Len(jobs) |-> Len(jobs[i].text)])
  /\ queueBytes <= kMaximumPendingTextBytes
=============================================================================
