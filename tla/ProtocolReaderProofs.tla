------------------------- MODULE ProtocolReaderProofs -------------------------
(***************************************************************************)
(* For every input, line limit and read size the reader of `trv stream`    *)
(* answers each line once, in order, as if it had been read whole.         *)
(***************************************************************************)
EXTENDS ProtocolReader, FiniteSetTheorems, SequenceTheorems, TLAPS

\* The text that has been processed has a last, perhaps empty, line.
HasStart == \E s \in 1..(processed + 1) : IsStart(s, processed)

\* The buffer of the last read is used up before the next one, and nothing is
\* read once a shutdown has been answered.
LoopInv ==
  /\ closed => written = Len(sent)
  /\ at \in {"poll", "read"} => continueReading
  /\ at \in {"test", "poll", "read"} /\ continueReading => processed = received
  /\ continueReading => \A i \in 1..Len(answers) : answers[i] # "shutdown"

IInv == TypeOK /\ HasStart /\ LoopInv /\ PendingIsUnended /\ LinesAnswered

-----------------------------------------------------------------------------
\* Lines of a text.

LEMMA StartUnique ==
  ASSUME NEW n \in Nat, NEW s, NEW t, IsStart(s, n), IsStart(t, n)
  PROVE  s = t
  BY DEF IsStart

\* The line that has begun, by its start.
LEMMA UnendedIs ==
  ASSUME NEW n \in Nat, NEW s, IsStart(s, n)
  PROVE  Unended(n) = SubSeq(sent, s, n)
<1>1. s \in 1..(n + 1)
  BY DEF IsStart
<1>2. IsStart(UnendedStart(n), n)
  BY <1>1 DEF UnendedStart
<1>3. UnendedStart(n) = s
  BY <1>2, StartUnique
<1> QED
  BY <1>3 DEF Unended

\* One character more.
LEMMA LineLonger ==
  ASSUME NEW n \in Nat, sent \in Seq(STRING), n + 1 <= Len(sent), NEW s, IsStart(s, n),
         sent[n + 1] # Newline
  PROVE  /\ IsStart(s, n + 1)
         /\ Unended(n + 1) = Append(Unended(n), sent[n + 1])
         /\ Len(Unended(n + 1)) = Len(Unended(n)) + 1
         /\ Unended(n) \in Seq(STRING)
<1>1. s \in 1..(n + 1)
  BY DEF IsStart
<1>2. IsStart(s, n + 1)
  BY <1>1 DEF IsStart
<1>3. Unended(n) = SubSeq(sent, s, n) /\ Unended(n + 1) = SubSeq(sent, s, n + 1)
  BY <1>2, UnendedIs
<1>4. SubSeq(sent, s, n) \in Seq(STRING) /\ Len(SubSeq(sent, s, n)) = n - s + 1
  BY <1>1
<1>5. SubSeq(sent, s, n + 1) = Append(SubSeq(sent, s, n), sent[n + 1])
  BY <1>1
<1>6. Len(SubSeq(sent, s, n + 1)) = n - s + 1 + 1
  BY <1>1
<1> QED
  BY <1>2, <1>3, <1>4, <1>5, <1>6

\* A newline more: an empty line begins.
LEMMA LineBegins ==
  ASSUME NEW n \in Nat, sent \in Seq(STRING), n + 1 <= Len(sent), sent[n + 1] = Newline
  PROVE  /\ IsStart(n + 2, n + 1)
         /\ Unended(n + 1) = <<>>
<1>1. IsStart(n + 2, n + 1)
  BY DEF IsStart
<1>2. Unended(n + 1) = SubSeq(sent, n + 2, n + 1)
  BY <1>1, UnendedIs
<1> QED
  BY <1>1, <1>2

LEMMA EndsFinite ==
  ASSUME NEW n \in Nat
  PROVE  IsFiniteSet(EndsUpTo(n)) /\ LinesUpTo(n) \in Nat
<1>1. IsFiniteSet(1..n)
  BY FS_Interval
<1>2. IsFiniteSet(EndsUpTo(n))
  BY <1>1, FS_Subset DEF EndsUpTo
<1> QED
  BY <1>2, FS_CardinalityType DEF LinesUpTo

\* Counting the lines of a longer text.
LEMMA LinesCount ==
  ASSUME NEW n \in Nat
  PROVE  /\ sent[n + 1] = Newline =>
              /\ EndsUpTo(n + 1) = EndsUpTo(n) \cup {n + 1}
              /\ LinesUpTo(n + 1) = LinesUpTo(n) + 1
         /\ sent[n + 1] # Newline =>
              /\ EndsUpTo(n + 1) = EndsUpTo(n)
              /\ LinesUpTo(n + 1) = LinesUpTo(n)
<1>1. CASE sent[n + 1] = Newline
  <2>1. EndsUpTo(n + 1) = EndsUpTo(n) \cup {n + 1}
    BY <1>1 DEF EndsUpTo
  <2>2. n + 1 \notin EndsUpTo(n)
    BY DEF EndsUpTo
  <2> QED
    BY <1>1, <2>1, <2>2, EndsFinite, FS_AddElement DEF LinesUpTo
<1>2. CASE sent[n + 1] # Newline
  <2>1. EndsUpTo(n + 1) = EndsUpTo(n)
    BY <1>2 DEF EndsUpTo
  <2> QED
    BY <1>2, <2>1 DEF LinesUpTo
<1> QED
  BY <1>1, <1>2

\* The number of a line is between one and the number of lines.
LEMMA LineNumber ==
  ASSUME NEW n \in Nat, NEW e \in EndsUpTo(n)
  PROVE  LinesUpTo(e) \in 1..LinesUpTo(n)
<1>1. e \in 1..n /\ e \in Nat /\ sent[e] = Newline
  BY DEF EndsUpTo
<1>2. EndsUpTo(e) \subseteq EndsUpTo(n) /\ e \in EndsUpTo(e)
  BY <1>1 DEF EndsUpTo
<1>3. IsFiniteSet(EndsUpTo(e)) /\ IsFiniteSet(EndsUpTo(n))
  BY <1>1, EndsFinite
<1>4. LinesUpTo(e) <= LinesUpTo(n)
  BY <1>2, <1>3, FS_Subset DEF LinesUpTo
<1>5. LinesUpTo(e) # 0
  BY <1>2, <1>3, FS_EmptySet DEF LinesUpTo
<1> QED
  BY <1>1, <1>4, <1>5, EndsFinite

-----------------------------------------------------------------------------
\* A step that leaves the lines alone.

LEMMA SameText ==
  ASSUME UNCHANGED sent
  PROVE  /\ \A n : EndsUpTo(n)' = EndsUpTo(n) /\ LinesUpTo(n)' = LinesUpTo(n)
         /\ \A s, n : IsStart(s, n)' = IsStart(s, n)
         /\ \A n : Unended(n)' = Unended(n)
<1>1. \A n : EndsUpTo(n)' = EndsUpTo(n) /\ LinesUpTo(n)' = LinesUpTo(n)
  BY DEF EndsUpTo, LinesUpTo
<1>2. \A s, n : IsStart(s, n)' = IsStart(s, n)
  BY DEF IsStart
<1>3. \A n : UnendedStart(n)' = UnendedStart(n)
  BY DEF UnendedStart, IsStart
<1> QED
  BY <1>1, <1>2, <1>3 DEF Unended

\* Where the reader may go without a line being answered.
LEMMA SameLines ==
  ASSUME IInv, UNCHANGED <<sent, lines>>,
         at \in {"leave", "exited"} => at' \in {"leave", "exited"},
         closed => closed'
  PROVE  HasStart' /\ PendingIsUnended' /\ LinesAnswered'
<1>1. HasStart'
  BY SameText DEF IInv, HasStart, lines
<1>2. PendingIsUnended'
  BY SameText DEF IInv, PendingIsUnended, lines
<1>3. LinesAnswered'
  BY SameText DEF IInv, LinesAnswered, lines
<1> QED
  BY <1>1, <1>2, <1>3

-----------------------------------------------------------------------------
\* Types and the order of the loop.

LEMMA TextTypes ==
  ASSUME TypeOK
  PROVE  /\ sent \in Seq(STRING) /\ Len(sent) \in Nat
         /\ written \in Nat /\ received \in Nat /\ processed \in Nat
         /\ processed <= received /\ received <= written /\ written <= Len(sent)
  BY ReaderAssumption DEF TypeOK

\* An answer more.
LEMMA AnswerType ==
  ASSUME answers \in Seq({"line_too_large", "shutdown", "command", "error"}),
         NEW a \in {"line_too_large", "shutdown", "command", "error"}
  PROVE  /\ Append(answers, a) \in Seq({"line_too_large", "shutdown", "command", "error"})
         /\ Len(Append(answers, a)) = Len(answers) + 1
         /\ \A i \in 1..Len(answers) : Append(answers, a)[i] = answers[i]
         /\ Append(answers, a)[Len(answers) + 1] = a
  OBVIOUS

LEMMA ParseType ==
  ASSUME NEW line
  PROVE  Parse(line) \in {"line_too_large", "shutdown", "command", "error"}
  BY DEF Parse

LEMMA TypePreserved == ASSUME IInv, Next PROVE TypeOK' /\ LoopInv'
<1> USE DEF IInv, client, signal
<1>t. /\ sent \in Seq(STRING) /\ Len(sent) \in Nat
      /\ written \in Nat /\ received \in Nat /\ processed \in Nat
      /\ processed <= received /\ received <= written /\ written <= Len(sent)
  BY TextTypes
<1>1. CASE ClientWrites
  BY <1>1, <1>t DEF ClientWrites, TypeOK, LoopInv, lines
<1>2. CASE ClientCloses
  BY <1>2, <1>t DEF ClientCloses, TypeOK, LoopInv, lines
<1>3. CASE SignalArrives \/ SignalNotifies
  <2>1. CASE SignalArrives
    BY <1>t, <2>1 DEF SignalArrives, TypeOK, LoopInv, lines
  <2>2. CASE SignalNotifies
    BY <1>t, <2>2 DEF SignalNotifies, TypeOK, LoopInv, lines
  <2> QED
    BY <1>3, <2>1, <2>2
<1>4. CASE TestLoop
  BY <1>4 DEF TestLoop, Goes, Continues, TypeOK, LoopInv, lines
<1>5. CASE PollReturns \/ PollReportsError \/ Interrupted
  BY <1>5 DEF PollReturns, PollReportsError, Interrupted, Goes, TypeOK, LoopInv, lines
<1>6. CASE ReadFails \/ Leave \/ Exited
  BY <1>6 DEF ReadFails, Leave, Exited, vars, TypeOK, LoopInv, lines, Running, kExitSuccess,
    kExitInternal
<1>7. ASSUME NEW n \in 1..ReadBytes, Read(n) PROVE TypeOK' /\ LoopInv'
  <2>1. n \in Nat
    BY ReaderAssumption
  <2> QED
    BY <1>7, <1>t, <2>1 DEF Read, Goes, TypeOK, LoopInv, lines
<1>8. CASE EndOfInput
  <2>1. CASE pending # <<>> /\ ~discarding
    <3>1. /\ answers' = Append(answers, Parse(pending))
          /\ continueReading' = (Parse(pending) # "shutdown")
      BY <1>8, <2>1 DEF EndOfInput, HandleLine
    <3>2. TypeOK'
      BY <1>8, <3>1, AnswerType, ParseType DEF EndOfInput, Goes, TypeOK
    <3>3. continueReading /\ answers \in Seq({"line_too_large", "shutdown", "command", "error"})
      BY <1>8 DEF EndOfInput, Goes, TypeOK, LoopInv
    <3>4. continueReading' => \A i \in 1..Len(answers') : answers'[i] # "shutdown"
      <4>1. /\ Len(answers') = Len(answers) + 1
            /\ \A i \in 1..Len(answers) : answers'[i] = answers[i]
            /\ answers'[Len(answers) + 1] = Parse(pending)
        BY <3>1, <3>3, AnswerType, ParseType
      <4>2. \A i \in 1..Len(answers) : answers[i] # "shutdown"
        BY <3>3 DEF LoopInv
      <4>3. continueReading' => Parse(pending) # "shutdown"
        BY <3>1
      <4>4. Len(answers) \in Nat
        BY <3>3
      <4> QED
        BY <4>1, <4>2, <4>3, <4>4
    <3>5. LoopInv'
      BY <1>8, <3>4 DEF EndOfInput, Goes, LoopInv
    <3> QED
      BY <3>2, <3>5
  <2>2. CASE ~(pending # <<>> /\ ~discarding)
    BY <1>8, <2>2 DEF EndOfInput, Goes, TypeOK, LoopInv
  <2> QED
    BY <2>1, <2>2
<1>9. CASE LineEnds
  <2>1. /\ answers' = Append(answers, Parse(pending))
        /\ continueReading' = (Parse(pending) # "shutdown")
        /\ continueReading
    BY <1>9 DEF LineEnds, HandleLine, Processes
  <2>2. TypeOK'
    BY <1>9, <1>t, <2>1, AnswerType, ParseType
    DEF LineEnds, Processes, Goes, TypeOK, NextLine
  <2>3. LoopInv'
    BY <1>9, <1>t, <2>1, AnswerType, ParseType
    DEF LineEnds, Processes, Goes, TypeOK, LoopInv
  <2> QED
    BY <2>2, <2>3
<1>10. CASE DiscardedLineEnds
  <2>1. answers' = Append(answers, "line_too_large") /\ continueReading
    BY <1>10 DEF DiscardedLineEnds, Processes
  <2>2. TypeOK'
    <3>1. answers' \in Seq({"line_too_large", "shutdown", "command", "error"})
      BY <2>1, AnswerType DEF TypeOK
    <3>2. pending' \in Seq(STRING)
      BY <1>10 DEF DiscardedLineEnds, NextLine
    <3>3. discarding' \in BOOLEAN /\ continueReading' \in BOOLEAN
      BY <1>10 DEF DiscardedLineEnds, TypeOK
    <3> QED
      BY <1>10, <1>t, <3>1, <3>2, <3>3 DEF DiscardedLineEnds, Processes, Goes, TypeOK
  <2>3. LoopInv'
    BY <1>10, <1>t, <2>1, AnswerType DEF DiscardedLineEnds, Processes, Goes, TypeOK, LoopInv
  <2> QED
    BY <2>2, <2>3
<1>11. CASE LineGrows
  <2>1. NextByte \in STRING
    BY <1>11, <1>t DEF LineGrows, Processes, NextByte
  <2>2. Append(pending, NextByte) \in Seq(STRING)
    BY <2>1 DEF TypeOK
  <2>3. discarding' \in BOOLEAN
    BY <1>11 DEF LineGrows, ExceedsLimit
  <2>4. pending' \in Seq(STRING)
    <3>1. pending' = <<>> \/ pending' = Append(pending, NextByte)
      BY <1>11 DEF LineGrows
    <3>2. <<>> \in Seq(STRING)
      OBVIOUS
    <3> QED
      BY <2>2, <3>1, <3>2
  <2> QED
    BY <1>11, <1>t, <2>3, <2>4 DEF LineGrows, Processes, Goes, TypeOK, LoopInv
<1>12. CASE ByteDiscarded
  BY <1>12, <1>t DEF ByteDiscarded, Processes, Goes, TypeOK, LoopInv
<1>13. CASE Processed
  BY <1>13, <1>t DEF Processed, Goes, TypeOK, LoopInv, lines
<1> QED
  BY <1>1, <1>2, <1>3, <1>4, <1>5, <1>6, <1>7, <1>8, <1>9, <1>10, <1>11, <1>12, <1>13
  DEF Next, Reader, Environment

-----------------------------------------------------------------------------
\* Steps that process a byte or answer a line.

\* While bytes are processed, the answers are those of the ended lines.
LEMMA AnswersSoFar ==
  ASSUME IInv, at \notin {"leave", "exited"}
  PROVE  /\ Len(answers) = LinesUpTo(processed)
         /\ answers \in Seq({"line_too_large", "shutdown", "command", "error"})
         /\ LinesUpTo(processed) \in Nat
         /\ \A e \in EndsUpTo(processed) : answers[LinesUpTo(e)] = Parse(Unended(e - 1))
<1>1. LinesUpTo(processed) \in Nat
  BY TextTypes, EndsFinite DEF IInv
<1> QED
  BY <1>1 DEF IInv, LinesAnswered, TypeOK

LEMMA NewlineStep ==
  ASSUME IInv, UNCHANGED sent, at = "process", at' = "process",
         processed < received, continueReading, processed' = processed + 1,
         NextByte = Newline, pending' = <<>>, discarding' = FALSE,
         answers' = Append(answers, Parse(Unended(processed)))
  PROVE  HasStart' /\ PendingIsUnended' /\ LinesAnswered'
<1> DEFINE n == processed
<1>1. /\ n \in Nat /\ sent \in Seq(STRING) /\ n + 1 <= Len(sent) /\ sent[n + 1] = Newline
      /\ processed' = n + 1
  BY TextTypes DEF IInv, NextByte
<1>2. IsStart(n + 2, n + 1) /\ Unended(n + 1) = <<>>
  BY <1>1, LineBegins
<1>3. HasStart'
  <2>1. n + 2 \in 1..(n + 2)
    BY <1>1
  <2> QED
    BY <1>1, <1>2, <2>1, SameText DEF HasStart
<1>4. PendingIsUnended'
  <2>1. Unended(processed)' = <<>>
    BY <1>1, <1>2, SameText
  <2>2. ~(Len(<<>>) > kMaximumProtocolLineBytes)
    BY ReaderAssumption
  <2> QED
    BY <2>1, <2>2 DEF PendingIsUnended
<1>5. /\ EndsUpTo(n + 1) = EndsUpTo(n) \cup {n + 1}
      /\ LinesUpTo(n + 1) = LinesUpTo(n) + 1
  BY <1>1, LinesCount
<1>6. /\ Len(answers) = LinesUpTo(n) /\ LinesUpTo(n) \in Nat
      /\ answers \in Seq({"line_too_large", "shutdown", "command", "error"})
      /\ \A e \in EndsUpTo(n) : answers[LinesUpTo(e)] = Parse(Unended(e - 1))
  BY AnswersSoFar
<1>7. /\ Len(answers') = LinesUpTo(n) + 1
      /\ \A i \in 1..LinesUpTo(n) : answers'[i] = answers[i]
      /\ answers'[LinesUpTo(n) + 1] = Parse(Unended(n))
  BY <1>6, AnswerType, ParseType
<1>8. \A e \in EndsUpTo(n + 1) : answers'[LinesUpTo(e)] = Parse(Unended(e - 1))
  <2>1. ASSUME NEW e \in EndsUpTo(n) PROVE answers'[LinesUpTo(e)] = Parse(Unended(e - 1))
    BY <1>1, <1>6, <1>7, <2>1, LineNumber
  <2>2. answers'[LinesUpTo(n + 1)] = Parse(Unended((n + 1) - 1))
    BY <1>1, <1>5, <1>7
  <2> QED
    BY <1>5, <2>1, <2>2
<1>9. \A i \in 1..(Len(answers') - 1) : answers'[i] # "shutdown"
  <2>1. \A i \in 1..Len(answers) : answers[i] # "shutdown"
    BY DEF IInv, LoopInv
  <2> QED
    BY <1>6, <1>7, <2>1
<1>10. LinesAnswered'
  <2>1. \A e \in EndsUpTo(processed)' :
          answers'[LinesUpTo(e)'] = Parse(Unended(e - 1)')
    BY <1>1, <1>8, SameText
  <2>2. Len(answers)' = LinesUpTo(processed)' /\ LinesUpTo(processed)' \in Nat
    BY <1>1, <1>5, <1>6, <1>7, SameText
  <2>3. Len(answers') # LinesUpTo(processed)' + 1
    BY <2>2
  <2>4. \A i \in 1..(Len(answers') - 1) : answers'[i] # "shutdown"
    BY <1>9
  <2> QED
    BY <2>1, <2>2, <2>3, <2>4 DEF LinesAnswered, Parse
<1> QED
  BY <1>3, <1>4, <1>10

LEMMA CharacterStep ==
  ASSUME IInv, UNCHANGED sent, at = "process", at' = "process",
         processed < received, processed' = processed + 1,
         NextByte # Newline, UNCHANGED answers,
         \/ /\ ~discarding
            /\ discarding' = ExceedsLimit(Append(pending, NextByte))
            /\ pending' = IF ExceedsLimit(Append(pending, NextByte)) THEN <<>>
                          ELSE Append(pending, NextByte)
         \/ discarding /\ UNCHANGED <<discarding, pending>>
  PROVE  HasStart' /\ PendingIsUnended' /\ LinesAnswered'
<1> DEFINE n == processed
<1>1. /\ n \in Nat /\ sent \in Seq(STRING) /\ n + 1 <= Len(sent) /\ sent[n + 1] # Newline
      /\ processed' = n + 1 /\ NextByte = sent[n + 1]
  BY TextTypes DEF IInv, NextByte
<1>2. PICK s \in 1..(n + 1) : IsStart(s, n)
  BY DEF IInv, HasStart
<1>3. /\ IsStart(s, n + 1)
      /\ Unended(n + 1) = Append(Unended(n), sent[n + 1])
      /\ Len(Unended(n + 1)) = Len(Unended(n)) + 1
      /\ Unended(n) \in Seq(STRING)
  BY <1>1, <1>2, LineLonger
<1>4. HasStart'
  <2>1. s \in 1..(n + 2)
    BY <1>1
  <2> QED
    BY <1>1, <1>3, <2>1, SameText DEF HasStart
<1>5. PendingIsUnended'
  <2>1. Unended(processed)' = Append(Unended(n), NextByte)
    BY <1>1, <1>3, SameText
  <2>2. /\ discarding <=> Len(Unended(n)) > kMaximumProtocolLineBytes
        /\ pending = IF discarding THEN <<>> ELSE Unended(n)
    BY DEF IInv, PendingIsUnended
  <2>3. CASE discarding
    <3>1. Len(Append(Unended(n), NextByte)) > kMaximumProtocolLineBytes
      BY <1>1, <1>3, <2>2, <2>3, ReaderAssumption
    <3> QED
      BY <2>1, <2>2, <2>3, <3>1 DEF PendingIsUnended
  <2>4. CASE ~discarding
    BY <2>1, <2>2, <2>4 DEF PendingIsUnended, ExceedsLimit
  <2> QED
    BY <2>3, <2>4
<1>6. EndsUpTo(n + 1) = EndsUpTo(n) /\ LinesUpTo(n + 1) = LinesUpTo(n)
  BY <1>1, LinesCount
<1>7. LinesAnswered'
  <2>1. /\ Len(answers) = LinesUpTo(n) /\ LinesUpTo(n) \in Nat
        /\ \A e \in EndsUpTo(n) : answers[LinesUpTo(e)] = Parse(Unended(e - 1))
    BY AnswersSoFar
  <2>2. EndsUpTo(processed)' = EndsUpTo(n) /\ LinesUpTo(processed)' = LinesUpTo(n)
    BY <1>1, <1>6, SameText
  <2>3. \A e \in EndsUpTo(processed)' :
          answers'[LinesUpTo(e)'] = Parse(Unended(e - 1)')
    BY <2>1, <2>2, SameText
  <2>4. \A i \in 1..(Len(answers') - 1) : answers'[i] # "shutdown"
    BY DEF IInv, LinesAnswered
  <2> QED
    BY <2>1, <2>2, <2>3, <2>4 DEF LinesAnswered, Parse
<1> QED
  BY <1>4, <1>5, <1>7

LEMMA EndOfInputLines ==
  ASSUME IInv, EndOfInput
  PROVE  HasStart' /\ PendingIsUnended' /\ LinesAnswered'
<1> DEFINE n == processed
<1>1. /\ UNCHANGED <<sent, processed, pending, discarding>>
      /\ at = "read" /\ at' = "leave" /\ closed /\ closed' /\ received = written
  BY DEF EndOfInput, Goes, client
<1>2. /\ continueReading /\ n = Len(sent)
  BY <1>1 DEF IInv, LoopInv
<1>3. HasStart' /\ PendingIsUnended'
  BY <1>1, SameText DEF IInv, HasStart, PendingIsUnended
<1>4. CASE pending # <<>> /\ ~discarding
  <2>1. answers' = Append(answers, Parse(pending)) /\ pending = Unended(n) /\ Unended(n) # <<>>
    BY <1>4 DEF EndOfInput, HandleLine, IInv, PendingIsUnended
  <2>2. /\ Len(answers) = LinesUpTo(n) /\ LinesUpTo(n) \in Nat
        /\ answers \in Seq({"line_too_large", "shutdown", "command", "error"})
        /\ \A e \in EndsUpTo(n) : answers[LinesUpTo(e)] = Parse(Unended(e - 1))
    BY <1>1, AnswersSoFar
  <2>3. /\ Len(answers') = LinesUpTo(n) + 1
        /\ \A i \in 1..LinesUpTo(n) : answers'[i] = answers[i]
        /\ answers'[LinesUpTo(n) + 1] = Parse(Unended(n))
    BY <2>1, <2>2, AnswerType, ParseType
  <2>4. \A e \in EndsUpTo(n) : answers'[LinesUpTo(e)] = Parse(Unended(e - 1))
    <3>1. n \in Nat
      BY TextTypes DEF IInv
    <3> QED
      BY <2>2, <2>3, <3>1, LineNumber
  <2>5. \A i \in 1..(Len(answers') - 1) : answers'[i] # "shutdown"
    BY <1>2, <2>2, <2>3 DEF IInv, LoopInv
  <2>6. /\ EndsUpTo(processed)' = EndsUpTo(n) /\ LinesUpTo(processed)' = LinesUpTo(n)
        /\ Unended(processed)' = Unended(n)
    BY <1>1, SameText
  <2>7. \A e \in EndsUpTo(processed)' :
          answers'[LinesUpTo(e)'] = Parse(Unended(e - 1)')
    BY <1>1, <2>4, <2>6, SameText
  <2>8. Len(answers') = LinesUpTo(processed)' + 1
        /\ answers'[LinesUpTo(processed)' + 1] = Parse(Unended(processed)')
    BY <2>3, <2>6
  <2>9. /\ at' \in {"leave", "exited"} /\ closed' /\ processed' = Len(sent')
        /\ Unended(processed)' # <<>>
    BY <1>1, <1>2, <2>1, <2>6
  <2>10. LinesAnswered'
    BY <2>5, <2>7, <2>8, <2>9 DEF LinesAnswered, Parse
  <2> QED
    BY <1>3, <2>10
<1>5. CASE ~(pending # <<>> /\ ~discarding)
  <2>1. UNCHANGED <<sent, lines>>
    BY <1>1, <1>5 DEF EndOfInput, lines
  <2> QED
    BY <1>1, <2>1, SameLines
<1> QED
  BY <1>4, <1>5

LEMMA LinesPreserved ==
  ASSUME IInv, Next
  PROVE  HasStart' /\ PendingIsUnended' /\ LinesAnswered'
<1> USE DEF client
<1>1. CASE UNCHANGED <<sent, lines>> /\ (at \in {"leave", "exited"} => at' \in {"leave", "exited"})
           /\ (closed => closed')
  BY <1>1, SameLines
<1>2. CASE EndOfInput
  BY <1>2, EndOfInputLines
<1>3. CASE LineEnds
  <2>1. pending = Unended(processed)
    BY <1>3 DEF LineEnds, IInv, PendingIsUnended
  <2>2. answers' = Append(answers, Parse(Unended(processed)))
    BY <1>3, <2>1 DEF LineEnds, HandleLine
  <2>3. discarding' = FALSE
    BY <1>3 DEF LineEnds, IInv, TypeOK
  <2> QED
    BY <1>3, <2>2, <2>3, NewlineStep DEF LineEnds, Processes, Goes, NextLine
<1>4. CASE DiscardedLineEnds
  <2>1. Parse(Unended(processed)) = "line_too_large"
    BY <1>4 DEF DiscardedLineEnds, IInv, PendingIsUnended, Parse
  <2>2. answers' = Append(answers, Parse(Unended(processed)))
    BY <1>4, <2>1 DEF DiscardedLineEnds
  <2> QED
    BY <1>4, <2>2, NewlineStep DEF DiscardedLineEnds, Processes, Goes, NextLine
<1>5. CASE LineGrows
  BY <1>5, CharacterStep DEF LineGrows, Processes, Goes
<1>6. CASE ByteDiscarded
  BY <1>6, CharacterStep DEF ByteDiscarded, Processes, Goes
<1>7. CASE ClientWrites \/ ClientCloses \/ SignalArrives \/ SignalNotifies \/ ReadFails
           \/ PollReportsError \/ Interrupted \/ Exited
  BY <1>1, <1>7 DEF ClientWrites, ClientCloses, SignalArrives, SignalNotifies, ReadFails,
    PollReportsError, Interrupted, Exited, Goes, vars
<1>8. CASE TestLoop \/ PollReturns \/ (\E n \in 1..ReadBytes : Read(n)) \/ Processed \/ Leave
  BY <1>1, <1>8 DEF TestLoop, PollReturns, Read, Processed, Leave, Goes
<1> QED
  BY <1>2, <1>3, <1>4, <1>5, <1>6, <1>7, <1>8 DEF Next, Reader, Environment

-----------------------------------------------------------------------------
LEMMA InitIInv == Init => IInv
<1> SUFFICES ASSUME Init PROVE IInv
  OBVIOUS
<1>1. sent \in Seq(STRING) /\ processed = 0
  BY ReaderAssumption DEF Init
<1>2. TypeOK
  <2>1. answers = <<>> /\ pending = <<>> /\ written = 0 /\ received = 0 /\ Len(sent) \in Nat
    BY <1>1 DEF Init
  <2>2. /\ sent \in Inputs /\ closed \in BOOLEAN /\ discarding \in BOOLEAN
        /\ continueReading \in BOOLEAN /\ signalRequested \in BOOLEAN
    BY DEF Init
  <2> QED
    BY <1>1, <2>1, <2>2 DEF Init, TypeOK
<1>3. IsStart(1, 0)
  BY DEF IsStart
<1>4. HasStart
  BY <1>1, <1>3 DEF HasStart
<1>5. LoopInv
  BY DEF Init, LoopInv
<1>6. Unended(0) = <<>>
  <2>1. Unended(0) = SubSeq(sent, 1, 0)
    BY <1>3, UnendedIs
  <2> QED
    BY <1>1, <2>1
<1>7. PendingIsUnended
  <2>1. ~(Len(<<>>) > kMaximumProtocolLineBytes)
    BY ReaderAssumption
  <2> QED
    BY <1>1, <1>6, <2>1 DEF Init, PendingIsUnended
<1>8. EndsUpTo(0) = {} /\ LinesUpTo(0) = 0
  <2>1. EndsUpTo(0) = {}
    BY DEF EndsUpTo
  <2> QED
    BY <2>1, FS_EmptySet DEF LinesUpTo
<1>9. LinesAnswered
  BY <1>1, <1>8 DEF Init, LinesAnswered
<1> QED
  BY <1>2, <1>4, <1>5, <1>7, <1>9 DEF IInv

LEMMA StutterIInv == IInv /\ UNCHANGED vars => IInv'
<1> SUFFICES ASSUME IInv, UNCHANGED vars PROVE IInv'
  OBVIOUS
<1>1. TypeOK' /\ LoopInv'
  BY DEF IInv, TypeOK, LoopInv, vars, client, lines, signal
<1>2. HasStart' /\ PendingIsUnended' /\ LinesAnswered'
  BY SameLines DEF vars, client
<1> QED
  BY <1>1, <1>2 DEF IInv

\* The parts of the reader's state fit together at every step.
THEOREM ReaderInductive == Spec => []IInv
<1>1. IInv /\ [Next]_vars => IInv'
  BY TypePreserved, LinesPreserved, StutterIInv DEF IInv
<1> QED
  BY <1>1, InitIInv, PTL DEF Spec

\* No byte is looked at before it was read, or read before it was written.
THEOREM ReaderTypeCorrect == Spec => []TypeOK
<1>1. IInv => TypeOK
  BY DEF IInv
<1> QED
  BY <1>1, ReaderInductive, PTL

\* pending and discarding_oversized_line: the buffer is the line that has begun,
\* however it was read, until it is too long.
THEOREM PendingExact == Spec => []PendingIsUnended
<1>1. IInv => PendingIsUnended
  BY DEF IInv
<1> QED
  BY <1>1, ReaderInductive, PTL

\* Each line is answered once, in order, as if it had been read whole, and
\* nothing after a shutdown.
THEOREM EveryLineAnswered == Spec => []LinesAnswered
<1>1. IInv => LinesAnswered
  BY DEF IInv
<1> QED
  BY <1>1, ReaderInductive, PTL
=============================================================================
