---------------------------- MODULE ChunkedText ----------------------------
(***************************************************************************)
(* What becomes of one text that a client sends in fragments: after every  *)
(* fragment the runtime cuts off the phrases it can, and after a pause of  *)
(* the client, or its finish, it cuts up the rest (StreamingRuntime's      *)
(* commit_available_locked, without its queue).                            *)
(***************************************************************************)
EXTENDS Chunker

CONSTANTS
  Alphabet,    \* the characters of the texts
  MaxText,     \* bound: length of the longest text
  MayPause     \* the client may wait for 400 ms before it goes on

ASSUME TextAssumption ==
  Alphabet \subseteq STRING /\ MaxText \in Nat /\ MayPause \in BOOLEAN

VARIABLES
  text,      \* the whole text of the client
  arrived,   \* number of its characters that have been appended
  buffer,    \* those not yet cut off
  phrases,   \* the phrases cut off; those of a forced cut, and its rest
  mode       \* receive: between fragments; cut, pause, finish: committing; done

vars == <<text, arrived, buffer, phrases, mode>>

Init ==
  /\ text \in UNION {[1..n -> Alphabet] : n \in 1..MaxText}
  /\ arrived = 0
  /\ buffer = <<>> /\ phrases = <<>>
  /\ mode = "receive"

AppendFragment(n) ==
  /\ mode = "receive" /\ arrived + n <= Len(text)
  /\ buffer' = buffer \o SubSeq(text, arrived + 1, arrived + n)
  /\ arrived' = arrived + n
  /\ mode' = "cut"
  /\ UNCHANGED <<text, phrases>>

\* The maintenance thread, 400 ms after the last fragment.
PauseFlush ==
  /\ MayPause /\ mode = "receive" /\ buffer # <<>>
  /\ mode' = "pause"
  /\ UNCHANGED <<text, arrived, buffer, phrases>>

Finish ==
  /\ mode = "receive" /\ arrived = Len(text)
  /\ mode' = "finish"
  /\ UNCHANGED <<text, arrived, buffer, phrases>>

Committing == {"cut", "pause", "finish"}
Forced == mode \in {"pause", "finish"}
NextBytes == NextChunkBytes(buffer, Forced)

Phrase(n) ==
  [text |-> SubSeq(buffer, 1, n), forced |-> Forced, rest |-> Forced /\ n = Len(buffer)]

\* Mutant: a character too many is erased.
CutPhraseErasesMore ==
  /\ mode \in Committing /\ NextBytes > 0
  /\ phrases' = Append(phrases, Phrase(NextBytes))
  /\ buffer' = SubSeq(buffer, NextBytes + 2, Len(buffer))
  /\ UNCHANGED <<text, arrived, mode>>

CutPhrase ==
  /\ mode \in Committing /\ NextBytes > 0
  /\ phrases' = Append(phrases, Phrase(NextBytes))
  /\ buffer' = SubSeq(buffer, NextBytes + 1, Len(buffer))
  /\ UNCHANGED <<text, arrived, mode>>

CutEnds ==
  /\ mode \in Committing /\ NextBytes = 0
  /\ mode' = IF mode = "finish" THEN "done" ELSE "receive"
  /\ UNCHANGED <<text, arrived, buffer, phrases>>

Done == mode = "done" /\ UNCHANGED vars

Next ==
  \/ \E n \in 1..MaxText : AppendFragment(n)
  \/ PauseFlush \/ Finish \/ CutPhrase \/ CutEnds \/ Done

Spec == Init /\ [][Next]_vars

-----------------------------------------------------------------------------
\* The phrases, put together again, are the text: nothing is lost, repeated
\* or reordered between buffer.substr and buffer.erase, whichever rule cuts.
\* At the end nothing stays behind, so a flush finds a phrase as long as there
\* is text, and the commit loop ends.
Reconstructs ==
  /\ FlattenSeq([i \in 1..Len(phrases) |-> phrases[i].text]) \o buffer
       = SubSeq(text, 1, arrived)
  /\ mode = "done" => buffer = <<>>

\* Between fragments less than kHardMaximum characters wait, and no phrase
\* is cut off below kMinimumChunk except after a pause or at the end.
PhraseSizes ==
  /\ mode = "receive" => Len(buffer) < kHardMaximum
  /\ \A i \in 1..Len(phrases) :
       phrases[i].forced \/ Len(phrases[i].text) >= kMinimumChunk

\* Two phrases meet at a space or a mark.  They meet inside a word, or inside a
\* character of several bytes, only where the client itself paused, after all
\* that it had sent, or where no space was in reach: the whole of the phrase
\* beyond kMinimumChunk is part of that word.
WordsKept ==
  \A i \in 1..(Len(phrases) - 1) :
    LET cut == phrases[i].text
    IN  \/ AsciiSpace(Last(cut)) \/ SentenceStop(Last(cut)) \/ Last(cut) \in ClauseMarks
        \/ phrases[i].rest
        \/ /\ Len(cut) = kHardMaximum
           /\ \A p \in (kMinimumChunk + 1)..kHardMaximum : ~AsciiSpace(cut[p])

\* The phrases of a text that arrives in one piece.
WholePhrases(whole, forced) ==
  LET cut[from \in 1..(Len(whole) + 1)] ==
        LET rest == SubSeq(whole, from, Len(whole))
            n == NextChunkBytes(rest, forced)
        IN  IF n = 0 THEN <<>> ELSE <<SubSeq(rest, 1, n)>> \o cut[from + n]
  IN  cut[1]

\* The phrases do not depend on how the client divides the text, when it does
\* not pause.
FragmentsDoNotMatter ==
  mode = "done" =>
    [i \in 1..Len(phrases) |-> phrases[i].text] = WholePhrases(text, TRUE)
=============================================================================
