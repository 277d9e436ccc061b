----------------------------- MODULE MCProgram -----------------------------
(***************************************************************************)
(* A small instance of Program for TLC.                                    *)
(***************************************************************************)
EXTENDS Program

\* "-2" is a number that looks like an option.
MCDashed == ValueOptions \cup {"--", "--no-config", "--loud", "-2"}
MCNumbers == ("12" :> 1200) @@ ("-2" :> -200)

Tokens ==
  {"--gain-db", "12", "--config", "--no-config", "--", "--loud", "-2", ""}
ArgumentsUpTo(n) == UNION {[1..i -> Tokens] : i \in 0..n}
MCArgvs ==
  { <<>>, <<"doctor">>, <<"doctor", "--json">>, <<"doctor", "now">> }
    \cup { <<"stream">> \o args : args \in ArgumentsUpTo(1) }
    \cup { <<"say">> \o args : args \in ArgumentsUpTo(3) }

LoudVoice == [speed |-> 125, expression |-> 50, gain_db |-> 600]
MCConfigs == { NoPatch, [speed |-> 500] }
\* Exact for the gains that occur, coarse elsewhere.
MCGains ==
  [g \in -2400..600 |->
     IF g = 600 THEN 200 ELSE IF g >= 0 THEN 100 ELSE IF g >= -200 THEN 79 ELSE 6]
MCWaveform == <<-8, -7, -1, 0, 1, 5, 7>>
MCTexts == { <<"x">> }

Object(fields) == [form |-> "object", fields |-> fields]
Line(type) == Object([type |-> type, session |-> "s"])
Append_(text, seq) == Object([type |-> "append", session |-> "s", text |-> <<text>>, seq |-> seq])

MCLines ==
  { Object([type |-> "start", session |-> "s", voice |-> LoudVoice]),
    Append_("x", 1), Append_("x", 2), Append_("x", 5), Line("finish"), Line("interrupt"),
    Object([type |-> "shutdown"]) }

\* Objects with every field absent, good or bad, and lines that are no objects.
Choice(f, values) == {NoPatch} \cup {f :> v : v \in values}
MCMessages == MCLines \cup
  { Object(t @@ s @@ x @@ v @@ n) :
      t \in Choice("type", CommandTypes \cup {"sing", Bad}),
      s \in Choice("session", {"s", "", Bad}),
      x \in Choice("text", {<<"x">>, Bad}),
      v \in Choice("voice", {LoudVoice, [speed |-> 500], [model |-> "hal"], Bad}),
      n \in Choice("seq", {-5, -4, 0, 3, 4, 7, 8, Bad}) }
  \cup { [form |-> f, fields |-> NoPatch] :
           f \in {"line_too_large", "invalid_json", "invalid_message"} }
=============================================================================
