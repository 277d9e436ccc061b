------------------------------ MODULE Protocol ------------------------------
(***************************************************************************)
(* The messages of `trv stream` (src/protocol.cpp): what parse_command     *)
(* makes of a line, and which fields json_event gives an event.            *)
(*                                                                         *)
(* A line is what yyjson and the size limit make of it: a JSON object, or  *)
(* else the code of the refusal.  An object maps the names of its fields   *)
(* to their values; Bad is a value of a type the field must not have (for  *)
(* strings, also one with a NUL; for seq, a number that is no integer or   *)
(* is outside the 64 bits of yyjson's integers).                           *)
(***************************************************************************)
EXTENDS VoiceSettings, TLC

CONSTANTS
  Bad,
  Nothing,     \* a value that is not there
  Int64Max     \* 2^63 - 1 in the code

ASSUME ProtocolAssumption == Int64Max \in Nat

NoPatch == [f \in {} |-> Nothing]
NoString == ""

\* What yyjson and the size limit make of a line.
IsLine(line) ==
  \/ line.form = "object"
  \/ line.form \in {"line_too_large", "invalid_json", "invalid_message"}

CommandTypes == {"start", "append", "finish", "interrupt", "shutdown"}

\* yyjson's integers: negative ones are signed, the others unsigned.
IsSint(value) == value # Bad /\ value \in (-Int64Max - 1)..(-1)
IsUint(value) == value # Bad /\ value \in 0..(2 * Int64Max + 1)

\* Mutant: the upper half of the unsigned numbers is let through.
IsAnyInteger(value) == IsSint(value) \/ IsUint(value)

IsSeq(value) == IsSint(value) \/ (IsUint(value) /\ value <= Int64Max)

\* static_cast to a signed number of as many bits.
ToInt64(value) == IF value > Int64Max THEN value - 2 * (Int64Max + 1) ELSE value

\* get_string.
HasString(m, f) == f \in DOMAIN m /\ m[f] # Bad

VoiceAccepted(m) ==
  "voice" \in DOMAIN m => m["voice"] # Bad /\ ParseAccepts(m["voice"])

\* parse_command: the first thing that is wrong, or "none".
ParseCode(line) ==
  LET m == line.fields
  IN  IF line.form # "object" THEN line.form
      ELSE IF ~HasString(m, "type") THEN "missing_field"
      ELSE IF m["type"] # "shutdown" /\ (~HasString(m, "session") \/ m["session"] = NoString)
        THEN "missing_field"
      ELSE IF m["type"] = "start" /\ ~VoiceAccepted(m) THEN "invalid_voice_settings"
      ELSE IF m["type"] = "append" /\ ~HasString(m, "text") THEN "missing_field"
      ELSE IF m["type"] \notin CommandTypes THEN "unknown_type"
      ELSE IF "seq" \in DOMAIN m /\ ~IsSeq(m["seq"]) THEN "invalid_field"
      ELSE "none"

\* The command of a line with which nothing is wrong; fields that mean nothing
\* to its type stay unread.
CommandOf(line) ==
  LET m == line.fields
      Read(f, type, none) ==
        IF m["type"] \in type /\ f \in DOMAIN m THEN m[f] ELSE none
  IN  [type    |-> m["type"],
       session |-> Read("session", CommandTypes \ {"shutdown"}, NoString),
       text    |-> Read("text", {"append"}, <<>>),
       voice   |-> Read("voice", {"start"}, NoPatch),
       seq     |-> IF "seq" \in DOMAIN m THEN ToInt64(m["seq"]) ELSE Nothing]

-----------------------------------------------------------------------------
\* json_event: fields that are empty or not given are left out, and only an
\* event with a code says whether the stream goes on.

JsonEvent(type, session, code, recoverable, seq, bytes, voice) ==
  LET all == [type |-> type, session |-> session, code |-> code,
              recoverable |-> recoverable, seq |-> seq, bytes |-> bytes, voice |-> voice]
      given == {"type"} \cup {f \in {"session"} : session # NoString}
                 \cup {f \in {"code", "recoverable"} : code # NoString}
                 \cup {f \in {"seq", "bytes", "voice"} : all[f] # Nothing}
  IN  [f \in given |-> all[f]]

Event(type, session) == JsonEvent(type, session, NoString, FALSE, Nothing, Nothing, Nothing)
ErrorEvent(code, session, recoverable) ==
  JsonEvent("error", session, code, recoverable, Nothing, Nothing, Nothing)

-----------------------------------------------------------------------------
\* What the documentation says of messages, without an order of tests.

Required(type) ==
  IF type = "shutdown" THEN {"type"}
  ELSE IF type = "append" THEN {"type", "session", "text"} ELSE {"type", "session"}

TypeOf(m) == IF HasString(m, "type") THEN m["type"] ELSE "shutdown"

\* The codes that are deserved by an object.
Deserves(m, code) ==
  \/ /\ code = "missing_field"
     /\ \E f \in Required(TypeOf(m)) : ~HasString(m, f) \/ (f = "session" /\ m[f] = NoString)
  \/ code = "unknown_type" /\ TypeOf(m) \notin CommandTypes
  \/ /\ code = "invalid_voice_settings" /\ TypeOf(m) = "start" /\ "voice" \in DOMAIN m
     /\ m["voice"] = Bad \/ ~ParseAccepts(m["voice"])
  \/ /\ code = "invalid_field" /\ "seq" \in DOMAIN m
     /\ m["seq"] = Bad \/ m["seq"] \notin (-Int64Max - 1)..Int64Max

\* A line is refused only with a code that it deserves, and if it deserves any;
\* what is accepted reaches the runtime as the client wrote it.
ParsedRight(line) ==
  LET m == line.fields
      code == ParseCode(line)
  IN  IF line.form # "object" THEN code = line.form
      ELSE IF code # "none" THEN Deserves(m, code)
      ELSE /\ \A c \in {"missing_field", "unknown_type", "invalid_voice_settings",
                        "invalid_field"} : ~Deserves(m, c)
           /\ "seq" \in DOMAIN m => CommandOf(line).seq = m["seq"]
           /\ \A f \in Required(m["type"]) : CommandOf(line)[f] = m[f]
=============================================================================
