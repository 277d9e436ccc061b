---------------------------- MODULE CommandLine ----------------------------
(***************************************************************************)
(* parse_voice_cli (src/main.cpp): the scan of the arguments of `say` and  *)
(* `stream`.                                                               *)
(***************************************************************************)
EXTENDS Integers, SequencesExt

CONSTANTS
  Dashed,      \* arguments that begin with '-', known options and others
  NumberOf,    \* the value of an argument that is a finite number
  Absent       \* no configuration is named

FieldOf ==
  [option \in {"--model", "--preset", "--speed", "--pitch-semitones", "--expression", "--gain-db"} |->
     CASE option = "--model" -> "model"
       [] option = "--preset" -> "preset"
       [] option = "--speed" -> "speed"
       [] option = "--pitch-semitones" -> "pitch_semitones"
       [] option = "--expression" -> "expression"
       [] option = "--gain-db" -> "gain_db"]
NumberOptions == DOMAIN FieldOf \ {"--model", "--preset"}
ValueOptions == DOMAIN FieldOf \cup {"--config"}

ASSUME CommandLineAssumption ==
  ValueOptions \cup {"--", "--no-config"} \subseteq Dashed /\ Absent \notin STRING

\* `awaits` is the option whose value comes next.
NoOption == ""
NotScanned ==
  [patch |-> [f \in {} |-> 0], config |-> Absent, noConfig |-> FALSE, positional |-> <<>>,
   positionalOnly |-> FALSE, awaits |-> NoOption, error |-> FALSE]

\* Mutant: a value may not look like an option.
IsPlainValue(option, argument) ==
  argument \notin Dashed /\ (option \in NumberOptions => argument \in DOMAIN NumberOf)

\* parse_number, for the options that need it.
IsValue(option, argument) == option \in NumberOptions => argument \in DOMAIN NumberOf

ValueOf(option, argument) == IF option \in NumberOptions THEN NumberOf[argument] ELSE argument

WithValue(o, argument) ==
  IF o.awaits = "--config" THEN [o EXCEPT !.awaits = NoOption, !.config = argument]
  ELSE LET field == FieldOf[o.awaits]
       IN  [o EXCEPT !.awaits = NoOption,
              !.patch = [f \in DOMAIN o.patch \cup {field} |->
                           IF f = field THEN ValueOf(o.awaits, argument) ELSE o.patch[f]]]

Scanned(o, argument) ==
  IF o.error THEN o
  ELSE IF o.awaits # NoOption THEN
    IF IsValue(o.awaits, argument) THEN WithValue(o, argument) ELSE [o EXCEPT !.error = TRUE]
  ELSE IF o.positionalOnly \/ argument \notin Dashed
    THEN [o EXCEPT !.positional = Append(@, argument)]
  ELSE IF argument = "--" THEN [o EXCEPT !.positionalOnly = TRUE]
  ELSE IF argument = "--no-config" THEN [o EXCEPT !.noConfig = TRUE]
  ELSE IF argument \in ValueOptions THEN [o EXCEPT !.awaits = argument]
  ELSE [o EXCEPT !.error = TRUE]

Scan(arguments) ==
  LET scanned[n \in 0..Len(arguments)] ==
        IF n = 0 THEN NotScanned ELSE Scanned(scanned[n - 1], arguments[n])
      o == scanned[Len(arguments)]
  IN  [o EXCEPT !.error = @ \/ o.awaits # NoOption \/ (o.noConfig /\ o.config # Absent)]

-----------------------------------------------------------------------------
\* The meaning of a command line, by the role that every argument has in it.

Roles == {"option", "value", "flag", "separator", "positional", "wrong"}

\* An argument after an option is its value, whatever it looks like; of the
\* others the first "--" ends the options.
RoleAt(args, role, i) ==
  LET isValue == i > 1 /\ role[i - 1] = "option"
      ended == \E j \in 1..(i - 1) : role[j] = "separator"
  IN  IF isValue THEN "value"
      ELSE IF ended \/ args[i] \notin Dashed THEN "positional"
      ELSE IF args[i] \in ValueOptions THEN "option"
      ELSE IF args[i] = "--" THEN "separator"
      ELSE IF args[i] = "--no-config" THEN "flag" ELSE "wrong"

HasRoles(args, role) == \A i \in 1..Len(args) : role[i] = RoleAt(args, role, i)

Places(role, r, n) == {i \in 1..n : role[i] = r}
Given(args, role, option, n) == {i \in Places(role, "value", n) : args[i - 1] = option}
PlaceAmong(p, places) == Cardinality({q \in places : q <= p})
IsGiven(o, option) ==
  IF option = "--config" THEN o.config # Absent ELSE FieldOf[option] \in DOMAIN o.patch
ValueIn(o, option) ==
  IF option = "--config" THEN o.config ELSE o.patch[FieldOf[option]]

\* The scan refuses exactly the command lines in which an argument has no role,
\* a value is missing or is no number, or which both name a configuration and
\* want none; and of the others it takes every positional, in order, and for
\* each option the last value it is given.
ScansRight(args) ==
  LET n == Len(args)
      o == Scan(args)
      role == CHOOSE r \in [1..n -> Roles] : HasRoles(args, r)
      positionals == Places(role, "positional", n)
      refused ==
        \/ Places(role, "wrong", n) # {}
        \/ n > 0 /\ role[n] = "option"
        \/ \E option \in NumberOptions :
             \E i \in Given(args, role, option, n) : args[i] \notin DOMAIN NumberOf
        \/ Places(role, "flag", n) # {} /\ Given(args, role, "--config", n) # {}
  IN  /\ o.error <=> refused
      /\ ~refused =>
           /\ o.positional = [k \in 1..Cardinality(positionals) |->
                args[CHOOSE p \in positionals : PlaceAmong(p, positionals) = k]]
           /\ o.noConfig <=> Places(role, "flag", n) # {}
           /\ \A option \in ValueOptions :
                LET given == Given(args, role, option, n)
                    last == CHOOSE i \in given : \A j \in given : j <= i
                IN  /\ IsGiven(o, option) <=> given # {}
                    /\ given # {} => ValueIn(o, option) = ValueOf(option, args[last])
=============================================================================
