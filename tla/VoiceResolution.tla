-------------------------- MODULE VoiceResolution --------------------------
(***************************************************************************)
(* Where the voice comes from: load_voice_settings() in src/main.cpp lays  *)
(* a configuration file and the command line's options over the built-in   *)
(* voice, and every session of `trv stream` lays its own patch over that,  *)
(* after parse_command has accepted it.  The file is looked at three times *)
(* (exists, file_size, read), and may change in between.                   *)
(***************************************************************************)
EXTENDS VoiceSettings, Sequences

CONSTANTS
  Patches    \* what files, options and clients may ask for

NoPatch == [f \in {} |-> 0]

\* The configuration: of --config, of .trv.json, or --no-config.
Sources == {"explicit", "repository", "none"}

\* What is found under its name: nothing, something whose status or whose size
\* is not to be had (a directory), a file that cannot be opened, one that is no
\* patch, a patch of more than kMaximumVoiceConfigBytes, or a patch.
NoFile == {"missing", "uninspectable", "unmeasurable"}
Files ==
  [kind : NoFile \cup {"unreadable", "malformed"}, patch : {NoPatch}]
    \cup [kind : {"large", "patch"}, patch : Patches]
Missing == [kind |-> "missing", patch |-> NoPatch]

VARIABLES
  source,     \* where the configuration is to come from
  options,    \* the patch of the command line
  file,       \* what is under the configuration's name now
  at,         \* where the program is
  config,     \* the file that was read, or Missing (not in the code)
  settings,   \* the program's voice
  exitCode,   \* the exit code, or Running
  voices      \* the last session's patch and voice, if there was one (its
              \* patch is not in the code)

vars == <<source, options, file, at, config, settings, exitCode, voices>>

Running == -1
kExitConfiguration == 6

Init ==
  /\ source \in Sources /\ options \in Patches /\ file \in Files
  /\ at = "find" /\ config = Missing
  /\ settings = DefaultVoice
  /\ exitCode = Running
  /\ voices = {}

Goes(from, to) ==
  /\ at = from /\ at' = to
  /\ UNCHANGED <<source, options, file, exitCode, voices>>

\* Mutant: an error that does not reach the exit code.
FailsSilently(from) ==
  /\ at = from /\ at' = "exited"
  /\ UNCHANGED <<source, options, file, config, settings, exitCode, voices>>

Fails(from) ==
  /\ at = from /\ at' = "exited"
  /\ exitCode' = kExitConfiguration
  /\ UNCHANGED <<source, options, file, config, settings, voices>>

\* Another program writes, replaces or removes the file.
FileChanges ==
  /\ at \in {"find", "measure", "read"}
  /\ file' \in Files
  /\ UNCHANGED <<source, options, at, config, settings, exitCode, voices>>

FindNothing ==
  /\ source = "none" \/ (source = "repository" /\ file.kind = "missing")
  /\ Goes("find", "options") /\ UNCHANGED <<config, settings>>

FindUninspectable ==
  source = "repository" /\ file.kind = "uninspectable" /\ Fails("find")

Find ==
  /\ \/ source = "explicit"
     \/ source = "repository" /\ file.kind \notin {"missing", "uninspectable"}
  /\ Goes("find", "measure") /\ UNCHANGED <<config, settings>>

Measure ==
  \/ file.kind \in NoFile \cup {"large"} /\ Fails("measure")
  \/ /\ file.kind \notin NoFile \cup {"large"}
     /\ Goes("measure", "read") /\ UNCHANGED <<config, settings>>

\* Mutant: parse_voice_settings_json trusts the size that was measured.
MayParseMeasured == {"patch", "large"}

\* parse_voice_settings_json measures what was read once more.
MayParse == {"patch"}

ReadAccepts ==
  /\ file.kind \in MayParse
  /\ ParseAccepts(file.patch)
  /\ PatchSucceeds(settings, file.patch)

ReadConfig ==
  \/ ~ReadAccepts /\ Fails("read")
  \/ /\ ReadAccepts
     /\ config' = file
     /\ settings' = Patched(settings, file.patch)
     /\ Goes("read", "options")

ApplyOptions ==
  \/ ~PatchSucceeds(settings, options) /\ Fails("options")
  \/ /\ PatchSucceeds(settings, options)
     /\ settings' = Patched(settings, options)
     /\ Goes("options", "ready")
     /\ UNCHANGED config

\* A start command that parse_command accepts; handle lays its patch over the
\* program's voice, and may refuse it again.
StartSession(patch) ==
  /\ at = "ready"
  /\ ParseAccepts(patch)
  /\ voices' = {[patch |-> patch, voice |-> Patched(settings, patch),
                 ready |-> PatchSucceeds(settings, patch)]}
  /\ UNCHANGED <<source, options, file, at, config, settings, exitCode>>

Finished == at = "exited" /\ UNCHANGED vars

Next ==
  \/ FileChanges
  \/ FindNothing \/ FindUninspectable \/ Find \/ Measure \/ ReadConfig \/ ApplyOptions
  \/ \E patch \in Patches : StartSession(patch)
  \/ Finished

Spec == Init /\ [][Next]_vars

-----------------------------------------------------------------------------
\* The documented meaning, field by field.

\* A patch in which every value is one the documentation allows.
Valid(patch) ==
  /\ KnownPreset(patch) /\ KnownModel(patch)
  /\ \A f \in Numbers \cap DOMAIN patch : InRange(f, patch[f])

Decides(patch, f) ==
  f \in DOMAIN patch \/ (f # "model" /\ "preset" \in DOMAIN patch)

Decision(patch, f) ==
  IF f \in DOMAIN patch THEN patch[f] ELSE PresetValues[patch["preset"]][f]

\* `v` takes each field from the last layer that decides it, an individual
\* value coming before the preset of the same layer.
ResolvedTo(v, layers) ==
  \A f \in Fields :
    \/ /\ \A i \in 1..Len(layers) : ~Decides(layers[i], f)
       /\ v[f] = DefaultVoice[f]
    \/ \E i \in 1..Len(layers) :
         /\ Decides(layers[i], f) /\ v[f] = Decision(layers[i], f)
         /\ \A j \in (i + 1)..Len(layers) : ~Decides(layers[j], f)

-----------------------------------------------------------------------------
\* Every variable of the resolution keeps its type.
TypeOK ==
  /\ source \in Sources /\ options \in Patches /\ file \in Files
  /\ at \in {"find", "measure", "read", "options", "ready", "exited"}
  /\ config \in Files
  /\ exitCode = IF at = "exited" THEN kExitConfiguration ELSE Running
  /\ DOMAIN settings = Fields
  /\ \A s \in voices : s.patch \in Patches /\ DOMAIN s.voice = Fields

\* Built-in defaults, configuration, options, then the start command: in that
\* order, whatever presets and single values they mix, and over the program's
\* own voice for every session anew (README.md:95-97).
ResolutionOrder ==
  /\ at = "ready" => ResolvedTo(settings, <<config.patch, options>>)
  /\ \A s \in voices : ResolvedTo(s.voice, <<config.patch, options, s.patch>>)

\* Nothing invalid is let through because a later layer hides it or because the
\* file changed after it was measured; and with valid options only the file can
\* be a reason to exit.
ValidOrRefused ==
  /\ at = "ready" =>
       /\ Valid(options) /\ Valid(config.patch)
       /\ config.kind \in {"missing", "patch"}
       /\ NumbersInRange(settings)
  /\ at = "exited" /\ Valid(options) => source # "none"

\* handle never refuses a patch that parse_command has accepted: parse_command
\* tries it on the built-in voice alone, but it is valid over every other.
AcceptedApplies == \A s \in voices : s.ready
=============================================================================
