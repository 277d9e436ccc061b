--------------------------- MODULE VoiceSettings ---------------------------
(***************************************************************************)
(* Voice settings (src/voice_settings.cpp): how a patch is laid over a     *)
(* voice.  A voice maps every field to a value, a patch some of them.      *)
(* Numbers are in hundredths of the code's doubles.                        *)
(***************************************************************************)
EXTENDS Integers

Numbers == {"speed", "pitch_semitones", "expression", "gain_db"}
Fields == {"model", "preset"} \cup Numbers

Models == {"kal16", "rms"}
Presets == {"default", "tiny", "deep", "flat"}

Minimum == [speed |-> 60, pitch_semitones |-> -1200, expression |-> 0,
            gain_db |-> -2400]
Maximum == [speed |-> 180, pitch_semitones |-> 1200, expression |-> 200,
            gain_db |-> 600]
InRange(f, value) == value \in Minimum[f]..Maximum[f]

\* preset(): what a preset sets; it leaves the model alone.
PresetValues ==
  [default |-> [preset |-> "default", speed |-> 100, pitch_semitones |-> 0,
                expression |-> 100, gain_db |-> 0],
   tiny    |-> [preset |-> "tiny", speed |-> 110, pitch_semitones |-> 400,
                expression |-> 70, gain_db |-> -100],
   deep    |-> [preset |-> "deep", speed |-> 90, pitch_semitones |-> -400,
                expression |-> 80, gain_db |-> 0],
   flat    |-> [preset |-> "flat", speed |-> 100, pitch_semitones |-> 0,
                expression |-> 15, gain_db |-> 0]]

\* The values of `patch` where it has one, those of `voice` elsewhere.
Overlay(voice, patch) ==
  [f \in Fields |-> IF f \in DOMAIN patch THEN patch[f] ELSE voice[f]]

WithPreset(voice, patch) ==
  IF "preset" \in DOMAIN patch THEN Overlay(voice, PresetValues[patch["preset"]])
  ELSE voice

DefaultVoice == Overlay([f \in {"model"} |-> "kal16"], PresetValues["default"])

KnownPreset(patch) == "preset" \in DOMAIN patch => patch["preset"] \in Presets
KnownModel(patch) == "model" \in DOMAIN patch => patch["model"] \in Models
NumbersInRange(voice) == \A f \in Numbers : InRange(f, voice[f])

\* apply_voice_settings_patch: whether it succeeds, and the settings it
\* leaves behind, which a failure leaves partly changed.
PatchSucceeds(voice, patch) ==
  /\ KnownPreset(patch)
  /\ KnownModel(patch)
  /\ NumbersInRange(Overlay(WithPreset(voice, patch), patch))

\* Mutant: the preset is applied last.
PatchedPresetLast(voice, patch) ==
  IF KnownPreset(patch) /\ KnownModel(patch)
  THEN WithPreset(Overlay(voice, patch), patch) ELSE voice

Patched(voice, patch) ==
  IF ~KnownPreset(patch) THEN voice
  ELSE IF ~KnownModel(patch) THEN WithPreset(voice, patch)
  ELSE Overlay(WithPreset(voice, patch), patch)

\* Mutant: the patch is not tried on the defaults, so names go unchecked.
ParseAcceptsNumbers(patch) ==
  \A f \in Numbers \cap DOMAIN patch : InRange(f, patch[f])

\* parse_voice_settings_json, on an object of the right types: every number
\* is checked alone, then the whole patch is tried on the default settings.
ParseAccepts(patch) ==
  /\ \A f \in Numbers \cap DOMAIN patch : InRange(f, patch[f])
  /\ PatchSucceeds(DefaultVoice, patch)
=============================================================================
