------------------------- MODULE VoiceResolutionProofs -------------------------
(***************************************************************************)
(* For every set of patches and every file: fields are resolved in the     *)
(* documented order, nothing invalid is let through, and a start command   *)
(* that is accepted applies to the program's voice.                        *)
(***************************************************************************)
EXTENDS VoiceResolution, SequenceTheorems, TLAPS

\* Settings, and the layers they have been made of so far.
LayersInv ==
  /\ at # "ready" => voices = {}
  /\ at \in {"find", "measure", "read"} => config = Missing /\ settings = DefaultVoice
  /\ at = "options" => ResolvedTo(settings, <<config.patch>>)

\* Every voice that a patch is laid over is in order itself.
SettingsInv ==
  /\ NumbersInRange(settings)
  /\ Valid(config.patch) /\ config.kind \in {"missing", "patch"}
  /\ at \in {"measure", "read"} => source # "none"

VInv ==
  /\ TypeOK /\ LayersInv /\ SettingsInv
  /\ ResolutionOrder /\ ValidOrRefused /\ AcceptedApplies

-----------------------------------------------------------------------------
\* One layer.

LEMMA PresetFields ==
  ASSUME NEW p \in Presets
  PROVE  /\ DOMAIN PresetValues[p] = Fields \ {"model"}
         /\ \A f \in Numbers : InRange(f, PresetValues[p][f])
<1>1. CASE p = "default"
  BY <1>1 DEF PresetValues, Fields, Numbers, InRange, Minimum, Maximum
<1>2. CASE p = "tiny"
  BY <1>2 DEF PresetValues, Fields, Numbers, InRange, Minimum, Maximum
<1>3. CASE p = "deep"
  BY <1>3 DEF PresetValues, Fields, Numbers, InRange, Minimum, Maximum
<1>4. CASE p = "flat"
  BY <1>4 DEF PresetValues, Fields, Numbers, InRange, Minimum, Maximum
<1> QED
  BY <1>1, <1>2, <1>3, <1>4 DEF Presets

\* What a layer does to each field.
LEMMA LayerFields ==
  ASSUME NEW voice, NEW patch, KnownPreset(patch), NEW f \in Fields
  PROVE  Overlay(WithPreset(voice, patch), patch)[f] =
           IF Decides(patch, f) THEN Decision(patch, f) ELSE voice[f]
<1>1. CASE f \in DOMAIN patch
  BY <1>1 DEF Overlay, Decides, Decision
<1>2. CASE f \notin DOMAIN patch /\ "preset" \in DOMAIN patch
  <2>1. DOMAIN PresetValues[patch["preset"]] = Fields \ {"model"}
    BY <1>2, PresetFields DEF KnownPreset
  <2> QED
    BY <1>2, <2>1 DEF Overlay, WithPreset, Decides, Decision
<1>3. CASE f \notin DOMAIN patch /\ "preset" \notin DOMAIN patch
  BY <1>3 DEF Overlay, WithPreset, Decides
<1> QED
  BY <1>1, <1>2, <1>3

LEMMA NumbersAreFields == \A f \in Numbers : f \in Fields /\ f # "model"
  BY DEF Numbers, Fields

\* A patch laid over a voice in order succeeds if and only if it is valid.
LEMMA ValidSucceeds ==
  ASSUME NEW voice, NumbersInRange(voice), NEW patch
  PROVE  PatchSucceeds(voice, patch) <=> Valid(patch)
<1>1. ASSUME Valid(patch) PROVE PatchSucceeds(voice, patch)
  <2>1. ASSUME NEW f \in Numbers
        PROVE  InRange(f, Overlay(WithPreset(voice, patch), patch)[f])
    <3>1. Overlay(WithPreset(voice, patch), patch)[f] =
            IF Decides(patch, f) THEN Decision(patch, f) ELSE voice[f]
      BY <1>1, LayerFields, NumbersAreFields DEF Valid
    <3>2. CASE ~Decides(patch, f)
      BY <3>1, <3>2 DEF NumbersInRange
    <3>3. CASE f \in DOMAIN patch
      BY <1>1, <3>1, <3>3 DEF Decides, Decision, Valid
    <3>4. CASE f \notin DOMAIN patch /\ "preset" \in DOMAIN patch
      BY <1>1, <3>1, <3>4, PresetFields, NumbersAreFields
      DEF Decides, Decision, Valid, KnownPreset
    <3> QED
      BY <3>2, <3>3, <3>4 DEF Decides
  <2> QED
    BY <1>1, <2>1 DEF Valid, PatchSucceeds, NumbersInRange
<1>2. ASSUME PatchSucceeds(voice, patch) PROVE Valid(patch)
  <2>1. ASSUME NEW f \in Numbers, f \in DOMAIN patch PROVE InRange(f, patch[f])
    BY <1>2, <2>1, NumbersAreFields DEF PatchSucceeds, NumbersInRange, Overlay
  <2> QED
    BY <1>2, <2>1 DEF Valid, PatchSucceeds
<1> QED
  BY <1>1, <1>2

LEMMA DefaultInRange == NumbersInRange(DefaultVoice)
<1>1. \A f \in Numbers : DefaultVoice[f] = PresetValues["default"][f]
  BY PresetFields, NumbersAreFields DEF DefaultVoice, Overlay, Presets
<1> QED
  BY <1>1, PresetFields DEF NumbersInRange, Presets

\* parse_voice_settings_json accepts the valid patches, and no others.
LEMMA AcceptsValid ==
  ASSUME NEW patch
  PROVE  ParseAccepts(patch) <=> Valid(patch)
  BY DefaultInRange, ValidSucceeds DEF ParseAccepts, Valid

LEMMA PatchedInRange ==
  ASSUME NEW voice, NEW patch, PatchSucceeds(voice, patch)
  PROVE  /\ Patched(voice, patch) = Overlay(WithPreset(voice, patch), patch)
         /\ NumbersInRange(Patched(voice, patch))
         /\ DOMAIN Patched(voice, patch) = Fields
  BY DEF PatchSucceeds, Patched, Overlay

\* A layer more.
LEMMA ResolvedMore ==
  ASSUME NEW voice, NEW layers, NEW n \in Nat, DOMAIN layers = 1..n, Len(layers) = n,
         ResolvedTo(voice, layers),
         NEW patch, PatchSucceeds(voice, patch),
         NEW more, Len(more) = n + 1, \A i \in 1..n : more[i] = layers[i],
         more[n + 1] = patch
  PROVE  ResolvedTo(Patched(voice, patch), more)
<1> SUFFICES ASSUME NEW f \in Fields
    PROVE \/ /\ \A i \in 1..(n + 1) : ~Decides(more[i], f)
             /\ Patched(voice, patch)[f] = DefaultVoice[f]
          \/ \E i \in 1..(n + 1) :
               /\ Decides(more[i], f) /\ Patched(voice, patch)[f] = Decision(more[i], f)
               /\ \A j \in (i + 1)..(n + 1) : ~Decides(more[j], f)
  BY DEF ResolvedTo
<1>1. Patched(voice, patch)[f] =
        IF Decides(patch, f) THEN Decision(patch, f) ELSE voice[f]
  BY PatchedInRange, LayerFields DEF PatchSucceeds
<1>2. CASE Decides(patch, f)
  <2>1. n + 1 \in 1..(n + 1) /\ (n + 1 + 1)..(n + 1) = {}
    OBVIOUS
  <2> QED
    BY <1>1, <1>2, <2>1
<1>3. CASE ~Decides(patch, f)
  <2>1. CASE (\A i \in 1..n : ~Decides(layers[i], f)) /\ voice[f] = DefaultVoice[f]
    BY <1>1, <1>3, <2>1
  <2>2. ASSUME NEW i \in 1..n, Decides(layers[i], f), voice[f] = Decision(layers[i], f),
               \A j \in (i + 1)..n : ~Decides(layers[j], f)
        PROVE  \E k \in 1..(n + 1) :
                 /\ Decides(more[k], f) /\ Patched(voice, patch)[f] = Decision(more[k], f)
                 /\ \A j \in (k + 1)..(n + 1) : ~Decides(more[j], f)
    <3>1. i \in 1..(n + 1) /\ more[i] = layers[i]
      BY <2>2
    <3>2. \A j \in (i + 1)..(n + 1) : ~Decides(more[j], f)
      BY <1>3, <2>2
    <3> QED
      BY <1>1, <1>3, <2>2, <3>1, <3>2
  <2> QED
    BY <2>1, <2>2 DEF ResolvedTo
<1> QED
  BY <1>2, <1>3

-----------------------------------------------------------------------------
\* The steps.

LEMMA NothingMissing ==
  /\ Missing \in Files /\ Missing.kind = "missing" /\ Missing.patch = NoPatch
  /\ Valid(NoPatch) /\ \A f \in Fields : ~Decides(NoPatch, f)
<1>1. DOMAIN NoPatch = {}
  BY DEF NoPatch
<1> QED
  BY <1>1 DEF Missing, Files, NoFile, Valid, KnownPreset, KnownModel, Decides

\* No layer yet, and then a layer that says nothing.
LEMMA ResolvedToNothing ==
  ResolvedTo(DefaultVoice, <<>>) /\ ResolvedTo(DefaultVoice, <<NoPatch>>)
  BY NothingMissing DEF ResolvedTo

LEMMA DefaultFields == DOMAIN DefaultVoice = Fields
  BY DEF DefaultVoice, Overlay

\* An invalid patch or file, or one that is not to be had, is the end.
LEMMA FailsKeeps ==
  ASSUME VInv, NEW from \in {"find", "measure", "read", "options"}, Fails(from),
         Valid(options) => source # "none"
  PROVE  VInv'
<1> USE DEF VInv, Fails
<1>1. TypeOK'
  BY DEF TypeOK
<1>2. LayersInv'
  BY DEF LayersInv
<1>3. SettingsInv'
  BY DEF SettingsInv
<1>4. ResolutionOrder' /\ AcceptedApplies'
  BY DEF LayersInv, ResolutionOrder, AcceptedApplies
<1>5. ValidOrRefused'
  BY DEF ValidOrRefused
<1> QED
  BY <1>1, <1>2, <1>3, <1>4, <1>5

\* A step on, before any file is read.
LEMMA GoesKeeps ==
  ASSUME VInv, NEW from \in {"find", "measure"}, NEW to \in {"measure", "read", "options"},
         Goes(from, to), UNCHANGED <<config, settings>>,
         to # "options" => source # "none"
  PROVE  VInv'
<1> USE DEF VInv, Goes
<1>1. TypeOK'
  BY DEF TypeOK, Running
<1>2. LayersInv'
  BY ResolvedToNothing, NothingMissing DEF LayersInv
<1>3. SettingsInv'
  BY DEF SettingsInv
<1>4. ResolutionOrder' /\ AcceptedApplies'
  BY DEF LayersInv, ResolutionOrder, AcceptedApplies
<1>5. ValidOrRefused'
  BY DEF ValidOrRefused
<1> QED
  BY <1>1, <1>2, <1>3, <1>4, <1>5

LEMMA FileChangesKeeps == VInv /\ FileChanges => VInv'
<1> SUFFICES ASSUME VInv, FileChanges PROVE VInv'
  OBVIOUS
<1>1. TypeOK'
  BY DEF VInv, FileChanges, TypeOK
<1>2. LayersInv' /\ SettingsInv' /\ ResolutionOrder' /\ ValidOrRefused' /\ AcceptedApplies'
  BY DEF VInv, FileChanges, LayersInv, SettingsInv, ResolutionOrder, ValidOrRefused,
         AcceptedApplies
<1> QED
  BY <1>1, <1>2 DEF VInv

LEMMA ReadKeeps == VInv /\ ReadConfig => VInv'
<1> SUFFICES ASSUME VInv, ReadConfig PROVE VInv'
  OBVIOUS
<1>1. CASE Fails("read")
  BY <1>1, FailsKeeps DEF VInv, SettingsInv, Fails
<1>2. CASE ReadAccepts /\ config' = file /\ settings' = Patched(settings, file.patch)
           /\ Goes("read", "options")
  <2>1. /\ file.kind = "patch" /\ Valid(file.patch)
        /\ PatchSucceeds(settings, file.patch)
        /\ NumbersInRange(settings') /\ DOMAIN settings' = Fields
    BY <1>2, AcceptsValid, PatchedInRange DEF ReadAccepts, MayParse
  <2>2. TypeOK'
    BY <1>2, <2>1 DEF VInv, TypeOK, Goes, Running
  <2>3. settings = DefaultVoice /\ voices = {} /\ voices' = {}
    BY <1>2 DEF VInv, LayersInv, Goes
  <2>4. ResolvedTo(settings', <<file.patch>>)
    <3> DEFINE layers == <<>>
               more == <<file.patch>>
    <3>n. PICK n \in Nat : n = 0
      OBVIOUS
    <3>1. Len(more) = n + 1 /\ more[n + 1] = file.patch
      BY <3>n
    <3>2. DOMAIN layers = 1..n /\ Len(layers) = n /\ \A i \in 1..n : more[i] = layers[i]
      BY <3>n
    <3>3. ResolvedTo(settings, layers)
      BY <2>3, ResolvedToNothing
    <3>4. PatchSucceeds(settings, file.patch)
      BY <2>1
    <3> HIDE DEF layers, more
    <3>5. ResolvedTo(Patched(settings, file.patch), more)
      BY <3>1, <3>2, <3>3, <3>4, ResolvedMore
    <3> QED
      BY <1>2, <3>5 DEF more
  <2>5. LayersInv'
    BY <1>2, <2>3, <2>4 DEF LayersInv, Goes
  <2>6. SettingsInv'
    BY <1>2, <2>1 DEF SettingsInv, Goes
  <2>7. ResolutionOrder' /\ ValidOrRefused' /\ AcceptedApplies'
    BY <1>2, <2>3 DEF ResolutionOrder, ValidOrRefused, AcceptedApplies, Goes
  <2> QED
    BY <2>2, <2>5, <2>6, <2>7 DEF VInv
<1> QED
  BY <1>1, <1>2 DEF ReadConfig

LEMMA OptionsKeep == VInv /\ ApplyOptions => VInv'
<1> SUFFICES ASSUME VInv, ApplyOptions PROVE VInv'
  OBVIOUS
<1>0. NumbersInRange(settings)
  BY DEF VInv, SettingsInv
<1>1. CASE ~PatchSucceeds(settings, options) /\ Fails("options")
  <2>1. ~Valid(options)
    BY <1>0, <1>1, ValidSucceeds
  <2> QED
    BY <1>1, <2>1, FailsKeeps
<1>2. CASE PatchSucceeds(settings, options) /\ settings' = Patched(settings, options)
           /\ Goes("options", "ready") /\ UNCHANGED config
  <2>1. Valid(options) /\ NumbersInRange(settings') /\ DOMAIN settings' = Fields
    BY <1>0, <1>2, ValidSucceeds, PatchedInRange
  <2>2. TypeOK'
    BY <1>2, <2>1 DEF VInv, TypeOK, Goes, Running
  <2>3. ResolvedTo(settings, <<config.patch>>) /\ voices = {} /\ voices' = {}
    BY <1>2 DEF VInv, LayersInv, Goes
  <2>4. ResolvedTo(settings', <<config.patch, options>>)
    <3> DEFINE layers == <<config.patch>>
               more == <<config.patch, options>>
    <3>n. PICK n \in Nat : n = 1
      OBVIOUS
    <3>1. Len(more) = n + 1 /\ more[n + 1] = options
      BY <3>n
    <3>2. DOMAIN layers = 1..n /\ Len(layers) = n /\ \A i \in 1..n : more[i] = layers[i]
      BY <3>n
    <3>3. ResolvedTo(settings, layers)
      BY <2>3
    <3> HIDE DEF layers, more
    <3>4. PatchSucceeds(settings, options)
      BY <1>2
    <3>5. ResolvedTo(Patched(settings, options), more)
      BY <3>1, <3>2, <3>3, <3>4, ResolvedMore
    <3> QED
      BY <1>2, <3>5 DEF more
  <2>5. LayersInv'
    BY <1>2 DEF LayersInv, Goes
  <2>6. SettingsInv'
    BY <1>2, <2>1 DEF VInv, SettingsInv, Goes
  <2>7. ResolutionOrder'
    BY <1>2, <2>3, <2>4 DEF ResolutionOrder, Goes
  <2>8. ValidOrRefused' /\ AcceptedApplies'
    BY <1>2, <2>1, <2>3, <2>6 DEF ValidOrRefused, AcceptedApplies, SettingsInv, Goes
  <2> QED
    BY <2>2, <2>5, <2>6, <2>7, <2>8 DEF VInv
<1> QED
  BY <1>1, <1>2 DEF ApplyOptions

LEMMA StartKeeps ==
  ASSUME VInv, NEW patch \in Patches, StartSession(patch)
  PROVE  VInv'
<1> DEFINE voice == Patched(settings, patch)
<1>1. /\ at = "ready" /\ PatchSucceeds(settings, patch)
      /\ DOMAIN voice = Fields
  BY AcceptsValid, ValidSucceeds, PatchedInRange DEF VInv, SettingsInv, StartSession
<1>2. \A s \in voices' : s.patch = patch /\ s.voice = voice /\ s.ready
  BY <1>1 DEF StartSession
<1>3. TypeOK'
  BY <1>1, <1>2 DEF VInv, TypeOK, StartSession
<1>4. ResolvedTo(voice, <<config.patch, options, patch>>)
  <2> DEFINE layers == <<config.patch, options>>
             more == <<config.patch, options, patch>>
  <2>n. PICK n \in Nat : n = 2
    OBVIOUS
  <2>1. Len(more) = n + 1 /\ more[n + 1] = patch
    BY <2>n
  <2>2. DOMAIN layers = 1..n /\ Len(layers) = n /\ \A i \in 1..n : more[i] = layers[i]
    BY <2>n
  <2>3. ResolvedTo(settings, layers)
    BY <1>1 DEF VInv, ResolutionOrder
  <2> HIDE DEF layers, more
  <2>4. PatchSucceeds(settings, patch)
    BY <1>1
  <2>5. ResolvedTo(Patched(settings, patch), more)
    BY <2>1, <2>2, <2>3, <2>4, ResolvedMore
  <2> QED
    BY <2>5 DEF more
<1>5. LayersInv' /\ SettingsInv' /\ ValidOrRefused'
  BY <1>1 DEF VInv, LayersInv, SettingsInv, ValidOrRefused, StartSession
<1>6. ResolutionOrder'
  BY <1>1, <1>2, <1>4 DEF VInv, ResolutionOrder, StartSession
<1>7. AcceptedApplies'
  BY <1>2 DEF AcceptedApplies
<1> QED
  BY <1>3, <1>5, <1>6, <1>7 DEF VInv

-----------------------------------------------------------------------------
\* VInv holds of every voice that is resolved.
THEOREM VoiceInductive == Spec => []VInv
<1>1. Init => VInv
  <2> SUFFICES ASSUME Init PROVE VInv
    OBVIOUS
  <2>1. TypeOK
    BY NothingMissing, DefaultFields DEF Init, TypeOK, Running
  <2>2. LayersInv /\ SettingsInv
    BY NothingMissing, DefaultInRange DEF Init, LayersInv, SettingsInv
  <2>3. ResolutionOrder /\ ValidOrRefused /\ AcceptedApplies
    BY DEF Init, ResolutionOrder, ValidOrRefused, AcceptedApplies
  <2> QED
    BY <2>1, <2>2, <2>3 DEF VInv
<1>2. VInv /\ [Next]_vars => VInv'
  <2> SUFFICES ASSUME VInv, [Next]_vars PROVE VInv'
    OBVIOUS
  <2>1. CASE FindNothing
    BY <2>1, GoesKeeps DEF FindNothing
  <2>2. CASE FindUninspectable
    BY <2>2, FailsKeeps DEF FindUninspectable
  <2>3. CASE Find
    BY <2>3, GoesKeeps DEF Find
  <2>4. CASE Measure
    <3>1. at = "measure" /\ source # "none"
      BY <2>4 DEF VInv, SettingsInv, Measure, Fails, Goes
    <3> QED
      BY <2>4, <3>1, GoesKeeps, FailsKeeps DEF Measure
  <2>5. CASE UNCHANGED vars
    BY <2>5 DEF VInv, TypeOK, LayersInv, SettingsInv, ResolutionOrder, ValidOrRefused,
                AcceptedApplies, vars
  <2> QED
    BY <2>1, <2>2, <2>3, <2>4, <2>5, FileChangesKeeps, ReadKeeps, OptionsKeep, StartKeeps
    DEF Next, Finished
<1> QED
  BY <1>1, <1>2, PTL DEF Spec

\* Every voice is resolved in the documented order, field by field.
THEOREM FieldsResolved == Spec => []ResolutionOrder
  BY VoiceInductive, PTL DEF VInv

\* Nothing invalid is let through, and nothing valid is refused.
THEOREM NothingInvalid == Spec => []ValidOrRefused
  BY VoiceInductive, PTL DEF VInv

\* A start command that is accepted applies to the program's voice.
THEOREM AcceptedAlwaysApplies == Spec => []AcceptedApplies
  BY VoiceInductive, PTL DEF VInv

\* Every variable of the resolution keeps its type.
THEOREM ResolutionTypeCorrect == Spec => []TypeOK
  BY VoiceInductive, PTL DEF VInv
=============================================================================
