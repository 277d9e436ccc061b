---------------------------- MODULE SpeechEngine ----------------------------
(***************************************************************************)
(* The engine (src/flite_engine.cpp), as far as it owns something: two     *)
(* voices in Flite's registry.  And the output gain                        *)
(* (src/audio_processing.cpp).                                             *)
(***************************************************************************)
EXTENDS VoiceSettings, Sequences

CONSTANTS
  GainFactor,   \* 10^(decibels / 20), in hundredths, of a gain
  Waveform,     \* the samples that Flite makes of the text
  SampleMax     \* 32767 in the code

\* Every gain a voice may have is a factor, and samples have their width.
ASSUME GainAssumption ==
  /\ SampleMax \in Nat
  /\ Waveform \in Seq((-SampleMax - 1)..SampleMax)
  /\ \A gain \in Minimum.gain_db..Maximum.gain_db : GainFactor[gain] \in Nat

VARIABLE registered   \* the voices of the registry

EngineInit == registered = {}

\* register_cmu_us_..., when it succeeds.
Register(model) == registered' = registered \cup {model}

\* unregister_voices.
Unregister == registered' = {}

\* llround of hundredths: halves away from zero.
Rounded(x) == IF x >= 0 THEN (x + 50) \div 100 ELSE -((50 - x) \div 100)

\* Mutant: the scaled sample is cast, not clamped.
Wrapped(x) == ((x + SampleMax + 1) % (2 * SampleMax + 2)) - SampleMax - 1

Clamped(x) ==
  IF x > SampleMax THEN SampleMax ELSE IF x < -SampleMax - 1 THEN -SampleMax - 1 ELSE x

\* apply_output_gain.
Gained(samples, voice) ==
  IF voice["gain_db"] = 0 THEN samples
  ELSE [i \in 1..Len(samples) |->
          Clamped(Rounded(samples[i] * GainFactor[voice["gain_db"]]))]

-----------------------------------------------------------------------------
\* Too loud samples saturate: of two samples the larger one stays the larger or
\* they become equal, and none changes its sign.
Saturates(voice) ==
  LET loud == Gained(Waveform, voice)
  IN  \A i, j \in 1..Len(Waveform) :
        /\ loud[i] \in (-SampleMax - 1)..SampleMax
        /\ Waveform[i] <= Waveform[j] => loud[i] <= loud[j]
        /\ Waveform[i] >= 0 => loud[i] >= 0
        /\ Waveform[i] <= 0 => loud[i] <= 0
=============================================================================
