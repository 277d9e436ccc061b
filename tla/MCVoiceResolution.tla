------------------------- MODULE MCVoiceResolution -------------------------
(***************************************************************************)
(* A small instance of VoiceResolution for TLC.                            *)
(***************************************************************************)
EXTENDS VoiceResolution

\* Patches of a model, a preset and a speed, each absent, good or bad: 60 and
\* 180 are the ends of its range, and every preset has a speed of its own.
MCModels == {[model |-> m] : m \in {"rms", "hal"}} \cup {NoPatch}
MCPresets == {[preset |-> p] : p \in {"tiny", "deep", "loud"}} \cup {NoPatch}
MCSpeeds == {[speed |-> s] : s \in {60, 180, 181}} \cup {NoPatch}

Merged(p, q) == [f \in DOMAIN p \cup DOMAIN q |-> IF f \in DOMAIN p THEN p[f] ELSE q[f]]
MCPatches == {Merged(Merged(m, p), s) : m \in MCModels, p \in MCPresets, s \in MCSpeeds}
=============================================================================
