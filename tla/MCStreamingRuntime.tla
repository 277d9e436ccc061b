------------------------- MODULE MCStreamingRuntime -------------------------
(***************************************************************************)
(* Small instances of StreamingRuntime for TLC.                            *)
(***************************************************************************)
EXTENDS RuntimeImplementsSession, TLC

CONSTANTS A, B

OneSession == {A}
TwoSessions == {A, B}
Symmetry == Permutations(TwoSessions)

\* Letters, spaces and full stops; the runs say what the engine may refuse.
SafetyTexts == { <<"a", "b">>, <<" ">> }
SomeTexts == { <<"a", "b">>, <<" ">>, <<"x", ".">> }
Sentences == { <<"a", ".">>, <<"x", "!">> }
OneText == { <<"a", ".">> }
ShortTexts == { <<"a">>, <<" ", " ">> }

\* A patch the program accepts, and one it refuses.
SomePatches == { [speed |-> 120], [preset |-> "deep", speed |-> 500] }
OnePatch == { [speed |-> 120] }
=============================================================================
