-------------------------- MODULE MCProtocolReader --------------------------
(***************************************************************************)
(* Small instances of ProtocolReader for TLC.                              *)
(***************************************************************************)
EXTENDS ProtocolReader

CONSTANT MaxInput    \* bound: length of the longest text

\* "s" is the shutdown command, "a" another one; the empty line is an error,
\* and so are lines of two bytes.
Bytes == {"a", "s", "\n"}
AllInputs == UNION {[1..n -> Bytes] : n \in 0..MaxInput}
Shutdowns == {<<"s">>}
Commands == {<<"a">>}

\* The texts whose last line is not ended.
UnendedInputs == {text \in AllInputs : text # <<>> /\ text[Len(text)] # "\n"}
=============================================================================
