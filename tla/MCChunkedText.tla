--------------------------- MODULE MCChunkedText ---------------------------
EXTENDS ChunkedText

\* A letter, and one character for each rule that looks at characters.
MCAlphabet == {"a", " ", "\n", ".", ","}

\* Without newlines, for longer texts.
PlainAlphabet == {"a", " ", "."}
=============================================================================
