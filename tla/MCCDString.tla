------------------------------ MODULE MCCDString ------------------------------
(* One string through two lives, built from the ASCII character "a" and   *)
(* the two-byte character "é" (C3 A9): texts of up to two characters, one *)
(* character per edit, up to two edits, at most three characters.  A      *)
(* two-byte character is what tells character positions and counts from  *)
(* byte offsets and slen.                                                  *)
EXTENDS CDString, TLC

ChA == <<97>>
ChE == <<195, 169>>

MCTexts == {<<>>, <<ChA>>, <<ChE>>, <<ChA, ChE>>, <<ChE, ChA>>}
MCPieces == {<<ChA>>, <<ChE>>}
MCChecks == {ChA, ChE}

\* The constructors a caller uses directly.
CallerOrigins == {"create", "format", "cstringcopy", "buffercopy", "clone", "cstring", "buffer"}
\* The strings the protocol decoders hand to the rest of the server.
WireOrigins == {"wire", "wire16"}

\* What the server's packet handlers rely on of a decoded string.
DecodedStringsBehave == StringRefinement /\ [](EndWithAgrees /\ NoLeak)

=============================================================================
