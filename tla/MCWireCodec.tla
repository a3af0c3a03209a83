----------------------------- MODULE MCWireCodec -----------------------------
(***************************************************************************)
(* The codec of WireCodec checked field by field on a fresh buffer against *)
(* the wire format of spec.md 4.2, over bounded inputs: every scalar type   *)
(* with bit patterns that expose any misplaced byte, strings of up to two  *)
(* characters from Chars.  The state is the field under test with its     *)
(* encoding and what decoding that encoding returns, and an operand pair;  *)
(* it never changes.                                                       *)
(* The run also checks the integer helpers of MCArithmetic, the other pure *)
(* operators of the code.                                                  *)
(***************************************************************************)
EXTENDS Integers, Sequences, SequencesExt, WireCodec, MCArithmetic

CONSTANT Chars   \* the characters strings are made of, as UTF-8 byte sequences

VARIABLES
  field,   \* [t |-> format character, v |-> value, chars |-> characters]
  wire,    \* the field alone in a fresh buffer
  back     \* what decoding that buffer returns

vars == <<field, wire, back, pair>>

-----------------------------------------------------------------------------
(* A reference for what spec.md 4.2 says, written from the Unicode and     *)
(* protocol definitions rather than from the code.                         *)

\* The code point of the UTF-8 sequence c.
CodePoint(c) ==
  CASE Len(c) = 1 -> c[1]
    [] Len(c) = 2 -> (c[1] - 192) * 64 + (c[2] - 128)
    [] Len(c) = 3 -> (c[1] - 224) * 4096 + (c[2] - 128) * 64 + (c[3] - 128)
    [] Len(c) = 4 -> (c[1] - 240) * 262144 + (c[2] - 128) * 4096
                       + (c[3] - 128) * 64 + (c[4] - 128)

\* The characters the sanitize step keeps: no control characters.
Printable(chars) == SelectSeq(chars, LAMBDA c : CodePoint(c) >= 32 /\ CodePoint(c) # 127)

\* The 16-bit unit of a character in the legacy form.
LegacyUnit(c) == IF CodePoint(c) < 65536 THEN CodePoint(c) ELSE 65533

\* The big-endian bytes of a 16-bit unsigned value.
BigEndian16(u) == <<u \div 256, u % 256>>

\* The legacy form of a string: its unit count, then its units.
LegacyWire(chars) ==
  LET p == Printable(chars)
  IN  BigEndian16(Len(p)) \o FlattenSeq([i \in DOMAIN p |-> BigEndian16(LegacyUnit(p[i]))])

\* The UTF-8 string a reader gets back from the legacy form: U+FFFD and the
\* characters it stands for become '?'.
LegacyText(chars) ==
  FlattenSeq([i \in DOMAIN Printable(chars) |->
                IF LegacyUnit(Printable(chars)[i]) = 65533 THEN <<63>>
                ELSE Printable(chars)[i]])

-----------------------------------------------------------------------------

\* The widths of the scalar formats.
Width == ("b" :> 1) @@ ("B" :> 1) @@ ("s" :> 2) @@ ("i" :> 4) @@ ("f" :> 4)
           @@ ("l" :> 8) @@ ("d" :> 8)

\* Values of width w, most significant byte first: all bytes distinct, zero,
\* all ones, the sign bit alone, and the largest positive value.
Patterns(w) ==
  { [i \in 1..w |-> i], [i \in 1..w |-> 0], [i \in 1..w |-> 255],
    [i \in 1..w |-> IF i = 1 THEN 128 ELSE 0],
    [i \in 1..w |-> IF i = 1 THEN 127 ELSE 255] }

\* An SVBoolean is a C bool: 0 or 1.
Values(t) == IF t = "B" THEN {<<0>>, <<1>>} ELSE Patterns(Width[t])

\* Characters: a control character, ASCII, U+00E9, U+07FF and U+0800 (the
\* last two-byte and the first three-byte character), U+20AC and U+FFFD.
Tab == <<9>>
LetterA == <<65>>
EAcute == <<195, 169>>
Euro == <<226, 130, 172>>
Last2 == <<223, 191>>
First3 == <<224, 160, 128>>
Replacement == <<239, 191, 189>>

BmpChars == {Tab, LetterA, EAcute, Last2, First3, Euro, Replacement}

\* Sequences of at most two elements of S.
UpToTwo(S) == {<<>>} \cup {<<a>> : a \in S} \cup {<<a, b>> : a, b \in S}

ScalarFields ==
  UNION {{[t |-> t, v |-> v, chars |-> <<>>] : v \in Values(t)} : t \in DOMAIN Width}

StringFields ==
  {[t |-> t, v |-> FlattenSeq(cs), chars |-> cs] : t \in {"S", "U"}, cs \in UpToTwo(Chars)}

Fields == ScalarFields \cup StringFields

Init ==
  /\ field \in Fields
  /\ wire = AddField(<<>>, field.t, field.v)
  /\ back = RemoveField(wire, field.t)
  /\ pair \in Defined

Next == UNCHANGED vars

Spec == Init /\ [][Next]_vars

-----------------------------------------------------------------------------

\* SV_BufferAdd{Byte,Short,Integer,Long,Float,Double,Boolean} put a scalar
\* on the wire big-endian whatever the host order, and the matching
\* SV_BufferRemove* gives back the same bits and consumes exactly its width.
ScalarRoundTrip ==
  field.t \in DOMAIN Width =>
    /\ wire = field.v
    /\ back = [v |-> field.v, rest |-> <<>>, short |-> FALSE, fault |-> "none"]

\* SV_BufferAddString sends the sanitized bytes after their count, and
\* SV_BufferRemoveString gives back a NUL-terminated string a C reader sees
\* as exactly those bytes, consuming the whole field.
RawStringRoundTrip ==
  field.t = "S" =>
    /\ wire = BigEndian16(Len(FlattenSeq(Printable(field.chars))))
                \o FlattenSeq(Printable(field.chars))
    /\ back.fault = "none" /\ back.rest = <<>> /\ ~back.short
    /\ CString(back.v) = FlattenSeq(Printable(field.chars))

\* SV_BufferAddString16 sends the unit count and one big-endian unit per
\* character, with U+FFFD for a character outside the BMP.
LegacyEncoding ==
  field.t = "U" => wire = LegacyWire(field.chars)

\* SV_BufferRemoveString16 on what SV_BufferAddString16 sent gives back the
\* sanitized string with '?' for U+FFFD and for characters outside the BMP.
LegacyRoundTrip ==
  field.t = "U" =>
    /\ back.fault = "none" /\ back.rest = <<>>
    /\ back.v = LegacyText(field.chars)

=============================================================================
