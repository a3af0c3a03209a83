-------------------------------- MODULE Utf8 --------------------------------
(***************************************************************************)
(* The UTF-8 helpers of src/src/String.c as operators over byte strings.   *)
(*                                                                         *)
(* A C string is the sequence of its bytes, each the unsigned bit pattern  *)
(* of a char (0..255).  Indexes are 0-based as in the C code.  Reading at  *)
(* or past the end yields 0: the NUL terminator bstrlib keeps after the    *)
(* data.  Every caller modelled here stops at that NUL or at its limit     *)
(* before it would read further.                                           *)
(***************************************************************************)
EXTENDS Integers, Sequences, Bitwise

Byte == 0..255

\* data[i] of a NUL-terminated C string.
ByteAt(data, i) == IF i < Len(data) THEN data[i + 1] ELSE 0

\* A CDString as C code reads it: its bytes up to the first NUL.
CString(s) ==
  IF \E i \in DOMAIN s : s[i] = 0
  THEN SubSeq(s, 1, (CHOOSE i \in DOMAIN s : s[i] = 0 /\ \A j \in 1..(i - 1) : s[j] # 0) - 1)
  ELSE s

\* cd_UTF8_nextCharLength: the length of the UTF-8 sequence a lead byte
\* starts, and 0 for a continuation byte or a byte that cannot lead one.
NextCharLength(c) ==
  CASE (c & 128) = 0   -> 1
    [] (c & 224) = 192 -> 2
    [] (c & 240) = 224 -> 3
    [] (c & 248) = 240 -> 4
    [] OTHER           -> 0

\* What CD_UTF8_strnlen "returns" when its loop makes no progress: the
\* index stays put because NextCharLength is 0, so the call never returns.
Diverges == -1

\* The loop of CD_UTF8_strnlen from index i with result chars counted so far.
\* The condition reads data[i] before it tests i < limit, as the C code does.
RECURSIVE StrNLenFrom(_, _, _, _)
StrNLenFrom(data, limit, i, result) ==
  IF ByteAt(data, i) = 0 \/ ~(i < limit) THEN result
  ELSE IF NextCharLength(ByteAt(data, i)) = 0 THEN Diverges
  ELSE StrNLenFrom(data, limit, i + NextCharLength(ByteAt(data, i)), result + 1)

\* CD_UTF8_strnlen(data, limit): the number of characters before the NUL or
\* the limit, or Diverges.
StrNLen(data, limit) == StrNLenFrom(data, limit, 0, 0)

\* cd_UpdateLength: a CDString's length field, computed over its slen bytes
\* whenever a string is created or changed.
Length(s) == StrNLen(s, Len(s))

\* CD_UTF8_offset(data, offset): the byte offset of character number offset.
RECURSIVE Utf8Offset(_, _)
Utf8Offset(data, offset) ==
  IF offset = 0 THEN 0
  ELSE LET r == Utf8Offset(data, offset - 1)
       IN  r + NextCharLength(ByteAt(data, r))

\* CD_CharAt(s, index), through CD_CreateStringFromOffset(s, index, 1): a
\* copy of the bytes of character number index.  blk2bstr copies as many
\* bytes as the lead byte announces, so a sequence cut short by the end of
\* the string takes the NUL after it.
CharAt(s, index) ==
  LET off == Utf8Offset(s, index)
  IN  [k \in 1..NextCharLength(ByteAt(s, off)) |-> ByteAt(s, off + k - 1)]

=============================================================================
