------------------------------ MODULE WireCodec ------------------------------
(***************************************************************************)
(* The survival-protocol codec of src/src/protocols/survival/Buffer.c, with *)
(* the byte-order helpers of src/include/craftd/javaendian.h.               *)
(*                                                                         *)
(* A buffer is the sequence of bytes queued in its evbuffer.  A scalar     *)
(* value of width w is the sequence of its w two's-complement digits, most *)
(* significant first; floats and doubles are their bit patterns, since the *)
(* code only reorders their bytes.  A string is the sequence of its bytes. *)
(* A metadata record is a sequence of items [type, data] where data is the *)
(* sequence of the item's field values.                                    *)
(*                                                                         *)
(* Decoding returns a record [v, rest, short, fault]: the value, the bytes *)
(* left in the buffer, whether some evbuffer_remove found fewer bytes than *)
(* it asked for (the code never looks), and how the call ends when it does *)
(* not return normally.                                                    *)
(***************************************************************************)
EXTENDS Integers, Sequences, SequencesExt, Bitwise, Utf8

CONSTANTS
  HostBigEndian,  \* WORDS_BIGENDIAN / FLOAT_WORDS_BIGENDIAN of the build
  SVByteSigned    \* whether SVByte, the type of a metadata tag, is signed

ASSUME HostBigEndian \in BOOLEAN /\ SVByteSigned \in BOOLEAN

\* The ways a decoding call ends: it returns, it overruns a heap block, the
\* allocator aborts the process, it never returns, or it indexes past the
\* end of the metadata format table.
Faults == {"none", "overflow", "abort", "hang", "undefined"}

\* The w digits of the integer x, most significant first (x mod 256^w).
Digits(x, w) ==
  [i \in 1..w |-> IF w - i >= 4 THEN (IF x < 0 THEN 255 ELSE 0)
                  ELSE (x \div 256^(w - i)) % 256]

\* The bytes of a scalar in host memory, and back (the map is its own inverse).
Mem(v) == IF HostBigEndian THEN v ELSE Reverse(v)

\* htons, htonl, ntohs, ntohl, and htonf, ntohf which apply them to the bits.
Hton(m) == IF HostBigEndian THEN m ELSE Reverse(m)

\* Mutation of Hton64: the two words swapped in place but not exchanged.
Hton64WordsKept(m) ==
  IF HostBigEndian THEN m
  ELSE Hton(SubSeq(m, 1, 4)) \o Hton(SubSeq(m, 5, 8))

\* htonll/ntohll of javaendian.h: ((uint64_t) htonl(x) << 32) + htonl(x >> 32),
\* the low word swapped into the high half and the high word into the low
\* half; htond and ntohd apply it to the bits of a double.
Hton64(m) ==
  IF HostBigEndian THEN m
  ELSE Hton(SubSeq(m, 5, 8)) \o Hton(SubSeq(m, 1, 4))

-----------------------------------------------------------------------------
(* Encoding.                                                               *)

\* SV_BufferAddByte and SV_BufferAddBoolean: one byte appended as it is.
AddByte(buf, v) == buf \o Mem(v)

\* SV_BufferAddShort, SV_BufferAddInteger, SV_BufferAddFloat.
AddSwapped(buf, v) == buf \o Hton(Mem(v))

\* SV_BufferAddLong, SV_BufferAddDouble.
AddSwapped64(buf, v) == buf \o Hton64(Mem(v))

\* SV_StringSanitize (not in this source tree): drops control characters.
Sanitize(s) == SelectSeq(s, LAMBDA c : c >= 32 /\ c # 127)

\* Mutation of AddString: the size taken before sanitizing.
AddStringSizeUnsanitized(buf, s) ==
  AddSwapped(buf, Digits(Len(s), 2)) \o Sanitize(s)

\* SV_BufferAddString: a short holding the byte count, then the bytes.  The
\* size_t count is stored in an SVShort, so it is taken modulo 2^16.
AddString(buf, s) ==
  LET z == Sanitize(s)
  IN  AddSwapped(buf, Digits(Len(z), 2)) \o z

\* Mutation of Ucs2: the two-byte test (0xC0) made before the three-byte one.
Ucs2TwoByteFirst(ch) ==
  LET b0 == ByteAt(ch, 0)
      b1 == ByteAt(ch, 1)
      b2 == ByteAt(ch, 2)
  IN  CASE (b0 & 128) = 0   -> b0
        [] (b0 & 192) = 192 -> IF b1 = 0 THEN 65533
                               ELSE ((b0 & 31) * 64) | (b1 & 63)
        [] (b0 & 224) = 224 -> IF b1 = 0 \/ b2 = 0 THEN 65533
                               ELSE ((b0 & 15) * 4096) | ((b1 & 63) * 64) | (b2 & 63)
        [] OTHER            -> 65533

\* The UCS-2 unit SV_BufferAddString16 computes for the bytes of one
\* character.  A lead byte 111xxxxx takes the three-byte branch, so does the
\* lead of a four-byte sequence; continuation bytes are only tested for 0.
Ucs2(ch) ==
  LET b0 == ByteAt(ch, 0)
      b1 == ByteAt(ch, 1)
      b2 == ByteAt(ch, 2)
  IN  CASE (b0 & 128) = 0   -> b0
        [] (b0 & 224) = 224 -> IF b1 = 0 \/ b2 = 0 THEN 65533
                               ELSE ((b0 & 15) * 4096) | ((b1 & 63) * 64) | (b2 & 63)
        [] (b0 & 192) = 192 -> IF b1 = 0 THEN 65533
                               ELSE ((b0 & 31) * 64) | (b1 & 63)
        [] OTHER            -> 65533

\* The units of a sanitized string, one per character.
Units16(z) == [i \in 1..Length(z) |-> Ucs2(CharAt(z, i - 1))]

\* SV_BufferAddString16: a short holding the character count, then one
\* big-endian 16-bit unit per character.
AddString16(buf, s) ==
  LET u == Units16(Sanitize(s))
  IN  AddSwapped(buf, Digits(Len(u), 2))
        \o FlattenSeq([i \in DOMAIN u |-> Hton(Mem(Digits(u[i], 2)))])

\* The formats table of the metadata codec, indexed by kind + 1: the five
\* primitive kinds, then SVTypeShortByteShort (5) and SVTypeIntIntInt (6).
MetaFormats == << <<"b">>, <<"s">>, <<"i">>, <<"f">>, <<"S">>,
                  <<"s", "b", "s">>, <<"i", "i", "i">> >>

RECURSIVE AddMetadata(_, _)

\* One case of the switch of SV_BufferAddFormat.
AddField(buf, t, v) ==
  CASE t \in {"b", "c", "B"} -> AddByte(buf, v)
    [] t \in {"s", "i", "f"} -> AddSwapped(buf, v)
    [] t \in {"l", "d"}      -> AddSwapped64(buf, v)
    [] t = "S"               -> AddString(buf, v)
    [] t = "U"               -> AddString16(buf, v)
    [] t = "M"               -> AddMetadata(buf, v)

\* SV_BufferAddFormat(buf, fmt, vals...): the fields in the order of fmt.
RECURSIVE AddFormat(_, _, _)
AddFormat(buf, fmt, vals) ==
  IF fmt = <<>> THEN buf
  ELSE AddFormat(AddField(buf, Head(fmt), Head(vals)), Tail(fmt), Tail(vals))

\* The loop of SV_BufferAddMetadata: each item's type byte, then its fields.
RECURSIVE AddItems(_, _)
AddItems(buf, items) ==
  IF items = <<>> THEN buf
  ELSE LET it == Head(items)
       IN  AddItems(AddFormat(AddByte(buf, Digits(it.type, 1)),
                              MetaFormats[it.type + 1], it.data),
                    Tail(items))

\* SV_BufferAddMetadata: the items, then the sentinel byte 127.
AddMetadata(buf, md) == AddByte(AddItems(buf, md), Digits(127, 1))

-----------------------------------------------------------------------------
(* Decoding.                                                               *)

\* Mutation of Take: a removal that empties the buffer counted as short.
TakeShortAtEnd(buf, w) ==
  LET k == IF Len(buf) < w THEN Len(buf) ELSE w
  IN  [mem   |-> SubSeq(buf, 1, k) \o [j \in 1..(w - k) |-> 0],
       rest  |-> SubSeq(buf, k + 1, Len(buf)),
       short |-> Len(buf) <= w]

\* evbuffer_remove(raw, &result, w) into a zero-initialised result: it
\* copies the bytes it has, at most w, and drains them.
Take(buf, w) ==
  LET k == IF Len(buf) < w THEN Len(buf) ELSE w
  IN  [mem   |-> SubSeq(buf, 1, k) \o [j \in 1..(w - k) |-> 0],
       rest  |-> SubSeq(buf, k + 1, Len(buf)),
       short |-> Len(buf) < w]

\* A call that returns value v after the removal t.
Returned(v, t) == [v |-> v, rest |-> t.rest, short |-> t.short, fault |-> "none"]

\* A call that does not return.
Failed(f, buf) == [v |-> <<>>, rest |-> buf, short |-> FALSE, fault |-> f]

\* SV_BufferRemoveByte and SV_BufferRemoveBoolean.
RemoveByte(buf) == LET t == Take(buf, 1) IN Returned(Mem(t.mem), t)

\* SV_BufferRemoveShort (w = 2), SV_BufferRemoveInteger, SV_BufferRemoveFloat.
RemoveSwapped(buf, w) == LET t == Take(buf, w) IN Returned(Mem(Hton(t.mem)), t)

\* Mutation of RemoveSwapped64: the ntohll/ntohd call left out.
RemoveSwapped64NoNtoh(buf) == LET t == Take(buf, 8) IN Returned(Mem(t.mem), t)

\* SV_BufferRemoveLong, SV_BufferRemoveDouble.
RemoveSwapped64(buf) == LET t == Take(buf, 8) IN Returned(Mem(Hton64(t.mem)), t)

\* The value of two digits as an SVShort (signed) and as a uint16_t.
Signed16(d) == (IF d[1] >= 128 THEN d[1] - 256 ELSE d[1]) * 256 + d[2]
Unsigned16(d) == d[1] * 256 + d[2]

\* SV_BufferRemoveString: the SVShort length, CD_malloc(length + 1), the
\* bytes, a NUL at data[length], and CD_CreateStringFromBuffer(data,
\* length + 1), whose cd_UpdateLength runs CD_UTF8_strnlen over the bytes.
\* A length of -1 allocates 0 bytes, removes (size_t) -1 bytes into them and
\* writes data[-1]; a smaller length asks for about 2^64 bytes.  A removal
\* that comes up short leaves the tail of data uninitialised, and strnlen
\* reads it: the outcome is undefined (it may loop forever).
RemoveString(buf) ==
  LET n      == RemoveSwapped(buf, 2)
      length == Signed16(n.v)
  IN  CASE length = -1 -> Failed("overflow", buf)
        [] length < -1 -> Failed("abort", buf)
        [] OTHER ->
             LET t == Take(n.rest, length)
                 s == t.mem \o <<0>>
             IN  CASE t.short                -> Failed("undefined", buf)
                   [] Length(s) = Diverges  -> Failed("hang", buf)
                   [] OTHER -> [v |-> s, rest |-> t.rest, short |-> n.short,
                                fault |-> "none"]

\* Mutation of Utf8Of: U+FFFD not turned into '?'.
Utf8OfNoReplacement(ch) ==
  CASE ch < 128   -> <<ch>>
    [] ch < 2048  -> <<shiftR(ch, 6) | 192, (ch & 63) | 128>>
    [] ch < 65535 -> <<shiftR(ch, 12) | 224, (shiftR(ch, 6) & 63) | 128, (ch & 63) | 128>>
    [] OTHER      -> <<>>

\* The UTF-8 bytes SV_BufferRemoveString16 appends for one unit: '?' for
\* U+FFFD, one, two or three bytes by range, and none for 0xFFFF.
Utf8Of(ch) ==
  CASE ch = 65533 -> <<63>>
    [] ch < 128   -> <<ch>>
    [] ch < 2048  -> <<shiftR(ch, 6) | 192, (ch & 63) | 128>>
    [] ch < 65535 -> <<shiftR(ch, 12) | 224, (shiftR(ch, 6) & 63) | 128, (ch & 63) | 128>>
    [] OTHER      -> <<>>

\* SV_BufferRemoveString16: the SVShort unit count, CD_alloc(length * 2)
\* (zeroed; a negative count becomes a huge size_t and the allocation
\* aborts), the units, and the UTF-8 string built from them.
RemoveString16(buf) ==
  LET n      == RemoveSwapped(buf, 2)
      length == Signed16(n.v)
  IN  IF length < 0 THEN Failed("abort", buf)
      ELSE LET t     == Take(n.rest, 2 * length)
               units == [i \in 1..length |->
                           Unsigned16(Mem(Hton(SubSeq(t.mem, 2 * i - 1, 2 * i))))]
           IN  [v |-> FlattenSeq([i \in 1..length |-> Utf8Of(units[i])]),
                rest |-> t.rest, short |-> n.short \/ t.short, fault |-> "none"]

\* current->type = type >> 5 on the SVByte tag (an arithmetic shift when
\* SVByte is signed).
Kind(tag) == IF SVByteSigned /\ tag >= 128 THEN (tag - 256) \div 32 ELSE tag \div 32

RECURSIVE RemoveMetadata(_), RemoveFormat(_, _)

\* One case of the switch of SV_BufferRemoveFormat; a format character with
\* no case removes nothing.
RemoveField(buf, t) ==
  CASE t \in {"b", "B"} -> RemoveByte(buf)
    [] t = "s"          -> RemoveSwapped(buf, 2)
    [] t \in {"i", "f"} -> RemoveSwapped(buf, 4)
    [] t \in {"l", "d"} -> RemoveSwapped64(buf)
    [] t = "S"          -> RemoveString(buf)
    [] t = "U"          -> RemoveString16(buf)
    [] t = "M"          -> RemoveMetadata(buf)
    [] OTHER            -> Failed("none", buf)

\* Mutation of RemoveFormat: the loop stops one format character early.
RemoveFormatStopsEarly(buf, fmt) ==
  IF Len(fmt) <= 1 THEN [v |-> <<>>, rest |-> buf, short |-> FALSE, fault |-> "none"]
  ELSE LET f == RemoveField(buf, Head(fmt))
       IN  IF f.fault # "none" THEN f
           ELSE LET r == RemoveFormat(f.rest, Tail(fmt))
                IN  [r EXCEPT !.v = <<f.v>> \o @, !.short = @ \/ f.short]

\* SV_BufferRemoveFormat(buf, fmt, ...): the sequence of the field values.
RemoveFormat(buf, fmt) ==
  IF fmt = <<>> THEN [v |-> <<>>, rest |-> buf, short |-> FALSE, fault |-> "none"]
  ELSE LET f == RemoveField(buf, Head(fmt))
       IN  IF f.fault # "none" THEN f
           ELSE LET r == RemoveFormat(f.rest, Tail(fmt))
                IN  [r EXCEPT !.v = <<f.v>> \o @, !.short = @ \/ f.short]

\* The loop of SV_BufferRemoveMetadata from the items read so far: it stops
\* at the sentinel 127 or when the buffer is empty, and indexes the formats
\* table with the tag's kind whatever that kind is.
RECURSIVE RemoveItems(_, _)
RemoveItems(buf, items) ==
  IF buf = <<>> THEN [v |-> items, rest |-> buf, short |-> FALSE, fault |-> "none"]
  ELSE LET tag  == RemoveByte(buf)
           kind == Kind(tag.v[1])
       IN  IF tag.v[1] = 127
           THEN [v |-> items, rest |-> tag.rest, short |-> FALSE, fault |-> "none"]
           ELSE IF kind \notin 0..6 THEN Failed("undefined", buf)
           ELSE LET d == RemoveFormat(tag.rest, MetaFormats[kind + 1])
                IN  IF d.fault # "none" THEN d
                    ELSE LET r == RemoveItems(d.rest,
                                    Append(items, [type |-> kind, data |-> d.v]))
                         IN  [r EXCEPT !.short = @ \/ d.short]

\* SV_BufferRemoveMetadata.
RemoveMetadata(buf) == RemoveItems(buf, <<>>)

=============================================================================
