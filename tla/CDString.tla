------------------------------- MODULE CDString -------------------------------
(***************************************************************************)
(* One CDString (src/src/String.c) through its life: created by one of the *)
(* constructors or by the wire decoders SV_BufferRemoveString and          *)
(* SV_BufferRemoveString16 (Buffer.c), edited by the String.c mutators,    *)
(* and destroyed.  A string is its raw bstring (data, whose length is      *)
(* slen, and mlen), the cached character count `length` and the `external` *)
(* flag.  bstrlib is not in this tree; its calls are modelled by what they *)
(* do: binsert and breplace pad with the fill byte past slen, and they and *)
(* bdestroy refuse (BSTR_ERR) a bstring with mlen <= 0 or mlen < slen.     *)
(* Every String.c call runs on one thread, so each is one action.          *)
(***************************************************************************)
EXTENDS Integers, Sequences, SequencesExt, Utf8

CONSTANTS
  Texts,       \* character sequences a string may be created with
  Pieces,      \* character sequences callers append, insert or set
  Checks,      \* byte strings passed to CD_StringEndWith
  Origins,     \* the constructors and decoders that may create the string
  MaxChars,    \* bound on the characters of the string
  MaxOps,      \* bound on the edits
  MaxStrings   \* bound on the strings created

VARIABLES
  alive,       \* the string exists
  str,         \* [data, mlen, length, external] of the string
  created,     \* strings created so far (the heap name of the current one)
  live,        \* heap objects allocated and not freed
  doubleFree,  \* a free of an object that is not live has happened
  ops,         \* String.c edit calls made
  call         \* the last edit call: its name and its arguments

vars == <<alive, str, created, live, doubleFree, ops, call>>

\* The record of an edit call named op, at position at, with piece.
Call(op, at, piece) == [op |-> op, at |-> at, piece |-> piece]

\* The bytes of a character sequence, and the characters of a UTF-8 byte
\* string: each lead byte starts a character that runs to the next one.
Bytes(t) == FlattenSeq(t)
Split(b) ==
  LET leads == {i \in 1..Len(b) : NextCharLength(b[i]) # 0}
      nth(k) == CHOOSE i \in leads : Cardinality({j \in leads : j <= i}) = k
      n == Cardinality(leads)
  IN  [k \in 1..n |-> SubSeq(b, nth(k), IF k = n THEN Len(b) ELSE nth(k + 1) - 1)]

\* Heap objects of string g: the CDString, a bstring that owns its data,
\* and the CD_malloc'd header over a caller's buffer of an external string.
Self(g) == <<g, "self">>
Raw(g) == <<g, "raw">>
Hdr(g) == <<g, "hdr">>

\* The bstring checks of binsert, breplace and bdestroy.
Writable(s) == s.mlen > 0 /\ s.mlen >= Len(s.data)

\* Mutation of UpdateLength: the cached length counts bytes (slen).
UpdateLengthBytes(s) == [s EXCEPT !.length = Len(s.data)]

\* cd_UpdateLength: CD_UTF8_strnlen over the content, limited to slen.
UpdateLength(s) == [s EXCEPT !.length = StrNLen(s.data, Len(s.data))]

\* Mutation of MakeInternal: the copy is made but external stays set.
MakeInternalKeepsExternal(s) ==
  IF s.external THEN [s EXCEPT !.mlen = Len(s.data) + 1] ELSE s

\* cd_MakeStringInternal: an external string gets a bstrcpy of its data,
\* and the header over the caller's buffer is freed.
MakeInternal(s) ==
  IF s.external THEN [s EXCEPT !.mlen = Len(s.data) + 1, !.external = FALSE] ELSE s
InternalHeap(s, g) ==
  IF s.external THEN (live \ {Hdr(g)}) \cup {Raw(g)} ELSE live

\* data[0 .. pos-1], padded with the fill byte '\0' past slen.
Padded(d, pos) == [i \in 1..pos |-> ByteAt(d, i - 1)]

\* breplace(raw, pos, len, b2, '\0') and binsert(raw, pos, b2, '\0').
BReplace(s, pos, len, b2) ==
  LET d == Padded(s.data, pos) \o b2 \o SubSeq(s.data, pos + len + 1, Len(s.data))
  IN  [s EXCEPT !.data = d, !.mlen = IF @ > Len(d) THEN @ ELSE Len(d) + 1]
BInsert(s, pos, b2) == BReplace(s, pos, 0, b2)

\* The string each origin creates over the bytes b: CD_CreateString (b
\* empty), CD_CreateStringFromFormat, CD_CloneString, the copying and the
\* external constructors, and the two wire decoders.  SV_BufferRemoveString
\* passes length + 1 bytes, its terminator included, to
\* CD_CreateStringFromBuffer; SV_BufferRemoveString16 passes size bytes;
\* both then set external = false.
Created(origin, b) ==
  CASE origin = "create"      -> [data |-> b, mlen |-> 8, length |-> 0, external |-> FALSE]
    [] origin \in {"format", "cstringcopy", "buffercopy", "clone"} ->
         UpdateLength([data |-> b, mlen |-> Len(b) + 1, length |-> 0, external |-> FALSE])
    [] origin \in {"cstring", "buffer"} ->
         UpdateLength([data |-> b, mlen |-> Len(b), length |-> 0, external |-> TRUE])
    [] origin = "wire" ->
         UpdateLength([data |-> b \o <<0>>, mlen |-> Len(b) + 1, length |-> 0, external |-> FALSE])
    [] origin = "wire16" ->
         UpdateLength([data |-> b, mlen |-> Len(b), length |-> 0, external |-> FALSE])

Create(origin, t) ==
  /\ ~alive /\ created < MaxStrings
  /\ origin = "create" => t = <<>>
  /\ alive' = TRUE
  /\ str' = Created(origin, Bytes(t))
  /\ created' = created + 1
  /\ live' = live \cup {Self(created + 1), IF str'.external THEN Hdr(created + 1) ELSE Raw(created + 1)}
  /\ UNCHANGED <<doubleFree, ops, call>>

\* CD_free of a set of objects.
FreeAll(objs) ==
  /\ live' = live \ objs
  /\ doubleFree' = (doubleFree \/ ~(objs \subseteq live))

\* CD_DestroyString: the header of an external string is CD_free'd, the
\* bstring of another bdestroy'd (which frees nothing when it refuses the
\* bstring), then the CDString.
CDDestroyString ==
  /\ alive
  /\ FreeAll(IF str.external THEN {Hdr(created), Self(created)}
             ELSE IF Writable(str) THEN {Raw(created), Self(created)}
             ELSE {Self(created)})
  /\ alive' = FALSE
  /\ UNCHANGED <<str, created, ops, call>>

\* The string after cd_MakeStringInternal, which every mutator calls first.
Internal == MakeInternal(str)

\* A mutator: cd_MakeStringInternal, then a bstrlib edit of the internal
\* string giving `edited`, then cd_UpdateLength if the edit succeeded (the
\* call returns NULL otherwise and leaves the string as it is).  The call
\* c allocates the objects `alloc` and frees the objects `free`.
Mutate(c, edited, alloc, free) ==
  LET heap == InternalHeap(str, created) \cup alloc
  IN  /\ alive /\ ops < MaxOps
      /\ str' = IF Writable(Internal) THEN UpdateLength(edited) ELSE Internal
      /\ live' = heap \ free
      /\ doubleFree' = (doubleFree \/ ~(free \subseteq heap))
      /\ ops' = ops + 1
      /\ call' = c
      /\ UNCHANGED <<alive, created>>

\* The characters a call adds must fit the bound.
Fits(p) == Len(Split(CString(str.data))) + Len(p) <= MaxChars

\* The temporary CDString and header CD_CreateStringFromCString allocates
\* over a C string, and the CDString and bstring of an argument string.
Tmp == {<<created, ops, "tmpself">>, <<created, ops, "tmphdr">>}
Arg == {<<created, ops, "argself">>, <<created, ops, "argraw">>}

\* CD_CharAtSet(self, index, set): the character at index is replaced by set.
CDCharAtSet(i, p) ==
  LET off == Utf8Offset(Internal.data, i)
  IN  Fits(p) /\ Mutate(Call("set", i, p), BReplace(Internal, off, NextCharLength(ByteAt(Internal.data, off)), Bytes(p)), {}, {})

\* Mutation of CDInsertString: the character position is used as a byte
\* offset, without CD_UTF8_offset.
CDInsertStringByteOffset(pos, p) ==
  Fits(p) /\ Mutate(Call("insert", pos, p), BInsert(Internal, pos, Bytes(p)), {}, {})

\* CD_InsertString(self, insert, position).
CDInsertString(pos, p) ==
  Fits(p) /\ Mutate(Call("insert", pos, p), BInsert(Internal, Utf8Offset(Internal.data, pos), Bytes(p)), {}, {})

AppendEdit(p) == BInsert(Internal, Len(Internal.data), Bytes(p))
PrependEdit(p) == BInsert(Internal, 0, Bytes(p))

\* Mutation of CDAppendString: the piece is inserted at the front.
CDAppendStringAtFront(p) ==
  Fits(p) /\ Mutate(Call("append", 0, p), PrependEdit(p), {}, {})

\* CD_AppendString(self, append).
CDAppendString(p) ==
  Fits(p) /\ Mutate(Call("append", 0, p), AppendEdit(p), {}, {})

\* CD_AppendStringAndClean(self, append): also destroys append, a string
\* the caller created and hands over.
CDAppendStringAndClean(p) ==
  Fits(p) /\ Mutate(Call("append", 0, p), AppendEdit(p), Arg, Arg)

\* CD_AppendCString(self, cstr): a temporary external string over cstr is
\* appended with CD_AppendStringAndClean, which destroys it.
CDAppendCString(p) ==
  Fits(p) /\ Mutate(Call("append", 0, p), AppendEdit(p), Tmp, Tmp)

\* CD_PrependString(self, prepend).
CDPrependString(p) ==
  Fits(p) /\ Mutate(Call("prepend", 0, p), PrependEdit(p), {}, {})

\* Mutation of CDPrependCString: the temporary string is not destroyed.
CDPrependCStringKeepsTmp(p) ==
  Fits(p) /\ Mutate(Call("prepend", 0, p), PrependEdit(p), Tmp, {})

\* CD_PrependCString(self, cstr): a temporary external string over cstr is
\* prepended with CD_PrependString and then destroyed.
CDPrependCString(p) ==
  Fits(p) /\ Mutate(Call("prepend", 0, p), PrependEdit(p), Tmp, Tmp)

-----------------------------------------------------------------------------

Init ==
  /\ alive = FALSE
  /\ str = [data |-> <<>>, mlen |-> 0, length |-> 0, external |-> FALSE]
  /\ created = 0
  /\ live = {}
  /\ doubleFree = FALSE
  /\ ops = 0
  /\ call = Call("none", 0, <<>>)

\* Positions are chosen below CD_StringLength, as a caller does.
Next ==
  \/ \E origin \in Origins, t \in Texts : Create(origin, t)
  \/ CDDestroyString
  \/ \E p \in Pieces :
       \/ CDAppendString(p) \/ CDAppendStringAndClean(p) \/ CDAppendCString(p)
       \/ CDPrependString(p) \/ CDPrependCString(p)
       \/ \E pos \in 0..str.length : CDInsertString(pos, p)
       \/ \E i \in 0..(str.length - 1) : CDCharAtSet(i, p)

Spec == Init /\ [][Next]_vars

-----------------------------------------------------------------------------

\* Mutation of EndWith: the compared bytes start one byte too late.
EndWithOffByOne(s, check) ==
  \A k \in 0..(Len(check) - 1) : ByteAt(s.data, Len(s.data) - Len(check) + 1 + k) = check[k + 1]

\* CD_StringEndWith(self, check): strncmp of the last strlen(check) of the
\* slen bytes with check.
EndWith(s, check) ==
  \A k \in 0..(Len(check) - 1) : ByteAt(s.data, Len(s.data) - Len(check) + k) = check[k + 1]

\* The characters a caller reading CD_StringContent sees.
Text == IF alive THEN Split(CString(str.data)) ELSE <<>>

Abstract == INSTANCE StringValue WITH text <- Text, last <- call

\* Every call does to the string's content what its name says: the string
\* a caller reads back is the abstract string edited by the abstract edit
\* of the same name and arguments (an append appends, a prepend prepends,
\* CD_InsertString inserts before the character at its position and
\* CD_CharAtSet replaces that character).
StringRefinement == Abstract!Spec

\* CD_StringLength, the cached count, is the number of characters of the
\* content after every call (each mutator ends with cd_UpdateLength).
LengthFresh == alive => str.length = Len(Text)

\* CD_StringEndWith answers whether the content ends with check.
EndWithAgrees ==
  alive => \A c \in Checks :
             Len(c) <= Len(str.data) => (EndWith(str, c) <=> IsSuffix(c, CString(str.data)))

\* Every heap object String.c allocates belongs to the live string, and is
\* freed when it is destroyed: the headers of external and temporary
\* strings included.
NoLeak == live \subseteq (IF alive THEN {Self(created), Raw(created), Hdr(created)} ELSE {})

\* No object is freed twice: the header an external string is created
\* over is freed once, by cd_MakeStringInternal or by CD_DestroyString.
NoDoubleFree == ~doubleFree

=============================================================================
