# TLA+ models of craftd

These modules model the parts of craftd (`src/`) whose behaviour a model
checker can explore: the survival protocol's wire codec
(`src/src/protocols/survival/Buffer.c`), the UTF-8 helpers it relies on
and the CDString type (`src/src/String.c`), the byte-order helpers (`src/include/craftd/javaendian.h`),
a connection's byte stream between two packet layers, the integer
helpers of `src/include/craftd/Arithmetic.h`, the login handlers
(`src/src/network/send.c`, `proxy-send.c`), the survival inventory plugin
(`src/plugins/survival/base/inventory.c`), job descriptors
(`src/src/Job.c`) and the concurrent map's iteration protocol
(`src/include/craftd/Map.h`). `PROJECT.json` lists every
component, every run, the mutants, the source lines each definition
translates, the findings and the hazards.

## The system and how its parts interact

Each connected client has an input and an output evbuffer. The packet
writers (`send.c`, e.g. `send_loginresp`) serialise a packet with
`SV_BufferAddFormat`. For each field, `SV_BufferAddFormat` calls
`SV_BufferAdd{Byte,Short,Integer,Long,Float,Double,Boolean,String,String16,Metadata}`.
Each of those converts the value to network order with `htons`/`htonl`/`htonll`/`htonf`/`htond`,
and the string writers walk the string with the UTF-8 helpers
(`CD_UTF8_strnlen`, `CD_UTF8_offset`, `CD_CharAt`). The reactor moves the
bytes over the socket in segments of any size. On the other side, the packet
layer decodes with `SV_BufferRemoveFormat` and the matching
`SV_BufferRemove*`. Strings are rebuilt there through
`CD_CreateStringFromBuffer`, which measures them with `CD_UTF8_strnlen` again.
The reactor, the packet-id-to-format table and the packet layer's read loop
are not in this tree. Where they are modelled, it is from `spec.md` sections 5
and 7, and `PROJECT.json` marks those definitions `spec_modelled`.

Game logic keeps shared state in `CDMap`s: ids to payloads, under a
reader-writer lock that each `CD_MapPut`, `CD_MapDelete` or `CD_MapClear`
holds for that call only. A thread walks a map with the `CD_MAP_FOREACH`
macro, which takes the map's "iterating" marker and calls `CD_MapBegin`,
`CD_MapEnd`, `CD_MapStopIterating` and `CD_MapNext` without holding the lock
across the pass, so other threads' mutations interleave with every call.
`Map.c` and khash, which implement the table, are not in this tree.

## Modules

| module | models | state / actions |
|---|---|---|
| `Utf8` | `String.c`: `cd_UTF8_nextCharLength`, `CD_UTF8_strnlen`, `CD_UTF8_offset`, `cd_UpdateLength`, `CD_CharAt` | Pure operators. `StrNLen` reads `data[i]` before testing the limit, as the C does. A loop that makes no progress yields `Diverges`. |
| `StringValue` | the abstract promise of the `String.c` API: a sequence of characters | `text`, `alive`, `ops`, and `last`, the last edit call with its arguments. `Create`, `Destroy`, and one action per kind of edit, at character positions: `AppendText`, `PrependText`, `InsertText` and `SetChar`. Each is an `Edit(from, to, p, c)` that also sets `last` to the call `c`, so each call is held to its own contract. |
| `CDString` | one `CDString` through its life (`String.c`, and the two decoders of `Buffer.c` that create strings) | `str` is the raw bstring (`data`, whose length is `slen`, and `mlen`), the cached `length` and the `external` flag. `live` holds the heap objects: the CDString, its owned bstring, or the header over a caller's buffer. `Create(origin, t)` is a constructor or decoder. `CDDestroyString`, and one action per mutator (`CDCharAtSet`, `CDInsertString`, `CDAppendString`, `CDAppendStringAndClean`, `CDAppendCString`, `CDPrependString`, `CDPrependCString`). Each mutator is `Mutate`: `cd_MakeStringInternal`, the bstrlib edit, then `cd_UpdateLength`, or the unchanged string when bstrlib refuses it. The temporary strings of the C-string variants are allocated and freed within the call. bstrlib is not in this tree. `binsert`/`breplace` pad past `slen` with NULs, and they and `bdestroy` refuse a bstring with `mlen <= 0` or `mlen < slen`. The history variable `call` records each mutator's name and arguments. The refinement mapping sends `text` to `Text`, the content as `CD_StringContent` readers see it (up to the first NUL, split into characters), and `last` to `call`. |
| `WireCodec` | every function of `Buffer.c` and the byte-order helpers | Pure operators over byte sequences. An add returns the new buffer. A remove returns `[v, rest, short, fault]`: `short` means `evbuffer_remove` found fewer bytes than asked, and `fault` names undefined behaviour (`overflow`, `abort`, `hang`, `undefined`). Constants: `HostBigEndian`, and `SVByteSigned` (whether `char` is signed, which decides `type >> 5`). |
| `WireChannel` | the abstract promise: a FIFO of messages | `queue`, `delivered`; actions `Send`, `Deliver`. |
| `WireStream` | one direction of a connection | `output`, `input`, histories `sent`, `received`. `Send(m)` is a packet writer plus `SV_BufferAddFormat`. `Transmit(k)` moves any k bytes. `Receive` is the packet layer's decode. |
| `Arithmetic` | `Arithmetic.h` | `CD_Max`, `CD_Min`, `CD_Div`, `CD_Mod`, `CD_Floor` and `CD_Ceiling` over 32-bit `int`. C's truncating `/` and `%` are `CQuot`/`CRem`, and division by 0 or `INT_MIN / -1` is `Trap`. |
| `Login` | `process_login` (`send.c`) and the `PID_LOGIN` case of `process_proxypacket` (`proxy-send.c`), run by workers of several connections | A handler is a script: the sequence of its effects in the order of the C. Each `evbuffer_add` of a packet writer is one effect, and so are each allocation, each free and the critical section under the player's write lock. `Dispatch(p)` starts a connection's next login once the previous one is done. `Step(p)` runs the next effect. State: `out` (the adds on each output), `live` (heap objects), `username`/`loginpacket` (the player entry's pointers), `doubleFree`. The constant `Handler` picks the server or the proxy build. The proxy build calls a `send_kick(bstring)`, `send_syschat` and `send_directchat` that are not in this tree. Its kick is taken to write the same packet as `send.c`'s and to leave the message to the caller, which frees it with `bstrFree` (as it frees the join message after `send_syschat`). What the chat calls write is not modelled. |
| `Inventory` | `inventory.c`: `Player.holdChange`, `Player.inventoryCreative`, `Player.dropItem` for one player | One action per callback. `inventory` maps slots to heap stacks. `heap` keeps every stack ever allocated, and `freed` marks the `CD_free`d ones, whose memory still reads as it was. `view` is the client's idea of each slot, changed by its own creative puts and by `SetSlot` packets. The `holdChange` that `dropItem` dispatches is part of the drop, since `CD_EventDispatch` runs it before returning. |
| `Job` | every function of `Job.c`, with the worker pool and payload owners of `spec.md` 4.4 and 5 | `Submit` creates an owned job (client-process or custom record) or an external one. `Execute`, `Destroy` (`CD_DestroyJob`) and `DestroyKeepData` (`CD_DestroyJobKeepData`) are the pool's steps, and `Release` is an owner freeing a payload. `owners` records who is still to free each payload. |
| `Map` | `Map.h`: `CD_MAP_FOREACH` and `CD_MAP_BREAK` call by call, with `CD_MapPut`, `CD_MapDelete` and `CD_MapClear` | `table` maps buckets to empty, live or tombstoned entries. `FreeSlot`, `Place` and `Rehash` are khash's open addressing, with `kh_put` rehashing first when the occupied buckets reach 0.77 of the table (doubling it, or rebuilding it at the same size when tombstones dominate). A put does not rehash while the iterating marker `marker` is held: that is how the model reads `spec.md` 4.3 and 5, since `Map.c` is absent. Each reader's `pc` is the call of the macro it is about to make. `it` and `end` are its iterator and `__end__`. `acct` is its pass's account of each key (not read yet, read once, read wrongly, or mutated during the pass). Only the two macros are code in this tree: the `Map.c` calls they make, and the mutators, are modelled from `Map.h`'s documentation and `spec.md`, and `PROJECT.json` marks them `spec_modelled`. |
| `MCWireCodec`, `MCWireStream`, `MCArithmetic`, `MCLogin`, `MCInventory`, `MCJob`, `MCCDString`, `MCMap` | instantiations for TLC | the inputs and the properties |

Decoding follows the C closely where that matters:

* A short `evbuffer_remove` leaves the zeroed (`CD_alloc`) or uninitialised
  (`CD_malloc`) bytes of the result.
* String lengths are signed `SVShort`.
* A length of -1 allocates 0 bytes and overflows the heap.
* `CD_CreateStringFromBuffer` on uninitialised bytes is undefined behaviour.
* `SV_BufferRemoveMetadata` loops while the buffer is non-empty.

## Runs

| run | result | what it shows |
|---|---|---|
| `stream` (`MCWireStream.cfg`) | pass | Up to 3 packets are cut into segments of every size: a login response (`b,B,s,i,f,l,d`-width fields and a string), a legacy chat string with U+00E9, a spawn and a kick string. Decoded by a packet layer that discards short decodes, the stream refines `WireChannel` (`ChannelRefinement`): every packet arrives in order, as `spec.md` 4.2 defines its value. Every sent packet is eventually decoded (`EventuallyDecoded`). |
| `stream_decode` (`MCWireStreamDecode.cfg`) | violation of `DecodeSound` (`StreamIntegrity /\ AttemptDefined`) | One packet of any kind, cut into segments of every size, including entity metadata, U+1F600 and U+FFFF. The packet layer attempts a decode whenever bytes arrive. Five disagreements follow. Three are spec_code_divergences from `spec.md` 4.2 and 8. U+1F600 is encoded as 0x07D8, not U+FFFD (`Buffer.c:139`). U+FFFF is dropped on decode, because the decoder keeps only `ch < 0xFFFF` (`Buffer.c:362`). The metadata tag is written as the bare kind and read as `tag >> 5`, so kind 1 comes back as kind 0 (`Buffer.c:180`). Two are code bugs. Decoding before a string's bytes have all arrived runs `strnlen` over uninitialised heap memory (`Buffer.c:315`). A metadata packet cut at a segment boundary decodes as a complete, shorter record, with no short read to discard it (`Buffer.c:391`). TLC reports the first it reaches. Restricting `MCMessagesDecode` to one message shows each on its own. |
| `codec` (`MCWireCodec.cfg`) | pass | The pure operators. Each of these encodes and decodes correctly on a little-endian host: every scalar format with bit patterns that expose any misplaced byte, raw strings, and legacy strings of up to two BMP characters other than U+FFFF (control character, ASCII, the last two-byte and first three-byte characters, U+20AC, U+FFFD). `CD_Div`/`CD_Floor`, `CD_Mod` and `CD_Ceiling` are floor division, floor remainder and ceiling division for all pairs of 13 operands where C defines them: 0, ±1, ±5, ±10, ±13, `INT_MIN`, `INT_MIN+1`, `INT_MAX-1` and `INT_MAX` (`MCArithmetic`). |
| `login` (`MCLogin.cfg`) | pass | Two connections log in at once through `process_login`, each with up to two login packets of either version. Each packet is answered in order, with a kick or with the login response and spawn packets, and each packet is whole (`LoginResponses`). The kick message is freed exactly once (`NoDoubleFree`): by `send_kick`, and not again by its caller. |
| `proxy` (`MCLoginProxy.cfg`) | violation of `NoLeak` | A second login packet on one connection makes the proxy's handler overwrite `player->username` (`bstrcpy`, `proxy-send.c:70`) and `player->loginpacket` (`Malloc`, line 84) without freeing the copies of the first, which leaks both (code_bug). Nothing in the handler rejects a repeated login. |
| `inventory` (`MCInventory.cfg`) | pass | Hold changes in and out of range, creative puts and drops can come in any order. Through all of them the held slot stays in the hotbar (`TypeOK`), the client's view of each slot equals what the server holds (`ClientViewMatches`), and no freed stack stays in the map (`StoredStacksLive`). |
| `inventory_leak` | violation of `NoLeak` | A creative put into an occupied slot drops the stack `CD_MapPut` returns, which leaks it (code_bug, `inventory.c:73`). |
| `job` (`MCJob.cfg`) | pass | Three jobs, owned or external, are executed and destroyed in parallel with either variant. `CD_DestroyJobKeepData` is used only on owned jobs. No payload is freed twice (`NoDoubleFree`) or while an owner still holds it (`PayloadLiveWhileOwned`). Everything each job allocated is eventually freed (`AllReleased`). |
| `strings` (`MCCDString.cfg`) | pass | A string is made by any caller-facing constructor, owned or external, and edited by every mutator with one- and two-byte characters. It refines `StringValue` (`StringRefinement`): each call changes the content as the abstract edit of the same name and arguments does, at character positions. An append that inserts at the front, or an insert at a byte offset, fails it. Its cached length stays the content's character count (`LengthFresh`). `CD_StringEndWith` answers correctly (`EndWithAgrees`). Every object the string and its temporaries allocate is freed (`NoLeak`), exactly once (`NoDoubleFree`), including the header `cd_MakeStringInternal` frees. |
| `strings_wire` (`MCCDStringWire.cfg`) | violation of `DecodedStringsBehave` | This is the same check on strings made by the protocol decoders, and it finds two code bugs. `SV_BufferRemoveString` counts the terminator in `slen` (`Buffer.c:321`). `CD_StringEndWith` then says a decoded "a" does not end with "a", and an appended piece lands after the NUL, out of sight of readers. An empty legacy string gets `mlen` 0 (`Buffer.c:375`), so every edit fails and `CD_DestroyString` leaks its buffer. TLC reports whichever it reaches first in its search: a freshly decoded "a" that does not end with "a", or an append that lands after the NUL. With `Origins <- {"wire16"}`, it reports the second bug. |
| `map` (`MCMap.cfg`) | pass | Two threads iterate with `CD_MAP_FOREACH` and may leave by `CD_MAP_BREAK`. Meanwhile, up to five puts, deletes and clears interleave with every call of the macro, including a rehash. No pass reads a key twice, or reads a key that was not live, unless that key was mutated meanwhile. A pass that runs to its end reads every other key that was live when it began (`PassConsistent`). The marker counts exactly the passes inside their loop (`MarkerCounts`). Every pass ends (`AllPassesEnd`). The first property rests on the `spec.md` rule that no rehash happens while the marker is held. A clear in mid-pass marks every key as mutated, so it says nothing about what a pass reads after a clear. |

Each property of a passing run has a mutant in `PROJECT.json`: a plausible
bug in the code it translates that TLC then finds. Examples are `ntohll`
without the word swap, a sanitize step dropped from the length, lead bytes
tested in the wrong order, and a decoder that forgets the byte order.

## Bounds and why they suffice

* **Stream.** At most 3 messages (`MaxMessages`) and every segmentation of
  their bytes. Every boundary inside every field type is therefore reached,
  including a cut inside the id byte, a length prefix and a multi-byte
  character.
* **Codec.** Strings of up to two characters cover each UTF-8 length and each
  pair of neighbours, and metadata records of up to two items cover each
  kind.
* **Arithmetic.** The operands are the values where rounding or overflow
  changes: signs, exact and inexact division, and the extremes.
* **Login.** Two players with up to two logins each, over both versions. This covers both branches, a relogin, and two connections
  interleaving at every effect. The proxy run uses the same bounds.
* **Inventory.** Slots 9, 36 and 37 (outside the hotbar, and two hotbar
  slots), two item ids, counts 0 to 2 and at most 3 stacks. Drops then reach
  both the emptied and the partial case, a put can land over an existing
  stack, and a hold change can land on an empty slot.
* **Job.** Three jobs: enough for owned and external jobs of both shapes to
  be in flight together and destroyed in every order.
* **Strings.** The characters are "a" (one byte) and "é" (two bytes). Texts
  have up to two characters, and pieces have one. There are at most two
  edits in total, three characters, and two strings in a row. A two-byte
  character is what tells character positions and counts from byte offsets
  and `slen`. Two edits are enough to edit an external string (freeing its
  header) and then edit it again, or to edit each of two strings once, and a
  second string reuses nothing of the first.
* **Map.** Keys 1 and 3 in a map of 2 buckets, with one payload and two
  readers. Both keys hash to bucket 1, so 3 is placed by probing in bucket 0,
  ahead of 1. Two occupied buckets reach the load bound, and the next put
  rehashes into 4 buckets, where 3 lands behind 1. A rehash in mid-pass
  would therefore make a reader see 3 twice. Five mutations are enough for a
  tombstone, a clear, and both a growing and a same-size rehash, each
  interleaved with either reader at any call. The run takes about 20 seconds. The bound of 2 buckets is a
  constant of the model: khash's own smallest table has 4. That instance
  (keys 1, 2 and 5; 4 and 8 buckets) passes too, with 4 mutations in about
  a minute.
* **Beyond reach.** The numeric edges that need strings of 10923 or 32768
  characters are listed as hazards without a run.

## Fairness

The reactor's write and read callbacks fire whenever a socket is writable or
readable, so `Transmit` is weakly fair. The read callback hands every arrival
to the packet layer, so `Receive` is weakly fair. It is written in the
explicit form `[]<>~ReceiveEnabled \/ []<><<Receive>>_vars`, because TLC
evaluates the decoder far faster from a state predicate than under `ENABLED`.
`CHECK_DEADLOCK FALSE` is set because a connection with nothing left to send
rests.

In `Login`, each connection's worker is weakly fair: a job the pool has
started runs to completion (`spec.md` 5, no cancellation). In `Job`, the
pool's execute and destroy steps and each owner's release are weakly fair.
Submission is not, so `AllReleased` is stated for submitted jobs. `Login`
and `Job` set `CHECK_DEADLOCK FALSE` because the system rests once every
login or job is done. In `Map`, each reader is weakly fair once it has begun a pass: nothing in
the macro blocks it, and the lock is only held for single mutations. The
mutators get no fairness, so `AllPassesEnd` holds however they behave.
`Inventory` and `CDString` check safety only and need
no fairness.

## Not modelled yet (plan)

* **The rest of `Map.h`.** `CD_CloneMap`, `CD_DestroyMap`, `CD_MapGet`/`HasKey`,
  `CD_MapPrevious` and `CD_MapFirst`/`Last` are left out. A clone is a copy
  that no other thread mutates, so a pass over it checks nothing that the
  pass over the shared map does not.
  Nested passes by one thread (the marker is re-entrant) are left out too.
  Their implementation is not in this tree, and none of them changes the
  table or the marker. The rehash deferred while the marker is held is
  `spec.md`'s contract, not code that could be checked.
* **The loop body's read of a deleted bucket.** `CD_MAP_FOREACH` never calls
  `CD_MapIteratorValid`, so a delete between `CD_MapNext` and the body
  leaves the body's iterator on a deleted bucket. What
  `CD_MapIteratorKey`/`Value` return there, and whether any lock spans the
  pass, is decided in `Map.c`, which is not in this tree, so no run claims
  an outcome.
* **Connection teardown** racing a queued job that points to the client
  (`spec.md` 5). No teardown code is in this tree.
* **`CD_DestroyJobKeepData` on external jobs.** `spec.md` 4.4 lets the pool
  keep an external job's data "regardless of ownership flag". The producer
  still owns that data, so both would free it. Setting `KeepExternal = TRUE`
  in `MCJob.cfg` makes TLC find `NoDoubleFree` violated. Neither the code
  nor the spec says who frees such a payload (a spec gap, `Job.c:69`), so
  the `job` run excludes the case.
* **`CD_StringDirname`/`Basename`** (libgen calls on a copy) and the
  read-only predicates other than `CD_StringEndWith`.
* **A packet layer that acts on every decode.** `WireStream` has the
  constant `CallerChecksComplete`. With it set to FALSE, the model shows
  that no `SV_BufferRemove*` signals a short read (`Buffer.c:250`, `spec.md`
  7), which is the hazard listed at that line. No run sets it to FALSE,
  because the packet layer is not in this tree.
* **An adversarial peer** that injects any bytes, for the `-1` length heap
  overflow and the `strnlen` hang on a continuation byte.
* **Negative item counts** from a creative packet. `SVItemStack` is not
  defined in this tree, so the width of `count`, and whether the decrement
  wraps, cannot be read from the source.
* **Never modelled.** `craftd.c`/`extras.c` start-up, and the plugin,
  scripting, HTTP and logger headers: these are sequential I/O or
  declarations only.
