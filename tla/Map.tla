--------------------------------- MODULE Map ---------------------------------
(***************************************************************************)
(* A CDMap (src/include/craftd/Map.h) shared by threads that mutate it and *)
(* threads that iterate it with CD_MAP_FOREACH.  Map.c and khash are not   *)
(* in this tree: the table is modelled from Map.h's documentation and      *)
(* spec.md 4.3 as an open-addressing table of buckets, each empty, live or *)
(* a tombstone, which a put may rehash into a new table once the occupied  *)
(* buckets reach khash's 0.77 load bound.  Each mutation holds the         *)
(* exclusive lock for that call only, so it is one action; iteration      *)
(* holds no lock, so every call the FOREACH macro makes is its own step,   *)
(* and mutations interleave between them.  The iterating marker is         *)
(* reference counted and, while it is held, a put does not rehash: the     *)
(* rehash is the only change that moves entries, and spec.md 5 requires a  *)
(* pass not to be corrupted by concurrent mutation.                        *)
(***************************************************************************)
EXTENDS Integers, Sequences, SequencesExt, FiniteSets

CONSTANTS
  Keys,        \* the CDMapIds put into the map (natural numbers)
  Values,      \* the payloads
  Readers,     \* the threads that iterate with CD_MAP_FOREACH
  MinBuckets,  \* the buckets of a new map
  MaxBuckets,  \* bound on the buckets a rehash may grow to
  MaxWrites    \* bound on the mutations

\* A key that is not live always finds a bucket without a live entry.
ASSUME Cardinality(Keys) <= MinBuckets

VARIABLES
  table,    \* bucket (0-based) -> [st |-> "empty" | "live" | "del", key, val]
  marker,   \* the count of the iterating marker
  writes,   \* mutations made
  pc,       \* reader -> where it is in CD_MAP_FOREACH
  it,       \* reader -> its iterator, a bucket index
  end,      \* reader -> __end__
  acct      \* reader -> key -> its pass's account of the key (Account)

vars == <<table, marker, writes, pc, it, end, acct>>

Empty == [st |-> "empty", key |-> 0, val |-> CHOOSE v \in Values : TRUE]

NB == Cardinality(DOMAIN table)
Live(t) == {i \in DOMAIN t : t[i].st = "live"}
LiveKeys == {table[i].key : i \in Live(table)}

\* CD_MapLength: the live entries.
CDMapLength == Cardinality(Live(table))

\* The first bucket from i on that holds an entry, or the end (NB): what
\* CD_MapBegin and CD_MapNext return, skipping empty buckets and tombstones.
FirstLiveFrom(i) ==
  LET found == {j \in Live(table) : j >= i}
  IN  IF found = {} THEN NB ELSE CHOOSE j \in found : \A l \in found : j <= l

\* The probe sequence of key k in n buckets, and the first bucket on it that
\* holds no live entry: where a new key goes, a tombstone reused.
Probe(k, n, j) == (k + j) % n
FreeSlot(t, k) ==
  LET n == Cardinality(DOMAIN t)
      j == CHOOSE j \in 0..(n - 1) :
             /\ t[Probe(k, n, j)].st # "live"
             /\ \A l \in 0..(j - 1) : t[Probe(k, n, l)].st = "live"
  IN  Probe(k, n, j)

Place(t, k, v) == [t EXCEPT ![FreeSlot(t, k)] = [st |-> "live", key |-> k, val |-> v]]

\* kh_resize: the live entries are put, in bucket order, into n empty
\* buckets, and the tombstones dropped.
Rehash(n) ==
  LET inOrder == SelectSeq([i \in 1..NB |-> table[i - 1]], LAMBDA e : e.st = "live")
  IN  FoldLeft(LAMBDA t, e : Place(t, e.key, e.val), [i \in 0..(n - 1) |-> Empty], inOrder)

\* khash's bound on occupied buckets (live or tombstone), and the size
\* kh_put resizes to: the same size to drop tombstones, else double.
Upper(n) == (n * 77 + 50) \div 100
Occupied == Cardinality({i \in DOMAIN table : table[i].st # "empty"})
Resized == IF NB > 2 * CDMapLength THEN NB ELSE 2 * NB

\* A pass's account of a key: live when the pass began and not read yet
\* ("want"), read once since ("got"), not live then and not read ("none"),
\* read more often than that ("bad"), or inserted or removed by a mutation
\* during the pass, which makes any number of reads right ("any").
Account == {"want", "got", "none", "bad", "any"}

\* The keys a mutation inserts or removes, noted by every pass under way.
Touch(ks) ==
  acct' = [r \in Readers |->
             IF pc[r] \in {"idle", "done", "broken"} THEN acct[r]
             ELSE [k \in Keys |-> IF k \in ks THEN "any" ELSE acct[r][k]]]

ReaderVars == <<pc, it, end>>

\* A put that rehashes even while a pass holds the marker.
CDMapPutIgnoresMarker(k, v) ==
  LET grow == Occupied >= Upper(NB)
      t    == IF grow THEN Rehash(Resized) ELSE table
  IN  /\ writes < MaxWrites
      /\ grow => Resized <= MaxBuckets
      /\ writes' = writes + 1
      /\ IF k \in LiveKeys
         THEN /\ table' = [i \in DOMAIN t |->
                             IF t[i].st = "live" /\ t[i].key = k THEN [t[i] EXCEPT !.val = v]
                             ELSE t[i]]
              /\ UNCHANGED acct
         ELSE /\ table' = Place(t, k, v)
              /\ Touch({k})
      /\ UNCHANGED <<marker, ReaderVars>>

\* CD_MapPut(self, id, data): kh_put first rehashes when the load bound is
\* reached (here: unless a pass holds the marker), then overwrites the live
\* entry of the key or inserts a new one.
CDMapPut(k, v) ==
  LET grow == Occupied >= Upper(NB) /\ marker = 0
      t    == IF grow THEN Rehash(Resized) ELSE table
  IN  /\ writes < MaxWrites
      /\ grow => Resized <= MaxBuckets
      /\ writes' = writes + 1
      /\ IF k \in LiveKeys
         THEN /\ table' = [i \in DOMAIN t |->
                             IF t[i].st = "live" /\ t[i].key = k THEN [t[i] EXCEPT !.val = v]
                             ELSE t[i]]
              /\ UNCHANGED acct
         ELSE /\ table' = Place(t, k, v)
              /\ Touch({k})
      /\ UNCHANGED <<marker, ReaderVars>>

\* CD_MapDelete(self, id): the entry becomes a tombstone.
CDMapDelete(k) ==
  /\ writes < MaxWrites /\ k \in LiveKeys
  /\ writes' = writes + 1
  /\ table' = [i \in DOMAIN table |->
                 IF i \in Live(table) /\ table[i].key = k THEN [table[i] EXCEPT !.st = "del"]
                 ELSE table[i]]
  /\ Touch({k})
  /\ UNCHANGED <<marker, ReaderVars>>

\* CD_MapClear(self): every bucket emptied, the payloads handed back.
CDMapClear ==
  /\ writes < MaxWrites /\ LiveKeys # {}
  /\ writes' = writes + 1
  /\ table' = [i \in DOMAIN table |-> Empty]
  /\ Touch(LiveKeys)
  /\ UNCHANGED <<marker, ReaderVars>>

-----------------------------------------------------------------------------
(* CD_MAP_FOREACH(self, it) { body }, one step per call the macro makes:  *)
(*   if (self && CD_MapLength(self) > 0 && CD_MapStartIterating(self))    *)
(*     for (it = CD_MapBegin(self), __end__ = CD_MapEnd(self);            *)
(*          CD_MapStopIterating(self, !CD_MapIteratorIsEqual(it, __end__));*)
(*          it = CD_MapNext(it)) body                                      *)
(* The body reads the entry at the iterator and either goes on or leaves  *)
(* with CD_MAP_BREAK.                                                      *)

Step(r, from, to) == pc[r] = from /\ pc' = [pc EXCEPT ![r] = to]

\* The length test.  The reader's record of the pass starts here.
ForeachLength(r) ==
  /\ Step(r, "idle", IF CDMapLength > 0 THEN "start" ELSE "done")
  /\ acct' = [acct EXCEPT ![r] = [k \in Keys |-> IF k \in LiveKeys THEN "want" ELSE "none"]]
  /\ UNCHANGED <<table, marker, writes, it, end>>

\* CD_MapStartIterating: takes the marker and lets the loop run.
CDMapStartIterating(r) ==
  /\ Step(r, "start", "begin")
  /\ marker' = marker + 1
  /\ UNCHANGED <<table, writes, it, end, acct>>

CDMapBegin(r) ==
  /\ Step(r, "begin", "end")
  /\ it' = [it EXCEPT ![r] = FirstLiveFrom(0)]
  /\ UNCHANGED <<table, marker, writes, end, acct>>

CDMapEnd(r) ==
  /\ Step(r, "end", "test")
  /\ end' = [end EXCEPT ![r] = NB]
  /\ UNCHANGED <<table, marker, writes, it, acct>>

\* The loop test: CD_MapStopIterating(self, it != __end__) drops the marker
\* when told to stop and returns its argument.
CDMapStopIterating(r) ==
  /\ Step(r, "test", IF it[r] # end[r] THEN "body" ELSE "done")
  /\ marker' = IF it[r] # end[r] THEN marker ELSE marker - 1
  /\ UNCHANGED <<table, writes, it, end, acct>>

\* The body reads the bucket at the iterator with CD_MapIteratorKey/Value.
\* A bucket past the table, which only an iterator outliving a rehash could
\* reach, reads as no entry.
Read(r) ==
  LET e == IF it[r] \in DOMAIN table THEN table[it[r]] ELSE Empty
      Seen(a) == IF a = "want" THEN "got" ELSE IF a = "any" THEN "any" ELSE "bad"
  IN  /\ acct' = [acct EXCEPT ![r] =
                    [k \in Keys |-> IF k = e.key THEN Seen(@[k]) ELSE @[k]]]

\* The body reads the entry and goes on.
Visit(r) ==
  /\ Step(r, "body", "next")
  /\ Read(r)
  /\ UNCHANGED <<table, marker, writes, it, end>>

\* CD_MAP_BREAK as a plain break, the marker left held.
CDMapBreakKeepsMarker(r) ==
  /\ Step(r, "body", "broken")
  /\ Read(r)
  /\ UNCHANGED <<table, marker, writes, it, end>>

\* The body reads the entry and leaves with CD_MAP_BREAK, which calls
\* CD_MapStopIterating(self, false) before break.
CDMapBreak(r) ==
  /\ Step(r, "body", "broken")
  /\ Read(r)
  /\ marker' = marker - 1
  /\ UNCHANGED <<table, writes, it, end>>

\* CD_MapNext returning the bucket it was given when that one is live.
CDMapNextStays(r) ==
  /\ Step(r, "next", "test")
  /\ it' = [it EXCEPT ![r] = FirstLiveFrom(it[r])]
  /\ UNCHANGED <<table, marker, writes, end, acct>>

CDMapNext(r) ==
  /\ Step(r, "next", "test")
  /\ it' = [it EXCEPT ![r] = FirstLiveFrom(it[r] + 1)]
  /\ UNCHANGED <<table, marker, writes, end, acct>>

Foreach(r) ==
  \/ ForeachLength(r) \/ CDMapStartIterating(r) \/ CDMapBegin(r) \/ CDMapEnd(r)
  \/ CDMapStopIterating(r) \/ Visit(r) \/ CDMapBreak(r) \/ CDMapNext(r)

-----------------------------------------------------------------------------

\* CD_CreateMap: an empty table.
Init ==
  /\ table = [i \in 0..(MinBuckets - 1) |-> Empty]
  /\ marker = 0
  /\ writes = 0
  /\ pc = [r \in Readers |-> "idle"]
  /\ it = [r \in Readers |-> 0]
  /\ end = [r \in Readers |-> 0]
  /\ acct = [r \in Readers |-> [k \in Keys |-> "none"]]

Next ==
  \/ \E k \in Keys : CDMapDelete(k) \/ \E v \in Values : CDMapPut(k, v)
  \/ CDMapClear
  \/ \E r \in Readers : Foreach(r)

\* A reader that has begun a FOREACH runs it to its end: the thread is not
\* blocked by anything in the macro.  Mutators are not assumed to act.
Spec == Init /\ [][Next]_vars /\ \A r \in Readers : WF_vars(Foreach(r) /\ pc[r] # "idle")

-----------------------------------------------------------------------------

InLoop == {"begin", "end", "test", "body", "next"}

\* A CD_MAP_FOREACH never reads a key twice, or a key that was not live
\* when it began, unless a mutation inserted or removed that key meanwhile;
\* and one that runs to its end has read every other key live when it began
\* (spec.md 4.3 and 6: a full pass visits the N live entries once each,
\* whatever the buckets and tombstones, and concurrent mutation does not
\* corrupt it).
PassConsistent ==
  \A r \in Readers :
    /\ \A k \in Keys : acct[r][k] # "bad"
    /\ pc[r] = "done" => \A k \in Keys : acct[r][k] # "want"

\* The iterating marker counts the passes inside their loop: every way out
\* of CD_MAP_FOREACH, the loop test failing or CD_MAP_BREAK, releases it.
MarkerCounts == marker = Cardinality({r \in Readers : pc[r] \in InLoop})

\* Every CD_MAP_FOREACH that has begun comes to an end, whatever the
\* mutators do meanwhile.
AllPassesEnd == \A r \in Readers : pc[r] # "idle" ~> pc[r] \in {"done", "broken"}

=============================================================================
