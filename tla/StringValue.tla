----------------------------- MODULE StringValue -----------------------------
(***************************************************************************)
(* What a CDString promises its callers: a sequence of characters that     *)
(* each call of the String.c API creates, edits in place or destroys.      *)
(* Positions count characters, as CD_StringLength does.  Every call is     *)
(* counted in ops, so a call that changes nothing is still a step, and     *)
(* `last` names the edit call made last with its arguments, so each call  *)
(* is held to its own contract and not to that of another edit.           *)
(***************************************************************************)
EXTENDS Integers, Sequences, SequencesExt

CONSTANTS
  Texts,     \* the character sequences a string may be created with
  Pieces     \* the character sequences callers append, insert or set

VARIABLES
  text,      \* the characters of the string
  alive,     \* whether the string exists
  ops,       \* the edits made so far
  last       \* [op, at, piece]: the last edit call and its arguments

vars == <<text, alive, ops, last>>

\* An edit call named op at position at with argument piece.
Call(op, at, piece) == [op |-> op, at |-> at, piece |-> piece]

Init == text = <<>> /\ ~alive /\ ops = 0 /\ last = Call("none", 0, <<>>)

Create(t) == ~alive /\ alive' /\ text' = t /\ UNCHANGED <<ops, last>>

Destroy == alive /\ ~alive' /\ text' = <<>> /\ UNCHANGED <<ops, last>>

\* An edit replaces the characters from position `from` (0-based) up to
\* but excluding `to` with piece p.
Edit(from, to, p, c) ==
  /\ alive
  /\ last' = c
  /\ text' = SubSeq(text, 1, from) \o p \o SubSeq(text, to + 1, Len(text))
  /\ ops' = ops + 1
  /\ UNCHANGED alive

\* Appending puts p after the last character, prepending before the first,
\* inserting before the character at pos, and setting replaces the
\* character at i.
AppendText(p) == Edit(Len(text), Len(text), p, Call("append", 0, p))
PrependText(p) == Edit(0, 0, p, Call("prepend", 0, p))
InsertText(pos, p) == pos \in 0..Len(text) /\ Edit(pos, pos, p, Call("insert", pos, p))
SetChar(i, p) == i \in 0..(Len(text) - 1) /\ Edit(i, i + 1, p, Call("set", i, p))

Next ==
  \/ \E t \in Texts : Create(t)
  \/ Destroy
  \/ \E p \in Pieces :
       \/ AppendText(p) \/ PrependText(p)
       \/ \E pos \in 0..Len(text) : InsertText(pos, p) \/ SetChar(pos, p)

Spec == Init /\ [][Next]_vars

=============================================================================
