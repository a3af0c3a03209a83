------------------------------ MODULE WireStream ------------------------------
(***************************************************************************)
(* One direction of a connection: the sending side's packet layer encodes *)
(* messages into its output buffer with SV_BufferAddFormat, the reactors   *)
(* move the bytes through the socket in segments of any size into the      *)
(* receiving side's input buffer, and the receiving packet layer decodes   *)
(* one message at a time with SV_BufferRemoveFormat.                       *)
(*                                                                         *)
(* A message is [pid, fields]: its packet id, sent as a byte, and the      *)
(* values of the fields its format lists.  The packet layer that picks the *)
(* format by id is not in this source tree; it is modelled from spec.md    *)
(* section 7: when a decode runs out of bytes the caller retries once more *)
(* bytes arrive (CallerChecksComplete), discarding the attempt.            *)
(***************************************************************************)
EXTENDS Integers, Sequences, SequencesExt, WireCodec

CONSTANTS
  Formats,               \* packet id -> the sequence of its field formats
  Messages,              \* the messages the sending side may send
  MaxMessages,           \* bound on the number of messages sent
  CallerChecksComplete   \* whether the receiver discards a short decode

ASSUME /\ MaxMessages \in Nat
       /\ CallerChecksComplete \in BOOLEAN
       /\ \A m \in Messages : m.pid \in DOMAIN Formats

VARIABLES
  output,    \* bytes in the sender's output evbuffer
  input,     \* bytes in the receiver's input evbuffer
  sent,      \* history: the messages encoded, in order
  received   \* history: the messages decoded, in order

vars == <<output, input, sent, received>>

\* The byte string of message m appended to buf.
Encode(buf, m) ==
  AddFormat(buf, <<"b">> \o Formats[m.pid], <<Digits(m.pid, 1)>> \o m.fields)

\* Decoding one message from buf: its id byte, then the fields of its format.
DecodeMessage(buf) ==
  LET p   == RemoveByte(buf)
      pid == p.v[1]
  IN  IF pid \notin DOMAIN Formats
      THEN [Failed("undefined", buf) EXCEPT !.short = p.short]
      ELSE LET d == RemoveFormat(p.rest, Formats[pid])
           IN  [d EXCEPT !.v = [pid |-> pid, fields |-> @], !.short = @ \/ p.short]

-----------------------------------------------------------------------------
(* What the receiving application sees of a value, and what spec.md says  *)
(* it should see of the value that was sent.                               *)

\* spec.md 4.2: the legacy form carries the BMP characters of a string and
\* turns any other into the replacement character, read back as '?'.
LegacyImage(z) ==
  FlattenSeq([i \in 1..Length(z) |->
                IF Len(CharAt(z, i - 1)) = 4 THEN <<63>> ELSE CharAt(z, i - 1)])

RECURSIVE View(_, _), Promise(_, _)

\* The value as the application reads it.
View(t, v) ==
  CASE t = "S" -> CString(v)
    [] t = "M" -> [i \in DOMAIN v |->
                    [type |-> v[i].type,
                     data |-> [j \in DOMAIN v[i].data |->
                                View(MetaFormats[v[i].type + 1][j], v[i].data[j])]]]
    [] OTHER   -> v

\* The value spec.md says the application reads after v was sent.
Promise(t, v) ==
  CASE t = "S" -> Sanitize(v)
    [] t = "U" -> LegacyImage(Sanitize(v))
    [] t = "M" -> [i \in DOMAIN v |->
                    [type |-> v[i].type,
                     data |-> [j \in DOMAIN v[i].data |->
                                Promise(MetaFormats[v[i].type + 1][j], v[i].data[j])]]]
    [] OTHER   -> v

\* Decoded message r is what spec.md promises for sent message m.
Conforms(r, m) ==
  /\ r.pid = m.pid
  /\ Len(r.fields) = Len(m.fields)
  /\ \A j \in DOMAIN m.fields :
       View(Formats[m.pid][j], r.fields[j]) = Promise(Formats[m.pid][j], m.fields[j])

-----------------------------------------------------------------------------

Init ==
  /\ output = <<>>
  /\ input = <<>>
  /\ sent = <<>>
  /\ received = <<>>

\* The sending packet layer serialises message m into the output buffer.
Send(m) ==
  /\ Len(sent) < MaxMessages
  /\ output' = Encode(output, m)
  /\ sent' = Append(sent, m)
  /\ UNCHANGED <<input, received>>

\* The reactors move the first k bytes of the output buffer through the
\* socket into the input buffer (bufferevent write and read callbacks).
Transmit(k) ==
  /\ input' = input \o SubSeq(output, 1, k)
  /\ output' = SubSeq(output, k + 1, Len(output))
  /\ UNCHANGED <<sent, received>>

\* The attempt of the receiving packet layer to decode the input buffer.
Decoded == DecodeMessage(input)

\* The packet layer accepts the attempt: it returned, and, when the caller
\* checks for completeness, every removal found its bytes.
ReceiveEnabled ==
  /\ input # <<>>
  /\ Decoded.fault = "none"
  /\ CallerChecksComplete => ~Decoded.short

\* Mutation of Receive: the message copied out of the buffer, not drained.
ReceiveKeepsInput ==
  /\ ReceiveEnabled
  /\ received' = Append(received, Decoded.v)
  /\ UNCHANGED <<input, output, sent>>

\* The receiving packet layer decodes one message from the input buffer.
Receive ==
  /\ ReceiveEnabled
  /\ received' = Append(received, Decoded.v)
  /\ input' = Decoded.rest
  /\ UNCHANGED <<output, sent>>

Next ==
  \/ \E m \in Messages : Send(m)
  \/ \E k \in 1..Len(output) : Transmit(k)
  \/ Receive

\* The reactors write whatever is queued and read whatever arrives, and the
\* read callback hands new input to the packet layer.  The second conjunct
\* is WF_vars(Receive) in the form []<>~ENABLED \/ []<><<Receive>>, with
\* ReceiveEnabled for ENABLED <<Receive>>_vars (a Receive step always
\* appends to received).
Fairness ==
  /\ WF_vars(\E k \in 1..Len(output) : Transmit(k))
  /\ []<>~ReceiveEnabled \/ []<><<Receive>>_vars

SafetySpec == Init /\ [][Next]_vars

Spec == SafetySpec /\ Fairness

-----------------------------------------------------------------------------

TypeOK ==
  /\ output \in Seq(Byte)
  /\ input \in Seq(Byte)
  /\ sent \in Seq(Messages)
  /\ Len(sent) <= MaxMessages
  /\ \A i \in DOMAIN received :
       /\ received[i].pid \in DOMAIN Formats
       /\ Len(received[i].fields) = Len(Formats[received[i].pid])

\* Every message the receiving packet layer decodes, from bytes that crossed
\* the socket in segments of any size, is the message sent in that position,
\* as spec.md 4.2 defines it after encoding: scalars exact and big-endian,
\* strings sanitized, legacy strings with non-BMP characters replaced.
StreamIntegrity ==
  /\ Len(received) <= Len(sent)
  /\ \A i \in 1..Len(received) : Conforms(received[i], sent[i])

\* What spec.md says the application reads of each message that may be sent.
Promised ==
  [m \in Messages |->
     [pid |-> m.pid,
      fields |-> [j \in DOMAIN m.fields |-> Promise(Formats[m.pid][j], m.fields[j])]]]

\* Every attempt of the receiving packet layer to decode what is buffered,
\* complete or not, returns and has a defined outcome: spec.md 7 has the
\* caller retry a short decode once more bytes arrive.
AttemptDefined == input # <<>> => Decoded.fault = "none"

\* The stream refines the FIFO channel of WireChannel: the messages not yet
\* decoded form the queue, the decoded ones (as the application sees them)
\* are the delivered ones.  The channel's fairness is checked on its own as
\* EventuallyDecoded.
Channel == INSTANCE WireChannel WITH
  Msgs      <- {Promised[m] : m \in Messages},
  queue     <- [i \in 1..(Len(sent) - Len(received)) |-> Promised[sent[Len(received) + i]]],
  delivered <- [i \in DOMAIN received |->
                  [pid |-> received[i].pid,
                   fields |-> [j \in DOMAIN received[i].fields |->
                                 View(Formats[received[i].pid][j], received[i].fields[j])]]]

ChannelRefinement == Channel!SafetySpec

\* Every message the packet layer encodes is eventually decoded on the other
\* side: no packet stays stuck in a buffer, e.g. because a decode keeps
\* coming up short on bytes that are all there.
EventuallyDecoded ==
  \A i \in 1..MaxMessages : (Len(sent) >= i) ~> (Len(received) >= i)

=============================================================================
