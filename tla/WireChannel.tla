----------------------------- MODULE WireChannel -----------------------------
(***************************************************************************)
(* What the codec and a connection's buffers promise together (spec.md     *)
(* sections 2 and 4.2): a reliable FIFO channel of protocol messages.  A   *)
(* message sent by one side is delivered to the other side's packet layer  *)
(* whole, once, in the order of sending, and eventually.                   *)
(***************************************************************************)
EXTENDS Sequences

CONSTANT Msgs  \* the messages that can be sent

VARIABLES
  queue,      \* messages sent and not yet delivered, oldest first
  delivered   \* messages delivered, in order

vars == <<queue, delivered>>

Init == queue = <<>> /\ delivered = <<>>

Send(m) == queue' = Append(queue, m) /\ UNCHANGED delivered

Deliver ==
  /\ queue # <<>>
  /\ delivered' = Append(delivered, Head(queue))
  /\ queue' = Tail(queue)

Next == (\E m \in Msgs : Send(m)) \/ Deliver

SafetySpec == Init /\ [][Next]_vars

Spec == SafetySpec /\ WF_vars(Deliver)

=============================================================================
