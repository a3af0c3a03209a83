------------------------------- MODULE MCLogin -------------------------------
(* Login instantiated for TLC: two players, and a client version that is   *)
(* PROTOCOL_VERSION and one that is not.                                   *)
EXTENDS Login

CONSTANTS p1, p2

MCPlayers == {p1, p2}
MCVersions == {"current", "old"}
MCOnePlayer == {p1}
MCCurrent == {"current"}

=============================================================================
