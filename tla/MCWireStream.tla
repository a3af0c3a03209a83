---------------------------- MODULE MCWireStream ----------------------------
(***************************************************************************)
(* Instances of WireStream with packets of the survival protocol (the ids  *)
(* and field layouts of src/src/network/send.c and of the chat and entity  *)
(* metadata packets) carrying boundary values.                             *)
(***************************************************************************)
EXTENDS WireStream

\* Field layouts by packet id: login response (entity id, two shorts, the
\* map seed, the dimension byte, as send_loginresp writes them), chat (a legacy string), spawn position, disconnect (a string) and
\* entity metadata (entity id, metadata).
MCFormats ==
  (1 :> <<"i", "s", "s", "l", "b">>) @@ (3 :> <<"U">>) @@ (6 :> <<"i", "i", "i">>)
    @@ (40 :> <<"i", "M">>) @@ (255 :> <<"S">>)

LoginMsg ==
  [pid |-> 1, fields |-> <<Digits(1, 4), Digits(0, 2), Digits(-1, 2), Digits(-2, 8), Digits(0, 1)>>]

\* "é!": U+00E9 then U+0021.
ChatMsg == [pid |-> 3, fields |-> <<<<195, 169, 33>>>>]

SpawnMsg == [pid |-> 6, fields |-> <<Digits(16909060, 4), Digits(-1, 4), Digits(-2147483647 - 1, 4)>>]

\* "Aé".
KickMsg == [pid |-> 255, fields |-> <<<<65, 195, 169>>>>]

\* Entity metadata holding two byte items (kind 0, whose tag byte reads
\* the same whether or not it is shifted), one of them the value 127.
MetadataMsg ==
  [pid |-> 40,
   fields |-> <<Digits(7, 4),
                <<[type |-> 0, data |-> <<Digits(200, 1)>>],
                  [type |-> 0, data |-> <<Digits(127, 1)>>]>>>>]

\* Chat lines holding U+1F600 (outside the BMP) and U+FFFF.
GrinningMsg == [pid |-> 3, fields |-> <<<<240, 159, 152, 128>>>>]
NonCharacterMsg == [pid |-> 3, fields |-> <<<<239, 191, 191>>>>]

\* Entity metadata holding one short item (kind 1).
ShortMetadataMsg ==
  [pid |-> 40, fields |-> <<Digits(7, 4), <<[type |-> 1, data |-> <<Digits(-2, 2)>>]>>>>]

MCMessages == {LoginMsg, ChatMsg, SpawnMsg, KickMsg}
MCMessagesMetadata == {MetadataMsg}
MCMessagesDecode ==
  MCMessages \cup MCMessagesMetadata \cup {GrinningMsg, NonCharacterMsg, ShortMetadataMsg}

\* Every decode attempt of the receiving packet layer, made whenever bytes
\* arrive, is defined, and every packet it delivers is the one sent, as
\* spec.md 4.2 and 7 describe the survival protocol's decoders.
DecodeSound == StreamIntegrity /\ AttemptDefined

=============================================================================
