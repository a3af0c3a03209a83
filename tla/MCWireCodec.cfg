\* Every scalar type and raw and legacy strings of BMP characters, checked
\* one field at a time; and the integer helpers on every operand pair.
CONSTANTS
  HostBigEndian = FALSE
  SVByteSigned = TRUE
  Chars <- BmpChars

SPECIFICATION Spec

INVARIANT ScalarRoundTrip
INVARIANT RawStringRoundTrip
INVARIANT LegacyEncoding
INVARIANT LegacyRoundTrip
INVARIANT DivIsFloor
INVARIANT ModIsFloorRemainder
INVARIANT CeilingIsCeiling
