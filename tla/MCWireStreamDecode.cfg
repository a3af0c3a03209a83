\* Packets of every field kind, entity metadata and characters outside the
\* BMP and U+FFFF included, split into segments of
\* every size, whose decoding the packet layer attempts whenever bytes
\* arrive; checked against the layouts of spec.md 4.2.
CONSTANTS
  HostBigEndian = FALSE
  SVByteSigned = TRUE
  Formats <- MCFormats
  Messages <- MCMessagesDecode
  MaxMessages = 1
  CallerChecksComplete = TRUE

SPECIFICATION SafetySpec

INVARIANT DecodeSound

\* The run ends when MaxMessages packets are sent and read.
CHECK_DEADLOCK FALSE
