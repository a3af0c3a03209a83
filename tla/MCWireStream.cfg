\* Well-formed packets of every scalar width and both string forms, split
\* into segments of every size, decoded by a packet layer that waits for
\* complete packets.
CONSTANTS
  HostBigEndian = FALSE
  SVByteSigned = TRUE
  Formats <- MCFormats
  Messages <- MCMessages
  MaxMessages = 3
  CallerChecksComplete = TRUE

SPECIFICATION Spec

INVARIANT TypeOK
PROPERTY ChannelRefinement
PROPERTY EventuallyDecoded

CHECK_DEADLOCK FALSE
