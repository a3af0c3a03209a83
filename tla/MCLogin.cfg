\* process_login for two connections at once, each sending up to two login
\* packets of either version.
CONSTANTS
  p1 = p1
  p2 = p2
  Players <- MCPlayers
  Versions <- MCVersions
  ProtocolVersion = "current"
  Handler = "login"
  MaxLogins = 2

SPECIFICATION Spec

INVARIANT LoginResponses
INVARIANT NoDoubleFree

\* Once every login packet has been handled the workers are idle.
CHECK_DEADLOCK FALSE
