\* Two connections logging in through the proxy, each with up to two login
\* packets of either version.
CONSTANTS
  p1 = p1
  p2 = p2
  Players <- MCPlayers
  Versions <- MCVersions
  ProtocolVersion = "current"
  Handler = "proxy"
  MaxLogins = 2

SPECIFICATION Spec

INVARIANT NoLeak

\* Once every login packet has been handled the workers are idle.
CHECK_DEADLOCK FALSE
