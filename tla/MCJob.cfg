\* The pool may use either destroy variant on an owned job, and only
\* CD_DestroyJob on an external one.
CONSTANTS
  j1 = j1
  j2 = j2
  j3 = j3
  Jobs <- MCJobs
  KeepExternal = FALSE
SPECIFICATION Spec
INVARIANTS
  NoDoubleFree
  PayloadLiveWhileOwned
PROPERTIES
  AllReleased
\* The pool idles once every job is done and every payload released.
CHECK_DEADLOCK FALSE
