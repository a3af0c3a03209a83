\* Two threads iterating with CD_MAP_FOREACH while the map is mutated up
\* to MaxWrites times.  Keys 1 and 3 share a bucket of 2, so 3 is placed
\* by probing, ahead of 1; two occupied buckets reach the load bound, and the
\* next put rehashes into 4 buckets, where 3 lands behind 1.
CONSTANTS
  r1 = r1
  r2 = r2
  v1 = v1
  Keys = {1, 3}
  Values = {v1}
  Readers <- MCReaders
  MinBuckets = 2
  MaxBuckets = 4
  MaxWrites = 5
SPECIFICATION Spec
INVARIANTS PassConsistent MarkerCounts
PROPERTY AllPassesEnd
\* The threads stop once their passes are done and the mutations made.
CHECK_DEADLOCK FALSE
