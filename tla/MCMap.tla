-------------------------------- MODULE MCMap --------------------------------
(* Map instantiated for TLC: two iterating threads and the mutators.  The  *)
(* keys, the table sizes and the bound on mutations are given in MCMap.cfg *)
(* (keys 1 and 3 in a table of 2 buckets that grows to 4).                 *)
EXTENDS Map, TLC

CONSTANTS r1, r2, v1

MCReaders == {r1, r2}

=============================================================================
