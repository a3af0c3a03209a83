-------------------------------- MODULE MCJob --------------------------------
(* Three jobs submitted at once: enough for owned and external jobs of both *)
(* payload shapes to be in flight together and destroyed in every order.   *)
EXTENDS Job, TLC

CONSTANTS j1, j2, j3

MCJobs == {j1, j2, j3}


=============================================================================
