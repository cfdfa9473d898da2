------------------------- MODULE MCInflationWorker -------------------------
(***************************************************************************)
(* Instances of InflationWorker for TLC.  All jobs belong to one point of  *)
(* interest: points share nothing but the workers.                         *)
(***************************************************************************)
EXTENDS InflationWorker

CONSTANTS j1, j2, j3, w1, w2, p1

OneJob    == {j1}
TwoJobs   == {j1, j2}
ThreeJobs == {j1, j2, j3}
OneWorker == {w1}
TwoWorkers == {w1, w2}
OnePOI    == {p1}
AllAtOne  == [j \in Jobs |-> p1]
=============================================================================
