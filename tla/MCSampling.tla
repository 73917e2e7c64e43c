----------------------------- MODULE MCSampling -----------------------------
(* The sampling controller with a range of seven time units and a recovery  *)
(* step of two, so that the last step to the maximum is cut off, and with   *)
(* z-scores and drift indexes below, at and above their thresholds.         *)
EXTENDS Sampling

MCZScores      == {NaN} \cup (-2 .. 5)
MCDriftIndexes == {NaN} \cup (-1 .. 3)
=============================================================================
