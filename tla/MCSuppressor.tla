---------------------------- MODULE MCSuppressor ----------------------------
(* The suppressor with the thresholds of the agent (two anomalies in a row  *)
(* trip an alert, two or three normals end an episode) and observations     *)
(* that come faster than, as fast as, or slower than the holdoff.           *)
EXTENDS Suppressor
=============================================================================
