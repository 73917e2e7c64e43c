----------------------------- MODULE MCSensing ------------------------------
(* The control loop with a warm-up of two ticks, a load of 50% or 40% and   *)
(* memory of which 50% or all but 4% is in use; counters that stand         *)
(* still or go back, and more memory available than there is, are faults.   *)
EXTENDS Sensing

Delta(w, r) == [work |-> w, rest |-> r]
Reading(t, a) == [total |-> t, avail |-> a]

MCCPUDeltas   == {Delta(1, 1), Delta(2, 3), Delta(0, 0), Delta(-1, 3), Delta(2, -1)}
MCMemReadings == {Reading(100, 50), Reading(100, 4), Reading(50, 60)}
=============================================================================
