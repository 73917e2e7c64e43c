------------------------------ MODULE Heartbeat -----------------------------
(***************************************************************************)
(* The heartbeat window (internal/filter/heartbeat_aggregator.go).  Each   *)
(* method holds the mutex throughout, so each is one step.                 *)
(***************************************************************************)
EXTENDS Integers

CONSTANT HeartbeatInterval

(* NewHeartbeatAggregator puts 10 s in the place of no positive interval.   *)
ASSUME HeartbeatAssumption == HeartbeatInterval \in Nat \ {0}

VARIABLES
  windowStart,
  totalSamples, anomalousCount, suppressedCount,
  minVal, maxVal, sumVal, hasVal,
  windowVals   (* history: the values observed in this window               *)

hvars == <<windowStart, totalSamples, anomalousCount, suppressedCount,
           minVal, maxVal, sumVal, hasVal, windowVals>>

HInit ==
  /\ windowStart = 0
  /\ totalSamples = 0 /\ anomalousCount = 0 /\ suppressedCount = 0
  /\ minVal = 0 /\ maxVal = 0 /\ sumVal = 0 /\ hasVal = FALSE
  /\ windowVals = {}

One(condition) == IF condition THEN 1 ELSE 0

HObserve(val, isAnomalous, isSuppressed) ==
  /\ totalSamples' = totalSamples + 1
  /\ anomalousCount' = anomalousCount + One(isAnomalous)
  /\ suppressedCount' = suppressedCount + One(isSuppressed)
  /\ minVal' = IF hasVal /\ minVal <= val THEN minVal ELSE val
  /\ maxVal' = IF hasVal /\ maxVal >= val THEN maxVal ELSE val
  /\ sumVal' = sumVal + val
  /\ hasVal' = TRUE
  /\ windowVals' = windowVals \cup {val}
  /\ UNCHANGED windowStart

ShouldFlush(t) == t - windowStart >= HeartbeatInterval

(* Mutant: the flag that the minimum and the maximum are set survives.      *)
NewWindowKeepsFlag(t) ==
  /\ windowStart' = t
  /\ totalSamples' = 0 /\ anomalousCount' = 0 /\ suppressedCount' = 0
  /\ minVal' = 0 /\ maxVal' = 0 /\ sumVal' = 0
  /\ windowVals' = {}
  /\ UNCHANGED hasVal

NewWindow(t) ==
  /\ windowStart' = t
  /\ totalSamples' = 0 /\ anomalousCount' = 0 /\ suppressedCount' = 0
  /\ minVal' = 0 /\ maxVal' = 0 /\ sumVal' = 0 /\ hasVal' = FALSE
  /\ windowVals' = {}

(* The summary Flush returns; both Flush and Reset start a new window.      *)
Summary(t) ==
  [start |-> windowStart, end |-> t, samples |-> totalSamples,
   anomalous |-> anomalousCount, suppressed |-> suppressedCount,
   min |-> minVal, max |-> maxVal, sum |-> sumVal]

HNext ==
  \/ \E val \in Nat, isAnomalous, isSuppressed \in BOOLEAN :
       HObserve(val, isAnomalous, isSuppressed)
  \/ \E t \in Nat : NewWindow(t)

HSpec == HInit /\ [][HNext]_hvars

-----------------------------------------------------------------------------
HTypeOK ==
  /\ windowStart \in Nat
  /\ totalSamples \in Nat /\ anomalousCount \in Nat /\ suppressedCount \in Nat
  /\ minVal \in Nat /\ maxVal \in Nat /\ sumVal \in Nat
  /\ hasVal \in BOOLEAN
  /\ windowVals \subseteq Nat

(* The extremes are those of this window: attained in it and bounding all   *)
(* of it, with nothing left over from the window before.                    *)
ExtremesOfWindow ==
  /\ hasVal <=> totalSamples > 0
  /\ hasVal <=> windowVals # {}
  /\ hasVal => /\ minVal \in windowVals /\ maxVal \in windowVals
               /\ \A v \in windowVals : minVal <= v /\ v <= maxVal
=============================================================================
