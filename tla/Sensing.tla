------------------------------- MODULE Sensing -------------------------------
(***************************************************************************)
(* The control loop of the agent: a tick (cmd/agent/main.go) measures,     *)
(* feeds the detector, lets the suppressor decide on an alert, and chooses *)
(* when the next tick comes.  The main goroutine runs it alone; the events *)
(* a tick emits, the heartbeat and the concurrency of /inject/anomaly are  *)
(* those of module Agent, the CPU quota that of module Governor.           *)
(***************************************************************************)
EXTENDS Collector, Detector, Suppressor, Sampling

CONSTANTS
  FloorPct,      (* the floor of IsSaturated                                *)
  MaxInjects     (* bound: calls of /inject/anomaly                         *)

(* The modules share their units and the time; the score that samples at    *)
(* the fastest rate is one the detector can report.                         *)
ASSUME SensingAssumption ==
  /\ One = Percent /\ DriftThreshold = driftThreshold
  /\ RateTheta <= MaxScore * Sigma
  /\ FloorPct \in 1 .. 100
  /\ MaxInjects \in Nat

VARIABLES
  injects,     (* calls of /inject/anomaly so far                           *)
  seen,        (* history: the least and the largest observation of each    *)
               (* metric                                                    *)
  starved,     (* history: ticks in a row that knew of too little memory    *)
  lowMem,      (* history: the last whole reading of meminfo says so        *)
  burst,       (* history: injected samples in a row, at the end            *)
  steady       (* history: the burst began with a sample that stands out,   *)
               (* and the host itself has not dropped since                 *)

loopHistory == <<seen, starved, lowMem, burst, steady>>
lvars == <<cvars, dvars, svars, vars, injects, loopHistory>>

LInit ==
  /\ CInit /\ DInit /\ SInit /\ Init
  /\ injects = 0
  /\ seen = [m \in {"cpu", "mem"} |-> [lo |-> 0, hi |-> 0]]
  /\ starved = 0 /\ lowMem = FALSE
  /\ burst = 0 /\ steady = FALSE

-----------------------------------------------------------------------------
Saturated(mem) == mem.total > 0 /\ 100 * mem.avail < FloorPct * mem.total

(* isAnom in tick.                                                          *)
IsAnom == rawAnom' \/ Saturated(memStats')

(* Histories.                                                               *)
Widened(range, x) ==
  IF ~IsFinite(x) THEN range
  ELSE IF det.n = 0 THEN [lo |-> x, hi |-> x]
  ELSE [lo |-> Smaller(range.lo, x), hi |-> Larger(range.hi, x)]

(* The observation x stands out from the baseline s: by 80 points, and by   *)
(* six standard deviations.                                                 *)
StandsOut(s, x) ==
  /\ x - s.mean >= 80 * Percent
  /\ 36 * s.vr <= (x - s.mean) * (x - s.mean)

(* The detector is warm, the sample stands out from both baselines, and not *)
(* both are of a metric that has never moved.                               *)
SpikeStandsOut ==
  /\ det.n >= minSamples
  /\ StandsOut(det.cpu, cpuPct') /\ StandsOut(det.mem, memPct')
  /\ det.cpu.vr > 0 \/ det.mem.vr > 0

(* The host itself does not drop by more than a tenth of the scale.         *)
HostSteady ==
  /\ metricCPU' >= metricCPU - 10 * Percent
  /\ metricMem' >= metricMem - 10 * Percent

Record ==
  /\ seen' = [cpu |-> Widened(seen.cpu, cpuPct'), mem |-> Widened(seen.mem, memPct')]
  /\ lowMem' = CASE memRead' = "whole"   -> Saturated(kernelMem')
                 [] memRead' = "none"    -> lowMem
                 [] memRead' = "partial" -> FALSE
  /\ starved' = IF lowMem' THEN starved + 1 ELSE 0
  /\ burst' = IF injectSpikes > 0 THEN burst + 1 ELSE 0
  /\ steady' = IF burst = 0 THEN SpikeStandsOut ELSE steady /\ HostSteady

(* tick, and the ticker that brings the next one.                           *)
SensingTick ==
  /\ ticks < MaxTicks
  /\ CollectUsage
  /\ Update(cpuPct', memPct')
  /\ Process(IsAnom, period)
  /\ Tick(det'.zscore, det'.driftIndex)
  /\ Record
  /\ UNCHANGED injects

InjectAnomaly ==
  /\ injects < MaxInjects
  /\ injects' = injects + 1
  /\ Inject
  /\ UNCHANGED <<dvars, svars, vars, loopHistory>>

LNext == SensingTick \/ InjectAnomaly

LSpec == LInit /\ [][LNext]_lvars

-----------------------------------------------------------------------------
(* Every tick reaches the detector: no observation is dropped for not being *)
(* finite, so the score and the drift that a tick acts on are its own and   *)
(* never those of an earlier tick.                                          *)
FedEveryTick == det.n = ticks

(* The baselines stay among the observations they stand for, and no         *)
(* deviation is larger than their range: neither does a start leave a       *)
(* baseline that was never observed, nor does a burst throw one out of it.  *)
BaselineInRange ==
  det.n > 0 =>
    \A m \in {"cpu", "mem"} :
      LET s == det[m]  lo == seen[m].lo  hi == seen[m].hi
      IN  /\ s.mean \in lo .. hi /\ s.slow \in lo .. hi
          /\ s.vr <= (hi - lo) * (hi - lo)

(* An alert is out, and its holdoff is not over.                            *)
AlertOut ==
  lastAlertTime # Never /\ now - lastAlertTime <= HoldoffDuration

(* Memory that stays below the floor keeps an alert out, from the           *)
(* observation that trips it on: also while meminfo cannot be read, and     *)
(* however used the detector gets to it.                                    *)
SaturationAlerts == starved >= MinConsecutiveAnomalies => AlertOut

(* /inject/anomaly raises an alert ("trigger a simulated anomaly burst"):   *)
(* after the warm-up, if the burst begins with a sample that stands out and *)
(* the host does not drop meanwhile, as many samples are flagged as the     *)
(* suppressor needs, before the detector is used to the burst.              *)
BurstAlerts ==
  burst = MinConsecutiveAnomalies /\ steady => AlertOut
=============================================================================
