------------------------------ MODULE Detector ------------------------------
(***************************************************************************)
(* The anomaly detector (internal/engine/detector.go, stats.go, ewma.go):  *)
(* for each of two metrics an exponentially weighted mean and variance     *)
(* with a short horizon and a mean with a long one.  An observation is     *)
(* scored against the statistics of those before it, the scores of the two *)
(* metrics are composed by the Euclidean norm, and the divergence of the   *)
(* two horizons is the drift.                                              *)
(*                                                                         *)
(* The constants have the names of the detector's fields.  The smoothing   *)
(* factors are 1/alphaInv and 1/alphaSlowInv; scores and their threshold   *)
(* are in units of 1/Sigma of a standard deviation, drift indexes in       *)
(* thousandths, observations in units of which One makes 1.0.              *)
(***************************************************************************)
EXTENDS Floats

CONSTANTS
  alphaInv, alphaSlowInv, minSamples, threshold, driftThreshold,
  One, Sigma,
  MaxScore     (* bound: larger scores are not told apart                   *)

ASSUME DetectorAssumption ==
  /\ alphaInv \in Nat \ {0} /\ alphaSlowInv \in Nat \ {0}
  /\ alphaInv < alphaSlowInv
  /\ minSamples \in Nat \ {0}
  /\ threshold \in Nat \ {0} /\ driftThreshold \in Nat \ {0}
  /\ One \in Nat \ {0} /\ Sigma \in Nat \ {0}
  /\ MaxScore \in Nat /\ MaxScore * Sigma > threshold

VARIABLES
  det,         (* the detector: n, the statistics of each metric, and the   *)
               (* results of the last Update                                *)
  rawAnom      (* what the last Update returned                             *)

dvars == <<det, rawAnom>>

(* No observation yet.  mean, vr and count are those of StreamingStats,     *)
(* slow is the value of the slow EWMA.                                      *)
NoStats == [mean |-> 0, vr |-> 0, slow |-> 0, count |-> 0]

DInit ==
  /\ det = [n |-> 0, cpu |-> NoStats, mem |-> NoStats,
            zscore |-> NaN, driftIndex |-> 0, drifting |-> FALSE]
  /\ rawAnom = FALSE

-----------------------------------------------------------------------------
(* Update of the slow EWMA: the first observation seeds it.                 *)
EWMAUpdate(first, value, x) ==
  IF first THEN x ELSE Round(x + (alphaSlowInv - 1) * value, alphaSlowInv)

(* Mutant: the first observation does not seed the statistics.              *)
StatsUpdateUnseeded(s, x) ==
  LET diff == x - s.mean
  IN  [mean  |-> s.mean + Round(diff, alphaInv),
       vr    |-> Round((alphaInv - 1) * s.vr + diff * diff, alphaInv),
       slow  |-> EWMAUpdate(FALSE, s.slow, x),
       count |-> s.count + 1]

(* Update of StreamingStats, with that of the slow EWMA: the first          *)
(* observation seeds them, and the deviation is taken from the mean before. *)
StatsUpdate(s, x) ==
  LET diff == x - s.mean
  IN  [mean  |-> IF s.count = 0 THEN x ELSE s.mean + Round(diff, alphaInv),
       vr    |-> IF s.count = 0 THEN 0
                 ELSE Round((alphaInv - 1) * s.vr + diff * diff, alphaInv),
       slow  |-> EWMAUpdate(s.count = 0, s.slow, x),
       count |-> s.count + 1]

(* num / den in units of 1/Sigma^2, cut off at MaxScore^2.                  *)
SquareScore(num, den) ==
  IF num \div den >= MaxScore * MaxScore
  THEN MaxScore * MaxScore * Sigma * Sigma
  ELSE (num \div den) * Sigma * Sigma + ((num % den) * Sigma * Sigma) \div den

(* The square of calculateZScore.  Without a deviation the score is         *)
(* relative to the mean.                                                    *)
ZScoreSq(s, x) ==
  LET diff  == x - s.mean
      denom == Larger(One, Abs(s.mean))
  IN  IF s.count >= 2 /\ s.vr > 0 THEN SquareScore(diff * diff, s.vr)
      ELSE SquareScore(diff * diff, denom * denom)

(* Mutant: the larger of the two scores.                                    *)
ZCompositeLarger(d, cpu, mem) ==
  Sqrt(Larger(ZScoreSq(d.cpu, cpu), ZScoreSq(d.mem, mem)), 2 * MaxScore * Sigma)

(* math.Hypot of the two scores.                                            *)
ZComposite(d, cpu, mem) ==
  Sqrt(ZScoreSq(d.cpu, cpu) + ZScoreSq(d.mem, mem), 2 * MaxScore * Sigma)

Drift(s) ==
  (1000 * Abs(s.mean - s.slow)) \div Larger(One, Abs(s.slow))

(* Update up to its results: the score against the prior statistics, the    *)
(* new statistics, the drift.                                               *)
Observed(d, cpu, mem) ==
  LET n   == d.n + 1
      c   == StatsUpdate(d.cpu, cpu)
      m   == StatsUpdate(d.mem, mem)
      idx == Larger(Drift(c), Drift(m))
  IN  [n |-> n, cpu |-> c, mem |-> m,
       zscore |-> IF n > minSamples THEN ZComposite(d, cpu, mem) ELSE 0,
       driftIndex |-> idx,
       drifting |-> n >= minSamples /\ idx > driftThreshold]

(* Update: an observation that is not finite changes nothing, the results   *)
(* of the tick before included.                                             *)
Update(cpu, mem) ==
  IF IsFinite(cpu) /\ IsFinite(mem)
  THEN /\ det' = Observed(det, cpu, mem)
       /\ rawAnom' = (det'.n >= minSamples /\ det'.zscore >= threshold)
  ELSE UNCHANGED det /\ rawAnom' = FALSE
=============================================================================
