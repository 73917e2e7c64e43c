------------------------------ MODULE Sampling ------------------------------
(***************************************************************************)
(* The adaptive sampling controller: computeInterval and the ticker of the *)
(* main loop (cmd/agent/main.go), which every tick resets to the interval  *)
(* the tick returned.  The less stable the system is, the shorter the      *)
(* interval; it shrinks at once and grows back by tauRecoveryStep a tick.  *)
(*                                                                         *)
(* The composite z-score is an integer in the unit of RateTheta, the drift *)
(* index one in the unit of DriftThreshold; either may be NaN.  An         *)
(* interval is a number of time units; a float64 that is converted to a    *)
(* time.Duration is truncated.                                             *)
(***************************************************************************)
EXTENDS Floats

CONSTANTS
  RateTauMin, RateTauMax, RateTheta, ScrapeInterval,   (* config.Config     *)
  DriftThreshold,      (* of the detector                                   *)
  TauRecoveryStep,     (* tauRecoveryStep                                   *)
  ZScores, DriftIndexes,   (* bound: what the detector may report           *)
  MaxTicks             (* bound: ticks of a behaviour                       *)

(* config.validate, of the fields used here.                                *)
Validated ==
  /\ ScrapeInterval > 0
  /\ RateTauMin < RateTauMax
  /\ RateTheta > 0

ASSUME ConfigAssumption ==
  /\ RateTauMin \in Int /\ RateTauMax \in Int
  /\ RateTheta \in Int /\ ScrapeInterval \in Int
  /\ Validated

ASSUME SamplingAssumption ==
  /\ DriftThreshold \in Nat \ {0}
  /\ TauRecoveryStep \in Nat \ {0}
  /\ ZScores \subseteq Int \cup {NaN}
  /\ DriftIndexes \subseteq Int \cup {NaN}
  /\ MaxTicks \in Nat

VARIABLES
  tauPrev,     (* Agent.tauPrev                                             *)
  period,      (* the period the ticker was set to last                     *)
  ticks,       (* history: ticks so far                                     *)
  calm         (* history: ticks at rest in a row, at the end               *)

vars == <<tauPrev, period, ticks, calm>>

-----------------------------------------------------------------------------
OrZero(x) == IF x = NaN THEN 0 ELSE x

(* ratio * RateTheta, where ratio is |zEff| / theta cut off at 1.           *)
Instability(zComposite, driftIndex) ==
  Smaller(RateTheta,
          Abs(Larger(OrZero(zComposite),
                     (OrZero(driftIndex) * RateTheta) \div DriftThreshold)))

(* tMax - (tMax - tMin) * ratio, truncated.                                 *)
TauTarget(inst) ==
  RateTauMax
    - (((RateTauMax - RateTauMin) * inst + (RateTheta - 1)) \div RateTheta)

(* Mutant: the target does not bound the interval from above.               *)
ComputeIntervalUnbounded(inst, prev) ==
  Larger(RateTauMin, Larger(TauTarget(inst), prev + TauRecoveryStep))

(* Mutant: the recovery is not gradual.                                     *)
ComputeIntervalJumps(inst, prev) == Larger(RateTauMin, TauTarget(inst))

ComputeInterval(inst, prev) ==
  Larger(RateTauMin, Smaller(TauTarget(inst), prev + TauRecoveryStep))

-----------------------------------------------------------------------------
Init ==
  /\ tauPrev = RateTauMax
  /\ period = ScrapeInterval
  /\ ticks = 0
  /\ calm = 0

(* The end of tick, and ticker.Reset(next) in the main loop.                *)
Tick(zComposite, driftIndex) ==
  LET inst == Instability(zComposite, driftIndex)
  IN  /\ ticks < MaxTicks
      /\ ticks' = ticks + 1
      /\ tauPrev' = ComputeInterval(inst, tauPrev)
      /\ period' = tauPrev'
      /\ calm' = IF inst = 0 THEN calm + 1 ELSE 0

Next == \E z \in ZScores, d \in DriftIndexes : Tick(z, d)

Spec == Init /\ [][Next]_vars

-----------------------------------------------------------------------------
(* The interval stays between the two configured rates, whatever the        *)
(* detector reports; only the first tick comes after ScrapeInterval.        *)
IntervalBounded ==
  /\ tauPrev \in RateTauMin .. RateTauMax
  /\ period = IF ticks = 0 THEN ScrapeInterval ELSE tauPrev

(* The way back is gradual and has an end: after n ticks at rest in a row   *)
(* the interval is n recovery steps above the minimum, or at its maximum.   *)
Recovery ==
  tauPrev >= Smaller(RateTauMax, RateTauMin + calm * TauRecoveryStep)

(* No control chattering: the interval grows by one recovery step a tick at *)
(* most, and at rest by exactly that, up to its maximum.                    *)
NoChattering ==
  [][ /\ tauPrev' <= tauPrev + TauRecoveryStep
      /\ calm' > 0 =>
           tauPrev' = Smaller(RateTauMax, tauPrev + TauRecoveryStep) ]_vars

(* time.Ticker.Reset panics on a period that is not positive.               *)
TickerPeriodPositive == period > 0
=============================================================================
