--------------------------- MODULE SensingProofs ----------------------------
(***************************************************************************)
(* Theorems of the control loop, for every configuration config.validate   *)
(* accepts and any observations: first the sampling controller on its own, *)
(* for whatever a detector may report, then the loop with the collector,   *)
(* the detector and the suppressor in it.                                  *)
(***************************************************************************)
EXTENDS Sensing, FiniteSetTheorems, TLAPS

Number == Int \cup {NaN}

-----------------------------------------------------------------------------
(* A product of naturals is a natural, and so is a quotient by a positive   *)
(* number; rounding zero up gives zero.                                     *)
LEMMA ProductNat == ASSUME NEW a \in Nat, NEW b \in Nat PROVE a * b \in Nat
OBVIOUS

LEMMA QuotientNat ==
  ASSUME NEW a \in Nat, NEW b \in Nat \ {0} PROVE a \div b \in Nat
OBVIOUS

LEMMA RoundedZero == ASSUME NEW b \in Nat \ {0} PROVE (0 + (b - 1)) \div b = 0
OBVIOUS

LEMMA QuotientInt ==
  ASSUME NEW a \in Int, NEW b \in Nat \ {0} PROVE a \div b \in Int
OBVIOUS

(* A counter below the modulus is its own remainder.                        *)
LEMMA SmallRemainder ==
  ASSUME NEW a \in Nat, NEW b \in Nat, a < b PROVE a % b = a
OBVIOUS

LEMMA ProductMonotone ==
  ASSUME NEW a \in Nat, NEW b \in Nat, NEW c \in Nat, a <= b
  PROVE  a * c <= b * c
OBVIOUS

(* The quotient of a dividend that is less than q + 1 times the divisor.    *)
LEMMA QuotientBound ==
  ASSUME NEW a \in Nat, NEW b \in Nat \ {0}, NEW q \in Nat, a < b * (q + 1)
  PROVE  a \div b <= q
<1>1. a \div b \in Nat /\ b * (a \div b) <= a  OBVIOUS
<1>2. SUFFICES ASSUME a \div b >= q + 1 PROVE FALSE  BY <1>1
<1>3. (q + 1) * b <= (a \div b) * b  BY <1>1, <1>2, ProductMonotone
<1> QED BY <1>1, <1>3

(* A part of a whole, in percent, is between 0 and 100.                     *)
LEMMA PercentRange ==
  ASSUME NEW part \in Nat, NEW whole \in Nat, 0 < whole, part <= whole
  PROVE  PercentOf(part, whole) \in 0 .. 100 * Percent
<1> DEFINE p == 100 * Percent
<1>1. p \in Nat  BY CollectorAssumption
<1>2. part * 100 * Percent = part * p  BY CollectorAssumption
<1> HIDE DEF p
<1>3. part * p \in Nat /\ whole * p \in Nat  BY <1>1, ProductNat
<1>4. part * p <= whole * p  BY <1>1, ProductMonotone
<1>5. 2 * (part * p) + whole < (2 * whole) * (p + 1)
  <2>1. (2 * whole) * (p + 1) = 2 * (whole * p) + 2 * whole  BY <1>1
  <2> QED BY <2>1, <1>3, <1>4
<1>6. (2 * (part * p) + whole) \div (2 * whole) \in Nat
  BY <1>3, QuotientNat
<1>7. (2 * (part * p) + whole) \div (2 * whole) <= p
  <2>1. 2 * (part * p) + whole \in Nat /\ 2 * whole \in Nat \ {0}  BY <1>3
  <2> QED BY <2>1, <1>1, <1>5, QuotientBound
<1>8. PercentOf(part, whole) = (2 * (part * p) + whole) \div (2 * whole)
  BY <1>2 DEF PercentOf, Round
<1>9. PercentOf(part, whole) \in 0 .. p  BY <1>1, <1>6, <1>7, <1>8
<1> QED BY <1>9 DEF p

(* A quotient rounded to the nearest unit is a number.                      *)
LEMMA RoundInt ==
  ASSUME NEW a \in Int, NEW b \in Nat \ {0} PROVE Round(a, b) \in Int
BY QuotientInt DEF Round
-----------------------------------------------------------------------------
(* The sampling controller.                                                 *)
IInv ==
  /\ tauPrev \in RateTauMin .. RateTauMax
  /\ period = IF ticks = 0 THEN ScrapeInterval ELSE tauPrev
  /\ ticks \in Nat /\ calm \in Nat
  /\ Recovery

(* What the loading of the configuration makes sure of.                     *)
LEMMA ConfigFacts ==
  /\ RateTauMin \in Int /\ RateTauMax \in Int /\ RateTauMin < RateTauMax
  /\ RateTheta \in Nat \ {0} /\ ScrapeInterval \in Nat \ {0}
BY ConfigAssumption DEF Validated

(* The instability is a number between zero and RateTheta.                  *)
LEMMA InstabilityRange ==
  ASSUME NEW z \in Number, NEW d \in Number
  PROVE  Instability(z, d) \in 0 .. RateTheta
<1>1. OrZero(z) \in Int /\ OrZero(d) \in Int
  BY DEF OrZero, Number
<1>2. (OrZero(d) * RateTheta) \div DriftThreshold \in Int
  BY <1>1, ConfigFacts, SamplingAssumption
<1>3. Larger(OrZero(z), (OrZero(d) * RateTheta) \div DriftThreshold) \in Int
  BY <1>1, <1>2 DEF Larger
<1> QED BY <1>3, ConfigFacts DEF Instability, Smaller, Abs

(* The target is an interval, at most the longest one, and it is the        *)
(* longest one when the system is at rest.                                  *)
LEMMA TargetRange ==
  ASSUME NEW inst \in 0 .. RateTheta
  PROVE  /\ TauTarget(inst) \in Int /\ TauTarget(inst) <= RateTauMax
         /\ inst = 0 => TauTarget(inst) = RateTauMax
<1> DEFINE num == (RateTauMax - RateTauMin) * inst + (RateTheta - 1)
<1>1. RateTauMax - RateTauMin \in Nat  BY ConfigFacts
<1>2. (RateTauMax - RateTauMin) * inst \in Nat
  BY <1>1, ConfigFacts, ProductNat
<1>3. num \in Nat  BY <1>2, ConfigFacts
<1>4. num \div RateTheta \in Nat
  <2> HIDE DEF num
  <2> QED BY <1>3, ConfigFacts, QuotientNat
<1>5. inst = 0 => num \div RateTheta = 0
  <2> SUFFICES ASSUME inst = 0 PROVE num \div RateTheta = 0  OBVIOUS
  <2>1. (RateTauMax - RateTauMin) * inst = 0  BY <1>1
  <2>2. num = 0 + (RateTheta - 1)  BY <2>1
  <2> QED BY <2>2, ConfigFacts, RoundedZero
<1>6. TauTarget(inst) = RateTauMax - num \div RateTheta  BY DEF TauTarget
<1> HIDE DEF num
<1> QED BY <1>4, <1>5, <1>6, ConfigFacts

(* A tick moves the interval as NoChattering says, and stays in the         *)
(* invariant.                                                               *)
Gradual ==
  /\ tauPrev' <= tauPrev + TauRecoveryStep
  /\ calm' > 0 => tauPrev' = Smaller(RateTauMax, tauPrev + TauRecoveryStep)

LEMMA StepInv ==
  ASSUME IInv, NEW z \in Number, NEW d \in Number, Tick(z, d)
  PROVE  IInv' /\ Gradual
<1> DEFINE inst == Instability(z, d)
           target == TauTarget(inst)
<1>1. /\ target \in Int /\ target <= RateTauMax
      /\ inst = 0 => target = RateTauMax
  BY InstabilityRange, TargetRange
<1>2. tauPrev' = Larger(RateTauMin, Smaller(target, tauPrev + TauRecoveryStep))
  BY DEF Tick, ComputeInterval
<1>3. /\ ticks \in Nat /\ ticks' = ticks + 1 /\ period' = tauPrev'
      /\ calm \in Nat /\ calm' = IF inst = 0 THEN calm + 1 ELSE 0
  BY DEF Tick, IInv
<1> HIDE DEF inst, target
<1> USE ConfigFacts, SamplingAssumption DEF IInv, Larger, Smaller
<1>4. tauPrev' \in RateTauMin .. RateTauMax  BY <1>1, <1>2
<1>5. Gradual  BY <1>1, <1>2, <1>3 DEF Gradual
<1>6. period' = IF ticks' = 0 THEN ScrapeInterval ELSE tauPrev'  BY <1>3
<1>7. Recovery'
  <2>1. CASE inst = 0
    <3>1. tauPrev' = Smaller(RateTauMax, tauPrev + TauRecoveryStep)
      BY <1>1, <1>2, <2>1
    <3>2. calm * TauRecoveryStep \in Nat  BY <1>3, ProductNat
    <3>3. calm' * TauRecoveryStep = calm * TauRecoveryStep + TauRecoveryStep
      BY <1>3, <2>1
    <3>4. tauPrev >= Smaller(RateTauMax, RateTauMin + calm * TauRecoveryStep)
      BY DEF Recovery
    <3> QED BY <3>1, <3>2, <3>3, <3>4 DEF Recovery
  <2>2. CASE inst # 0
    <3>1. calm' * TauRecoveryStep = 0  BY <1>3, <2>2
    <3> QED BY <1>4, <3>1 DEF Recovery
  <2> QED BY <2>1, <2>2
<1> QED BY <1>3, <1>4, <1>5, <1>6, <1>7

LEMMA InvCorrect == Spec => []IInv
<1>1. Init => IInv
  <2> SUFFICES ASSUME Init PROVE IInv  OBVIOUS
  <2>1. calm * TauRecoveryStep = 0  BY SamplingAssumption DEF Init
  <2> QED BY <2>1, ConfigFacts DEF Init, IInv, Recovery, Smaller
<1>2. IInv /\ [Next]_vars => IInv'
  <2> SUFFICES ASSUME IInv, [Next]_vars PROVE IInv'  OBVIOUS
  <2>1. CASE Next
    <3>1. PICK z \in ZScores, d \in DriftIndexes : Tick(z, d)  BY <2>1 DEF Next
    <3>2. z \in Number /\ d \in Number  BY SamplingAssumption DEF Number
    <3> QED BY <3>1, <3>2, StepInv
  <2>2. CASE UNCHANGED vars  BY <2>2 DEF vars, IInv, Recovery
  <2> QED BY <2>1, <2>2
<1> QED BY <1>1, <1>2, PTL DEF Spec

(* The interval never leaves the range of the two configured rates.         *)
THEOREM Bounded == Spec => []IntervalBounded
<1>1. IInv => IntervalBounded  BY DEF IInv, IntervalBounded
<1> QED BY <1>1, InvCorrect, PTL

(* At rest the interval is back at its maximum after a bounded number of    *)
(* ticks: each of them brings it a recovery step closer.                    *)
THEOREM Recovers == Spec => []Recovery
<1>1. IInv => Recovery  BY DEF IInv
<1> QED BY <1>1, InvCorrect, PTL

(* With a positive RateTauMin, which config.validate does not demand, the   *)
(* ticker is never reset to a period that makes it panic.                   *)
THEOREM NoTickerPanic ==
  ASSUME RateTauMin > 0 PROVE Spec => []TickerPeriodPositive
<1>1. IInv => TickerPeriodPositive
  BY ConfigFacts DEF IInv, TickerPeriodPositive
<1> QED BY <1>1, InvCorrect, PTL

-----------------------------------------------------------------------------
(* The collector.  The sample that the next one is compared with is a whole *)
(* one, and no counter of the kernel has fallen behind it unless one went   *)
(* back after it: that is what a row parsed in place must not break.        *)
CPUSamples ==
  /\ kernelCPU \in [work : Nat, rest : Nat]
  /\ kernelCPU.work + kernelCPU.rest < Counters
  /\ cpuStats \in [work : Nat, rest : Nat, total : Nat]
  /\ prevCPU \in [work : Nat, rest : Nat, total : Nat]
  /\ hasPrevCPU \in BOOLEAN /\ wentBack \in BOOLEAN /\ regressed \in BOOLEAN
  /\ hasPrevCPU =>
       /\ prevCPU.total = prevCPU.work + prevCPU.rest
       /\ ~wentBack => /\ prevCPU.work <= kernelCPU.work
                       /\ prevCPU.rest <= kernelCPU.rest
  /\ metricCPU \in Int
  /\ ~regressed => metricCPU \in 0 .. 100 * Percent

MemSamples ==
  /\ kernelMem \in [total : Nat, avail : Nat]
  /\ memStats \in [total : Nat, avail : Nat]
  /\ metricMem \in 0 .. 100 * Percent

CollectorInv ==
  /\ CPUSamples /\ MemSamples
  /\ cpuPct \in Int /\ memPct \in Int

(* What the kernel's counters are after they moved.                         *)
LEMMA KernelStep ==
  ASSUME CPUSamples, NEW d \in CPUDeltas, NEW mem \in MemReadings,
         KernelMoves(d, mem)
  PROVE  /\ kernelCPU' \in [work : Nat, rest : Nat]
         /\ kernelCPU'.work + kernelCPU'.rest < Counters
         /\ ~Backwards(d) => /\ kernelCPU.work <= kernelCPU'.work
                             /\ kernelCPU.rest <= kernelCPU'.rest
         /\ kernelMem' \in [total : Nat, avail : Nat]
<1>1. d \in [work : Int, rest : Int] /\ mem \in [total : Nat, avail : Nat]
  BY CollectorAssumption
<1>2. /\ kernelCPU' = [work |-> kernelCPU.work + d.work,
                       rest |-> kernelCPU.rest + d.rest]
      /\ kernelCPU'.work >= 0 /\ kernelCPU'.rest >= 0
      /\ kernelCPU'.work + kernelCPU'.rest < Counters
      /\ kernelMem' = mem
  BY DEF KernelMoves
<1>3. ~Backwards(d) => d.work >= 0 /\ d.rest >= 0  BY <1>1 DEF Backwards
<1>4. kernelCPU \in [work : Nat, rest : Nat]  BY DEF CPUSamples
<1>5. /\ kernelCPU'.work = kernelCPU.work + d.work
      /\ kernelCPU'.rest = kernelCPU.rest + d.rest
  BY <1>2
<1>6. kernelCPU' \in [work : Nat, rest : Nat]  BY <1>1, <1>2, <1>4
<1>7. ASSUME ~Backwards(d)
      PROVE  /\ kernelCPU.work <= kernelCPU'.work
             /\ kernelCPU.rest <= kernelCPU'.rest
  BY <1>1, <1>3, <1>4, <1>5, <1>7
<1> QED BY <1>1, <1>2, <1>6, <1>7

(* A torn row puts numbers in the struct, a whole one a whole sample.       *)
LEMMA ParseStep ==
  ASSUME CPUSamples, NEW good \in 0 .. 2, NEW row \in [work : Nat, rest : Nat],
         row.work + row.rest < Counters
  PROVE  /\ ParseCPULine(row, good) \in [work : Nat, rest : Nat, total : Nat]
         /\ good = 2 => ParseCPULine(row, good) =
                          [work |-> row.work, rest |-> row.rest,
                           total |-> row.work + row.rest]
<1>1. (row.work + row.rest) % Counters = row.work + row.rest
  BY SmallRemainder, CollectorAssumption
<1>2. cpuStats \in [work : Nat, rest : Nat, total : Nat]  BY DEF CPUSamples
<1>3. CASE good = 0  BY <1>2, <1>3 DEF ParseCPULine
<1>4. CASE good = 1  BY <1>2, <1>4 DEF ParseCPULine
<1>5. CASE good = 2  BY <1>1, <1>5 DEF ParseCPULine
<1> QED BY <1>3, <1>4, <1>5

(* The utilization between two whole samples is a percentage when no        *)
(* counter went back between them, and a number in any case.                *)
LEMMA UsageStep ==
  ASSUME CPUSamples, NEW cur \in [work : Nat, rest : Nat, total : Nat],
         cur.total = cur.work + cur.rest, cur.total < Counters,
         NEW has \in BOOLEAN,
         has => prevCPU.total = prevCPU.work + prevCPU.rest
  PROVE  /\ Usage(prevCPU, cur, has) \in Int
         /\ /\ has /\ cur.total > prevCPU.total
            /\ prevCPU.work <= cur.work /\ prevCPU.rest <= cur.rest
            => Usage(prevCPU, cur, has) \in 0 .. 100 * Percent
<1> DEFINE part  == (cur.work - prevCPU.work) % Counters
           whole == cur.total - prevCPU.total
<1>1. prevCPU \in [work : Nat, rest : Nat, total : Nat] /\ metricCPU \in Int
  BY DEF CPUSamples
<1>2. CASE ~(has /\ cur.total > prevCPU.total)  BY <1>1, <1>2 DEF Usage
<1>3. CASE has /\ cur.total > prevCPU.total
  <2>1. Usage(prevCPU, cur, has) = PercentOf(part, whole)  BY <1>3 DEF Usage
  <2>2. part \in Nat /\ whole \in Nat \ {0}
    BY <1>1, <1>3, CollectorAssumption
  <2>3. PercentOf(part, whole) \in Int
    <3> HIDE DEF part, whole
    <3>1. part * 100 * Percent \in Int  BY <2>2, CollectorAssumption
    <3> QED BY <2>2, <3>1, RoundInt DEF PercentOf
  <2>4. ASSUME prevCPU.work <= cur.work, prevCPU.rest <= cur.rest
        PROVE  PercentOf(part, whole) \in 0 .. 100 * Percent
    <3>1. cur.work - prevCPU.work \in Nat /\ cur.work - prevCPU.work < Counters
      BY <1>1, <2>4, CollectorAssumption
    <3>2. part = cur.work - prevCPU.work
      BY <3>1, SmallRemainder, CollectorAssumption
    <3>3. part <= whole  BY <1>1, <1>3, <2>4, <3>2
    <3> HIDE DEF part, whole
    <3> QED BY <2>2, <3>3, PercentRange
  <2> HIDE DEF part, whole
  <2> QED BY <1>3, <2>1, <2>3, <2>4
<1> QED BY <1>2, <1>3

(* The CPU part of collectUsage.                                            *)
LEMMA CPUStep ==
  ASSUME CPUSamples, NEW d \in CPUDeltas, NEW mem \in MemReadings,
         KernelMoves(d, mem), NEW cpuOk \in BOOLEAN,
         IF cpuOk THEN SampleCPU ELSE CPUFails, RecordBackwards(d, cpuOk)
  PROVE  CPUSamples'
<1> DEFINE back == wentBack \/ Backwards(d)
           anew == cpuOk /\ hasPrevCPU /\ cpuStats'.total > prevCPU.total
<1>1. /\ kernelCPU' \in [work : Nat, rest : Nat]
      /\ kernelCPU'.work + kernelCPU'.rest < Counters
      /\ ~Backwards(d) => /\ kernelCPU.work <= kernelCPU'.work
                          /\ kernelCPU.rest <= kernelCPU'.rest
  BY KernelStep
<1>2. /\ wentBack' = (back /\ ~cpuOk)
      /\ regressed' = IF anew THEN back ELSE regressed
      /\ wentBack' \in BOOLEAN /\ regressed' \in BOOLEAN /\ back \in BOOLEAN
  BY Zenon DEF RecordBackwards, CPUSamples, Backwards
<1>3. /\ kernelCPU \in [work : Nat, rest : Nat]
      /\ prevCPU \in [work : Nat, rest : Nat, total : Nat]
      /\ hasPrevCPU \in BOOLEAN
      /\ hasPrevCPU => /\ prevCPU.total = prevCPU.work + prevCPU.rest
                       /\ ~wentBack => /\ prevCPU.work <= kernelCPU.work
                                       /\ prevCPU.rest <= kernelCPU.rest
      /\ metricCPU \in Int
      /\ ~regressed => metricCPU \in 0 .. 100 * Percent
  BY DEF CPUSamples
<1>4. ASSUME hasPrevCPU, ~back
      PROVE  prevCPU.work <= kernelCPU'.work /\ prevCPU.rest <= kernelCPU'.rest
  BY <1>1, <1>3, <1>4
<1> HIDE DEF back
<1>5. CASE cpuOk
  <2>1. /\ cpuStats' = ParseCPULine(kernelCPU', 2)
        /\ metricCPU' = Usage(prevCPU, cpuStats', hasPrevCPU)
        /\ prevCPU' = cpuStats' /\ hasPrevCPU' = TRUE
    BY <1>5 DEF SampleCPU
  <2>2. PICK cur : cur = cpuStats'  OBVIOUS
  <2>3. PICK row : row = kernelCPU'  OBVIOUS
  <2>4. cur = [work |-> row.work, rest |-> row.rest,
               total |-> row.work + row.rest]
    BY <1>1, <2>1, <2>2, <2>3, ParseStep
  <2>5. /\ cur \in [work : Nat, rest : Nat, total : Nat]
        /\ cur.total = cur.work + cur.rest /\ cur.total < Counters
        /\ cur.work = kernelCPU'.work /\ cur.rest = kernelCPU'.rest
    BY <1>1, <2>3, <2>4
  <2>6. /\ metricCPU' \in Int
        /\ ~regressed' => metricCPU' \in 0 .. 100 * Percent
    <3>1. metricCPU' = Usage(prevCPU, cur, hasPrevCPU)  BY <2>1, <2>2
    <3>2. Usage(prevCPU, cur, hasPrevCPU) \in Int
      BY <1>3, <2>5, UsageStep
    <3>3. ASSUME ~regressed'
          PROVE  Usage(prevCPU, cur, hasPrevCPU) \in 0 .. 100 * Percent
      <4>1. CASE hasPrevCPU /\ cur.total > prevCPU.total
        <5>1. ~back  BY <1>2, <1>5, <2>2, <3>3, <4>1
        <5>2. prevCPU.work <= cur.work /\ prevCPU.rest <= cur.rest
          BY <1>4, <2>5, <4>1, <5>1
        <5> QED BY <1>3, <2>5, <4>1, <5>2, UsageStep
      <4>2. CASE ~(hasPrevCPU /\ cur.total > prevCPU.total)
        <5>1. regressed' = regressed  BY <1>2, <2>2, <4>2
        <5> QED BY <1>3, <3>3, <4>2, <5>1 DEF Usage
      <4> QED BY <4>1, <4>2
    <3> QED BY <3>1, <3>2, <3>3
  <2> QED BY <1>1, <1>2, <2>1, <2>2, <2>5, <2>6 DEF CPUSamples
<1>6. CASE ~cpuOk
  <2>1. cpuStats' \in [work : Nat, rest : Nat, total : Nat]
    <3>1. CASE UNCHANGED cpuStats  BY <3>1 DEF CPUSamples
    <3>2. CASE \E good \in 0 .. 1 : cpuStats' = ParseCPULine(kernelCPU', good)
      <4>1. PICK good \in 0 .. 1 : cpuStats' = ParseCPULine(kernelCPU', good)
        BY <3>2
      <4>2. PICK row : row = kernelCPU'  OBVIOUS
      <4>3. good \in 0 .. 2  OBVIOUS
      <4> QED BY <1>1, <4>1, <4>2, <4>3, ParseStep
    <3> QED BY <1>6, <3>1, <3>2 DEF CPUFails
  <2>2. UNCHANGED <<metricCPU, prevCPU, hasPrevCPU>>  BY <1>6 DEF CPUFails
  <2>3. (hasPrevCPU /\ ~wentBack') => /\ prevCPU.work <= kernelCPU'.work
                                      /\ prevCPU.rest <= kernelCPU'.rest
    BY <1>2, <1>6, <1>4
  <2>4. ~regressed' => metricCPU \in 0 .. 100 * Percent  BY <1>2, <1>3, <1>6
  <2> QED BY <1>1, <1>2, <1>3, <2>1, <2>2, <2>3, <2>4 DEF CPUSamples
<1> QED BY <1>5, <1>6

(* The guard in front of the gauge of the memory makes it a percentage.     *)
LEMMA UseMemStep ==
  ASSUME MemSamples, memStats' \in [total : Nat, avail : Nat], UseMem
  PROVE  metricMem' \in 0 .. 100 * Percent
<1>1. PICK m : m = memStats'  OBVIOUS
<1>2. CASE m.total > 0 /\ m.total >= m.avail
  <2>1. /\ m.total - m.avail \in Nat /\ m.total \in Nat /\ 0 < m.total
        /\ m.total - m.avail <= m.total
    BY <1>1, <1>2
  <2>2. PercentOf(m.total - m.avail, m.total) \in 0 .. 100 * Percent
    BY <2>1, PercentRange
  <2> QED BY <1>1, <1>2, <2>2 DEF UseMem
<1>3. CASE ~(m.total > 0 /\ m.total >= m.avail)
  BY <1>1, <1>3 DEF UseMem, MemSamples
<1> QED BY <1>2, <1>3

LEMMA MemStep ==
  ASSUME MemSamples, kernelMem' \in [total : Nat, avail : Nat],
         SampleMem \/ MemUnreadable \/ MemPartial
  PROVE  MemSamples'
<1>1. memStats \in [total : Nat, avail : Nat]  BY DEF MemSamples
<1>2. CASE SampleMem  BY <1>2, UseMemStep DEF SampleMem, MemSamples
<1>3. CASE MemUnreadable  BY <1>3 DEF MemUnreadable, MemSamples
<1>4. CASE MemPartial
  <2>1. memStats' \in [total : Nat, avail : Nat]  BY <1>1, <1>4 DEF MemPartial
  <2> QED BY <1>4, <2>1, UseMemStep DEF MemPartial, MemSamples
<1> QED BY <1>2, <1>3, <1>4

LEMMA CollectStep == CollectorInv /\ CollectUsage => CollectorInv'
<1> SUFFICES ASSUME CollectorInv, CollectUsage PROVE CollectorInv'  OBVIOUS
<1>1. PICK d \in CPUDeltas, mem \in MemReadings :
        /\ KernelMoves(d, mem)
        /\ \E cpuOk, memOk \in BOOLEAN :
             /\ IF cpuOk THEN SampleCPU ELSE CPUFails
             /\ IF memOk THEN SampleMem ELSE MemUnreadable \/ MemPartial
             /\ RecordBackwards(d, cpuOk)
  BY DEF CollectUsage
<1>2. PICK cpuOk, memOk \in BOOLEAN :
        /\ IF cpuOk THEN SampleCPU ELSE CPUFails
        /\ IF memOk THEN SampleMem ELSE MemUnreadable \/ MemPartial
        /\ RecordBackwards(d, cpuOk)
  BY <1>1
<1>3. SampleMem \/ MemUnreadable \/ MemPartial  BY <1>2
<1>4. CPUSamples'  BY <1>1, <1>2, CPUStep DEF CollectorInv
<1>5. kernelMem' \in [total : Nat, avail : Nat]
  BY <1>1, KernelStep DEF CollectorInv
<1>6. MemSamples'  BY <1>3, <1>5, MemStep DEF CollectorInv
<1>7. cpuPct' \in Int /\ memPct' \in Int
  <2>1. metricCPU' \in Int /\ metricMem' \in Int
    BY <1>4, <1>6, CollectorAssumption DEF CPUSamples, MemSamples
  <2>2. /\ cpuPct' \in {metricCPU', metricCPU' + 90 * Percent}
        /\ memPct' \in {metricMem', metricMem' + 90 * Percent}
    BY DEF CollectUsage, Spiked
  <2> QED BY <2>1, <2>2, CollectorAssumption
<1> QED BY <1>4, <1>6, <1>7 DEF CollectorInv

-----------------------------------------------------------------------------
(* The detector: finite observations make finite baselines, a score and a   *)
(* drift index that are numbers.                                            *)
DetectorTyped ==
  /\ det.n \in Nat
  /\ \A s \in {det.cpu, det.mem} : s.mean \in Int /\ s.slow \in Int
  /\ det.zscore \in Number /\ det.driftIndex \in Number

LEMMA SqrtNat == ASSUME NEW a, NEW most \in Int PROVE Sqrt(a, most) \in Nat
<1> DEFINE roots == {r \in 1 .. most : r * r <= a}
<1>1. IsFiniteSet(1 .. most)  BY FS_Interval
<1>2. IsFiniteSet(roots)  BY <1>1, FS_Subset
<1>3. Cardinality(roots) \in Nat
  <2> HIDE DEF roots
  <2> QED BY <1>2, FS_CardinalityType
<1> QED BY <1>3 DEF Sqrt

LEMMA StatsStep ==
  ASSUME NEW s, s.mean \in Int, s.slow \in Int, NEW x \in Int
  PROVE  /\ StatsUpdate(s, x).mean \in Int
         /\ StatsUpdate(s, x).slow \in Int
<1>1. x - s.mean \in Int /\ x + (alphaSlowInv - 1) * s.slow \in Int
  BY DetectorAssumption
<1>2. Round(x - s.mean, alphaInv) \in Int
  BY <1>1, RoundInt, DetectorAssumption
<1>3. Round(x + (alphaSlowInv - 1) * s.slow, alphaSlowInv) \in Int
  BY <1>1, RoundInt, DetectorAssumption
<1>4. StatsUpdate(s, x).mean =
        IF s.count = 0 THEN x ELSE s.mean + Round(x - s.mean, alphaInv)
  BY DEF StatsUpdate
<1>5. StatsUpdate(s, x).slow =
        IF s.count = 0 THEN x
        ELSE Round(x + (alphaSlowInv - 1) * s.slow, alphaSlowInv)
  BY DEF StatsUpdate, EWMAUpdate
<1> QED BY <1>2, <1>3, <1>4, <1>5

LEMMA DriftInt ==
  ASSUME NEW s, s.mean \in Int, s.slow \in Int PROVE Drift(s) \in Int
<1>1. 1000 * Abs(s.mean - s.slow) \in Int  BY DEF Abs
<1>2. Larger(One, Abs(s.slow)) \in Nat \ {0}
  BY DetectorAssumption DEF Larger, Abs
<1> QED BY <1>1, <1>2, QuotientInt DEF Drift

(* An observation that is finite is counted and leaves numbers behind.      *)
LEMMA ObservedTyped ==
  ASSUME NEW d, d.n \in Nat,
         \A s \in {d.cpu, d.mem} : s.mean \in Int /\ s.slow \in Int,
         NEW cpu \in Int, NEW mem \in Int
  PROVE  LET o == Observed(d, cpu, mem)
         IN  /\ o.n = d.n + 1
             /\ \A s \in {o.cpu, o.mem} : s.mean \in Int /\ s.slow \in Int
             /\ o.zscore \in Int /\ o.driftIndex \in Int
<1> DEFINE o == Observed(d, cpu, mem)
<1>1. /\ o.n = d.n + 1
      /\ o.cpu = StatsUpdate(d.cpu, cpu) /\ o.mem = StatsUpdate(d.mem, mem)
      /\ o.zscore = IF o.n > minSamples THEN ZComposite(d, cpu, mem) ELSE 0
      /\ o.driftIndex = Larger(Drift(o.cpu), Drift(o.mem))
  BY DEF Observed
<1> HIDE DEF o
<1>2. \A s \in {o.cpu, o.mem} : s.mean \in Int /\ s.slow \in Int
  BY <1>1, StatsStep
<1>3. ZComposite(d, cpu, mem) \in Nat
  <2>1. 2 * MaxScore * Sigma \in Int  BY DetectorAssumption
  <2> QED BY <2>1, SqrtNat DEF ZComposite
<1>4. Drift(o.cpu) \in Int /\ Drift(o.mem) \in Int  BY <1>2, DriftInt
<1>5. o.zscore \in Int /\ o.driftIndex \in Int
  BY <1>1, <1>3, <1>4 DEF Larger
<1> QED BY <1>1, <1>2, <1>5 DEF o

LEMMA UpdateStep ==
  ASSUME DetectorTyped, cpuPct' \in Int, memPct' \in Int,
         Update(cpuPct', memPct')
  PROVE  DetectorTyped' /\ det'.n = det.n + 1
<1>1. PICK cpu, mem : cpu = cpuPct' /\ mem = memPct'  OBVIOUS
<1>2. det' = Observed(det, cpu, mem)
  BY <1>1, FloatAssumption DEF Update, IsFinite
<1>3. PICK d : d = det  OBVIOUS
<1>4. LET o == Observed(d, cpu, mem)
      IN  /\ o.n = d.n + 1
          /\ \A s \in {o.cpu, o.mem} : s.mean \in Int /\ s.slow \in Int
          /\ o.zscore \in Int /\ o.driftIndex \in Int
  BY <1>1, <1>3, ObservedTyped DEF DetectorTyped
<1> QED BY <1>2, <1>3, <1>4 DEF DetectorTyped, Number

-----------------------------------------------------------------------------
(* The loop: what its parts keep of each other.  Every observation of the   *)
(* collector is finite, so the detector counts every tick and reports       *)
(* numbers, which the sampling controller turns into an interval.           *)
LoopInv ==
  /\ IInv /\ CollectorInv /\ DetectorTyped
  /\ FedEveryTick

LEMMA LoopTickInv == LoopInv /\ SensingTick => LoopInv' /\ Gradual
<1> SUFFICES ASSUME LoopInv, SensingTick PROVE LoopInv' /\ Gradual  OBVIOUS
<1>1. /\ CollectUsage
      /\ Update(cpuPct', memPct')
      /\ Tick(det'.zscore, det'.driftIndex)
  BY DEF SensingTick
<1>2. CollectorInv'  BY <1>1, CollectStep DEF LoopInv
<1>3. DetectorTyped' /\ det'.n = det.n + 1
  BY <1>1, <1>2, UpdateStep DEF LoopInv, CollectorInv
<1>4. PICK z, d : z = det'.zscore /\ d = det'.driftIndex  OBVIOUS
<1>5. z \in Number /\ d \in Number  BY <1>3, <1>4 DEF DetectorTyped
<1>6. IInv' /\ Gradual  BY <1>1, <1>4, <1>5, StepInv DEF LoopInv
<1>7. FedEveryTick'  BY <1>1, <1>3 DEF Tick, LoopInv, FedEveryTick
<1> QED BY <1>2, <1>3, <1>6, <1>7 DEF LoopInv

LEMMA LoopInjectInv == LoopInv /\ InjectAnomaly => LoopInv'
<1> SUFFICES ASSUME LoopInv, InjectAnomaly PROVE LoopInv'  OBVIOUS
<1>1. UNCHANGED <<dvars, vars>> /\ Inject  BY DEF InjectAnomaly
<1>2. IInv'  BY <1>1 DEF LoopInv, IInv, Recovery, vars
<1>3. CollectorInv'
  <2>1. CPUSamples'
    BY <1>1 DEF LoopInv, CollectorInv, CPUSamples, Inject, scratch, gauges
  <2>2. MemSamples'
    BY <1>1 DEF LoopInv, CollectorInv, MemSamples, Inject, scratch, gauges
  <2> QED BY <1>1, <2>1, <2>2 DEF LoopInv, CollectorInv, Inject
<1>4. DetectorTyped'  BY <1>1 DEF LoopInv, DetectorTyped, dvars
<1>5. FedEveryTick'  BY <1>1 DEF LoopInv, FedEveryTick, dvars, vars
<1> QED BY <1>2, <1>3, <1>4, <1>5 DEF LoopInv

LEMMA LoopStutterInv == LoopInv /\ UNCHANGED lvars => LoopInv'
BY DEF LoopInv, lvars, cvars, dvars, vars, scratch, gauges, IInv, Recovery,
       CollectorInv, CPUSamples, MemSamples, DetectorTyped, FedEveryTick

LEMMA LoopInit == LInit => LoopInv
<1> SUFFICES ASSUME LInit PROVE LoopInv  OBVIOUS
<1>1. IInv
  <2>1. calm * TauRecoveryStep = 0  BY SamplingAssumption DEF LInit, Init
  <2> QED BY <2>1, ConfigFacts DEF LInit, Init, IInv, Recovery, Smaller
<1>2. 100 * Percent \in Nat  BY CollectorAssumption
<1>3. CollectorInv
  <2>1. CInit  BY DEF LInit
  <2>2. CPUSamples
    <3>1. /\ kernelCPU = [work |-> 0, rest |-> 0] /\ 0 < Counters
          /\ cpuStats = [work |-> 0, rest |-> 0, total |-> 0]
          /\ prevCPU = cpuStats /\ hasPrevCPU = FALSE
          /\ wentBack = FALSE /\ regressed = FALSE
          /\ metricCPU = 0
      BY <2>1, CollectorAssumption DEF CInit
    <3>2. metricCPU \in 0 .. 100 * Percent  BY <1>2, <3>1
    <3>3. /\ kernelCPU \in [work : Nat, rest : Nat]
          /\ kernelCPU.work + kernelCPU.rest < Counters
          /\ cpuStats \in [work : Nat, rest : Nat, total : Nat]
      BY <3>1
    <3>4. /\ wentBack \in BOOLEAN /\ regressed \in BOOLEAN
          /\ hasPrevCPU \in BOOLEAN /\ ~hasPrevCPU
      BY <3>1
    <3>5. prevCPU \in [work : Nat, rest : Nat, total : Nat] /\ metricCPU \in Int
      BY <3>1, <3>3
    <3> QED BY <3>2, <3>3, <3>4, <3>5 DEF CPUSamples
  <2>3. MemSamples  BY <1>2, <2>1 DEF CInit, MemSamples
  <2> QED BY <2>1, <2>2, <2>3 DEF CInit, CollectorInv
<1>4. DetectorTyped  BY DEF LInit, DInit, DetectorTyped, NoStats, Number
<1>5. FedEveryTick  BY DEF LInit, DInit, Init, FedEveryTick
<1> QED BY <1>1, <1>3, <1>4, <1>5 DEF LoopInv

LEMMA LoopCorrect == LSpec => []LoopInv
<1>1. LoopInv /\ [LNext]_lvars => LoopInv'
  BY LoopTickInv, LoopInjectInv, LoopStutterInv DEF LNext
<1> QED BY <1>1, LoopInit, PTL DEF LSpec

(* No tick acts on the score or the drift of an earlier one: whatever reads *)
(* fail, break off or show counters that stand still, both observations are *)
(* finite, and the detector takes them.                                     *)
THEOREM FedCorrect == LSpec => []FedEveryTick
<1>1. LoopInv => FedEveryTick  BY DEF LoopInv
<1> QED BY <1>1, LoopCorrect, PTL

(* The gauges show percentages, also from one sample to another between     *)
(* which rows were torn, unless a counter of the kernel went back between   *)
(* the two.                                                                 *)
THEOREM UsageCorrect == LSpec => []UsageInRange
<1>1. LoopInv => UsageInRange
  BY DEF LoopInv, CollectorInv, CPUSamples, MemSamples, UsageInRange
<1> QED BY <1>1, LoopCorrect, PTL

(* In the loop the interval stays between the configured rates ...          *)
THEOREM LoopBounded == LSpec => []IntervalBounded
<1>1. LoopInv => IntervalBounded  BY DEF LoopInv, IInv, IntervalBounded
<1> QED BY <1>1, LoopCorrect, PTL

(* ... and does not chatter: it grows by a recovery step a tick at most.    *)
THEOREM LoopCalm == LSpec => NoChattering
<1>1. LoopInv /\ [LNext]_lvars => [Gradual]_vars
  <2> SUFFICES ASSUME LoopInv, [LNext]_lvars PROVE [Gradual]_vars  OBVIOUS
  <2>1. CASE SensingTick  BY <2>1, LoopTickInv
  <2>2. CASE InjectAnomaly  BY <2>2 DEF InjectAnomaly
  <2>3. CASE UNCHANGED lvars  BY <2>3 DEF lvars
  <2> QED BY <2>1, <2>2, <2>3 DEF LNext
<1>2. LSpec => [][Gradual]_vars  BY <1>1, LoopCorrect, PTL DEF LSpec
<1> QED BY <1>2 DEF NoChattering, Gradual

-----------------------------------------------------------------------------
(* Saturation.  A tick that knows of too little memory is an anomaly by     *)
(* itself, so the run of them is no longer than the suppressor's, which     *)
(* outside of Normal has an alert; MemAvailable and MemTotal survive a read *)
(* that fails.                                                              *)
SaturationInv ==
  /\ now \in Nat /\ starved \in Nat /\ consecutiveAnoms \in Nat
  /\ lastAlertTime \in Nat \cup {Never}
  /\ starved <= consecutiveAnoms
  /\ state = "Normal" => consecutiveAnoms < MinConsecutiveAnomalies
  /\ state # "Normal" => lastAlertTime # Never
  /\ lowMem \in BOOLEAN
  /\ lowMem => Saturated(memStats)
  /\ SaturationAlerts

(* A tick that knows of too little memory reports an anomaly.               *)
LEMMA LowMemStep ==
  ASSUME SaturationInv, CollectUsage, Record
  PROVE  lowMem' \in BOOLEAN /\ (lowMem' => Saturated(memStats'))
<1>1. SampleMem \/ MemUnreadable \/ MemPartial  BY DEF CollectUsage
<1>2. CASE SampleMem
  <2>1. memStats' = kernelMem' /\ memRead' = "whole"  BY <1>2 DEF SampleMem
  <2>2. lowMem' = Saturated(kernelMem')  BY <2>1 DEF Record
  <2> QED BY <2>1, <2>2 DEF Saturated
<1>3. CASE MemUnreadable
  <2>1. memStats' = memStats /\ memRead' = "none"  BY <1>3 DEF MemUnreadable
  <2>2. lowMem' = lowMem  BY <2>1 DEF Record
  <2> QED BY <2>1, <2>2 DEF SaturationInv
<1>4. CASE MemPartial
  <2>1. memRead' = "partial"  BY <1>4 DEF MemPartial
  <2>2. lowMem' = FALSE  BY <2>1 DEF Record
  <2> QED BY <2>2
<1> QED BY <1>1, <1>2, <1>3, <1>4

(* The three ends of an anomaly: it alerts, counts towards an alert, or is  *)
(* suppressed within the holdoff of the last one.                           *)
AlertNow == state' = "Alerting" /\ lastAlertTime' = now'
Counted  == /\ state' = "Normal" /\ lastAlertTime' = lastAlertTime
            /\ consecutiveAnoms' < MinConsecutiveAnomalies
HeldOff  == /\ state # "Normal" /\ state' = "Suppressed"
            /\ lastAlertTime' = lastAlertTime
            /\ lastAlertTime # Never =>
                 ~(now' - lastAlertTime >= HoldoffDuration)

LEMMA AnomalyEnds ==
  ASSUME ProcessAnomaly(now')
  PROVE  /\ consecutiveAnoms' = consecutiveAnoms + 1
         /\ AlertNow \/ Counted \/ HeldOff
<1>1. consecutiveAnoms' = consecutiveAnoms + 1  BY DEF ProcessAnomaly
<1>2. FireAlert(now') => AlertNow  BY DEF FireAlert, AlertNow
<1>3. AnomalyWhenNormal(now') => AlertNow \/ Counted
  BY <1>2 DEF AnomalyWhenNormal, Quiet, Counted
<1>4. AnomalyWhenActive(now') => AlertNow \/ HeldOff
  BY <1>2 DEF AnomalyWhenActive, Quiet, HeldOff, HoldoffOver
<1> QED BY <1>1, <1>3, <1>4 DEF ProcessAnomaly

LEMMA WithinHoldoff ==
  ASSUME NEW t \in Nat, NEW last \in Nat,
         t = last \/ ~(t - last >= HoldoffDuration)
  PROVE  t - last <= HoldoffDuration
BY SuppressorAssumption

LEMMA AnomalyStep ==
  ASSUME SaturationInv, now' \in Nat, starved' \in Nat,
         starved' <= starved + 1,
         consecutiveAnoms' = consecutiveAnoms + 1,
         AlertNow \/ Counted \/ HeldOff
  PROVE  /\ consecutiveAnoms' \in Nat /\ starved' <= consecutiveAnoms'
         /\ lastAlertTime' \in Nat \cup {Never}
         /\ state' = "Normal" => consecutiveAnoms' < MinConsecutiveAnomalies
         /\ state' # "Normal" => lastAlertTime' # Never
         /\ SaturationAlerts'
<1>1. consecutiveAnoms' \in Nat /\ starved' <= consecutiveAnoms'
  BY DEF SaturationInv
<1>2. /\ lastAlertTime \in Nat \cup {Never}
      /\ state # "Normal" => lastAlertTime # Never
  BY DEF SaturationInv
<1>3. CASE AlertNow
  <2>1. lastAlertTime' \in Nat /\ lastAlertTime' # Never
    BY <1>3, SuppressorAssumption DEF AlertNow
  <2>2. AlertOut'  BY <1>3, <2>1, WithinHoldoff DEF AlertNow, AlertOut
  <2> QED BY <1>1, <1>3, <2>1, <2>2 DEF AlertNow, SaturationAlerts
<1>4. CASE Counted
  <2>1. ~(starved' >= MinConsecutiveAnomalies)
    BY <1>1, <1>4, SuppressorAssumption DEF Counted
  <2> QED BY <1>1, <1>2, <1>4, <2>1 DEF Counted, SaturationAlerts
<1>5. CASE HeldOff
  <2>1. lastAlertTime' = lastAlertTime /\ lastAlertTime # Never
    BY <1>2, <1>5 DEF HeldOff
  <2>2. now' - lastAlertTime <= HoldoffDuration
    BY <1>2, <1>5, <2>1, WithinHoldoff DEF HeldOff
  <2>3. AlertOut'  BY <2>1, <2>2 DEF AlertOut
  <2> QED BY <1>1, <1>2, <1>5, <2>1, <2>3 DEF HeldOff, SaturationAlerts
<1> QED BY <1>3, <1>4, <1>5

LEMMA SaturationTickInv ==
  ASSUME RateTauMin \in Nat, LoopInv, SaturationInv, SensingTick
  PROVE  SaturationInv'
<1>1. CollectUsage /\ Record /\ Process(IsAnom, period)  BY DEF SensingTick
<1>2. lowMem' \in BOOLEAN /\ (lowMem' => Saturated(memStats'))
  BY <1>1, LowMemStep
<1>3. starved' = IF lowMem' THEN starved + 1 ELSE 0  BY <1>1 DEF Record
<1>4. starved' \in Nat /\ starved' <= starved + 1
  BY <1>3 DEF SaturationInv
<1>5. now' \in Nat
  <2>1. period \in Nat  BY ConfigFacts DEF LoopInv, IInv
  <2> QED BY <1>1, <2>1 DEF Process, SaturationInv
<1>6. CASE IsAnom
  <2>1. ProcessAnomaly(now')  BY <1>1, <1>6 DEF Process
  <2> QED BY <1>2, <1>4, <1>5, <2>1, AnomalyEnds, AnomalyStep DEF SaturationInv
<1>7. CASE ~IsAnom
  <2>1. ProcessNormal  BY <1>1, <1>7 DEF Process
  <2>2. starved' = 0  BY <1>2, <1>3, <1>7 DEF IsAnom
  <2>3. SaturationAlerts'
    BY <2>2, SuppressorAssumption DEF SaturationAlerts
  <2> QED BY <1>2, <1>5, <2>1, <2>2, <2>3, SuppressorAssumption
          DEF SaturationInv, ProcessNormal, Quiet
<1> QED BY <1>6, <1>7

LEMMA SaturationCalmInv ==
  ASSUME SaturationInv, UNCHANGED <<svars, loopHistory, memStats>>
  PROVE  SaturationInv'
BY DEF SaturationInv, svars, machine, loopHistory, SaturationAlerts, AlertOut,
       Saturated

LEMMA SaturationKept ==
  ASSUME RateTauMin \in Nat PROVE LSpec => []SaturationInv
<1>1. LInit => SaturationInv
  <2> SUFFICES ASSUME LInit PROVE SaturationInv  OBVIOUS
  <2>1. /\ now = 0 /\ starved = 0 /\ consecutiveAnoms = 0
        /\ lastAlertTime = Never /\ state = "Normal" /\ lowMem = FALSE
    BY DEF LInit, SInit
  <2>2. ~(0 >= MinConsecutiveAnomalies) /\ 0 < MinConsecutiveAnomalies
    BY SuppressorAssumption
  <2>3. SaturationAlerts  BY <2>1, <2>2 DEF SaturationAlerts
  <2>4. /\ now \in Nat /\ starved \in Nat /\ consecutiveAnoms \in Nat
        /\ starved <= consecutiveAnoms
        /\ consecutiveAnoms < MinConsecutiveAnomalies
    BY <2>1, <2>2
  <2>5. /\ lastAlertTime \in Nat \cup {Never} /\ state = "Normal"
        /\ lowMem \in BOOLEAN /\ ~lowMem
    BY <2>1
  <2> QED BY <2>3, <2>4, <2>5 DEF SaturationInv
<1>2. LoopInv /\ SaturationInv /\ [LNext]_lvars => SaturationInv'
  <2> SUFFICES ASSUME LoopInv, SaturationInv, [LNext]_lvars
               PROVE  SaturationInv'
    OBVIOUS
  <2>1. CASE SensingTick  BY <2>1, SaturationTickInv
  <2>2. CASE InjectAnomaly
    <3>1. UNCHANGED <<svars, loopHistory, memStats>>
      BY <2>2 DEF InjectAnomaly, Inject, scratch
    <3> QED BY <3>1, SaturationCalmInv
  <2>3. CASE UNCHANGED lvars
    <3>1. UNCHANGED <<svars, loopHistory, memStats>>
      BY <2>3 DEF lvars, cvars, scratch
    <3> QED BY <3>1, SaturationCalmInv
  <2> QED BY <2>1, <2>2, <2>3 DEF LNext
<1> QED BY <1>1, <1>2, LoopCorrect, PTL DEF LSpec

(* Memory below the floor keeps an alert out for as long as it lasts, for   *)
(* every holdoff and threshold, if time does not run backwards.             *)
THEOREM SaturationCorrect ==
  ASSUME RateTauMin \in Nat PROVE LSpec => []SaturationAlerts
<1>1. SaturationInv => SaturationAlerts  BY DEF SaturationInv
<1> QED BY <1>1, SaturationKept, PTL

-----------------------------------------------------------------------------
(* The baselines.  A mean that is weighted and rounded stays between bounds *)
(* of what it averages; the squares of the deviations are bounded by that   *)
(* of the range.                                                            *)
LEMMA FactorMonotone ==
  ASSUME NEW a \in Int, NEW b \in Int, NEW c \in Nat, a <= b
  PROVE  c * a <= c * b
OBVIOUS

LEMMA QuotientBetween ==
  ASSUME NEW a \in Int, NEW b \in Nat \ {0}, NEW lo \in Int, NEW hi \in Int,
         b * lo <= a, a < b * hi + b
  PROVE  a \div b \in lo .. hi
<1> DEFINE q == a \div b
<1>1. q \in Int /\ b * q <= a /\ a < b * q + b  OBVIOUS
<1> HIDE DEF q
<1>2. q >= lo
  <2> SUFFICES ASSUME q + 1 <= lo PROVE FALSE  BY <1>1
  <2>1. b * (q + 1) <= b * lo  BY <1>1, FactorMonotone
  <2> QED BY <1>1, <2>1
<1>3. q <= hi
  <2> SUFFICES ASSUME hi + 1 <= q PROVE FALSE  BY <1>1
  <2>1. b * (hi + 1) <= b * q  BY <1>1, FactorMonotone
  <2> QED BY <1>1, <2>1
<1>4. q \in lo .. hi  BY <1>1, <1>2, <1>3
<1> QED BY <1>4 DEF q

LEMMA RoundBetween ==
  ASSUME NEW v \in Int, NEW b \in Nat \ {0}, NEW lo \in Int, NEW hi \in Int,
         b * lo <= v, v <= b * hi
  PROVE  Round(v, b) \in lo .. hi
<1>1. /\ b * lo \in Int /\ b * hi \in Int
      /\ (2 * b) * lo = 2 * (b * lo) /\ (2 * b) * hi = 2 * (b * hi)
  OBVIOUS
<1>2. 2 * v + b \in Int /\ 2 * b \in Nat \ {0}  OBVIOUS
<1>3. (2 * b) * lo <= 2 * v + b /\ 2 * v + b < (2 * b) * hi + 2 * b
  BY <1>1
<1>4. (2 * v + b) \div (2 * b) \in lo .. hi
  BY <1>2, <1>3, QuotientBetween
<1> QED BY <1>4 DEF Round

(* The next mean, slow mean and variance, of an observation x in lo .. hi.  *)
LEMMA WeightedBetween ==
  ASSUME NEW b \in Nat \ {0}, NEW lo \in Int, NEW hi \in Int,
         NEW x \in lo .. hi, NEW y \in lo .. hi
  PROVE  Round(x + (b - 1) * y, b) \in lo .. hi
<1>1. /\ (b - 1) * lo <= (b - 1) * y /\ (b - 1) * y <= (b - 1) * hi
      /\ (b - 1) * lo = b * lo - lo /\ (b - 1) * hi = b * hi - hi
  <2>1. b - 1 \in Nat  OBVIOUS
  <2> QED BY <2>1, FactorMonotone
<1>2. /\ (b - 1) * y \in Int /\ b * lo \in Int /\ b * hi \in Int  OBVIOUS
<1>3. b * lo <= x + (b - 1) * y /\ x + (b - 1) * y <= b * hi
  BY <1>1, <1>2
<1>4. x + (b - 1) * y \in Int  BY <1>2
<1> QED BY <1>3, <1>4, RoundBetween

LEMMA MovedBetween ==
  ASSUME NEW b \in Nat \ {0}, NEW lo \in Int, NEW hi \in Int,
         NEW x \in lo .. hi, NEW y \in lo .. hi
  PROVE  y + Round(x - y, b) \in lo .. hi
<1>1. b * (lo - y) <= lo - y
  <2>1. (y - lo) \in Nat /\ 1 <= b  OBVIOUS
  <2>2. 1 * (y - lo) <= b * (y - lo)  BY <2>1, ProductMonotone
  <2> QED BY <2>1, <2>2
<1>2. hi - y <= b * (hi - y)
  <2>1. (hi - y) \in Nat /\ 1 <= b  OBVIOUS
  <2>2. 1 * (hi - y) <= b * (hi - y)  BY <2>1, ProductMonotone
  <2> QED BY <2>1, <2>2
<1>3. b * (lo - y) \in Int /\ b * (hi - y) \in Int  OBVIOUS
<1>4. b * (lo - y) <= x - y /\ x - y <= b * (hi - y)  BY <1>1, <1>2, <1>3
<1>5. PICK v \in Int, p \in Int, q \in Int :
        v = x - y /\ p = lo - y /\ q = hi - y
  OBVIOUS
<1>6. b * p <= v /\ v <= b * q  BY <1>4, <1>5
<1>7. Round(v, b) \in p .. q  BY <1>6, RoundBetween
<1>8. Round(x - y, b) \in p .. q  BY <1>5, <1>7
<1> QED BY <1>5, <1>8

LEMMA SquareMonotone ==
  ASSUME NEW a \in Int, NEW r \in Nat, -r <= a, a <= r
  PROVE  a * a \in Nat /\ a * a <= r * r
<1>1. CASE a >= 0
  <2>1. a * a <= r * a /\ a * r <= r * r  BY <1>1, ProductMonotone
  <2> QED BY <1>1, <2>1
<1>2. CASE a < 0
  <2>1. PICK c \in Nat : c = -a  BY <1>2
  <2>2. c * c <= r * c /\ c * r <= r * r  BY <2>1, ProductMonotone
  <2>3. c * c = a * a  BY <2>1
  <2> QED BY <2>1, <2>2, <2>3
<1> QED BY <1>1, <1>2

(* The statistics s stand for observations in the range r.                  *)
InRange(s, r) ==
  /\ r.lo \in Int /\ r.hi \in Int
  /\ s.mean \in r.lo .. r.hi /\ s.slow \in r.lo .. r.hi
  /\ s.vr \in Nat /\ s.vr <= (r.hi - r.lo) * (r.hi - r.lo)

LEMMA StatsInRange ==
  ASSUME NEW s, NEW r, InRange(s, r), s.count # 0, NEW x \in Int
  PROVE  InRange(StatsUpdate(s, x),
                 [lo |-> Smaller(r.lo, x), hi |-> Larger(r.hi, x)])
<1> DEFINE lo == Smaller(r.lo, x)
           hi == Larger(r.hi, x)
           u  == StatsUpdate(s, x)
           d  == x - s.mean
           w  == hi - lo
<1>1. /\ r.lo \in Int /\ r.hi \in Int
      /\ s.mean \in r.lo .. r.hi /\ s.slow \in r.lo .. r.hi
      /\ s.vr \in Nat /\ s.vr <= (r.hi - r.lo) * (r.hi - r.lo)
  BY DEF InRange
<1>2. /\ lo \in Int /\ hi \in Int /\ x \in lo .. hi
      /\ s.mean \in lo .. hi /\ s.slow \in lo .. hi
      /\ r.hi - r.lo \in Nat /\ r.hi - r.lo <= w
  BY <1>1 DEF Smaller, Larger
<1>3. alphaInv \in Nat \ {0} /\ alphaSlowInv \in Nat \ {0}
  BY DetectorAssumption
<1>4. /\ u.mean = s.mean + Round(d, alphaInv)
      /\ u.vr = Round((alphaInv - 1) * s.vr + d * d, alphaInv)
      /\ u.slow = Round(x + (alphaSlowInv - 1) * s.slow, alphaSlowInv)
  BY DEF StatsUpdate, EWMAUpdate
<1>5. w \in Nat /\ d \in Int /\ -w <= d /\ d <= w  BY <1>1, <1>2
<1> HIDE DEF lo, hi, u
<1>6. u.mean \in lo .. hi  BY <1>2, <1>3, <1>4, MovedBetween
<1>7. u.slow \in lo .. hi  BY <1>2, <1>3, <1>4, WeightedBetween
<1> HIDE DEF d
<1>8. u.vr \in 0 .. w * w
  <2> HIDE DEF w
  <2>1. d * d \in Nat /\ d * d <= w * w  BY <1>5, SquareMonotone
  <2>2. (r.hi - r.lo) * (r.hi - r.lo) <= w * w
    <3>1. PICK v \in Nat : v = r.hi - r.lo  BY <1>2
    <3>2. -w <= v /\ v <= w  BY <1>2, <1>5, <3>1
    <3>3. v * v <= w * w  BY <1>5, <3>2, SquareMonotone
    <3> QED BY <3>1, <3>3
  <2>3. w * w \in Nat  BY <1>5, ProductNat
  <2>4. s.vr \in 0 .. w * w
    <3>1. (r.hi - r.lo) * (r.hi - r.lo) \in Nat  BY <1>2, ProductNat
    <3> QED BY <1>1, <2>2, <2>3, <3>1
  <2>5. d * d \in 0 .. w * w  BY <2>1, <2>3
  <2>6. Round(d * d + (alphaInv - 1) * s.vr, alphaInv) \in 0 .. w * w
    <3>1. PICK q \in Int, e \in Int, v \in Int :
             q = w * w /\ e = d * d /\ v = s.vr
      BY <1>1, <2>1, <2>3
    <3>2. 0 \in Int /\ e \in 0 .. q /\ v \in 0 .. q  BY <2>4, <2>5, <3>1
    <3>3. Round(e + (alphaInv - 1) * v, alphaInv) \in 0 .. q
      BY <1>3, <3>2, WeightedBetween, Zenon
    <3> QED BY <3>1, <3>3
  <2>7. (alphaInv - 1) * s.vr + d * d = d * d + (alphaInv - 1) * s.vr
    BY <1>1, <1>3, <1>5
  <2> QED BY <1>4, <2>6, <2>7
<1>9. InRange(u, [lo |-> lo, hi |-> hi])
  <2>1. u.vr \in Nat /\ u.vr <= w * w
    <3> HIDE DEF w
    <3> QED BY <1>5, <1>8
  <2> QED BY <1>2, <1>6, <1>7, <2>1 DEF InRange
<1> QED BY <1>9 DEF lo, hi, u

LEMMA FirstInRange ==
  ASSUME NEW s, s.count = 0, NEW x \in Int
  PROVE  InRange(StatsUpdate(s, x), [lo |-> x, hi |-> x])
<1>1. /\ StatsUpdate(s, x).mean = x /\ StatsUpdate(s, x).slow = x
      /\ StatsUpdate(s, x).vr = 0
  BY DEF StatsUpdate, EWMAUpdate
<1> QED BY <1>1 DEF InRange

(* Both metrics are counted with the detector's observations.               *)
BaselineInv ==
  /\ det.cpu.count = det.n /\ det.mem.count = det.n
  /\ det.n > 0 => InRange(det.cpu, seen.cpu) /\ InRange(det.mem, seen.mem)

LEMMA BaselineTickInv == LoopInv /\ BaselineInv /\ SensingTick => BaselineInv'
<1> SUFFICES ASSUME LoopInv, BaselineInv, SensingTick PROVE BaselineInv'
  OBVIOUS
<1>1. CollectUsage /\ Update(cpuPct', memPct') /\ Record  BY DEF SensingTick
<1>2. cpuPct' \in Int /\ memPct' \in Int
  BY <1>1, CollectStep DEF LoopInv, CollectorInv
<1>3. PICK cpu \in Int, mem \in Int : cpu = cpuPct' /\ mem = memPct'
  BY <1>2
<1>4. IsFinite(cpu) /\ IsFinite(mem)  BY FloatAssumption DEF IsFinite
<1>5. det' = Observed(det, cpu, mem)  BY <1>1, <1>3, <1>4 DEF Update
<1>6. /\ det'.n = det.n + 1
      /\ det'.cpu = StatsUpdate(det.cpu, cpu)
      /\ det'.mem = StatsUpdate(det.mem, mem)
  BY <1>5 DEF Observed
<1>7. det.n \in Nat  BY DEF LoopInv, DetectorTyped
<1>8. /\ det'.cpu.count = det.cpu.count + 1
      /\ det'.mem.count = det.mem.count + 1
  BY <1>6 DEF StatsUpdate
<1>9. /\ seen'.cpu = Widened(seen.cpu, cpu)
      /\ seen'.mem = Widened(seen.mem, mem)
  BY <1>1, <1>3 DEF Record
<1>10. InRange(det'.cpu, seen'.cpu) /\ InRange(det'.mem, seen'.mem)
  <2>1. CASE det.n = 0
    <3>1. det.cpu.count = 0 /\ det.mem.count = 0  BY <2>1 DEF BaselineInv
    <3>2. /\ seen'.cpu = [lo |-> cpu, hi |-> cpu]
          /\ seen'.mem = [lo |-> mem, hi |-> mem]
      BY <1>4, <1>9, <2>1 DEF Widened
    <3> QED BY <1>6, <3>1, <3>2, FirstInRange
  <2>2. CASE det.n # 0
    <3>1. /\ det.cpu.count # 0 /\ det.mem.count # 0
          /\ InRange(det.cpu, seen.cpu) /\ InRange(det.mem, seen.mem)
      BY <1>7, <2>2 DEF BaselineInv
    <3>2. /\ seen'.cpu = [lo |-> Smaller(seen.cpu.lo, cpu),
                          hi |-> Larger(seen.cpu.hi, cpu)]
          /\ seen'.mem = [lo |-> Smaller(seen.mem.lo, mem),
                          hi |-> Larger(seen.mem.hi, mem)]
      BY <1>4, <1>9, <2>2 DEF Widened
    <3> QED BY <1>6, <3>1, <3>2, StatsInRange
  <2> QED BY <2>1, <2>2
<1> QED BY <1>6, <1>8, <1>10 DEF BaselineInv

LEMMA BaselineKept == LSpec => []BaselineInv
<1>1. LInit => BaselineInv  BY DEF LInit, DInit, BaselineInv, NoStats
<1>2. LoopInv /\ BaselineInv /\ [LNext]_lvars => BaselineInv'
  <2> SUFFICES ASSUME LoopInv, BaselineInv, [LNext]_lvars PROVE BaselineInv'
    OBVIOUS
  <2>1. CASE SensingTick  BY <2>1, BaselineTickInv
  <2>2. CASE UNCHANGED <<det, seen>>  BY <2>2 DEF BaselineInv
  <2>3. InjectAnomaly => UNCHANGED <<det, seen>>
    BY DEF InjectAnomaly, dvars, loopHistory
  <2>4. UNCHANGED lvars => UNCHANGED <<det, seen>>
    BY DEF lvars, dvars, loopHistory
  <2> QED BY <2>1, <2>2, <2>3, <2>4 DEF LNext
<1> QED BY <1>1, <1>2, LoopCorrect, PTL DEF LSpec

(* The baselines stay among the observations, and the variance below the    *)
(* square of their range, for every smoothing factor and start.             *)
THEOREM BaselineCorrect == LSpec => []BaselineInRange
<1>1. BaselineInv => BaselineInRange
  <2> SUFFICES ASSUME BaselineInv, det.n > 0, NEW m \in {"cpu", "mem"}
               PROVE  LET s == det[m]  lo == seen[m].lo  hi == seen[m].hi
                      IN  /\ s.mean \in lo .. hi /\ s.slow \in lo .. hi
                          /\ s.vr <= (hi - lo) * (hi - lo)
    BY DEF BaselineInRange
  <2>1. CASE m = "cpu"  BY <2>1 DEF BaselineInv, InRange
  <2>2. CASE m = "mem"  BY <2>2 DEF BaselineInv, InRange
  <2> QED BY <2>1, <2>2
<1> QED BY <1>1, BaselineKept, PTL

-----------------------------------------------------------------------------
(* The burst of /inject/anomaly, with the numbers the daemon is built with  *)
(* (cmd/agent/main.go:35 and :110): the smoothing factor 1/10, the          *)
(* threshold of three standard deviations, and two anomalies in a row for   *)
(* an alert.  A quarter of a standard deviation is the coarsest unit in     *)
(* which rounding the score does not hide the second sample.                *)
ShippedNumbers ==
  /\ alphaInv = 10 /\ threshold = 3 * Sigma /\ Sigma >= 4
  /\ MinConsecutiveAnomalies <= 2

LEMMA RoundTenth ==
  ASSUME NEW v \in Int
  PROVE  /\ Round(v, 10) \in Int
         /\ 20 * Round(v, 10) <= 2 * v + 10 /\ 2 * v - 10 <= 20 * Round(v, 10)
BY DEF Round

(* A sample that stands out by d raises the variance vr, and the mean by a  *)
(* tenth; a sample that stands out by ten points less than before, from the *)
(* mean that has moved, still has a square of 4.6 variances.                *)
LEMMA SecondStandsOut ==
  ASSUME NEW d \in Int, NEW vr \in Nat, NEW p \in Nat \ {0},
         d >= 80 * p, 36 * vr <= d * d
  PROVE  LET v == Round(9 * vr + d * d, 10)
             g == d - Round(d, 10) - 10 * p
         IN  v \in Nat \ {0} /\ g \in Nat /\ 46 * v <= 10 * (g * g)
<1> DEFINE v == Round(9 * vr + d * d, 10)
           g == d - Round(d, 10) - 10 * p
<1>1. PICK q \in Nat : q = d * d /\ q >= 6400
  <2>1. d \in Nat /\ 80 <= d  OBVIOUS
  <2>2. 80 * 80 <= d * 80 /\ 80 * d <= d * d  BY <2>1, ProductMonotone
  <2> QED BY <2>1, <2>2, ProductNat
<1>2. /\ v \in Int /\ 20 * v <= 2 * (9 * vr + q) + 10
      /\ 2 * (9 * vr + q) - 10 <= 20 * v
  <2>1. 9 * vr + q \in Int  BY <1>1
  <2>2. v = Round(9 * vr + q, 10)  BY <1>1
  <2> HIDE DEF v
  <2> QED BY <2>1, <2>2, RoundTenth
<1>3. g \in Int /\ 160 * g >= 123 * d
  <2>1. PICK m \in Int : m = Round(d, 10) /\ 20 * m <= 2 * d + 10
    BY RoundTenth
  <2>2. g = d - m - 10 * p  BY <2>1
  <2> HIDE DEF g
  <2> QED BY <2>1, <2>2
<1> HIDE DEF v, g
<1>4. v \in Nat \ {0}  BY <1>1, <1>2
<1>5. g \in Nat  BY <1>3
<1>6. 15129 * q <= 25600 * (g * g)
  <2>1. PICK a \in Nat, b \in Nat : a = 123 * d /\ b = 160 * g
    BY <1>5
  <2>2. a <= b  BY <1>3, <1>5, <2>1
  <2>3. a * a <= b * a /\ a * b <= b * b  BY <2>1, <2>2, ProductMonotone
  <2>4. a * a = 15129 * q /\ b * b = 25600 * (g * g)  BY <1>1, <1>5, <2>1
  <2>5. a * b = b * a  BY <2>1
  <2> QED BY <2>1, <2>3, <2>4, <2>5
<1>7. 46 * v <= 10 * (g * g)
  <2>1. PICK e \in Nat : e = g * g  BY <1>5, ProductNat
  <2>2. 36 * vr <= q  BY <1>1
  <2> QED BY <1>1, <1>2, <1>6, <2>1, <2>2
<1> QED BY <1>4, <1>5, <1>7 DEF v, g

-----------------------------------------------------------------------------
(* The scores.                                                              *)
LEMMA ScoreCases ==
  ASSUME NEW num \in Nat, NEW den \in Nat \ {0}
  PROVE  \E q \in Nat, r \in Nat, t \in Nat, k \in Nat :
           /\ k = Sigma * Sigma /\ num = den * q + r /\ r < den
           /\ den * t <= r * k /\ r * k < den * t + den
           /\ \/ SquareScore(num, den) = (MaxScore * MaxScore) * k
              \/ SquareScore(num, den) = q * k + t
<1>1. Sigma \in Nat /\ MaxScore \in Nat  BY DetectorAssumption
<1>2. PICK k \in Nat : k = Sigma * Sigma  BY <1>1, ProductNat
<1>3. PICK q \in Nat, r \in Nat :
        q = num \div den /\ r = num % den /\ num = den * q + r /\ r < den
  OBVIOUS
<1>4. r * k \in Nat  BY ProductNat
<1>5. PICK w \in Nat : w = r * k  BY <1>4
<1>6. PICK t \in Nat : t = w \div den /\ den * t <= w /\ w < den * t + den
  OBVIOUS
<1>7. r * Sigma * Sigma = w  BY <1>1, <1>2, <1>5
<1>8. q * Sigma * Sigma = q * k  BY <1>1, <1>2
<1>9. MaxScore * MaxScore * Sigma * Sigma = (MaxScore * MaxScore) * k
  BY <1>1, <1>2
<1>10. \/ SquareScore(num, den) = (MaxScore * MaxScore) * k
       \/ SquareScore(num, den) = q * k + t
  BY <1>3, <1>6, <1>7, <1>8, <1>9, Zenon DEF SquareScore
<1>11. den * t <= r * k /\ r * k < den * t + den  BY <1>5, <1>6
<1>12. num = den * q + r /\ r < den  BY <1>3
<1> QED BY <1>2, <1>10, <1>11, <1>12, Zenon

LEMMA MaxScoreSquare ==
  ASSUME ShippedNumbers, NEW k \in Nat
  PROVE  16 * k <= (MaxScore * MaxScore) * k
<1>1. MaxScore \in Nat /\ MaxScore >= 4
  <2>1. /\ MaxScore \in Nat /\ Sigma \in Nat \ {0}
        /\ 3 * Sigma < MaxScore * Sigma
    BY DetectorAssumption DEF ShippedNumbers
  <2>2. SUFFICES ASSUME MaxScore <= 3 PROVE FALSE  BY <2>1
  <2>3. MaxScore * Sigma <= 3 * Sigma  BY <2>1, <2>2, ProductMonotone
  <2> QED BY <2>1, <2>3
<1>2. 4 * 4 <= MaxScore * 4 /\ 4 * MaxScore <= MaxScore * MaxScore
  BY <1>1, ProductMonotone
<1>3. MaxScore * MaxScore \in Nat /\ 16 <= MaxScore * MaxScore
  BY <1>1, <1>2, ProductNat
<1> QED BY <1>3, ProductMonotone

LEMMA ScoreNat ==
  ASSUME NEW num \in Nat, NEW den \in Nat \ {0}
  PROVE  SquareScore(num, den) \in Nat
<1>1. PICK q \in Nat, r \in Nat, t \in Nat, k \in Nat :
        /\ k = Sigma * Sigma /\ num = den * q + r /\ r < den
        /\ den * t <= r * k /\ r * k < den * t + den
        /\ \/ SquareScore(num, den) = (MaxScore * MaxScore) * k
           \/ SquareScore(num, den) = q * k + t
  BY ScoreCases
<1>2. MaxScore * MaxScore \in Nat  BY DetectorAssumption, ProductNat
<1>3. (MaxScore * MaxScore) * k \in Nat /\ q * k \in Nat  BY <1>2, ProductNat
<1> QED BY <1>1, <1>3

(* Six standard deviations are enough alone; 4.6 variances are enough with  *)
(* as much from the other metric.                                           *)
LEMMA ScoreOfSix ==
  ASSUME ShippedNumbers, NEW num \in Nat, NEW den \in Nat \ {0},
         36 * den <= num
  PROVE  SquareScore(num, den) >= 9 * (Sigma * Sigma)
<1>1. PICK q \in Nat, r \in Nat, t \in Nat, k \in Nat :
        /\ k = Sigma * Sigma /\ num = den * q + r /\ r < den
        /\ den * t <= r * k /\ r * k < den * t + den
        /\ \/ SquareScore(num, den) = (MaxScore * MaxScore) * k
           \/ SquareScore(num, den) = q * k + t
  BY ScoreCases
<1>2. q >= 9
  <2> SUFFICES ASSUME q <= 8 PROVE FALSE  OBVIOUS
  <2>1. den * q <= den * 8  BY FactorMonotone
  <2> QED BY <1>1, <2>1
<1>3. 9 * k <= q * k  BY <1>2, ProductMonotone
<1>4. 16 * k <= (MaxScore * MaxScore) * k /\ q * k \in Nat
  BY MaxScoreSquare, ProductNat
<1>5. CASE SquareScore(num, den) = (MaxScore * MaxScore) * k
  <2>1. PICK z \in Nat : z = (MaxScore * MaxScore) * k
    BY <1>5, ScoreNat
  <2> QED BY <1>1, <1>4, <1>5, <2>1
<1>6. CASE SquareScore(num, den) = q * k + t
  <2>1. PICK z \in Nat : z = q * k  BY <1>4
  <2>2. 9 * k <= z + t  BY <1>3, <2>1
  <2> QED BY <1>1, <1>6, <2>1, <2>2
<1> QED BY <1>1, <1>5, <1>6

LEMMA ScoreOfHalf ==
  ASSUME ShippedNumbers, NEW num \in Nat, NEW den \in Nat \ {0},
         46 * den <= 10 * num
  PROVE  10 * SquareScore(num, den) >= 46 * (Sigma * Sigma) - 10
<1>1. PICK q \in Nat, r \in Nat, t \in Nat, k \in Nat :
        /\ k = Sigma * Sigma /\ num = den * q + r /\ r < den
        /\ den * t <= r * k /\ r * k < den * t + den
        /\ \/ SquareScore(num, den) = (MaxScore * MaxScore) * k
           \/ SquareScore(num, den) = q * k + t
  BY ScoreCases
<1>2. CASE SquareScore(num, den) = (MaxScore * MaxScore) * k
  <2>1. PICK z \in Nat : z = (MaxScore * MaxScore) * k
    BY <1>2, ScoreNat
  <2>2. 16 * k <= z  BY <2>1, MaxScoreSquare
  <2> QED BY <1>1, <1>2, <2>1, <2>2
<1>3. CASE SquareScore(num, den) = q * k + t
  <2>1. q >= 4
    <3> SUFFICES ASSUME q <= 3 PROVE FALSE  OBVIOUS
    <3>1. den * q <= den * 3  BY FactorMonotone
    <3> QED BY <1>1, <3>1
  <2>2. CASE q >= 5
    <3>1. 5 * k <= q * k /\ q * k \in Nat
      BY <2>2, ProductMonotone, ProductNat
    <3>2. PICK z \in Nat : z = q * k  BY <3>1
    <3>3. 10 * (z + t) >= 46 * k - 10  BY <3>1, <3>2
    <3> QED BY <1>1, <1>3, <3>2, <3>3
  <2>3. CASE q = 4
    <3>1. 6 * den <= 10 * r  BY <1>1, <2>3
    <3>2. (6 * den) * k <= (10 * r) * k  BY <3>1, ProductMonotone
    <3>3. PICK a \in Nat, b \in Nat, c \in Nat :
            a = den * k /\ b = r * k /\ c = den * t
      BY ProductNat
    <3>4. 6 * a <= 10 * b
      <4>1. (6 * den) * k = 6 * (den * k) /\ (10 * r) * k = 10 * (r * k)
        OBVIOUS
      <4> QED BY <3>2, <3>3, <4>1
    <3>5. 6 * a <= 10 * c + 10 * den  BY <1>1, <3>3, <3>4
    <3>6. 6 * k <= 10 * t + 10
      <4> SUFFICES ASSUME 10 * t + 11 <= 6 * k PROVE FALSE  OBVIOUS
      <4>1. den * (10 * t + 11) <= den * (6 * k)  BY FactorMonotone
      <4>2. /\ den * (10 * t + 11) = 10 * (den * t) + 11 * den
            /\ den * (6 * k) = 6 * (den * k)
        OBVIOUS
      <4>3. 10 * c + 11 * den <= 6 * a  BY <3>3, <4>1, <4>2
      <4> QED BY <3>5, <4>3
    <3> QED BY <1>1, <1>3, <2>3, <3>6
  <2> QED BY <2>1, <2>2, <2>3
<1> QED BY <1>1, <1>2, <1>3

(* A root of at least n is found.                                           *)
LEMMA SqrtAtLeast ==
  ASSUME NEW a \in Nat, NEW most \in Nat, NEW n \in Nat, n <= most, n * n <= a
  PROVE  Sqrt(a, most) >= n
<1> DEFINE roots == {r \in 1 .. most : r * r <= a}
<1>1. IsFiniteSet(roots)
  <2>1. IsFiniteSet(1 .. most)  BY FS_Interval
  <2> QED BY <2>1, FS_Subset
<1>2. 1 .. n \subseteq roots
  <2> SUFFICES ASSUME NEW r \in 1 .. n PROVE r * r <= a /\ r \in 1 .. most
    OBVIOUS
  <2>1. r * r <= n * r /\ r * n <= n * n  BY ProductMonotone
  <2>2. r * n = n * r /\ r * r \in Nat /\ n * r \in Nat /\ n * n \in Nat
    OBVIOUS
  <2> QED BY <2>1, <2>2
<1>3. Cardinality(1 .. n) = n
  <2>1. Cardinality(1 .. n) = IF 1 > n THEN 0 ELSE n - 1 + 1  BY FS_Interval
  <2> QED BY <2>1
<1> HIDE DEF roots
<1>4. Cardinality(1 .. n) <= Cardinality(roots)  BY <1>1, <1>2, FS_Subset
<1>5. n <= Cardinality(roots)  BY <1>3, <1>4
<1>6. Cardinality(roots) \in Nat  BY <1>1, FS_CardinalityType
<1> QED BY <1>5, <1>6 DEF Sqrt, roots

(* What is kept of the statistics of a metric.                              *)
Varied(s) ==
  s.mean \in Int /\ s.vr \in Nat /\ s.count \in Nat /\ (s.vr > 0 => s.count >= 2)

LEMMA MetricScoreNat ==
  ASSUME NEW s, Varied(s), NEW x \in Int PROVE ZScoreSq(s, x) \in Nat
<1>1. PICK e \in Int : e = x - s.mean  BY DEF Varied
<1>2. PICK num \in Nat : num = e * e
  <2>1. e * e \in Nat
    <3>1. PICK b \in Nat : e = b \/ e = -b
      <4>1. e \in Nat \/ -e \in Nat  OBVIOUS
      <4> QED BY <4>1
    <3>2. b * b \in Nat /\ b * b = e * e  BY <3>1
    <3> QED BY <3>2
  <2> QED BY <2>1
<1>3. PICK den \in Nat \ {0} : den = Larger(One, Abs(s.mean))
  BY DetectorAssumption DEF Larger, Abs, Varied
<1>4. den * den \in Nat \ {0}  OBVIOUS
<1>5. SquareScore(num, den * den) \in Nat  BY <1>4, ScoreNat
<1>6. s.vr > 0 => SquareScore(num, s.vr) \in Nat
  <2> SUFFICES ASSUME s.vr > 0 PROVE SquareScore(num, s.vr) \in Nat  OBVIOUS
  <2>1. s.vr \in Nat \ {0}  BY DEF Varied
  <2> QED BY <2>1, ScoreNat
<1>7. ZScoreSq(s, x) = IF s.count >= 2 /\ s.vr > 0 THEN SquareScore(num, s.vr)
                       ELSE SquareScore(num, den * den)
  BY <1>1, <1>2, <1>3 DEF ZScoreSq
<1> QED BY <1>5, <1>6, <1>7

LEMMA MetricScore ==
  ASSUME NEW s, Varied(s), s.vr > 0, NEW x \in Int
  PROVE  ZScoreSq(s, x) = SquareScore((x - s.mean) * (x - s.mean), s.vr)
BY DEF ZScoreSq, Varied

(* A sample of which the squares of the scores add up is flagged, after the *)
(* warm-up.                                                                 *)
LEMMA Flagged ==
  ASSUME ShippedNumbers, Varied(det.cpu), Varied(det.mem),
         NEW cpu \in Int, NEW mem \in Int, cpuPct' = cpu, memPct' = mem,
         Update(cpuPct', memPct'), det.n \in Nat, det.n >= minSamples,
         ZScoreSq(det.cpu, cpu) + ZScoreSq(det.mem, mem) >= 9 * (Sigma * Sigma)
  PROVE  rawAnom' = TRUE
<1>1. IsFinite(cpu) /\ IsFinite(mem)  BY FloatAssumption DEF IsFinite
<1>2. /\ det' = Observed(det, cpu, mem)
      /\ rawAnom' = (det'.n >= minSamples /\ det'.zscore >= threshold)
  BY <1>1 DEF Update
<1>3. /\ det'.n = det.n + 1
      /\ det'.zscore = IF det.n + 1 > minSamples
                       THEN ZComposite(det, cpu, mem) ELSE 0
  BY <1>2 DEF Observed
<1>4. det'.n >= minSamples /\ det.n + 1 > minSamples
  BY <1>3, DetectorAssumption
<1>5. PICK a \in Nat : a = ZScoreSq(det.cpu, cpu) + ZScoreSq(det.mem, mem)
  BY MetricScoreNat
<1>6. ZComposite(det, cpu, mem) = Sqrt(a, 2 * MaxScore * Sigma)
  BY <1>5 DEF ZComposite
<1>7. PICK n \in Nat : n = 3 * Sigma  BY DetectorAssumption
<1>8. PICK most \in Nat : most = 2 * MaxScore * Sigma /\ n <= most
  <2>1. /\ MaxScore \in Nat /\ Sigma \in Nat /\ 3 * Sigma < MaxScore * Sigma
    BY DetectorAssumption DEF ShippedNumbers
  <2>2. MaxScore * Sigma \in Nat  BY <2>1, ProductNat
  <2>3. 2 * MaxScore * Sigma = 2 * (MaxScore * Sigma)  BY <2>1
  <2> QED BY <1>7, <2>1, <2>2, <2>3
<1>9. n * n <= a
  <2>1. n * n = 9 * (Sigma * Sigma)  BY <1>7, DetectorAssumption
  <2> QED BY <1>5, <2>1
<1>10. Sqrt(a, most) >= n  BY <1>8, <1>9, SqrtAtLeast
<1>11. det'.zscore >= threshold
  BY <1>3, <1>4, <1>6, <1>7, <1>8, <1>10 DEF ShippedNumbers
<1> QED BY <1>2, <1>4, <1>11, Zenon

-----------------------------------------------------------------------------
(* The first sample of a burst that stands out leaves baselines from which  *)
(* the next one stands out too, if the host is at pct and then drops by ten *)
(* points at most.                                                          *)
NextStandsOut(s, pct) ==
  LET g == pct + 80 * Percent - s.mean
  IN  s.vr > 0 /\ g \in Nat /\ 46 * s.vr <= 10 * (g * g)

BurstInv ==
  /\ burst \in Nat
  /\ Varied(det.cpu) /\ Varied(det.mem)
  /\ burst = 1 /\ steady => /\ consecutiveAnoms >= 1 /\ det.n >= minSamples
                            /\ NextStandsOut(det.cpu, metricCPU)
                            /\ NextStandsOut(det.mem, metricMem)
  /\ BurstAlerts

LEMMA StatsVaried ==
  ASSUME ShippedNumbers, NEW s, Varied(s), NEW x \in Int
  PROVE  Varied(StatsUpdate(s, x))
<1> DEFINE u == StatsUpdate(s, x)
           d == x - s.mean
<1>1. d \in Int /\ s.mean \in Int /\ s.vr \in Nat /\ s.count \in Nat
  BY DEF Varied
<1>2. /\ u.mean = IF s.count = 0 THEN x ELSE s.mean + Round(d, 10)
      /\ u.vr = IF s.count = 0 THEN 0 ELSE Round(9 * s.vr + d * d, 10)
      /\ u.count = s.count + 1
  <2>1. alphaInv = 10 /\ alphaInv - 1 = 9  BY DEF ShippedNumbers
  <2> QED BY <2>1, Zenon DEF StatsUpdate
<1> HIDE DEF u, d
<1>3. u.mean \in Int
  <2>1. Round(d, 10) \in Int  BY <1>1, RoundTenth
  <2> QED BY <1>1, <1>2, <2>1
<1>4. u.vr \in Nat
  <2>1. PICK q \in Nat : q = d * d
    <3>1. PICK b \in Nat : d = b \/ d = -b
      <4>1. d \in Nat \/ -d \in Nat  BY <1>1
      <4> QED BY <1>1, <4>1
    <3>2. b * b \in Nat /\ b * b = d * d  BY <3>1
    <3> QED BY <3>2
  <2>2. PICK v \in Nat : v = 9 * s.vr + q  BY <1>1
  <2>3. Round(v, 10) \in Nat
    <3>1. v \in Int  OBVIOUS
    <3>2. Round(v, 10) \in Int /\ 2 * v - 10 <= 20 * Round(v, 10)
      BY <3>1, RoundTenth
    <3> QED BY <3>2
  <2>4. Round(9 * s.vr + d * d, 10) = Round(v, 10)  BY <2>1, <2>2
  <2>5. CASE s.count = 0  BY <1>2, <2>5
  <2>6. CASE s.count # 0
    <3>1. u.vr = Round(v, 10)  BY <1>2, <2>4, <2>6
    <3> QED BY <2>3, <3>1
  <2> QED BY <2>5, <2>6
<1>5. u.count \in Nat  BY <1>1, <1>2
<1>6. ASSUME u.vr > 0 PROVE u.count >= 2
  <2>1. s.count # 0  BY <1>2, <1>6
  <2> QED BY <1>1, <1>2, <2>1
<1> QED BY <1>3, <1>4, <1>5, <1>6 DEF Varied, u

LEMMA NextAfterFirst ==
  ASSUME ShippedNumbers, NEW s, Varied(s), s.count # 0, NEW pct \in Int,
         StandsOut(s, pct + 90 * Percent)
  PROVE  NextStandsOut(StatsUpdate(s, pct + 90 * Percent), pct)
<1>1. PICK p \in Nat \ {0} : p = Percent  BY CollectorAssumption
<1>2. PICK x \in Int : x = pct + 90 * Percent  BY <1>1
<1>3. PICK d \in Int, m \in Int : m = s.mean /\ d = x - m
  BY DEF Varied
<1>4. PICK vr \in Nat : vr = s.vr  BY DEF Varied
<1>5. d >= 80 * p /\ 36 * vr <= d * d
  BY <1>1, <1>2, <1>3, <1>4, Zenon DEF StandsOut
<1>6. PICK v \in Nat \ {0}, g \in Nat :
        /\ v = Round(9 * vr + d * d, 10) /\ g = d - Round(d, 10) - 10 * p
        /\ 46 * v <= 10 * (g * g)
  BY <1>5, SecondStandsOut
<1>7. PICK u : u = StatsUpdate(s, x)  OBVIOUS
<1>8. u.mean = m + Round(d, 10) /\ u.vr = v
  <2>1. alphaInv = 10 /\ alphaInv - 1 = 9  BY DEF ShippedNumbers
  <2> QED BY <1>3, <1>4, <1>6, <1>7, <2>1, Zenon DEF StatsUpdate
<1>9. pct + 80 * Percent - u.mean = g
  <2>1. PICK r \in Int : r = Round(d, 10)  BY RoundTenth
  <2> QED BY <1>1, <1>2, <1>3, <1>6, <1>8, <2>1
<1>10. NextStandsOut(u, pct)
  <2>1. u.vr > 0  BY <1>6, <1>8
  <2> QED BY <1>6, <1>8, <1>9, <2>1 DEF NextStandsOut
<1> QED BY <1>2, <1>7, <1>10

(* The scores of the two first samples of a burst.                          *)
LEMMA FirstScores ==
  ASSUME ShippedNumbers, NEW s, Varied(s), s.vr > 0, NEW t, Varied(t),
         NEW x \in Int, NEW y \in Int, StandsOut(s, x)
  PROVE  ZScoreSq(s, x) + ZScoreSq(t, y) >= 9 * (Sigma * Sigma)
<1>1. PICK d \in Int : d = x - s.mean  BY DEF Varied
<1>2. PICK vr \in Nat \ {0} : vr = s.vr  BY DEF Varied
<1>3. 36 * vr <= d * d /\ d \in Nat
  <2>1. 36 * vr <= d * d /\ d >= 80 * Percent
    BY <1>1, <1>2, Zenon DEF StandsOut
  <2> QED BY <2>1, CollectorAssumption
<1>4. PICK num \in Nat : num = d * d  BY <1>3, ProductNat
<1>5. SquareScore(num, vr) >= 9 * (Sigma * Sigma)
  BY <1>3, <1>4, ScoreOfSix
<1>6. ZScoreSq(s, x) = SquareScore(num, vr)
  BY <1>1, <1>2, <1>4, MetricScore
<1>7. PICK a \in Nat, b \in Nat : a = ZScoreSq(s, x) /\ b = ZScoreSq(t, y)
  BY MetricScoreNat
<1>8. PICK k \in Nat : k = Sigma * Sigma  BY DetectorAssumption, ProductNat
<1> QED BY <1>5, <1>6, <1>7, <1>8

LEMMA SecondScore ==
  ASSUME ShippedNumbers, NEW s, Varied(s), NEW pct \in Int,
         NextStandsOut(s, pct), NEW next \in Int, next >= pct - 10 * Percent
  PROVE  10 * ZScoreSq(s, next + 90 * Percent) >= 46 * (Sigma * Sigma) - 10
<1>1. PICK p \in Nat : p = Percent  BY CollectorAssumption
<1>2. PICK m \in Int : m = s.mean  BY DEF Varied
<1>3. PICK vr \in Nat \ {0} : vr = s.vr
  <2>1. s.vr > 0 /\ s.vr \in Nat  BY DEF NextStandsOut, Varied
  <2> QED BY <2>1
<1>4. PICK g \in Nat : g = pct + 80 * p - m /\ 46 * vr <= 10 * (g * g)
  BY <1>1, <1>2, <1>3 DEF NextStandsOut
<1>5. PICK x \in Int, d \in Nat : x = next + 90 * Percent /\ d = x - m /\ g <= d
  BY <1>1, <1>2, <1>4
<1>6. PICK num \in Nat, e \in Nat : num = d * d /\ e = g * g /\ e <= num
  <2>1. g * g <= d * g /\ g * d <= d * d  BY <1>5, ProductMonotone
  <2>2. g * d = d * g  OBVIOUS
  <2>3. g * g \in Nat /\ d * d \in Nat /\ d * g \in Nat  BY ProductNat
  <2> QED BY <2>1, <2>2, <2>3
<1>7. 46 * vr <= 10 * num  BY <1>4, <1>6
<1>8. 10 * SquareScore(num, vr) >= 46 * (Sigma * Sigma) - 10
  BY <1>7, ScoreOfHalf
<1>9. ZScoreSq(s, x) = SquareScore(num, vr)
  <2>1. ZScoreSq(s, x) = SquareScore((x - s.mean) * (x - s.mean), s.vr)
    BY <1>3, MetricScore
  <2> QED BY <1>2, <1>3, <1>5, <1>6, <2>1
<1> QED BY <1>5, <1>8, <1>9

(* An anomaly that is not the first of too few has an alert out.            *)
LEMMA AlertAfter ==
  ASSUME SaturationInv, now' \in Nat, ProcessAnomaly(now'),
         consecutiveAnoms' >= MinConsecutiveAnomalies
  PROVE  AlertOut'
<1>1. /\ lastAlertTime \in Nat \cup {Never} /\ consecutiveAnoms \in Nat
      /\ state # "Normal" => lastAlertTime # Never
  BY DEF SaturationInv
<1>2. consecutiveAnoms' = consecutiveAnoms + 1 /\ (AlertNow \/ Counted \/ HeldOff)
  BY AnomalyEnds
<1>3. CASE AlertNow
  <2>1. lastAlertTime' \in Nat /\ lastAlertTime' # Never
    BY <1>3, SuppressorAssumption DEF AlertNow
  <2> QED BY <1>3, <2>1, WithinHoldoff DEF AlertNow, AlertOut
<1>4. CASE Counted
  BY <1>1, <1>2, <1>4, SuppressorAssumption DEF Counted
<1>5. CASE HeldOff
  <2>1. lastAlertTime' = lastAlertTime /\ lastAlertTime # Never
    BY <1>1, <1>5 DEF HeldOff
  <2>2. now' - lastAlertTime <= HoldoffDuration
    BY <1>1, <1>5, <2>1, WithinHoldoff DEF HeldOff
  <2> QED BY <2>1, <2>2 DEF AlertOut
<1> QED BY <1>2, <1>3, <1>4, <1>5

(* A tick of a burst.                                                       *)
LEMMA BurstTickInv ==
  ASSUME ShippedNumbers, RateTauMin \in Nat, LoopInv, SaturationInv,
         BaselineInv, BurstInv, SensingTick
  PROVE  BurstInv'
<1>1. CollectUsage /\ Update(cpuPct', memPct') /\ Process(IsAnom, period) /\ Record
  BY DEF SensingTick
<1>2. CollectorInv'  BY <1>1, CollectStep DEF LoopInv
<1>3. PICK cpu \in Int, mem \in Int, mc \in Int, mm \in Int :
        cpu = cpuPct' /\ mem = memPct' /\ mc = metricCPU' /\ mm = metricMem'
  <2>1. 100 * Percent \in Nat  BY CollectorAssumption
  <2> QED BY <1>2, <2>1 DEF CollectorInv, CPUSamples, MemSamples
<1>4. IsFinite(cpu) /\ IsFinite(mem) /\ IsFinite(mc) /\ IsFinite(mm)
  BY FloatAssumption DEF IsFinite
<1>5. /\ det'.n = det.n + 1
      /\ det'.cpu = StatsUpdate(det.cpu, cpu)
      /\ det'.mem = StatsUpdate(det.mem, mem)
  <2>1. det' = Observed(det, cpu, mem)  BY <1>1, <1>3, <1>4 DEF Update
  <2> QED BY <2>1 DEF Observed
<1>6. Varied(det.cpu) /\ Varied(det.mem) /\ det.n \in Nat /\ burst \in Nat
  BY DEF BurstInv, LoopInv, DetectorTyped
<1>7. Varied(det'.cpu) /\ Varied(det'.mem)  BY <1>5, <1>6, StatsVaried
<1>8. /\ burst' = IF injectSpikes > 0 THEN burst + 1 ELSE 0
      /\ steady' = IF burst = 0 THEN SpikeStandsOut ELSE steady /\ HostSteady
  BY <1>1 DEF Record
<1>9. injectSpikes > 0 => cpu = mc + 90 * Percent /\ mem = mm + 90 * Percent
  BY <1>1, <1>3, <1>4 DEF CollectUsage, Spiked
<1>10. now' \in Nat
  <2>1. period \in Nat  BY ConfigFacts DEF LoopInv, IInv
  <2> QED BY <1>1, <2>1 DEF Process, SaturationInv
<1>11. ASSUME rawAnom' = TRUE
       PROVE  /\ consecutiveAnoms' = consecutiveAnoms + 1
              /\ consecutiveAnoms' >= MinConsecutiveAnomalies => AlertOut'
  <2>1. ProcessAnomaly(now')  BY <1>1, <1>11 DEF Process, IsAnom
  <2> QED BY <1>10, <2>1, AnomalyEnds, AlertAfter
<1>12. /\ consecutiveAnoms \in Nat /\ MinConsecutiveAnomalies \in {1, 2}
  BY SuppressorAssumption DEF SaturationInv, ShippedNumbers
<1>13. CASE injectSpikes > 0 /\ burst = 0 /\ steady'
  <2>1. /\ det.n >= minSamples
        /\ det.cpu.vr > 0 \/ det.mem.vr > 0
        /\ StandsOut(det.cpu, cpu) /\ StandsOut(det.mem, mem)
    BY <1>3, <1>8, <1>13 DEF SpikeStandsOut
  <2>2. ZScoreSq(det.cpu, cpu) + ZScoreSq(det.mem, mem) >= 9 * (Sigma * Sigma)
    <3>1. CASE det.cpu.vr > 0  BY <1>6, <2>1, <3>1, FirstScores
    <3>2. CASE det.mem.vr > 0
      <4>1. ZScoreSq(det.mem, mem) + ZScoreSq(det.cpu, cpu) >= 9 * (Sigma * Sigma)
        BY <1>6, <2>1, <3>2, FirstScores
      <4>2. PICK a \in Nat, b \in Nat :
              a = ZScoreSq(det.cpu, cpu) /\ b = ZScoreSq(det.mem, mem)
        BY <1>6, MetricScoreNat
      <4> QED BY <4>1, <4>2
    <3> QED BY <2>1, <3>1, <3>2
  <2>3. rawAnom' = TRUE  BY <1>1, <1>3, <1>6, <2>1, <2>2, Flagged
  <2>4. det.cpu.count # 0 /\ det.mem.count # 0
    BY <1>6, <2>1, DetectorAssumption DEF BaselineInv
  <2>5. NextStandsOut(det'.cpu, mc) /\ NextStandsOut(det'.mem, mm)
    BY <1>5, <1>6, <1>9, <1>13, <2>1, <2>4, NextAfterFirst
  <2>6. det'.n >= minSamples
    BY <1>5, <1>6, <2>1, DetectorAssumption
  <2>7. burst' = 1  BY <1>8, <1>13
  <2>8. consecutiveAnoms' >= 1 /\ BurstAlerts'
    BY <1>11, <1>12, <2>3, <2>7 DEF BurstAlerts
  <2> QED BY <1>3, <1>7, <2>5, <2>6, <2>7, <2>8 DEF BurstInv
<1>14. CASE injectSpikes > 0 /\ burst = 1 /\ steady'
  <2>1. steady /\ HostSteady
    <3>1. burst # 0  BY <1>14
    <3>2. steady' = (steady /\ HostSteady)  BY <1>8, <3>1, Zenon
    <3> QED BY <1>14, <3>2, Zenon
  <2>2. /\ consecutiveAnoms >= 1 /\ det.n >= minSamples
        /\ NextStandsOut(det.cpu, metricCPU) /\ NextStandsOut(det.mem, metricMem)
    BY <1>14, <2>1 DEF BurstInv
  <2>3. /\ mc >= metricCPU - 10 * Percent /\ mm >= metricMem - 10 * Percent
        /\ metricCPU \in Int /\ metricMem \in Int
    <3>1. 100 * Percent \in Nat  BY CollectorAssumption
    <3> QED BY <1>3, <2>1, <3>1 DEF HostSteady, LoopInv, CollectorInv, CPUSamples,
                               MemSamples
  <2>4. /\ 10 * ZScoreSq(det.cpu, cpu) >= 46 * (Sigma * Sigma) - 10
        /\ 10 * ZScoreSq(det.mem, mem) >= 46 * (Sigma * Sigma) - 10
    BY <1>6, <1>9, <1>14, <2>2, <2>3, SecondScore
  <2>5. ZScoreSq(det.cpu, cpu) + ZScoreSq(det.mem, mem) >= 9 * (Sigma * Sigma)
    <3>1. PICK a \in Nat, b \in Nat :
            a = ZScoreSq(det.cpu, cpu) /\ b = ZScoreSq(det.mem, mem)
      BY <1>6, MetricScoreNat
    <3>2. PICK k \in Nat : k = Sigma * Sigma /\ k >= 16
      <4>1. Sigma \in Nat /\ Sigma >= 4
        BY DetectorAssumption DEF ShippedNumbers
      <4>2. 4 * 4 <= Sigma * 4 /\ 4 * Sigma <= Sigma * Sigma
        BY <4>1, ProductMonotone
      <4> QED BY <4>1, <4>2, ProductNat
    <3> QED BY <2>4, <3>1, <3>2
  <2>6. rawAnom' = TRUE  BY <1>1, <1>3, <1>6, <2>2, <2>5, Flagged
  <2>7. burst' = 2  BY <1>8, <1>14
  <2>8. BurstAlerts'  BY <1>11, <1>12, <2>2, <2>6 DEF BurstAlerts
  <2> QED BY <1>7, <2>7, <2>8 DEF BurstInv
<1>15. CASE ~(injectSpikes > 0) \/ burst > 1 \/ ~steady'
  <2>1. burst' \in Nat /\ ~(burst' = MinConsecutiveAnomalies /\ steady')
        /\ ~(burst' = 1 /\ steady')
    <3>1. CASE ~(injectSpikes > 0)
      <4>1. burst' = 0  BY <1>8, <3>1
      <4> QED BY <1>12, <4>1
    <3>2. CASE injectSpikes > 0 /\ burst > 1
      <4>1. burst' = burst + 1  BY <1>8, <3>2
      <4> QED BY <1>6, <1>12, <3>2, <4>1
    <3>3. CASE ~steady'  BY <1>6, <1>8, <3>3
    <3> QED BY <1>15, <3>1, <3>2, <3>3
  <2> QED BY <1>7, <2>1 DEF BurstInv, BurstAlerts
<1> QED BY <1>6, <1>13, <1>14, <1>15

LEMMA BurstCalmInv ==
  ASSUME BurstInv, UNCHANGED <<det, svars, loopHistory, gauges>> PROVE BurstInv'
BY DEF BurstInv, svars, machine, loopHistory, gauges, BurstAlerts, AlertOut

(* With the numbers the daemon is built with, a burst that begins with a    *)
(* sample that stands out raises an alert, in whatever state the suppressor *)
(* is and whatever the detector has seen before, for every holdoff.         *)
THEOREM BurstAlertsCorrect ==
  ASSUME ShippedNumbers, RateTauMin \in Nat PROVE LSpec => []BurstAlerts
<1>1. LInit => BurstInv
  <2> SUFFICES ASSUME LInit PROVE BurstInv  OBVIOUS
  <2>1. /\ burst = 0 /\ det.cpu = NoStats /\ det.mem = NoStats
    BY DEF LInit, DInit
  <2>2. Varied(det.cpu) /\ Varied(det.mem)  BY <2>1 DEF Varied, NoStats
  <2> QED BY <2>1, <2>2, SuppressorAssumption DEF BurstInv, BurstAlerts
<1>2. LoopInv /\ SaturationInv /\ BaselineInv /\ BurstInv /\ [LNext]_lvars
        => BurstInv'
  <2> SUFFICES ASSUME LoopInv, SaturationInv, BaselineInv, BurstInv,
                      [LNext]_lvars
               PROVE  BurstInv'
    OBVIOUS
  <2>1. CASE SensingTick  BY <2>1, BurstTickInv
  <2>2. CASE InjectAnomaly
    <3>1. UNCHANGED <<det, svars, loopHistory, gauges>>
      BY <2>2 DEF InjectAnomaly, Inject, dvars, gauges
    <3> QED BY <3>1, BurstCalmInv
  <2>3. CASE UNCHANGED lvars
    <3>1. UNCHANGED <<det, svars, loopHistory, gauges>>
      BY <2>3 DEF lvars, cvars, dvars
    <3> QED BY <3>1, BurstCalmInv
  <2> QED BY <2>1, <2>2, <2>3 DEF LNext
<1>3. BurstInv => BurstAlerts  BY DEF BurstInv
<1> QED BY <1>1, <1>2, <1>3, LoopCorrect, SaturationKept, BaselineKept, PTL DEF LSpec

=============================================================================
