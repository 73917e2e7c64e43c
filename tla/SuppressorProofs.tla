-------------------------- MODULE SuppressorProofs --------------------------
(***************************************************************************)
(* Theorems of the suppressor for every holdoff, every pair of thresholds  *)
(* and every spacing of the observations.  AlertDistance is not inductive  *)
(* alone: that a Normal state has few anomalies in a row, and an episode   *)
(* few normals (StateMatchesCounters), is what carries it over a change of *)
(* state.                                                                  *)
(***************************************************************************)
EXTENDS Suppressor, TLAPS

(* The time from an earlier moment to a later one is a natural number.      *)
LEMMA Elapsed ==
  ASSUME NEW a \in Nat, NEW b \in Nat, NEW c \in Nat, a <= b, b <= c
  PROVE  c - a \in Nat
OBVIOUS

(* The invariant of the machine and of the history beside it.               *)
SInv == STypeOK /\ StateMatchesCounters /\ AlertDistance

LEMMA InitInv == SInit => SInv
<1> SUFFICES ASSUME SInit PROVE SInv  OBVIOUS
<1> USE SuppressorAssumption DEF SInit
<1>1. STypeOK               BY DEF STypeOK, States
<1>2. StateMatchesCounters  BY DEF StateMatchesCounters
<1>3. AlertDistance         BY DEF AlertDistance
<1> QED BY <1>1, <1>2, <1>3 DEF SInv

(* An alert begins or renews an episode.                                    *)
LEMMA AlertInv ==
  ASSUME SInv, NEW t \in Nat, now' = t, observed' = observed + 1,
         ProcessAnomaly(t), FireAlert(t)
  PROVE  SInv'
<1> USE SuppressorAssumption DEF SInv, STypeOK, ProcessAnomaly, FireAlert
<1>1. STypeOK'               BY DEF States
<1>2. StateMatchesCounters'  BY DEF StateMatchesCounters
<1>3. AlertDistance'         BY DEF AlertDistance
<1> QED BY <1>1, <1>2, <1>3

(* An anomaly that does not alert: the state stays Normal below the         *)
(* threshold, or the anomaly is suppressed in an episode.                   *)
LEMMA QuietAnomalyInv ==
  ASSUME SInv, NEW t \in Nat, t >= now, now' = t, observed' = observed + 1,
         ProcessAnomaly(t), Quiet,
         \/ /\ state = "Normal" /\ UNCHANGED <<state, totalSuppressed>>
            /\ consecutiveAnoms' < MinConsecutiveAnomalies
         \/ /\ state # "Normal" /\ state' = "Suppressed"
            /\ totalSuppressed' = totalSuppressed + 1
  PROVE  SInv'
<1> USE SuppressorAssumption DEF SInv, STypeOK, ProcessAnomaly, Quiet
<1>1. STypeOK'
  <2>1. state' \in States /\ shouldAlert' \in BOOLEAN  BY DEF States
  <2>2. lastAlertTime' \in Nat \cup {Never}           OBVIOUS
  <2>3. totalSuppressed' \in Nat                      OBVIOUS
  <2> QED BY <2>1, <2>2, <2>3
<1>2. StateMatchesCounters'
  <2> USE DEF StateMatchesCounters
  <2>1. lastAlertTime # Never => lastAlertTime <= now'  OBVIOUS
  <2>2. (totalAlertsFired + totalSuppressed <= totalAnomalies)'  OBVIOUS
  <2>3. (state = "Normal" => consecutiveAnoms < MinConsecutiveAnomalies)'
    OBVIOUS
  <2>4. (state # "Normal" => consecutiveNorms < MinConsecutiveNormals)'
    OBVIOUS
  <2> QED BY <2>1, <2>2, <2>3, <2>4
<1>3. AlertDistance'  BY DEF AlertDistance, StateMatchesCounters
<1> QED BY <1>1, <1>2, <1>3

(* A normal observation: enough of them in a row end the episode.           *)
LEMMA NormalInv ==
  ASSUME SInv, now' \in Nat, now' >= now, observed' = observed + 1,
         ProcessNormal
  PROVE  SInv'
<1> USE SuppressorAssumption DEF SInv, STypeOK, ProcessNormal, Quiet
<1>1. STypeOK'
  <2>1. state' \in States /\ shouldAlert' \in BOOLEAN  BY DEF States
  <2>2. lastAlertTime' \in Nat \cup {Never}           OBVIOUS
  <2>3. totalSuppressed' \in Nat                      OBVIOUS
  <2> QED BY <2>1, <2>2, <2>3
<1>2. StateMatchesCounters'
  <2> USE DEF StateMatchesCounters
  <2>1. lastAlertTime # Never => lastAlertTime <= now'  OBVIOUS
  <2>2. (state = "Normal" => consecutiveAnoms < MinConsecutiveAnomalies)'
    OBVIOUS
  <2>3. (state # "Normal" => consecutiveNorms < MinConsecutiveNormals)'
    OBVIOUS
  <2> QED BY <2>1, <2>2, <2>3
<1>3. AlertDistance'  BY DEF AlertDistance, StateMatchesCounters
<1> QED BY <1>1, <1>2, <1>3

LEMMA StepInv == SInv /\ [SNext]_svars => SInv'
<1> SUFFICES ASSUME SInv, [SNext]_svars PROVE SInv'  OBVIOUS
<1>1. ASSUME NEW isAnomalous \in BOOLEAN, NEW gap \in Gaps,
             Process(isAnomalous, gap)
      PROVE  SInv'
  <2>1. now' \in Nat /\ now' >= now
    BY <1>1, SuppressorAssumption DEF Process, SInv, STypeOK
  <2>2. observed' = observed + 1  BY <1>1 DEF Process
  <2>3. CASE isAnomalous /\ ProcessAnomaly(now')
    BY <2>1, <2>2, <2>3, AlertInv, QuietAnomalyInv
       DEF ProcessAnomaly, AnomalyWhenNormal, AnomalyWhenActive
  <2>4. CASE ~isAnomalous /\ ProcessNormal
    BY <2>1, <2>2, <2>4, NormalInv
  <2> QED BY <1>1, <2>3, <2>4 DEF Process
<1>2. CASE Reset
  <2> USE <1>2, SuppressorAssumption DEF Reset, SInv
  <2>1. STypeOK'               BY DEF STypeOK, States
  <2>2. StateMatchesCounters'  BY DEF StateMatchesCounters, STypeOK
  <2>3. AlertDistance'         BY DEF AlertDistance
  <2> QED BY <2>1, <2>2, <2>3
<1>3. CASE UNCHANGED svars
  BY <1>3 DEF SInv, STypeOK, StateMatchesCounters, AlertDistance, svars,
              machine, totals, history
<1> QED BY <1>1, <1>2, <1>3 DEF SNext

(* The invariant holds in every behavior.                                   *)
THEOREM InvCorrect == SSpec => []SInv
BY InitInv, StepInv, PTL DEF SSpec

(* The state of the suppressor agrees with its counters: an episode lasts   *)
(* only while fewer than MinConsecutiveNormals normals in a row were seen,  *)
(* and no anomaly is both alerted and suppressed.                           *)
THEOREM CountersCorrect == SSpec => []StateMatchesCounters
<1>1. SInv => StateMatchesCounters  BY DEF SInv
<1> QED BY <1>1, InvCorrect, PTL

(* Alerts cannot flood the outbox: two alerts are a holdoff apart, or at    *)
(* least MinConsecutiveNormals + MinConsecutiveAnomalies observations.      *)
THEOREM AlertsSpaced == SSpec => AlertSpacing
<1> DEFINE Spaced ==
      AlertFired =>
        \/ lastAlertTime = Never
        \/ now' - lastAlertTime >= HoldoffDuration
        \/ sinceAlert + 1 >= MinConsecutiveNormals + MinConsecutiveAnomalies
<1>1. SInv /\ [SNext]_svars => [Spaced]_svars
  <2> SUFFICES ASSUME SInv, SNext, AlertFired, lastAlertTime # Never
               PROVE  \/ now' - lastAlertTime >= HoldoffDuration
                      \/ sinceAlert + 1
                           >= MinConsecutiveNormals + MinConsecutiveAnomalies
    OBVIOUS
  <2> USE DEF SInv, STypeOK, AlertFired
  <2>1. PICK isAnomalous \in BOOLEAN, gap \in Gaps : Process(isAnomalous, gap)
    BY DEF SNext, Reset
  <2>2. now' \in Nat  BY <2>1, SuppressorAssumption DEF Process
  <2>3. isAnomalous /\ ProcessAnomaly(now')
    BY <2>1 DEF Process, ProcessNormal, Quiet
  <2>4. CASE AnomalyWhenNormal(now')
    <3>1. state = "Normal" /\ consecutiveAnoms + 1 >= MinConsecutiveAnomalies
      BY <2>3, <2>4 DEF AnomalyWhenNormal, ProcessAnomaly, Quiet
    <3> QED BY <3>1, SuppressorAssumption DEF AlertDistance
  <2>5. CASE AnomalyWhenActive(now')
    <3>1. HoldoffOver(now')
      BY <2>5 DEF AnomalyWhenActive, Quiet
    <3>2. lastAlertTime \in Nat /\ lastAlertTime <= now /\ now <= now'
      BY <2>1, SuppressorAssumption DEF StateMatchesCounters, Process
    <3>3. CASE HoldoffDuration = 0
      <4>1. now' - lastAlertTime \in Nat
        BY <2>2, <3>2, Elapsed
      <4> QED BY <3>3, <4>1
    <3>4. CASE now' - lastAlertTime >= HoldoffDuration
      BY <3>4
    <3> QED BY <3>1, <3>3, <3>4 DEF HoldoffOver
  <2> QED BY <2>3, <2>4, <2>5 DEF ProcessAnomaly
<1> QED BY <1>1, InvCorrect, PTL DEF SSpec, AlertSpacing
=============================================================================
