----------------------------- MODULE Suppressor -----------------------------
(***************************************************************************)
(* The deadband suppressor (internal/filter/suppressor.go): it turns the   *)
(* stream of "anomalous or not" observations, one per tick of the agent,   *)
(* into few alerts.  Process and Reset hold the mutex from their first     *)
(* line to their last, so each is one step.                                *)
(*                                                                         *)
(* Time is counted in units; what passes between two observations is one   *)
(* of Gaps (the agent's ticker has an adaptive period).                    *)
(***************************************************************************)
EXTENDS Naturals

CONSTANTS
  HoldoffDuration, MinConsecutiveAnomalies, MinConsecutiveNormals,
  Gaps,      (* possible times between two observations                     *)
  MaxObs,    (* bound: observations in a behaviour                          *)
  Never      (* time.Time{}: no alert was fired                             *)

(* What NewSuppressor makes of its configuration.                           *)
ASSUME SuppressorAssumption ==
  /\ HoldoffDuration \in Nat
  /\ MinConsecutiveAnomalies \in Nat \ {0}
  /\ MinConsecutiveNormals \in Nat \ {0}
  /\ Gaps \subseteq Nat
  /\ MaxObs \in Nat
  /\ Never \notin Nat

VARIABLES
  state,                                (* Normal, Alerting or Suppressed   *)
  consecutiveAnoms, consecutiveNorms,
  lastAlertTime,
  totalAnomalies, totalSuppressed, totalAlertsFired,
  shouldAlert,   (* what the last Process returned                          *)
  now,           (* time of the last observation                            *)
  observed,      (* history: observations so far                            *)
  sinceAlert     (* history: observations since the last alert (or Reset)   *)

totals  == <<totalAnomalies, totalSuppressed, totalAlertsFired>>
machine == <<state, consecutiveAnoms, consecutiveNorms, lastAlertTime, totals>>
history == <<observed, sinceAlert>>
svars   == <<machine, shouldAlert, now, history>>

States == {"Normal", "Alerting", "Suppressed"}

SInit ==
  /\ state = "Normal"
  /\ consecutiveAnoms = 0 /\ consecutiveNorms = 0
  /\ lastAlertTime = Never
  /\ totalAnomalies = 0 /\ totalSuppressed = 0 /\ totalAlertsFired = 0
  /\ shouldAlert = FALSE
  /\ now = 0
  /\ observed = 0 /\ sinceAlert = 0

-----------------------------------------------------------------------------
(* The ways an observation at time t can end.                               *)
FireAlert(t) ==
  /\ state' = "Alerting"
  /\ lastAlertTime' = t
  /\ totalAlertsFired' = totalAlertsFired + 1
  /\ shouldAlert' = TRUE
  /\ sinceAlert' = 0
  /\ UNCHANGED totalSuppressed

Quiet ==
  /\ shouldAlert' = FALSE
  /\ sinceAlert' = sinceAlert + 1
  /\ UNCHANGED <<lastAlertTime, totalAlertsFired>>

(* StateNormal: an alert needs enough anomalies in a row.                   *)
AnomalyWhenNormal(t) ==
  /\ state = "Normal"
  /\ \/ consecutiveAnoms' >= MinConsecutiveAnomalies /\ FireAlert(t)
     \/ /\ consecutiveAnoms' < MinConsecutiveAnomalies
        /\ Quiet
        /\ UNCHANGED <<state, totalSuppressed>>

HoldoffOver(t) ==
  \/ HoldoffDuration = 0
  \/ lastAlertTime # Never /\ t - lastAlertTime >= HoldoffDuration

(* StateAlerting, StateSuppressed: an alert needs the holdoff to be over.   *)
AnomalyWhenActive(t) ==
  /\ state # "Normal"
  /\ \/ HoldoffOver(t) /\ FireAlert(t)
     \/ /\ ~HoldoffOver(t)
        /\ state' = "Suppressed"
        /\ totalSuppressed' = totalSuppressed + 1
        /\ Quiet

ProcessAnomaly(t) ==
  /\ totalAnomalies' = totalAnomalies + 1
  /\ consecutiveNorms' = 0
  /\ consecutiveAnoms' = consecutiveAnoms + 1
  /\ AnomalyWhenNormal(t) \/ AnomalyWhenActive(t)

(* Mutant: an episode ends one normal too early.                            *)
ProcessNormalEarly ==
  /\ consecutiveAnoms' = 0
  /\ consecutiveNorms' = consecutiveNorms + 1
  /\ state' = IF consecutiveNorms' + 1 >= MinConsecutiveNormals
              THEN "Normal" ELSE state
  /\ Quiet
  /\ UNCHANGED <<totalAnomalies, totalSuppressed>>

ProcessNormal ==
  /\ consecutiveAnoms' = 0
  /\ consecutiveNorms' = consecutiveNorms + 1
  /\ state' = IF consecutiveNorms' >= MinConsecutiveNormals
              THEN "Normal" ELSE state
  /\ Quiet
  /\ UNCHANGED <<totalAnomalies, totalSuppressed>>

Process(isAnomalous, gap) ==
  /\ observed < MaxObs
  /\ now' = now + gap
  /\ observed' = observed + 1
  /\ \/ isAnomalous /\ ProcessAnomaly(now')
     \/ ~isAnomalous /\ ProcessNormal

Reset ==
  /\ state' = "Normal"
  /\ consecutiveAnoms' = 0 /\ consecutiveNorms' = 0
  /\ lastAlertTime' = Never
  /\ totalAnomalies' = 0 /\ totalSuppressed' = 0 /\ totalAlertsFired' = 0
  /\ sinceAlert' = 0
  /\ UNCHANGED <<shouldAlert, now, observed>>

SNext ==
  \/ \E isAnomalous \in BOOLEAN, gap \in Gaps : Process(isAnomalous, gap)
  \/ Reset

SSpec == SInit /\ [][SNext]_svars

-----------------------------------------------------------------------------
STypeOK ==
  /\ state \in States
  /\ consecutiveAnoms \in Nat /\ consecutiveNorms \in Nat
  /\ lastAlertTime \in Nat \cup {Never}
  /\ totalAnomalies \in Nat /\ totalSuppressed \in Nat
  /\ totalAlertsFired \in Nat
  /\ shouldAlert \in BOOLEAN
  /\ now \in Nat
  /\ observed \in Nat /\ sinceAlert \in Nat

(* The state agrees with the counters: an episode lasts only while fewer    *)
(* than MinConsecutiveNormals normals in a row were seen, and in Normal the *)
(* threshold of an alert is not reached.  An episode has an alert, in the   *)
(* past.  No anomaly is both alerted and suppressed.                        *)
StateMatchesCounters ==
  /\ state # "Normal" => consecutiveNorms < MinConsecutiveNormals
  /\ state = "Normal" => consecutiveAnoms < MinConsecutiveAnomalies
  /\ consecutiveAnoms = 0 \/ consecutiveNorms = 0
  /\ state # "Normal" => totalAlertsFired > 0
  /\ (lastAlertTime = Never) <=> (totalAlertsFired = 0)
  /\ lastAlertTime # Never => lastAlertTime <= now
  /\ totalAlertsFired + totalSuppressed <= totalAnomalies

(* Since the last alert there were the normals that ended its episode, and  *)
(* after them the anomalies counted so far.                                 *)
AlertDistance ==
  lastAlertTime # Never =>
    sinceAlert >= IF state = "Normal"
                  THEN MinConsecutiveNormals + consecutiveAnoms
                  ELSE consecutiveNorms

(* The rate of alerts is bounded: between two alerts lies the holdoff, or a *)
(* quiet period of MinConsecutiveNormals observations and the anomalies     *)
(* that trip the next alert.                                                *)
AlertFired == totalAlertsFired' = totalAlertsFired + 1
AlertSpacing ==
  [][AlertFired =>
       \/ lastAlertTime = Never
       \/ now' - lastAlertTime >= HoldoffDuration
       \/ sinceAlert + 1 >= MinConsecutiveNormals + MinConsecutiveAnomalies]_svars

(* "HoldoffDuration is the minimum quiet period between alert triggers."    *)
HoldoffIsMinimum ==
  [][(AlertFired /\ lastAlertTime # Never)
       => now' - lastAlertTime >= HoldoffDuration]_svars
=============================================================================
