--------------------------- MODULE GovernorProofs ---------------------------
(***************************************************************************)
(* Theorems of the CPU governor, for every number of failing writes and    *)
(* restarts.  QuotaFollowsState is inductive only together with two facts: *)
(* what the controller remembers is what the file holds (ModeIsTruth), and *)
(* the agent's prevSuppressorState is the state of the suppressor.         *)
(***************************************************************************)
EXTENDS Governor, TLAPS

-----------------------------------------------------------------------------
(* The suppressor inside the governor is a Suppressor: every invariant of   *)
(* that module holds here, across restarts too.                             *)
THEOREM SuppressorInside == GSpec => SSpec
<1>1. GInit => SInit  BY DEF GInit
<1>2. [GNext]_gvars => [SNext]_svars
  <2>1. ASSUME NEW isAnomalous \in BOOLEAN, NEW gap \in Gaps,
               Tick(isAnomalous, gap)
        PROVE  SNext
    BY <2>1 DEF Tick, SNext
  <2>2. ASSUME Restart PROVE SNext  BY <2>2 DEF Restart, SNext
  <2>3. ASSUME UNCHANGED gvars PROVE UNCHANGED svars  BY <2>3 DEF gvars
  <2> QED BY <2>1, <2>2, <2>3 DEF GNext
<1> QED BY <1>1, <1>2, PTL DEF GSpec, SSpec

-----------------------------------------------------------------------------
IInv ==
  /\ state \in States
  /\ prevSuppressorState = state
  /\ readOnly \in BOOLEAN
  /\ ModeIsTruth
  /\ QuotaFollowsState

(* How an observation moves the state: Suppressed is never entered from     *)
(* Normal.                                                                  *)
LEMMA ProcessMoves ==
  ASSUME state \in States, NEW isAnomalous \in BOOLEAN, NEW gap \in Gaps,
         Process(isAnomalous, gap)
  PROVE  /\ state' \in States
         /\ state' = "Suppressed" => state # "Normal"
<1>1. CASE ProcessAnomaly(now')
  BY <1>1 DEF ProcessAnomaly, AnomalyWhenNormal, AnomalyWhenActive, FireAlert,
              Quiet, States
<1>2. CASE ProcessNormal
  BY <1>2 DEF ProcessNormal, States
<1> QED BY <1>1, <1>2 DEF Process

(* Asking for a quota keeps the memory of the controller true, and unless   *)
(* the write fails the file holds that quota afterwards.                    *)
LEMMA SetQuotaEffect ==
  ASSUME hasMode => cpuMax = mode, ~hasMode => mode = "quiescent",
         NEW m \in Modes, SetQuota(m)
  PROVE  /\ (hasMode => cpuMax = mode)' /\ (~hasMode => mode = "quiescent")'
         /\ readOnly' = readOnly
         /\ ~readOnly /\ ~lastSetErr' => cpuMax' = m
         /\ readOnly => cpuMax' = cpuMax
<1>1. CASE readOnly \/ (hasMode /\ mode = m)
  BY <1>1 DEF SetQuota
<1>2. CASE ~(readOnly \/ (hasMode /\ mode = m))
  BY <1>2 DEF SetQuota, WriteQuota
<1> QED BY <1>1, <1>2

LEMMA TickInv ==
  ASSUME IInv, NEW isAnomalous \in BOOLEAN, NEW gap \in Gaps,
         Tick(isAnomalous, gap)
  PROVE  IInv' /\ readOnly' = readOnly /\ (readOnly => cpuMax' = cpuMax)
<1>1. /\ state' \in States /\ prevSuppressorState' = state'
      /\ state' = "Suppressed" => state # "Normal"
  BY ProcessMoves DEF Tick, UpdateCgroup, IInv
<1>2. /\ hasMode => cpuMax = mode
      /\ ~hasMode => mode = "quiescent"
  BY DEF IInv, ModeIsTruth
<1>3. metricCgroupMode' = IF mode' = "burst" THEN 1 ELSE 0
  BY DEF Tick, UpdateCgroup
<1>4. CASE state' # state /\ state' = "Alerting"
  <2>1. SetQuota("burst")  BY <1>4 DEF Tick, UpdateCgroup, IInv
  <2> QED BY <1>1, <1>2, <1>3, <1>4, <2>1, SetQuotaEffect
          DEF IInv, ModeIsTruth, QuotaFollowsState, Modes
<1>5. CASE state' # state /\ state' = "Normal"
  <2>1. SetQuota("quiescent")  BY <1>5 DEF Tick, UpdateCgroup, IInv
  <2> QED BY <1>1, <1>2, <1>3, <1>5, <2>1, SetQuotaEffect
          DEF IInv, ModeIsTruth, QuotaFollowsState, Modes
<1>6. CASE state' = state \/ state' = "Suppressed"
  <2>1. UNCHANGED <<cpuMax, controller, lastSetErr>>
    BY <1>6 DEF Tick, UpdateCgroup, IInv
  <2> QED BY <1>1, <1>2, <1>3, <1>6, <2>1
          DEF IInv, ModeIsTruth, QuotaFollowsState, controller, States
<1> QED BY <1>1, <1>4, <1>5, <1>6 DEF States

LEMMA RestartInv == ASSUME IInv, Restart PROVE IInv'
<1>1. state' = "Normal" /\ prevSuppressorState' = "Normal"
      /\ metricCgroupMode' = 0 /\ mode' = "quiescent"
  BY DEF Restart, Reset
<1>2. \/ readOnly' = TRUE /\ hasMode' = FALSE
      \/ readOnly' = FALSE /\ hasMode' = TRUE /\ cpuMax' = "quiescent"
      \/ readOnly' = FALSE /\ hasMode' = FALSE /\ lastSetErr' = TRUE
  BY DEF Restart
<1>3. (state \in States /\ prevSuppressorState = state)'
  BY <1>1 DEF States
<1>4. (readOnly \in BOOLEAN)'    BY <1>2
<1>5. (hasMode => cpuMax = mode)' /\ (~hasMode => mode = "quiescent")'
  BY <1>1, <1>2
<1>6. ModeIsTruth'               BY <1>1, <1>5 DEF ModeIsTruth
<1>7. QuotaFollowsState'         BY <1>1, <1>2 DEF QuotaFollowsState
<1> QED BY <1>3, <1>4, <1>6, <1>7 DEF IInv

LEMMA InvCorrect == GSpec => []IInv
<1>1. GInit => IInv
  <2> SUFFICES ASSUME GInit PROVE IInv  OBVIOUS
  <2>1. /\ state = "Normal" /\ prevSuppressorState = "Normal"
        /\ metricCgroupMode = 0
    BY DEF GInit, SInit
  <2>2. /\ mode = "quiescent"
        /\ \/ readOnly = TRUE /\ hasMode = FALSE
           \/ readOnly = FALSE /\ hasMode = TRUE /\ cpuMax = "quiescent"
           \/ readOnly = FALSE /\ hasMode = FALSE /\ lastSetErr = TRUE
    BY DEF GInit
  <2>3. state \in States /\ prevSuppressorState = state  BY <2>1 DEF States
  <2>4. readOnly \in BOOLEAN    BY <2>2
  <2>5. ModeIsTruth             BY <2>1, <2>2 DEF ModeIsTruth
  <2>6. QuotaFollowsState       BY <2>1, <2>2 DEF QuotaFollowsState
  <2> QED BY <2>3, <2>4, <2>5, <2>6 DEF IInv
<1>2. IInv /\ [GNext]_gvars => IInv'
  <2> SUFFICES ASSUME IInv, [GNext]_gvars PROVE IInv'  OBVIOUS
  <2>1. CASE GNext  BY <2>1, TickInv, RestartInv DEF GNext
  <2>2. CASE UNCHANGED gvars
    BY <2>2 DEF IInv, ModeIsTruth, QuotaFollowsState, gvars, svars, machine,
                controller
  <2> QED BY <2>1, <2>2
<1> QED BY <1>1, <1>2, PTL DEF GSpec

(* What the controller remembers of cpu.max is what the file holds, across  *)
(* failed writes and restarts.                                              *)
THEOREM ModeCorrect == GSpec => []ModeIsTruth
<1>1. IInv => ModeIsTruth  BY DEF IInv
<1> QED BY <1>1, InvCorrect, PTL

(* Unless the last request to the controller failed, the daemon is          *)
(* throttled exactly while the suppressor is in Normal.                     *)
THEOREM QuotaCorrect == GSpec => []QuotaFollowsState
<1>1. IInv => QuotaFollowsState  BY DEF IInv
<1> QED BY <1>1, InvCorrect, PTL

(* In telemetry-only mode cpu.max is never written.                         *)
THEOREM TelemetryOnlyHolds == GSpec => TelemetryOnly
<1>1. IInv /\ [GNext]_gvars => [readOnly' => cpuMax' \in {cpuMax, "inherited"}]_gvars
  <2> SUFFICES ASSUME IInv, GNext, readOnly'
               PROVE  cpuMax' \in {cpuMax, "inherited"}
    OBVIOUS
  <2>1. CASE Restart  BY <2>1 DEF Restart
  <2>2. ASSUME NEW isAnomalous \in BOOLEAN, NEW gap \in Gaps,
               Tick(isAnomalous, gap)
        PROVE  cpuMax' = cpuMax
    BY <2>2, TickInv
  <2> QED BY <2>1, <2>2 DEF GNext
<1> QED BY <1>1, InvCorrect, PTL DEF GSpec, TelemetryOnly
=============================================================================
