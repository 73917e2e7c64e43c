------------------------------ MODULE Governor ------------------------------
(***************************************************************************)
(* The CPU governor: on every tick the agent hands the state of the        *)
(* suppressor to updateCgroup (cmd/agent/main.go), which switches the      *)
(* daemon's own CPU quota through the cgroup controller                    *)
(* (internal/cgroup/cgroup.go): "burst" (no ceiling) when an alert fires,  *)
(* "quiescent" (5% of the cores) when the suppressor is back in Normal.    *)
(*                                                                         *)
(* A write to cpu.max can fail, the process can crash and be restarted by  *)
(* systemd, and it can be started where cpu.max is not writable            *)
(* (telemetry-only mode).  The rest of a tick does not touch these         *)
(* variables.                                                              *)
(***************************************************************************)
EXTENDS Suppressor

CONSTANTS
  MaxWriteFailures,   (* bound: writes to cpu.max that fail                 *)
  MaxRestarts         (* bound: restarts of the process                     *)

ASSUME GovernorAssumption == MaxWriteFailures \in Nat /\ MaxRestarts \in Nat

VARIABLES
  cpuMax,               (* environment: the quota in the file cpu.max       *)
  mode, hasMode, readOnly,        (* the fields of cgroup.Controller        *)
  prevSuppressorState,
  metricCgroupMode,
  lastSetErr,           (* history: the last SetBurst or SetQuiescent of    *)
                        (* this process returned an error                   *)
  writeFailures, restarts         (* what has been used of the bounds       *)

controller == <<mode, hasMode, readOnly>>
gvars == <<svars, cpuMax, controller, prevSuppressorState, metricCgroupMode,
           lastSetErr, writeFailures, restarts>>

Modes  == {"quiescent", "burst"}
Quotas == Modes \cup {"inherited"}   (* inherited: what systemd configured  *)

-----------------------------------------------------------------------------
(* Mutant: the mode is remembered before the write.                         *)
WriteQuotaEager(m) ==
  /\ mode' = m /\ hasMode' = TRUE
  /\ \/ cpuMax' = m /\ lastSetErr' = FALSE /\ UNCHANGED writeFailures
     \/ /\ writeFailures < MaxWriteFailures
        /\ writeFailures' = writeFailures + 1
        /\ lastSetErr' = TRUE
        /\ UNCHANGED cpuMax

(* The os.WriteFile of a quota: it is written and remembered, or an error.  *)
WriteQuota(m) ==
  \/ /\ cpuMax' = m /\ mode' = m /\ hasMode' = TRUE
     /\ lastSetErr' = FALSE
     /\ UNCHANGED writeFailures
  \/ /\ writeFailures < MaxWriteFailures
     /\ writeFailures' = writeFailures + 1
     /\ lastSetErr' = TRUE
     /\ UNCHANGED <<cpuMax, mode, hasMode>>

(* Mutant: the quota is written once only.                                  *)
SetQuotaOnce(m) ==
  /\ IF readOnly \/ hasMode
     THEN lastSetErr' = FALSE /\ UNCHANGED <<cpuMax, mode, hasMode, writeFailures>>
     ELSE WriteQuota(m)
  /\ UNCHANGED readOnly

(* Mutant: telemetry-only mode is not looked at.                            *)
SetQuotaAlways(m) ==
  /\ IF hasMode /\ mode = m
     THEN lastSetErr' = FALSE /\ UNCHANGED <<cpuMax, mode, hasMode, writeFailures>>
     ELSE WriteQuota(m)
  /\ UNCHANGED readOnly

(* SetBurst and SetQuiescent.                                               *)
SetQuota(m) ==
  /\ IF readOnly \/ (hasMode /\ mode = m)
     THEN lastSetErr' = FALSE /\ UNCHANGED <<cpuMax, mode, hasMode, writeFailures>>
     ELSE WriteQuota(m)
  /\ UNCHANGED readOnly

(* updateCgroup: only a change of the state reaches the controller, and     *)
(* Suppressed asks for nothing.  The error is logged.                       *)
UpdateCgroup(newState) ==
  /\ prevSuppressorState' = newState
  /\ CASE newState # prevSuppressorState /\ newState = "Alerting" ->
            SetQuota("burst")
       [] newState # prevSuppressorState /\ newState = "Normal" ->
            SetQuota("quiescent")
       [] OTHER ->
            UNCHANGED <<cpuMax, controller, lastSetErr, writeFailures>>
  /\ metricCgroupMode' = IF mode' = "burst" THEN 1 ELSE 0

Tick(isAnomalous, gap) ==
  /\ Process(isAnomalous, gap)
  /\ UpdateCgroup(state')
  /\ UNCHANGED restarts

-----------------------------------------------------------------------------
(* newAgent: a new suppressor, a new controller that has probed whether     *)
(* cpu.max is writable (ro says it is not), and a first SetQuiescent.       *)
GInit ==
  /\ SInit
  /\ prevSuppressorState = "Normal"
  /\ metricCgroupMode = 0
  /\ restarts = 0
  /\ \/ /\ readOnly = TRUE
        /\ cpuMax = "inherited" /\ mode = "quiescent" /\ hasMode = FALSE
        /\ lastSetErr = FALSE /\ writeFailures = 0
     \/ /\ readOnly = FALSE
        /\ cpuMax = "quiescent" /\ mode = "quiescent" /\ hasMode = TRUE
        /\ lastSetErr = FALSE /\ writeFailures = 0
     \/ /\ readOnly = FALSE
        /\ cpuMax = "inherited" /\ mode = "quiescent" /\ hasMode = FALSE
        /\ lastSetErr = TRUE /\ writeFailures = 1
        /\ MaxWriteFailures > 0

(* A crash loses everything but the file; systemd starts the process again, *)
(* in the same cgroup or in a new one.  A fresh suppressor is a reset one.  *)
Restart ==
  /\ restarts < MaxRestarts
  /\ restarts' = restarts + 1
  /\ Reset
  /\ prevSuppressorState' = "Normal"
  /\ metricCgroupMode' = 0
  /\ mode' = "quiescent"
  /\ \E quota \in {cpuMax, "inherited"} :
       \/ /\ readOnly' = TRUE
          /\ cpuMax' = quota /\ hasMode' = FALSE
          /\ lastSetErr' = FALSE /\ UNCHANGED writeFailures
       \/ /\ readOnly' = FALSE
          /\ cpuMax' = "quiescent" /\ hasMode' = TRUE
          /\ lastSetErr' = FALSE /\ UNCHANGED writeFailures
       \/ /\ readOnly' = FALSE
          /\ cpuMax' = quota /\ hasMode' = FALSE
          /\ lastSetErr' = TRUE
          /\ writeFailures < MaxWriteFailures
          /\ writeFailures' = writeFailures + 1

GNext ==
  \/ \E isAnomalous \in BOOLEAN, gap \in Gaps : Tick(isAnomalous, gap)
  \/ Restart

GSpec == GInit /\ [][GNext]_gvars

-----------------------------------------------------------------------------
GTypeOK ==
  /\ STypeOK
  /\ cpuMax \in Quotas
  /\ mode \in Modes /\ hasMode \in BOOLEAN /\ readOnly \in BOOLEAN
  /\ prevSuppressorState \in States
  /\ metricCgroupMode \in {0, 1}
  /\ lastSetErr \in BOOLEAN
  /\ writeFailures \in 0 .. MaxWriteFailures /\ restarts \in 0 .. MaxRestarts

(* What the controller remembers is what the file holds, across failed      *)
(* writes and restarts: a stale memory would make it skip a needed write.   *)
ModeIsTruth ==
  /\ hasMode => cpuMax = mode
  /\ ~hasMode => mode = "quiescent"
  /\ metricCgroupMode = 1 => cpuMax = "burst"

(* The quota follows the suppressor: unless the last request failed, the    *)
(* daemon is throttled exactly while the suppressor is in Normal.           *)
QuotaFollowsState ==
  (~readOnly /\ ~lastSetErr) =>
    cpuMax = IF state = "Normal" THEN "quiescent" ELSE "burst"

(* In telemetry-only mode nobody writes cpu.max ("File incorrectly modified *)
(* despite read-only fallback mode").                                       *)
TelemetryOnly == [][readOnly' => cpuMax' \in {cpuMax, "inherited"}]_gvars
=============================================================================
