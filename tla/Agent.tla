-------------------------------- MODULE Agent -------------------------------
(***************************************************************************)
(* What a tick of the agent observes and emits (cmd/agent/main.go): it     *)
(* takes at most one injected spike, asks the suppressor, pushes the       *)
(* observation into the ring, counts it in the heartbeat, and emits in     *)
(* this order an anomaly alert with the ring as its context, a drift alert *)
(* and a heartbeat.  The quota and the interval of the same tick are those *)
(* of modules Governor and Sampling.                                       *)
(*                                                                         *)
(* The tick runs in the main goroutine.  The handlers of /inject/anomaly   *)
(* run in goroutines of their own and share injectSpikes with it: the tick *)
(* loads it and swaps it in two steps.                                     *)
(***************************************************************************)
EXTENDS Suppressor, RingBuffer, Heartbeat

CONSTANTS
  Loads,       (* inferences per second the synthetic workload can give     *)
  MaxInjects   (* bound: calls of /inject/anomaly                           *)

ASSUME AgentAssumption == Loads \subseteq Nat /\ MaxInjects \in Nat

VARIABLES
  workload,         (* what a sample can be: {0} when aiGen is nil          *)
  spikes,           (* injectSpikes                                         *)
  loaded, spiked,   (* of the tick: what Load returned; a spike was taken   *)
  apc,              (* where the main goroutine is                          *)
  prevDrifting, lastDriftAlert,
  out,              (* events of the tick, as handed to emitEvent           *)
  injects,          (* handlers that have run                               *)
  served,           (* history: spiked samples since the last of them       *)
  flushed,          (* history: totals of all heartbeats emitted            *)
  driftSent, calm   (* history: when the last drift alert was emitted, and  *)
                    (* whether a tick without drift came after it           *)

inject == <<spikes, injects, served>>
drift  == <<prevDrifting, lastDriftAlert, driftSent, calm>>
beats  == <<hvars, flushed>>
avars  == <<svars, rvars, beats, inject, workload, loaded, spiked, apc, drift,
           out>>

TickSteps == {"load", "swap", "observe", "flush"}

AInit ==
  /\ SInit /\ RInit /\ HInit
  /\ workload \in {{0}, Loads}
  /\ spikes = 0 /\ loaded = 0 /\ spiked = FALSE /\ apc = "load"
  /\ prevDrifting = FALSE /\ lastDriftAlert = Never
  /\ driftSent = Never /\ calm = TRUE
  /\ out = <<>>
  /\ injects = 0 /\ served = 0
  /\ flushed = [samples |-> 0, anomalous |-> 0, suppressed |-> 0, sum |-> 0]

-----------------------------------------------------------------------------
(* A handler of /inject/anomaly: three spikes, whatever was left.           *)
Inject ==
  /\ injects < MaxInjects
  /\ spikes' = 3
  /\ injects' = injects + 1
  /\ served' = 0
  /\ UNCHANGED <<svars, rvars, beats, workload, loaded, spiked, apc, drift,
                 out>>

(* The loop of collectUsage: Load, and CompareAndSwap until it succeeds.    *)
LoadSpikes ==
  /\ apc = "load"
  /\ loaded' = spikes
  /\ spiked' = FALSE
  /\ out' = <<>>
  /\ apc' = IF spikes > 0 THEN "swap" ELSE "observe"
  /\ UNCHANGED <<svars, rvars, beats, inject, workload, drift>>

(* Mutant: a store in the place of the compare-and-swap.                    *)
SwapSpikesBlindly ==
  /\ apc = "swap"
  /\ spikes' = loaded - 1
  /\ spiked' = TRUE
  /\ apc' = "observe"
  /\ UNCHANGED <<svars, rvars, beats, injects, served, workload, loaded,
                 drift, out>>

SwapSpikes ==
  /\ apc = "swap"
  /\ \/ /\ spikes = loaded
        /\ spikes' = loaded - 1
        /\ spiked' = TRUE
        /\ apc' = "observe"
     \/ /\ spikes # loaded
        /\ apc' = "load"
        /\ UNCHANGED <<spikes, spiked>>
  /\ UNCHANGED <<svars, rvars, beats, injects, served, workload, loaded,
                 drift, out>>

Throughput(load) ==
  IF ~spiked THEN load ELSE IF load = 0 THEN 500 ELSE 50 * load

-----------------------------------------------------------------------------
(* Mutant: the context of an alert is read before the tick is pushed.       *)
AlertEventsBefore ==
  IF shouldAlert' THEN <<[type |-> "anomaly_alert", preContext |-> Snapshot]>>
  ELSE <<>>

(* emitAnomalyAlert and handleDrift, in a tick whose time is now'.          *)
AlertEvents ==
  IF shouldAlert' THEN <<[type |-> "anomaly_alert", preContext |-> Snapshot']>>
  ELSE <<>>

DriftDue(isDrifting) ==
  /\ isDrifting
  /\ prevDrifting => now' - lastDriftAlert >= HoldoffDuration

DriftEvents(isDrifting) ==
  IF DriftDue(isDrifting) THEN <<[type |-> "drift_alert"]>> ELSE <<>>

(* Mutant: the time of the last alert moves with every drifting tick.       *)
HandleDriftPostpones(isDrifting) ==
  /\ prevDrifting' = isDrifting
  /\ lastDriftAlert' = IF isDrifting THEN now' ELSE lastDriftAlert
  /\ driftSent' = IF DriftDue(isDrifting) THEN now' ELSE driftSent
  /\ calm' = (~isDrifting \/ (calm /\ ~DriftDue(isDrifting)))

HandleDrift(isDrifting) ==
  /\ prevDrifting' = isDrifting
  /\ lastDriftAlert' = IF DriftDue(isDrifting) THEN now' ELSE lastDriftAlert
  /\ driftSent' = IF DriftDue(isDrifting) THEN now' ELSE driftSent
  /\ calm' = (~isDrifting \/ (calm /\ ~DriftDue(isDrifting)))

(* From supp.Process to handleDrift nothing another goroutine does is read. *)
Observe(isAnomalous, isDrifting, gap, load) ==
  /\ apc = "observe"
  /\ apc' = "flush"
  /\ Process(isAnomalous, gap)
  /\ RPush([timestamp |-> now', anomalous |-> isAnomalous])
  /\ HObserve(Throughput(load), isAnomalous, state' = "Suppressed")
  /\ HandleDrift(isDrifting)
  /\ out' = AlertEvents \o DriftEvents(isDrifting)
  /\ served' = served + One(spiked)
  /\ UNCHANGED <<flushed, spikes, injects, workload, loaded, spiked>>

FlushHeartbeat ==
  /\ apc = "flush"
  /\ apc' = "load"
  /\ \/ /\ ShouldFlush(now)
        /\ NewWindow(now)
        /\ out' = Append(out, [type |-> "heartbeat", summary |-> Summary(now)])
        /\ flushed' = [f \in DOMAIN flushed |-> flushed[f] + Summary(now)[f]]
     \/ /\ ~ShouldFlush(now)
        /\ UNCHANGED <<beats, out>>
  /\ UNCHANGED <<svars, rvars, inject, workload, loaded, spiked, drift>>

ANext ==
  \/ Inject
  \/ LoadSpikes \/ SwapSpikes
  \/ \E isAnomalous, isDrifting \in BOOLEAN, gap \in Gaps,
        load \in workload :
       Observe(isAnomalous, isDrifting, gap, load)
  \/ FlushHeartbeat

ASpec == AInit /\ [][ANext]_avars

-----------------------------------------------------------------------------
Observations == [timestamp : Nat, anomalous : BOOLEAN]

ATypeOK ==
  /\ STypeOK /\ RTypeOK(Observations) /\ HTypeOK
  /\ workload \subseteq Nat
  /\ spikes \in Nat /\ loaded \in Nat
  /\ spiked \in BOOLEAN /\ apc \in TickSteps
  /\ prevDrifting \in BOOLEAN /\ calm \in BOOLEAN
  /\ lastDriftAlert \in Nat \cup {Never} /\ driftSent \in Nat \cup {Never}
  /\ injects \in Nat /\ served \in Nat
  /\ flushed \in [{"samples", "anomalous", "suppressed", "sum"} -> Nat]

(* Every observation is in exactly one heartbeat, the tick that flushes     *)
(* included, and the heartbeats' anomalies are the suppressor's.  (Their    *)
(* suppressed samples are more: normal samples count while the suppressor   *)
(* is in Suppressed.)  A heartbeat is never overdue after a tick.           *)
HeartbeatAccount ==
  /\ flushed.samples + totalSamples = observed
  /\ flushed.anomalous + anomalousCount = totalAnomalies
  /\ flushed.suppressed + suppressedCount >= totalSuppressed
  /\ ExtremesOfWindow
  /\ windowStart <= now
  /\ apc = "load" => now - windowStart < HeartbeatInterval

(* An injection is three spiked samples: a concurrent tick neither undoes   *)
(* it nor is undone by it, and only the sample already taken when it came   *)
(* can make a fourth.                                                       *)
BurstOfThree ==
  LET owed == spikes + served + One(apc = "observe" /\ spiked)
  IN  IF injects = 0 THEN owed = 0 ELSE owed \in {3, 4}

(* An alert's context ends with the tick that raised it and the whole run   *)
(* of anomalies before it, as far as the ring holds it.                     *)
AlertContext ==
  \A e \in {out[i] : i \in DOMAIN out} : e.type = "anomaly_alert" =>
    LET newest(k) == e.preContext[Len(e.preContext) - k]   (* k ticks ago   *)
    IN  /\ newest(0).timestamp = now
        /\ \A k \in 0 .. Len(e.preContext) - 1 :
             /\ k < consecutiveAnoms => newest(k).anomalous
             /\ k = consecutiveAnoms => ~newest(k).anomalous

(* While drift lasts there is an alert in each holdoff; two alerts are a    *)
(* holdoff apart, or drift stopped in between.                              *)
DriftAlerted ==
  apc = "observe" /\ \E i \in DOMAIN out' : out'[i].type = "drift_alert"
DriftAlerts ==
  [][/\ DriftAlerted => \/ driftSent = Never
                        \/ now' - driftSent >= HoldoffDuration
                        \/ calm
     /\ prevDrifting' => \/ driftSent' = now'
                         \/ now' - driftSent' < HoldoffDuration]_avars
=============================================================================
