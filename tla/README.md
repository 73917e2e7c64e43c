# Verification of EdgeTelemetryDaemon

TLA+ models of the daemon, the TLC runs that check them on small instances, and
theorems about them that TLAPS checks for every value of the constants.
`PROJECT.json` is the index: components, runs, mutants, the map from definitions
to source lines, hazards, findings and theorems. Paths below are relative to the
repository.

## 1. The system

One Go process. A main loop ticks at an adaptive interval; every tick reads the
machine, scores the sample, updates the CPU quota of the daemon itself, and
emits events. An event goes to stdout, to the outbox, and to every live stream.
Workers take events from the outbox and POST them to a remote endpoint.

```
 /proc, synthetic load            /inject/anomaly handlers
        |                                |  injectSpikes (atomic)
        v                                v
   collectUsage -> detector -> suppressor -> updateCgroup -> cpu.max
                      |             |
                      |             +-> ring (context), heartbeat
                      v                        |
               computeInterval            emitEvent
                      |                  /     |     \
                ticker.Reset        stdout  outbox   broadcast
                                               |        |  one channel per client
                                            workers   uds / sse handlers
                                               |
                                          HTTP endpoint
```

| Component | State | Operations | Shared with | What makes it correct |
|---|---|---|---|---|
| outbox (`internal/outbox/queue.go`) | ring, head, tail, count, semaphore channel, closed | Push, Pop (ctx check, fast path, select, slow path), Close, Stats | main loop pushes, workers pop; mutex and channels | a bounded FIFO queue; no lost wakeup; Close and cancel unblock; counters account for every event |
| dispatcher (`internal/transport/dispatcher.go`) | per worker: event, attempt, backoff; three counters | Run, workerLoop, dispatchWithRetry, postEvent | outbox, endpoint, the context of main | no event with two workers; bounded duplicates; nothing lost in silence; Run returns |
| suppressor (`internal/filter/suppressor.go`) | Normal/Alerting/Suppressed, run lengths, lastAlertTime | Process, Reset | called by the tick | alerts are spaced; the state agrees with the runs |
| cgroup governor (`internal/cgroup/cgroup.go`, `updateCgroup`) | mode, hasMode, readOnly; the file cpu.max | SetBurst, SetQuiescent, newAgent | suppressor, kernel, systemd | what it remembers is what the file holds; quota follows the suppressor; read-only is respected |
| sampling controller (`computeInterval`) | tauPrev, the ticker's period | tick, ticker.Reset | detector's outputs, configuration | bounded, fastest at the peak, gradual way back, a legal period |
| live streams (`subscribe` … `broadcast`, UDS and /events handlers) | map of channels, channels, handler positions | subscribe, unsubscribe, broadcast, handler steps | subsMu, clients, deadlines | no send to a closed channel; order; a slow client holds up nobody; no leaked handler |
| context ring (`internal/filter/ringbuffer.go`) | buf, head, count | Push, Snapshot, Reset | tick | Snapshot is the latest entries in order |
| heartbeat (`internal/filter/heartbeat_aggregator.go`) | window counters, min, max, sum | Observe, ShouldFlush, Flush, Reset | tick | every sample in one window; no leak between windows |
| agent tick (`cmd/agent/main.go`) | injectSpikes, prevDrifting, lastDriftAlert | tick, emitEvent, /inject/anomaly | all of the above | the events of a tick are right and in order |
| daemon lifecycle (`func main`) | WaitGroup, context, HTTP server | start, signal, shutdown | dispatcher, HTTP clients | the shutdown ends, in the right order, without a panic |
| detector (`internal/engine`) | per metric: short mean and variance, slow mean, count; n, zscore, driftIndex, drifting | Update, with the updates and scores it calls | tick | every tick is scored against the statistics before it; a baseline stays among what was observed; a burst is flagged before it is learned |
| collectors (`internal/collector`, `collectUsage`) | the two structs the parsers fill in place, prevCPU, hasPrevCPU, two gauges | CollectCPU, CollectMem, collectUsage | kernel, detector, saturation | torn rows, standing or falling counters and failed reads make neither a non-finite nor an impossible observation |
| UDS accept loop, HTTP server (`cmd/agent/main.go`) | listener, loop, handlers | Accept, close on cancel, Serve | handlers, shutdown | failures of Accept do not end the service; the shutdown ends it |
| metrics, configuration, endpoints, deployment | atomics; none | read-only or parsing | | |

What is hard here: Pop's window between taking a token and getting the mutex;
eviction against concurrent pops; requests that time out but arrive; a shutdown
at any point of a retry; `subsMu` against handlers that leave during a
broadcast; failed writes to cpu.max and crashes between a write and the next
tick; the compare-and-swap on injectSpikes against the handler's store; holdoff
arithmetic over long sequences; the double `Done` on the WaitGroup; structs that
are parsed in place and keep half of an old sample; statistics that learn the
burst they are to report; a shutdown that meets broadcasts, handlers, requests
and workers in any position. The full
list with lines is under `hazards` in `PROJECT.json`.

## 2. Modules

`X` is a component, `XProofs` its theorems, `MCX` and `MCX*.cfg` its instances.

| Module | Models | Built on |
|---|---|---|
| `OutboxQueue` | what the outbox promises: a bounded FIFO queue, Pop as a call that lasts | |
| `Outbox` | the ring and the semaphore; each critical section and each step of Pop's select | refines `OutboxQueue` |
| `Dispatcher` | workers, retries, backoff, endpoint and network, cancel | EXTENDS `OutboxQueue` |
| `Suppressor` | Process and Reset as guarded transitions | |
| `Governor` | updateCgroup and the controller; crash and restart | EXTENDS `Suppressor` |
| `Floats` | NaN, rounding, the square root: the arithmetic of the modules below | |
| `Sampling` | validate, computeInterval over integers and NaN; the ticker | EXTENDS `Floats` |
| `Collector` | the scrapers of /proc/stat and /proc/meminfo, collectUsage, the kernel behind them | EXTENDS `Floats` |
| `Detector` | Update: short and slow statistics, scores, drift | EXTENDS `Floats` |
| `Sensing` | the tick as a control loop: collector, detector, saturation, suppressor, interval | EXTENDS `Collector`, `Detector`, `Suppressor`, `Sampling` |
| `Subscribers` | broadcast one channel at a time; UDS and SSE handlers | |
| `RingBuffer`, `Heartbeat` | the two filters of the tick | |
| `Agent` | the tick and the handlers of /inject/anomaly | EXTENDS `Suppressor`, `RingBuffer`, `Heartbeat` |
| `Daemon` | func main from start to exit: what the rest of the process may rely on | dispatcher by its promise that Run returns |
| `Process` | all goroutines of the process: main, dispatcher, accept loop, listeners, handlers, broadcasts | EXTENDS `Subscribers`, refines `Daemon` |

How state and actions correspond to the code:

- **Outbox.** `items, head, tail, count, closed` are the fields; `sem` is the number
  of tokens in the channel. A section under `o.mu` is one action (`Push`,
  `TakeHead` with `DrainToken` on the fast path, `UseToken`, `DrainAfterClose`).
  `pc[p]` separates `ctx.Err()` (`CheckCtx`), the fast path (`FastPath`), the
  select (`SelectCtxDone`, `SelectClosedCh`, `SelectSem`: any ready case) and the
  section after it. A Push to a closed queue changes nothing and is no step.
- **Dispatcher.** The poppers of `OutboxQueue` are the workers; `result[w]` is the
  event in hand. `wpc` is loop, post, backoff or done. A request may be accepted,
  refused, lost, lose its answer, or arrive after the worker gave it up (`late`).
  Retries are counted where the code counts them, before the backoff.
- **Suppressor.** Time is in units; a gap from `Gaps` passes between observations.
  `FireAlert`, `Quiet` and the rest are the branches of the switch.
- **Governor.** `cpuMax` is the file, `mode/hasMode/readOnly` the controller.
  A write may fail (bounded). `Restart` forgets everything but the file; a new
  cgroup may have been made ("inherited").
- **Collector.** `kernelCPU` and `kernelMem` are the true counters; `cpuStats` and
  `memStats` the structs the agent keeps. One field of work and one of the rest
  stand for the ten of the row, since the code only adds them up. `ParseCPULine`
  takes the number of fields that were good: a torn row leaves the first bad one
  at zero and the total at its old value (`CPUFails`); `MemPartial` is a meminfo
  in which one of the two lines was recognised, which the code takes for a good
  read; `MemUnreadable` leaves everything. `Usage` compares the totals and
  subtracts the work modulo `Counters` (2^64). `CollectUsage` is the whole
  function with the spike; its load and swap of injectSpikes are apart in
  `Agent`, and one step here.
- **Detector.** `det` is the struct: `mean`, `vr` and `count` of StreamingStats, `slow`
  of the slow EWMA, `n`, and the three results that outlive an Update. `Update`
  is gated on finite observations as the code is, and then changes nothing but
  what it returns. `ZScoreSq` is the square of calculateZScore, so that
  math.Hypot is a sum under one root.
- **Numbers.** A float64 is an integer in a unit its module names, rounded to the
  nearest after each operation the code rounds in; everything not finite is
  `NaN`. The unit of a run (a quarter of a percent, a tenth of a standard
  deviation) decides how exactly a score is known, not which branches exist;
  scores from `MaxScore` on are one, all of them beyond both thresholds
  (`SensingAssumption`). The theorems hold for every unit.
- **Sensing.** `SensingTick` is tick from collectUsage to ticker.Reset in its order; the
  suppressor's time moves by `period`, the interval the last tick chose. The
  events of a tick are those of `Agent`.
- **Sampling.** The z-score is an integer in the unit of RateTheta and the drift
  index one in the unit of DriftThreshold, so that the ratio is exact; truncation
  to a Duration is the integer division. NaN is a value of its own.
- **Subscribers.** `Send(c)` visits one channel, in any order, as Go ranges over a
  map. `broadcasting` is the read lock: subscribe and unsubscribe wait for it. A
  write reaches the client or fails; after `Expire` (WriteTimeout) it always fails.
- **Process.** `Serve(c)` is a connection accepted, or a request taken, and its
  handler started. Main broadcasts inside a tick and looks at the context only
  between two (`StopServing`). `AcceptFails` ends the loop once the context is
  canceled; before that it changes nothing. The variables of `Daemon` that the
  process does not keep are defined from its own: the streams that hold Shutdown
  are the SSE handlers still running.
- **Agent.** `LoadSpikes` and `SwapSpikes` are the loop of collectUsage; `Inject`
  may run between them. `Observe` is the suppressor, the ring and the heartbeat's
  Observe with the alerts they lead to; the heartbeat's check and flush follow in
  a step of their own.
- **Daemon.** `wg` is the WaitGroup's counter. The goroutine runs `Run`, the
  deferred `Done`, and the `Done` of `wg.Go`.

History variables (marked so where they are declared) are read by properties
only, never by a guard that stands for code.

## 3. Runs

| Run | Bounds | Shows |
|---|---|---|
| `outbox` | 2 poppers, capacity 2, 4 pushes, both policies | implements `OutboxQueue` (`Refinement`), `NoLostWakeup`, `RingWellFormed`, `StatsAccount`; a popper never sleeps beside an event (`QueuedIsServed`), Close and cancel unblock it (`PopUnblocks`) |
| `dispatcher` | 2 symmetric workers, capacity 1, DropOldest, 3 events, 1 retry | counters account for events, at most MaxRetries+1 deliveries, one worker per event, nothing lost in silence before the shutdown |
| `dispatcher_live` | 2 workers, 2 events, both policies, no symmetry | events leave outbox and worker; workers end |
| `governor` | holdoff 6, gaps {1,4}, 2 anomalies / 3 normals, 9 observations, 2 failed writes, 1 restart | `AlertSpacing`, `ModeIsTruth`, `QuotaFollowsState`, `TelemetryOnly` |
| `suppressor_holdoff` | holdoff 10, gaps {1,5}, 8 observations | finding, see below |
| `sensing` | load 50% or 40%, memory 50% or 96% used, 1 fault (a failed, torn or partial read, counters that stand still or go back, more memory available than there is), 1 injection, 5 ticks, warm-up of 2, 2 anomalies / 3 normals, holdoff 12, tau 3..10, theta 35 (3.5 deviations), step 2 | every tick is fed (`FedEveryTick`), `UsageInRange`, `BaselineInRange`, `SaturationAlerts`, `BurstAlerts`, `IntervalBounded`, `NoChattering` |
| `sampling_period` | the controller alone, tau 0..7, theta 4, 9 ticks, NaN among the inputs | finding |
| `subscribers` | one client of each kind, channels of 1, 2 events | no panic, order, loss only when full, broadcasts end, handlers end |
| `subscribers_sse` | one SSE client | finding |
| `agent` | 2 anomalies / 2 normals, holdoff 4, gaps {1,4}, 5 ticks, ring of 3, heartbeat 5, 2 injections | ring, heartbeat, burst of three, context of alerts, spacing of drift alerts |
| `process` | one client of each kind, channels of 1, 1 event, ETD_TARGET_URL unset | implements `Daemon` (`Lifecycle`); `WorkersStopBeforeExit`; main gets through the shutdown whatever clients do (`ShutdownEnds`); `ClientsSubscribed` |
| `daemon_shutdown` | `Daemon` alone, 2 SSE clients, 2 ticks | finding |

Why the bounds are enough. Capacity 2 with 4 pushes wraps the ring and overflows
it with poppers on every step of Pop; with two poppers one can steal the event
behind the other's token, which is the lost-wakeup scenario. Capacity 1 makes
the dispatcher's outbox evict while a worker is busy (that both are takes a
fourth event, more than 17 million states: there the theorems stand alone); one
retry gives a request that is given up, arrives late, and is sent again. In `governor` the gap
4 steps over the holdoff in two observations and 1 does not, and 9 observations
hold two episodes and a restart. In `sensing` the warm-up ends after two of five
ticks, which leaves three for a burst of three samples, two of which the
suppressor needs; a fault and a burst fall in any order and on any tick, the
torn row before or after the first good sample. With two faults (1.6 million
states) the invariants were found to hold too. The drift threshold and the
smoothing factors 1/10 and 1/100 are those main configures. In `process` one
event and channels of one suffice for a broadcast that meets a full channel, a
handler that leaves and a signal; more clients and events are the matter of
`subscribers`. In `subscribers` a channel of 1 is full after the first event of
two. In `agent` five observations overwrite a ring of 3, cross a heartbeat of 5,
and hold two drift alerts; two injections overlap in every way with the load and
the swap. Where a theorem covers a property (section 5), the bound only matters
for confidence while developing.

Deadlock is checked in `outbox` and `suppressor_holdoff`, where a call is always
possible. The other models stop when their bounds are used up or the process has
ended, and their cfg says so.

Every property of a passing run is paired with a mutant of the code (a dropped
guard, a swapped order, a missing reset) that it catches; the mutated operators
stand beside the originals, marked `Mutant`.

## 4. Fairness

- `Outbox`: weak fairness of each popper's steps inside Pop. Go schedules runnable
  goroutines and the mutex's sections do not block. Nobody is obliged to call
  Pop, Push, Close or cancel. `QueuedIsServed` holds for a behaviour with finitely
  many pushes; with pushes for ever, sync.Mutex and select decide which popper is
  served, and the model does not claim that each of them is.
- `Dispatcher`: weak fairness of each worker. Pop returns when it can (shown by
  `Outbox`), a request ends by http.Client.Timeout, a backoff by its timer. The
  endpoint and the network owe nothing.
- `Subscribers`: weak fairness for the sends of a broadcast that has begun and for
  each handler's receive and write, which a deadline bounds. Strong fairness for
  subscribe and unsubscribe: they wait for the write lock, and sync.RWMutex does
  not let readers starve a writer. Broadcasts need not begin, clients need not
  read.
- `Process`: weak fairness for main, the dispatcher's goroutine up to its deferred Done
  (`DispatcherReturns`), and the goroutine that closes the listener: Shutdown's
  timeout fires, Run returns (`dispatcher_live` shows it), and Go's select takes a
  ready case eventually. The second Done of the dispatcher's goroutine is left
  without fairness: its panic would end every shutdown by itself (finding 1),
  and `ShutdownEnds` would say nothing of main, the timeout and the clients. Accept fails on a
  closed listener (weak), and on an open one succeeds again and again for a
  client that waits (strong: errors may come in between). Handlers as in
  `Subscribers`.

## 5. Theorems

Assumptions are those on the constants, named `...Assumption` in each module;
TLC evaluates them on every run.

- **`OutboxProofs`**: `TypeCorrect`, `WakeupsSafe`, `StatsCorrect`, `RingCorrect`,
  `OutboxImplementsQueue`, for every capacity, both policies, any finite set of poppers. `NoLostWakeup` is inductive
  relative to `TypeOK`: a push that adds an event adds a token unless the channel
  is full, and then the tokens already cover the ring; a popper that takes a token
  becomes a holder (`HolderEnters`), and gives that up only under the mutex, where
  it takes an event or finds none (`HolderLeaves`). `RingWellFormed` contains a
  modulus, so it is proved in the form `RingInv`, where `Offset` says how far a
  slot lies behind the head; `RingInvEquiv` says that the two are the same.
  - `OutboxImplementsQueue`: the abstract queue has `count` events, the one at position
    `i` in the slot `At(i)` behind the head (`QueueIs`, `QueueAt`). A Push that fits
    appends, one that evicts appends to the tail, and taking the head is `QPopEvent`;
    a popper is `calling` from the start of Pop to its return. Tokens, the context
    check and the choice of select map to stutters. `RingInv` is what makes the
    slot of an append the one behind the last, whatever has wrapped.
- **`DispatcherProofs`**: `TypeCorrect` and all safety properties of `Dispatcher`, for
  every number of workers, retries and events.
  - `AccountCorrect`: sent, failed and held events add up to the popped ones; a
    step of a worker moves an event between the three. Only a cancel takes one out.
  - `OneWorkerCorrect`: `OneWorkerPerEvent` is not inductive, a queue with an event
    twice would break it. `Fifo` is: the queue is in the order of the event numbers,
    and workers hold distinct events, older than all of the queue.
  - `DuplicatesCorrect`: `Tried` bounds the deliveries of a held event, those that may
    still arrive late included, by the attempt its worker is in, and says that an
    event still in the queue was never sent. A step changes this for the event of
    its own worker only, and that no other worker has it is `Fifo`.
  - `DispatchedCorrect`, `LossesCounted`: `LossInv` follows two sets over `Tried`, the
    events that were taken and have no worker (`Settled`: at least as many as are
    counted as sent) and those that were taken or have one (`Seen`: a popped event
    outside of it is counted as failed).
  - `RetriesCorrect`: a worker in a backoff is past its first attempt (`RetryInv`).
  - `QueueInside`: a step of the dispatcher is a step of the abstract queue or leaves
    it alone; by `OutboxImplementsQueue` the ring is one such queue.
- **`SuppressorProofs`**: `CountersCorrect`, `AlertsSpaced`. The invariant `SInv` adds to
  the types what the state says of the run lengths, and the distance to the last
  alert: either the holdoff has passed or a whole quiet period has been seen.
- **`GovernorProofs`**: `SuppressorInside` (each step of the governor is a step of the
  suppressor, a Reset at a restart, or a stutter), `ModeCorrect`, `QuotaCorrect`,
  `TelemetryOnlyHolds`.
- **`SensingProofs`**, in two parts. For `Sampling` alone, with any outputs of a
  detector: `Bounded`, `Recovers`, and `NoTickerPanic`: with `RateTauMin > 0` the
  period is always legal, so the missing check is the whole defect. For the
  loop: `FedCorrect`, `UsageCorrect`, `LoopBounded`, `LoopCalm`, `SaturationCorrect`,
  `BaselineCorrect`, for every unit, width of the counters, smoothing factor,
  threshold, and every set of readings.
  - `CPUSamples` is what parsing in place must not break: `prevCPU`, once there is
    one, is a whole sample, and no counter has fallen behind it unless the kernel's
    went back after it (`wentBack`). Then the work is at most the total between two samples, no
    subtraction wraps (`UsageStep`), and `PercentRange` bounds the quotient.
  - From finite observations the detector makes numbers (`ObservedTyped`), so
    `LoopInv` feeds the controller's `StepInv` with them.
  - `SaturationInv`: the run of ticks that know of too little memory is at most the
    suppressor's run of anomalies; outside of Normal there is an alert, and an
    anomaly alerts anew, counts, or lies within the holdoff (`AnomalyEnds`).
  - `BurstAlertsCorrect` is about the numbers the daemon is built with, which
    `ShippedNumbers` names: smoothing 1/10, threshold 3, an alert after at most two
    anomalies. The first sample of a burst is at least six deviations off
    (`FirstScores`). It moves a mean by a tenth of its distance and adds at most a
    tenth of the square to the variance, so that the next sample, which may have
    dropped by ten points, still has 4.6 variances' worth of squared distance in
    each metric (`NextAfterFirst`, `SecondScore`); over both the sum exceeds the
    square of the threshold. `BurstInv` carries that from the first tick to the
    second, through the rounding of every mean, variance and score. A metric that
    has never moved has no score, which is why one of the two must have moved.
    The statement would be false for three anomalies in a row.
  - `InRange`: the rounded weighted mean of two numbers lies between bounds of both
    (`WeightedBetween`, `MovedBetween`), and with squares for numbers the same
    lemma bounds the variance.
- **`SubscribersProofs`**, for any number of clients, size of the channels and events.
  - `NoPanicCorrect`: the channels still to be visited are in the map
    (`PendingSubscribed`), a closed channel is not in the map, and only a handler
    that left has one.
  - `InOrderCorrect`, `LossCorrect`: `StreamInv`. What a client received, the event its
    handler writes and what waits in its channel are one ascending sequence
    (`Ascending`), of events no later than those broadcast so far, and before the
    current one while the client is still to be visited (`Place`, `Sofar`). An event
    after the first is in it or was dropped on a full channel (`NothingLost`). Every
    step shifts an event inside the sequence (`StreamShifts`), moves its end
    (`StreamGrows`), or loses one by a failed write, after which no claim is made.
- **`ProcessProofs`**, over the theorems of `SubscribersProofs`.
  - `StreamsInProcess`: a step of the process is a step of `Subscribers` or leaves its
    state alone, so `StreamsHoldInProcess` needs no new invariant.
  - `LifecycleCorrect`: `PInv` says that the WaitGroup's counter is what the goroutine
    and its two calls of Done make it, and that main broadcasts and serves only in its
    loop. Each action then is one of `Daemon`'s, or changes none of its variables.
  - `WorkersCorrect`: from `PInv`; main gets past `wg.Wait` only with a counter of zero.
- **`AgentProofs`**: `SnapshotCorrect` (entry `i` of the latest ones is in `Cell(i)`),
  `SuppressorInTick` (a step simulation, from which the theorems on
  the suppressor carry over), `HeartbeatCorrect`, `BurstCorrect`,
  `AlertContextCorrect`, `DriftAlertsCorrect`, `ContextCorrect`, `TypeCorrect`. The ring's
  end is the current run of anomalies, at least as long as the suppressor's
  counter says or the ring allows; that is what puts the anomalies that raised
  an alert into its context.

Every invariant, action property and refinement of a passing run is proved.
Only model-checked is all liveness, and with it the fairness assumptions:
temporal reasoning about ENABLED is out of the prover's reach.

`BurstAlerts` is the promise of /inject/anomaly with the preconditions the code
needs: the detector is warm; the first sample of the burst lies 80 points and
six standard deviations above both baselines (`StandsOut`), which a spike of 90
points does on a host near its baseline; one of the two metrics has moved
before; and the host does not drop by more than ten points in a tick during the
burst. Then MinConsecutiveAnomalies samples are flagged and alert, although the
first one raises the variance the second is scored by. The claim is for the tick
at which the burst has that length: a longer burst may outlast what it raised.

What some properties leave open, because the code does: `UsageInRange` says nothing
of a gauge computed from two samples between which a counter of the kernel went
back (`main.go:230` makes a huge load of it), but from the next such pair on it
holds again; `QuotaFollowsState` nothing of the time after a failed write, until the
next request; `NoChattering` bounds the way up only, as the interval drops to its
minimum in one tick; `DriftAlerts` allows an alert at each rise of a flapping drift.

No module uses a RECURSIVE operator.

## 6. Findings

Runs that expect a violation, each with the line they disagree with:

1. `daemon_shutdown`: `wg.Go(func() { defer wg.Done(); ... })` (`cmd/agent/main.go:560`)
   decrements the counter twice. After a signal the process panics unless main
   leaves first.
2. `sampling_period`: `validate` only asks for RateTauMin < RateTauMax. Zero or a
   negative value passes and makes `ticker.Reset` panic at the first peak.
3. `subscribers_sse`: the server's WriteTimeout of 10 s ends every /events stream.
4. `suppressor_holdoff`: "minimum quiet period between alert triggers" does not hold
   when an episode ends inside the holdoff. `AlertSpacing` is what does hold.

Seen on the way, without a run:

- the retry counter counts a retry before its backoff, which a shutdown may cancel
  (`dispatcher.go:112`); `RetriesExecuted` states by how much the counter is ahead;
- one anomaly in an active state alerts again after the holdoff, while
  `suppressor.go:38` speaks of consecutive anomalies needed to trip;
- `README.md` calls ETD_TARGET_URL optional with default "(None)"; `config.go:53` has a
  dummy default, so the dispatcher always starts (`TargetURL` in `Daemon`);
- the first CPU observation is the fallback 0 of a gauge never set (`main.go:234`), and it
  seeds both means: on a host with a steady load the slow mean needs some 200
  ticks to follow, during which drift is reported and the interval pinned at
  RateTauMin, after every start;
- a jump of one metric that stays (idle to 100% for good) is flagged once: the
  sample raises the variance so far that the second scores sqrt(8.1), below the
  threshold 3. With MinConsecutiveAnomalies above 1 it raises no anomaly alert. Two
  metrics that jump together are flagged twice, which is why /inject/anomaly works;
- a RateTheta of NaN or +Inf passes `validate` (`config.go:91`), as no comparison with
  NaN is true; the adaptive interval is then pinned or off;
- a meminfo without MemAvailable counts as a good read (`mem_linux.go:119`): available
  memory stays at zero, which is saturation for ever;
- after a persistent error of Accept the loop tries again without a pause;
- a failed write to cpu.max is not repeated until the state changes again
  (`main.go:277`); `QuotaFollowsState` excludes exactly that time;
- the heartbeat's suppressed count includes normal ticks while in Suppressed;
- a drift index that flaps emits an alert at each rise, holdoff or not.

## 7. Not modelled

- `Reset` of the detector and `welford.go`: nothing in the daemon calls them. `mock_ai.go`,
  a generator of load that is off by default, touches none of the modelled state.
- Float64 rounding below the unit of `Floats`, and overflow of a float64 to infinity:
  the observations are percentages. A struct of the row's ten fields is two.
- The text of /proc (which bytes make a field bad), the parser of cpu.stat,
  `discoverCgroupPath`, formatting, logging, `/metrics`, `/healthz`, `/livez`, `/version`: no
  state, or read-only. Of `Config.Load` the parsing of the environment; `validate` is
  `Validated` for the fields the models use.
- The compare-and-swap inside the gauges: one goroutine writes each.
- Lengths of backoffs and of deadlines: timers that fire. The shift in the backoff
  overflows only beyond 64 attempts; main configures 3.

## 8. Plan

Done, in this order: `OutboxQueue` and `Outbox` (every event passes there), `Dispatcher`
on top of the abstract queue, `Suppressor` and `Governor`, `Sampling`, `Subscribers`,
`Daemon`, then `RingBuffer`, `Heartbeat` and `Agent`; `Floats`, `Collector`, `Detector` and
`Sensing`, which put the real measurements in the place of free inputs; `Process`,
which puts the live streams, the servers and the lifecycle together; the
theorems of section 5.

`OutboxImplementsQueue`, the streams, the process and the burst came last.

Left:

1. How long after a start the drift index stays above its threshold on a steady
   host, as a bound in ticks: it needs induction over the ticks, so a run of its
   own over the detector alone would show it on instances.
2. The outbox's ring in the place of the abstract queue, as a composed module of
   its own: `OutboxImplementsQueue` and `QueueInside` are its two halves.
3. `Reset` of the detector and `welford.go`, should the daemon come to use them.
