---------------------------- MODULE AgentProofs -----------------------------
(***************************************************************************)
(* Theorems of the agent's tick for every interval, threshold and ring     *)
(* size, any workload, and any number of injections at any moment.  The    *)
(* tick drives a Suppressor and a RingBuffer: their theorems are carried   *)
(* over by step simulation, and the invariants of the tick use them.  The  *)
(* ring's own theorem comes first: it holds the latest entries for every   *)
(* capacity.                                                               *)
(***************************************************************************)
EXTENDS Agent, SuppressorProofs

-----------------------------------------------------------------------------
(* The ring buffer.                                                         *)

(* Where a cell index lands after "% capacity" when it is less than twice   *)
(* the capacity.                                                            *)
LEMMA Wrap ==
  ASSUME NEW i \in 0 .. 2 * RingCapacity - 1
  PROVE  i % RingCapacity = IF i < RingCapacity THEN i ELSE i - RingCapacity
  BY RingAssumption

(* What ties the ring to the latest entries: the ring starts at cell 0      *)
(* until it is full, and Snapshot, cell by cell, is recent.                 *)
Cell(i) == IF Start + i - 1 < RingCapacity THEN Start + i - 1
           ELSE Start + i - 1 - RingCapacity

RInv(Entries) ==
  /\ RTypeOK(Entries)
  /\ rcount = Len(recent)
  /\ rcount < RingCapacity => rhead = rcount
  /\ \A i \in 1 .. rcount : recent[i] = buf[Cell(i)]

(* The cells Snapshot reads are those of Cell.                              *)
LEMMA SnapshotCells ==
  ASSUME NEW Entries, RInv(Entries)
  PROVE  Snapshot = recent
<1>1. ASSUME NEW i \in 1 .. rcount
      PROVE  Cell(i) = (Start + i - 1) % RingCapacity
  <2>1. rcount \in 0 .. RingCapacity /\ Start \in 0 .. RingCapacity - 1
    BY RingAssumption DEF RInv, RTypeOK, Cells, Start
  <2>2. Start + i - 1 \in 0 .. 2 * RingCapacity - 1
    BY <2>1, RingAssumption
  <2> QED  BY <2>1, <2>2, Wrap, RingAssumption DEF Cell
<1>2. Snapshot = [i \in 1 .. Len(recent) |-> recent[i]]
  BY <1>1 DEF Snapshot, RInv
<1>3. recent \in Seq(Entries)
  BY DEF RInv, RTypeOK
<1> QED  BY <1>2, <1>3

LEMMA RInitInv == ASSUME NEW Entries, RInit PROVE RInv(Entries)
<1> USE RingAssumption DEF RInit
<1>1. RTypeOK(Entries)  BY DEF RTypeOK, Cells
<1>2. rcount = Len(recent) /\ (rcount < RingCapacity => rhead = rcount)
  OBVIOUS
<1>3. \A i \in 1 .. rcount : recent[i] = buf[Cell(i)]  OBVIOUS
<1> QED  BY <1>1, <1>2, <1>3 DEF RInv

LEMMA RResetInv == ASSUME NEW Entries, RInv(Entries), RReset PROVE RInv(Entries)'
<1> USE RingAssumption DEF RReset
<1>1. RTypeOK(Entries)'  BY DEF RInv, RTypeOK, Cells
<1>2. rcount' = Len(recent') /\ (rcount' < RingCapacity => rhead' = rcount')
  OBVIOUS
<1>3. \A i \in 1 .. rcount' : recent'[i] = buf'[Cell(i)']  OBVIOUS
<1> QED  BY <1>1, <1>2, <1>3 DEF RInv

(* The head moves to the next cell.                                         *)
LEMMA HeadMoves ==
  ASSUME NEW Entries, RInv(Entries), NEW entry \in Entries, RPush(entry)
  PROVE  /\ rhead' = IF rhead + 1 < RingCapacity THEN rhead + 1 ELSE 0
         /\ rhead' \in Cells
<1>1. rhead \in 0 .. RingCapacity - 1 /\ rhead' = (rhead + 1) % RingCapacity
  BY DEF RInv, RTypeOK, Cells, RPush
<1>2. rhead' = IF rhead + 1 < RingCapacity THEN rhead + 1 ELSE 0
  <2>1. rhead + 1 \in 0 .. 2 * RingCapacity - 1  BY <1>1, RingAssumption
  <2> QED  BY <1>1, <2>1, Wrap, RingAssumption
<1> QED  BY <1>2, RingAssumption DEF RInv, RTypeOK, Cells

(* A push to a ring that is not full adds a cell behind the others.         *)
LEMMA PushAdds ==
  ASSUME NEW Entries, RInv(Entries), NEW entry \in Entries, RPush(entry),
         rcount < RingCapacity
  PROVE  RInv(Entries)'
<1> USE RingAssumption
<1>1. /\ rcount \in Nat /\ rcount' = rcount + 1 /\ rhead = rcount
      /\ recent \in Seq(Entries) /\ Len(recent) = rcount
      /\ recent' = Append(recent, entry)
  BY DEF RInv, RTypeOK, RPush, Latest
<1>2. Start = 0 /\ Start' = 0
  BY <1>1, HeadMoves DEF Start, RInv, RTypeOK, Cells
<1>3. RTypeOK(Entries)'
  BY <1>1, HeadMoves DEF RInv, RTypeOK, RPush, Cells
<1>4. rcount' = Len(recent') /\ (rcount' < RingCapacity => rhead' = rcount')
  BY <1>1, HeadMoves
<1>5. ASSUME NEW i \in 1 .. rcount' PROVE recent'[i] = buf'[Cell(i)']
  <2>1. Cell(i) = i - 1 /\ Cell(i)' = i - 1
    BY <1>1, <1>2 DEF Cell
  <2>2. CASE i = rcount'
    <3>1. recent'[i] = entry  BY <1>1, <2>2
    <3>2. buf'[rhead] = entry  BY DEF RPush, RInv, RTypeOK
    <3> QED  BY <1>1, <2>1, <2>2, <3>1, <3>2
  <2>3. CASE i # rcount'
    <3>1. i \in 1 .. rcount /\ recent'[i] = recent[i]  BY <1>1, <2>3
    <3>2. recent[i] = buf[i - 1]  BY <2>1, <3>1 DEF RInv
    <3>3. i - 1 \in Cells /\ i - 1 # rhead  BY <1>1, <3>1 DEF Cells
    <3>4. buf'[i - 1] = buf[i - 1]  BY <3>3 DEF RPush, RInv, RTypeOK
    <3> QED  BY <2>1, <3>1, <3>2, <3>4
  <2> QED  BY <2>2, <2>3
<1> QED  BY <1>3, <1>4, <1>5 DEF RInv

(* A push to a full ring overwrites the oldest entry, which is at the head, *)
(* and the ring then starts at the cell after it.                           *)
LEMMA PushOverwrites ==
  ASSUME NEW Entries, RInv(Entries), NEW entry \in Entries, RPush(entry),
         ~(rcount < RingCapacity)
  PROVE  RInv(Entries)'
<1> USE RingAssumption
<1>1. /\ rcount = RingCapacity /\ rcount' = RingCapacity
      /\ rhead \in 0 .. RingCapacity - 1
      /\ recent \in Seq(Entries) /\ Len(recent) = RingCapacity
      /\ recent' = Append(Tail(recent), entry)
  BY DEF RInv, RTypeOK, RPush, Latest, Cells
<1>2. /\ Tail(recent) \in Seq(Entries) /\ Len(Tail(recent)) = RingCapacity - 1
      /\ \A i \in 1 .. RingCapacity - 1 : Tail(recent)[i] = recent[i + 1]
  BY <1>1
<1>3. Start = rhead /\ Start' = rhead'
  BY <1>1 DEF Start
<1>4. RTypeOK(Entries)'
  BY <1>1, <1>2, HeadMoves DEF RInv, RTypeOK, RPush, Cells
<1>5. rcount' = Len(recent') /\ (rcount' < RingCapacity => rhead' = rcount')
  BY <1>1, <1>2
<1>6. ASSUME NEW i \in 1 .. rcount' PROVE recent'[i] = buf'[Cell(i)']
  <2>1. CASE i = RingCapacity
    <3>1. recent'[i] = entry  BY <1>1, <1>2, <2>1
    <3>2. buf'[rhead] = entry  BY DEF RPush, RInv, RTypeOK
    <3>3. Cell(i)' = rhead  BY <1>1, <1>3, <2>1, HeadMoves DEF Cell
    <3> QED  BY <3>1, <3>2, <3>3
  <2>2. CASE i # RingCapacity
    <3>1. i \in 1 .. RingCapacity - 1  BY <1>1, <2>2
    <3>2. recent'[i] = recent[i + 1]  BY <1>1, <1>2, <3>1
    <3>3. recent[i + 1] = buf[Cell(i + 1)]  BY <1>1, <3>1 DEF RInv
    <3>4. Cell(i)' = Cell(i + 1)
      BY <1>1, <1>3, <3>1, HeadMoves DEF Cell
    <3>5. Cell(i + 1) \in Cells /\ Cell(i + 1) # rhead
      BY <1>1, <1>3, <3>1 DEF Cell, Cells
    <3>6. buf'[Cell(i + 1)] = buf[Cell(i + 1)]
      BY <3>5 DEF RPush, RInv, RTypeOK
    <3> QED  BY <3>2, <3>3, <3>4, <3>6
  <2> QED  BY <2>1, <2>2
<1> QED  BY <1>4, <1>5, <1>6 DEF RInv

LEMMA RPushInv ==
  ASSUME NEW Entries, RInv(Entries), NEW entry \in Entries, RPush(entry)
  PROVE  RInv(Entries)'
BY PushAdds, PushOverwrites

(* Nothing else moves the ring.                                             *)
LEMMA RStutterInv ==
  ASSUME NEW Entries, RInv(Entries), UNCHANGED rvars
  PROVE  RInv(Entries)'
BY DEF RInv, RTypeOK, rvars, Cell, Start, Cells

(* Whatever is pushed, however often, and with resets at any time, Snapshot *)
(* returns the latest entries in order (Push, Snapshot and Reset).          *)
THEOREM SnapshotCorrect ==
  ASSUME NEW Entries
  PROVE  RSpec(Entries) => []SnapshotIsRecent
<1>1. RInit => RInv(Entries)  BY RInitInv
<1>2. RInv(Entries) /\ [RNext(Entries)]_rvars => RInv(Entries)'
  BY RResetInv, RPushInv, RStutterInv DEF RNext
<1>3. RInv(Entries) => SnapshotIsRecent
  BY SnapshotCells DEF SnapshotIsRecent
<1> QED  BY <1>1, <1>2, <1>3, PTL DEF RSpec

-----------------------------------------------------------------------------
(* The suppressor inside the tick is a Suppressor: that module's theorems   *)
(* hold for the agent.                                                      *)
THEOREM SuppressorInTick == ASpec => SSpec
<1>1. AInit => SInit  BY DEF AInit
<1>2. [ANext]_avars => [SNext]_svars
  <2>1. ASSUME NEW isAnomalous \in BOOLEAN, NEW isDrifting \in BOOLEAN,
               NEW gap \in Gaps, NEW load \in workload,
               Observe(isAnomalous, isDrifting, gap, load)
        PROVE  SNext
    BY <2>1 DEF Observe, SNext
  <2>2. ASSUME Inject \/ LoadSpikes \/ SwapSpikes \/ FlushHeartbeat
        PROVE  UNCHANGED svars
    BY <2>2 DEF Inject, LoadSpikes, SwapSpikes, FlushHeartbeat
  <2>3. ASSUME UNCHANGED avars PROVE UNCHANGED svars  BY <2>3 DEF avars
  <2> QED  BY <2>1, <2>2, <2>3 DEF ANext
<1> QED  BY <1>1, <1>2, PTL DEF ASpec, SSpec

LEMMA SuppressorInv == ASpec => []SInv
BY SuppressorInTick, InvCorrect, PTL

-----------------------------------------------------------------------------
(* The tick never swaps without having loaded a spike, so a burst is not    *)
(* counted below zero.                                                      *)
BInv ==
  /\ spikes \in Nat /\ loaded \in Nat /\ served \in Nat /\ injects \in Nat
  /\ spiked \in BOOLEAN /\ apc \in TickSteps
  /\ apc = "swap" => loaded > 0
  /\ BurstOfThree

(* What only the handler and the loop of collectUsage touch.                *)
LEMMA SwapInv == ASSUME BInv, SwapSpikes PROVE BInv'
<1> USE DEF BInv, BurstOfThree, One, TickSteps, SwapSpikes
<1>1. CASE spikes = loaded /\ spikes' = loaded - 1 /\ spiked' = TRUE /\ apc' = "observe"
  <2>1. spikes \in Nat \ {0} /\ spikes' = spikes - 1  BY <1>1
  <2>2. injects' = injects /\ served' = served /\ loaded' = loaded  OBVIOUS
  <2> QED  BY <1>1, <2>1, <2>2
<1>2. CASE spikes # loaded /\ apc' = "load" /\ UNCHANGED <<spikes, spiked>>
  BY <1>2
<1> QED  BY <1>1, <1>2

LEMMA BurstStep == BInv /\ [ANext]_avars => BInv'
<1> SUFFICES ASSUME BInv, [ANext]_avars PROVE BInv'  OBVIOUS
<1>1. CASE Inject
  BY <1>1 DEF Inject, BInv, BurstOfThree, One, TickSteps
<1>2. CASE LoadSpikes
  BY <1>2 DEF LoadSpikes, inject, BInv, BurstOfThree, One, TickSteps
<1>3. CASE SwapSpikes  BY <1>3, SwapInv
<1>4. ASSUME NEW isAnomalous \in BOOLEAN, NEW isDrifting \in BOOLEAN,
             NEW gap \in Gaps, NEW load \in workload,
             Observe(isAnomalous, isDrifting, gap, load)
      PROVE  BInv'
  <2>1. /\ apc = "observe" /\ apc' = "flush"
        /\ served' = served + One(spiked)
        /\ UNCHANGED <<spikes, injects, loaded, spiked>>
    BY <1>4 DEF Observe
  <2> QED  BY <2>1 DEF BInv, BurstOfThree, One, TickSteps
<1>5. CASE FlushHeartbeat
  BY <1>5 DEF FlushHeartbeat, inject, BInv, BurstOfThree, One, TickSteps
<1>6. CASE UNCHANGED avars
  BY <1>6 DEF avars, inject, BInv, BurstOfThree, One
<1> QED  BY <1>1, <1>2, <1>3, <1>4, <1>5, <1>6 DEF ANext

LEMMA BurstInv == ASpec => []BInv
<1>1. AInit => BInv
  <2> SUFFICES ASSUME AInit PROVE BInv  OBVIOUS
  <2>1. /\ spikes = 0 /\ loaded = 0 /\ served = 0 /\ injects = 0
        /\ spiked = FALSE /\ apc = "load"
    BY DEF AInit
  <2>2. One(apc = "observe" /\ spiked) = 0  BY <2>1 DEF One
  <2>3. BurstOfThree  BY <2>1, <2>2 DEF BurstOfThree
  <2> QED  BY <2>1, <2>3 DEF BInv, TickSteps
<1> QED  BY <1>1, BurstStep, PTL DEF ASpec

(* An injection is three spiked samples, or four with the one in flight,    *)
(* whatever the tick does between Load and CompareAndSwap (collectUsage and *)
(* the handler of /inject/anomaly).                                         *)
THEOREM BurstCorrect == ASpec => []BurstOfThree
<1>1. BInv => BurstOfThree  BY DEF BInv
<1> QED  BY <1>1, BurstInv, PTL

-----------------------------------------------------------------------------
LEMMA RingFact == RInv(Observations) => SnapshotIsRecent
BY SnapshotCells DEF SnapshotIsRecent

(* The ring inside the tick is a RingBuffer of observations.                *)
LEMMA RingInTick == ASpec => []RInv(Observations)
<1>1. AInit => RInv(Observations)  BY RInitInv DEF AInit
<1>2. SInv /\ RInv(Observations) /\ [ANext]_avars => RInv(Observations)'
  <2> SUFFICES ASSUME SInv, RInv(Observations), [ANext]_avars
               PROVE  RInv(Observations)'
    OBVIOUS
  <2>1. ASSUME NEW isAnomalous \in BOOLEAN, NEW isDrifting \in BOOLEAN,
               NEW gap \in Gaps, NEW load \in workload,
               Observe(isAnomalous, isDrifting, gap, load)
        PROVE  RInv(Observations)'
    <3>1. [timestamp |-> now', anomalous |-> isAnomalous] \in Observations
      BY <2>1, SuppressorAssumption
         DEF Observe, Process, SInv, STypeOK, Observations
    <3>2. RPush([timestamp |-> now', anomalous |-> isAnomalous])
      BY <2>1 DEF Observe
    <3> QED  BY <3>1, <3>2, RPushInv
  <2>2. ASSUME \/ Inject \/ LoadSpikes \/ SwapSpikes \/ FlushHeartbeat
               \/ UNCHANGED avars
        PROVE  UNCHANGED rvars
    BY <2>2 DEF Inject, LoadSpikes, SwapSpikes, FlushHeartbeat, avars
  <2> QED  BY <2>1, <2>2, RStutterInv DEF ANext
<1> QED  BY <1>1, <1>2, SuppressorInv, PTL DEF ASpec

(* In the agent, too, Snapshot is the latest observations, oldest first.    *)
THEOREM ContextCorrect == ASpec => []SnapshotIsRecent
BY RingInTick, RingFact, PTL

-----------------------------------------------------------------------------
(* A heartbeat is overdue only between the observation and the flush of one *)
(* tick; and the window's samples are the suppressor's observations that no *)
(* earlier heartbeat has reported.                                          *)
FlushedType == [{"samples", "anomalous", "suppressed", "sum"} -> Nat]

HInv ==
  /\ HTypeOK /\ ExtremesOfWindow
  /\ flushed \in FlushedType
  /\ workload \subseteq Nat
  /\ apc \in TickSteps
  /\ flushed.samples + totalSamples = observed
  /\ flushed.anomalous + anomalousCount = totalAnomalies
  /\ flushed.suppressed + suppressedCount >= totalSuppressed
  /\ windowStart <= now
  /\ apc # "flush" => now - windowStart < HeartbeatInterval

(* An empty window has no extremes.                                         *)
LEMMA EmptyInit == ASSUME HInit PROVE HTypeOK /\ ExtremesOfWindow
<1>1. hasVal = FALSE /\ totalSamples = 0 /\ windowVals = {}  BY DEF HInit
<1>2. HTypeOK  BY DEF HInit, HTypeOK
<1>3. ~(totalSamples > 0)  BY <1>1
<1> QED  BY <1>1, <1>2, <1>3, Zenon DEF ExtremesOfWindow

LEMMA EmptyWindow ==
  ASSUME NEW t \in Nat, NewWindow(t) PROVE HTypeOK' /\ ExtremesOfWindow'
<1>1. hasVal' = FALSE /\ totalSamples' = 0 /\ windowVals' = {}
  BY DEF NewWindow
<1>2. HTypeOK'  BY DEF NewWindow, HTypeOK
<1>3. ~(totalSamples' > 0)  BY <1>1
<1> QED  BY <1>1, <1>2, <1>3, Zenon DEF ExtremesOfWindow

(* Observe keeps the extremes those of the window.                          *)
LEMMA ObserveExtremes ==
  ASSUME HTypeOK, ExtremesOfWindow, NEW val \in Nat,
         NEW a \in BOOLEAN, NEW b \in BOOLEAN, HObserve(val, a, b)
  PROVE  HTypeOK' /\ ExtremesOfWindow'
<1> USE DEF HTypeOK
<1>1. /\ hasVal' = TRUE /\ windowVals' = windowVals \cup {val}
      /\ totalSamples' = totalSamples + 1
      /\ minVal' = IF hasVal /\ minVal <= val THEN minVal ELSE val
      /\ maxVal' = IF hasVal /\ maxVal >= val THEN maxVal ELSE val
  BY DEF HObserve
<1>2. HTypeOK'
  BY <1>1 DEF HObserve, One
<1>3. minVal' \in windowVals' /\ maxVal' \in windowVals'
  BY <1>1 DEF ExtremesOfWindow
<1>4. ASSUME NEW v \in windowVals' PROVE minVal' <= v /\ v <= maxVal'
  <2>1. CASE v = val  BY <1>1, <2>1
  <2>2. CASE v \in windowVals
    <3>1. hasVal /\ minVal <= v /\ v <= maxVal /\ v \in Nat
      BY <2>2 DEF ExtremesOfWindow
    <3> QED  BY <1>1, <3>1
  <2> QED  BY <1>1, <2>1, <2>2
<1> QED  BY <1>1, <1>2, <1>3, <1>4 DEF ExtremesOfWindow

(* What one observation adds to the counts of the suppressor.               *)
LEMMA ProcessCounts ==
  ASSUME SInv, NEW isAnomalous \in BOOLEAN, NEW gap \in Gaps,
         Process(isAnomalous, gap)
  PROVE  /\ observed' = observed + 1
         /\ now' = now + gap
         /\ totalAnomalies' = totalAnomalies + One(isAnomalous)
         /\ totalSuppressed' <= totalSuppressed + One(state' = "Suppressed")
         /\ totalSuppressed' \in Nat
<1> USE DEF SInv, STypeOK, One
<1>1. CASE isAnomalous /\ ProcessAnomaly(now')
  <2>1. CASE AnomalyWhenNormal(now')
    BY <1>1, <2>1 DEF Process, ProcessAnomaly, AnomalyWhenNormal, FireAlert
  <2>2. CASE AnomalyWhenActive(now')
    BY <1>1, <2>2 DEF Process, ProcessAnomaly, AnomalyWhenActive, FireAlert
  <2> QED  BY <1>1, <2>1, <2>2 DEF ProcessAnomaly
<1>2. CASE ~isAnomalous /\ ProcessNormal
  BY <1>2 DEF Process, ProcessNormal
<1> QED  BY <1>1, <1>2 DEF Process

LEMMA ObserveHInv ==
  ASSUME SInv, HInv, NEW isAnomalous \in BOOLEAN, NEW isDrifting \in BOOLEAN,
         NEW gap \in Gaps, NEW load \in workload,
         Observe(isAnomalous, isDrifting, gap, load)
  PROVE  HInv'
<1>1. Throughput(load) \in Nat
  BY DEF HInv, Throughput
<1>2. /\ HObserve(Throughput(load), isAnomalous, state' = "Suppressed")
      /\ Process(isAnomalous, gap)
      /\ apc' = "flush"
      /\ UNCHANGED <<flushed, workload>>
  BY DEF Observe
<1>3. HTypeOK' /\ ExtremesOfWindow'
  BY <1>1, <1>2, ObserveExtremes DEF HInv
<1>4. /\ observed' = observed + 1
      /\ now' = now + gap
      /\ totalAnomalies' = totalAnomalies + One(isAnomalous)
      /\ totalSuppressed' <= totalSuppressed + One(state' = "Suppressed")
      /\ totalSuppressed' \in Nat
  BY <1>2, ProcessCounts
<1>5. /\ totalSamples' = totalSamples + 1
      /\ anomalousCount' = anomalousCount + One(isAnomalous)
      /\ suppressedCount' = suppressedCount + One(state' = "Suppressed")
      /\ windowStart' = windowStart
  BY <1>2 DEF HObserve
<1>6. /\ flushed.samples \in Nat /\ flushed.anomalous \in Nat
      /\ flushed.suppressed \in Nat
  BY DEF HInv, FlushedType
<1>7. One(isAnomalous) \in Nat /\ One(state' = "Suppressed") \in Nat
  BY DEF One
<1>8. (flushed.samples + totalSamples = observed)'
  BY <1>2, <1>4, <1>5, <1>6 DEF HInv, HTypeOK
<1>9. (flushed.anomalous + anomalousCount = totalAnomalies)'
  BY <1>2, <1>4, <1>5, <1>6, <1>7 DEF HInv, HTypeOK
<1>10. (flushed.suppressed + suppressedCount >= totalSuppressed)'
  BY <1>2, <1>4, <1>5, <1>6, <1>7 DEF HInv, HTypeOK, SInv, STypeOK
<1>11. windowStart' <= now'
  BY <1>4, <1>5, SuppressorAssumption DEF HInv, HTypeOK, SInv, STypeOK
<1> QED  BY <1>2, <1>3, <1>8, <1>9, <1>10, <1>11 DEF HInv, TickSteps

LEMMA FlushHInv == ASSUME SInv, HInv, FlushHeartbeat PROVE HInv'
<1>1. /\ apc' = "load" /\ workload' = workload /\ now' = now
      /\ UNCHANGED <<observed, totalAnomalies, totalSuppressed>>
  BY DEF FlushHeartbeat, svars, machine, totals, history
<1>2. CASE ShouldFlush(now) /\ NewWindow(now)
           /\ flushed' = [f \in DOMAIN flushed |-> flushed[f] + Summary(now)[f]]
  <2>1. /\ flushed'.samples = flushed.samples + totalSamples
        /\ flushed'.anomalous = flushed.anomalous + anomalousCount
        /\ flushed'.suppressed = flushed.suppressed + suppressedCount
        /\ flushed'.sum = flushed.sum + sumVal
        /\ flushed' \in FlushedType
    BY <1>2 DEF HInv, HTypeOK, FlushedType, Summary
  <2>2. HTypeOK' /\ ExtremesOfWindow'
    BY <1>2, EmptyWindow DEF SInv, STypeOK
  <2>3. /\ totalSamples' = 0 /\ anomalousCount' = 0 /\ suppressedCount' = 0
        /\ windowStart' = now
    BY <1>2 DEF NewWindow
  <2>4. now - now < HeartbeatInterval
    BY HeartbeatAssumption DEF SInv, STypeOK
  <2>5. /\ flushed'.samples \in Nat /\ flushed'.anomalous \in Nat
        /\ flushed'.suppressed \in Nat
    BY <2>1 DEF FlushedType
  <2> QED  BY <1>1, <2>1, <2>2, <2>3, <2>4, <2>5
           DEF HInv, TickSteps, SInv, STypeOK
<1>3. CASE ~ShouldFlush(now) /\ UNCHANGED beats
  <2>1. now - windowStart < HeartbeatInterval
    BY <1>3, HeartbeatAssumption DEF ShouldFlush, HInv, HTypeOK, SInv, STypeOK
  <2> QED  BY <1>1, <1>3, <2>1
           DEF HInv, HTypeOK, ExtremesOfWindow, beats, hvars, TickSteps
<1> QED  BY <1>2, <1>3 DEF FlushHeartbeat

LEMMA HeartbeatStep == SInv /\ HInv /\ [ANext]_avars => HInv'
<1> SUFFICES ASSUME SInv, HInv, [ANext]_avars PROVE HInv'  OBVIOUS
<1>1. ASSUME NEW isAnomalous \in BOOLEAN, NEW isDrifting \in BOOLEAN,
             NEW gap \in Gaps, NEW load \in workload,
             Observe(isAnomalous, isDrifting, gap, load)
      PROVE  HInv'
  BY <1>1, ObserveHInv
<1>2. CASE FlushHeartbeat  BY <1>2, FlushHInv
<1>3. ASSUME Inject \/ LoadSpikes \/ SwapSpikes \/ UNCHANGED avars PROVE HInv'
  <2>1. /\ UNCHANGED <<svars, beats, workload>>
        /\ apc' \in TickSteps /\ (apc' = "flush" <=> apc = "flush")
    BY <1>3 DEF Inject, LoadSpikes, SwapSpikes, avars, TickSteps, HInv
  <2> QED  BY <2>1 DEF HInv, HTypeOK, ExtremesOfWindow, beats, hvars, svars,
                       machine, totals, history
<1> QED  BY <1>1, <1>2, <1>3 DEF ANext

LEMMA HeartbeatInv == ASpec => []HInv
<1>1. AInit => HInv
  <2> SUFFICES ASSUME AInit PROVE HInv  OBVIOUS
  <2>1. HTypeOK /\ ExtremesOfWindow
    BY EmptyInit DEF AInit
  <2>2. /\ flushed = [samples |-> 0, anomalous |-> 0, suppressed |-> 0, sum |-> 0]
        /\ totalSamples = 0 /\ anomalousCount = 0 /\ suppressedCount = 0
        /\ observed = 0 /\ totalAnomalies = 0 /\ totalSuppressed = 0
        /\ windowStart = 0 /\ now = 0 /\ apc = "load"
    BY DEF AInit, SInit, HInit
  <2>3. workload \subseteq Nat
    BY AgentAssumption DEF AInit
  <2>4. flushed \in FlushedType  BY <2>2 DEF FlushedType
  <2>5. 0 - 0 < HeartbeatInterval  BY HeartbeatAssumption
  <2> QED  BY <2>1, <2>2, <2>3, <2>4, <2>5 DEF HInv, TickSteps
<1> QED  BY <1>1, HeartbeatStep, SuppressorInv, PTL DEF ASpec

(* For every interval and whatever the ticks bring, each sample is in one   *)
(* heartbeat, the anomalies agree with the suppressor's, the extremes are   *)
(* those of the window, and no heartbeat is overdue after a tick (Observe,  *)
(* ShouldFlush, Flush and flushHeartbeat).                                  *)
THEOREM HeartbeatCorrect == ASpec => []HeartbeatAccount
<1>1. HInv => HeartbeatAccount  BY DEF HInv, HeartbeatAccount
<1> QED  BY <1>1, HeartbeatInv, PTL

-----------------------------------------------------------------------------
LEMMA ConcatElement ==
  ASSUME NEW S, NEW s \in Seq(S), NEW t \in Seq(S), NEW i \in DOMAIN (s \o t)
  PROVE  \/ \E j \in DOMAIN s : (s \o t)[i] = s[j]
         \/ \E j \in DOMAIN t : (s \o t)[i] = t[j]
<1>1. CASE i <= Len(s)
  <2>1. i \in DOMAIN s /\ (s \o t)[i] = s[i]  BY <1>1
  <2> QED  BY <2>1
<1>2. CASE ~(i <= Len(s))
  <2>1. i - Len(s) \in DOMAIN t /\ (s \o t)[i] = t[i - Len(s)]  BY <1>2
  <2> QED  BY <2>1
<1> QED  BY <1>1, <1>2

(* The events of a tick, as Observe leaves them: an alert carries the       *)
(* latest observations, and a drift alert is there only when it is due.     *)
LEMMA EventsOfTick ==
  ASSUME NEW isAnomalous \in BOOLEAN, NEW isDrifting \in BOOLEAN,
         NEW gap \in Gaps, NEW load \in workload,
         Observe(isAnomalous, isDrifting, gap, load),
         NEW i \in DOMAIN out'
  PROVE  \/ out'[i] = [type |-> "anomaly_alert", preContext |-> Snapshot']
         \/ DriftDue(isDrifting) /\ out'[i] = [type |-> "drift_alert"]
<1> DEFINE A == [type |-> "anomaly_alert", preContext |-> Snapshot']
           D == [type |-> "drift_alert"]
<1>1. out' = AlertEvents \o DriftEvents(isDrifting)  BY DEF Observe
<1>2. AlertEvents = <<A>> \/ AlertEvents = <<>>  BY DEF AlertEvents
<1>3. \/ DriftDue(isDrifting) /\ DriftEvents(isDrifting) = <<D>>
      \/ DriftEvents(isDrifting) = <<>>
  BY DEF DriftEvents
<1> HIDE DEF A, D
<1>4. /\ AlertEvents \in Seq({A, D}) /\ DriftEvents(isDrifting) \in Seq({A, D})
      /\ \A j \in DOMAIN AlertEvents : AlertEvents[j] = A
      /\ \A j \in DOMAIN DriftEvents(isDrifting) :
           DriftDue(isDrifting) /\ DriftEvents(isDrifting)[j] = D
  <2>1. <<>> \in Seq({A, D}) /\ <<A>> \in Seq({A, D}) /\ <<D>> \in Seq({A, D})
    OBVIOUS
  <2>2. \A j \in DOMAIN <<A>> : <<A>>[j] = A  OBVIOUS
  <2>3. \A j \in DOMAIN <<D>> : <<D>>[j] = D  OBVIOUS
  <2>4. ~ \E j \in DOMAIN <<>> : TRUE  OBVIOUS
  <2> QED  BY <1>2, <1>3, <2>1, <2>2, <2>3, <2>4, Zenon
<1>5. \/ \E j \in DOMAIN AlertEvents : out'[i] = AlertEvents[j]
      \/ \E j \in DOMAIN DriftEvents(isDrifting) :
           out'[i] = DriftEvents(isDrifting)[j]
  BY <1>1, <1>4, ConcatElement
<1>6. out'[i] = A \/ (DriftDue(isDrifting) /\ out'[i] = D)
  BY <1>4, <1>5
<1> QED  BY <1>6 DEF A, D

(* A push makes its entry the newest; the k-th entry before it was the      *)
(* (k-1)-th before the newest.                                              *)
LEMMA LatestNewest ==
  ASSUME NEW S, NEW s \in Seq(S), Len(s) <= RingCapacity, NEW e \in S
  PROVE  /\ Latest(s, e) \in Seq(S)
         /\ Len(Latest(s, e)) \in Nat \ {0}
         /\ Latest(s, e)[Len(Latest(s, e))] = e
BY RingAssumption DEF Latest

LEMMA LatestShifts ==
  ASSUME NEW S, NEW s \in Seq(S), Len(s) <= RingCapacity, NEW e \in S,
         NEW k \in 1 .. Len(Latest(s, e)) - 1
  PROVE  /\ k - 1 \in 0 .. Len(s) - 1
         /\ Latest(s, e)[Len(Latest(s, e)) - k] = s[Len(s) - (k - 1)]
<1> DEFINE t == Latest(s, e)
<1> USE RingAssumption
<1>1. CASE Len(s) < RingCapacity
  <2>1. t = Append(s, e) /\ Len(t) = Len(s) + 1  BY <1>1 DEF Latest
  <2>2. Len(t) - k \in 1 .. Len(s) /\ Len(t) - k = Len(s) - (k - 1)
    BY <2>1
  <2> QED  BY <2>1, <2>2
<1>2. CASE ~(Len(s) < RingCapacity)
  <2>1. /\ t = Append(Tail(s), e) /\ Len(s) = RingCapacity
        /\ Tail(s) \in Seq(S) /\ Len(Tail(s)) = Len(s) - 1 /\ Len(t) = Len(s)
        /\ \A j \in 1 .. Len(s) - 1 : Tail(s)[j] = s[j + 1]
    BY <1>2 DEF Latest
  <2>2. Len(s) \in Nat \ {0} /\ Len(t) = Len(s)  BY <2>1
  <2>3. /\ k \in 1 .. Len(s) - 1 /\ Len(s) - k \in 1 .. Len(s) - 1
        /\ Len(s) - (k - 1) = Len(s) - k + 1
    BY <2>2
  <2>4. t[Len(s) - k] = Tail(s)[Len(s) - k]  BY <2>1, <2>3
  <2> QED  BY <2>1, <2>2, <2>3, <2>4
<1> QED  BY <1>1, <1>2

(* The newest entries of the ring are the run of anomalies the suppressor   *)
(* counts, and the newest of all is this tick's.                            *)
Run(entries) ==
  /\ entries # <<>> => entries[Len(entries)].timestamp = now
  /\ \A k \in 0 .. Len(entries) - 1 :
       /\ k < consecutiveAnoms => entries[Len(entries) - k].anomalous
       /\ k = consecutiveAnoms => ~entries[Len(entries) - k].anomalous

CInv == Run(recent) /\ AlertContext

LEMMA PushRun ==
  ASSUME RInv(Observations), Run(recent), consecutiveAnoms \in Nat,
         NEW e \in Observations, RPush(e), e.timestamp = now',
         consecutiveAnoms' = IF e.anomalous THEN consecutiveAnoms + 1 ELSE 0
  PROVE  Run(recent)' /\ recent' # <<>>
<1>1. e.anomalous \in BOOLEAN  BY DEF Observations
<1>2. recent \in Seq(Observations) /\ Len(recent) <= RingCapacity
  BY RingAssumption DEF RInv, RTypeOK
<1>3. recent' = Latest(recent, e)  BY DEF RPush
<1>4. /\ recent' \in Seq(Observations) /\ Len(recent') \in Nat \ {0}
      /\ recent'[Len(recent')] = e
      /\ \A k \in 1 .. Len(recent') - 1 :
           /\ k - 1 \in 0 .. Len(recent) - 1
           /\ recent'[Len(recent') - k] = recent[Len(recent) - (k - 1)]
  <2>1. ASSUME NEW k \in 1 .. Len(Latest(recent, e)) - 1
        PROVE  /\ k - 1 \in 0 .. Len(recent) - 1
               /\ Latest(recent, e)[Len(Latest(recent, e)) - k]
                    = recent[Len(recent) - (k - 1)]
    BY <1>2, LatestShifts
  <2>2. /\ Latest(recent, e) \in Seq(Observations)
        /\ Len(Latest(recent, e)) \in Nat \ {0}
        /\ Latest(recent, e)[Len(Latest(recent, e))] = e
    BY <1>2, LatestNewest
  <2> QED  BY <1>3, <2>1, <2>2
<1>5. ASSUME NEW k \in 0 .. Len(recent') - 1
      PROVE  /\ k < consecutiveAnoms' => recent'[Len(recent') - k].anomalous
             /\ k = consecutiveAnoms' => ~recent'[Len(recent') - k].anomalous
  <2>1. CASE k = 0
    <3>1. recent'[Len(recent') - k].anomalous = e.anomalous
      BY <1>4, <2>1
    <3>2. (k < consecutiveAnoms' => e.anomalous) /\ (k = consecutiveAnoms' => ~e.anomalous)
      BY <1>1, <2>1
    <3> QED  BY <3>1, <3>2
  <2>2. CASE k # 0
    <3>1. /\ k - 1 \in 0 .. Len(recent) - 1
          /\ recent'[Len(recent') - k] = recent[Len(recent) - (k - 1)]
      BY <1>4, <2>2
    <3>2. /\ k - 1 < consecutiveAnoms => recent'[Len(recent') - k].anomalous
          /\ k - 1 = consecutiveAnoms => ~recent'[Len(recent') - k].anomalous
      BY <3>1 DEF Run
    <3>3. /\ k < consecutiveAnoms' => k - 1 < consecutiveAnoms
          /\ k = consecutiveAnoms' => k - 1 = consecutiveAnoms
      BY <1>1, <2>2
    <3> QED  BY <3>2, <3>3
  <2> QED  BY <2>1, <2>2
<1>6. recent'[Len(recent')].timestamp = now'  BY <1>4
<1>7. recent' # <<>>  BY <1>4
<1> QED  BY <1>5, <1>6, <1>7 DEF Run

LEMMA ObserveRun ==
  ASSUME SInv, RInv(Observations), Run(recent),
         NEW isAnomalous \in BOOLEAN, NEW isDrifting \in BOOLEAN,
         NEW gap \in Gaps, NEW load \in workload,
         Observe(isAnomalous, isDrifting, gap, load)
  PROVE  Run(recent)' /\ recent' # <<>>
<1> DEFINE e == [timestamp |-> now', anomalous |-> isAnomalous]
<1>1. Process(isAnomalous, gap) /\ RPush(e)  BY DEF Observe
<1>2. e \in Observations
  BY <1>1, SuppressorAssumption DEF Process, SInv, STypeOK, Observations
<1>3. consecutiveAnoms' = IF isAnomalous THEN consecutiveAnoms + 1 ELSE 0
  BY <1>1 DEF Process, ProcessAnomaly, ProcessNormal
<1>4. consecutiveAnoms \in Nat  BY DEF SInv, STypeOK
<1> QED  BY <1>1, <1>2, <1>3, <1>4, PushRun

LEMMA RingFactNext == RInv(Observations)' => SnapshotIsRecent'
BY RingFact, PTL

LEMMA ContextStep ==
  SInv /\ RInv(Observations) /\ RInv(Observations)' /\ CInv /\ [ANext]_avars
    => CInv'
<1> SUFFICES ASSUME SInv, RInv(Observations), RInv(Observations)', CInv,
                    [ANext]_avars
             PROVE  CInv'
  OBVIOUS
<1>1. ASSUME NEW isAnomalous \in BOOLEAN, NEW isDrifting \in BOOLEAN,
             NEW gap \in Gaps, NEW load \in workload,
             Observe(isAnomalous, isDrifting, gap, load)
      PROVE  CInv'
  <2>1. Run(recent)' /\ recent' # <<>>  BY <1>1, ObserveRun DEF CInv
  <2>2. Snapshot' = recent'  BY RingFactNext DEF SnapshotIsRecent
  <2>3. ASSUME NEW i \in DOMAIN out', out'[i].type = "anomaly_alert"
        PROVE  out'[i].preContext = recent'
    BY <1>1, <2>2, <2>3, EventsOfTick
  <2>4. recent' \in Seq(Observations) /\ Len(recent') \in Nat \ {0}
    BY <2>1 DEF RInv, RTypeOK
  <2>5. AlertContext'
    BY <2>1, <2>3, <2>4 DEF Run, AlertContext
  <2> QED  BY <2>1, <2>5 DEF CInv
<1>2. CASE LoadSpikes
  <2>1. out' = <<>> /\ UNCHANGED <<recent, now, consecutiveAnoms>>
    BY <1>2 DEF LoadSpikes, svars, machine, rvars
  <2> QED  BY <2>1 DEF CInv, Run, AlertContext
<1>3. CASE FlushHeartbeat
  <2>1. UNCHANGED <<recent, now, consecutiveAnoms>>
    BY <1>3 DEF FlushHeartbeat, svars, machine, rvars
  <2>2. Run(recent)'  BY <2>1 DEF CInv, Run
  <2>3. ASSUME NEW i \in DOMAIN out', out'[i].type = "anomaly_alert"
        PROVE  i \in DOMAIN out /\ out'[i] = out[i]
    <3>1. CASE out' = out  BY <3>1
    <3>2. CASE out' = Append(out, [type |-> "heartbeat", summary |-> Summary(now)])
      <4>1. CASE i = Len(out) + 1
        <5>1. out'[i] = [type |-> "heartbeat", summary |-> Summary(now)]
          BY <3>2, <4>1
        <5> QED  BY <2>3, <5>1
      <4>2. CASE i # Len(out) + 1
        BY <3>2, <4>2
      <4> QED  BY <4>1, <4>2
    <3> QED  BY <1>3, <3>1, <3>2 DEF FlushHeartbeat
  <2> QED  BY <2>1, <2>2, <2>3 DEF CInv, AlertContext
<1>4. ASSUME Inject \/ SwapSpikes \/ UNCHANGED avars PROVE CInv'
  <2>1. UNCHANGED <<recent, now, consecutiveAnoms, out>>
    BY <1>4 DEF Inject, SwapSpikes, avars, svars, machine, rvars
  <2> QED  BY <2>1 DEF CInv, Run, AlertContext
<1> QED  BY <1>1, <1>2, <1>3, <1>4 DEF ANext

(* The context of every alert ends with its own tick and the anomalies that *)
(* raised it, whatever the ring has dropped (tick, emitAnomalyAlert).       *)
THEOREM AlertContextCorrect == ASpec => []AlertContext
<1>1. AInit => CInv
  BY DEF AInit, RInit, CInv, Run, AlertContext
<1>2. CInv => AlertContext  BY DEF CInv
<1> QED  BY <1>1, <1>2, ContextStep, SuppressorInv, RingInTick, PTL DEF ASpec

-----------------------------------------------------------------------------
(* lastDriftAlert is the time of the last drift alert, prevDrifting and the *)
(* holdoff keep it recent while drift lasts, and without prevDrifting there *)
(* was calm.                                                                *)
DInv ==
  /\ prevDrifting \in BOOLEAN /\ calm \in BOOLEAN
  /\ driftSent \in Nat \cup {Never}
  /\ lastDriftAlert = driftSent
  /\ driftSent # Never => driftSent <= now
  /\ apc \in TickSteps
  /\ apc \in {"swap", "observe"} => out = <<>>
  /\ ~prevDrifting => calm
  /\ prevDrifting => /\ driftSent # Never
                     /\ driftSent = now \/ now - driftSent < HoldoffDuration

Spaced ==
  /\ DriftAlerted => \/ driftSent = Never
                     \/ now' - driftSent >= HoldoffDuration
                     \/ calm
  /\ prevDrifting' => \/ driftSent' = now'
                      \/ now' - driftSent' < HoldoffDuration

LEMMA ObserveDInv ==
  ASSUME SInv, DInv, NEW isAnomalous \in BOOLEAN, NEW isDrifting \in BOOLEAN,
         NEW gap \in Gaps, NEW load \in workload,
         Observe(isAnomalous, isDrifting, gap, load)
  PROVE  DInv' /\ Spaced
<1>1. now' \in Nat /\ now' >= now /\ now \in Nat
  BY SuppressorAssumption DEF Observe, Process, SInv, STypeOK
<1>2. HandleDrift(isDrifting)  BY DEF Observe
<1>3. prevDrifting' = isDrifting /\ calm' \in BOOLEAN /\ (~isDrifting => calm')
  BY <1>2 DEF HandleDrift
<1>6. apc' = "flush" /\ apc' \in TickSteps  BY DEF Observe, TickSteps
<1>4. CASE DriftDue(isDrifting)
  <2>1. /\ driftSent' = now' /\ lastDriftAlert' = now' /\ isDrifting
        /\ prevDrifting => now' - driftSent >= HoldoffDuration
    BY <1>2, <1>4 DEF HandleDrift, DriftDue, DInv
  <2>2. now' # Never  BY <1>1, SuppressorAssumption
  <2>3. DInv'  BY <1>1, <1>3, <1>6, <2>1, <2>2 DEF DInv
  <2>4. Spaced  BY <2>1 DEF Spaced, DInv
  <2> QED  BY <2>3, <2>4
<1>5. CASE ~DriftDue(isDrifting)
  <2>1. driftSent' = driftSent /\ lastDriftAlert' = lastDriftAlert
    BY <1>2, <1>5 DEF HandleDrift
  <2>2. ~DriftAlerted
    <3> SUFFICES ASSUME NEW i \in DOMAIN out' PROVE out'[i].type # "drift_alert"
      BY DEF DriftAlerted
    <3> QED  BY <1>5, EventsOfTick
  <2>3. ASSUME isDrifting
        PROVE  driftSent # Never /\ now' - driftSent < HoldoffDuration
    <3>1. prevDrifting /\ ~(now' - driftSent >= HoldoffDuration)
      BY <1>5, <2>3 DEF DriftDue, DInv
    <3>2. driftSent \in Nat /\ driftSent # Never  BY <3>1 DEF DInv
    <3>3. now' - driftSent \in Int /\ HoldoffDuration \in Int
      BY <1>1, <3>2, SuppressorAssumption
    <3> QED  BY <3>1, <3>2, <3>3
  <2>4. driftSent # Never => driftSent <= now'  BY <1>1 DEF DInv
  <2>5. DInv'  BY <1>3, <1>6, <2>1, <2>3, <2>4 DEF DInv
  <2>6. Spaced  BY <1>3, <2>1, <2>2, <2>3 DEF Spaced
  <2> QED  BY <2>5, <2>6
<1> QED  BY <1>4, <1>5

LEMMA DriftStep == SInv /\ DInv /\ [ANext]_avars => DInv' /\ [Spaced]_avars
<1> SUFFICES ASSUME SInv, DInv, [ANext]_avars PROVE DInv' /\ [Spaced]_avars
  OBVIOUS
<1>1. ASSUME NEW isAnomalous \in BOOLEAN, NEW isDrifting \in BOOLEAN,
             NEW gap \in Gaps, NEW load \in workload,
             Observe(isAnomalous, isDrifting, gap, load)
      PROVE  DInv' /\ Spaced
  BY <1>1, ObserveDInv
<1>2. ASSUME Inject \/ LoadSpikes \/ SwapSpikes \/ FlushHeartbeat
      PROVE  DInv' /\ [Spaced]_avars
  <2>1. UNCHANGED <<now, drift>>
    BY <1>2 DEF Inject, LoadSpikes, SwapSpikes, FlushHeartbeat, svars
  <2>2. ~DriftAlerted /\ apc' \in TickSteps
        /\ (apc' \in {"swap", "observe"} => out' = <<>>)
    <3>1. CASE Inject
      BY <3>1 DEF Inject, DInv, DriftAlerted
    <3>2. CASE LoadSpikes
      BY <3>2 DEF LoadSpikes, DriftAlerted, TickSteps
    <3>3. CASE SwapSpikes
      BY <3>3 DEF SwapSpikes, DInv, DriftAlerted, TickSteps
    <3>4. CASE FlushHeartbeat
      BY <3>4 DEF FlushHeartbeat, DriftAlerted, TickSteps
    <3> QED  BY <1>2, <3>1, <3>2, <3>3, <3>4
  <2>3. UNCHANGED <<now, prevDrifting, lastDriftAlert, driftSent, calm>>
    BY <2>1 DEF drift
  <2> QED  BY <2>2, <2>3 DEF DInv, Spaced
<1>3. CASE UNCHANGED avars
  BY <1>3 DEF avars, svars, drift, DInv
<1> QED  BY <1>1, <1>2, <1>3 DEF ANext

LEMMA DriftInit == AInit => DInv
<1> SUFFICES ASSUME AInit PROVE DInv  OBVIOUS
<1>1. /\ prevDrifting = FALSE /\ calm = TRUE /\ apc = "load"
      /\ lastDriftAlert = Never /\ driftSent = Never
  BY DEF AInit
<1> QED  BY <1>1 DEF DInv, TickSteps

LEMMA DriftInv == ASpec => []DInv
BY DriftInit, DriftStep, SuppressorInv, PTL DEF ASpec

(* While drift lasts there is an alert in each holdoff, and two alerts are  *)
(* a holdoff apart unless drift stopped in between (handleDrift).           *)
THEOREM DriftAlertsCorrect == ASpec => DriftAlerts
<1>1. ASpec => [][Spaced]_avars
  BY DriftInit, DriftStep, SuppressorInv, PTL DEF ASpec
<1> QED  BY <1>1 DEF DriftAlerts, Spaced

-----------------------------------------------------------------------------
(* Every variable of the tick has its type, for every value of the          *)
(* constants.                                                               *)
THEOREM TypeCorrect == ASpec => []ATypeOK
<1>1. SInv /\ RInv(Observations) /\ HInv /\ BInv /\ DInv => ATypeOK
  BY DEF SInv, RInv, HInv, BInv, DInv, ATypeOK, FlushedType
<1> QED  BY <1>1, SuppressorInv, RingInTick, HeartbeatInv, BurstInv, DriftInv, PTL
=============================================================================
