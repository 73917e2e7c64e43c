------------------------------ MODULE Collector ------------------------------
(***************************************************************************)
(* What a tick measures: the scrapers of /proc/stat and /proc/meminfo      *)
(* (internal/collector) and collectUsage of the agent (cmd/agent/main.go), *)
(* which turns two samples of the CPU counters into a utilization, falls   *)
(* back to the gauge of the last one when it cannot, and adds the injected *)
(* spikes.                                                                 *)
(*                                                                         *)
(* The scrapers parse in place, into structs the agent keeps from tick to  *)
(* tick: a row that breaks off leaves a struct that is half new and half   *)
(* old.  One field of work (User, Nice, System) and one of the rest stand  *)
(* for the ten of the CPU row; MemTotal and MemAvailable for those of      *)
(* meminfo.  A percentage is a number of units of 1/Percent of a percent.  *)
(***************************************************************************)
EXTENDS Floats

CONSTANTS
  Percent,         (* units in a percent                                    *)
  Counters,        (* 2^64: a counter is a number below it                  *)
  CPUDeltas,       (* bound: how the kernel's counters may move in a tick   *)
  MemReadings,     (* bound: what /proc/meminfo may hold                    *)
  MaxFaults        (* bound: reads that fail or find a strange file         *)

ASSUME CollectorAssumption ==
  /\ Percent \in Nat \ {0} /\ Counters \in Nat \ {0}
  /\ CPUDeltas \subseteq [work : Int, rest : Int]
  /\ MemReadings \subseteq [total : Nat, avail : Nat]
  /\ MaxFaults \in Nat

VARIABLES
  kernelCPU,               (* environment: the true counters                *)
  kernelMem,               (* environment: what meminfo held at the last tick*)
  cpuStats, memStats,      (* the structs the scrapers fill                 *)
  prevCPU, hasPrevCPU,     (* the sample the next one is compared with      *)
  metricCPU, metricMem,    (* the two gauges                                *)
  cpuPct, memPct,          (* the results of collectUsage                   *)
  injectSpikes,            (* spiked samples that are still to come         *)
  faults,                  (* what has been used of MaxFaults               *)
  wentBack,                (* history: a counter of the kernel went back    *)
                           (* after prevCPU was read                        *)
  regressed,               (* history: one did between the two samples      *)
                           (* metricCPU was computed from                   *)
  memRead                  (* history: what the last read of meminfo found  *)

scratch == <<cpuStats, memStats>>
gauges  == <<metricCPU, metricMem>>   (* SetFloat64 and Float64Value: atomic *)
cvars   == <<kernelCPU, kernelMem, scratch, prevCPU, hasPrevCPU, gauges,
             cpuPct, memPct, injectSpikes, faults, wentBack, regressed, memRead>>

CInit ==
  /\ kernelCPU = [work |-> 0, rest |-> 0]
  /\ cpuStats = [work |-> 0, rest |-> 0, total |-> 0]
  /\ memStats = [total |-> 0, avail |-> 0] /\ kernelMem = memStats
  /\ prevCPU = cpuStats /\ hasPrevCPU = FALSE
  /\ metricCPU = 0 /\ metricMem = 0
  /\ cpuPct = 0 /\ memPct = 0
  /\ injectSpikes = 0
  /\ faults = 0 /\ memRead = "none"
  /\ wentBack = FALSE /\ regressed = FALSE

-----------------------------------------------------------------------------
(* part / whole in percent; a float64 division by zero is not finite.       *)
PercentOf(part, whole) ==
  IF whole = 0 THEN NaN ELSE Round(part * 100 * Percent, whole)

(* parseCPULine on a row of which the first good fields are numbers.  The   *)
(* field that is none is left at zero, the fields after it and the total    *)
(* keep what they were.                                                     *)
ParseCPULine(row, good) ==
  CASE good = 0 -> [cpuStats EXCEPT !.work = 0]
    [] good = 1 -> [work |-> row.work, rest |-> 0, total |-> cpuStats.total]
    [] good = 2 -> [work |-> row.work, rest |-> row.rest,
                    total |-> (row.work + row.rest) % Counters]

(* Mutant: the guard lets an unchanged total through.                       *)
UsageOfAny(prev, cur, has) ==
  IF has /\ cur.total >= prev.total
  THEN PercentOf((cur.work - prev.work) % Counters, cur.total - prev.total)
  ELSE metricCPU

(* The utilization between two samples.  Only the total is asked whether it *)
(* has grown; the difference of the work is one of unsigned numbers.        *)
Usage(prev, cur, has) ==
  IF has /\ cur.total > prev.total
  THEN PercentOf((cur.work - prev.work) % Counters, cur.total - prev.total)
  ELSE metricCPU

(* The CPU part of collectUsage when the row is whole.                      *)
SampleCPU ==
  /\ cpuStats' = ParseCPULine(kernelCPU', 2)
  /\ metricCPU' = Usage(prevCPU, cpuStats', hasPrevCPU)
  /\ prevCPU' = cpuStats' /\ hasPrevCPU' = TRUE

(* Mutant: the sample is kept whether it is whole or not.                   *)
CPUFailsKept ==
  /\ \/ UNCHANGED cpuStats
     \/ \E good \in 0 .. 1 : cpuStats' = ParseCPULine(kernelCPU', good)
  /\ prevCPU' = cpuStats' /\ hasPrevCPU' = TRUE
  /\ UNCHANGED metricCPU

(* The CPU part when CollectCPU returns an error: the file cannot be read   *)
(* or has no row, or the row breaks off.                                    *)
CPUFails ==
  /\ \/ UNCHANGED cpuStats
     \/ \E good \in 0 .. 1 : cpuStats' = ParseCPULine(kernelCPU', good)
  /\ UNCHANGED <<metricCPU, prevCPU, hasPrevCPU>>

-----------------------------------------------------------------------------
(* The guard on what meminfo said, and the gauge.                           *)
UseMem ==
  metricMem' = IF memStats'.total > 0 /\ memStats'.total >= memStats'.avail
               THEN PercentOf(memStats'.total - memStats'.avail, memStats'.total)
               ELSE metricMem

SampleMem == memStats' = kernelMem' /\ UseMem /\ memRead' = "whole"

(* Mutant: a read starts by clearing the struct.                            *)
MemUnreadableCleared ==
  /\ memStats' = [total |-> 0, avail |-> 0]
  /\ memRead' = "none"
  /\ UNCHANGED metricMem

(* CollectMem returns an error before it parses, or recognises no line.     *)
MemUnreadable == UNCHANGED <<memStats, metricMem>> /\ memRead' = "none"

(* parseMemInfo finds one of the two lines only: the other value is that of *)
(* an earlier tick, or zero, and the read counts as a good one.             *)
MemPartial ==
  /\ \/ memStats' = [memStats EXCEPT !.total = kernelMem'.total]
     \/ memStats' = [memStats EXCEPT !.avail = kernelMem'.avail]
  /\ UseMem
  /\ memRead' = "partial"

-----------------------------------------------------------------------------
(* A spike is added to what was measured; the gauges do not see it.         *)
Spiked(pct) ==
  IF injectSpikes > 0 /\ IsFinite(pct) THEN pct + 90 * Percent ELSE pct

(* What the kernel does between two ticks: usually its counters grow, and   *)
(* less memory is available than there is.  No host runs long enough for    *)
(* them to reach 2^64.                                                      *)
Backwards(d) == d.work < 0 \/ d.rest < 0
Strange(d, mem) == Backwards(d) \/ d.work + d.rest = 0 \/ mem.avail > mem.total

KernelMoves(d, mem) ==
  /\ kernelCPU' = [work |-> kernelCPU.work + d.work,
                   rest |-> kernelCPU.rest + d.rest]
  /\ kernelCPU'.work >= 0 /\ kernelCPU'.rest >= 0
  /\ kernelCPU'.work + kernelCPU'.rest < Counters
  /\ kernelMem' = mem

(* Histories.  A whole row is the new prevCPU; metricCPU is computed anew   *)
(* from the two if the total has grown.                                     *)
RecordBackwards(d, cpuOk) ==
  LET back == wentBack \/ Backwards(d)
  IN  /\ wentBack' = (back /\ ~cpuOk)
      /\ regressed' = IF cpuOk /\ hasPrevCPU /\ cpuStats'.total > prevCPU.total
                      THEN back ELSE regressed

(* collectUsage, after the kernel has moved.                                *)
CollectUsage ==
  /\ \E d \in CPUDeltas, mem \in MemReadings :
       /\ KernelMoves(d, mem)
       /\ \E cpuOk, memOk \in BOOLEAN :
            /\ IF cpuOk THEN SampleCPU ELSE CPUFails
            /\ IF memOk THEN SampleMem ELSE MemUnreadable \/ MemPartial
            /\ RecordBackwards(d, cpuOk)
            /\ faults' = faults + (IF Strange(d, mem) THEN 1 ELSE 0)
                                + (IF cpuOk THEN 0 ELSE 1)
                                + (IF memOk THEN 0 ELSE 1)
            /\ faults' <= MaxFaults
  /\ cpuPct' = Spiked(metricCPU')
  /\ memPct' = Spiked(metricMem')
  /\ injectSpikes' = IF injectSpikes > 0 THEN injectSpikes - 1 ELSE 0

(* /inject/anomaly.                                                         *)
Inject ==
  /\ injectSpikes' = 3
  /\ UNCHANGED <<kernelCPU, kernelMem, scratch, prevCPU, hasPrevCPU, gauges,
                 cpuPct, memPct, faults, wentBack, regressed, memRead>>

-----------------------------------------------------------------------------
(* The gauges show what the host really did: the utilization of the CPU is  *)
(* a percentage, whatever reads failed or broke off in between, unless a    *)
(* counter of the kernel went back between the very two samples it was      *)
(* computed from; that of the memory always is.  A torn row, a total that   *)
(* stands still and an injected spike stay out, and a counter that went     *)
(* back, which may make a load out of an unsigned difference, is forgotten  *)
(* with the next two samples it does not lie between.                       *)
UsageInRange ==
  /\ ~regressed => metricCPU \in 0 .. 100 * Percent
  /\ metricMem \in 0 .. 100 * Percent
=============================================================================
