----------------------------- MODULE RingBuffer -----------------------------
(***************************************************************************)
(* The ring of the last observations (internal/filter/ringbuffer.go), the  *)
(* pre-trigger context of an alert.  Each method holds the mutex from its  *)
(* first line to its last, so each is one step.                            *)
(***************************************************************************)
EXTENDS Integers, Sequences

CONSTANTS
  RingCapacity,
  Zero          (* SnapshotEntry{}: a cell nothing was stored in            *)

(* NewRingBuffer puts 10 in the place of a capacity that is not positive.   *)
ASSUME RingAssumption == RingCapacity \in Nat \ {0}

VARIABLES
  buf, rhead, rcount,
  recent      (* history: the last RingCapacity entries, the newest last    *)

rvars == <<buf, rhead, rcount, recent>>

Cells == 0 .. RingCapacity - 1

RInit ==
  /\ buf = [c \in Cells |-> Zero]
  /\ rhead = 0 /\ rcount = 0
  /\ recent = <<>>

Latest(entries, entry) ==
  Append(IF Len(entries) < RingCapacity THEN entries ELSE Tail(entries), entry)

(* Mutant: the count follows the head.                                      *)
RPushCountsHead(entry) ==
  /\ buf' = [buf EXCEPT ![rhead] = entry]
  /\ rhead' = (rhead + 1) % RingCapacity
  /\ rcount' = rhead'
  /\ recent' = Latest(recent, entry)

RPush(entry) ==
  /\ buf' = [buf EXCEPT ![rhead] = entry]
  /\ rhead' = (rhead + 1) % RingCapacity
  /\ rcount' = IF rcount < RingCapacity THEN rcount + 1 ELSE rcount
  /\ recent' = Latest(recent, entry)

RReset ==
  /\ rhead' = 0 /\ rcount' = 0
  /\ recent' = <<>>
  /\ UNCHANGED buf

(* The oldest entry is in cell 0 until the ring wraps, at the head then.    *)
Start == IF rcount = RingCapacity THEN rhead ELSE 0

Snapshot == [i \in 1 .. rcount |-> buf[(Start + i - 1) % RingCapacity]]

RNext(Entries) == RReset \/ \E entry \in Entries : RPush(entry)

RSpec(Entries) == RInit /\ [][RNext(Entries)]_rvars

-----------------------------------------------------------------------------
RTypeOK(Entries) ==
  /\ buf \in [Cells -> Entries \cup {Zero}]
  /\ rhead \in Cells
  /\ rcount \in 0 .. RingCapacity
  /\ recent \in Seq(Entries)

(* Snapshot returns the last RingCapacity entries, oldest first, whatever   *)
(* number of times the ring has wrapped.                                    *)
SnapshotIsRecent == Snapshot = recent
=============================================================================
