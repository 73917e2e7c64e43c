------------------------------- MODULE Outbox -------------------------------
(***************************************************************************)
(* The outbox as internal/outbox/queue.go builds it: a ring of Capacity    *)
(* slots guarded by a mutex, and a counting semaphore `sem` (a buffered    *)
(* channel) that wakes the goroutines blocked in Pop.                      *)
(*                                                                         *)
(* A critical section of the mutex is one step.  The steps of Pop outside  *)
(* of it are separate: the check of ctx.Err(), the fast path, the select   *)
(* on ctx.Done / closedCh / sem, and the critical section after it.  A     *)
(* token taken in the select is held by its popper until that popper gets  *)
(* the mutex, and other calls run in between: this is where a wakeup could *)
(* be lost.                                                                *)
(***************************************************************************)
EXTENDS Naturals, Sequences, FiniteSets

CONSTANTS Events, Poppers, Capacity, Policies, MaxPushes,
          ErrQueueClosed, CtxErr, NoEvent

ASSUME OutboxAssumption ==
  /\ Capacity \in Nat \ {0}
  /\ Policies \subseteq {"DropNewest", "DropOldest"}
  /\ MaxPushes \in Nat
  /\ Events \cap {ErrQueueClosed, CtxErr, NoEvent} = {}
  /\ IsFiniteSet(Poppers)

VARIABLES
  items,      (* the ring: slot -> event, or NoEvent once cleared           *)
  head, tail, (* slot of the oldest event, slot of the next push            *)
  count,      (* events in the ring                                         *)
  sem,        (* tokens in the semaphore channel                            *)
  closed,     (* closed; closedCh is closed in the same critical section    *)
  policy,     (* the DropPolicy                                             *)
  pc,         (* where each popper is inside Pop                            *)
  canceled, result, enqueued, dequeued, dropped   (* as in OutboxQueue      *)

ring  == <<items, head, tail, count>>
stats == <<enqueued, dequeued, dropped>>
vars  == <<ring, sem, closed, policy, pc, canceled, result, stats>>

Slots == 0 .. Capacity - 1

(* idle: not in Pop.  entered: before ctx.Err().  fast: before the first    *)
(* critical section.  select: blocked or polling in the select.             *)
(* drain: took the closedCh case.  token: took the sem case.                *)
PopSteps == {"idle", "entered", "fast", "select", "drain", "token"}

Init ==
  /\ items = [s \in Slots |-> NoEvent]
  /\ head = 0 /\ tail = 0 /\ count = 0
  /\ sem = 0
  /\ closed = FALSE
  /\ policy \in Policies
  /\ pc = [p \in Poppers |-> "idle"]
  /\ canceled = {}
  /\ result = [p \in Poppers |-> NoEvent]
  /\ enqueued = 0 /\ dequeued = 0 /\ dropped = 0

-----------------------------------------------------------------------------
(* The critical section of Push.  needsToken is computed before the         *)
(* eviction: a push that replaces the oldest event adds no token.  The      *)
(* send on sem is a select with a default: on a full channel it is dropped. *)
AddToken == sem' = IF sem < Capacity THEN sem + 1 ELSE sem

StoreAtTail(e, ring0) ==
  /\ items' = [ring0 EXCEPT ![tail] = e]
  /\ tail' = (tail + 1) % Capacity
  /\ enqueued' = enqueued + 1

(* Mutant: a push wakes a popper only when the queue was empty.             *)
PushFitsWakesOnce(e) ==
  /\ count < Capacity
  /\ StoreAtTail(e, items)
  /\ count' = count + 1
  /\ sem' = IF count = 0 /\ sem < Capacity THEN sem + 1 ELSE sem
  /\ UNCHANGED <<head, dropped>>

PushFits(e) ==
  /\ count < Capacity
  /\ StoreAtTail(e, items)
  /\ count' = count + 1
  /\ AddToken
  /\ UNCHANGED <<head, dropped>>

(* Mutant: an eviction is not counted.                                      *)
PushEvictsUncounted(e) ==
  /\ count = Capacity /\ policy = "DropOldest"
  /\ StoreAtTail(e, [items EXCEPT ![head] = NoEvent])
  /\ head' = (head + 1) % Capacity
  /\ UNCHANGED <<count, sem, dropped>>

PushEvicts(e) ==
  /\ count = Capacity /\ policy = "DropOldest"
  /\ StoreAtTail(e, [items EXCEPT ![head] = NoEvent])
  /\ head' = (head + 1) % Capacity
  /\ dropped' = dropped + 1
  /\ UNCHANGED <<count, sem>>

PushRefused ==
  /\ count = Capacity /\ policy = "DropNewest"
  /\ dropped' = dropped + 1
  /\ UNCHANGED <<ring, sem, enqueued>>

Push(e) ==
  /\ ~closed
  /\ enqueued + dropped < MaxPushes
  /\ PushFits(e) \/ PushEvicts(e) \/ PushRefused
  /\ UNCHANGED <<closed, policy, pc, canceled, result, dequeued>>

-----------------------------------------------------------------------------
(* The pieces Pop is made of.                                               *)
Goto(p, from, to) ==
  /\ pc[p] = from
  /\ pc' = [pc EXCEPT ![p] = to]

Return(p, from, r) ==
  /\ Goto(p, from, "idle")
  /\ result' = [result EXCEPT ![p] = r]

(* Mutant: a popped slot is not cleared.                                    *)
TakeHeadKeeps(p, from) ==
  /\ count > 0
  /\ Return(p, from, items[head])
  /\ head' = (head + 1) % Capacity
  /\ count' = count - 1
  /\ dequeued' = dequeued + 1
  /\ UNCHANGED <<items, tail, closed, policy, canceled, enqueued, dropped>>

TakeHead(p, from) ==
  /\ count > 0
  /\ Return(p, from, items[head])
  /\ items' = [items EXCEPT ![head] = NoEvent]
  /\ head' = (head + 1) % Capacity
  /\ count' = count - 1
  /\ dequeued' = dequeued + 1
  /\ UNCHANGED <<tail, closed, policy, canceled, enqueued, dropped>>

(* "Opportunistically consume a semaphore token to keep it synchronized"    *)
DrainToken == sem' = IF sem > 0 THEN sem - 1 ELSE sem

ReturnClosed(p, from) ==
  /\ count = 0 /\ closed
  /\ Return(p, from, ErrQueueClosed)
  /\ UNCHANGED <<ring, sem, closed, policy, canceled, stats>>

ReturnCanceled(p, from) ==
  /\ p \in canceled
  /\ Return(p, from, CtxErr)
  /\ UNCHANGED <<ring, sem, closed, policy, canceled, stats>>

(* A popper moves on without touching the queue.                            *)
Moves(p, from, to) ==
  /\ Goto(p, from, to)
  /\ UNCHANGED <<ring, sem, closed, policy, canceled, result, stats>>

-----------------------------------------------------------------------------
Call(p) == Moves(p, "idle", "entered")

CheckCtx(p) ==
  \/ ReturnCanceled(p, "entered")
  \/ p \notin canceled /\ Moves(p, "entered", "fast")

(* Mutant: a closed queue is not drained first.                             *)
FastPathClosedFirst(p) ==
  \/ ~closed /\ TakeHead(p, "fast") /\ DrainToken
  \/ /\ closed
     /\ Return(p, "fast", ErrQueueClosed)
     /\ UNCHANGED <<ring, sem, closed, policy, canceled, stats>>
  \/ count = 0 /\ ~closed /\ Moves(p, "fast", "select")

FastPath(p) ==
  \/ TakeHead(p, "fast") /\ DrainToken
  \/ ReturnClosed(p, "fast")
  \/ count = 0 /\ ~closed /\ Moves(p, "fast", "select")

(* Mutant: a Close wakes only the poppers that find an event.               *)
SelectClosedChIfAny(p) == closed /\ count > 0 /\ Moves(p, "select", "drain")

(* The select of the slow path: Go picks any of the cases that are ready.   *)
SelectCtxDone(p) == ReturnCanceled(p, "select")

SelectClosedCh(p) == closed /\ Moves(p, "select", "drain")

SelectSem(p) ==
  /\ sem > 0
  /\ sem' = sem - 1
  /\ Goto(p, "select", "token")
  /\ UNCHANGED <<ring, closed, policy, canceled, result, stats>>

(* Mutant: a popper woken by Close does not look at the queue.              *)
DrainAfterCloseBlind(p) ==
  /\ closed
  /\ Return(p, "drain", ErrQueueClosed)
  /\ UNCHANGED <<ring, sem, closed, policy, canceled, stats>>

DrainAfterClose(p) ==
  \/ TakeHead(p, "drain") /\ DrainToken
  \/ ReturnClosed(p, "drain")

UseToken(p) ==
  \/ TakeHead(p, "token") /\ UNCHANGED sem
  \/ ReturnClosed(p, "token")
  \/ count = 0 /\ ~closed /\ Moves(p, "token", "select")

Close ==
  /\ ~closed
  /\ closed' = TRUE
  /\ UNCHANGED <<ring, sem, policy, pc, canceled, result, stats>>

(* The context of p's calls is canceled by its owner: at any time.          *)
Cancel(p) ==
  /\ p \notin canceled
  /\ canceled' = canceled \cup {p}
  /\ UNCHANGED <<ring, sem, closed, policy, pc, result, stats>>

PopStep(p) ==
  \/ CheckCtx(p) \/ FastPath(p)
  \/ SelectCtxDone(p) \/ SelectClosedCh(p) \/ SelectSem(p)
  \/ DrainAfterClose(p) \/ UseToken(p)

Next ==
  \/ \E e \in Events : Push(e)
  \/ \E p \in Poppers : Call(p) \/ PopStep(p) \/ Cancel(p)
  \/ Close

Spec == Init /\ [][Next]_vars

(* The Go scheduler runs a goroutine that can run, and a mutex whose        *)
(* sections do not block is granted: a popper inside Pop does not stop.     *)
(* Nobody is obliged to call Pop, Push, Close or the cancel function.       *)
FairSpec == Spec /\ \A p \in Poppers : WF_vars(PopStep(p))

-----------------------------------------------------------------------------
TypeOK ==
  /\ items \in [Slots -> Events \cup {NoEvent}]
  /\ head \in Slots /\ tail \in Slots
  /\ count \in 0 .. Capacity
  /\ sem \in 0 .. Capacity
  /\ closed \in BOOLEAN /\ policy \in Policies
  /\ pc \in [Poppers -> PopSteps]
  /\ canceled \in SUBSET Poppers
  /\ result \in [Poppers -> Events \cup {ErrQueueClosed, CtxErr, NoEvent}]
  /\ enqueued \in Nat /\ dequeued \in Nat /\ dropped \in Nat

(* The slots that hold the queue, from the oldest event on.                 *)
Live == {(head + i) % Capacity : i \in 0 .. count - 1}

(* head, tail and count agree, every slot of the queue holds an event, and  *)
(* every other slot was cleared, so that the ring keeps no reference to an  *)
(* event that was popped or evicted ("Clear reference to allow GC").        *)
RingWellFormed ==
  /\ tail = (head + count) % Capacity
  /\ \A s \in Slots : items[s] # NoEvent <=> s \in Live

(* The poppers that took a token and have not yet used it.                  *)
Holders == {p \in Poppers : pc[p] = "token"}

(* No lost wakeup: for every queued event there is a token in the channel,  *)
(* or a popper that already took one and is on its way to the mutex.  If it *)
(* failed, an event could stay queued while every popper sleeps.            *)
NoLostWakeup == count <= sem + Cardinality(Holders)

(* The counters of Stats account for every accepted event: it is queued, or *)
(* was returned by a Pop, or (DropOldest) was evicted.                      *)
StatsAccount ==
  enqueued = dequeued + count + (IF policy = "DropOldest" THEN dropped ELSE 0)

(* A Pop gives an event to one popper, and the queue is what OutboxQueue    *)
(* says: FIFO, bounded, closed only when empty.                             *)
Queue == [i \in 1 .. count |-> items[(head + i - 1) % Capacity]]

Abstract == INSTANCE OutboxQueue WITH
  queue   <- Queue,
  calling <- {p \in Poppers : pc[p] # "idle"}

(* Every step of the ring-and-semaphore outbox is a step of the abstract    *)
(* queue, or changes nothing the abstract queue shows.                      *)
Refinement == Abstract!QSpec

(* Pop is "blocking until an event is ready or ctx is canceled": a popper   *)
(* never stays in Pop for good while events are queued.                     *)
QueuedIsServed ==
  \A p \in Poppers : (pc[p] # "idle" /\ count > 0) ~> (pc[p] = "idle" \/ count = 0)

(* "Close ... unblocks waiting Pop calls", and so does canceling.           *)
PopUnblocks ==
  \A p \in Poppers :
    ((closed \/ p \in canceled) /\ pc[p] # "idle") ~> pc[p] = "idle"
=============================================================================
