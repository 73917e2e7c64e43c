---------------------------- MODULE OutboxQueue ----------------------------
(***************************************************************************)
(* What the outbox (internal/outbox/queue.go) promises to the code that    *)
(* uses it: a bounded FIFO queue of events.  A Push on a full queue either *)
(* loses the new event or evicts the oldest one, as the DropPolicy says.   *)
(* A Pop is a call that lasts for a while and then returns: the oldest     *)
(* event; ErrQueueClosed, only when the queue is closed and empty; or the  *)
(* error of its context, only when that context is canceled.               *)
(*                                                                         *)
(* There is no ring, no semaphore and no program counter here.  Module     *)
(* Outbox models those, and its Refinement property says that it           *)
(* implements this specification.  Module Dispatcher is built on this one. *)
(***************************************************************************)
EXTENDS Naturals, Sequences

CONSTANTS
  Events,          (* the events that may be pushed                         *)
  Poppers,         (* the goroutines that call Pop                          *)
  Capacity,        (* Config.Capacity, after NewOutbox has defaulted it     *)
  Policies,        (* the values Config.DropPolicy may have                 *)
  MaxPushes,       (* bound: pushes accepted plus events lost to overflow   *)
  ErrQueueClosed,  (* the error of a Pop on a closed and empty queue        *)
  CtxErr,          (* the error of a Pop whose context is canceled          *)
  NoEvent          (* Event{}: nothing returned yet, or a cleared slot      *)

ASSUME QueueAssumption ==
  /\ Capacity \in Nat \ {0}
  /\ Policies \subseteq {"DropNewest", "DropOldest"}
  /\ MaxPushes \in Nat
  /\ Events \cap {ErrQueueClosed, CtxErr, NoEvent} = {}

VARIABLES
  queue,      (* the events in the queue, the oldest first                  *)
  closed,     (* Close was called                                           *)
  policy,     (* Config.DropPolicy                                          *)
  calling,    (* the poppers inside a call of Pop                           *)
  canceled,   (* the poppers whose context is canceled                      *)
  result,     (* what the last completed Pop of each popper returned        *)
  enqueued, dequeued, dropped   (* the counters behind Stats                *)

stats == <<enqueued, dequeued, dropped>>
qvars == <<queue, closed, policy, calling, canceled, result, stats>>

PopResults == Events \cup {ErrQueueClosed, CtxErr, NoEvent}

QInit ==
  /\ queue = <<>>
  /\ closed = FALSE
  /\ policy \in Policies
  /\ calling = {}
  /\ canceled = {}
  /\ result = [p \in Poppers |-> NoEvent]
  /\ enqueued = 0 /\ dequeued = 0 /\ dropped = 0

-----------------------------------------------------------------------------
(* Push holds the mutex from its first line to its last: one step.  A Push  *)
(* on a closed queue returns ErrQueueClosed and changes nothing.            *)
PushFits(e) ==
  /\ Len(queue) < Capacity
  /\ queue' = Append(queue, e)
  /\ enqueued' = enqueued + 1
  /\ UNCHANGED dropped

PushEvicts(e) ==
  /\ Len(queue) = Capacity /\ policy = "DropOldest"
  /\ queue' = Append(Tail(queue), e)
  /\ enqueued' = enqueued + 1
  /\ dropped' = dropped + 1

PushRefused ==
  /\ Len(queue) = Capacity /\ policy = "DropNewest"
  /\ dropped' = dropped + 1
  /\ UNCHANGED <<queue, enqueued>>

QPush(e) ==
  /\ ~closed
  /\ enqueued + dropped < MaxPushes
  /\ PushFits(e) \/ PushEvicts(e) \/ PushRefused
  /\ UNCHANGED <<closed, policy, calling, canceled, result, dequeued>>

QCall(p) ==
  /\ p \notin calling
  /\ calling' = calling \cup {p}
  /\ UNCHANGED <<queue, closed, policy, canceled, result, stats>>

Returns(p, r) ==
  /\ p \in calling
  /\ calling' = calling \ {p}
  /\ result' = [result EXCEPT ![p] = r]

(* Mutant: Pop returns the oldest event and leaves it in the queue.         *)
QPopEventKeeps(p) ==
  /\ queue # <<>>
  /\ Returns(p, Head(queue))
  /\ dequeued' = dequeued + 1
  /\ UNCHANGED <<queue, closed, policy, canceled, enqueued, dropped>>

QPopEvent(p) ==
  /\ queue # <<>>
  /\ Returns(p, Head(queue))
  /\ queue' = Tail(queue)
  /\ dequeued' = dequeued + 1
  /\ UNCHANGED <<closed, policy, canceled, enqueued, dropped>>

QPopClosed(p) ==
  /\ closed /\ queue = <<>>
  /\ Returns(p, ErrQueueClosed)
  /\ UNCHANGED <<queue, closed, policy, canceled, stats>>

QPopCanceled(p) ==
  /\ p \in canceled
  /\ Returns(p, CtxErr)
  /\ UNCHANGED <<queue, closed, policy, canceled, stats>>

QClose ==
  /\ ~closed
  /\ closed' = TRUE
  /\ UNCHANGED <<queue, policy, calling, canceled, result, stats>>

(* One cancel function may cancel the context of several poppers.           *)
QCancel(ps) ==
  /\ ps \cap canceled = {}
  /\ canceled' = canceled \cup ps
  /\ UNCHANGED <<queue, closed, policy, calling, result, stats>>

QNext ==
  \/ \E e \in Events : QPush(e)
  \/ \E p \in Poppers :
       QCall(p) \/ QPopEvent(p) \/ QPopClosed(p) \/ QPopCanceled(p)
  \/ \E ps \in SUBSET Poppers : QCancel(ps)
  \/ QClose

QSpec == QInit /\ [][QNext]_qvars
=============================================================================
