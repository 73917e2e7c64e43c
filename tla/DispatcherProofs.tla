-------------------------- MODULE DispatcherProofs --------------------------
(***************************************************************************)
(* The dispatcher for every number of workers, retries and events.         *)
(*                                                                         *)
(* Accounting: what is taken from the outbox is sent, counted as failed,   *)
(* or still with a worker, until a shutdown interrupts the workers; a      *)
(* worker inside Pop works on nothing (AccountInv).                        *)
(* One worker per event: the queue is in the order of the event numbers,   *)
(* and workers hold distinct events older than all of it (Fifo).           *)
(* Duplicates: an event was sent at most once for each attempt, and never  *)
(* before it left the queue (Tried, over Fifo).                            *)
(* Meaning of the counters: over Tried, what counts as sent was taken by   *)
(* the endpoint, and what nobody took or holds counts as failed (LossInv). *)
(* Retries: one that is counted was sent or waits to be (RetryInv).        *)
(***************************************************************************)
EXTENDS Dispatcher, FiniteSetTheorems, TLAPS

AccountInv ==
  /\ dequeued \in Nat
  /\ metricDispatched \in Nat /\ metricFailures \in Nat
  /\ wpc \in [Workers -> WorkerSteps]
  /\ \A w \in calling : w \in Workers /\ wpc[w] = "loop"
  /\ DispatchAccount

-----------------------------------------------------------------------------
(* The number of busy workers.                                              *)
LEMMA BusyFinite == IsFiniteSet(Busy) /\ Cardinality(Busy) \in Nat
<1>1. Busy \in SUBSET Workers  BY DEF Busy
<1>2. IsFiniteSet(Workers)     BY DispatcherAssumption DEF Workers
<1> QED BY <1>1, <1>2, FS_Subset, FS_CardinalityType

LEMMA BusyGrows ==
  ASSUME wpc \in [Workers -> WorkerSteps], NEW w \in Workers, wpc[w] = "loop",
         wpc' = [wpc EXCEPT ![w] = "post"]
  PROVE  Cardinality(Busy') = Cardinality(Busy) + 1
<1>1. Busy' = Busy \cup {w} /\ w \notin Busy  BY DEF Busy
<1> QED BY <1>1, BusyFinite, FS_AddElement

LEMMA BusyShrinks ==
  ASSUME wpc \in [Workers -> WorkerSteps], NEW w \in Busy,
         wpc' = [wpc EXCEPT ![w] = "loop"]
  PROVE  /\ Cardinality(Busy') = Cardinality(Busy) - 1
         /\ Cardinality(Busy) > 0
<1>1. Busy' = Busy \ {w}  BY DEF Busy
<1>2. Cardinality(Busy') = Cardinality(Busy) - 1
  BY <1>1, BusyFinite, FS_RemoveElement
<1>3. Cardinality(Busy') \in Nat
  BY <1>1, BusyFinite, FS_RemoveElement, FS_CardinalityType
<1> QED BY <1>2, <1>3, BusyFinite

LEMMA BusySame ==
  ASSUME wpc \in [Workers -> WorkerSteps], NEW w \in Workers, NEW to,
         wpc' = [wpc EXCEPT ![w] = to],
         \/ w \in Busy /\ to \in {"post", "backoff"}
         \/ w \notin Busy /\ to \in {"loop", "done"}
  PROVE  Busy' = Busy
BY DEF Busy

-----------------------------------------------------------------------------
(* A worker gets an event.                                                  *)
LEMMA AccountPop ==
  ASSUME AccountInv, NEW w \in Workers, PopGetsEvent(w)
  PROVE  AccountInv'
<1> USE DEF AccountInv
<1>1. w \in calling /\ wpc[w] = "loop"
  BY DEF PopGetsEvent, QPopEvent, Returns
<1>2. /\ calling' = calling \ {w} /\ dequeued' = dequeued + 1
      /\ wpc' = [wpc EXCEPT ![w] = "post"]
      /\ UNCHANGED <<canceled, metricDispatched, metricFailures>>
  BY DEF PopGetsEvent, QPopEvent, Returns, StartPost, metricVars
<1>3. Cardinality(Busy') = Cardinality(Busy) + 1
  BY <1>1, <1>2, BusyGrows
<1>4. DispatchAccount'
  BY <1>2, <1>3, BusyFinite DEF DispatchAccount
<1> QED BY <1>1, <1>2, <1>4 DEF WorkerSteps

(* A worker is done with its event.                                         *)
LEMMA AccountSettle ==
  ASSUME AccountInv, NEW w \in Busy,
         wpc' = [wpc EXCEPT ![w] = "loop"],
         UNCHANGED <<calling, canceled, dequeued>>,
         \/ /\ metricDispatched' = metricDispatched + 1
            /\ UNCHANGED metricFailures
         \/ /\ UNCHANGED metricDispatched
            /\ metricFailures' = IF w \in canceled THEN metricFailures
                                 ELSE metricFailures + 1
  PROVE  AccountInv'
<1> USE DEF AccountInv
<1>1. /\ Cardinality(Busy') = Cardinality(Busy) - 1
      /\ Cardinality(Busy) > 0
  BY BusyShrinks
<1>2. DispatchAccount'
  BY <1>1, BusyFinite DEF DispatchAccount
<1>3. wpc' \in [Workers -> WorkerSteps]  BY DEF WorkerSteps
<1>4. \A v \in calling : wpc'[v] = "loop"  BY DEF Busy
<1> QED BY <1>2, <1>3, <1>4

(* A step that moves no event between the outbox and the counters.          *)
LEMMA AccountKept ==
  ASSUME AccountInv, Busy' = Busy, wpc' \in [Workers -> WorkerSteps],
         \A v \in calling' : v \in Workers /\ wpc'[v] = "loop",
         canceled \subseteq canceled',
         UNCHANGED <<dequeued, metricDispatched, metricFailures>>
  PROVE  AccountInv'
BY DEF AccountInv, DispatchAccount

LEMMA AccountWorker ==
  ASSUME AccountInv, NEW w \in Workers, WorkerStep(w)
  PROVE  AccountInv'
<1> USE DEF AccountInv, WorkerSteps
<1>1. CASE CallPop(w)
  <2>1. Busy' = Busy  BY <1>1 DEF CallPop, Busy
  <2> QED BY <1>1, <2>1, AccountKept DEF CallPop, QCall, stats, metricVars
<1>2. CASE PopFails(w)
  <2>1. /\ w \in calling /\ calling' = calling \ {w}
        /\ wpc' = [wpc EXCEPT ![w] = "done"]
        /\ UNCHANGED <<canceled, dequeued, metricDispatched, metricFailures>>
    BY <1>2 DEF PopFails, QPopClosed, QPopCanceled, Returns, stats, metricVars
  <2>2. w \notin Busy  BY <2>1 DEF Busy
  <2>3. Busy' = Busy   BY <2>1, <2>2, BusySame
  <2> QED BY <2>1, <2>3, AccountKept
<1>3. CASE PopGetsEvent(w)  BY <1>3, AccountPop
<1>4. ASSUME w \in Busy, NEW to \in {"post", "backoff"},
             wpc' = [wpc EXCEPT ![w] = to],
             UNCHANGED <<calling, canceled, dequeued, metricDispatched,
                         metricFailures>>
      PROVE  AccountInv'
  <2>1. Busy' = Busy  BY <1>4, BusySame
  <2>2. \A v \in calling : wpc'[v] = "loop"  BY <1>4 DEF Busy
  <2> QED BY <1>4, <2>1, <2>2, AccountKept
<1>5. ASSUME w \in Busy, PostFails(w) PROVE AccountInv'
  BY <1>4, <1>5, AccountSettle
     DEF PostFails, RetryLater, GiveUp, qvars, stats
<1>6. CASE PostSucceeds(w)
  BY <1>6, AccountSettle DEF PostSucceeds, Busy, qvars, stats
<1>7. CASE PostRefused(w) \/ PostAborted(w)
  BY <1>5, <1>7 DEF PostRefused, PostAborted, Busy
<1>8. CASE BackoffElapses(w)
  BY <1>4, <1>8 DEF BackoffElapses, StartPost, Busy, qvars, stats, metricVars
<1>9. CASE BackoffCanceled(w)
  BY <1>9, AccountSettle DEF BackoffCanceled, GiveUp, Busy, qvars, stats
<1> QED BY <1>1, <1>2, <1>3, <1>6, <1>7, <1>8, <1>9 DEF WorkerStep

-----------------------------------------------------------------------------
(* Nothing the dispatcher took from the outbox leaves its counters: it is   *)
(* sent, counted as failed, or still with a worker, unless the shutdown     *)
(* interrupts it.                                                           *)
THEOREM AccountCorrect == Spec => []DispatchAccount
<1>1. Init => AccountInv
  <2> SUFFICES ASSUME Init PROVE AccountInv  OBVIOUS
  <2>1. Busy = {}  BY DEF Init, Busy
  <2>2. Cardinality(Busy) = 0  BY <2>1, FS_EmptySet
  <2> QED BY <2>2 DEF Init, QInit, AccountInv, DispatchAccount, WorkerSteps
<1>2. AccountInv /\ [Next]_vars => AccountInv'
  <2> SUFFICES ASSUME AccountInv, [Next]_vars PROVE AccountInv'  OBVIOUS
  <2>1. ASSUME canceled \subseteq canceled',
               UNCHANGED <<calling, dequeued, wpc, metricDispatched, metricFailures>>
        PROVE  AccountInv'
    BY <2>1, AccountKept DEF AccountInv, Busy
  <2>2. CASE Emit  BY <2>1, <2>2 DEF Emit, QPush, metricVars
  <2>3. CASE CancelCtx  BY <2>1, <2>3 DEF CancelCtx, QCancel, stats, metricVars
  <2>4. CASE CloseOutbox  BY <2>1, <2>4 DEF CloseOutbox, QClose, stats, metricVars
  <2>5. ASSUME NEW w \in Workers, WorkerStep(w) PROVE AccountInv'
    BY <2>5, AccountWorker
  <2>6. ASSUME NEW w \in Workers, EndpointAnswers(w) PROVE AccountInv'
    BY <2>1, <2>6 DEF EndpointAnswers, qvars, stats, metricVars
  <2>7. ASSUME NEW e \in Events, LateArrival(e) PROVE AccountInv'
    BY <2>1, <2>7 DEF LateArrival, qvars, stats, metricVars
  <2>8. CASE UNCHANGED vars
    BY <2>1, <2>8 DEF vars, qvars, stats, metricVars
  <2> QED BY <2>2, <2>3, <2>4, <2>5, <2>6, <2>7, <2>8 DEF Next
<1>3. AccountInv => DispatchAccount  BY DEF AccountInv
<1> QED BY <1>1, <1>2, <1>3, PTL DEF Spec

-----------------------------------------------------------------------------
(* Types.  The steps of a worker that has an event, apart from the others.  *)
LEMMA TypePush == ASSUME TypeOK, Emit PROVE TypeOK'
<1> USE QueueAssumption, DispatcherAssumption
<1>1. /\ enqueued + dropped < MaxPushes
      /\ PushFits(enqueued + 1) \/ PushEvicts(enqueued + 1) \/ PushRefused
      /\ UNCHANGED <<closed, policy, calling, canceled, result, dequeued,
                     wpc, attempt, reply, metricVars, accepted, late, resent>>
  BY DEF Emit, QPush
<1>2. enqueued \in Nat /\ dropped \in Nat  BY DEF TypeOK
<1>3. enqueued + 1 \in Events  BY <1>1, <1>2
<1>4. queue \in Seq(Events) /\ Len(queue) <= Capacity  BY DEF TypeOK
<1>5. /\ queue' \in Seq(Events) /\ Len(queue') <= Capacity
      /\ enqueued' \in Nat /\ dropped' \in Nat
  <2>1. CASE PushFits(enqueued + 1)  BY <1>2, <1>3, <1>4, <2>1 DEF PushFits
  <2>2. CASE PushEvicts(enqueued + 1)
    <3>1. queue # <<>>  BY <1>4, <2>2 DEF PushEvicts
    <3>2. Tail(queue) \in Seq(Events) /\ Len(Tail(queue)) = Len(queue) - 1
      BY <1>4, <3>1
    <3> QED BY <1>2, <1>3, <1>4, <2>2, <3>2 DEF PushEvicts
  <2>3. CASE PushRefused  BY <1>2, <1>4, <2>3 DEF PushRefused
  <2> QED BY <1>1, <2>1, <2>2, <2>3
<1> QED BY <1>1, <1>5 DEF TypeOK, metricVars, Busy, evt

LEMMA TypePop ==
  ASSUME TypeOK, NEW w \in Workers, PopGetsEvent(w) PROVE TypeOK'
<1> USE DispatcherAssumption
<1>1. /\ queue # <<>> /\ w \in calling
      /\ calling' = calling \ {w}
      /\ result' = [result EXCEPT ![w] = Head(queue)]
      /\ queue' = Tail(queue) /\ dequeued' = dequeued + 1
      /\ attempt' = [attempt EXCEPT ![w] = 0]
      /\ wpc' = [wpc EXCEPT ![w] = "post"]
      /\ reply' = [reply EXCEPT ![w] = "none"] /\ resent' = resent
      /\ UNCHANGED <<closed, policy, canceled, enqueued, dropped,
                     metricVars, accepted, late>>
  BY DEF PopGetsEvent, QPopEvent, Returns, StartPost
<1>2. queue \in Seq(Events) /\ Len(queue) <= Capacity  BY DEF TypeOK
<1>3. /\ Head(queue) \in Events /\ Tail(queue) \in Seq(Events)
      /\ Len(Tail(queue)) <= Capacity
  BY <1>1, <1>2, QueueAssumption
<1>4. \A v \in Busy' : evt(v)' \in Events /\ v \notin calling'
  <2> SUFFICES ASSUME NEW v \in Busy' PROVE evt(v)' \in Events /\ v \notin calling'
    OBVIOUS
  <2>1. CASE v = w  BY <1>1, <1>3, <2>1 DEF evt, TypeOK
  <2>2. CASE v # w  BY <1>1, <2>2 DEF evt, TypeOK, Busy
  <2> QED BY <2>1, <2>2
<1>5. /\ result' \in [Workers -> PopResults]
      /\ attempt' \in [Workers -> 0 .. MaxRetries]
      /\ wpc' \in [Workers -> WorkerSteps] /\ reply' \in [Workers -> Replies]
  BY <1>1, <1>3 DEF TypeOK, PopResults, WorkerSteps, Replies
<1> QED BY <1>1, <1>3, <1>4, <1>5 DEF TypeOK, metricVars

(* A worker that has an event does something with it.                       *)
WorksOn(w) ==
  /\ w \in Busy
  /\ UNCHANGED <<queue, closed, policy, calling, canceled, result, enqueued,
                 dequeued, dropped>>

LEMMA TypeWork ==
  ASSUME TypeOK, NEW w \in Workers,
         \/ PostSucceeds(w) \/ PostRefused(w) \/ PostAborted(w)
         \/ BackoffElapses(w) \/ BackoffCanceled(w) \/ EndpointAnswers(w)
  PROVE  TypeOK' /\ WorksOn(w)
<1> USE DispatcherAssumption DEF TypeOK, WorkerSteps, Replies
<1>1. WorksOn(w)
  BY DEF WorksOn, Busy, qvars, stats, PostSucceeds, PostRefused, PostAborted,
         PostFails, BackoffElapses, BackoffCanceled, EndpointAnswers
<1>2. evt(w) \in Events /\ accepted[evt(w)] \in Nat /\ late[evt(w)] \in Nat
  BY <1>1 DEF WorksOn
<1>3. Busy' \subseteq Busy
  BY DEF Busy, PostSucceeds, PostRefused, PostAborted, PostFails, RetryLater,
         GiveUp, BackoffElapses, BackoffCanceled, StartPost, EndpointAnswers
<1>4. \A v \in Busy' : evt(v)' \in Events /\ v \notin calling'
  BY <1>1, <1>3 DEF WorksOn, evt
<1>5. ASSUME PostFails(w)
      PROVE  /\ wpc' \in [Workers -> WorkerSteps]
             /\ attempt' \in [Workers -> 0 .. MaxRetries]
             /\ metricFailures' \in Nat /\ metricRetries' \in Nat
             /\ UNCHANGED <<reply, metricDispatched, accepted, resent>>
  <2>1. UNCHANGED <<reply, metricDispatched, accepted, resent>>
    BY <1>5 DEF PostFails
  <2>2. CASE RetryLater(w)
    <3>1. attempt[w] + 1 \in 0 .. MaxRetries  BY <2>2 DEF RetryLater
    <3> QED BY <2>1, <2>2, <3>1 DEF RetryLater
  <2>3. CASE GiveUp(w)  BY <2>1, <2>3 DEF GiveUp
  <2> QED BY <1>5, <2>2, <2>3 DEF PostFails
<1>6. CASE PostSucceeds(w)
  BY <1>1, <1>4, <1>6 DEF PostSucceeds, WorksOn
<1>7. CASE PostRefused(w)
  BY <1>1, <1>4, <1>5, <1>7 DEF PostRefused, WorksOn
<1>8. CASE PostAborted(w)
  <2>1. late' \in [Events -> Nat]  BY <1>2, <1>8 DEF PostAborted
  <2> QED BY <1>1, <1>4, <1>5, <1>8, <2>1 DEF PostAborted, WorksOn
<1>9. CASE BackoffElapses(w)
  BY <1>1, <1>4, <1>9 DEF BackoffElapses, StartPost, WorksOn, metricVars
<1>10. CASE BackoffCanceled(w)
  BY <1>1, <1>4, <1>10 DEF BackoffCanceled, GiveUp, WorksOn
<1>11. CASE EndpointAnswers(w)
  <2>1. reply' \in [Workers -> Replies] /\ accepted' \in [Events -> Nat]
    <3>1. CASE /\ reply' = [reply EXCEPT ![w] = "2xx"]
               /\ accepted' = [accepted EXCEPT ![evt(w)] = @ + 1]
      BY <1>2, <3>1
    <3>2. CASE /\ reply' = [reply EXCEPT ![w] = "refused"]
               /\ UNCHANGED accepted
      BY <3>2
    <3> QED BY <1>11, <3>1, <3>2 DEF EndpointAnswers
  <2> QED BY <1>1, <1>4, <1>11, <2>1 DEF EndpointAnswers, WorksOn, metricVars
<1> QED BY <1>6, <1>7, <1>8, <1>9, <1>10, <1>11

(* The steps that are about the outbox only, or the environment.            *)
LEMMA TypeOther ==
  ASSUME TypeOK,
         \/ CancelCtx \/ CloseOutbox \/ UNCHANGED vars
         \/ \E w \in Workers : CallPop(w) \/ PopFails(w)
         \/ \E e \in Events : LateArrival(e)
  PROVE  TypeOK'
<1> USE DispatcherAssumption DEF TypeOK, Busy, evt, metricVars, stats
<1>1. CASE CancelCtx  BY <1>1 DEF CancelCtx, QCancel
<1>2. CASE CloseOutbox  BY <1>2 DEF CloseOutbox, QClose
<1>3. CASE UNCHANGED vars  BY <1>3 DEF vars, qvars
<1>4. ASSUME NEW w \in Workers, CallPop(w) PROVE TypeOK'
  BY <1>4 DEF CallPop, QCall, Workers
<1>5. ASSUME NEW w \in Workers, PopFails(w) PROVE TypeOK'
  <2>1. /\ \E r \in {ErrQueueClosed, CtxErr} : result' = [result EXCEPT ![w] = r]
        /\ calling' = calling \ {w} /\ wpc' = [wpc EXCEPT ![w] = "done"]
        /\ UNCHANGED <<queue, closed, policy, canceled, enqueued, dequeued,
                       dropped, attempt, reply, metricVars, accepted, late,
                       resent>>
    BY <1>5 DEF PopFails, QPopClosed, QPopCanceled, Returns
  <2>2. /\ result' \in [Workers -> PopResults]
        /\ wpc' \in [Workers -> WorkerSteps]
    BY <2>1 DEF PopResults, WorkerSteps
  <2>3. \A v \in Busy' : v \in Busy /\ result'[v] = result[v]  BY <2>1
  <2> QED BY <2>1, <2>2, <2>3
<1>6. ASSUME NEW e \in Events, LateArrival(e) PROVE TypeOK'
  <2>1. accepted' \in [Events -> Nat] /\ late' \in [Events -> Nat]
    BY <1>6 DEF LateArrival
  <2> QED BY <1>6, <2>1 DEF LateArrival, qvars
<1> QED BY <1>1, <1>2, <1>3, <1>4, <1>5, <1>6

LEMMA TypeInv == TypeOK /\ [Next]_vars => TypeOK'
BY TypePush, TypePop, TypeWork, TypeOther DEF Next, WorkerStep

LEMMA TypeInit == Init => TypeOK
<1> SUFFICES ASSUME Init PROVE TypeOK  OBVIOUS
<1>1. /\ queue \in Seq(Events) /\ Len(queue) <= Capacity
      /\ result \in [Workers -> PopResults]
  BY QueueAssumption DEF Init, QInit, PopResults, Workers
<1>2. Busy = {}  BY DEF Init, Busy
<1>3. /\ accepted \in [Events -> Nat] /\ late \in [Events -> Nat]
      /\ attempt \in [Workers -> 0 .. MaxRetries]
      /\ wpc \in [Workers -> WorkerSteps] /\ reply \in [Workers -> Replies]
  BY DispatcherAssumption DEF Init, WorkerSteps, Replies
<1>4. /\ closed \in BOOLEAN /\ policy \in Policies /\ calling = {} /\ canceled = {}
      /\ enqueued = 0 /\ dequeued = 0 /\ dropped = 0 /\ resent = 0
      /\ metricDispatched = 0 /\ metricFailures = 0 /\ metricRetries = 0
  BY DEF Init, QInit
<1> QED BY <1>1, <1>2, <1>3, <1>4 DEF TypeOK

(* Types are kept: a worker inside Pop has no event, and one that has an    *)
(* event has one of the events.                                             *)
THEOREM TypeCorrect == Spec => []TypeOK
BY TypeInit, TypeInv, PTL DEF Spec

-----------------------------------------------------------------------------
(* One worker per event: the queue holds events in the order of their       *)
(* numbers, all workers hold earlier ones, and no two the same.             *)
Fifo ==
  /\ \A i \in 1 .. Len(queue) : queue[i] <= enqueued
  /\ \A i, j \in 1 .. Len(queue) : i < j => queue[i] < queue[j]
  /\ \A w \in Busy : /\ evt(w) <= enqueued
                     /\ \A i \in 1 .. Len(queue) : evt(w) < queue[i]
  /\ \A v, w \in Busy : v # w => evt(v) # evt(w)

LEMMA FifoKept ==
  ASSUME Fifo, UNCHANGED <<queue, enqueued>>, Busy' \subseteq Busy,
         \A w \in Busy' : result'[w] = result[w]
  PROVE  Fifo'
BY DEF Fifo, evt

(* A sequence in the order of its numbers stays so when its first number    *)
(* goes, or a larger one is added.                                          *)
LEMMA OrderedTail ==
  ASSUME NEW q \in Seq(Nat), q # <<>>,
         \A i, j \in 1 .. Len(q) : i < j => q[i] < q[j]
  PROVE  /\ \A i, j \in 1 .. Len(Tail(q)) : i < j => Tail(q)[i] < Tail(q)[j]
         /\ \A i \in 1 .. Len(Tail(q)) :
              Head(q) < Tail(q)[i] /\ \E j \in 1 .. Len(q) : Tail(q)[i] = q[j]
         /\ Tail(q) \in Seq(Nat) /\ Head(q) = q[1] /\ 1 \in 1 .. Len(q)
<1>1. /\ Len(Tail(q)) = Len(q) - 1 /\ Len(q) \in Nat \ {0}
      /\ \A i \in 1 .. Len(Tail(q)) : Tail(q)[i] = q[i + 1]
      /\ Head(q) = q[1] /\ Tail(q) \in Seq(Nat)
  OBVIOUS
<1>2. \A i \in 1 .. Len(Tail(q)) : i + 1 \in 1 .. Len(q)  BY <1>1
<1>3. ASSUME NEW i \in 1 .. Len(Tail(q)), NEW j \in 1 .. Len(Tail(q)), i < j
      PROVE  Tail(q)[i] < Tail(q)[j]
  BY <1>1, <1>2, <1>3
<1>4. ASSUME NEW i \in 1 .. Len(Tail(q))
      PROVE  Head(q) < Tail(q)[i] /\ \E j \in 1 .. Len(q) : Tail(q)[i] = q[j]
  <2>1. 1 < i + 1 /\ 1 \in 1 .. Len(q) /\ i + 1 \in 1 .. Len(q)  BY <1>1, <1>2
  <2> QED BY <1>1, <2>1
<1> QED BY <1>1, <1>3, <1>4

LEMMA OrderedAppend ==
  ASSUME NEW q \in Seq(Nat), NEW e \in Nat,
         \A i, j \in 1 .. Len(q) : i < j => q[i] < q[j],
         \A i \in 1 .. Len(q) : q[i] < e
  PROVE  /\ \A i, j \in 1 .. Len(Append(q, e)) :
              i < j => Append(q, e)[i] < Append(q, e)[j]
         /\ \A i \in 1 .. Len(Append(q, e)) :
              Append(q, e)[i] = e \/ \E j \in 1 .. Len(q) : Append(q, e)[i] = q[j]
<1>1. /\ Len(Append(q, e)) = Len(q) + 1 /\ Len(q) \in Nat
      /\ \A i \in 1 .. Len(q) : Append(q, e)[i] = q[i]
      /\ Append(q, e)[Len(q) + 1] = e
  OBVIOUS
<1>2. \A i \in 1 .. Len(Append(q, e)) : i \in 1 .. Len(q) \/ i = Len(q) + 1
  BY <1>1
<1>3. ASSUME NEW i \in 1 .. Len(Append(q, e)), NEW j \in 1 .. Len(Append(q, e)),
             i < j
      PROVE  Append(q, e)[i] < Append(q, e)[j]
  <2>1. i \in 1 .. Len(q)  BY <1>1, <1>3
  <2> QED BY <1>1, <1>2, <1>3, <2>1
<1> QED BY <1>1, <1>2, <1>3

(* Events are numbers.                                                      *)
LEMMA Numbers ==
  ASSUME TypeOK
  PROVE  /\ queue \in Seq(Nat) /\ Len(queue) \in Nat /\ enqueued \in Nat
         /\ \A w \in Busy : evt(w) \in Nat /\ w \notin calling
         /\ \A i \in 1 .. Len(queue) : queue[i] \in Nat
<1>1. \A e \in Events : e \in Nat
  BY DispatcherAssumption, QueueAssumption
<1>2. queue \in Seq(Events)  BY DEF TypeOK
<1>3. Len(queue) \in Nat /\ \A i \in 1 .. Len(queue) : queue[i] \in Events
  BY <1>2
<1>4. queue \in Seq(Nat)
  BY DispatcherAssumption, QueueAssumption DEF TypeOK
<1> QED BY <1>1, <1>3, <1>4 DEF TypeOK

LEMMA FifoPush == ASSUME TypeOK, Fifo, Emit PROVE Fifo'
<1>1. /\ PushFits(enqueued + 1) \/ PushEvicts(enqueued + 1) \/ PushRefused
      /\ UNCHANGED <<result, wpc>>
  BY DEF Emit, QPush
<1>2. /\ queue \in Seq(Nat) /\ Len(queue) \in Nat /\ enqueued \in Nat
      /\ \A w \in Busy : evt(w) \in Nat
      /\ \A i \in 1 .. Len(queue) : queue[i] \in Nat
  BY Numbers
<1>3. /\ \A i \in 1 .. Len(queue) : queue[i] <= enqueued
      /\ \A i, j \in 1 .. Len(queue) : i < j => queue[i] < queue[j]
      /\ \A w \in Busy : /\ evt(w) <= enqueued
                         /\ \A i \in 1 .. Len(queue) : evt(w) < queue[i]
      /\ \A v, w \in Busy : v # w => evt(v) # evt(w)
  BY DEF Fifo
<1>4. Busy' = Busy /\ \A w \in Busy : evt(w)' = evt(w)
  BY <1>1 DEF Busy, evt
<1>5. ASSUME NEW q \in Seq(Nat), queue' = Append(q, enqueued + 1),
             enqueued' = enqueued + 1,
             \A i, j \in 1 .. Len(q) : i < j => q[i] < q[j],
             \A i \in 1 .. Len(q) : \E j \in 1 .. Len(queue) : q[i] = queue[j]
      PROVE  Fifo'
  <2>1. \A i \in 1 .. Len(q) :
          q[i] < enqueued + 1 /\ \A w \in Busy : evt(w) < q[i]
    <3> SUFFICES ASSUME NEW i \in 1 .. Len(q)
                 PROVE  q[i] < enqueued + 1 /\ \A w \in Busy : evt(w) < q[i]
      OBVIOUS
    <3>1. PICK j \in 1 .. Len(queue) : q[i] = queue[j]  BY <1>5
    <3>2. queue[j] \in Nat /\ queue[j] <= enqueued  BY <1>2, <1>3
    <3>3. \A w \in Busy : evt(w) < queue[j]  BY <1>3
    <3> QED BY <1>2, <3>1, <3>2, <3>3
  <2>2. /\ \A i, j \in 1 .. Len(queue') : i < j => queue'[i] < queue'[j]
        /\ \A i \in 1 .. Len(queue') :
             queue'[i] = enqueued + 1 \/ \E j \in 1 .. Len(q) : queue'[i] = q[j]
    BY <1>2, <1>5, <2>1, OrderedAppend
  <2>3. \A i \in 1 .. Len(queue') :
          queue'[i] <= enqueued + 1 /\ \A w \in Busy : evt(w) < queue'[i]
    <3> SUFFICES ASSUME NEW i \in 1 .. Len(queue')
                 PROVE  /\ queue'[i] <= enqueued + 1
                        /\ \A w \in Busy : evt(w) < queue'[i]
      OBVIOUS
    <3>1. CASE queue'[i] = enqueued + 1
      <4>1. \A w \in Busy : evt(w) < enqueued + 1  BY <1>2, <1>3
      <4> QED BY <1>2, <3>1, <4>1
    <3>2. ASSUME NEW j \in 1 .. Len(q), queue'[i] = q[j]
          PROVE  /\ queue'[i] <= enqueued + 1
                 /\ \A w \in Busy : evt(w) < queue'[i]
      <4>1. q[j] \in Nat  BY <1>5
      <4> QED BY <1>2, <2>1, <3>2, <4>1
    <3> QED BY <2>2, <3>1, <3>2
  <2>4. \A w \in Busy : evt(w) <= enqueued + 1  BY <1>2, <1>3
  <2>5. /\ \A i \in 1 .. Len(queue') : queue'[i] <= enqueued'
        /\ \A w \in Busy' :
             /\ evt(w)' <= enqueued'
             /\ \A i \in 1 .. Len(queue') : evt(w)' < queue'[i]
    BY <1>4, <1>5, <2>3, <2>4
  <2>6. \A v, w \in Busy' : v # w => evt(v)' # evt(w)'  BY <1>3, <1>4
  <2> QED BY <2>2, <2>5, <2>6 DEF Fifo
<1>6. CASE PushFits(enqueued + 1)  BY <1>2, <1>3, <1>5, <1>6 DEF PushFits
<1>7. CASE PushEvicts(enqueued + 1)
  <2>1. queue # <<>>  BY <1>7, QueueAssumption DEF PushEvicts
  <2> QED BY <1>2, <1>3, <1>5, <1>7, <2>1, OrderedTail DEF PushEvicts
<1>8. CASE PushRefused
  BY <1>1, <1>4, <1>8, FifoKept DEF PushRefused
<1> QED BY <1>1, <1>6, <1>7, <1>8

LEMMA FifoPop ==
  ASSUME TypeOK, Fifo, NEW w \in Workers, PopGetsEvent(w) PROVE Fifo'
<1>1. /\ queue # <<>> /\ w \in calling
      /\ result' = [result EXCEPT ![w] = Head(queue)]
      /\ queue' = Tail(queue) /\ enqueued' = enqueued
      /\ wpc' = [wpc EXCEPT ![w] = "post"]
  BY DEF PopGetsEvent, QPopEvent, Returns, StartPost
<1>2. /\ queue \in Seq(Nat) /\ enqueued \in Nat
      /\ \A v \in Busy : evt(v) \in Nat
      /\ \A i \in 1 .. Len(queue) : queue[i] \in Nat
      /\ w \notin Busy
  BY <1>1, Numbers
<1>3. /\ \A i \in 1 .. Len(queue) : queue[i] <= enqueued
      /\ \A i, j \in 1 .. Len(queue) : i < j => queue[i] < queue[j]
      /\ \A v \in Busy : /\ evt(v) <= enqueued
                         /\ \A i \in 1 .. Len(queue) : evt(v) < queue[i]
      /\ \A u, v \in Busy : u # v => evt(u) # evt(v)
  BY DEF Fifo
<1>4. /\ Busy' = Busy \cup {w} /\ evt(w)' = Head(queue)
      /\ \A v \in Busy : evt(v)' = evt(v)
  BY <1>1, <1>2, DispatcherAssumption DEF Busy, evt, TypeOK, Workers
<1>5. /\ \A i, j \in 1 .. Len(queue') : i < j => queue'[i] < queue'[j]
      /\ \A i \in 1 .. Len(queue') :
           Head(queue) < queue'[i] /\ \E j \in 1 .. Len(queue) : queue'[i] = queue[j]
      /\ Head(queue) = queue[1] /\ 1 \in 1 .. Len(queue)
  BY <1>1, <1>2, <1>3, OrderedTail
<1>6. /\ \A i \in 1 .. Len(queue') : queue'[i] <= enqueued'
      /\ \A v \in Busy' : /\ evt(v)' <= enqueued'
                          /\ \A i \in 1 .. Len(queue') : evt(v)' < queue'[i]
  BY <1>1, <1>3, <1>4, <1>5
<1>7. \A v \in Busy : evt(v) # Head(queue)  BY <1>2, <1>3, <1>5
<1>8. \A u, v \in Busy' : u # v => evt(u)' # evt(v)'
  BY <1>3, <1>4, <1>7
<1> QED BY <1>5, <1>6, <1>8 DEF Fifo

(* Every other step leaves the queue alone, and lets workers only drop      *)
(* events.                                                                  *)
LEMMA CalmStep ==
  ASSUME TypeOK,
         \/ CancelCtx \/ CloseOutbox \/ UNCHANGED vars
         \/ \E w \in Workers :
              \/ CallPop(w) \/ PopFails(w) \/ EndpointAnswers(w)
              \/ PostSucceeds(w) \/ PostRefused(w) \/ PostAborted(w)
              \/ BackoffElapses(w) \/ BackoffCanceled(w)
         \/ \E e \in Events : LateArrival(e)
  PROVE  /\ UNCHANGED <<queue, enqueued>> /\ Busy' \subseteq Busy
         /\ \A v \in Busy' : result'[v] = result[v]
<1> USE DEF TypeOK, Busy, Workers, stats
<1>1. CASE CancelCtx  BY <1>1 DEF CancelCtx, QCancel
<1>2. CASE CloseOutbox  BY <1>2 DEF CloseOutbox, QClose
<1>3. CASE UNCHANGED vars  BY <1>3 DEF vars, qvars
<1>4. ASSUME NEW w \in Workers, CallPop(w)
      PROVE  UNCHANGED <<queue, enqueued, wpc, result>>
  BY <1>4 DEF CallPop, QCall
<1>5. ASSUME NEW w \in Workers, PopFails(w)
      PROVE  /\ UNCHANGED <<queue, enqueued>> /\ Busy' \subseteq Busy
             /\ \A v \in Busy' : result'[v] = result[v]
  <2>1. /\ \E r \in {ErrQueueClosed, CtxErr} : result' = [result EXCEPT ![w] = r]
        /\ wpc' = [wpc EXCEPT ![w] = "done"] /\ UNCHANGED <<queue, enqueued>>
    BY <1>5 DEF PopFails, QPopClosed, QPopCanceled, Returns
  <2> QED BY <2>1
<1>6. ASSUME NEW w \in Workers,
             \/ PostSucceeds(w) \/ PostRefused(w) \/ PostAborted(w)
             \/ BackoffElapses(w) \/ BackoffCanceled(w) \/ EndpointAnswers(w)
      PROVE  UNCHANGED <<queue, enqueued, result>> /\ Busy' \subseteq Busy
  <2>1. UNCHANGED <<queue, enqueued, result>>  BY <1>6, TypeWork DEF WorksOn
  <2>2. Busy' \subseteq Busy
    BY <1>6 DEF PostSucceeds, PostRefused, PostAborted, PostFails, RetryLater,
       GiveUp, BackoffElapses, BackoffCanceled, StartPost, EndpointAnswers
  <2> QED BY <2>1, <2>2
<1>7. ASSUME NEW e \in Events, LateArrival(e)
      PROVE  UNCHANGED <<queue, enqueued, wpc, result>>
  BY <1>7 DEF LateArrival, qvars
<1> QED BY <1>1, <1>2, <1>3, <1>4, <1>5, <1>6, <1>7

FifoInv == TypeOK /\ Fifo

LEMMA FifoStep == FifoInv /\ [Next]_vars => FifoInv'
<1> SUFFICES ASSUME FifoInv, [Next]_vars PROVE FifoInv'  OBVIOUS
<1>1. TypeOK'  BY TypeInv DEF FifoInv
<1>2. ASSUME Emit PROVE Fifo'  BY <1>2, FifoPush DEF FifoInv
<1>3. ASSUME NEW w \in Workers, PopGetsEvent(w) PROVE Fifo'
  BY <1>3, FifoPop DEF FifoInv
<1>4. ASSUME UNCHANGED <<queue, enqueued>>, Busy' \subseteq Busy,
             \A v \in Busy' : result'[v] = result[v]
      PROVE  Fifo'
  BY <1>4, FifoKept DEF FifoInv
<1>5. Fifo'  BY <1>2, <1>3, <1>4, CalmStep DEF FifoInv, Next, WorkerStep
<1> QED BY <1>1, <1>5 DEF FifoInv

LEMMA FifoInit == Init => FifoInv
<1> SUFFICES ASSUME Init PROVE FifoInv  OBVIOUS
<1>1. queue = <<>> /\ Len(queue) = 0 /\ Busy = {}
  BY DEF Init, QInit, Busy
<1> QED BY <1>1, TypeInit DEF FifoInv, Fifo

LEMMA FifoCorrect == Spec => []FifoInv
BY FifoInit, FifoStep, PTL DEF Spec

(* With any number of workers, an outbox that evicts or refuses, and any    *)
(* retries: no event is with two workers, or with one and still queued.     *)
THEOREM OneWorkerCorrect == Spec => []OneWorkerPerEvent
<1>1. FifoInv => OneWorkerPerEvent
  <2> SUFFICES ASSUME FifoInv, NEW w \in Busy
               PROVE  /\ \A v \in Busy \ {w} : evt(v) # evt(w)
                      /\ \A i \in 1 .. Len(queue) : queue[i] # evt(w)
    BY DEF OneWorkerPerEvent
  <2>1. \A v \in Busy \ {w} : evt(v) # evt(w)  BY DEF FifoInv, Fifo
  <2>2. ASSUME NEW i \in 1 .. Len(queue) PROVE queue[i] # evt(w)
    <3>1. evt(w) \in Nat /\ queue[i] \in Nat  BY Numbers DEF FifoInv
    <3>2. evt(w) < queue[i]  BY DEF FifoInv, Fifo
    <3> QED BY <3>1, <3>2
  <2> QED BY <2>1, <2>2
<1> QED BY <1>1, FifoCorrect, PTL

-----------------------------------------------------------------------------
(* Duplicates: how often an event was taken by the endpoint, or may still   *)
(* be, is bounded by the attempts made for it; an event no worker has had   *)
(* was never sent; and a 2xx answer comes after the endpoint took the event *)
Tries(e) == accepted[e] + late[e]
Unsent(e) == e > enqueued \/ \E i \in 1 .. Len(queue) : queue[i] = e
Answered(w) == IF wpc[w] = "post" /\ reply[w] # "none" THEN 1 ELSE 0
Taken(w) == (wpc[w] = "post" /\ reply[w] = "2xx") => accepted[evt(w)] > 0

Tried ==
  /\ \A e \in Events : Tries(e) <= MaxRetries + 1
  /\ \A e \in Events : Unsent(e) => Tries(e) = 0
  /\ \A w \in Busy : Tries(evt(w)) <= attempt[w] + Answered(w) /\ Taken(w)

TriedInv == FifoInv /\ Tried

LEMMA BusyNotUnsent ==
  ASSUME FifoInv, NEW w \in Busy
  PROVE  evt(w) \in Events /\ ~Unsent(evt(w))
<1>1. /\ evt(w) \in Nat /\ enqueued \in Nat
      /\ \A i \in 1 .. Len(queue) : queue[i] \in Nat
  BY Numbers DEF FifoInv
<1>2. evt(w) <= enqueued /\ \A i \in 1 .. Len(queue) : evt(w) < queue[i]
  BY DEF FifoInv, Fifo
<1>3. ~(evt(w) > enqueued)  BY <1>1, <1>2
<1>4. \A i \in 1 .. Len(queue) : queue[i] # evt(w)  BY <1>1, <1>2
<1> QED BY <1>3, <1>4 DEF FifoInv, TypeOK, Unsent

(* A step of one worker touches the tries of its own event only.            *)
LEMMA TriedOne ==
  ASSUME TriedInv, NEW w \in Busy, UNCHANGED <<queue, enqueued, result>>,
         Busy' \subseteq Busy,
         \A e \in Events \ {evt(w)} :
           accepted'[e] = accepted[e] /\ late'[e] = late[e],
         \A v \in Busy \ {w} : /\ wpc'[v] = wpc[v] /\ reply'[v] = reply[v]
                               /\ attempt'[v] = attempt[v],
         Tries(evt(w))' <= MaxRetries + 1,
         w \in Busy' => /\ Tries(evt(w))' <= attempt'[w] + Answered(w)'
                        /\ Taken(w)'
  PROVE  Tried'
<1>1. evt(w) \in Events /\ ~Unsent(evt(w))
  BY BusyNotUnsent DEF TriedInv
<1>2. \A e \in Events \ {evt(w)} : Tries(e)' = Tries(e)  BY DEF Tries
<1>3. \A e \in Events : Unsent(e)' <=> Unsent(e)  BY DEF Unsent
<1>4. evt(w)' = evt(w)  BY DEF evt
<1>5. \A e \in Events : Tries(e)' <= MaxRetries + 1
  BY <1>2, <1>4 DEF TriedInv, Tried
<1>6. \A e \in Events : Unsent(e)' => Tries(e)' = 0
  BY <1>1, <1>2, <1>3 DEF TriedInv, Tried
<1>7. ASSUME NEW v \in Busy', v # w
      PROVE  Tries(evt(v))' <= attempt'[v] + Answered(v)' /\ Taken(v)'
  <2>1. v \in Busy \ {w} /\ evt(v)' = evt(v)  BY <1>7 DEF evt
  <2>2. evt(v) \in Events \ {evt(w)}
    BY <2>1, BusyNotUnsent DEF TriedInv, FifoInv, Fifo
  <2>3. /\ attempt'[v] = attempt[v] /\ Answered(v)' = Answered(v)
        /\ accepted'[evt(v)] = accepted[evt(v)]
        /\ wpc'[v] = wpc[v] /\ reply'[v] = reply[v]
    BY <2>1, <2>2 DEF Answered
  <2>4. Tries(evt(v)) <= attempt[v] + Answered(v) /\ Taken(v)
    BY <2>1 DEF TriedInv, Tried
  <2>5. Tries(evt(v))' = Tries(evt(v))  BY <1>2, <2>1, <2>2
  <2>6. Taken(v)'  BY <2>1, <2>3, <2>4 DEF Taken
  <2> QED BY <2>3, <2>4, <2>5, <2>6
<1> QED BY <1>5, <1>6, <1>7 DEF Tried

LEMMA TriedWork ==
  ASSUME TriedInv, NEW w \in Workers,
         \/ PostSucceeds(w) \/ PostRefused(w) \/ PostAborted(w)
         \/ BackoffElapses(w) \/ BackoffCanceled(w) \/ EndpointAnswers(w)
  PROVE  Tried'
<1>1. WorksOn(w)  BY TypeWork DEF TriedInv, FifoInv
<1>2. /\ w \in Busy /\ UNCHANGED <<queue, enqueued, result>>
      /\ evt(w)' = evt(w) /\ evt(w) \in Events
  BY <1>1 DEF WorksOn, TriedInv, FifoInv, TypeOK, evt
<1>3. /\ wpc \in [Workers -> WorkerSteps] /\ reply \in [Workers -> Replies]
      /\ attempt \in [Workers -> 0 .. MaxRetries] /\ MaxRetries \in Nat
      /\ accepted \in [Events -> Nat] /\ late \in [Events -> Nat]
  BY DispatcherAssumption DEF TriedInv, FifoInv, TypeOK
<1>4. Busy' \subseteq Busy
  BY <1>2, <1>3 DEF Busy, PostSucceeds, PostRefused, PostAborted, PostFails, RetryLater,
         GiveUp, BackoffElapses, BackoffCanceled, StartPost, EndpointAnswers
<1>5. /\ Tries(evt(w)) <= MaxRetries + 1
      /\ Tries(evt(w)) <= attempt[w] + Answered(w)
      /\ Taken(w) /\ Tries(evt(w)) \in Nat
  BY <1>2, <1>3 DEF TriedInv, Tried, Tries
<1>6. accepted' \in [Events -> Nat] /\ late' \in [Events -> Nat]
  <2>1. TypeOK'  BY TypeWork DEF TriedInv, FifoInv
  <2> QED BY <2>1 DEF TypeOK
<1>7. \A v \in Busy \ {w} : /\ wpc'[v] = wpc[v] /\ reply'[v] = reply[v]
                            /\ attempt'[v] = attempt[v]
  BY <1>2, <1>3 DEF Busy, PostSucceeds, PostRefused, PostAborted, PostFails,
     RetryLater, GiveUp, BackoffElapses, BackoffCanceled, StartPost,
     EndpointAnswers
<1>8. \A e \in Events \ {evt(w)} :
        accepted'[e] = accepted[e] /\ late'[e] = late[e]
  BY <1>3 DEF PostSucceeds, PostRefused, PostAborted, PostFails,
     BackoffElapses, BackoffCanceled, EndpointAnswers
<1>9. ASSUME UNCHANGED <<accepted, late>>, w \notin Busy' PROVE Tried'
  <2>1. Tries(evt(w))' = Tries(evt(w))  BY <1>2, <1>9 DEF Tries
  <2> QED BY <1>2, <1>4, <1>5, <1>7, <1>8, <1>9, <2>1, TriedOne
<1>10. CASE PostSucceeds(w)
  <2>1. UNCHANGED <<accepted, late>> /\ w \notin Busy'
    BY <1>3, <1>10 DEF PostSucceeds, Busy
  <2> QED BY <1>9, <2>1
<1>11. CASE BackoffCanceled(w)
  <2>1. UNCHANGED <<accepted, late>> /\ w \notin Busy'
    BY <1>3, <1>11 DEF BackoffCanceled, GiveUp, Busy
  <2> QED BY <1>9, <2>1
<1>12. CASE BackoffElapses(w)
  <2>1. /\ wpc[w] = "backoff" /\ wpc'[w] = "post" /\ reply'[w] = "none"
        /\ UNCHANGED <<accepted, late, attempt>>
    BY <1>3, <1>12 DEF BackoffElapses, StartPost
  <2>2. Answered(w) = 0 /\ Answered(w)' = 0 /\ Taken(w)'
    BY <2>1 DEF Answered, Taken
  <2>3. Tries(evt(w))' = Tries(evt(w))  BY <1>2, <2>1 DEF Tries
  <2>4. attempt'[w] = attempt[w]  BY <2>1
  <2>5. /\ Tries(evt(w))' <= MaxRetries + 1
        /\ Tries(evt(w))' <= attempt'[w] + Answered(w)'
    BY <1>5, <2>2, <2>3, <2>4
  <2> QED BY <1>2, <1>4, <1>7, <1>8, <2>2, <2>5, TriedOne
<1>13. ASSUME PostRefused(w) \/ PostAborted(w) PROVE Tried'
  <2>1. /\ wpc[w] = "post" /\ UNCHANGED accepted /\ PostFails(w)
        /\ \/ UNCHANGED late
           \/ reply[w] = "none" /\ late' = [late EXCEPT ![evt(w)] = @ + 1]
    BY <1>13 DEF PostRefused, PostAborted, PostFails
  <2>2. Tries(evt(w))' <= attempt[w] + 1
    <3>1. CASE UNCHANGED late
      <4>1. Tries(evt(w))' = Tries(evt(w))  BY <1>2, <2>1, <3>1 DEF Tries
      <4>2. Answered(w) \in {0, 1}  BY DEF Answered
      <4>3. attempt[w] \in Nat  BY <1>2, <1>3 DEF Busy
      <4> QED BY <1>5, <4>1, <4>2, <4>3
    <3>2. CASE reply[w] = "none" /\ late' = [late EXCEPT ![evt(w)] = @ + 1]
      <4>1. Answered(w) = 0  BY <3>2 DEF Answered
      <4>2. /\ late'[evt(w)] = late[evt(w)] + 1
            /\ accepted'[evt(w)] = accepted[evt(w)]
        BY <1>2, <1>3, <2>1, <3>2
      <4>3. Tries(evt(w))' = accepted'[evt(w)] + late'[evt(w)]
        BY <1>2 DEF Tries
      <4>4. accepted[evt(w)] \in Nat /\ late[evt(w)] \in Nat  BY <1>2, <1>3
      <4>5. Tries(evt(w))' = Tries(evt(w)) + 1
        BY <4>2, <4>3, <4>4 DEF Tries
      <4>6. attempt[w] \in Nat  BY <1>2, <1>3 DEF Busy
      <4> QED BY <1>5, <4>1, <4>5, <4>6
    <3> QED BY <2>1, <3>1, <3>2
  <2>3. attempt[w] \in 0 .. MaxRetries  BY <1>3
  <2>4. Tries(evt(w))' \in Nat
    BY <1>2, <1>6 DEF Tries
  <2>5. Tries(evt(w))' <= MaxRetries + 1  BY <1>3, <2>2, <2>3, <2>4
  <2>6. ASSUME w \in Busy'
        PROVE  Tries(evt(w))' <= attempt'[w] + Answered(w)' /\ Taken(w)'
    <3>1. wpc'[w] = "backoff" /\ attempt'[w] = attempt[w] + 1
      BY <1>3, <2>1, <2>6 DEF PostFails, RetryLater, GiveUp, Busy
    <3>2. Answered(w)' = 0 /\ Taken(w)'  BY <3>1 DEF Answered, Taken
    <3>3. attempt'[w] + Answered(w)' = attempt[w] + 1  BY <2>3, <3>1, <3>2
    <3> QED BY <2>2, <3>2, <3>3
  <2> QED BY <1>2, <1>4, <1>7, <1>8, <2>5, <2>6, TriedOne
<1>14. CASE EndpointAnswers(w)
  <2>1. /\ wpc[w] = "post" /\ wpc'[w] = "post" /\ reply[w] = "none"
        /\ UNCHANGED <<late, attempt>>
        /\ \/ /\ reply'[w] = "2xx"
              /\ accepted'[evt(w)] = accepted[evt(w)] + 1
           \/ reply'[w] = "refused" /\ UNCHANGED accepted
    BY <1>2, <1>3, <1>14 DEF EndpointAnswers
  <2>2. Answered(w) = 0 /\ Answered(w)' = 1  BY <2>1 DEF Answered
  <2>3. accepted[evt(w)] \in Nat /\ late[evt(w)] \in Nat  BY <1>2, <1>3
  <2>4. Tries(evt(w))' = accepted'[evt(w)] + late[evt(w)]
    BY <1>2, <2>1 DEF Tries
  <2>5. Tries(evt(w))' <= Tries(evt(w)) + 1
    BY <2>1, <2>3, <2>4 DEF Tries
  <2>6. attempt[w] \in 0 .. MaxRetries /\ attempt'[w] = attempt[w]
    BY <1>3, <2>1
  <2>7. Taken(w)'
    <3>1. reply'[w] = "2xx" => accepted'[evt(w)] > 0  BY <2>1, <2>3
    <3> QED BY <1>2, <3>1 DEF Taken
  <2>8. Tries(evt(w))' \in Nat
    BY <1>2, <1>6 DEF Tries
  <2>9. Tries(evt(w))' <= attempt[w] + 1 /\ attempt[w] + 1 <= MaxRetries + 1
    BY <1>3, <1>5, <2>2, <2>5, <2>6, <2>8
  <2>10. Tries(evt(w))' <= MaxRetries + 1  BY <1>3, <2>6, <2>8, <2>9
  <2>11. Tries(evt(w))' <= attempt'[w] + Answered(w)'  BY <2>2, <2>6, <2>9
  <2> QED BY <1>2, <1>4, <1>7, <1>8, <2>7, <2>10, <2>11, TriedOne
<1> QED BY <1>10, <1>11, <1>12, <1>13, <1>14

(* A worker that gets an event gets one that was never sent.                *)
LEMMA TriedPop ==
  ASSUME TriedInv, NEW w \in Workers, PopGetsEvent(w)
  PROVE  /\ Tried' /\ Head(queue) \in Events /\ Unsent(Head(queue))
         /\ Tries(Head(queue)) = 0
<1>1. /\ w \in calling /\ queue # <<>>
      /\ result' = [result EXCEPT ![w] = Head(queue)]
      /\ queue' = Tail(queue)
      /\ attempt' = [attempt EXCEPT ![w] = 0]
      /\ wpc' = [wpc EXCEPT ![w] = "post"]
      /\ reply' = [reply EXCEPT ![w] = "none"]
      /\ UNCHANGED <<enqueued, accepted, late>>
  BY DEF PopGetsEvent, QPopEvent, Returns, StartPost
<1>2. /\ queue \in Seq(Events) /\ queue \in Seq(Nat)
      /\ \A i, j \in 1 .. Len(queue) : i < j => queue[i] < queue[j]
      /\ wpc \in [Workers -> WorkerSteps] /\ reply \in [Workers -> Replies]
      /\ attempt \in [Workers -> 0 .. MaxRetries]
      /\ result \in [Workers -> PopResults]
  BY Numbers DEF TriedInv, FifoInv, TypeOK, Fifo
<1>3. /\ Head(queue) \in Events /\ Head(queue) = queue[1]
      /\ 1 \in 1 .. Len(queue)
      /\ \A i \in 1 .. Len(Tail(queue)) :
           \E j \in 1 .. Len(queue) : Tail(queue)[i] = queue[j]
  BY <1>1, <1>2, OrderedTail
<1>4. Unsent(Head(queue)) /\ Tries(Head(queue)) = 0
  <2>1. Unsent(Head(queue))  BY <1>3 DEF Unsent
  <2> QED BY <1>3, <2>1 DEF TriedInv, Tried
<1>5. \A e \in Events : Tries(e)' = Tries(e)  BY <1>1 DEF Tries
<1>6. \A e \in Events : Unsent(e)' => Unsent(e)  BY <1>1, <1>3 DEF Unsent
<1>7. ASSUME NEW v \in Busy'
      PROVE  Tries(evt(v))' <= attempt'[v] + Answered(v)' /\ Taken(v)'
  <2>1. CASE v = w
    <3>1. /\ evt(v)' = Head(queue) /\ attempt'[v] = 0 /\ reply'[v] = "none"
      BY <1>1, <1>2, <2>1 DEF evt
    <3>2. Answered(v)' = 0 /\ Taken(v)'  BY <3>1 DEF Answered, Taken
    <3>3. Tries(evt(v))' = 0  BY <1>3, <1>4, <1>5, <3>1
    <3> QED BY <3>1, <3>2, <3>3
  <2>2. CASE v # w
    <3>1. /\ v \in Busy /\ evt(v)' = evt(v) /\ attempt'[v] = attempt[v]
          /\ reply'[v] = reply[v] /\ wpc'[v] = wpc[v]
      BY <1>1, <1>2, <2>2 DEF evt, Busy
    <3>2. evt(v) \in Events  BY <3>1, BusyNotUnsent DEF TriedInv
    <3>3. Tries(evt(v)) <= attempt[v] + Answered(v) /\ Taken(v)
      BY <3>1 DEF TriedInv, Tried
    <3>4. Tries(evt(v))' = Tries(evt(v)) /\ Answered(v)' = Answered(v)
      BY <1>5, <3>1, <3>2 DEF Answered
    <3>5. Taken(v)'  BY <1>1, <3>1, <3>3 DEF Taken
    <3> QED BY <3>1, <3>3, <3>4, <3>5
  <2> QED BY <2>1, <2>2
<1> QED BY <1>3, <1>4, <1>5, <1>6, <1>7 DEF TriedInv, Tried

(* The steps that send nothing.                                             *)
Idle ==
  /\ \A e \in Events : Tries(e)' = Tries(e) /\ accepted'[e] >= accepted[e]
  /\ \A e \in Events : Unsent(e)' => Unsent(e)
  /\ \A v \in Busy' :
       /\ v \in Busy /\ evt(v)' = evt(v) /\ attempt'[v] = attempt[v]
       /\ reply'[v] = reply[v] /\ wpc'[v] = wpc[v]

LEMMA TriedIdle == ASSUME TriedInv, TypeOK', Idle PROVE Tried'
<1>1. \A e \in Events : accepted[e] \in Nat /\ accepted'[e] \in Nat
  BY DEF TriedInv, FifoInv, TypeOK
<1>2. ASSUME NEW v \in Busy'
      PROVE  Tries(evt(v))' <= attempt'[v] + Answered(v)' /\ Taken(v)'
  <2>1. /\ v \in Busy /\ evt(v)' = evt(v) /\ attempt'[v] = attempt[v]
        /\ reply'[v] = reply[v] /\ wpc'[v] = wpc[v]
    BY DEF Idle
  <2>2. evt(v) \in Events  BY <2>1, BusyNotUnsent DEF TriedInv
  <2>3. Tries(evt(v)) <= attempt[v] + Answered(v) /\ Taken(v)
    BY <2>1 DEF TriedInv, Tried
  <2>4. Tries(evt(v))' = Tries(evt(v)) /\ Answered(v)' = Answered(v)
    BY <2>1, <2>2 DEF Idle, Answered
  <2>5. accepted[evt(v)] > 0 => accepted'[evt(v)] > 0
    BY <1>1, <2>2 DEF Idle
  <2>6. Taken(v)'  BY <2>1, <2>3, <2>5 DEF Taken
  <2> QED BY <2>1, <2>3, <2>4, <2>6
<1> QED BY <1>2 DEF TriedInv, Tried, Idle

LEMMA EmitIdle == ASSUME TriedInv, Emit PROVE Idle
<1>1. /\ PushFits(enqueued + 1) \/ PushEvicts(enqueued + 1) \/ PushRefused
      /\ UNCHANGED <<result, wpc, attempt, reply, accepted, late>>
  BY DEF Emit, QPush
<1>2. /\ queue \in Seq(Nat) /\ enqueued \in Nat /\ Len(queue) \in Nat
      /\ \A e \in Events : e \in Nat /\ accepted[e] \in Nat
      /\ \A i, j \in 1 .. Len(queue) : i < j => queue[i] < queue[j]
      /\ \A i \in 1 .. Len(queue) : queue[i] <= enqueued
  BY Numbers, DispatcherAssumption, QueueAssumption
     DEF TriedInv, FifoInv, TypeOK, Fifo
<1>3. ASSUME NEW q \in Seq(Nat), queue' = Append(q, enqueued + 1),
             enqueued' = enqueued + 1,
             \A i \in 1 .. Len(q) : \E j \in 1 .. Len(queue) : q[i] = queue[j]
      PROVE  \A e \in Events : Unsent(e)' => Unsent(e)
  <2> SUFFICES ASSUME NEW e \in Events, Unsent(e)' PROVE Unsent(e)  OBVIOUS
  <2>1. CASE e > enqueued'  BY <1>2, <1>3, <2>1 DEF Unsent
  <2>2. ASSUME NEW i \in 1 .. Len(queue'), queue'[i] = e PROVE Unsent(e)
    <3>1. \/ i \in 1 .. Len(q) /\ queue'[i] = q[i]
          \/ queue'[i] = enqueued + 1
      BY <1>3
    <3>2. CASE i \in 1 .. Len(q) /\ queue'[i] = q[i]
      BY <1>3, <2>2, <3>2 DEF Unsent
    <3>3. CASE queue'[i] = enqueued + 1  BY <1>2, <2>2, <3>3 DEF Unsent
    <3> QED BY <3>1, <3>2, <3>3
  <2> QED BY <2>1, <2>2 DEF Unsent
<1>4. \A e \in Events : Unsent(e)' => Unsent(e)
  <2>1. CASE PushFits(enqueued + 1)  BY <1>2, <1>3, <2>1 DEF PushFits
  <2>2. CASE PushEvicts(enqueued + 1)
    <3>1. queue # <<>>  BY <2>2, QueueAssumption DEF PushEvicts
    <3> QED BY <1>2, <1>3, <2>2, <3>1, OrderedTail DEF PushEvicts
  <2>3. CASE PushRefused  BY <2>3 DEF PushRefused, Unsent
  <2> QED BY <1>1, <2>1, <2>2, <2>3
<1>5. \A e \in Events : Tries(e)' = Tries(e) /\ accepted'[e] >= accepted[e]
  BY <1>1, <1>2 DEF Tries
<1>6. Busy' = Busy /\ \A v \in Busy : evt(v)' = evt(v)
  BY <1>1 DEF Busy, evt
<1> QED BY <1>1, <1>4, <1>5, <1>6 DEF Idle

LEMMA OtherIdle ==
  ASSUME TriedInv,
         \/ CancelCtx \/ CloseOutbox \/ UNCHANGED vars
         \/ \E w \in Workers : CallPop(w) \/ PopFails(w)
         \/ \E e \in Events : LateArrival(e)
  PROVE  Idle
<1>1. TypeOK  BY DEF TriedInv, FifoInv
<1>2. /\ UNCHANGED <<queue, enqueued>> /\ Busy' \subseteq Busy
      /\ \A v \in Busy' : result'[v] = result[v]
  BY <1>1, CalmStep
<1>3. /\ \A e \in Events : Unsent(e)' => Unsent(e)
      /\ \A v \in Busy' : evt(v)' = evt(v)
  BY <1>2 DEF Unsent, evt
<1>4. /\ UNCHANGED <<attempt, reply>>
      /\ \/ UNCHANGED wpc
         \/ \E w \in Workers : wpc' = [wpc EXCEPT ![w] = "done"]
  BY DEF CancelCtx, CloseOutbox, vars, CallPop, PopFails, LateArrival
<1>5. \A v \in Busy' : wpc'[v] = wpc[v]
  BY <1>1, <1>4 DEF Busy, TypeOK
<1>6. \A e \in Events : Tries(e)' = Tries(e) /\ accepted'[e] >= accepted[e]
  <2> SUFFICES ASSUME NEW e \in Events
               PROVE  Tries(e)' = Tries(e) /\ accepted'[e] >= accepted[e]
    OBVIOUS
  <2>1. /\ accepted \in [Events -> Nat] /\ late \in [Events -> Nat]
        /\ accepted[e] \in Nat /\ late[e] \in Nat
    BY <1>1 DEF TypeOK
  <2>2. CASE UNCHANGED <<accepted, late>>  BY <2>1, <2>2 DEF Tries
  <2>3. ASSUME NEW d \in Events, LateArrival(d)
        PROVE  Tries(e)' = Tries(e) /\ accepted'[e] >= accepted[e]
    <3>1. \/ accepted'[e] = accepted[e] /\ late'[e] = late[e]
          \/ accepted'[e] = accepted[e] + 1 /\ late'[e] = late[e] - 1
      BY <2>1, <2>3 DEF LateArrival
    <3>2. Tries(e)' = accepted'[e] + late'[e]  BY DEF Tries
    <3> QED BY <2>1, <3>1, <3>2 DEF Tries
  <2> QED BY <2>2, <2>3
       DEF CancelCtx, CloseOutbox, vars, CallPop, PopFails
<1> QED BY <1>2, <1>3, <1>4, <1>5, <1>6 DEF Idle

LEMMA TriedStep == TriedInv /\ [Next]_vars => TriedInv'
<1> SUFFICES ASSUME TriedInv, [Next]_vars PROVE TriedInv'  OBVIOUS
<1>1. FifoInv' /\ TypeOK'  BY FifoStep DEF TriedInv, FifoInv
<1>2. Tried'
  BY <1>1, TriedWork, TriedPop, TriedIdle, EmitIdle, OtherIdle
     DEF Next, WorkerStep
<1> QED BY <1>1, <1>2 DEF TriedInv

LEMMA TriedInit == Init => TriedInv
<1> SUFFICES ASSUME Init PROVE TriedInv  OBVIOUS
<1>1. Busy = {} /\ \A e \in Events : Tries(e) = 0
  BY DEF Init, Busy, Tries
<1> QED BY <1>1, FifoInit, DispatcherAssumption DEF TriedInv, Tried

LEMMA TriedCorrect == Spec => []TriedInv
BY TriedInit, TriedStep, PTL DEF Spec

(* Whatever the endpoint answers, refuses, drops or takes late: no event is *)
(* delivered, or still under way, more often than MaxRetries + 1 times.     *)
THEOREM DuplicatesCorrect == Spec => []BoundedDuplicates
<1>1. TriedInv => BoundedDuplicates
  BY DEF TriedInv, Tried, Tries, BoundedDuplicates
<1> QED BY <1>1, TriedCorrect, PTL

-----------------------------------------------------------------------------
(* What the two counters mean: an event that counts as sent was taken by    *)
(* the endpoint and is with no worker; an event taken from the outbox that  *)
(* was neither taken by the endpoint nor is with a worker counts as failed. *)
Delivered == {e \in Events : accepted[e] > 0}
Settled == Delivered \ Held
Seen == Delivered \cup Held

LossInv ==
  /\ TriedInv
  /\ metricDispatched <= Cardinality(Settled)
  /\ canceled = {} => dequeued <= metricFailures + Cardinality(Seen)

LEMMA SetsFinite ==
  ASSUME NEW S \in SUBSET Events
  PROVE  IsFiniteSet(S) /\ Cardinality(S) \in Nat
<1>1. Events = 1 .. MaxPushes /\ MaxPushes \in Nat
  BY DispatcherAssumption, QueueAssumption
<1>2. IsFiniteSet(Events)  BY <1>1, FS_Interval
<1> QED BY <1>2, FS_Subset, FS_CardinalityType

LEMMA MoreIsMore ==
  ASSUME NEW T \in SUBSET Events, NEW S \in SUBSET T
  PROVE  Cardinality(S) <= Cardinality(T)
BY SetsFinite, FS_Subset

LEMMA OneMore ==
  ASSUME NEW S \in SUBSET Events, NEW e \in Events \ S
  PROVE  Cardinality(S \cup {e}) = Cardinality(S) + 1
BY SetsFinite, FS_AddElement

LEMMA HeldAreEvents ==
  ASSUME FifoInv PROVE Settled \subseteq Events /\ Seen \subseteq Events
BY DEF FifoInv, TypeOK, Held, Settled, Seen, Delivered

(* A step after which no fewer events are settled or seen.                  *)
LEMMA LossQuiet ==
  ASSUME LossInv, TriedInv', Settled \subseteq Settled', Seen \subseteq Seen',
         UNCHANGED <<metricDispatched, metricFailures, dequeued>>,
         canceled' = {} => canceled = {}
  PROVE  LossInv'
<1>1. /\ Settled' \in SUBSET Events /\ Seen' \in SUBSET Events
  BY HeldAreEvents DEF TriedInv, FifoInv, TypeOK, Held, Settled, Seen, Delivered
<1>2. /\ Cardinality(Settled) <= Cardinality(Settled')
      /\ Cardinality(Seen) <= Cardinality(Seen')
  BY <1>1, MoreIsMore
<1>3. /\ Cardinality(Settled) \in Nat /\ Cardinality(Settled') \in Nat
      /\ Cardinality(Seen) \in Nat /\ Cardinality(Seen') \in Nat
  BY <1>1, SetsFinite, HeldAreEvents DEF LossInv, TriedInv
<1>4. /\ metricDispatched \in Nat /\ metricFailures \in Nat /\ dequeued \in Nat
  BY DEF LossInv, TriedInv, FifoInv, TypeOK
<1>5. metricDispatched' <= Cardinality(Settled')
  <2>1. metricDispatched <= Cardinality(Settled)  BY DEF LossInv
  <2> QED BY <1>2, <1>3, <1>4, <2>1
<1>6. ASSUME canceled' = {}
      PROVE  dequeued' <= metricFailures' + Cardinality(Seen')
  <2>1. dequeued <= metricFailures + Cardinality(Seen)  BY <1>6 DEF LossInv
  <2> QED BY <1>2, <1>3, <1>4, <2>1
<1> QED BY <1>5, <1>6 DEF LossInv

(* A worker gets an event: one more is seen.                                *)
LEMMA LossPop ==
  ASSUME LossInv, TriedInv', NEW w \in Workers, PopGetsEvent(w)
  PROVE  LossInv'
<1> DEFINE h == Head(queue)
<1>1. /\ w \in calling
      /\ result' = [result EXCEPT ![w] = h]
      /\ wpc' = [wpc EXCEPT ![w] = "post"]
      /\ dequeued' = dequeued + 1
      /\ UNCHANGED <<accepted, canceled, metricDispatched, metricFailures>>
  BY DEF PopGetsEvent, QPopEvent, Returns, StartPost, metricVars
<1>2. h \in Events /\ Unsent(h) /\ accepted[h] = 0
  <2>1. h \in Events /\ Unsent(h) /\ Tries(h) = 0  BY TriedPop DEF LossInv
  <2>2. accepted[h] \in Nat /\ late[h] \in Nat
    BY <2>1 DEF LossInv, TriedInv, FifoInv, TypeOK
  <2> QED BY <2>1, <2>2 DEF Tries
<1>3. /\ wpc \in [Workers -> WorkerSteps] /\ w \notin Busy
      /\ result \in [Workers -> PopResults]
      /\ metricDispatched \in Nat /\ metricFailures \in Nat /\ dequeued \in Nat
  BY <1>1 DEF LossInv, TriedInv, FifoInv, TypeOK
<1>4. /\ Busy' = Busy \cup {w} /\ evt(w)' = h
      /\ \A v \in Busy : evt(v)' = evt(v)
  BY <1>1, <1>3 DEF Busy, evt
<1>5. Held' = Held \cup {h}  BY <1>3, <1>4 DEF Held
<1>6. h \notin Held
  BY <1>2, BusyNotUnsent DEF LossInv, TriedInv, Held
<1>7. Delivered' = Delivered /\ h \notin Delivered
  BY <1>1, <1>2 DEF Delivered
<1>8. Settled' = Settled /\ Seen' = Seen \cup {h} /\ h \notin Seen
  BY <1>5, <1>6, <1>7 DEF Settled, Seen
<1>9. Seen \subseteq Events /\ Cardinality(Seen) \in Nat
  BY HeldAreEvents, SetsFinite DEF LossInv, TriedInv
<1>10. Cardinality(Seen') = Cardinality(Seen) + 1  BY <1>2, <1>8, <1>9, OneMore
<1>11. ASSUME canceled' = {}
       PROVE  dequeued' <= metricFailures' + Cardinality(Seen')
  <2>1. dequeued <= metricFailures + Cardinality(Seen)
    BY <1>1, <1>11 DEF LossInv
  <2> QED BY <1>1, <1>3, <1>9, <1>10, <2>1
<1> QED BY <1>1, <1>8, <1>11 DEF LossInv

(* A worker is done with its event: it leaves Held, and nothing else does.  *)
LEMMA Lets ==
  ASSUME FifoInv, NEW w \in Busy, Busy' = Busy \ {w}, UNCHANGED result
  PROVE  Held' = Held \ {evt(w)} /\ evt(w) \in Held /\ evt(w) \in Events
<1>1. \A v \in Busy : evt(v)' = evt(v) /\ evt(v) \in Events
  BY DEF evt, FifoInv, TypeOK
<1>2. \A v \in Busy \ {w} : evt(v) # evt(w)  BY DEF FifoInv, Fifo
<1> QED BY <1>1, <1>2 DEF Held

LEMMA LossSucceeds ==
  ASSUME LossInv, TriedInv', NEW w \in Workers, PostSucceeds(w)
  PROVE  LossInv'
<1>1. /\ w \in Busy /\ Busy' = Busy \ {w} /\ Taken(w)
      /\ UNCHANGED <<result, accepted, canceled, metricFailures, dequeued>>
      /\ metricDispatched' = metricDispatched + 1
      /\ wpc[w] = "post" /\ reply[w] = "2xx"
      /\ metricDispatched \in Nat
  <2>1. wpc \in [Workers -> WorkerSteps] /\ metricDispatched \in Nat
    BY DEF LossInv, TriedInv, FifoInv, TypeOK
  <2>2. w \in Busy  BY DEF PostSucceeds, Busy
  <2>3. Busy' = Busy \ {w}  BY <2>1 DEF PostSucceeds, Busy
  <2>4. Taken(w)  BY <2>2 DEF LossInv, TriedInv, Tried
  <2> QED BY <2>1, <2>2, <2>3, <2>4 DEF PostSucceeds, qvars, stats
<1>2. /\ Held' = Held \ {evt(w)} /\ evt(w) \in Held /\ evt(w) \in Events
      /\ accepted[evt(w)] > 0
  BY <1>1, Lets DEF LossInv, TriedInv, Taken
<1>3. Delivered' = Delivered /\ evt(w) \in Delivered
  BY <1>1, <1>2 DEF Delivered
<1>4. /\ Settled' = Settled \cup {evt(w)} /\ evt(w) \notin Settled
      /\ Seen' = Seen
  BY <1>2, <1>3 DEF Settled, Seen
<1>5. Settled \subseteq Events /\ Cardinality(Settled) \in Nat
  BY HeldAreEvents, SetsFinite DEF LossInv, TriedInv
<1>6. Cardinality(Settled') = Cardinality(Settled) + 1
  BY <1>2, <1>4, <1>5, OneMore
<1>7. metricDispatched' <= Cardinality(Settled')
  <2>1. metricDispatched <= Cardinality(Settled)  BY DEF LossInv
  <2> QED BY <1>1, <1>5, <1>6, <2>1
<1> QED BY <1>1, <1>4, <1>7 DEF LossInv

(* An event that is given up counts as failed, unless a shutdown is on.     *)
LEMMA LossGivesUp ==
  ASSUME LossInv, TriedInv', NEW w \in Busy, GiveUp(w),
         UNCHANGED <<accepted, result, canceled, dequeued, metricDispatched>>
  PROVE  LossInv'
<1>1. /\ w \in Workers /\ wpc \in [Workers -> WorkerSteps]
      /\ metricDispatched \in Nat /\ metricFailures \in Nat /\ dequeued \in Nat
  BY DEF LossInv, TriedInv, FifoInv, TypeOK, Busy
<1>2. /\ Busy' = Busy \ {w}
      /\ canceled = {} => metricFailures' = metricFailures + 1
  BY <1>1 DEF GiveUp, Busy
<1>3. Held' = Held \ {evt(w)} /\ evt(w) \in Held /\ evt(w) \in Events
  BY <1>2, Lets DEF LossInv, TriedInv
<1>4. Delivered' = Delivered  BY DEF Delivered
<1>5. Settled \subseteq Settled' /\ Seen \subseteq Seen' \cup {evt(w)}
  BY <1>3, <1>4 DEF Settled, Seen
<1>6. /\ Settled' \in SUBSET Events /\ Seen' \in SUBSET Events
  BY HeldAreEvents, <1>3, <1>4 DEF LossInv, TriedInv, Settled, Seen, Delivered
<1>7. /\ Cardinality(Settled) \in Nat /\ Cardinality(Settled') \in Nat
      /\ Cardinality(Seen) \in Nat /\ Cardinality(Seen') \in Nat
  BY <1>6, SetsFinite, HeldAreEvents DEF LossInv, TriedInv
<1>8. Cardinality(Settled) <= Cardinality(Settled')  BY <1>5, <1>6, MoreIsMore
<1>9. Cardinality(Seen) <= Cardinality(Seen') + 1
  <2>1. Seen' \cup {evt(w)} \in SUBSET Events  BY <1>3, <1>6
  <2>2. /\ Cardinality(Seen) <= Cardinality(Seen' \cup {evt(w)})
        /\ Cardinality(Seen' \cup {evt(w)}) \in Nat
    BY <1>5, <2>1, MoreIsMore, SetsFinite
  <2>3. CASE evt(w) \in Seen'
    <3>1. Cardinality(Seen' \cup {evt(w)}) = Cardinality(Seen')
      <4>1. Seen' \cup {evt(w)} = Seen'  BY <2>3
      <4> QED BY <4>1
    <3> QED BY <1>7, <2>2, <3>1
  <2>4. CASE evt(w) \notin Seen'
    <3>1. Cardinality(Seen' \cup {evt(w)}) = Cardinality(Seen') + 1
      BY <1>3, <1>6, <2>4, OneMore
    <3> QED BY <1>7, <2>2, <3>1
  <2> QED BY <2>3, <2>4
<1>10. metricDispatched' <= Cardinality(Settled')
  <2>1. metricDispatched <= Cardinality(Settled)  BY DEF LossInv
  <2> QED BY <1>1, <1>7, <1>8, <2>1
<1>11. ASSUME canceled' = {}
       PROVE  dequeued' <= metricFailures' + Cardinality(Seen')
  <2>1. /\ dequeued <= metricFailures + Cardinality(Seen)
        /\ metricFailures' = metricFailures + 1
    BY <1>2, <1>11 DEF LossInv
  <2> QED BY <1>1, <1>7, <1>9, <2>1
<1> QED BY <1>10, <1>11 DEF LossInv

(* The other steps of a worker settle nothing and give nothing up.          *)
LEMMA LossStays ==
  ASSUME LossInv, TriedInv', NEW w \in Workers, w \in Busy,
         UNCHANGED <<result, canceled, dequeued, metricDispatched,
                     metricFailures>>,
         Busy' = Busy,
         \/ UNCHANGED accepted
         \/ accepted' = [accepted EXCEPT ![evt(w)] = @ + 1]
  PROVE  LossInv'
<1>1. Held' = Held /\ evt(w) \in Held  BY DEF Held, evt
<1>2. accepted \in [Events -> Nat] /\ evt(w) \in Events
  BY DEF LossInv, TriedInv, FifoInv, TypeOK
<1>3. \A e \in Events \ {evt(w)} : accepted'[e] = accepted[e]  BY <1>2
<1>4. \A e \in Events \ {evt(w)} : e \in Delivered' <=> e \in Delivered
  BY <1>3 DEF Delivered
<1>5. Delivered \subseteq Events /\ Delivered' \subseteq Events
  BY DEF Delivered
<1>6. \A e \in Delivered : e \in Delivered' \/ e = evt(w)  BY <1>4, <1>5
<1>7. Settled \subseteq Settled' /\ Seen \subseteq Seen'
  BY <1>1, <1>6 DEF Settled, Seen
<1> QED BY <1>7, LossQuiet

LEMMA LossWork ==
  ASSUME LossInv, TriedInv', NEW w \in Workers,
         \/ PostRefused(w) \/ PostAborted(w)
         \/ BackoffElapses(w) \/ BackoffCanceled(w) \/ EndpointAnswers(w)
  PROVE  LossInv'
<1>1. /\ WorksOn(w) /\ wpc \in [Workers -> WorkerSteps]
  BY TypeWork DEF LossInv, TriedInv, FifoInv, TypeOK
<1>2. w \in Busy /\ UNCHANGED <<result, canceled, dequeued>>
  BY <1>1 DEF WorksOn
<1>3. CASE GiveUp(w) /\ UNCHANGED <<accepted, metricDispatched>>
  BY <1>2, <1>3, LossGivesUp
<1>4. CASE RetryLater(w) /\ UNCHANGED <<accepted, metricDispatched>>
  <2>1. Busy' = Busy /\ UNCHANGED metricFailures
    BY <1>1, <1>2, <1>4 DEF RetryLater, Busy
  <2> QED BY <1>2, <1>4, <2>1, LossStays
<1>5. CASE BackoffElapses(w)
  <2>1. Busy' = Busy  BY <1>1, <1>2, <1>5 DEF BackoffElapses, StartPost, Busy
  <2>2. UNCHANGED <<metricDispatched, metricFailures, accepted>>
    BY <1>5 DEF BackoffElapses, metricVars
  <2> QED BY <1>2, <2>1, <2>2, LossStays
<1>6. CASE EndpointAnswers(w)
  <2>1. /\ Busy' = Busy /\ UNCHANGED <<metricDispatched, metricFailures>>
        /\ \/ UNCHANGED accepted
           \/ accepted' = [accepted EXCEPT ![evt(w)] = @ + 1]
    BY <1>6 DEF EndpointAnswers, Busy, metricVars
  <2> QED BY <1>2, <2>1, LossStays
<1> QED BY <1>3, <1>4, <1>5, <1>6
     DEF PostRefused, PostAborted, PostFails, BackoffCanceled

(* The steps around the workers.                                            *)
LEMMA LossIdle ==
  ASSUME LossInv, TriedInv',
         \/ Emit \/ CancelCtx \/ CloseOutbox \/ UNCHANGED vars
         \/ \E w \in Workers : CallPop(w) \/ PopFails(w)
         \/ \E e \in Events : LateArrival(e)
  PROVE  LossInv'
<1>1. TriedInv /\ TypeOK  BY DEF LossInv, TriedInv, FifoInv
<1>2. Idle  BY <1>1, EmitIdle, OtherIdle
<1>3. UNCHANGED <<metricDispatched, metricFailures, dequeued>>
  BY DEF Emit, QPush, CancelCtx, QCancel, CloseOutbox, QClose, vars, qvars,
     stats, metricVars, CallPop, QCall, PopFails, QPopClosed, QPopCanceled,
     LateArrival
<1>4. canceled' = {} => canceled = {}
  BY DEF Emit, QPush, CancelCtx, QCancel, CloseOutbox, QClose, vars, qvars,
     CallPop, QCall, PopFails, QPopClosed, QPopCanceled, LateArrival
<1>5. Busy' = Busy
  <2>1. CASE UNCHANGED wpc  BY <2>1 DEF Busy
  <2>2. ASSUME NEW w \in Workers, PopFails(w) PROVE Busy' = Busy
    <3>1. w \notin Busy /\ wpc' = [wpc EXCEPT ![w] = "done"]
      BY <1>1, <2>2 DEF PopFails, QPopClosed, QPopCanceled, Returns, TypeOK
    <3> QED BY <1>1, <3>1 DEF Busy, TypeOK
  <2> QED BY <2>1, <2>2 DEF Emit, CancelCtx, CloseOutbox, vars, CallPop, LateArrival
<1>6. Held' = Held  BY <1>2, <1>5 DEF Idle, Held
<1>7. Delivered \subseteq Delivered'
  <2>1. \A e \in Events : accepted[e] \in Nat /\ accepted'[e] \in Nat
    BY DEF LossInv, TriedInv, FifoInv, TypeOK
  <2> QED BY <1>2, <2>1 DEF Idle, Delivered
<1>8. Settled \subseteq Settled' /\ Seen \subseteq Seen'
  BY <1>6, <1>7 DEF Settled, Seen
<1> QED BY <1>3, <1>4, <1>8, LossQuiet

LEMMA LossCorrect == Spec => []LossInv
<1>1. Init => LossInv
  <2> SUFFICES ASSUME Init PROVE LossInv  OBVIOUS
  <2>1. metricDispatched = 0 /\ metricFailures = 0 /\ dequeued = 0
    BY DEF Init, QInit
  <2>2. Cardinality(Settled) \in Nat /\ Cardinality(Seen) \in Nat
    BY FifoInit, HeldAreEvents, SetsFinite
  <2> QED BY <2>1, <2>2, TriedInit DEF LossInv
<1>2. LossInv /\ [Next]_vars => LossInv'
  <2> SUFFICES ASSUME LossInv, [Next]_vars PROVE LossInv'  OBVIOUS
  <2>1. TriedInv'  BY TriedStep DEF LossInv
  <2> QED BY <2>1, LossPop, LossSucceeds, LossWork, LossIdle
       DEF Next, WorkerStep
<1> QED BY <1>1, <1>2, PTL DEF Spec

(* "Total telemetry alerts successfully sent" never exceeds the number of   *)
(* different events the endpoint took.                                      *)
THEOREM DispatchedCorrect == Spec => []DispatchedWasAccepted
<1>1. LossInv => DispatchedWasAccepted
  <2> SUFFICES ASSUME LossInv PROVE DispatchedWasAccepted  OBVIOUS
  <2>1. Settled \in SUBSET Delivered /\ Delivered \in SUBSET Events
    BY DEF Settled, Delivered
  <2>2. /\ Cardinality(Settled) <= Cardinality(Delivered)
        /\ Cardinality(Settled) \in Nat /\ Cardinality(Delivered) \in Nat
    BY <2>1, MoreIsMore, SetsFinite
  <2>3. metricDispatched <= Cardinality(Settled) /\ metricDispatched \in Nat
    BY DEF LossInv, TriedInv, FifoInv, TypeOK
  <2>4. metricDispatched <= Cardinality(Delivered)  BY <2>2, <2>3
  <2> QED BY <2>4 DEF DispatchedWasAccepted, Delivered
<1> QED BY <1>1, LossCorrect, PTL

(* Until a shutdown, an event that left the outbox, is with no worker and   *)
(* did not reach the endpoint is counted as a failure.                      *)
THEOREM LossesCounted == Spec => []NoSilentLoss
<1>1. LossInv => NoSilentLoss
  <2> SUFFICES ASSUME LossInv, canceled = {}
               PROVE  dequeued - Cardinality(Seen) <= metricFailures
    BY DEF NoSilentLoss, Seen, Delivered
  <2>1. Cardinality(Seen) \in Nat
    BY HeldAreEvents, SetsFinite DEF LossInv, TriedInv
  <2>2. dequeued \in Nat /\ metricFailures \in Nat
    BY DEF LossInv, TriedInv, FifoInv, TypeOK
  <2> QED BY <2>1, <2>2 DEF LossInv
<1> QED BY <1>1, LossCorrect, PTL

-----------------------------------------------------------------------------
(* Retries: one that is counted was sent, or its worker waits to send it.   *)
Waiting == {w \in Workers : wpc[w] = "backoff"}

RetryInv ==
  /\ TypeOK
  /\ \A w \in Waiting : attempt[w] > 0
  /\ resent + Cardinality(Waiting) <= metricRetries
  /\ canceled = {} => resent + Cardinality(Waiting) = metricRetries

LEMMA WaitingFinite ==
  /\ IsFiniteSet(Waiting) /\ Cardinality(Waiting) \in Nat
  /\ IsFiniteSet(Waiting') /\ Cardinality(Waiting') \in Nat
<1>1. Waiting \in SUBSET Workers /\ Waiting' \in SUBSET Workers  BY DEF Waiting
<1>2. IsFiniteSet(Workers)     BY DispatcherAssumption DEF Workers
<1> QED BY <1>1, <1>2, FS_Subset, FS_CardinalityType

(* The steps that neither start nor end a wait.                             *)
LEMMA RetryKept ==
  ASSUME RetryInv, TypeOK', Waiting' = Waiting,
         \A w \in Waiting : attempt'[w] = attempt[w],
         UNCHANGED <<resent, metricRetries>>, canceled' = {} => canceled = {}
  PROVE  RetryInv'
<1>1. Cardinality(Waiting') = Cardinality(Waiting)  OBVIOUS
<1> QED BY <1>1 DEF RetryInv

LEMMA RetryWork ==
  ASSUME RetryInv, TypeOK', NEW w \in Workers,
         \/ PostSucceeds(w) \/ PostRefused(w) \/ PostAborted(w)
         \/ BackoffElapses(w) \/ BackoffCanceled(w) \/ EndpointAnswers(w)
  PROVE  RetryInv'
<1>1. /\ wpc \in [Workers -> WorkerSteps] /\ attempt \in [Workers -> 0 .. MaxRetries]
      /\ resent \in Nat /\ metricRetries \in Nat /\ MaxRetries \in Nat
  BY DispatcherAssumption DEF RetryInv, TypeOK
<1>2. /\ Cardinality(Waiting) \in Nat /\ IsFiniteSet(Waiting)
      /\ Cardinality(Waiting') \in Nat
  BY WaitingFinite
<1>3. canceled' = canceled
  BY DEF PostSucceeds, PostRefused, PostAborted, PostFails, BackoffElapses,
         BackoffCanceled, EndpointAnswers, qvars
<1>4. CASE PostSucceeds(w) \/ EndpointAnswers(w)
  <2>1. Waiting' = Waiting /\ UNCHANGED <<attempt, resent, metricRetries>>
    BY <1>1, <1>4 DEF PostSucceeds, EndpointAnswers, Waiting, metricVars
  <2> QED BY <1>3, <2>1, RetryKept
<1>5. CASE wpc[w] = "post" /\ GiveUp(w) /\ UNCHANGED resent
  <2>1. Waiting' = Waiting /\ UNCHANGED <<attempt, metricRetries>>
    BY <1>1, <1>5 DEF GiveUp, Waiting
  <2> QED BY <1>3, <1>5, <2>1, RetryKept
<1>6. CASE wpc[w] = "post" /\ RetryLater(w) /\ UNCHANGED resent
  <2>1. /\ Waiting' = Waiting \cup {w} /\ w \notin Waiting
        /\ metricRetries' = metricRetries + 1 /\ attempt'[w] = attempt[w] + 1
        /\ \A v \in Waiting : attempt'[v] = attempt[v]
    BY <1>1, <1>6 DEF RetryLater, Waiting
  <2>2. Cardinality(Waiting') = Cardinality(Waiting) + 1
    BY <1>2, <2>1, FS_AddElement
  <2>3. \A v \in Waiting' : attempt'[v] > 0
    <3>1. attempt[w] + 1 > 0  BY <1>1
    <3> QED BY <2>1, <3>1 DEF RetryInv
  <2>4. resent' + Cardinality(Waiting') <= metricRetries'
    <3>1. resent + Cardinality(Waiting) <= metricRetries  BY DEF RetryInv
    <3> QED BY <1>1, <1>2, <1>6, <2>1, <2>2, <3>1
  <2>5. ASSUME canceled' = {}
        PROVE  resent' + Cardinality(Waiting') = metricRetries'
    <3>1. resent + Cardinality(Waiting) = metricRetries
      BY <1>3, <2>5 DEF RetryInv
    <3> QED BY <1>1, <1>2, <1>6, <2>1, <2>2, <3>1
  <2> QED BY <2>3, <2>4, <2>5 DEF RetryInv
<1>7. ASSUME wpc[w] = "backoff", wpc'[w] # "backoff", UNCHANGED <<attempt, metricRetries>>,
             \A v \in Workers \ {w} : wpc'[v] = wpc[v],
             resent' = resent + 1 \/ (resent' = resent /\ canceled # {})
      PROVE  RetryInv'
  <2>1. Waiting' = Waiting \ {w} /\ w \in Waiting  BY <1>1, <1>7 DEF Waiting
  <2>2. Cardinality(Waiting') = Cardinality(Waiting) - 1
    BY <1>2, <2>1, FS_RemoveElement
  <2>3. \A v \in Waiting' : attempt'[v] > 0  BY <1>7, <2>1 DEF RetryInv
  <2>4. resent' + Cardinality(Waiting') <= metricRetries'
    <3>1. resent + Cardinality(Waiting) <= metricRetries  BY DEF RetryInv
    <3> QED BY <1>1, <1>2, <1>7, <2>2, <3>1
  <2>5. ASSUME canceled' = {}
        PROVE  resent' + Cardinality(Waiting') = metricRetries'
    <3>1. resent + Cardinality(Waiting) = metricRetries
      BY <1>3, <2>5 DEF RetryInv
    <3> QED BY <1>1, <1>2, <1>3, <1>7, <2>2, <2>5, <3>1
  <2> QED BY <2>3, <2>4, <2>5 DEF RetryInv
<1>8. CASE BackoffElapses(w)
  <2>1. attempt[w] > 0  BY <1>8 DEF RetryInv, BackoffElapses, Waiting
  <2> QED BY <1>1, <1>7, <1>8, <2>1 DEF BackoffElapses, StartPost, metricVars
<1>9. CASE BackoffCanceled(w)
  BY <1>1, <1>7, <1>9 DEF BackoffCanceled, GiveUp
<1> QED BY <1>4, <1>5, <1>6, <1>8, <1>9 DEF PostRefused, PostAborted, PostFails

LEMMA RetryOther ==
  ASSUME RetryInv, TypeOK',
         \/ Emit \/ CancelCtx \/ CloseOutbox \/ UNCHANGED vars
         \/ \E w \in Workers : CallPop(w) \/ PopFails(w) \/ PopGetsEvent(w)
         \/ \E e \in Events : LateArrival(e)
  PROVE  RetryInv'
<1>1. /\ wpc \in [Workers -> WorkerSteps] /\ attempt \in [Workers -> 0 .. MaxRetries]
      /\ \A w \in Busy : w \notin calling
  BY DEF RetryInv, TypeOK
<1>2. CASE UNCHANGED <<wpc, attempt, resent, metricRetries>> /\ canceled' = canceled
  BY <1>2, RetryKept DEF Waiting
<1>3. CASE CancelCtx
  <2>1. /\ UNCHANGED <<wpc, attempt, resent, metricRetries>>
        /\ canceled' = {} => canceled = {}
    BY <1>3 DEF CancelCtx, QCancel, metricVars
  <2> QED BY <2>1, RetryKept DEF Waiting
<1>4. ASSUME NEW w \in Workers, PopFails(w) \/ PopGetsEvent(w) PROVE RetryInv'
  <2>1. /\ w \in calling /\ canceled' = canceled
        /\ UNCHANGED <<resent, metricRetries>>
        /\ \E s \in {"done", "post"} : wpc' = [wpc EXCEPT ![w] = s]
        /\ \/ attempt' = attempt
           \/ attempt' = [attempt EXCEPT ![w] = 0]
    BY <1>4 DEF PopFails, PopGetsEvent, QPopClosed, QPopCanceled, QPopEvent,
       Returns, StartPost, metricVars
  <2>2. w \notin Waiting  BY <1>1, <2>1 DEF Busy, Waiting
  <2>3. Waiting' = Waiting /\ \A v \in Waiting : attempt'[v] = attempt[v]
    BY <1>1, <2>1, <2>2 DEF Waiting
  <2> QED BY <2>1, <2>3, RetryKept
<1> QED BY <1>2, <1>3, <1>4
     DEF Emit, QPush, CloseOutbox, QClose, CallPop, QCall, LateArrival,
         vars, qvars, metricVars

(* Every retry that is counted was sent or waits to be; only the shutdown   *)
(* cancels one after it was counted.                                        *)
THEOREM RetriesCorrect == Spec => []RetriesExecuted
<1>1. Init => RetryInv
  <2> SUFFICES ASSUME Init PROVE RetryInv  OBVIOUS
  <2>1. Waiting = {}  BY DEF Init, Waiting
  <2>2. Cardinality(Waiting) = 0  BY <2>1, FS_EmptySet
  <2>3. resent = 0 /\ metricRetries = 0  BY DEF Init
  <2> QED BY <2>1, <2>2, <2>3, TypeInit DEF RetryInv
<1>2. RetryInv /\ [Next]_vars => RetryInv'
  <2> SUFFICES ASSUME RetryInv, [Next]_vars PROVE RetryInv'  OBVIOUS
  <2>1. TypeOK'  BY TypeInv DEF RetryInv
  <2> QED BY <2>1, RetryWork, RetryOther DEF Next, WorkerStep
<1>3. RetryInv => RetriesExecuted  BY DEF RetryInv, RetriesExecuted, Waiting
<1> QED BY <1>1, <1>2, <1>3, PTL DEF Spec


-----------------------------------------------------------------------------
(* The queue inside the dispatcher is the abstract queue: Emit is a Push,   *)
(* CallPop and the two outcomes of Pop are its calls and returns, and a     *)
(* step of the delivery does not move it.  So module Outbox, which          *)
(* implements the abstract queue, can stand in for it.                      *)
LEMMA QueueStep ==
  ASSUME enqueued \in Nat, dropped \in Nat, Next
  PROVE  [QNext]_qvars
<1>1. CASE Emit
  <2>1. QPush(enqueued + 1)  BY <1>1 DEF Emit
  <2>2. enqueued + 1 \in Events
    <3>1. enqueued + dropped < MaxPushes  BY <2>1 DEF QPush
    <3> QED BY <3>1, DispatcherAssumption, QueueAssumption
  <2> QED BY <2>1, <2>2 DEF QNext
<1>2. CASE CancelCtx
  <2>1. QCancel(Poppers)  BY <1>2 DEF CancelCtx, Workers
  <2>2. Poppers \in SUBSET Poppers  OBVIOUS
  <2> QED BY <2>1, <2>2 DEF QNext
<1>3. CASE CloseOutbox  BY <1>3 DEF CloseOutbox, QNext
<1>4. ASSUME NEW w \in Workers, WorkerStep(w)
      PROVE  [QNext]_qvars
  <2>1. w \in Poppers  BY DEF Workers
  <2>2. CASE CallPop(w)  BY <2>1, <2>2 DEF CallPop, QNext
  <2>3. CASE PopFails(w)  BY <2>1, <2>3 DEF PopFails, QNext
  <2>4. CASE PopGetsEvent(w)  BY <2>1, <2>4 DEF PopGetsEvent, QNext
  <2>5. CASE PostSucceeds(w)  BY <2>5 DEF PostSucceeds
  <2>6. CASE PostRefused(w)  BY <2>6 DEF PostRefused, PostFails
  <2>7. CASE PostAborted(w)  BY <2>7 DEF PostAborted, PostFails
  <2>8. CASE BackoffElapses(w)  BY <2>8 DEF BackoffElapses
  <2>9. CASE BackoffCanceled(w)  BY <2>9 DEF BackoffCanceled
  <2> QED BY <1>4, <2>2, <2>3, <2>4, <2>5, <2>6, <2>7, <2>8, <2>9
          DEF WorkerStep
<1>5. ASSUME NEW w \in Workers, EndpointAnswers(w)
      PROVE  [QNext]_qvars
  BY <1>5 DEF EndpointAnswers
<1>6. ASSUME NEW e \in Events, LateArrival(e)
      PROVE  [QNext]_qvars
  BY <1>6 DEF LateArrival
<1> QED BY <1>1, <1>2, <1>3, <1>4, <1>5, <1>6 DEF Next

THEOREM QueueInside == Spec => QSpec
<1>1. Init => QInit  BY DEF Init
<1>2. TypeOK /\ [Next]_vars => [QNext]_qvars
  <2>1. TypeOK => enqueued \in Nat /\ dropped \in Nat  BY DEF TypeOK
  <2>2. ASSUME TypeOK, Next PROVE [QNext]_qvars  BY <2>1, <2>2, QueueStep
  <2>3. UNCHANGED vars => UNCHANGED qvars  BY DEF vars
  <2> QED BY <2>2, <2>3
<1> QED BY <1>1, <1>2, TypeCorrect, PTL DEF Spec, QSpec
=============================================================================
