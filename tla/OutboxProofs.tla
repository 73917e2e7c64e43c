---------------------------- MODULE OutboxProofs ----------------------------
(***************************************************************************)
(* Theorems of the outbox for every capacity, drop policy, set of events   *)
(* and finite set of poppers.  The inductive invariant is TypeOK together  *)
(* with the invariant at hand: NoLostWakeup, StatsAccount and              *)
(* RingWellFormed are each inductive relative to TypeOK.  From TypeOK and  *)
(* the shape of the ring follows that the outbox implements OutboxQueue.   *)
(***************************************************************************)
EXTENDS Outbox, FiniteSetTheorems, SequenceTheorems, TLAPS

-----------------------------------------------------------------------------
(* Arithmetic of the ring, and the number of token holders.                 *)

(* A slot index advanced by one stays inside the ring.                      *)
LEMMA NextSlot == \A s \in Slots : (s + 1) % Capacity \in Slots
  BY OutboxAssumption, SMT DEF Slots

(* There are finitely many token holders, so their number is a natural.     *)
LEMMA HoldersFinite == IsFiniteSet(Holders) /\ Cardinality(Holders) \in Nat
<1>1. Holders \in SUBSET Poppers  BY DEF Holders
<1>2. IsFiniteSet(Poppers)        BY OutboxAssumption
<1>3. IsFiniteSet(Holders)        BY <1>1, <1>2, FS_Subset
<1> QED BY <1>3, FS_CardinalityType

(* A popper that takes a token is one holder more.                          *)
LEMMA HolderEnters ==
  ASSUME TypeOK, NEW p \in Poppers, Goto(p, "select", "token")
  PROVE  Cardinality(Holders') = Cardinality(Holders) + 1
<1>1. Holders' = Holders \cup {p}  BY DEF Holders, Goto, TypeOK
<1>2. p \notin Holders             BY DEF Holders, Goto
<1> QED BY <1>1, <1>2, HoldersFinite, FS_AddElement

(* A popper that uses its token is one holder less.                         *)
LEMMA HolderLeaves ==
  ASSUME TypeOK, NEW p \in Poppers, NEW to \in PopSteps \ {"token"},
         Goto(p, "token", to)
  PROVE  /\ Cardinality(Holders) > 0
         /\ Cardinality(Holders') = Cardinality(Holders) - 1
<1>1. Holders' = Holders \ {p}  BY DEF Holders, Goto, TypeOK
<1>2. p \in Holders             BY DEF Holders, Goto
<1>3. Cardinality(Holders') = Cardinality(Holders) - 1
  BY <1>1, <1>2, HoldersFinite, FS_RemoveElement
<1>4. IsFiniteSet(Holders') /\ Cardinality(Holders') \in Nat
  BY <1>1, HoldersFinite, FS_RemoveElement, FS_CardinalityType
<1> QED BY <1>3, <1>4, HoldersFinite, SMT

(* No other move of a popper changes the holders.                           *)
LEMMA HoldersKept ==
  ASSUME TypeOK, NEW p \in Poppers,
         NEW from \in PopSteps \ {"token"}, NEW to \in PopSteps \ {"token"},
         Goto(p, from, to)
  PROVE  Holders' = Holders
BY DEF Holders, Goto, TypeOK

-----------------------------------------------------------------------------
(* Type correctness.                                                        *)
LEMMA TypeInit == Init => TypeOK
<1> SUFFICES ASSUME Init PROVE TypeOK  OBVIOUS
<1>1. /\ 0 \in Slots /\ 0 \in 0 .. Capacity
  BY OutboxAssumption, SMT DEF Slots
<1>2. items \in [Slots -> Events \cup {NoEvent}]  BY DEF Init
<1>3. pc \in [Poppers -> PopSteps]                BY DEF Init, PopSteps
<1>4. result \in [Poppers -> Events \cup {ErrQueueClosed, CtxErr, NoEvent}]
  BY DEF Init
<1> QED BY <1>1, <1>2, <1>3, <1>4 DEF Init, TypeOK

LEMMA TypePush == ASSUME TypeOK, NEW e \in Events, Push(e) PROVE TypeOK'
<1> USE OutboxAssumption, NextSlot DEF TypeOK
<1>1. CASE PushFits(e)
  BY <1>1 DEF Push, PushFits, StoreAtTail, AddToken
<1>2. CASE PushEvicts(e)
  BY <1>2 DEF Push, PushEvicts, StoreAtTail
<1>3. CASE PushRefused
  BY <1>3 DEF Push, PushRefused, ring
<1> QED BY <1>1, <1>2, <1>3 DEF Push

LEMMA TypeTakeHead ==
  ASSUME TypeOK, NEW p \in Poppers, NEW from, TakeHead(p, from),
         sem' \in 0 .. Capacity
  PROVE  TypeOK'
<1>1. items[head] \in Events \cup {NoEvent}  BY DEF TypeOK
<1>2. result' \in [Poppers -> Events \cup {ErrQueueClosed, CtxErr, NoEvent}]
  BY <1>1 DEF TypeOK, TakeHead, Return
<1>3. pc' \in [Poppers -> PopSteps]
  BY DEF TypeOK, TakeHead, Return, Goto, PopSteps
<1>4. /\ items' \in [Slots -> Events \cup {NoEvent}]
      /\ head' \in Slots /\ count' \in 0 .. Capacity /\ dequeued' \in Nat
  BY OutboxAssumption, NextSlot DEF TypeOK, TakeHead
<1> QED BY <1>2, <1>3, <1>4 DEF TypeOK, TakeHead

LEMMA TypeReturnError ==
  ASSUME TypeOK, NEW p \in Poppers, NEW from,
         ReturnClosed(p, from) \/ ReturnCanceled(p, from)
  PROVE  TypeOK'
<1>1. pc' \in [Poppers -> PopSteps]
  BY DEF TypeOK, ReturnClosed, ReturnCanceled, Return, Goto, PopSteps
<1>2. result' \in [Poppers -> Events \cup {ErrQueueClosed, CtxErr, NoEvent}]
  BY DEF TypeOK, ReturnClosed, ReturnCanceled, Return
<1> QED
  BY <1>1, <1>2 DEF TypeOK, ReturnClosed, ReturnCanceled, ring, stats

LEMMA TypeMoves ==
  ASSUME TypeOK, NEW p \in Poppers, NEW from, NEW to \in PopSteps,
         Moves(p, from, to)
  PROVE  TypeOK'
BY DEF TypeOK, Moves, Goto, ring, stats

LEMMA TypePopStep == ASSUME TypeOK, NEW p \in Poppers, PopStep(p) PROVE TypeOK'
<1> USE DEF PopSteps
<1>0. ASSUME DrainToken PROVE sem' \in 0 .. Capacity
  BY <1>0, OutboxAssumption DEF TypeOK, DrainToken
<1>1. CASE CheckCtx(p)
  BY <1>1, TypeReturnError, TypeMoves DEF CheckCtx
<1>2. CASE FastPath(p)
  BY <1>0, <1>2, TypeTakeHead, TypeReturnError, TypeMoves DEF FastPath
<1>3. CASE SelectCtxDone(p)
  BY <1>3, TypeReturnError DEF SelectCtxDone
<1>4. CASE SelectClosedCh(p)
  BY <1>4, TypeMoves DEF SelectClosedCh
<1>5. CASE SelectSem(p)
  BY <1>5, OutboxAssumption DEF TypeOK, SelectSem, Goto, ring, stats
<1>6. CASE DrainAfterClose(p)
  BY <1>0, <1>6, TypeTakeHead, TypeReturnError DEF DrainAfterClose
<1>7. CASE UseToken(p)
  <2>1. TypeOK => sem \in 0 .. Capacity  BY DEF TypeOK
  <2> QED BY <2>1, <1>7, TypeTakeHead, TypeReturnError, TypeMoves DEF UseToken
<1> QED BY <1>1, <1>2, <1>3, <1>4, <1>5, <1>6, <1>7 DEF PopStep

(* Every variable keeps its type: in particular head and tail stay slots    *)
(* of the ring, and neither count nor the token channel exceeds Capacity.   *)
THEOREM TypeCorrect == Spec => []TypeOK
<1>1. Init => TypeOK  BY TypeInit
<1>2. TypeOK /\ [Next]_vars => TypeOK'
  <2> SUFFICES ASSUME TypeOK, [Next]_vars PROVE TypeOK'  OBVIOUS
  <2>1. ASSUME NEW e \in Events, Push(e) PROVE TypeOK'
    BY <2>1, TypePush
  <2>2. ASSUME NEW p \in Poppers, Call(p) PROVE TypeOK'
    BY <2>2, TypeMoves DEF Call, PopSteps
  <2>3. ASSUME NEW p \in Poppers, PopStep(p) PROVE TypeOK'
    BY <2>3, TypePopStep
  <2>4. ASSUME NEW p \in Poppers, Cancel(p) PROVE TypeOK'
    BY <2>4 DEF Cancel, TypeOK, ring, stats
  <2>5. CASE Close
    BY <2>5 DEF Close, TypeOK, ring, stats
  <2>6. CASE UNCHANGED vars
    BY <2>6 DEF vars, TypeOK, ring, stats
  <2> QED BY <2>1, <2>2, <2>3, <2>4, <2>5, <2>6 DEF Next
<1> QED BY <1>1, <1>2, PTL DEF Spec

-----------------------------------------------------------------------------
(* No lost wakeup.  TypeOK is what makes it inductive: without sem and the  *)
(* number of holders being naturals nothing can be said of their sum.       *)
LEMMA WakeupPush ==
  ASSUME TypeOK, NoLostWakeup, NEW e \in Events, Push(e)
  PROVE  NoLostWakeup'
<1>1. Holders' = Holders  BY DEF Push, Holders
<1>2. CASE PushFits(e)
  <2>1. /\ count < Capacity /\ count' = count + 1
        /\ sem' = IF sem < Capacity THEN sem + 1 ELSE sem
    BY <1>2 DEF PushFits, AddToken
  <2> QED BY <1>1, <2>1, OutboxAssumption, HoldersFinite DEF TypeOK, NoLostWakeup
<1>3. CASE PushEvicts(e)
  BY <1>1, <1>3 DEF PushEvicts, NoLostWakeup
<1>4. CASE PushRefused
  BY <1>1, <1>4 DEF PushRefused, ring, NoLostWakeup
<1> QED BY <1>2, <1>3, <1>4 DEF Push

(* A Pop outside the sem case drains a token if there is one: the event it  *)
(* takes and the token go together, and without a token every event that is *)
(* left is matched by a holder.                                             *)
LEMMA WakeupTakeAndDrain ==
  ASSUME TypeOK, NoLostWakeup, NEW p \in Poppers,
         NEW from \in PopSteps \ {"token"}, TakeHead(p, from), DrainToken
  PROVE  NoLostWakeup'
<1>1. Holders' = Holders
  BY HoldersKept DEF TakeHead, Return, PopSteps
<1>2. count > 0 /\ count' = count - 1  BY DEF TakeHead
<1>3. sem' = IF sem > 0 THEN sem - 1 ELSE sem  BY DEF DrainToken
<1> QED
  BY <1>1, <1>2, <1>3, OutboxAssumption, HoldersFinite DEF TypeOK, NoLostWakeup

LEMMA WakeupUseToken ==
  ASSUME TypeOK, NoLostWakeup, NEW p \in Poppers, UseToken(p)
  PROVE  NoLostWakeup'
<1>1. CASE TakeHead(p, "token") /\ UNCHANGED sem
  <2>1. Cardinality(Holders') = Cardinality(Holders) - 1
    BY <1>1, HolderLeaves DEF TakeHead, Return, PopSteps
  <2>2. count' = count - 1 /\ sem' = sem  BY <1>1 DEF TakeHead
  <2> QED
    BY <2>1, <2>2, OutboxAssumption, HoldersFinite DEF TypeOK, NoLostWakeup
<1>2. CASE count = 0
  <2>1. \E to \in PopSteps \ {"token"} : Goto(p, "token", to)
    BY <1>2 DEF UseToken, TakeHead, ReturnClosed, Return, Moves, PopSteps
  <2>2. /\ Cardinality(Holders) > 0
        /\ Cardinality(Holders') = Cardinality(Holders) - 1
    BY <2>1, HolderLeaves
  <2>3. count' = 0 /\ sem' = sem
    BY <1>2 DEF UseToken, TakeHead, ReturnClosed, Moves, ring
  <2> QED BY <2>2, <2>3, HoldersFinite DEF TypeOK, NoLostWakeup
<1> QED BY <1>1, <1>2 DEF UseToken, ReturnClosed

(* A step that leaves count, sem and the holders alone.                     *)
LEMMA WakeupKept ==
  ASSUME TypeOK, NoLostWakeup, NEW p \in Poppers,
         NEW from \in PopSteps \ {"token"}, NEW to \in PopSteps \ {"token"},
         \/ Moves(p, from, to)
         \/ ReturnClosed(p, from) \/ ReturnCanceled(p, from)
  PROVE  NoLostWakeup'
<1>1. Holders' = Holders
  BY HoldersKept DEF Moves, ReturnClosed, ReturnCanceled, Return, PopSteps
<1>2. count' = count /\ sem' = sem
  BY DEF Moves, ReturnClosed, ReturnCanceled, ring
<1> QED BY <1>1, <1>2 DEF NoLostWakeup

LEMMA WakeupPopStep ==
  ASSUME TypeOK, NoLostWakeup, NEW p \in Poppers, PopStep(p)
  PROVE  NoLostWakeup'
<1> USE DEF PopSteps
<1>1. CASE CheckCtx(p)        BY <1>1, WakeupKept DEF CheckCtx
<1>2. CASE FastPath(p)
  BY <1>2, WakeupTakeAndDrain, WakeupKept DEF FastPath
<1>3. CASE SelectCtxDone(p)   BY <1>3, WakeupKept DEF SelectCtxDone
<1>4. CASE SelectClosedCh(p)  BY <1>4, WakeupKept DEF SelectClosedCh
<1>5. CASE SelectSem(p)
  <2>1. Cardinality(Holders') = Cardinality(Holders) + 1
    BY <1>5, HolderEnters DEF SelectSem
  <2>2. sem' = sem - 1 /\ count' = count  BY <1>5 DEF SelectSem, ring
  <2> QED
    BY <2>1, <2>2, OutboxAssumption, HoldersFinite DEF TypeOK, NoLostWakeup
<1>6. CASE DrainAfterClose(p)
  BY <1>6, WakeupTakeAndDrain, WakeupKept DEF DrainAfterClose
<1>7. CASE UseToken(p)        BY <1>7, WakeupUseToken
<1> QED BY <1>1, <1>2, <1>3, <1>4, <1>5, <1>6, <1>7 DEF PopStep

(* For every queued event there is a token in the channel or in the hands   *)
(* of a popper on its way to the mutex: no popper sleeps while an event     *)
(* that nobody is about to take stays queued.                               *)
THEOREM WakeupsSafe == Spec => []NoLostWakeup
<1>1. Init => NoLostWakeup
  <2> SUFFICES ASSUME Init PROVE NoLostWakeup  OBVIOUS
  <2>1. Holders = {}  BY DEF Init, Holders
  <2>2. Cardinality(Holders) = 0  BY <2>1, FS_EmptySet
  <2> QED BY <2>2 DEF Init, NoLostWakeup
<1>2. TypeOK /\ NoLostWakeup /\ [Next]_vars => NoLostWakeup'
  <2> SUFFICES ASSUME TypeOK, NoLostWakeup, [Next]_vars PROVE NoLostWakeup'
    OBVIOUS
  <2>1. ASSUME NEW e \in Events, Push(e) PROVE NoLostWakeup'
    BY <2>1, WakeupPush
  <2>2. ASSUME NEW p \in Poppers, Call(p) PROVE NoLostWakeup'
    BY <2>2, WakeupKept DEF Call, PopSteps
  <2>3. ASSUME NEW p \in Poppers, PopStep(p) PROVE NoLostWakeup'
    BY <2>3, WakeupPopStep
  <2>4. ASSUME NEW p \in Poppers, Cancel(p) PROVE NoLostWakeup'
    BY <2>4 DEF Cancel, NoLostWakeup, Holders, ring
  <2>5. CASE Close
    BY <2>5 DEF Close, NoLostWakeup, Holders, ring
  <2>6. CASE UNCHANGED vars
    BY <2>6 DEF vars, NoLostWakeup, Holders, ring
  <2> QED BY <2>1, <2>2, <2>3, <2>4, <2>5, <2>6 DEF Next
<1> QED BY <1>1, <1>2, TypeCorrect, PTL DEF Spec

-----------------------------------------------------------------------------
(* Every event that Push accepted is queued, was returned by a Pop, or was  *)
(* evicted by a later Push: the counters of Stats account for all of them.  *)
THEOREM StatsCorrect == Spec => []StatsAccount
<1>1. Init => StatsAccount
  BY OutboxAssumption DEF Init, StatsAccount
<1>2. TypeOK /\ StatsAccount /\ [Next]_vars => StatsAccount'
  <2> SUFFICES ASSUME TypeOK, StatsAccount, [Next]_vars PROVE StatsAccount'
    OBVIOUS
  <2> USE OutboxAssumption DEF StatsAccount
  <2>1. ASSUME NEW e \in Events, Push(e) PROVE StatsAccount'
    BY <2>1 DEF TypeOK, Push, PushFits, PushEvicts, PushRefused, StoreAtTail, ring
  <2>2. ASSUME NEW p \in Poppers, NEW from, TakeHead(p, from)
        PROVE  StatsAccount'
    BY <2>2 DEF TypeOK, TakeHead
  <2>3. ASSUME count' = count, policy' = policy, UNCHANGED stats PROVE StatsAccount'
    BY <2>3 DEF stats
  <2>4. ASSUME NEW p \in Poppers, PopStep(p) \/ Call(p) PROVE StatsAccount'
    BY <2>2, <2>3, <2>4 DEF PopStep, Call, CheckCtx, FastPath, SelectCtxDone,
       SelectClosedCh, SelectSem, DrainAfterClose, UseToken, Moves,
       ReturnClosed, ReturnCanceled, ring
  <2>5. ASSUME NEW p \in Poppers, Cancel(p) PROVE StatsAccount'
    BY <2>3, <2>5 DEF Cancel, ring
  <2>6. CASE Close \/ UNCHANGED vars
    BY <2>3, <2>6 DEF Close, vars, ring
  <2> QED BY <2>1, <2>4, <2>5, <2>6 DEF Next
<1> QED BY <1>1, <1>2, TypeCorrect, PTL DEF Spec

-----------------------------------------------------------------------------
(* The shape of the ring.                                                   *)

(* Where a slot index lands after "% capacity".                             *)
LEMMA Wrap ==
  ASSUME NEW i \in 0 .. 2 * Capacity - 1
  PROVE  i % Capacity = IF i < Capacity THEN i ELSE i - Capacity
  BY OutboxAssumption

(* How far slot s lies behind slot h.  With Offset, Live needs no modulus,  *)
(* and RingInv is RingWellFormed said without one.                          *)
Behind(h, s) == IF s >= h THEN s - h ELSE s - h + Capacity

Offset(s) == Behind(head, s)

(* Less than a whole ring lies between two slots.                           *)
LEMMA BehindRange ==
  \A h \in Slots, s \in Slots : Behind(h, s) < Capacity
BY OutboxAssumption DEF Behind, Slots

RingInv ==
  /\ tail = IF head + count < Capacity THEN head + count
            ELSE head + count - Capacity
  /\ \A s \in Slots : items[s] # NoEvent <=> Offset(s) < count

(* The slots of the queue are the first count ones from the head.           *)
LEMMA LiveOffset ==
  ASSUME TypeOK, NEW s \in Slots
  PROVE  s \in Live <=> Offset(s) < count
<1>1. head \in 0 .. Capacity - 1 /\ count \in 0 .. Capacity
      /\ s \in 0 .. Capacity - 1 /\ Capacity \in Nat \ {0}
  BY OutboxAssumption DEF TypeOK, Slots
<1>2. ASSUME NEW i \in 0 .. count - 1, s = (head + i) % Capacity
      PROVE  Offset(s) < count
  <2>1. head + i \in 0 .. 2 * Capacity - 1  BY <1>1
  <2>2. s = IF head + i < Capacity THEN head + i ELSE head + i - Capacity
    BY <1>1, <1>2, <2>1, Wrap, OutboxAssumption
  <2> QED  BY <1>1, <2>2 DEF Offset, Behind
<1>3. ASSUME Offset(s) < count
      PROVE  \E i \in 0 .. count - 1 : s = (head + i) % Capacity
  <2>1. Offset(s) \in 0 .. count - 1 /\ head + Offset(s) \in 0 .. 2 * Capacity - 1
    BY <1>1, <1>3 DEF Offset, Behind
  <2>2. (head + Offset(s)) % Capacity
          = IF head + Offset(s) < Capacity THEN head + Offset(s)
            ELSE head + Offset(s) - Capacity
    BY <1>1, <2>1, Wrap, OutboxAssumption
  <2>3. s = (head + Offset(s)) % Capacity
    BY <1>1, <2>2 DEF Offset, Behind
  <2> QED  BY <2>1, <2>3
<1> QED  BY <1>2, <1>3 DEF Live

(* The two forms of the invariant say the same of well-typed states.        *)
LEMMA RingInvEquiv == TypeOK => (RingInv <=> RingWellFormed)
<1> SUFFICES ASSUME TypeOK PROVE RingInv <=> RingWellFormed  OBVIOUS
<1>1. /\ head \in Nat /\ count \in Nat
      /\ head + count \in 0 .. 2 * Capacity - 1
  BY OutboxAssumption DEF TypeOK, Slots
<1>2. (head + count) % Capacity
        = IF head + count < Capacity THEN head + count
          ELSE head + count - Capacity
  BY <1>1, Wrap, OutboxAssumption
<1>3. \A s \in Slots : s \in Live <=> Offset(s) < count  BY LiveOffset
<1> QED  BY <1>2, <1>3 DEF RingInv, RingWellFormed

(* The slot after a slot.                                                   *)
LEMMA Advance ==
  ASSUME NEW s \in Slots
  PROVE  (s + 1) % Capacity = IF s + 1 < Capacity THEN s + 1 ELSE 0
<1>1. s + 1 \in 0 .. 2 * Capacity - 1 /\ s \in 0 .. Capacity - 1
  BY OutboxAssumption DEF Slots
<1>2. (s + 1) % Capacity = IF s + 1 < Capacity THEN s + 1 ELSE s + 1 - Capacity
  BY <1>1, Wrap, OutboxAssumption
<1> QED  BY <1>1, <1>2, OutboxAssumption

(* A push to a ring that is not full fills the slot behind the queue.       *)
LEMMA RingPushFits ==
  ASSUME TypeOK, RingInv, NEW e \in Events, PushFits(e) PROVE RingInv'
<1>1. /\ head \in 0 .. Capacity - 1 /\ tail \in 0 .. Capacity - 1
      /\ count \in 0 .. Capacity /\ count < Capacity
      /\ Capacity \in Nat \ {0} /\ e # NoEvent
  BY OutboxAssumption DEF TypeOK, Slots, PushFits
<1>2. /\ head' = head /\ count' = count + 1
      /\ tail' = IF tail + 1 < Capacity THEN tail + 1 ELSE 0
      /\ items' = [items EXCEPT ![tail] = e]
  BY Advance DEF PushFits, StoreAtTail, TypeOK
<1>3. tail' = IF head' + count' < Capacity THEN head' + count'
              ELSE head' + count' - Capacity
  BY <1>1, <1>2 DEF RingInv
<1>4. ASSUME NEW s \in Slots
      PROVE  items'[s] # NoEvent <=> Offset(s)' < count'
  <2>1. Offset(s)' = Offset(s)  BY <1>2 DEF Offset, Behind
  <2>2. CASE s = tail
    <3>1. items'[s] = e  BY <1>2, <2>2 DEF TypeOK
    <3>2. Offset(s) = count  BY <1>1, <2>2 DEF Offset, Behind, RingInv
    <3> QED  BY <1>1, <1>2, <2>1, <3>1, <3>2
  <2>3. CASE s # tail
    <3>1. items'[s] = items[s]  BY <1>2, <2>3 DEF TypeOK
    <3>2. Offset(s) # count /\ Offset(s) \in Nat
      BY <1>1, <2>3 DEF Offset, Behind, RingInv, Slots
    <3>3. Offset(s) < count + 1 <=> Offset(s) < count  BY <1>1, <3>2
    <3> QED  BY <1>2, <2>1, <3>1, <3>3 DEF RingInv
  <2> QED  BY <2>2, <2>3
<1> QED  BY <1>3, <1>4 DEF RingInv

(* In a full ring head and tail are the same slot: the evicted event's slot *)
(* is cleared and takes the new event at once.                              *)
LEMMA RingPushEvicts ==
  ASSUME TypeOK, RingInv, NEW e \in Events, PushEvicts(e) PROVE RingInv'
<1>1. /\ head \in 0 .. Capacity - 1 /\ count = Capacity
      /\ Capacity \in Nat \ {0} /\ e # NoEvent
  BY OutboxAssumption DEF TypeOK, Slots, PushEvicts
<1>2. tail = head  BY <1>1 DEF RingInv
<1>3. /\ count' = count
      /\ head' = IF head + 1 < Capacity THEN head + 1 ELSE 0
      /\ tail' = head'
      /\ items' = [[items EXCEPT ![head] = NoEvent] EXCEPT ![head] = e]
  BY <1>2, Advance DEF PushEvicts, StoreAtTail, TypeOK
<1>4. head' \in 0 .. Capacity - 1  BY <1>1, <1>3
<1>5. tail' = IF head' + count' < Capacity THEN head' + count'
              ELSE head' + count' - Capacity
  BY <1>1, <1>3, <1>4
<1>6. ASSUME NEW s \in Slots
      PROVE  items'[s] # NoEvent <=> Offset(s)' < count'
  <2>1. Offset(s)' < Capacity /\ Offset(s) < Capacity
    <3>1. head \in Slots /\ head' \in Slots  BY <1>1, <1>4 DEF Slots
    <3>2. Behind(head, s) < Capacity /\ Behind(head', s) < Capacity
      BY <3>1, BehindRange
    <3> QED  BY <3>2 DEF Offset, Behind
  <2>2. items'[s] # NoEvent
    <3>1. CASE s = head  BY <1>1, <1>3, <3>1 DEF TypeOK
    <3>2. CASE s # head
      <4>1. items'[s] = items[s]  BY <1>3, <3>2 DEF TypeOK
      <4> QED  BY <1>1, <2>1, <4>1 DEF RingInv
    <3> QED  BY <3>1, <3>2
  <2> QED  BY <1>1, <1>3, <2>1, <2>2
<1> QED  BY <1>5, <1>6 DEF RingInv

(* A pop clears the head's slot, and the others are one closer to the head. *)
LEMMA RingTakeHead ==
  ASSUME TypeOK, RingInv, NEW p \in Poppers, NEW from, TakeHead(p, from)
  PROVE  RingInv'
<1>1. /\ head \in 0 .. Capacity - 1 /\ count \in 1 .. Capacity
      /\ Capacity \in Nat \ {0}
  BY OutboxAssumption DEF TypeOK, Slots, TakeHead
<1>2. /\ tail' = tail /\ count' = count - 1
      /\ head' = IF head + 1 < Capacity THEN head + 1 ELSE 0
      /\ items' = [items EXCEPT ![head] = NoEvent]
  BY Advance DEF TakeHead, TypeOK
<1>3. tail' = IF head' + count' < Capacity THEN head' + count'
              ELSE head' + count' - Capacity
  BY <1>1, <1>2 DEF RingInv
<1>4. ASSUME NEW s \in Slots
      PROVE  items'[s] # NoEvent <=> Offset(s)' < count'
  <2>1. CASE s = head
    <3>1. items'[s] = NoEvent  BY <1>2, <2>1 DEF TypeOK
    <3>2. Offset(s)' = Capacity - 1  BY <1>1, <1>2, <2>1 DEF Offset, Behind
    <3> QED  BY <1>1, <1>2, <3>1, <3>2
  <2>2. CASE s # head
    <3>1. items'[s] = items[s]  BY <1>2, <2>2 DEF TypeOK
    <3>2. Offset(s)' = Offset(s) - 1 /\ Offset(s) \in Int
      BY <1>1, <1>2, <2>2 DEF Offset, Behind, Slots
    <3>3. Offset(s) - 1 < count - 1 <=> Offset(s) < count  BY <1>1, <3>2
    <3> QED  BY <1>2, <3>1, <3>2, <3>3 DEF RingInv
  <2> QED  BY <2>1, <2>2
<1> QED  BY <1>3, <1>4 DEF RingInv

(* head, tail and count always describe the same queue, its slots hold      *)
(* events, and every other slot is cleared (Push, the pops of Pop).         *)
THEOREM RingCorrect == Spec => []RingWellFormed
<1>1. Init => RingInv
  <2> SUFFICES ASSUME Init PROVE RingInv  OBVIOUS
  <2>1. /\ head = 0 /\ tail = 0 /\ count = 0 /\ Capacity \in Nat \ {0}
        /\ \A s \in Slots : items[s] = NoEvent
    BY OutboxAssumption DEF Init
  <2>2. \A s \in Slots : ~(Offset(s) < count)
    BY <2>1 DEF Offset, Behind, Slots
  <2> QED  BY <2>1, <2>2 DEF RingInv
<1>2. TypeOK /\ RingInv /\ [Next]_vars => RingInv'
  <2> SUFFICES ASSUME TypeOK, RingInv, [Next]_vars PROVE RingInv'  OBVIOUS
  <2>1. ASSUME UNCHANGED ring PROVE RingInv'
    BY <2>1 DEF ring, RingInv, Offset
  <2>2. ASSUME NEW e \in Events, Push(e) PROVE RingInv'
    BY <2>1, <2>2, RingPushFits, RingPushEvicts DEF Push, PushRefused
  <2>3. ASSUME NEW p \in Poppers, PopStep(p) \/ Call(p) PROVE RingInv'
    BY <2>1, <2>3, RingTakeHead DEF PopStep, Call, CheckCtx, FastPath,
       SelectCtxDone, SelectClosedCh, SelectSem, DrainAfterClose, UseToken,
       Moves, ReturnClosed, ReturnCanceled
  <2>4. ASSUME NEW p \in Poppers, Cancel(p) PROVE RingInv'
    BY <2>1, <2>4 DEF Cancel
  <2>5. CASE Close \/ UNCHANGED vars
    BY <2>1, <2>5 DEF Close, vars, ring
  <2> QED BY <2>2, <2>3, <2>4, <2>5 DEF Next
<1> QED BY <1>1, <1>2, TypeCorrect, RingInvEquiv, PTL DEF Spec

-----------------------------------------------------------------------------
(* The outbox implements OutboxQueue.  Every critical section is the step   *)
(* of the queue it is named for; the moves of a popper between them, and    *)
(* the tokens, do not show.                                                 *)

(* The slot of the i-th event, without a modulus.                           *)
At(i) == IF head + i - 1 < Capacity THEN head + i - 1
         ELSE head + i - 1 - Capacity

Contents == Events \cup {NoEvent}

QueueIs ==
  /\ Queue \in Seq(Contents) /\ Len(Queue) = count
  /\ \A i \in 1 .. count : Queue[i] = items[At(i)] /\ At(i) \in Slots

LEMMA QueueAt == TypeOK => QueueIs
<1> SUFFICES ASSUME TypeOK PROVE QueueIs  OBVIOUS
<1>1. /\ head \in 0 .. Capacity - 1 /\ count \in 0 .. Capacity
      /\ Capacity \in Nat \ {0} /\ items \in [Slots -> Contents]
  BY OutboxAssumption DEF TypeOK, Slots, Contents
<1>2. ASSUME NEW i \in 1 .. count
      PROVE  /\ (head + i - 1) % Capacity = At(i) /\ At(i) \in Slots
             /\ items[At(i)] \in Contents
  <2>1. head + i - 1 \in 0 .. 2 * Capacity - 1  BY <1>1
  <2>2. (head + i - 1) % Capacity = At(i)
    <3>1. PICK k \in 0 .. 2 * Capacity - 1 : k = head + i - 1  BY <2>1
    <3>2. k % Capacity = IF k < Capacity THEN k ELSE k - Capacity  BY Wrap
    <3> QED  BY <1>1, <3>1, <3>2 DEF At
  <2>3. At(i) \in Slots  BY <1>1, <2>1 DEF At, Slots
  <2> QED  BY <1>1, <2>2, <2>3
<1>3. Queue = [i \in 1 .. count |-> items[At(i)]]  BY <1>2 DEF Queue
<1>4. Queue \in [1 .. count -> Contents]  BY <1>2, <1>3
<1>5. Queue \in Seq(Contents)  BY <1>1, <1>4
<1>6. Len(Queue) = count  BY <1>1, <1>4, <1>5
<1> QED  BY <1>2, <1>3, <1>5, <1>6 DEF QueueIs

LEMMA QueueAtNext == TypeOK' => QueueIs'
BY QueueAt, PTL

(* A pop takes the head of the queue.                                       *)
LEMMA QueueTakeHead ==
  ASSUME TypeOK, TypeOK', NEW p \in Poppers, NEW from, TakeHead(p, from)
  PROVE  /\ Queue # <<>> /\ items[head] = Head(Queue)
         /\ Queue' = Tail(Queue)
<1>1. /\ head \in 0 .. Capacity - 1 /\ count \in 1 .. Capacity
      /\ Capacity \in Nat \ {0} /\ items \in [Slots -> Contents]
  BY OutboxAssumption DEF TypeOK, Slots, TakeHead, Contents
<1>2. /\ count' = count - 1
      /\ head' = IF head + 1 < Capacity THEN head + 1 ELSE 0
      /\ items' = [items EXCEPT ![head] = NoEvent]
  BY Advance DEF TakeHead, TypeOK
<1>3. /\ Queue \in Seq(Contents) /\ Len(Queue) = count
      /\ \A i \in 1 .. count : Queue[i] = items[At(i)] /\ At(i) \in Slots
  BY QueueAt DEF QueueIs
<1>4. /\ Queue' \in Seq(Contents) /\ Len(Queue') = count'
      /\ \A i \in 1 .. count' : Queue'[i] = items'[At(i)']
  BY QueueAtNext DEF QueueIs
<1>5. Queue # <<>> /\ Head(Queue) = Queue[1]  BY <1>1, <1>3
<1>6. /\ Tail(Queue) \in Seq(Contents) /\ Len(Tail(Queue)) = count - 1
      /\ \A i \in 1 .. count - 1 : Tail(Queue)[i] = Queue[i + 1]
  BY <1>3, <1>5, HeadTailProperties
<1>7. At(1) = head /\ 1 \in 1 .. count  BY <1>1 DEF At
<1>8. ASSUME NEW i \in 1 .. count - 1
      PROVE  Queue'[i] = Tail(Queue)[i]
  <2>1. i + 1 \in 1 .. count /\ i \in 1 .. count'  BY <1>1, <1>2
  <2>2. At(i)' = At(i + 1) /\ At(i + 1) # head  BY <1>1, <1>2, <2>1 DEF At
  <2>3. items'[At(i + 1)] = items[At(i + 1)]  BY <1>2, <1>1, <1>3, <2>1, <2>2
  <2> QED  BY <1>3, <1>4, <1>6, <2>1, <2>2, <2>3
<1>9. Queue' = Tail(Queue)  BY <1>2, <1>4, <1>6, <1>8, SeqEqual
<1> QED  BY <1>3, <1>5, <1>7, <1>9

(* A push to a ring with room appends, and one that evicts drops the head.  *)
LEMMA QueuePushFits ==
  ASSUME TypeOK, TypeOK', RingInv, NEW e \in Events, PushFits(e)
  PROVE  Queue' = Append(Queue, e) /\ Len(Queue) < Capacity
<1>1. /\ head \in 0 .. Capacity - 1 /\ count \in 0 .. Capacity
      /\ Capacity \in Nat \ {0} /\ items \in [Slots -> Contents]
      /\ count < Capacity /\ e \in Contents /\ tail \in Slots
  BY OutboxAssumption DEF TypeOK, Slots, PushFits, Contents
<1>2. /\ head' = head /\ count' = count + 1
      /\ items' = [items EXCEPT ![tail] = e]
  BY DEF PushFits, StoreAtTail
<1>3. /\ Queue \in Seq(Contents) /\ Len(Queue) = count
      /\ \A i \in 1 .. count : Queue[i] = items[At(i)] /\ At(i) \in Slots
  BY QueueAt DEF QueueIs
<1>4. /\ Queue' \in Seq(Contents) /\ Len(Queue') = count'
      /\ \A i \in 1 .. count' : Queue'[i] = items'[At(i)']
  BY QueueAtNext DEF QueueIs
<1>5. /\ Append(Queue, e) \in Seq(Contents) /\ Len(Append(Queue, e)) = count + 1
      /\ \A i \in 1 .. count : Append(Queue, e)[i] = Queue[i]
      /\ Append(Queue, e)[count + 1] = e
  BY <1>1, <1>3, AppendProperties
<1>6. ASSUME NEW i \in 1 .. count + 1
      PROVE  Queue'[i] = Append(Queue, e)[i]
  <2>1. At(i)' = At(i)  BY <1>2 DEF At
  <2>2. CASE i = count + 1
    <3>1. At(i) = tail  BY <1>1, <2>2 DEF At, RingInv
    <3> QED  BY <1>1, <1>2, <1>4, <1>5, <2>1, <2>2, <3>1
  <2>3. CASE i \in 1 .. count
    <3>1. At(i) # tail  BY <1>1, <2>3 DEF At, RingInv
    <3>2. items'[At(i)] = items[At(i)]  BY <1>1, <1>2, <1>3, <2>3, <3>1
    <3> QED  BY <1>2, <1>3, <1>4, <1>5, <2>1, <2>3, <3>2
  <2>4. i \in 1 .. count \/ i = count + 1  BY <1>1
  <2> QED  BY <2>2, <2>3, <2>4
<1> QED  BY <1>1, <1>2, <1>3, <1>4, <1>5, <1>6, SeqEqual

LEMMA QueuePushEvicts ==
  ASSUME TypeOK, TypeOK', RingInv, NEW e \in Events, PushEvicts(e)
  PROVE  Queue' = Append(Tail(Queue), e) /\ Len(Queue) = Capacity
<1>1. /\ head \in 0 .. Capacity - 1 /\ count = Capacity
      /\ Capacity \in Nat \ {0} /\ items \in [Slots -> Contents]
      /\ e \in Contents
  BY OutboxAssumption DEF TypeOK, Slots, PushEvicts, Contents
<1>2. tail = head  BY <1>1 DEF RingInv
<1>3. /\ count' = count
      /\ head' = IF head + 1 < Capacity THEN head + 1 ELSE 0
      /\ items' = [[items EXCEPT ![head] = NoEvent] EXCEPT ![head] = e]
  BY <1>2, Advance DEF PushEvicts, StoreAtTail, TypeOK
<1>4. /\ Queue \in Seq(Contents) /\ Len(Queue) = count
      /\ \A i \in 1 .. count : Queue[i] = items[At(i)] /\ At(i) \in Slots
  BY QueueAt DEF QueueIs
<1>5. /\ Queue' \in Seq(Contents) /\ Len(Queue') = count'
      /\ \A i \in 1 .. count' : Queue'[i] = items'[At(i)'] /\ At(i)' \in Slots'
  BY QueueAtNext DEF QueueIs
<1>6. /\ Tail(Queue) \in Seq(Contents) /\ Len(Tail(Queue)) = count - 1
      /\ \A i \in 1 .. count - 1 : Tail(Queue)[i] = Queue[i + 1]
  BY <1>1, <1>4, HeadTailProperties
<1>7. /\ Append(Tail(Queue), e) \in Seq(Contents)
      /\ Len(Append(Tail(Queue), e)) = count
      /\ \A i \in 1 .. count - 1 : Append(Tail(Queue), e)[i] = Queue[i + 1]
      /\ Append(Tail(Queue), e)[count] = e
  BY <1>1, <1>6, AppendProperties
<1>8. ASSUME NEW i \in 1 .. count
      PROVE  Queue'[i] = Append(Tail(Queue), e)[i]
  <2>1. CASE i = count
    <3>1. At(i)' = head /\ head \in Slots  BY <1>1, <1>3, <2>1 DEF At, Slots
    <3>2. items'[head] = e  BY <1>1, <1>3, <3>1
    <3> QED  BY <1>3, <1>5, <1>7, <2>1, <3>1, <3>2
  <2>2. CASE i \in 1 .. count - 1
    <3>1. i + 1 \in 1 .. count  BY <1>1, <2>2
    <3>2. At(i)' = At(i + 1) /\ At(i + 1) # head
      BY <1>1, <1>3, <2>2 DEF At
    <3>3. items'[At(i + 1)] = items[At(i + 1)]
      BY <1>1, <1>3, <1>4, <3>1, <3>2
    <3> QED  BY <1>3, <1>4, <1>5, <1>7, <2>2, <3>1, <3>2, <3>3
  <2>3. i \in 1 .. count - 1 \/ i = count  BY <1>1
  <2> QED  BY <2>1, <2>2, <2>3
<1> QED  BY <1>1, <1>3, <1>4, <1>5, <1>7, <1>8, SeqEqual

(* The poppers inside a call, as the abstract queue sees them.              *)
Calling == {p \in Poppers : pc[p] # "idle"}

LEMMA CallingMoves ==
  ASSUME TypeOK, NEW p \in Poppers, NEW from, NEW to, Goto(p, from, to)
  PROVE  /\ from # "idle" /\ to # "idle" => Calling' = Calling
         /\ from # "idle" /\ to = "idle" =>
              p \in Calling /\ Calling' = Calling \ {p}
         /\ from = "idle" /\ to # "idle" =>
              p \notin Calling /\ Calling' = Calling \cup {p}
BY DEF TypeOK, Goto, Calling

LEMMA QueueKept == UNCHANGED ring => Queue' = Queue
BY DEF ring, Queue

LEMMA PushIsPush ==
  ASSUME TypeOK, TypeOK', RingInv, NEW e \in Events, Push(e)
  PROVE  Abstract!QPush(e)
<1>1. /\ ~closed /\ enqueued + dropped < MaxPushes
      /\ UNCHANGED <<closed, policy, canceled, result, dequeued>>
      /\ Calling' = Calling
  BY DEF Push, Calling
<1>2. CASE PushFits(e)
  <2>1. Abstract!PushFits(e)
    BY <1>2, QueuePushFits DEF Abstract!PushFits, PushFits, StoreAtTail
  <2> QED  BY <1>1, <2>1 DEF Abstract!QPush, Calling
<1>3. CASE PushEvicts(e)
  <2>1. Abstract!PushEvicts(e)
    BY <1>3, QueuePushEvicts DEF Abstract!PushEvicts, PushEvicts, StoreAtTail
  <2> QED  BY <1>1, <2>1 DEF Abstract!QPush, Calling
<1>4. CASE PushRefused
  <2>1. Len(Queue) = Capacity
    BY <1>4, QueueAt DEF PushRefused, QueueIs
  <2>2. Abstract!PushRefused
    BY <1>4, <2>1, QueueKept DEF Abstract!PushRefused, PushRefused
  <2> QED  BY <1>1, <2>2 DEF Abstract!QPush, Calling
<1> QED  BY <1>2, <1>3, <1>4 DEF Push

LEMMA TakeIsPop ==
  ASSUME TypeOK, TypeOK', NEW p \in Poppers,
         NEW from \in PopSteps \ {"idle"}, TakeHead(p, from)
  PROVE  Abstract!QPopEvent(p)
<1>1. Queue # <<>> /\ items[head] = Head(Queue) /\ Queue' = Tail(Queue)
  BY QueueTakeHead
<1>2. p \in Calling /\ Calling' = Calling \ {p}
  BY CallingMoves DEF TakeHead, Return
<1> QED  BY <1>1, <1>2
        DEF Abstract!QPopEvent, Abstract!Returns, TakeHead, Return, Calling

LEMMA ReturnIsPop ==
  ASSUME TypeOK, NEW p \in Poppers, NEW from \in PopSteps \ {"idle"}
  PROVE  /\ ReturnClosed(p, from) => Abstract!QPopClosed(p)
         /\ ReturnCanceled(p, from) => Abstract!QPopCanceled(p)
<1>1. ASSUME ReturnClosed(p, from) PROVE Abstract!QPopClosed(p)
  <2>1. Queue = <<>>  BY <1>1, QueueAt DEF ReturnClosed, QueueIs
  <2>2. p \in Calling /\ Calling' = Calling \ {p}
    BY <1>1, CallingMoves DEF ReturnClosed, Return
  <2> QED  BY <1>1, <2>1, <2>2, QueueKept
          DEF Abstract!QPopClosed, Abstract!Returns, Abstract!stats,
              ReturnClosed, Return, Calling, stats
<1>2. ASSUME ReturnCanceled(p, from) PROVE Abstract!QPopCanceled(p)
  <2>1. p \in Calling /\ Calling' = Calling \ {p}
    BY <1>2, CallingMoves DEF ReturnCanceled, Return
  <2> QED  BY <1>2, <2>1, QueueKept
          DEF Abstract!QPopCanceled, Abstract!Returns, Abstract!stats,
              ReturnCanceled, Return, Calling, stats
<1> QED  BY <1>1, <1>2

(* What does not show: a popper that goes on inside its call.               *)
LEMMA MovesIsStutter ==
  ASSUME TypeOK, NEW p \in Poppers, NEW from \in PopSteps \ {"idle"},
         NEW to \in PopSteps \ {"idle"},
         Moves(p, from, to) \/ (SelectSem(p) /\ from = "select" /\ to = "token")
  PROVE  UNCHANGED Abstract!qvars
<1>1. /\ Goto(p, from, to)
      /\ UNCHANGED <<ring, closed, policy, canceled, result, stats>>
  BY DEF Moves, SelectSem
<1>2. Queue' = Queue /\ Calling' = Calling
  BY <1>1, QueueKept, CallingMoves
<1> QED  BY <1>1, <1>2 DEF Abstract!qvars, Abstract!stats, stats, Calling

LEMMA PopIsPop ==
  ASSUME TypeOK, TypeOK', NEW p \in Poppers, PopStep(p)
  PROVE  \/ Abstract!QPopEvent(p) \/ Abstract!QPopClosed(p)
         \/ Abstract!QPopCanceled(p) \/ UNCHANGED Abstract!qvars
<1> USE DEF PopSteps
<1>1. CASE CheckCtx(p)
  BY <1>1, ReturnIsPop, MovesIsStutter DEF CheckCtx
<1>2. CASE FastPath(p)
  BY <1>2, TakeIsPop, ReturnIsPop, MovesIsStutter DEF FastPath
<1>3. CASE SelectCtxDone(p)   BY <1>3, ReturnIsPop DEF SelectCtxDone
<1>4. CASE SelectClosedCh(p)  BY <1>4, MovesIsStutter DEF SelectClosedCh
<1>5. CASE SelectSem(p)       BY <1>5, MovesIsStutter
<1>6. CASE DrainAfterClose(p)
  BY <1>6, TakeIsPop, ReturnIsPop DEF DrainAfterClose
<1>7. CASE UseToken(p)
  BY <1>7, TakeIsPop, ReturnIsPop, MovesIsStutter DEF UseToken
<1> QED BY <1>1, <1>2, <1>3, <1>4, <1>5, <1>6, <1>7 DEF PopStep

(* The ring, the mutex and the semaphore of queue.go are a bounded FIFO     *)
(* queue: whatever the interleaving of pushes, pops, cancels and the close, *)
(* callers see what OutboxQueue says.                                       *)
THEOREM OutboxImplementsQueue == Spec => Refinement
<1>1. Init => Abstract!QInit
  <2> SUFFICES ASSUME Init PROVE Abstract!QInit  OBVIOUS
  <2>1. Queue = <<>>
    <3>1. QueueIs /\ count = 0  BY TypeInit, QueueAt DEF Init
    <3> QED  BY <3>1 DEF QueueIs
  <2>2. {p \in Poppers : pc[p] # "idle"} = {}  BY DEF Init
  <2> QED  BY <2>1, <2>2 DEF Init, Abstract!QInit
<1>2. TypeOK /\ TypeOK' /\ RingInv /\ [Next]_vars => [Abstract!QNext]_(Abstract!qvars)
  <2> SUFFICES ASSUME TypeOK, TypeOK', RingInv, [Next]_vars
               PROVE  Abstract!QNext \/ UNCHANGED Abstract!qvars
    OBVIOUS
  <2>1. ASSUME NEW e \in Events, Push(e) PROVE Abstract!QNext
    BY <2>1, PushIsPush DEF Abstract!QNext
  <2>2. ASSUME NEW p \in Poppers, Call(p) PROVE Abstract!QNext
    <3>1. Abstract!QCall(p)
      <4>1. p \notin Calling /\ Calling' = Calling \cup {p} /\ Queue' = Queue
        BY <2>2, CallingMoves, QueueKept DEF Call, Moves
      <4> QED  BY <2>2, <4>1 DEF Call, Moves, Calling, stats,
               Abstract!QCall, Abstract!stats
    <3> QED  BY <3>1 DEF Abstract!QNext
  <2>3. ASSUME NEW p \in Poppers, PopStep(p)
        PROVE  Abstract!QNext \/ UNCHANGED Abstract!qvars
    BY <2>3, PopIsPop DEF Abstract!QNext
  <2>4. ASSUME NEW p \in Poppers, Cancel(p) PROVE Abstract!QNext
    <3>1. Abstract!QCancel({p})
      BY <2>4, QueueKept DEF Cancel, stats, Abstract!QCancel, Abstract!stats
    <3> QED  BY <3>1 DEF Abstract!QNext
  <2>5. CASE Close
    <3>1. Abstract!QClose
      BY <2>5, QueueKept DEF Close, stats, Abstract!QClose, Abstract!stats
    <3> QED  BY <3>1 DEF Abstract!QNext
  <2>6. CASE UNCHANGED vars
    BY <2>6, QueueKept DEF vars, stats, Abstract!qvars, Abstract!stats
  <2> QED BY <2>1, <2>2, <2>3, <2>4, <2>5, <2>6 DEF Next
<1> QED BY <1>1, <1>2, TypeCorrect, RingCorrect, RingInvEquiv, PTL
       DEF Spec, Refinement, Abstract!QSpec

=============================================================================
