------------------------- MODULE SubscribersProofs -------------------------
(***************************************************************************)
(* The live streams for every set of clients and every buffer size: the    *)
(* main loop never sends to a closed channel, and no channel is closed     *)
(* twice.  The invariant is the protocol between the map of subscribers,   *)
(* the channels and the read lock.                                         *)
(***************************************************************************)
EXTENDS Subscribers, SequenceTheorems, TLAPS

(* A channel is in the map, or closed, or not yet used; while a broadcast   *)
(* holds the read lock the channels it has still to visit stay in the map.  *)
ChannelProtocol ==
  /\ subs \cap chClosed = {}
  /\ \A c \in chClosed : handler[c] = "gone"
  /\ handler \in [Clients -> HandlerSteps]
  /\ PendingSubscribed
  /\ NoPanic

LEMMA MainInv ==
  ASSUME ChannelProtocol, MainStep
  PROVE  ChannelProtocol'
<1> USE DEF ChannelProtocol, PendingSubscribed, NoPanic
<1>1. CASE BroadcastBegin  BY <1>1 DEF BroadcastBegin
<1>2. ASSUME NEW c \in Clients, Send(c) PROVE ChannelProtocol'
  <2>1. c \notin chClosed  BY <1>2 DEF Send
  <2>2. panicked' = panicked  BY <1>2, <2>1 DEF Send
  <2>3. /\ pending' = pending \ {c}
        /\ UNCHANGED <<subs, chClosed, handler, broadcasting>>
    BY <1>2 DEF Send
  <2> QED BY <2>2, <2>3
<1>3. CASE BroadcastEnd  BY <1>3 DEF BroadcastEnd
<1> QED BY <1>1, <1>2, <1>3 DEF MainStep

(* A handler moves between two steps of its loop: only subscribe and        *)
(* unsubscribe touch the map, and they run without a broadcast.             *)
LEMMA HandlerInv ==
  ASSUME ChannelProtocol, NEW c \in Clients, HandlerStep(c)
  PROVE  ChannelProtocol'
<1> USE DEF ChannelProtocol, PendingSubscribed, NoPanic, HandlerSteps
<1>1. CASE Subscribe(c)
  BY <1>1 DEF Subscribe, WriteLock, bcast
<1>2. ASSUME NEW from \in HandlerSteps \ {"gone"}, NEW to \in HandlerSteps,
             handler[c] = from, handler' = [handler EXCEPT ![c] = to],
             UNCHANGED <<subs, chClosed, pending, broadcasting, panicked>>
      PROVE  ChannelProtocol'
  BY <1>2
<1>3. CASE SelectDone(c)    BY <1>2, <1>3 DEF SelectDone, bcast
<1>4. CASE Receive(c)       BY <1>2, <1>4 DEF Receive, bcast
<1>5. CASE WriteReaches(c)  BY <1>2, <1>5 DEF WriteReaches, bcast
<1>6. CASE WriteFails(c)    BY <1>2, <1>6 DEF WriteFails, bcast
<1>7. CASE Unsubscribe(c)
  <2>1. /\ handler[c] = "leave" /\ ~broadcasting /\ pending = {}
        /\ handler' = [handler EXCEPT ![c] = "gone"]
        /\ UNCHANGED <<pending, broadcasting>>
    BY <1>7 DEF Unsubscribe, WriteLock, bcast
  <2>2. CASE c \in subs
    <3>1. c \notin chClosed  BY <2>2
    <3>2. ~panicked'
      BY <1>7, <2>2, <3>1, Zenon DEF Unsubscribe
    <3>3. subs' = subs \ {c} /\ chClosed' = chClosed \cup {c}
      BY <1>7, <2>2 DEF Unsubscribe
    <3> QED BY <2>1, <3>2, <3>3
  <2>3. CASE c \notin subs
    <3>1. UNCHANGED <<subs, chClosed, panicked>>
      BY <1>7, <2>3 DEF Unsubscribe
    <3> QED BY <2>1, <3>1
  <2> QED BY <2>2, <2>3
<1> QED BY <1>1, <1>3, <1>4, <1>5, <1>6, <1>7 DEF HandlerStep

LEMMA ProtocolStep == ChannelProtocol /\ [Next]_vars => ChannelProtocol'
<1> SUFFICES ASSUME ChannelProtocol, [Next]_vars PROVE ChannelProtocol'
  OBVIOUS
<1>1. CASE MainStep  BY <1>1, MainInv
<1>2. ASSUME NEW c \in Clients, HandlerStep(c) PROVE ChannelProtocol'
  BY <1>2, HandlerInv
<1>3. ASSUME UNCHANGED <<subs, chClosed, handler, pending, broadcasting, panicked>>
      PROVE  ChannelProtocol'
  BY <1>3 DEF ChannelProtocol, PendingSubscribed, NoPanic
<1>4. CASE CancelCtx  BY <1>3, <1>4 DEF CancelCtx, bcast
<1>5. ASSUME NEW c \in Clients, HangUp(c) \/ Expire(c) PROVE ChannelProtocol'
  BY <1>3, <1>5 DEF HangUp, Expire, bcast
<1>6. CASE UNCHANGED vars  BY <1>3, <1>6 DEF vars, bcast
<1> QED BY <1>1, <1>2, <1>4, <1>5, <1>6 DEF Next

(* The protocol holds at all times.                                         *)
THEOREM ProtocolCorrect == Spec => []ChannelProtocol
<1>1. Init => ChannelProtocol
  BY DEF Init, ChannelProtocol, PendingSubscribed, NoPanic, HandlerSteps
<1> QED BY <1>1, ProtocolStep, PTL DEF Spec

(* The main loop never sends to a closed channel, and no handler closes a   *)
(* channel a second time.                                                   *)
THEOREM NoPanicCorrect == Spec => []NoPanic
<1>1. ChannelProtocol => NoPanic  BY DEF ChannelProtocol
<1> QED BY <1>1, ProtocolCorrect, PTL

-----------------------------------------------------------------------------
(* Sequences in ascending order.                                            *)
Ascending(s) == \A i, j \in 1 .. Len(s) : i < j => s[i] < s[j]
Has(s, e) == \E i \in 1 .. Len(s) : s[i] = e

LEMMA HasConcat ==
  ASSUME NEW s \in Seq(Nat), NEW t \in Seq(Nat), NEW e
  PROVE  Has(s \o t, e) <=> Has(s, e) \/ Has(t, e)
<1>1. /\ Len(s \o t) = Len(s) + Len(t) /\ Len(s) \in Nat /\ Len(t) \in Nat
      /\ \A i \in 1 .. Len(s) + Len(t) :
           (s \o t)[i] = IF i <= Len(s) THEN s[i] ELSE t[i - Len(s)]
  BY ConcatProperties, LenProperties
<1>2. ASSUME NEW i \in 1 .. Len(s \o t), (s \o t)[i] = e
      PROVE  Has(s, e) \/ Has(t, e)
  <2>1. CASE i <= Len(s)  BY <1>1, <1>2, <2>1 DEF Has
  <2>2. CASE ~(i <= Len(s))
    <3>1. i - Len(s) \in 1 .. Len(t) /\ t[i - Len(s)] = e
      BY <1>1, <1>2, <2>2
    <3> QED  BY <3>1 DEF Has
  <2> QED  BY <2>1, <2>2
<1>3. ASSUME NEW i \in 1 .. Len(s), s[i] = e PROVE Has(s \o t, e)
  <2>1. i \in 1 .. Len(s \o t) /\ (s \o t)[i] = e  BY <1>1, <1>3
  <2> QED  BY <2>1 DEF Has
<1>4. ASSUME NEW i \in 1 .. Len(t), t[i] = e PROVE Has(s \o t, e)
  <2>1. i + Len(s) \in 1 .. Len(s \o t) /\ (s \o t)[i + Len(s)] = e
    BY <1>1, <1>4
  <2> QED  BY <2>1 DEF Has
<1> QED  BY <1>2, <1>3, <1>4 DEF Has

(* An ascending concatenation has ascending parts, the one below the other. *)
LEMMA AscendingConcat ==
  ASSUME NEW s \in Seq(Nat), NEW t \in Seq(Nat)
  PROVE  Ascending(s \o t) <=>
           /\ Ascending(s) /\ Ascending(t)
           /\ \A i \in 1 .. Len(s), j \in 1 .. Len(t) : s[i] < t[j]
<1>1. /\ Len(s \o t) = Len(s) + Len(t) /\ Len(s) \in Nat /\ Len(t) \in Nat
      /\ \A i \in 1 .. Len(s) + Len(t) :
           (s \o t)[i] = IF i <= Len(s) THEN s[i] ELSE t[i - Len(s)]
  BY ConcatProperties, LenProperties
<1>2. ASSUME Ascending(s \o t)
      PROVE  /\ Ascending(s) /\ Ascending(t)
             /\ \A i \in 1 .. Len(s), j \in 1 .. Len(t) : s[i] < t[j]
  <2>1. ASSUME NEW i \in 1 .. Len(s), NEW j \in 1 .. Len(s), i < j
        PROVE  s[i] < s[j]
    <3>1. /\ i \in 1 .. Len(s \o t) /\ (s \o t)[i] = s[i]
          /\ j \in 1 .. Len(s \o t) /\ (s \o t)[j] = s[j]
      BY <1>1
    <3> QED  BY <1>2, <2>1, <3>1 DEF Ascending
  <2>2. ASSUME NEW j \in 1 .. Len(t)
        PROVE  /\ j + Len(s) \in 1 .. Len(s \o t)
               /\ (s \o t)[j + Len(s)] = t[j]
    BY <1>1
  <2>3. ASSUME NEW i \in 1 .. Len(t), NEW j \in 1 .. Len(t), i < j
        PROVE  t[i] < t[j]
    <3>1. i + Len(s) < j + Len(s)  BY <1>1, <2>3
    <3> QED  BY <1>2, <2>2, <3>1 DEF Ascending
  <2>4. ASSUME NEW i \in 1 .. Len(s), NEW j \in 1 .. Len(t) PROVE s[i] < t[j]
    <3>1. /\ i < j + Len(s) /\ i \in 1 .. Len(s \o t) /\ (s \o t)[i] = s[i]
      BY <1>1
    <3> QED  BY <1>2, <2>2, <3>1 DEF Ascending
  <2> QED  BY <2>1, <2>3, <2>4 DEF Ascending
<1>3. ASSUME Ascending(s), Ascending(t),
             \A i \in 1 .. Len(s), j \in 1 .. Len(t) : s[i] < t[j],
             NEW i \in 1 .. Len(s \o t), NEW j \in 1 .. Len(s \o t), i < j
      PROVE  (s \o t)[i] < (s \o t)[j]
  <2>1. CASE j <= Len(s)  BY <1>1, <1>3, <2>1 DEF Ascending
  <2>2. CASE i <= Len(s) /\ ~(j <= Len(s))
    <3>1. i \in 1 .. Len(s) /\ j - Len(s) \in 1 .. Len(t)  BY <1>1, <2>2
    <3>2. (s \o t)[i] = s[i] /\ (s \o t)[j] = t[j - Len(s)]  BY <1>1, <2>2
    <3> QED  BY <1>3, <3>1, <3>2
  <2>3. CASE ~(i <= Len(s)) /\ ~(j <= Len(s))
    <3>1. /\ i - Len(s) \in 1 .. Len(t) /\ j - Len(s) \in 1 .. Len(t)
          /\ i - Len(s) < j - Len(s)
      BY <1>1, <1>3, <2>3
    <3>2. /\ (s \o t)[i] = t[i - Len(s)] /\ (s \o t)[j] = t[j - Len(s)]
      BY <1>1, <2>3
    <3> QED  BY <1>3, <3>1, <3>2 DEF Ascending
  <2> QED  BY <1>1, <1>3, <2>1, <2>2, <2>3
<1> QED  BY <1>2, <1>3 DEF Ascending

LEMMA HasOne ==
  ASSUME NEW n \in Nat, NEW e
  PROVE  /\ <<n>> \in Seq(Nat) /\ Ascending(<<n>>)
         /\ Has(<<n>>, e) <=> e = n
BY DEF Ascending, Has

(* A larger number at the end keeps the order.                              *)
LEMMA AscendingAppend ==
  ASSUME NEW s \in Seq(Nat), NEW n \in Nat, Ascending(s),
         \A i \in 1 .. Len(s) : s[i] < n
  PROVE  Ascending(Append(s, n)) /\ \A e : Has(Append(s, n), e) <=> Has(s, e) \/ e = n
<1>1. Append(s, n) = s \o <<n>>  BY AppendIsConcat
<1>2. /\ <<n>> \in Seq(Nat) /\ Ascending(<<n>>)
      /\ Len(<<n>>) = 1 /\ <<n>>[1] = n
  BY HasOne
<1>3. Ascending(s \o <<n>>)
  <2>1. ASSUME NEW i \in 1 .. Len(s), NEW j \in 1 .. Len(<<n>>)
        PROVE  s[i] < <<n>>[j]
    <3>1. j = 1  BY <1>2
    <3> QED  BY <1>2, <3>1
  <2> QED  BY <1>2, <2>1, AscendingConcat
<1>4. ASSUME NEW e PROVE Has(s \o <<n>>, e) <=> Has(s, e) \/ e = n
  BY <1>2, HasConcat, HasOne
<1> QED  BY <1>1, <1>3, <1>4

(* A part in the middle that is lost leaves the rest in order.              *)
LEMMA AscendingLoses ==
  ASSUME NEW s \in Seq(Nat), NEW m \in Seq(Nat), NEW t \in Seq(Nat),
         Ascending((s \o m) \o t)
  PROVE  /\ Ascending(s \o t)
         /\ \A e : Has(s \o t, e) => Has((s \o m) \o t, e)
<1>1. s \o m \in Seq(Nat)  BY ConcatProperties
<1>2. /\ Ascending(s \o m) /\ Ascending(t)
      /\ \A i \in 1 .. Len(s \o m), j \in 1 .. Len(t) : (s \o m)[i] < t[j]
  BY <1>1, AscendingConcat
<1>3. Ascending(s)  BY <1>2, AscendingConcat
<1>4. ASSUME NEW i \in 1 .. Len(s), NEW j \in 1 .. Len(t) PROVE s[i] < t[j]
  <2>1. i \in 1 .. Len(s \o m) /\ (s \o m)[i] = s[i]
    BY ConcatProperties, LenProperties
  <2> QED  BY <1>2, <2>1
<1>5. ASSUME NEW e, Has(s \o t, e) PROVE Has((s \o m) \o t, e)
  BY <1>1, <1>5, HasConcat
<1> QED  BY <1>2, <1>3, <1>4, <1>5, AscendingConcat

-----------------------------------------------------------------------------
(* The event a handler holds is between what its client has and what is in  *)
(* the channel.  A broadcast has not yet sent its event to the channels it  *)
(* has still to visit: Sofar is the last event sent to c, or to nobody.     *)
Mid(c) == IF handler[c] = "write" THEN <<writing[c]>> ELSE <<>>
Sofar(c) == IF c \in pending THEN event - 1 ELSE event

StreamTypes ==
  /\ subs \in SUBSET Clients /\ chClosed \in SUBSET Clients
  /\ buffer \in [Clients -> Seq(Nat)] /\ reached \in [Clients -> Seq(Nat)]
  /\ missed \in [Clients -> SUBSET Nat] /\ writing \in [Clients -> Nat]
  /\ handler \in [Clients -> HandlerSteps]
  /\ connected \in SUBSET Clients
  /\ expired \in SUBSET SSEClients /\ reqDone \in SUBSET SSEClients
  /\ ctxDone \in BOOLEAN /\ broadcasting \in BOOLEAN /\ panicked \in BOOLEAN
  /\ event \in 0 .. MaxEvents /\ pending \in SUBSET Clients
  /\ broadcasting => event > 0

Within(c) ==
  /\ \A e : Has(Stream(c), e) => e \in 1 .. Sofar(c)
  /\ Len(buffer[c]) <= BufferSize
  /\ writing[c] <= event /\ missed[c] \subseteq 1 .. event

(* A client has its channel in the map from subscribe to unsubscribe, and   *)
(* gets nothing before.                                                     *)
Place(c) ==
  /\ handler[c] = "start" => buffer[c] = <<>> /\ reached[c] = <<>>
  /\ c \in subs <=> handler[c] \in {"select", "write", "leave"}

Listening(c) == c \in subs \ reqDone /\ handler[c] # "leave"

(* From the first event in the stream on, every event so far is in it or    *)
(* was dropped.                                                             *)
NothingLost(c) ==
  Listening(c) =>
    \A e \in 1 .. Sofar(c) :
      (\E d \in 1 .. e : Has(Stream(c), d)) => Has(Stream(c), e) \/ e \in missed[c]

ClientInv(c) ==
  Ascending(Stream(c)) /\ Within(c) /\ Place(c) /\ NothingLost(c)

StreamInv == ChannelProtocol /\ StreamTypes /\ \A c \in Clients : ClientInv(c)

LEMMA StreamIs ==
  StreamTypes =>
    \A c \in Clients : /\ Stream(c) = (reached[c] \o Mid(c)) \o buffer[c]
                       /\ Mid(c) \in Seq(Nat) /\ Stream(c) \in Seq(Nat)
<1> SUFFICES ASSUME StreamTypes, NEW c \in Clients
             PROVE  /\ Stream(c) = (reached[c] \o Mid(c)) \o buffer[c]
                    /\ Mid(c) \in Seq(Nat) /\ Stream(c) \in Seq(Nat)
  OBVIOUS
<1>1. Stream(c) = (reached[c] \o Mid(c)) \o buffer[c]  BY DEF Stream, Mid
<1>2. /\ reached[c] \in Seq(Nat) /\ buffer[c] \in Seq(Nat) /\ writing[c] \in Nat
  BY DEF StreamTypes
<1>3. Mid(c) \in Seq(Nat)  BY <1>2 DEF Mid
<1>4. reached[c] \o Mid(c) \in Seq(Nat)  BY <1>2, <1>3, ConcatProperties
<1>5. Stream(c) \in Seq(Nat)  BY <1>1, <1>2, <1>4, ConcatProperties
<1> QED  BY <1>1, <1>3, <1>5

(* The types of the variables.                                              *)
LEMMA MainTypes ==
  ASSUME StreamTypes, PendingSubscribed, MainStep \/ CancelCtx
  PROVE  StreamTypes'
<1> USE SubscribersAssumption DEF StreamTypes, Clients, HandlerSteps
<1>1. CASE BroadcastBegin  BY <1>1 DEF BroadcastBegin, clientEnv
<1>2. ASSUME NEW c \in Clients, Send(c) PROVE StreamTypes'
  <2>1. /\ UNCHANGED <<subs, chClosed, handler, writing, clientEnv, reqDone,
                       ctxDone, event, broadcasting>>
        /\ pending' = pending \ {c}
    BY <1>2 DEF Send
  <2>2. buffer' \in [Clients -> Seq(Nat)] /\ missed' \in [Clients -> SUBSET Nat]
    <3>1. event \in Nat /\ buffer[c] \in Seq(Nat) /\ missed[c] \in SUBSET Nat
      BY <1>2
    <3>2. Append(buffer[c], event) \in Seq(Nat)  BY <3>1
    <3>3. \/ buffer' = buffer
          \/ buffer' = [buffer EXCEPT ![c] = Append(buffer[c], event)]
      BY <1>2 DEF Send
    <3>4. \/ missed' = missed
          \/ missed' = [missed EXCEPT ![c] = missed[c] \cup {event}]
      BY <1>2 DEF Send
    <3>5. buffer' \in [Clients -> Seq(Nat)]  BY <3>2, <3>3
    <3>6. missed[c] \cup {event} \in SUBSET Nat  BY <3>1
    <3>7. missed' \in [Clients -> SUBSET Nat]  BY <3>4, <3>6
    <3> QED  BY <3>5, <3>7
  <2>3. panicked' \in BOOLEAN
    <3>1. panicked' = TRUE \/ panicked' = panicked  BY <1>2 DEF Send
    <3> QED  BY <3>1
  <2> QED  BY <2>1, <2>2, <2>3 DEF clientEnv
<1>3. CASE BroadcastEnd  BY <1>3 DEF BroadcastEnd, clientEnv
<1>4. CASE CancelCtx     BY <1>4 DEF CancelCtx, clientEnv, bcast
<1> QED  BY <1>1, <1>2, <1>3, <1>4 DEF MainStep

LEMMA ClientTypes ==
  ASSUME StreamTypes, NEW c \in Clients, HandlerStep(c) \/ HangUp(c) \/ Expire(c)
  PROVE  StreamTypes'
<1> USE DEF StreamTypes, Clients, HandlerSteps, clientEnv, bcast
<1>1. CASE Subscribe(c)     BY <1>1 DEF Subscribe
<1>2. CASE SelectDone(c)    BY <1>2 DEF SelectDone
<1>3. CASE Receive(c)
  <2>1. buffer[c] \in Seq(Nat) /\ buffer[c] # <<>>  BY <1>3 DEF Receive
  <2>2. Head(buffer[c]) \in Nat /\ Tail(buffer[c]) \in Seq(Nat)
    BY <2>1, HeadTailProperties
  <2> QED  BY <1>3, <2>2 DEF Receive
<1>4. CASE WriteReaches(c)
  <2>1. Append(reached[c], writing[c]) \in Seq(Nat)  OBVIOUS
  <2> QED  BY <1>4, <2>1 DEF WriteReaches
<1>5. CASE WriteFails(c)    BY <1>5 DEF WriteFails
<1>6. CASE Unsubscribe(c)   BY <1>6 DEF Unsubscribe
<1>7. CASE HangUp(c)        BY <1>7 DEF HangUp
<1>8. CASE Expire(c)        BY <1>8 DEF Expire
<1> QED  BY <1>1, <1>2, <1>3, <1>4, <1>5, <1>6, <1>7, <1>8 DEF HandlerStep

(* A client stays as it is while other clients and the main loop move, up   *)
(* to a broadcast that begins without it.                                   *)
LEMMA ClientStays ==
  ASSUME StreamTypes, StreamTypes', NEW x \in Clients, ClientInv(x),
         handler'[x] = handler[x], buffer'[x] = buffer[x],
         reached'[x] = reached[x], writing'[x] = writing[x],
         missed'[x] = missed[x], x \in subs' <=> x \in subs,
         reqDone \subseteq reqDone', event <= event',
         Sofar(x) <= Sofar(x)', x \in subs => Sofar(x)' = Sofar(x)
  PROVE  ClientInv(x)'
<1>1. Stream(x)' = Stream(x)  BY DEF Stream
<1>2. /\ event \in Int /\ event' \in Int /\ Sofar(x) \in Int /\ Sofar(x)' \in Int
      /\ writing[x] \in Int
  BY DEF StreamTypes, Sofar
<1>3. Ascending(Stream(x))'  BY <1>1 DEF ClientInv, Ascending
<1>4. Within(x)'
  <2>1. ASSUME NEW e, Has(Stream(x)', e) PROVE e \in 1 .. Sofar(x)'
    <3>1. e \in 1 .. Sofar(x)  BY <1>1, <2>1 DEF ClientInv, Within
    <3> QED  BY <1>2, <3>1
  <2>2. writing'[x] <= event'  BY <1>2 DEF ClientInv, Within
  <2>3. missed'[x] \subseteq 1 .. event'  BY <1>2 DEF ClientInv, Within
  <2>4. Len(buffer'[x]) <= BufferSize  BY DEF ClientInv, Within
  <2> QED  BY <2>1, <2>2, <2>3, <2>4 DEF Within, Has
<1>5. Place(x)'  BY DEF ClientInv, Place
<1>6. NothingLost(x)'
  <2>1. CASE ~Listening(x)'  BY <2>1 DEF NothingLost
  <2>2. CASE Listening(x)'
    <3>1. Listening(x) /\ Sofar(x)' = Sofar(x)  BY <2>2 DEF Listening
    <3> QED  BY <1>1, <3>1 DEF ClientInv, NothingLost, Has
  <2> QED  BY <2>1, <2>2
<1> QED  BY <1>3, <1>4, <1>5, <1>6 DEF ClientInv

(* A client whose handler moves gets nothing new, and keeps the stream it   *)
(* has unless it no longer listens.                                         *)
LEMMA ClientGoesOn ==
  ASSUME StreamTypes, StreamTypes', NEW x \in Clients, ClientInv(x),
         Ascending(Stream(x)'),
         \A e : Has(Stream(x)', e) => Has(Stream(x), e),
         Len(buffer'[x]) <= BufferSize, writing'[x] <= event,
         Sofar(x)' = Sofar(x), event' = event, missed'[x] = missed[x],
         Place(x)',
         Listening(x)' => \/ Listening(x) /\ Stream(x)' = Stream(x)
                          \/ Stream(x)' = <<>>
  PROVE  ClientInv(x)'
<1>1. Ascending(Stream(x))'  BY DEF Ascending
<1>2. Within(x)'
  <2>1. ASSUME NEW e, Has(Stream(x)', e) PROVE e \in 1 .. Sofar(x)'
    BY <2>1 DEF ClientInv, Within
  <2>2. missed'[x] \subseteq 1 .. event'  BY DEF ClientInv, Within
  <2> QED  BY <2>1, <2>2 DEF Within, Has
<1>3. NothingLost(x)'
  <2>1. CASE ~Listening(x)'  BY <2>1 DEF NothingLost
  <2>2. CASE Listening(x) /\ Stream(x)' = Stream(x)
    BY <2>2 DEF ClientInv, NothingLost, Has
  <2>3. CASE Stream(x)' = <<>>
    <3>1. ASSUME NEW e PROVE ~Has(Stream(x)', e)  BY <2>3 DEF Has
    <3> QED  BY <3>1 DEF NothingLost, Has
  <2> QED  BY <2>1, <2>2, <2>3
<1> QED  BY <1>1, <1>2, <1>3 DEF ClientInv

(* The three ways of a stream: an event that leaves the channel for the     *)
(* handler, and the handler for the client, keeps its place; an event is    *)
(* sent to the end.                                                         *)
LEMMA StreamShifts ==
  ASSUME NEW r \in Seq(Nat), NEW b \in Seq(Nat), b # <<>>
  PROVE  (r \o <<>>) \o b = (r \o <<Head(b)>>) \o Tail(b)
<1>1. /\ Head(b) \in Nat /\ Tail(b) \in Seq(Nat) /\ Len(Tail(b)) = Len(b) - 1
      /\ \A i \in 1 .. Len(Tail(b)) : Tail(b)[i] = b[i + 1]
      /\ Len(b) \in Nat /\ Len(b) # 0 /\ Head(b) = b[1]
  BY HeadTailProperties, LenProperties, EmptySeq
<1>2. <<Head(b)>> \in Seq(Nat) /\ Len(<<Head(b)>>) = 1 /\ <<Head(b)>>[1] = Head(b)
  BY <1>1
<1>3. b = <<Head(b)>> \o Tail(b)
  <2>1. /\ <<Head(b)>> \o Tail(b) \in Seq(Nat)
        /\ Len(<<Head(b)>> \o Tail(b)) = Len(b)
        /\ \A i \in 1 .. Len(b) : (<<Head(b)>> \o Tail(b))[i] =
             IF i <= 1 THEN <<Head(b)>>[i] ELSE Tail(b)[i - 1]
    BY <1>1, <1>2, ConcatProperties
  <2>2. ASSUME NEW i \in 1 .. Len(b) PROVE b[i] = (<<Head(b)>> \o Tail(b))[i]
    <3>1. CASE i = 1  BY <1>1, <1>2, <2>1, <3>1
    <3>2. CASE i # 1
      <4>1. i - 1 \in 1 .. Len(Tail(b)) /\ ~(i <= 1) /\ (i - 1) + 1 = i
        BY <1>1, <3>2
      <4> QED  BY <1>1, <2>1, <4>1
    <3> QED  BY <3>1, <3>2
  <2> QED  BY <2>1, <2>2, SeqEqual
<1>4. (r \o <<Head(b)>>) \o Tail(b) = r \o (<<Head(b)>> \o Tail(b))
  BY <1>1, <1>2, ConcatAssociative
<1> QED  BY <1>3, <1>4, ConcatEmptySeq

LEMMA StreamReaches ==
  ASSUME NEW r \in Seq(Nat), NEW n \in Nat, NEW b \in Seq(Nat)
  PROVE  (r \o <<n>>) \o b = (Append(r, n) \o <<>>) \o b
<1>1. Append(r, n) = r \o <<n>> /\ Append(r, n) \in Seq(Nat)
  BY AppendIsConcat, AppendProperties
<1> QED  BY <1>1, ConcatEmptySeq

LEMMA StreamGrows ==
  ASSUME NEW s \in Seq(Nat), NEW b \in Seq(Nat), NEW n \in Nat
  PROVE  s \o Append(b, n) = Append(s \o b, n)
<1>1. <<n>> \in Seq(Nat) /\ s \o b \in Seq(Nat)  BY ConcatProperties
<1>2. Append(b, n) = b \o <<n>> /\ Append(s \o b, n) = (s \o b) \o <<n>>
  BY <1>1, AppendIsConcat
<1> QED  BY <1>1, <1>2, ConcatAssociative

-----------------------------------------------------------------------------
(* The main loop.                                                           *)
LEMMA BeginClient ==
  ASSUME StreamInv, StreamTypes', BroadcastBegin, NEW x \in Clients
  PROVE  ClientInv(x)'
<1>1. /\ pending = {} /\ pending' = subs /\ event' = event + 1 /\ event \in Int
      /\ subs' = subs /\ handler' = handler /\ buffer' = buffer
      /\ reached' = reached /\ writing' = writing /\ missed' = missed
      /\ reqDone' = reqDone
  BY DEF StreamInv, ChannelProtocol, PendingSubscribed, StreamTypes,
         BroadcastBegin, clientEnv
<1>2. Sofar(x) <= Sofar(x)' /\ (x \in subs => Sofar(x)' = Sofar(x))
  BY <1>1 DEF Sofar
<1>3. event <= event'  BY <1>1
<1> QED  BY <1>1, <1>2, <1>3, ClientStays DEF StreamInv

LEMMA SendClient ==
  ASSUME StreamInv, StreamTypes', NEW c \in Clients, Send(c), NEW x \in Clients
  PROVE  ClientInv(x)'
<1>1. /\ c \in pending /\ c \notin chClosed /\ pending' = pending \ {c}
      /\ c \in subs /\ event \in Int /\ event > 0
      /\ subs' = subs /\ handler' = handler /\ reached' = reached
      /\ writing' = writing /\ reqDone' = reqDone /\ event' = event
  BY DEF StreamInv, ChannelProtocol, PendingSubscribed, StreamTypes, Send,
         clientEnv
<1>2. CASE x # c
  <2>1. buffer'[x] = buffer[x] /\ missed'[x] = missed[x]
    BY <1>1, <1>2 DEF Send, StreamInv, StreamTypes
  <2>2. Sofar(x)' = Sofar(x) /\ Sofar(x) \in Int  BY <1>1, <1>2 DEF Sofar
  <2>3. Sofar(x) <= Sofar(x)' /\ event <= event'  BY <1>1, <2>2
  <2> QED  BY <1>1, <2>1, <2>2, <2>3, ClientStays DEF StreamInv
<1>3. CASE x = c /\ Len(buffer[c]) < BufferSize
  <2>1. /\ Sofar(c) = event - 1 /\ Sofar(c)' = event  BY <1>1 DEF Sofar
  <2>2. /\ buffer' = [buffer EXCEPT ![c] = Append(@, event)] /\ missed' = missed
    BY <1>1, <1>3 DEF Send
  <2>3. /\ buffer[c] \in Seq(Nat) /\ buffer'[c] = Append(buffer[c], event)
        /\ event \in Nat
    BY <2>2 DEF StreamInv, StreamTypes
  <2>4. Stream(c)' = Append(Stream(c), event)
    <3>1. /\ Mid(c) \in Seq(Nat) /\ reached[c] \in Seq(Nat)
          /\ Stream(c) = (reached[c] \o Mid(c)) \o buffer[c]
      BY StreamIs DEF StreamInv, StreamTypes
    <3>2. Stream(c)' = (reached[c] \o Mid(c)) \o Append(buffer[c], event)
      BY <1>1, <2>3 DEF Stream, Mid
    <3>3. reached[c] \o Mid(c) \in Seq(Nat)  BY <3>1, ConcatProperties
    <3>4. (reached[c] \o Mid(c)) \o Append(buffer[c], event)
            = Append((reached[c] \o Mid(c)) \o buffer[c], event)
      BY <2>3, <3>3, StreamGrows
    <3> QED  BY <3>1, <3>2, <3>4
  <2>5. Stream(c) \in Seq(Nat)  BY StreamIs DEF StreamInv
  <2>6. ClientInv(c)  BY DEF StreamInv
  <2>7. ASSUME NEW i \in 1 .. Len(Stream(c)) PROVE Stream(c)[i] < event
    <3>1. Stream(c)[i] \in 1 .. Sofar(c)
      BY <2>6 DEF ClientInv, Within, Has
    <3> QED  BY <1>1, <2>1, <3>1
  <2>8. /\ Ascending(Stream(c)')
        /\ \A e : Has(Stream(c)', e) <=> Has(Stream(c), e) \/ e = event
    BY <2>3, <2>4, <2>5, <2>6, <2>7, AscendingAppend DEF ClientInv
  <2>9. Within(c)'
    <3>1. ASSUME NEW e, Has(Stream(c)', e) PROVE e \in 1 .. Sofar(c)'
      <4>1. e \in 1 .. event - 1 \/ e = event
        BY <2>1, <2>6, <2>8, <3>1 DEF ClientInv, Within
      <4> QED  BY <1>1, <2>1, <4>1
    <3>2. Len(buffer'[c]) <= BufferSize
      BY <1>3, <2>3, LenProperties, AppendProperties, SubscribersAssumption
    <3>3. writing'[c] <= event' /\ missed'[c] \subseteq 1 .. event'
      BY <1>1, <2>2, <2>6 DEF ClientInv, Within
    <3> QED  BY <3>1, <3>2, <3>3 DEF Within, Has
  <2>10. Place(c)'
    <3>1. handler[c] # "start"  BY <1>1, <2>6 DEF ClientInv, Place
    <3> QED  BY <1>1, <2>6, <3>1 DEF ClientInv, Place
  <2>11. NothingLost(c)'
    <3> SUFFICES ASSUME Listening(c)', NEW e \in 1 .. event,
                        NEW d \in 1 .. e, Has(Stream(c)', d)
                 PROVE  Has(Stream(c)', e) \/ e \in missed'[c]
      BY <2>1 DEF NothingLost, Has
    <3>1. CASE e = event  BY <2>8, <3>1
    <3>2. CASE e # event
      <4>1. e \in 1 .. Sofar(c) /\ d # event  BY <1>1, <2>1, <3>2
      <4>2. Has(Stream(c), d)  BY <2>8, <4>1
      <4>3. Listening(c)  BY <1>1 DEF Listening
      <4>4. Has(Stream(c), e) \/ e \in missed[c]
        BY <2>6, <4>1, <4>2, <4>3 DEF ClientInv, NothingLost
      <4> QED  BY <2>2, <2>8, <4>4
    <3> QED  BY <3>1, <3>2
  <2>12. Ascending(Stream(c))'  BY <2>8 DEF Ascending
  <2> QED  BY <1>3, <2>9, <2>10, <2>11, <2>12 DEF ClientInv
<1>4. CASE x = c /\ ~(Len(buffer[c]) < BufferSize)
  <2>1. /\ Sofar(c) = event - 1 /\ Sofar(c)' = event  BY <1>1 DEF Sofar
  <2>2. /\ buffer' = buffer /\ missed' = [missed EXCEPT ![c] = @ \cup {event}]
    BY <1>1, <1>4 DEF Send
  <2>3. missed'[c] = missed[c] \cup {event}
    BY <2>2 DEF StreamInv, StreamTypes
  <2>4. Stream(c)' = Stream(c)  BY <1>1, <2>2 DEF Stream
  <2>5. ClientInv(c)  BY DEF StreamInv
  <2>6. Ascending(Stream(c))'  BY <2>4, <2>5 DEF ClientInv, Ascending
  <2>7. Within(c)'
    <3>1. ASSUME NEW e, Has(Stream(c)', e) PROVE e \in 1 .. Sofar(c)'
      <4>1. e \in 1 .. event - 1
        BY <2>1, <2>4, <2>5, <3>1 DEF ClientInv, Within
      <4> QED  BY <1>1, <2>1, <4>1
    <3>2. event \in 1 .. event  BY <1>1
    <3> QED  BY <1>1, <2>2, <2>3, <2>5, <3>1, <3>2 DEF ClientInv, Within, Has
  <2>8. Place(c)'  BY <1>1, <2>2, <2>5 DEF ClientInv, Place
  <2>9. NothingLost(c)'
    <3> SUFFICES ASSUME Listening(c)', NEW e \in 1 .. event,
                        NEW d \in 1 .. e, Has(Stream(c), d)
                 PROVE  Has(Stream(c), e) \/ e \in missed'[c]
      BY <2>1, <2>4 DEF NothingLost, Has
    <3>1. CASE e = event  BY <2>3, <3>1
    <3>2. CASE e # event
      <4>1. e \in 1 .. Sofar(c)  BY <1>1, <2>1, <3>2
      <4>2. Listening(c)  BY <1>1 DEF Listening
      <4>3. Has(Stream(c), e) \/ e \in missed[c]
        BY <2>5, <4>1, <4>2 DEF ClientInv, NothingLost
      <4> QED  BY <2>3, <4>3
    <3> QED  BY <3>1, <3>2
  <2> QED  BY <1>4, <2>6, <2>7, <2>8, <2>9 DEF ClientInv
<1> QED  BY <1>2, <1>3, <1>4

LEMMA EndClient ==
  ASSUME StreamInv, StreamTypes', BroadcastEnd \/ CancelCtx, NEW x \in Clients
  PROVE  ClientInv(x)'
<1>1. /\ UNCHANGED <<pending, event, subs, handler, buffer, reached, writing,
                     missed, reqDone>>
  BY DEF BroadcastEnd, CancelCtx, clientEnv, bcast
<1>2. /\ Sofar(x)' = Sofar(x) /\ Sofar(x) \in Int /\ event \in Int
  BY <1>1 DEF Sofar, StreamInv, StreamTypes
<1>3. Sofar(x) <= Sofar(x)' /\ event <= event'  BY <1>1, <1>2
<1> QED  BY <1>1, <1>2, <1>3, ClientStays DEF StreamInv

-----------------------------------------------------------------------------
(* The handlers and the clients.                                            *)

(* A handler moves on, and what its client and its channel have stays.      *)
LEMMA HandlerGoesOn ==
  ASSUME StreamInv, StreamTypes', NEW c \in Clients,
         handler[c] # "write", handler'[c] # "write",
         UNCHANGED <<buffer, reached, writing, missed, event, pending>>,
         Place(c)', Listening(c)' => Listening(c) \/ Stream(c) = <<>>
  PROVE  ClientInv(c)'
<1>1. Stream(c)' = Stream(c)  BY DEF Stream
<1>2. ClientInv(c)  BY DEF StreamInv
<1>3. Ascending(Stream(c)')  BY <1>1, <1>2 DEF ClientInv, Ascending
<1>4. Sofar(c)' = Sofar(c)  BY DEF Sofar
<1>5. Len(buffer'[c]) <= BufferSize /\ writing'[c] <= event
  BY <1>2 DEF ClientInv, Within
<1>6. \A e : Has(Stream(c)', e) => Has(Stream(c), e)  BY <1>1
<1>7. /\ event' = event /\ missed'[c] = missed[c]
      /\ Listening(c)' => \/ Listening(c) /\ Stream(c)' = Stream(c)
                          \/ Stream(c)' = <<>>
  BY <1>1
<1> QED  BY <1>2, <1>3, <1>4, <1>5, <1>6, <1>7, ClientGoesOn DEF StreamInv

LEMMA SubscribeClient ==
  ASSUME StreamInv, StreamTypes', NEW c \in Clients, Subscribe(c)
  PROVE  ClientInv(c)'
<1>1. /\ handler[c] = "start" /\ subs' = subs \cup {c}
      /\ handler' = [handler EXCEPT ![c] = "select"]
      /\ UNCHANGED <<buffer, reached, writing, missed, event, pending>>
  BY DEF Subscribe, clientEnv, bcast
<1>2. handler'[c] = "select"  BY <1>1 DEF StreamInv, StreamTypes
<1>3. ClientInv(c)  BY DEF StreamInv
<1>4. buffer[c] = <<>> /\ reached[c] = <<>>  BY <1>1, <1>3 DEF ClientInv, Place
<1>5. Stream(c) = <<>>
  <2>1. Stream(c) = (<<>> \o <<>>) \o <<>>  BY <1>1, <1>4 DEF Stream
  <2>2. <<>> \in Seq(Nat)  BY EmptySeq
  <2> QED  BY <2>1, <2>2, ConcatEmptySeq
<1>6. Place(c)'  BY <1>1, <1>2, <1>4 DEF Place
<1> QED  BY <1>1, <1>2, <1>5, <1>6, HandlerGoesOn

LEMMA SelectDoneClient ==
  ASSUME StreamInv, StreamTypes', NEW c \in Clients, SelectDone(c)
  PROVE  ClientInv(c)'
<1>1. /\ handler[c] = "select" /\ subs' = subs
      /\ handler' = [handler EXCEPT ![c] = "leave"]
      /\ UNCHANGED <<buffer, reached, writing, missed, event, pending>>
  BY DEF SelectDone, clientEnv, bcast
<1>2. handler'[c] = "leave"  BY <1>1 DEF StreamInv, StreamTypes
<1>3. ClientInv(c)  BY DEF StreamInv
<1>4. Place(c)' /\ ~Listening(c)'
  BY <1>1, <1>2, <1>3 DEF ClientInv, Place, Listening
<1> QED  BY <1>1, <1>2, <1>4, HandlerGoesOn

LEMMA UnsubscribeClient ==
  ASSUME StreamInv, StreamTypes', NEW c \in Clients, Unsubscribe(c)
  PROVE  ClientInv(c)'
<1>1. /\ handler[c] = "leave" /\ c \notin subs'
      /\ handler' = [handler EXCEPT ![c] = "gone"]
      /\ UNCHANGED <<buffer, reached, writing, missed, event, pending>>
  BY DEF Unsubscribe, clientEnv, bcast
<1>2. handler'[c] = "gone"  BY <1>1 DEF StreamInv, StreamTypes
<1>3. Place(c)' /\ ~Listening(c)'
  BY <1>1, <1>2 DEF Place, Listening
<1> QED  BY <1>1, <1>2, <1>3, HandlerGoesOn

LEMMA ReceiveClient ==
  ASSUME StreamInv, StreamTypes', NEW c \in Clients, Receive(c)
  PROVE  ClientInv(c)'
<1>1. /\ handler[c] = "select" /\ buffer[c] # <<>>
      /\ writing' = [writing EXCEPT ![c] = Head(buffer[c])]
      /\ buffer' = [buffer EXCEPT ![c] = Tail(@)]
      /\ handler' = [handler EXCEPT ![c] = "write"]
      /\ UNCHANGED <<subs, reached, reqDone, missed, event, pending>>
  BY DEF Receive, clientEnv, bcast
<1>2. /\ handler'[c] = "write" /\ buffer'[c] = Tail(buffer[c])
      /\ writing'[c] = Head(buffer[c]) /\ reached'[c] = reached[c]
      /\ buffer[c] \in Seq(Nat) /\ reached[c] \in Seq(Nat) /\ event \in Int
  BY <1>1 DEF StreamInv, StreamTypes
<1>3. ClientInv(c)  BY DEF StreamInv
<1>4. Stream(c)' = Stream(c)
  <2>1. Stream(c) = (reached[c] \o <<>>) \o buffer[c]  BY <1>1 DEF Stream
  <2>2. Stream(c)' = (reached[c] \o <<Head(buffer[c])>>) \o Tail(buffer[c])
    BY <1>2 DEF Stream
  <2> QED  BY <1>1, <1>2, <2>1, <2>2, StreamShifts
<1>5. Ascending(Stream(c)')  BY <1>3, <1>4 DEF ClientInv, Ascending
<1>6. Sofar(c)' = Sofar(c)  BY <1>1 DEF Sofar
<1>7. /\ Len(buffer[c]) \in Nat /\ Len(buffer[c]) <= BufferSize
      /\ Len(buffer[c]) # 0 /\ buffer[c][1] = Head(buffer[c])
      /\ Len(buffer'[c]) = Len(buffer[c]) - 1
  <2>1. Len(buffer[c]) \in Nat /\ Len(buffer[c]) # 0
    BY <1>1, <1>2, LenProperties, EmptySeq
  <2>2. Len(buffer[c]) <= BufferSize  BY <1>3 DEF ClientInv, Within
  <2>3. Len(Tail(buffer[c])) = Len(buffer[c]) - 1
    BY <1>1, <1>2, HeadTailProperties
  <2>4. buffer[c][1] = Head(buffer[c])  BY <1>1, <1>2
  <2> QED  BY <1>2, <2>1, <2>2, <2>3, <2>4
<1>8. Len(buffer'[c]) <= BufferSize  BY <1>7, SubscribersAssumption
<1>9. writing'[c] <= event
  <2>1. Has(buffer[c], Head(buffer[c]))  BY <1>7 DEF Has
  <2>2. /\ Stream(c) = (reached[c] \o Mid(c)) \o buffer[c]
        /\ reached[c] \o Mid(c) \in Seq(Nat)
    BY <1>2, StreamIs, ConcatProperties DEF StreamInv
  <2>3. Has((reached[c] \o Mid(c)) \o buffer[c], Head(buffer[c]))
    BY <1>2, <2>1, <2>2, HasConcat
  <2>4. Head(buffer[c]) \in 1 .. Sofar(c)
    BY <1>3, <2>2, <2>3 DEF ClientInv, Within
  <2>5. Sofar(c) <= event /\ Sofar(c) \in Int  BY <1>2 DEF Sofar
  <2> QED  BY <1>2, <2>4, <2>5
<1>10. Place(c)'  BY <1>1, <1>2, <1>3 DEF ClientInv, Place
<1>11. /\ \A e : Has(Stream(c)', e) => Has(Stream(c), e)
       /\ event' = event /\ missed'[c] = missed[c]
       /\ Listening(c)' => Listening(c) /\ Stream(c)' = Stream(c)
  BY <1>1, <1>2, <1>4 DEF Listening
<1> QED
  BY <1>3, <1>5, <1>6, <1>8, <1>9, <1>10, <1>11, ClientGoesOn DEF StreamInv

LEMMA WriteReachesClient ==
  ASSUME StreamInv, StreamTypes', NEW c \in Clients, WriteReaches(c)
  PROVE  ClientInv(c)'
<1>1. /\ handler[c] = "write"
      /\ reached' = [reached EXCEPT ![c] = Append(@, writing[c])]
      /\ handler' = [handler EXCEPT ![c] = "select"]
      /\ UNCHANGED <<subs, buffer, writing, reqDone, missed, event, pending>>
  BY DEF WriteReaches, bcast
<1>2. /\ handler'[c] = "select" /\ buffer'[c] = buffer[c]
      /\ reached'[c] = Append(reached[c], writing[c])
      /\ buffer[c] \in Seq(Nat) /\ reached[c] \in Seq(Nat)
      /\ writing[c] \in Nat
  BY <1>1 DEF StreamInv, StreamTypes
<1>3. ClientInv(c)  BY DEF StreamInv
<1>4. Stream(c)' = Stream(c)
  <2>1. Stream(c) = (reached[c] \o <<writing[c]>>) \o buffer[c]
    BY <1>1 DEF Stream
  <2>2. Stream(c)' = (Append(reached[c], writing[c]) \o <<>>) \o buffer[c]
    BY <1>2 DEF Stream
  <2> QED  BY <1>2, <2>1, <2>2, StreamReaches
<1>5. Ascending(Stream(c)')  BY <1>3, <1>4 DEF ClientInv, Ascending
<1>6. Sofar(c)' = Sofar(c)  BY <1>1 DEF Sofar
<1>7. Len(buffer'[c]) <= BufferSize /\ writing'[c] <= event
  BY <1>1, <1>3 DEF ClientInv, Within
<1>8. Place(c)'  BY <1>1, <1>2, <1>3 DEF ClientInv, Place
<1>9. /\ \A e : Has(Stream(c)', e) => Has(Stream(c), e)
      /\ event' = event /\ missed'[c] = missed[c]
      /\ Listening(c)' => Listening(c) /\ Stream(c)' = Stream(c)
  BY <1>1, <1>2, <1>4 DEF Listening
<1> QED
  BY <1>3, <1>5, <1>6, <1>7, <1>8, <1>9, ClientGoesOn DEF StreamInv

(* The event of a failed write is lost, and its client stops listening.     *)
LEMMA WriteFailsClient ==
  ASSUME StreamInv, StreamTypes', NEW c \in Clients, WriteFails(c)
  PROVE  ClientInv(c)'
<1>1. /\ handler[c] = "write"
      /\ handler' = [handler EXCEPT ![c] =
                       IF c \in UDSClients THEN "leave" ELSE "select"]
      /\ reqDone' = IF c \in SSEClients THEN reqDone \cup {c} ELSE reqDone
      /\ UNCHANGED <<subs, buffer, reached, writing, missed, event, pending>>
  BY DEF WriteFails, clientEnv, bcast
<1>2. /\ handler'[c] = IF c \in UDSClients THEN "leave" ELSE "select"
      /\ buffer[c] \in Seq(Nat) /\ reached[c] \in Seq(Nat)
  BY <1>1 DEF StreamInv, StreamTypes
<1>3. ClientInv(c)  BY DEF StreamInv
<1>4. ~Listening(c)'  BY <1>1, <1>2 DEF Listening, Clients
<1>5. /\ Ascending(Stream(c)')
      /\ \A e : Has(Stream(c)', e) => Has(Stream(c), e)
  <2>1. /\ Stream(c) = (reached[c] \o Mid(c)) \o buffer[c] /\ Mid(c) \in Seq(Nat)
    BY StreamIs DEF StreamInv
  <2>2. Stream(c)' = reached[c] \o buffer[c]
    <3>1. handler'[c] # "write"  BY <1>2
    <3>2. Stream(c)' = (reached[c] \o <<>>) \o buffer[c]
      BY <1>1, <3>1 DEF Stream
    <3> QED  BY <1>2, <3>2, ConcatEmptySeq
  <2>3. Ascending((reached[c] \o Mid(c)) \o buffer[c])
    BY <1>3, <2>1 DEF ClientInv
  <2>4. /\ Ascending(reached[c] \o buffer[c])
        /\ \A e : Has(reached[c] \o buffer[c], e)
                    => Has((reached[c] \o Mid(c)) \o buffer[c], e)
    BY <1>2, <2>1, <2>3, AscendingLoses
  <2> QED  BY <2>1, <2>2, <2>4
<1>6. Sofar(c)' = Sofar(c)  BY <1>1 DEF Sofar
<1>7. Len(buffer'[c]) <= BufferSize /\ writing'[c] <= event
  BY <1>1, <1>3 DEF ClientInv, Within
<1>8. Place(c)'  BY <1>1, <1>2, <1>3 DEF ClientInv, Place
<1>9. event' = event /\ missed'[c] = missed[c]  BY <1>1
<1> QED
  BY <1>3, <1>4, <1>5, <1>6, <1>7, <1>8, <1>9, ClientGoesOn DEF StreamInv

(* A step of one client leaves the others as they are; so do a client that  *)
(* hangs up and a timeout.                                                  *)
LEMMA OthersStay ==
  ASSUME StreamInv, StreamTypes', NEW c \in Clients, NEW x \in Clients,
         (HandlerStep(c) /\ x # c) \/ HangUp(c) \/ Expire(c)
  PROVE  ClientInv(x)'
<1> USE DEF StreamInv, StreamTypes, clientEnv, bcast
<1>1. pending' = pending /\ event' = event /\ reqDone \subseteq reqDone'
  BY DEF HandlerStep, Subscribe, SelectDone, Receive, WriteReaches, WriteFails,
         Unsubscribe, HangUp, Expire
<1>2. /\ handler'[x] = handler[x] /\ buffer'[x] = buffer[x]
      /\ reached'[x] = reached[x] /\ writing'[x] = writing[x]
      /\ missed'[x] = missed[x] /\ (x \in subs' <=> x \in subs)
  <2>1. CASE HangUp(c) \/ Expire(c)  BY <2>1 DEF HangUp, Expire
  <2>2. CASE HandlerStep(c) /\ x # c
    <3>1. CASE Subscribe(c)     BY <2>2, <3>1 DEF Subscribe
    <3>2. CASE SelectDone(c)    BY <2>2, <3>2 DEF SelectDone
    <3>3. CASE Receive(c)       BY <2>2, <3>3 DEF Receive
    <3>4. CASE WriteReaches(c)  BY <2>2, <3>4 DEF WriteReaches
    <3>5. CASE WriteFails(c)    BY <2>2, <3>5 DEF WriteFails
    <3>6. CASE Unsubscribe(c)   BY <2>2, <3>6 DEF Unsubscribe
    <3> QED  BY <2>2, <3>1, <3>2, <3>3, <3>4, <3>5, <3>6 DEF HandlerStep
  <2> QED  BY <2>1, <2>2
<1>3. Sofar(x)' = Sofar(x) /\ Sofar(x) \in Int /\ event \in Int
  BY <1>1 DEF Sofar
<1>4. Sofar(x) <= Sofar(x)' /\ event <= event'  BY <1>1, <1>3
<1> QED  BY <1>1, <1>2, <1>3, <1>4, ClientStays

-----------------------------------------------------------------------------
THEOREM StreamsCorrect == Spec => []StreamInv
<1>1. Init => StreamInv
  <2> SUFFICES ASSUME Init PROVE StreamInv  OBVIOUS
  <2> USE SubscribersAssumption DEF Init
  <2>1. ChannelProtocol
    BY DEF ChannelProtocol, PendingSubscribed, NoPanic, HandlerSteps
  <2>2. StreamTypes
    <3>1. <<>> \in Seq(Nat)  BY EmptySeq
    <3>2. /\ buffer \in [Clients -> Seq(Nat)] /\ reached \in [Clients -> Seq(Nat)]
          /\ missed \in [Clients -> SUBSET Nat] /\ writing \in [Clients -> Nat]
      BY <3>1 DEF NoEvent
    <3>3. event \in 0 .. MaxEvents /\ handler \in [Clients -> HandlerSteps]
      BY DEF HandlerSteps
    <3> QED  BY <3>2, <3>3 DEF StreamTypes
  <2>3. ASSUME NEW c \in Clients PROVE ClientInv(c)
    <3>1. Stream(c) = <<>>
      <4>1. Stream(c) = (<<>> \o <<>>) \o <<>>  BY DEF Stream
      <4>2. <<>> \in Seq(Nat)  BY EmptySeq
      <4> QED  BY <4>1, <4>2, ConcatEmptySeq
    <3>2. \A e : ~Has(Stream(c), e)  BY <3>1 DEF Has
    <3>3. Ascending(Stream(c))  BY <3>1 DEF Ascending
    <3>4. Within(c)
      <4>1. Len(buffer[c]) = 0 /\ writing[c] = 0 /\ missed[c] = {} /\ event = 0
        BY DEF NoEvent
      <4> QED  BY <3>2, <4>1 DEF Within
    <3>5. Place(c) /\ NothingLost(c)  BY DEF Place, NothingLost, Listening
    <3> QED  BY <3>3, <3>4, <3>5 DEF ClientInv
  <2> QED  BY <2>1, <2>2, <2>3 DEF StreamInv
<1>2. StreamInv /\ [Next]_vars => StreamInv'
  <2> SUFFICES ASSUME StreamInv, [Next]_vars PROVE StreamInv'  OBVIOUS
  <2>1. ChannelProtocol'  BY ProtocolStep DEF StreamInv
  <2>2. StreamTypes'
    <3>1. StreamTypes /\ PendingSubscribed  BY DEF StreamInv, ChannelProtocol
    <3>2. CASE UNCHANGED vars
      BY <3>1, <3>2 DEF vars, clientEnv, bcast, StreamTypes
    <3> QED  BY <3>1, <3>2, MainTypes, ClientTypes DEF Next
  <2>3. ASSUME NEW x \in Clients PROVE ClientInv(x)'
    <3>1. CASE MainStep
      BY <2>2, <3>1, BeginClient, SendClient, EndClient DEF MainStep
    <3>2. CASE CancelCtx  BY <2>2, <3>2, EndClient
    <3>3. ASSUME NEW c \in Clients, HandlerStep(c) PROVE ClientInv(x)'
      <4>1. CASE x # c  BY <2>2, <3>3, <4>1, OthersStay
      <4>2. ClientInv(c)'
        BY <2>2, <3>3, SubscribeClient, SelectDoneClient, ReceiveClient,
           WriteReachesClient, WriteFailsClient, UnsubscribeClient
           DEF HandlerStep
      <4> QED  BY <4>1, <4>2
    <3>4. ASSUME NEW c \in Clients, HangUp(c) \/ Expire(c) PROVE ClientInv(x)'
      BY <2>2, <3>4, OthersStay
    <3>5. CASE UNCHANGED vars
      BY <3>5 DEF vars, clientEnv, bcast, StreamInv, ClientInv, Within, Place,
                  NothingLost, Listening, Sofar, Stream, Has, Ascending
    <3> QED  BY <3>1, <3>2, <3>3, <3>4, <3>5 DEF Next
  <2> QED  BY <2>1, <2>2, <2>3 DEF StreamInv
<1> QED  BY <1>1, <1>2, PTL DEF Spec

(* What a client gets is in the order of the events and without repetition, *)
(* and what is in its channel comes after it.                               *)
THEOREM InOrderCorrect == Spec => []InOrder
<1>1. StreamInv => InOrder  BY DEF StreamInv, ClientInv, Ascending, InOrder
<1> QED  BY <1>1, StreamsCorrect, PTL

(* A client to which no write failed misses an event only because its       *)
(* channel was full.                                                        *)
THEOREM LossCorrect == Spec => []LossOnlyWhenFull
<1>1. ASSUME StreamInv, NEW c \in subs \ (pending \cup reqDone),
             handler[c] # "leave", NEW e \in 1 .. event, NEW d \in 1 .. e,
             StreamHas(c, d)
      PROVE  StreamHas(c, e) \/ e \in missed[c]
  <2>1. c \in Clients  BY <1>1 DEF StreamInv, StreamTypes
  <2>2. NothingLost(c) /\ Listening(c) /\ Sofar(c) = event
    BY <1>1, <2>1 DEF StreamInv, ClientInv, Listening, Sofar
  <2>3. Has(Stream(c), d)  BY <1>1 DEF StreamHas, Has
  <2>4. Has(Stream(c), e) \/ e \in missed[c]
    BY <2>2, <2>3 DEF NothingLost
  <2> QED  BY <2>4 DEF StreamHas, Has
<1>2. StreamInv => LossOnlyWhenFull  BY <1>1 DEF LossOnlyWhenFull
<1> QED  BY <1>2, StreamsCorrect, PTL

LEMMA SeqWithin ==
  ASSUME NEW s \in Seq(Nat), NEW S, \A e : Has(s, e) => e \in S
  PROVE  s \in Seq(S)
<1>1. Len(s) \in Nat /\ DOMAIN s = 1 .. Len(s) /\ s \in [1 .. Len(s) -> Nat]
  BY LenProperties
<1>2. \A i \in 1 .. Len(s) : s[i] \in S  BY DEF Has
<1>3. s \in [1 .. Len(s) -> S]  BY <1>1, <1>2
<1> QED  BY <1>1, <1>3, SeqDef

(* The type invariant of the live streams; no channel is over its capacity. *)
THEOREM StreamsTypeCorrect == Spec => []TypeOK
<1>1. ASSUME StreamInv, NEW c \in Clients
      PROVE  /\ buffer[c] \in Seq(1 .. event) /\ Len(buffer[c]) <= BufferSize
             /\ reached[c] \in Seq(1 .. event) /\ missed[c] \subseteq 1 .. event
             /\ writing[c] \in 0 .. event
  <2>1. /\ buffer[c] \in Seq(Nat) /\ reached[c] \in Seq(Nat) /\ writing[c] \in Nat
        /\ Mid(c) \in Seq(Nat) /\ reached[c] \o Mid(c) \in Seq(Nat)
        /\ Stream(c) = (reached[c] \o Mid(c)) \o buffer[c] /\ event \in Int
    BY <1>1, StreamIs, ConcatProperties DEF StreamInv, StreamTypes
  <2>2. Within(c)  BY <1>1 DEF StreamInv, ClientInv
  <2>3. Sofar(c) \in Int /\ Sofar(c) <= event  BY <2>1 DEF Sofar
  <2>4. ASSUME NEW e, Has(buffer[c], e) \/ Has(reached[c], e)
        PROVE  e \in 1 .. event
    <3>1. CASE Has(buffer[c], e)
      <4>1. Has((reached[c] \o Mid(c)) \o buffer[c], e)
        BY <2>1, <3>1, HasConcat
      <4> QED  BY <2>1, <2>2, <2>3, <4>1 DEF Within
    <3>2. CASE Has(reached[c], e)
      <4>1. Has(reached[c] \o Mid(c), e)  BY <2>1, <3>2, HasConcat
      <4>2. Has((reached[c] \o Mid(c)) \o buffer[c], e)
        BY <2>1, <4>1, HasConcat
      <4> QED  BY <2>1, <2>2, <2>3, <4>2 DEF Within
    <3> QED  BY <2>4, <3>1, <3>2
  <2>5. buffer[c] \in Seq(1 .. event) /\ reached[c] \in Seq(1 .. event)
    BY <2>1, <2>4, SeqWithin
  <2> QED  BY <2>1, <2>2, <2>5 DEF Within
<1>2. StreamInv => TypeOK
  <2> SUFFICES ASSUME StreamInv PROVE TypeOK  OBVIOUS
  <2>1. writing \in [Clients -> 0 .. event]
    BY <1>1 DEF StreamInv, StreamTypes
  <2>2. panicked \in BOOLEAN  BY DEF StreamInv, StreamTypes
  <2> QED  BY <1>1, <2>1, <2>2 DEF StreamInv, StreamTypes, TypeOK
<1> QED  BY <1>2, StreamsCorrect, PTL

=============================================================================
