---------------------------- MODULE ProcessProofs ----------------------------
(***************************************************************************)
(* The whole process: its streams behave as module Subscribers says, main  *)
(* and the dispatcher as module Daemon says, for any number of clients,    *)
(* any target, and any of the two servers down from the start; and an      *)
(* orderly exit cuts off neither a worker nor a broadcast.                 *)
(***************************************************************************)
EXTENDS Process, SubscribersProofs

-----------------------------------------------------------------------------
(* The streams inside the process: the process only decides when a handler  *)
(* starts, when main broadcasts and when everything ends, so each of its    *)
(* steps is a step of the streams or leaves them alone, and the theorems of *)
(* SubscribersProofs hold for the process.                                  *)
THEOREM StreamsInProcess == PSpec => Spec
<1>1. PInit => Init  BY DEF PInit
<1>2. [PNext]_pvars => [Next]_vars
  <2> SUFFICES ASSUME [PNext]_pvars PROVE [Next]_vars  OBVIOUS
  <2>1. CASE TickBroadcasts
    BY <2>1 DEF TickBroadcasts, Next, MainStep
  <2>2. CASE MainMoves
    BY <2>2 DEF MainMoves, BroadcastGoesOn, StopServing, MainEnds, Next, MainStep
  <2>3. CASE DispatcherEnds  BY <2>3 DEF DispatcherEnds
  <2>4. CASE Signal  BY <2>4 DEF Signal, Next
  <2>5. CASE AcceptFails \/ CloseListener
    BY <2>5 DEF AcceptFails, CloseListener
  <2>6. ASSUME NEW c \in Clients, Serve(c) PROVE UNCHANGED vars
    BY <2>6 DEF Serve
  <2>7. ASSUME NEW c \in Clients, HandlerMoves(c) \/ ClientMoves(c) PROVE Next
    BY <2>7 DEF HandlerMoves, ClientMoves, Next
  <2>8. CASE UNCHANGED pvars  BY <2>8 DEF pvars
  <2> QED  BY <2>1, <2>2, <2>3, <2>4, <2>5, <2>6, <2>7, <2>8 DEF PNext
<1> QED  BY <1>1, <1>2, PTL DEF PSpec, Spec

LEMMA StreamInvInProcess == PSpec => []StreamInv
BY StreamsInProcess, StreamsCorrect, PTL

(* In the process, too, no channel is sent to once it is closed, a client   *)
(* gets its events in order, and misses one only because it was slow.       *)
THEOREM StreamsHoldInProcess ==
  PSpec => []NoPanic /\ []InOrder /\ []LossOnlyWhenFull
BY StreamsInProcess, NoPanicCorrect, InOrderCorrect, LossCorrect, PTL

-----------------------------------------------------------------------------
(* The WaitGroup counts the dispatcher's goroutine once, but two Done calls *)
(* follow each other at its end: the counter is back at zero when disp.Run  *)
(* and the function around it have returned.                                *)
Counted ==
  /\ dispPc \in {"run", "deferred"} => wg = 1
  /\ dispPc \in {"none", "return"} => wg = 0
  /\ dispPc = "end" => wgPanicked
  /\ dispPc \in {"none", "run", "deferred", "return", "end"}

(* Main has left its loop between two broadcasts, and takes requests no     *)
(* more; a client has no handler before it is served.                       *)
PInv ==
  /\ Counted
  /\ mainPc \in {"loop", "shutdown", "wait", "exited"}
  /\ mainPc # "loop" => ~broadcasting /\ ~httpUp
  /\ outboxClosed => mainPc = "exited"
  /\ mainPc = "exited" => dispPc \notin {"run", "deferred"}
  /\ served \in SUBSET Clients
  /\ \A c \in Clients \ served : handler[c] = "start"

LEMMA PInitInv == PInit => PInv
BY DEF PInit, PInv, Counted, Init, D!Init, D!TargetURL

(* Where the steps of Daemon leave the streams and the servers alone.       *)
LEMMA LifecycleInv ==
  ASSUME PInv, D!Alive, UNCHANGED <<broadcasting, handler, served>>,
         httpUp' => httpUp /\ mainPc' = "loop",
         ~broadcasting \/ mainPc' = mainPc,
         \/ D!BeginShutdown \/ D!ServerStopped \/ D!ServerTimeout \/ D!Exit
         \/ D!DispatcherEnds
  PROVE  PInv'
<1> USE DEF PInv, Counted, D!Alive
<1>1. CASE D!BeginShutdown   BY <1>1 DEF D!BeginShutdown
<1>2. CASE D!ServerStopped   BY <1>2 DEF D!ServerStopped
<1>3. CASE D!ServerTimeout   BY <1>3 DEF D!ServerTimeout
<1>4. CASE D!Exit            BY <1>4 DEF D!Exit
<1>5. CASE D!RunReturns      BY <1>5 DEF D!RunReturns
<1>6. CASE D!Done("deferred", "return")  BY <1>6 DEF D!Done
<1>7. CASE D!Done("return", "end")
  <2>1. wg = 0 /\ wg' = wg - 1  BY <1>7 DEF D!Done
  <2>2. wg' < 0  BY <2>1
  <2>3. wgPanicked'  BY <1>7, <2>2, Zenon DEF D!Done
  <2> QED  BY <1>7, <2>3 DEF D!Done
<1> QED
  BY <1>1, <1>2, <1>3, <1>4, <1>5, <1>6, <1>7 DEF D!DispatcherEnds

(* A handler moves only itself.                                             *)
LEMMA OnlyItsHandler ==
  ASSUME StreamTypes, NEW c \in Clients, HandlerStep(c) \/ HangUp(c) \/ Expire(c)
  PROVE  \A x \in Clients \ {c} : handler'[x] = handler[x]
BY DEF StreamTypes, HandlerStep, Subscribe, SelectDone, Receive, WriteReaches,
       WriteFails, Unsubscribe, HangUp, Expire

LEMMA PNextInv == StreamInv /\ PInv /\ [PNext]_pvars => PInv'
<1> SUFFICES ASSUME StreamInv, PInv, [PNext]_pvars PROVE PInv'  OBVIOUS
<1> USE DEF lifecycle, servers
<1>1. CASE UNCHANGED pvars
  BY <1>1 DEF pvars, vars, bcast, PInv, Counted
<1>2. CASE PNext
  <2>1. D!Alive  BY <1>2 DEF PNext, Alive
  <2>2. CASE TickBroadcasts
    BY <2>2 DEF TickBroadcasts, BroadcastBegin, PInv, Counted
  <2>3. CASE BroadcastGoesOn
    <3>1. /\ UNCHANGED <<lifecycle, servers, handler>>
          /\ broadcasting' => broadcasting
      BY <2>3 DEF BroadcastGoesOn, Send, BroadcastEnd
    <3> QED  BY <3>1 DEF PInv, Counted
  <2>4. CASE StopServing
    BY <2>1, <2>4, LifecycleInv DEF StopServing, vars, bcast
  <2>5. CASE MainEnds \/ DispatcherEnds
    <3>1. /\ UNCHANGED <<broadcasting, handler, served, httpUp>>
          /\ \/ D!ServerStopped \/ D!ServerTimeout \/ D!Exit
             \/ D!DispatcherEnds
      BY <2>5 DEF MainEnds, DispatcherEnds, vars, bcast
    <3>2. /\ httpUp' => httpUp /\ mainPc' = "loop"
          /\ ~broadcasting \/ mainPc' = mainPc
      BY <3>1 DEF PInv, D!ServerStopped, D!ServerTimeout, D!Exit,
                  D!DispatcherEnds, D!RunReturns, D!Done
    <3> QED  BY <2>1, <3>1, <3>2, LifecycleInv
  <2>6. CASE Signal
    BY <2>6 DEF Signal, CancelCtx, bcast, PInv, Counted
  <2>7. CASE AcceptFails \/ CloseListener
    BY <2>7 DEF AcceptFails, CloseListener, vars, bcast, PInv, Counted
  <2>8. ASSUME NEW c \in Clients, Serve(c) PROVE PInv'
    BY <2>8 DEF Serve, vars, bcast, PInv, Counted
  <2>9. ASSUME NEW c \in Clients, HandlerMoves(c) \/ ClientMoves(c) PROVE PInv'
    <3>1. /\ c \in served /\ UNCHANGED <<lifecycle, servers>>
          /\ HandlerStep(c) \/ HangUp(c) \/ Expire(c)
      BY <2>9 DEF HandlerMoves, ClientMoves
    <3>2. broadcasting' = broadcasting
      BY <3>1 DEF HandlerStep, Subscribe, SelectDone, Receive, WriteReaches,
                  WriteFails, Unsubscribe, HangUp, Expire, bcast
    <3>3. \A x \in Clients \ {c} : handler'[x] = handler[x]
      BY <3>1, OnlyItsHandler DEF StreamInv
    <3> QED  BY <3>1, <3>2, <3>3 DEF PInv, Counted
  <2> QED
    BY <1>2, <2>2, <2>3, <2>4, <2>5, <2>6, <2>7, <2>8, <2>9 DEF PNext, MainMoves
<1> QED  BY <1>1, <1>2

THEOREM ProcessInv == PSpec => [](StreamInv /\ PInv)
BY StreamInvInProcess, PInitInv, PNextInv, PTL DEF PSpec

(* The outbox is closed, and the process left, only when the workers of the *)
(* dispatcher have stopped and no broadcast is running (func main).         *)
THEOREM WorkersCorrect == PSpec => []WorkersStopBeforeExit
<1>1. PInv => WorkersStopBeforeExit  BY DEF PInv, WorkersStopBeforeExit
<1> QED  BY <1>1, ProcessInv, PTL

-----------------------------------------------------------------------------
(* The process implements the life of the daemon.  The open requests of     *)
(* Daemon are the sse clients with a handler that has not gone: one is      *)
(* added by Serve, while the server is up, and taken out by Unsubscribe.    *)
LEMMA LifecycleInit == PInit => D!Init
BY DEF PInit

LEMMA ServeConnects ==
  ASSUME PInv, PNext, NEW c \in Clients, Serve(c)
  PROVE  D!Next \/ UNCHANGED D!vars
<1>1. /\ c \notin served /\ served' = served \cup {c}
      /\ handler' = handler /\ event' = event /\ ctxDone' = ctxDone
      /\ handler[c] = "start"
      /\ UNCHANGED <<envTarget, mainPc, dispPc, wg, outboxClosed, wgPanicked>>
  BY DEF PInv, Serve, vars, bcast, lifecycle
<1>2. CASE c \in SSEClients
  <2>1. c \notin UDSClients  BY <1>2, SubscribersAssumption
  <2>2. httpUp /\ mainPc = "loop"  BY <2>1 DEF PInv, Serve
  <2>3. c \notin Streaming /\ Streaming' = Streaming \cup {c}
    BY <1>1, <1>2 DEF Streaming
  <2>4. D!Alive  BY DEF PNext, Alive
  <2>5. D!Connect(c)  BY <1>1, <2>2, <2>3, <2>4 DEF D!Connect
  <2> QED  BY <1>2, <2>5 DEF D!Next
<1>3. CASE c \notin SSEClients
  <2>1. Streaming' = Streaming  BY <1>1, <1>3 DEF Streaming
  <2> QED  BY <1>1, <2>1 DEF D!vars
<1> QED  BY <1>2, <1>3

LEMMA HandlerDisconnects ==
  ASSUME StreamTypes, PNext, NEW c \in Clients, HandlerMoves(c) \/ ClientMoves(c)
  PROVE  D!Next \/ UNCHANGED D!vars
<1>1. /\ c \in served /\ served' = served
      /\ HandlerStep(c) \/ HangUp(c) \/ Expire(c)
      /\ UNCHANGED <<envTarget, mainPc, dispPc, wg, outboxClosed, wgPanicked>>
  BY DEF HandlerMoves, ClientMoves, lifecycle, servers
<1>2. event' = event /\ ctxDone' = ctxDone
  BY <1>1 DEF HandlerStep, Subscribe, SelectDone, Receive, WriteReaches,
              WriteFails, Unsubscribe, HangUp, Expire, bcast
<1>3. \A x \in Clients \ {c} : handler'[x] = handler[x]
  BY <1>1, OnlyItsHandler
<1>4. CASE Unsubscribe(c) /\ c \in SSEClients
  <2>1. handler[c] = "leave" /\ handler'[c] = "gone"
    BY <1>4 DEF Unsubscribe, StreamTypes
  <2>2. c \in Streaming /\ Streaming' = Streaming \ {c}
    BY <1>1, <1>3, <1>4, <2>1 DEF Streaming, Clients
  <2>3. D!Alive  BY DEF PNext, Alive
  <2>4. D!Disconnect(c)  BY <1>1, <1>2, <2>2, <2>3 DEF D!Disconnect
  <2> QED  BY <1>4, <2>4 DEF D!Next
<1>5. CASE ~(Unsubscribe(c) /\ c \in SSEClients)
  <2>1. c \in SSEClients => \/ handler[c] # "gone" /\ handler'[c] # "gone"
                           \/ handler'[c] = handler[c]
    BY <1>1, <1>5 DEF HandlerStep, Subscribe, SelectDone, Receive, WriteReaches,
              WriteFails, HangUp, Expire, StreamTypes
  <2>2. Streaming' = Streaming  BY <1>1, <1>3, <2>1 DEF Streaming, Clients
  <2> QED  BY <1>1, <1>2, <2>2 DEF D!vars
<1> QED  BY <1>4, <1>5

LEMMA LifecycleStep ==
  StreamInv /\ PInv /\ [PNext]_pvars => [D!Next]_(D!vars)
<1> SUFFICES ASSUME StreamInv, PInv, [PNext]_pvars
             PROVE  D!Next \/ UNCHANGED D!vars
  OBVIOUS
<1> USE DEF lifecycle, servers
<1>1. CASE UNCHANGED pvars
  BY <1>1 DEF pvars, vars, bcast, D!vars, Streaming
<1>2. CASE PNext
  <2>1. D!Alive  BY <1>2 DEF PNext, Alive
  <2>2. CASE TickBroadcasts
    <3>1. Streaming' = Streaming
      BY <2>2 DEF TickBroadcasts, BroadcastBegin, Streaming
    <3>2. D!Tick
      BY <2>1, <2>2, <3>1 DEF TickBroadcasts, BroadcastBegin, D!Tick
    <3> QED  BY <3>2 DEF D!Next
  <2>3. CASE BroadcastGoesOn
    <3>1. UNCHANGED <<lifecycle, servers, handler, event, ctxDone>>
      BY <2>3 DEF BroadcastGoesOn, Send, BroadcastEnd
    <3> QED  BY <3>1 DEF D!vars, Streaming
  <2>4. CASE StopServing \/ MainEnds \/ DispatcherEnds
    BY <2>4 DEF StopServing, MainEnds, DispatcherEnds, D!Next, D!MainStep
  <2>5. CASE Signal
    <3>1. D!Signal
      BY <2>1, <2>5 DEF Signal, CancelCtx, bcast, Streaming, D!Signal
    <3> QED  BY <3>1 DEF D!Next
  <2>6. CASE AcceptFails \/ CloseListener
    BY <2>6 DEF AcceptFails, CloseListener, vars, bcast, D!vars, Streaming
  <2>7. ASSUME NEW c \in Clients, Serve(c) PROVE D!Next \/ UNCHANGED D!vars
    BY <1>2, <2>7, ServeConnects
  <2>8. ASSUME NEW c \in Clients, HandlerMoves(c) \/ ClientMoves(c)
        PROVE  D!Next \/ UNCHANGED D!vars
    BY <1>2, <2>8, HandlerDisconnects DEF StreamInv
  <2> QED
    BY <1>2, <2>2, <2>3, <2>4, <2>5, <2>6, <2>7, <2>8 DEF PNext, MainMoves
<1> QED  BY <1>1, <1>2

(* Whatever the handlers, the listeners and the broadcasts do, main starts, *)
(* ticks and stops as module Daemon says, and no stream opens once it stops.*)
THEOREM LifecycleCorrect == PSpec => Lifecycle
BY LifecycleInit, LifecycleStep, ProcessInv, PTL DEF PSpec, Lifecycle, D!Spec
=============================================================================
