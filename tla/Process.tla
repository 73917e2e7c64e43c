------------------------------- MODULE Process -------------------------------
(***************************************************************************)
(* The whole process (cmd/agent/main.go) as goroutines that start, serve   *)
(* and stop: the main goroutine and the dispatcher of module Daemon, the   *)
(* handlers and broadcasts of module Subscribers, and what brings the one  *)
(* to the other: the accept loop of the Unix socket, with the goroutine    *)
(* that closes its listener, and the HTTP server.                          *)
(*                                                                         *)
(* The main goroutine is one: it broadcasts inside a tick, so it sees the  *)
(* signal only between two, and no event is broadcast once it has begun to *)
(* shut down.  When it returns, or any goroutine panics, all others end    *)
(* where they are.                                                         *)
(***************************************************************************)
EXTENDS Subscribers

CONSTANTS DummyURL, TargetURLs, Unset     (* as in Daemon                   *)

ASSUME ProcessAssumption == Unset \notin TargetURLs

VARIABLES
  envTarget, mainPc, dispPc, wg, outboxClosed,   (* as in Daemon            *)
  wgPanicked,  (* "sync: negative WaitGroup counter"                        *)
  listener,    (* the Unix socket: none, open or closed                     *)
  acceptPc,    (* the accept loop: none, accept or end                      *)
  httpUp,      (* the HTTP server takes requests                            *)
  served       (* the clients that have a handler                           *)

(* What a client's stream is to main: a request that Shutdown waits for.    *)
Streaming == {c \in SSEClients \cap served : handler[c] # "gone"}

D == INSTANCE Daemon WITH
       streaming <- Streaming, ticks <- event, MaxTicks <- MaxEvents,
       panicked <- wgPanicked

lifecycle == <<envTarget, mainPc, dispPc, wg, outboxClosed, wgPanicked>>
servers   == <<listener, acceptPc, httpUp, served>>
pvars     == <<vars, lifecycle, servers>>

Alive == D!Alive /\ ~panicked

(* startUDSServer and ListenAndServe may fail: main only logs it.           *)
PInit ==
  /\ Init
  /\ served = {} /\ D!Init
  /\ listener \in {"open", "none"}
  /\ acceptPc = IF listener = "open" THEN "accept" ELSE "none"
  /\ httpUp \in BOOLEAN

-----------------------------------------------------------------------------
(* The main goroutine, and the dispatcher's.                                *)
TickBroadcasts ==
  /\ mainPc = "loop" /\ BroadcastBegin
  /\ UNCHANGED <<lifecycle, servers>>

BroadcastGoesOn ==
  /\ (\E c \in Clients : Send(c)) \/ BroadcastEnd
  /\ UNCHANGED <<lifecycle, servers>>

(* Mutant: the HTTP server goes on taking requests.                         *)
StopServingLater ==
  /\ ~broadcasting
  /\ UNCHANGED <<vars, servers>>
  /\ D!BeginShutdown

(* Shutdown closes the HTTP listener at once.                               *)
StopServing ==
  /\ ~broadcasting
  /\ httpUp' = FALSE
  /\ UNCHANGED <<vars, listener, acceptPc, served>>
  /\ D!BeginShutdown

MainEnds ==
  /\ UNCHANGED <<vars, servers>>
  /\ D!ServerStopped \/ D!ServerTimeout \/ D!Exit

DispatcherEnds == UNCHANGED <<vars, servers>> /\ D!DispatcherEnds

(* Up to the deferred Done, which lets main go: the Done of wg.Go, with its *)
(* panic, is left out.                                                      *)
DispatcherReturns ==
  /\ UNCHANGED <<vars, servers>>
  /\ D!RunReturns \/ D!Done("deferred", "return")

Signal == CancelCtx /\ UNCHANGED <<lifecycle, servers>>

-----------------------------------------------------------------------------
(* Accept returns a connection, or an HTTP request arrives; a handler       *)
(* starts.                                                                  *)
Serve(c) ==
  /\ c \notin served
  /\ IF c \in UDSClients THEN acceptPc = "accept" /\ listener = "open" ELSE httpUp
  /\ served' = served \cup {c}
  /\ UNCHANGED <<vars, lifecycle, listener, acceptPc, httpUp>>

(* Mutant: every error ends the accept loop.                                *)
AcceptEndsOnError ==
  /\ acceptPc = "accept"
  /\ acceptPc' = "end"
  /\ UNCHANGED <<vars, lifecycle, listener, httpUp, served>>

(* Accept fails: because the listener is closed, or for want of a file      *)
(* descriptor.  The loop ends if the context is canceled, and else goes on, *)
(* without a pause: no state changes.                                       *)
AcceptFails ==
  /\ acceptPc = "accept" /\ ctxDone
  /\ acceptPc' = "end"
  /\ UNCHANGED <<vars, lifecycle, listener, httpUp, served>>

CloseListener ==
  /\ listener = "open" /\ ctxDone
  /\ listener' = "closed"
  /\ UNCHANGED <<vars, lifecycle, acceptPc, httpUp, served>>

HandlerMoves(c) ==
  /\ c \in served /\ HandlerStep(c)
  /\ UNCHANGED <<lifecycle, servers>>

ClientMoves(c) ==
  /\ c \in served /\ (HangUp(c) \/ Expire(c))
  /\ UNCHANGED <<lifecycle, servers>>

-----------------------------------------------------------------------------
MainMoves == BroadcastGoesOn \/ StopServing \/ MainEnds

PNext ==
  /\ Alive
  /\ \/ TickBroadcasts \/ MainMoves \/ DispatcherEnds \/ Signal
     \/ AcceptFails \/ CloseListener
     \/ \E c \in Clients : Serve(c) \/ HandlerMoves(c) \/ ClientMoves(c)

PSpec == PInit /\ [][PNext]_pvars

(* Goroutines that can run do.  Go's select takes each of its ready cases   *)
(* now and then, so ticks do not keep main from seeing the signal; the      *)
(* timeout of Shutdown fires; Accept fails on a closed listener, and on an  *)
(* open one it succeeds again and again when a client waits.  No fairness   *)
(* is assumed of the second Done of the dispatcher's goroutine: the process *)
(* may die of its panic, but nothing may rest on that.                      *)
PFairSpec ==
  /\ PSpec
  /\ WF_pvars(Alive /\ MainMoves)
  /\ WF_pvars(Alive /\ DispatcherReturns)
  /\ WF_pvars(Alive /\ CloseListener)
  /\ WF_pvars(Alive /\ listener = "closed" /\ AcceptFails)
  /\ \A c \in Clients : SF_pvars(Alive /\ Serve(c))
                        /\ SF_pvars(Alive /\ HandlerMoves(c))

-----------------------------------------------------------------------------
(* The process implements the life of the daemon: whatever the handlers,    *)
(* the listeners and the broadcasts do, main starts, ticks and stops as     *)
(* module Daemon says, and no stream opens once it stops.                   *)
Lifecycle == D!Spec

(* The outbox is closed, and the process left, only when the workers of the *)
(* dispatcher have stopped: none of them is cut off in the middle of a POST *)
(* by an orderly exit; and no broadcast is cut off in the middle by it.     *)
WorkersStopBeforeExit ==
  (outboxClosed \/ mainPc = "exited")
    => dispPc \notin {"run", "deferred"} /\ ~broadcasting

(* The shutdown ends, whatever the clients of the streams do: after the     *)
(* signal main leaves its loop, gives up streams that stay open, and gets   *)
(* past the WaitGroup, unless the panic of the second Done comes before.    *)
ShutdownEnds == ctxDone ~> (mainPc = "exited" \/ wgPanicked)

(* Failures of Accept do not end the service: as long as the daemon runs, a *)
(* client that connects to the Unix socket is subscribed.                   *)
ClientsSubscribed ==
  \A c \in UDSClients :
    (listener = "open") ~> (handler[c] # "start" \/ ctxDone \/ ~Alive)
=============================================================================
