---------------------------- MODULE Subscribers ----------------------------
(***************************************************************************)
(* The live streams of the daemon (cmd/agent/main.go): the main loop       *)
(* broadcasts every event to the subscribed clients, each of which has a   *)
(* buffered channel and a handler goroutine that writes the events to a    *)
(* Unix socket ("uds") or an HTTP response ("sse").                        *)
(*                                                                         *)
(* broadcast holds the read lock of subsMu while it sends to one channel   *)
(* after the other; subscribe and unsubscribe need the write lock.  The    *)
(* handlers receive and write at any time in between.  Go panics when a    *)
(* closed channel is sent to, or closed again.                             *)
(*                                                                         *)
(* A handler waits for its client in a write at most until a deadline: the *)
(* 2 s of conn.SetWriteDeadline for a uds client, the WriteTimeout of the  *)
(* HTTP server for an sse client, after which every write fails.           *)
(***************************************************************************)
EXTENDS Naturals, Sequences, FiniteSets

CONSTANTS
  UDSClients, SSEClients,
  BufferSize,     (* capacity of a subscriber's channel (64 in the code)    *)
  MaxEvents       (* bound: events broadcast                                *)

ASSUME SubscribersAssumption ==
  /\ BufferSize \in Nat \ {0}
  /\ MaxEvents \in Nat
  /\ UDSClients \cap SSEClients = {}
  /\ IsFiniteSet(UDSClients \cup SSEClients)

Clients == UDSClients \cup SSEClients

VARIABLES
  subs,        (* Agent.subs: the clients whose channel is in the map       *)
  buffer,      (* the content of each client's channel                      *)
  chClosed,    (* the channels that are closed                              *)
  handler,     (* where the handler goroutine of each client is             *)
  writing,     (* the event a handler is writing                            *)
  reached,     (* environment: the events each client has received          *)
  connected,   (* environment: the clients that have not hung up            *)
  expired,     (* environment: sse clients past the server's WriteTimeout   *)
  reqDone,     (* the sse clients whose r.Context() is canceled             *)
  ctxDone,     (* the context of main is canceled                           *)
  event,       (* the number of the last event broadcast                    *)
  pending,     (* the channels the current broadcast has still to visit     *)
  broadcasting,          (* broadcast holds the read lock                   *)
  missed,      (* history: the events dropped because a channel was full    *)
  panicked     (* a closed channel was sent to, or closed again             *)

clientEnv == <<reached, connected, expired>>
bcast     == <<event, pending, broadcasting>>
vars == <<subs, buffer, chClosed, handler, writing, clientEnv, reqDone,
          ctxDone, bcast, missed, panicked>>

NoEvent == 0
HandlerSteps == {"start", "select", "write", "leave", "gone"}

Init ==
  /\ subs = {} /\ chClosed = {}
  /\ buffer = [c \in Clients |-> <<>>]
  /\ handler = [c \in Clients |-> "start"]
  /\ writing = [c \in Clients |-> NoEvent]
  /\ reached = [c \in Clients |-> <<>>]
  /\ connected = Clients /\ expired = {} /\ reqDone = {}
  /\ ctxDone = FALSE
  /\ event = 0 /\ pending = {} /\ broadcasting = FALSE
  /\ missed = [c \in Clients |-> {}]
  /\ panicked = FALSE

-----------------------------------------------------------------------------
(* broadcast, in the main loop.                                             *)
BroadcastBegin ==
  /\ ~broadcasting /\ event < MaxEvents
  /\ event' = event + 1
  /\ broadcasting' = TRUE
  /\ pending' = subs
  /\ UNCHANGED <<subs, buffer, chClosed, handler, writing, clientEnv, reqDone,
                 ctxDone, missed, panicked>>

(* Mutant: a full channel ends the broadcast for the others too.            *)
SendReturnsEarly(c) ==
  /\ c \in pending
  /\ IF Len(buffer[c]) < BufferSize
     THEN /\ buffer' = [buffer EXCEPT ![c] = Append(@, event)]
          /\ pending' = pending \ {c}
          /\ UNCHANGED missed
     ELSE /\ missed' = [missed EXCEPT ![c] = @ \cup {event}]
          /\ pending' = {}
          /\ UNCHANGED buffer
  /\ UNCHANGED <<subs, chClosed, handler, writing, clientEnv, reqDone, ctxDone,
                 event, broadcasting, panicked>>

(* Mutant: the send has no default: it waits for room in the channel.       *)
SendBlocks(c) ==
  /\ c \in pending /\ Len(buffer[c]) < BufferSize
  /\ pending' = pending \ {c}
  /\ buffer' = [buffer EXCEPT ![c] = Append(@, event)]
  /\ UNCHANGED <<subs, chClosed, handler, writing, clientEnv, reqDone, ctxDone,
                 event, broadcasting, missed, panicked>>

(* The select with a default: a full channel loses the event.               *)
Send(c) ==
  /\ c \in pending
  /\ pending' = pending \ {c}
  /\ CASE c \in chClosed ->
            panicked' = TRUE /\ UNCHANGED <<buffer, missed>>
       [] c \notin chClosed /\ Len(buffer[c]) < BufferSize ->
            /\ buffer' = [buffer EXCEPT ![c] = Append(@, event)]
            /\ UNCHANGED <<missed, panicked>>
       [] OTHER ->
            /\ missed' = [missed EXCEPT ![c] = @ \cup {event}]
            /\ UNCHANGED <<buffer, panicked>>
  /\ UNCHANGED <<subs, chClosed, handler, writing, clientEnv, reqDone, ctxDone,
                 event, broadcasting>>

BroadcastEnd ==
  /\ broadcasting /\ pending = {}
  /\ broadcasting' = FALSE
  /\ UNCHANGED <<subs, buffer, chClosed, handler, writing, clientEnv, reqDone,
                 ctxDone, event, pending, missed, panicked>>

-----------------------------------------------------------------------------
(* The handlers.  The write lock is free unless a broadcast is running.     *)
WriteLock == ~broadcasting

Subscribe(c) ==
  /\ handler[c] = "start" /\ WriteLock
  /\ subs' = subs \cup {c}
  /\ handler' = [handler EXCEPT ![c] = "select"]
  /\ UNCHANGED <<buffer, chClosed, writing, clientEnv, reqDone, ctxDone, bcast,
                 missed, panicked>>

(* Mutant: a uds handler does not watch the context of main.                *)
StoppedByRequest(c) == c \in reqDone

Stopped(c) == IF c \in UDSClients THEN ctxDone ELSE c \in reqDone

SelectDone(c) ==
  /\ handler[c] = "select" /\ Stopped(c)
  /\ handler' = [handler EXCEPT ![c] = "leave"]
  /\ UNCHANGED <<subs, buffer, chClosed, writing, clientEnv, reqDone, ctxDone,
                 bcast, missed, panicked>>

Receive(c) ==
  /\ handler[c] = "select" /\ buffer[c] # <<>>
  /\ writing' = [writing EXCEPT ![c] = Head(buffer[c])]
  /\ buffer' = [buffer EXCEPT ![c] = Tail(@)]
  /\ handler' = [handler EXCEPT ![c] = "write"]
  /\ UNCHANGED <<subs, chClosed, clientEnv, reqDone, ctxDone, bcast, missed,
                 panicked>>

(* Mutant: an event that was written is written again.                      *)
WriteRepeats(c) ==
  /\ handler[c] = "write" /\ c \in connected /\ c \notin expired
  /\ reached' = [reached EXCEPT ![c] = Append(@, writing[c])]
  /\ UNCHANGED <<subs, buffer, chClosed, handler, writing, connected, expired,
                 reqDone, ctxDone, bcast, missed, panicked>>

WriteReaches(c) ==
  /\ handler[c] = "write" /\ c \in connected /\ c \notin expired
  /\ reached' = [reached EXCEPT ![c] = Append(@, writing[c])]
  /\ handler' = [handler EXCEPT ![c] = "select"]
  /\ UNCHANGED <<subs, buffer, chClosed, writing, connected, expired, reqDone,
                 ctxDone, bcast, missed, panicked>>

(* Mutant: no handler ends on a failed write.                               *)
WriteErrorIgnored(c) ==
  /\ handler[c] = "write"
  /\ c \in UDSClients \/ c \notin connected \/ c \in expired
  /\ handler' = [handler EXCEPT ![c] = "select"]
  /\ reqDone' = IF c \in SSEClients THEN reqDone \cup {c} ELSE reqDone
  /\ UNCHANGED <<subs, buffer, chClosed, writing, clientEnv, ctxDone, bcast,
                 missed, panicked>>

(* A write fails when the client has hung up, when a uds client is too slow *)
(* for the deadline, and when the WriteTimeout of an sse client is over.  A *)
(* uds handler ends then.  An sse handler ignores the error, but net/http   *)
(* cancels the context of the request.                                      *)
WriteFails(c) ==
  /\ handler[c] = "write"
  /\ c \in UDSClients \/ c \notin connected \/ c \in expired
  /\ handler' = [handler EXCEPT ![c] = IF c \in UDSClients THEN "leave" ELSE "select"]
  /\ reqDone' = IF c \in SSEClients THEN reqDone \cup {c} ELSE reqDone
  /\ UNCHANGED <<subs, buffer, chClosed, writing, clientEnv, ctxDone, bcast,
                 missed, panicked>>

(* Mutant: unsubscribe does not take the lock.                              *)
UnsubscribeUnlocked(c) ==
  /\ handler[c] = "leave"
  /\ handler' = [handler EXCEPT ![c] = "gone"]
  /\ subs' = subs \ {c}
  /\ chClosed' = chClosed \cup {c}
  /\ panicked' = (panicked \/ c \in chClosed)
  /\ UNCHANGED <<buffer, writing, clientEnv, reqDone, ctxDone, bcast, missed>>

(* The deferred unsubscribe.                                                *)
Unsubscribe(c) ==
  /\ handler[c] = "leave" /\ WriteLock
  /\ handler' = [handler EXCEPT ![c] = "gone"]
  /\ IF c \in subs
     THEN /\ subs' = subs \ {c}
          /\ chClosed' = chClosed \cup {c}
          /\ panicked' = (panicked \/ c \in chClosed)
     ELSE UNCHANGED <<subs, chClosed, panicked>>
  /\ UNCHANGED <<buffer, writing, clientEnv, reqDone, ctxDone, bcast, missed>>

HandlerStep(c) ==
  \/ Subscribe(c) \/ SelectDone(c) \/ Receive(c)
  \/ WriteReaches(c) \/ WriteFails(c) \/ Unsubscribe(c)

-----------------------------------------------------------------------------
(* A client hangs up.  net/http notices it and cancels the request; nobody  *)
(* reads from a uds connection, so its handler learns it from a write.      *)
HangUp(c) ==
  /\ c \in connected /\ handler[c] # "start"
  /\ connected' = connected \ {c}
  /\ reqDone' = IF c \in SSEClients THEN reqDone \cup {c} ELSE reqDone
  /\ UNCHANGED <<subs, buffer, chClosed, handler, writing, reached, expired,
                 ctxDone, bcast, missed, panicked>>

(* WriteTimeout has passed since the request was read.                      *)
Expire(c) ==
  /\ c \in SSEClients \ expired /\ handler[c] # "start"
  /\ expired' = expired \cup {c}
  /\ UNCHANGED <<subs, buffer, chClosed, handler, writing, reached, connected,
                 reqDone, ctxDone, bcast, missed, panicked>>

CancelCtx ==
  /\ ~ctxDone
  /\ ctxDone' = TRUE
  /\ UNCHANGED <<subs, buffer, chClosed, handler, writing, clientEnv, reqDone,
                 bcast, missed, panicked>>

MainStep == BroadcastBegin \/ (\E c \in Clients : Send(c)) \/ BroadcastEnd

Next ==
  \/ MainStep \/ CancelCtx
  \/ \E c \in Clients : HandlerStep(c) \/ HangUp(c) \/ Expire(c)

Spec == Init /\ [][Next]_vars

(* The main loop and the handlers run when they can (a write ends at its    *)
(* deadline at the latest), and sync.RWMutex lets no waiting writer starve; *)
(* clients and the context are free.                                        *)
FairSpec ==
  /\ Spec
  /\ WF_vars((\E c \in Clients : Send(c)) \/ BroadcastEnd)
  /\ \A c \in Clients : WF_vars(SelectDone(c) \/ Receive(c)
                                \/ WriteReaches(c) \/ WriteFails(c))
                        /\ SF_vars(Subscribe(c)) /\ SF_vars(Unsubscribe(c))

-----------------------------------------------------------------------------
TypeOK ==
  /\ subs \in SUBSET Clients /\ chClosed \in SUBSET Clients
  /\ \A c \in Clients : /\ buffer[c] \in Seq(1 .. event)
                        /\ Len(buffer[c]) <= BufferSize
                        /\ reached[c] \in Seq(1 .. event)
                        /\ missed[c] \subseteq 1 .. event
  /\ handler \in [Clients -> HandlerSteps]
  /\ writing \in [Clients -> 0 .. event]
  /\ connected \in SUBSET Clients
  /\ expired \in SUBSET SSEClients /\ reqDone \in SUBSET SSEClients
  /\ ctxDone \in BOOLEAN /\ broadcasting \in BOOLEAN /\ panicked \in BOOLEAN
  /\ event \in 0 .. MaxEvents /\ pending \in SUBSET Clients

(* The map, the channels and the handlers agree: a channel is closed when,  *)
(* and only when, it was taken out of the map by its own handler.  So the   *)
(* main loop never sends to a closed channel and no channel is closed twice.*)
NoPanic == ~panicked

(* A broadcast still has to visit only channels that are in the map.        *)
PendingSubscribed == pending \subseteq subs /\ (~broadcasting => pending = {})

(* What a client gets is in the order of the events and without repetition, *)
(* and what is in its channel comes after it.                               *)
Stream(c) ==
  reached[c] \o (IF handler[c] = "write" THEN <<writing[c]>> ELSE <<>>) \o buffer[c]

InOrder ==
  \A c \in Clients : \A i, j \in 1 .. Len(Stream(c)) :
    i < j => Stream(c)[i] < Stream(c)[j]

(* As long as no write to it failed, a client misses an event only because  *)
(* its channel was full: from the first event on, every event is in the     *)
(* stream or was dropped.                                                   *)
StreamHas(c, e) == \E i \in 1 .. Len(Stream(c)) : Stream(c)[i] = e

LossOnlyWhenFull ==
  \A c \in subs \ (pending \cup reqDone) :
    handler[c] # "leave" =>
      \A e \in 1 .. event :
        (\E d \in 1 .. e : StreamHas(c, d)) => StreamHas(c, e) \/ e \in missed[c]

(* Slow clients never hold up the main loop: a broadcast ends.              *)
BroadcastEnds == broadcasting ~> ~broadcasting

(* The daemon's shutdown ends every uds handler, however slow its client.   *)
ShutdownEndsUDS ==
  \A c \in UDSClients : (ctxDone /\ handler[c] # "start") ~> handler[c] = "gone"

(* A client that hung up is forgotten once there are enough events to write *)
(* to it; an sse client is forgotten in any case.                           *)
HungUpForgotten ==
  /\ \A c \in SSEClients : c \notin connected ~> handler[c] = "gone"
  /\ \A c \in UDSClients :
       (c \notin connected /\ buffer[c] # <<>>) ~> handler[c] = "gone"

(* "Server-Sent Events (SSE) Live Stream": an event that is in the channel  *)
(* of an sse client reaches it, unless it hangs up.                         *)
LiveStream ==
  \A c \in SSEClients, e \in 1 .. MaxEvents :
    StreamHas(c, e) ~> (c \notin connected \/ \E i \in 1 .. Len(reached[c]) : reached[c][i] = e)
=============================================================================
