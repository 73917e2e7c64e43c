------------------------------- MODULE Daemon -------------------------------
(***************************************************************************)
(* The life of the process (func main of cmd/agent/main.go): the goroutine *)
(* of the dispatcher, the main loop with its ticker, the signal that       *)
(* cancels the context, and the shutdown: stop the HTTP server, wait for   *)
(* the dispatcher, run the deferred calls (ob.Close among them), exit.     *)
(*                                                                         *)
(* Inside, the dispatcher is what module Dispatcher shows of it: Run does  *)
(* not return before the context is canceled, and returns afterwards.      *)
(***************************************************************************)
EXTENDS Integers

CONSTANTS
  SSEClients,      (* the clients that may hold a request open              *)
  DummyURL,        (* config.Load's default for ETD_TARGET_URL              *)
  TargetURLs,      (* bound: values of ETD_TARGET_URL                       *)
  Unset,           (* ETD_TARGET_URL is unset or empty                      *)
  MaxTicks         (* bound: ticks of a behaviour                           *)

VARIABLES
  envTarget,    (* the environment variable ETD_TARGET_URL                  *)
  mainPc,       (* where main is                                            *)
  dispPc,       (* where the goroutine of the dispatcher is                 *)
  ctxDone,      (* SIGINT or SIGTERM was received                           *)
  wg,           (* the counter of the WaitGroup                             *)
  streaming,    (* the clients with an open request on /events              *)
  outboxClosed,
  ticks,        (* ticks of the main loop                                   *)
  panicked      (* "sync: negative WaitGroup counter"                       *)

vars == <<envTarget, mainPc, dispPc, ctxDone, wg, streaming, outboxClosed,
          ticks, panicked>>

(* getenv returns its default for an unset and for an empty variable.       *)
TargetURL(env) == IF env = Unset THEN DummyURL ELSE env

MainSteps == {"loop", "shutdown", "wait", "exited"}
(* none: not started.  run: in disp.Run.  deferred: at the defer wg.Done()  *)
(* of main's function.  return: at the Done of wg.Go itself.                *)
DispSteps == {"none", "run", "deferred", "return", "end"}

Alive == mainPc # "exited" /\ ~panicked

Init ==
  /\ envTarget \in TargetURLs \cup {Unset}
  /\ mainPc = "loop"
  /\ IF TargetURL(envTarget) # Unset
     THEN dispPc = "run" /\ wg = 1
     ELSE dispPc = "none" /\ wg = 0
  /\ ctxDone = FALSE
  /\ streaming = {}
  /\ outboxClosed = FALSE
  /\ ticks = 0
  /\ panicked = FALSE

-----------------------------------------------------------------------------
Signal ==
  /\ Alive /\ ~ctxDone
  /\ ctxDone' = TRUE
  /\ UNCHANGED <<envTarget, mainPc, dispPc, wg, streaming, outboxClosed, ticks,
                 panicked>>

(* The main loop: both cases of its select may be ready at a time.          *)
Tick ==
  /\ Alive /\ mainPc = "loop" /\ ticks < MaxTicks
  /\ ticks' = ticks + 1
  /\ UNCHANGED <<envTarget, mainPc, dispPc, ctxDone, wg, streaming,
                 outboxClosed, panicked>>

BeginShutdown ==
  /\ Alive /\ mainPc = "loop" /\ ctxDone
  /\ mainPc' = "shutdown"
  /\ UNCHANGED <<envTarget, dispPc, ctxDone, wg, streaming, outboxClosed, ticks,
                 panicked>>

(* httpServer.Shutdown returns when no request is open, or after 5 s.       *)
ServerStopped ==
  /\ Alive /\ mainPc = "shutdown" /\ streaming = {}
  /\ mainPc' = "wait"
  /\ UNCHANGED <<envTarget, dispPc, ctxDone, wg, streaming, outboxClosed, ticks,
                 panicked>>

(* Mutant: Shutdown gets a context without a timeout.                       *)
ServerTimeoutNever ==
  /\ Alive /\ mainPc = "shutdown" /\ streaming = {}
  /\ mainPc' = "wait"
  /\ UNCHANGED <<envTarget, dispPc, ctxDone, wg, streaming, outboxClosed, ticks,
                 panicked>>

ServerTimeout ==
  /\ Alive /\ mainPc = "shutdown" /\ streaming # {}
  /\ mainPc' = "wait"
  /\ UNCHANGED <<envTarget, dispPc, ctxDone, wg, streaming, outboxClosed, ticks,
                 panicked>>

(* Mutant: main does not wait for the dispatcher.                           *)
ExitAtOnce ==
  /\ Alive /\ mainPc = "wait"
  /\ mainPc' = "exited"
  /\ outboxClosed' = TRUE
  /\ UNCHANGED <<envTarget, dispPc, ctxDone, wg, streaming, ticks, panicked>>

(* wg.Wait returns; the deferred calls run; the process ends.               *)
Exit ==
  /\ Alive /\ mainPc = "wait" /\ wg = 0
  /\ mainPc' = "exited"
  /\ outboxClosed' = TRUE
  /\ UNCHANGED <<envTarget, dispPc, ctxDone, wg, streaming, ticks, panicked>>

-----------------------------------------------------------------------------
RunReturns ==
  /\ Alive /\ dispPc = "run" /\ ctxDone
  /\ dispPc' = "deferred"
  /\ UNCHANGED <<envTarget, mainPc, ctxDone, wg, streaming, outboxClosed, ticks,
                 panicked>>

(* A Done of the WaitGroup, which panics below zero.                        *)
Done(from, to) ==
  /\ Alive /\ dispPc = from
  /\ dispPc' = to
  /\ wg' = wg - 1
  /\ panicked' = (wg' < 0)
  /\ UNCHANGED <<envTarget, mainPc, ctxDone, streaming, outboxClosed, ticks>>

(* The function main hands to wg.Go defers a Done of its own, and wg.Go     *)
(* calls Done after it.                                                     *)
DispatcherEnds == RunReturns \/ Done("deferred", "return") \/ Done("return", "end")

-----------------------------------------------------------------------------
(* A closed listener takes no new clients; an open stream goes on.          *)
Connect(c) ==
  /\ Alive /\ c \notin streaming /\ mainPc = "loop"
  /\ streaming' = streaming \cup {c}
  /\ UNCHANGED <<envTarget, mainPc, dispPc, ctxDone, wg, outboxClosed, ticks,
                 panicked>>

Disconnect(c) ==
  /\ Alive /\ c \in streaming
  /\ streaming' = streaming \ {c}
  /\ UNCHANGED <<envTarget, mainPc, dispPc, ctxDone, wg, outboxClosed, ticks,
                 panicked>>

MainStep == BeginShutdown \/ ServerStopped \/ ServerTimeout \/ Exit

Next ==
  \/ Signal \/ Tick \/ MainStep \/ DispatcherEnds
  \/ \E c \in SSEClients : Connect(c) \/ Disconnect(c)

Spec == Init /\ [][Next]_vars

-----------------------------------------------------------------------------
(* An orderly exit: the process does not die of a panic.                    *)
OrderlyShutdown == ~panicked
=============================================================================
