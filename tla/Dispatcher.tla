----------------------------- MODULE Dispatcher -----------------------------
(***************************************************************************)
(* The telemetry dispatcher (internal/transport/dispatcher.go): a pool of  *)
(* workers that pop events from the outbox and POST each of them to the    *)
(* remote endpoint, with a bounded number of retries and a backoff before  *)
(* every retry, until their common context is canceled.                    *)
(*                                                                         *)
(* The outbox is its abstract specification: the poppers of OutboxQueue    *)
(* are the workers, and the event a worker works on is the last result of  *)
(* its Pop.  Events are numbered in the order they are emitted.            *)
(*                                                                         *)
(* The endpoint and the network are environment: a request may be taken    *)
(* or refused, its answer may be lost, and a request the worker has given  *)
(* up may still arrive later.                                              *)
(***************************************************************************)
EXTENDS OutboxQueue, FiniteSets

CONSTANT MaxRetries   (* DispatcherConfig.MaxRetries                        *)

ASSUME DispatcherAssumption ==
  /\ MaxRetries \in Nat
  /\ Events = 1 .. MaxPushes
  /\ IsFiniteSet(Poppers)

Workers == Poppers

VARIABLES
  wpc,       (* where each worker is: in the loop around Pop, waiting for   *)
             (* an answer, in a backoff, or returned                        *)
  attempt,   (* attempt number in dispatchWithRetry                         *)
  reply,     (* what the endpoint answered to a worker's current request    *)
  metricDispatched, metricFailures, metricRetries,
  accepted,  (* environment: how often the endpoint took each event         *)
  late,      (* environment: requests given up that may still arrive        *)
  resent     (* history: requests sent that were not the first of an event  *)

metricVars == <<metricDispatched, metricFailures, metricRetries>>
vars == <<qvars, wpc, attempt, reply, metricVars, accepted, late, resent>>

WorkerSteps == {"loop", "post", "backoff", "done"}
Replies     == {"none", "2xx", "refused"}

Init ==
  /\ QInit
  /\ wpc = [w \in Workers |-> "loop"]
  /\ attempt = [w \in Workers |-> 0]
  /\ reply = [w \in Workers |-> "none"]
  /\ metricDispatched = 0 /\ metricFailures = 0 /\ metricRetries = 0
  /\ accepted = [e \in Events |-> 0]
  /\ late = [e \in Events |-> 0]
  /\ resent = 0

evt(w) == result[w]
Busy == {w \in Workers : wpc[w] \in {"post", "backoff"}}

-----------------------------------------------------------------------------
(* The agent emits the next event; the outbox takes it or loses one.        *)
Emit ==
  /\ QPush(enqueued + 1)
  /\ UNCHANGED <<wpc, attempt, reply, metricVars, accepted, late, resent>>

(* The context of Run is canceled, for all workers at once.                 *)
CancelCtx ==
  /\ QCancel(Workers)
  /\ UNCHANGED <<wpc, attempt, reply, metricVars, accepted, late, resent>>

CloseOutbox ==
  /\ QClose
  /\ UNCHANGED <<wpc, attempt, reply, metricVars, accepted, late, resent>>

-----------------------------------------------------------------------------
(* workerLoop: call Pop; an error of Pop ends the worker.                   *)
CallPop(w) ==
  /\ wpc[w] = "loop"
  /\ QCall(w)
  /\ UNCHANGED <<wpc, attempt, reply, metricVars, accepted, late, resent>>

(* Mutant: an error of Pop does not end the worker.                         *)
PopErrorIgnored(w) ==
  /\ QPopClosed(w) \/ QPopCanceled(w)
  /\ UNCHANGED <<wpc, attempt, reply, metricVars, accepted, late, resent>>

PopFails(w) ==
  /\ QPopClosed(w) \/ QPopCanceled(w)
  /\ wpc' = [wpc EXCEPT ![w] = "done"]
  /\ UNCHANGED <<attempt, reply, metricVars, accepted, late, resent>>

(* Send the request of the attempt n: the endpoint has not answered yet.    *)
StartPost(w, n) ==
  /\ wpc' = [wpc EXCEPT ![w] = "post"]
  /\ reply' = [reply EXCEPT ![w] = "none"]
  /\ resent' = IF n > 0 THEN resent + 1 ELSE resent

PopGetsEvent(w) ==
  /\ QPopEvent(w)
  /\ attempt' = [attempt EXCEPT ![w] = 0]
  /\ StartPost(w, 0)
  /\ UNCHANGED <<metricVars, accepted, late>>

(* Mutant: the status of the answer is not looked at.                       *)
PostSucceedsAnyStatus(w) ==
  /\ wpc[w] = "post" /\ reply[w] # "none"
  /\ wpc' = [wpc EXCEPT ![w] = "loop"]
  /\ metricDispatched' = metricDispatched + 1
  /\ UNCHANGED <<qvars, attempt, reply, metricFailures, metricRetries,
                 accepted, late, resent>>

(* postEvent returned nil: the event is delivered.                          *)
PostSucceeds(w) ==
  /\ wpc[w] = "post" /\ reply[w] = "2xx"
  /\ wpc' = [wpc EXCEPT ![w] = "loop"]
  /\ metricDispatched' = metricDispatched + 1
  /\ UNCHANGED <<qvars, attempt, reply, metricFailures, metricRetries,
                 accepted, late, resent>>

(* Mutant: one retry too many.                                              *)
RetryLaterOnceMore(w) ==
  /\ attempt[w] <= MaxRetries
  /\ wpc' = [wpc EXCEPT ![w] = "backoff"]
  /\ attempt' = [attempt EXCEPT ![w] = @ + 1]
  /\ metricRetries' = metricRetries + 1
  /\ UNCHANGED metricFailures

(* postEvent returned an error: back off before the next attempt, or give   *)
(* the event up.  "Do not record an operational transmission failure if     *)
(* dispatch was interrupted by shutdown".                                   *)
RetryLater(w) ==
  /\ attempt[w] < MaxRetries
  /\ wpc' = [wpc EXCEPT ![w] = "backoff"]
  /\ attempt' = [attempt EXCEPT ![w] = @ + 1]
  /\ metricRetries' = metricRetries + 1
  /\ UNCHANGED metricFailures

(* Mutant: an event that is given up is not counted.                        *)
GiveUpInSilence(w) ==
  /\ wpc' = [wpc EXCEPT ![w] = "loop"]
  /\ UNCHANGED <<attempt, metricFailures, metricRetries>>

(* Mutant: the last failure is counted as a retry.                          *)
GiveUpAsRetry(w) ==
  /\ wpc' = [wpc EXCEPT ![w] = "loop"]
  /\ metricFailures' = IF w \in canceled THEN metricFailures ELSE metricFailures + 1
  /\ metricRetries' = metricRetries + 1
  /\ UNCHANGED attempt

GiveUp(w) ==
  /\ wpc' = [wpc EXCEPT ![w] = "loop"]
  /\ metricFailures' = IF w \in canceled THEN metricFailures ELSE metricFailures + 1
  /\ UNCHANGED <<attempt, metricRetries>>

PostFails(w) ==
  /\ RetryLater(w) \/ (attempt[w] = MaxRetries /\ GiveUp(w))
  /\ UNCHANGED <<qvars, reply, metricDispatched, accepted, resent>>

(* A status that is not 2xx.                                                *)
PostRefused(w) ==
  /\ wpc[w] = "post" /\ reply[w] = "refused"
  /\ PostFails(w)
  /\ UNCHANGED late

(* No answer: a transport error, cfg.Timeout, or the canceled context.  The *)
(* request may have been taken already, may be lost, or may arrive later.   *)
PostAborted(w) ==
  /\ wpc[w] = "post"
  /\ PostFails(w)
  /\ \/ UNCHANGED late
     \/ reply[w] = "none" /\ late' = [late EXCEPT ![evt(w)] = @ + 1]

(* Mutant: the timer of the backoff never fires.                            *)
BackoffStuck(w) ==
  /\ wpc[w] = "backoff" /\ w \in canceled
  /\ StartPost(w, attempt[w])
  /\ UNCHANGED <<qvars, attempt, metricVars, accepted, late>>

(* The select of the backoff.                                               *)
BackoffElapses(w) ==
  /\ wpc[w] = "backoff"
  /\ StartPost(w, attempt[w])
  /\ UNCHANGED <<qvars, attempt, metricVars, accepted, late>>

BackoffCanceled(w) ==
  /\ wpc[w] = "backoff" /\ w \in canceled
  /\ GiveUp(w)
  /\ UNCHANGED <<qvars, reply, metricDispatched, accepted, late, resent>>

WorkerStep(w) ==
  \/ CallPop(w) \/ PopFails(w) \/ PopGetsEvent(w)
  \/ PostSucceeds(w) \/ PostRefused(w) \/ PostAborted(w)
  \/ BackoffElapses(w) \/ BackoffCanceled(w)

-----------------------------------------------------------------------------
(* The endpoint (external).                                                 *)
EndpointAnswers(w) ==
  /\ wpc[w] = "post" /\ reply[w] = "none"
  /\ \/ /\ reply' = [reply EXCEPT ![w] = "2xx"]
        /\ accepted' = [accepted EXCEPT ![evt(w)] = @ + 1]
     \/ /\ reply' = [reply EXCEPT ![w] = "refused"]
        /\ UNCHANGED accepted
  /\ UNCHANGED <<qvars, wpc, attempt, metricVars, late, resent>>

LateArrival(e) ==
  /\ late[e] > 0
  /\ late' = [late EXCEPT ![e] = @ - 1]
  /\ accepted' = [accepted EXCEPT ![e] = @ + 1]
  /\ UNCHANGED <<qvars, wpc, attempt, reply, metricVars, resent>>

-----------------------------------------------------------------------------
Next ==
  \/ Emit \/ CancelCtx \/ CloseOutbox
  \/ \E w \in Workers : WorkerStep(w) \/ EndpointAnswers(w)
  \/ \E e \in Events : LateArrival(e)

Spec == Init /\ [][Next]_vars

(* Nothing in a worker waits forever: Pop returns when there is something   *)
(* to return (module Outbox shows it), a request ends by http.Client.Timeout *)
(* at the latest, and a backoff by its timer.  The endpoint owes nothing.   *)
FairSpec == Spec /\ \A w \in Workers : WF_vars(WorkerStep(w))

-----------------------------------------------------------------------------
TypeOK ==
  /\ queue \in Seq(Events) /\ Len(queue) <= Capacity
  /\ closed \in BOOLEAN /\ policy \in Policies
  /\ calling \in SUBSET Workers /\ canceled \in {{}, Workers}
  /\ result \in [Workers -> PopResults]
  /\ enqueued \in Nat /\ dequeued \in Nat /\ dropped \in Nat
  /\ wpc \in [Workers -> WorkerSteps]
  /\ attempt \in [Workers -> 0 .. MaxRetries]
  /\ reply \in [Workers -> Replies]
  /\ metricDispatched \in Nat /\ metricFailures \in Nat /\ metricRetries \in Nat
  /\ accepted \in [Events -> Nat] /\ late \in [Events -> Nat]
  /\ resent \in Nat
  /\ \A w \in Busy : evt(w) \in Events /\ w \notin calling

(* The counters account for every event taken from the outbox: it is sent,  *)
(* counted as failed, or still with a worker.  Only a shutdown makes an     *)
(* event disappear from the counters.                                       *)
DispatchAccount ==
  LET accounted == metricDispatched + metricFailures + Cardinality(Busy)
  IN  /\ accounted <= dequeued
      /\ canceled = {} => accounted = dequeued

(* "Total telemetry alerts successfully sent": there are at least that many *)
(* different events the endpoint has taken.                                 *)
DispatchedWasAccepted ==
  metricDispatched <= Cardinality({e \in Events : accepted[e] > 0})

(* An event is with at most one worker, and is not in the outbox any more   *)
(* while it is: two workers never send the same event.                      *)
OneWorkerPerEvent ==
  \A w \in Busy :
    /\ \A v \in Busy \ {w} : evt(v) # evt(w)
    /\ \A i \in 1 .. Len(queue) : queue[i] # evt(w)

(* Without a unique delivery the endpoint may take an event more than once, *)
(* but never more often than there are attempts.                            *)
BoundedDuplicates == \A e \in Events : accepted[e] + late[e] <= MaxRetries + 1

(* Until the shutdown, the events taken from the outbox that no worker has  *)
(* and the endpoint did not take are all counted as failures: nothing is    *)
(* lost in silence.                                                         *)
Held == {evt(w) : w \in Busy}
NoSilentLoss ==
  canceled = {} =>
    dequeued - Cardinality({e \in Events : accepted[e] > 0} \cup Held)
      <= metricFailures

(* "Total transmission retries executed": every retry that is counted was   *)
(* sent, or its worker waits to send it; only the shutdown can cancel one   *)
(* after it was counted.                                                    *)
RetriesExecuted ==
  LET sent == resent + Cardinality({w \in Workers : wpc[w] = "backoff"})
  IN  /\ sent <= metricRetries
      /\ canceled = {} => sent = metricRetries

(* Every event in the outbox leaves it and its worker: it is evicted by a   *)
(* later event, or popped and then sent, failed or abandoned; unless the    *)
(* shutdown comes first.                                                    *)
EventsSettle ==
  \A e \in Events :
    (\E i \in 1 .. Len(queue) : queue[i] = e)
      ~> \/ canceled # {}
         \/ e \notin Held /\ \A i \in 1 .. Len(queue) : queue[i] # e

(* Run returns, whatever the endpoint does: after the cancel every worker   *)
(* ends, and after a Close too, with the outbox drained.                    *)
AllDone == \A w \in Workers : wpc[w] = "done"
RunReturns ==
  /\ canceled # {} ~> AllDone
  /\ closed ~> (AllDone /\ (queue = <<>> \/ canceled # {}))
=============================================================================
