---------------------------- MODULE MCDispatcher ----------------------------
(* The dispatcher with two workers, an outbox that overflows, and one       *)
(* retry: an event can be sent twice, and an event can be evicted while a   *)
(* worker is busy.  (Both are busy at an eviction only with a fourth event, *)
(* which the theorems cover.)                                               *)
EXTENDS Dispatcher, TLC

WorkerSymmetry == Permutations(Poppers)
=============================================================================
