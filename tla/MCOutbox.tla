------------------------------ MODULE MCOutbox ------------------------------
(* The outbox on a small instance: a ring of two slots, so that it wraps    *)
(* around and overflows, and two or three goroutines in Pop, as the         *)
(* dispatcher has three workers.                                            *)
EXTENDS Outbox, TLC

PopperSymmetry == Permutations(Poppers)
=============================================================================
