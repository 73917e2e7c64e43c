--------------------------- MODULE MCSubscribers ---------------------------
(* The live streams with one client of each kind and channels of one event, *)
(* so that they overflow while a broadcast is running.                      *)
EXTENDS Subscribers
=============================================================================
