------------------------------ MODULE MCAgent -------------------------------
(* The agent's tick with two injections.  The ring wraps, the window is     *)
(* flushed more than once, and the holdoff ends between two ticks or after  *)
(* several.                                                                 *)
EXTENDS Agent
=============================================================================
