------------------------------ MODULE MCDaemon ------------------------------
(* The process with and without a target URL, two clients of the event      *)
(* stream, and a few ticks.                                                 *)
EXTENDS Daemon
=============================================================================
