----------------------------- MODULE MCGovernor -----------------------------
(* The governor with two failing writes and one restart: a failure can hit  *)
(* the start, the release, and the return to the quiescent quota.           *)
EXTENDS Governor
=============================================================================
