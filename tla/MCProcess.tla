----------------------------- MODULE MCProcess ------------------------------
(* The process with one client of each kind, ETD_TARGET_URL unset, and one  *)
(* event: the channels are the matter of MCSubscribers.                     *)
EXTENDS Process
=============================================================================
