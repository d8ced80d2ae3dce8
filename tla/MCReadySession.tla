--------------------------- MODULE MCReadySession ---------------------------
(* Two processes of the node, one after the other. *)
EXTENDS ReadySession
=============================================================================
