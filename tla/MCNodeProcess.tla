---------------------------- MODULE MCNodeProcess ----------------------------
(* The node processes of one install folder, on a small instance. *)
EXTENDS NodeProcess
=============================================================================
