---------------------------- MODULE MCKeyExchange ----------------------------
(* Two nodes, short grace and gate periods. *)
EXTENDS KeyExchange
=============================================================================
