----------------------------- MODULE MCPublisher -----------------------------
(* Two calls that overlap on ed25519; the first goes on to secp256k1.       *)
EXTENDS Publisher

CONSTANT First
MCRequests ==
  [c \in Calls |-> IF c = First THEN {{"eddsa"}, Kinds} ELSE {{"eddsa"}}]
=============================================================================
