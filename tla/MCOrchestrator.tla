--------------------------- MODULE MCOrchestrator ---------------------------
(* Three nodes and the default policy scaled to t = 1: pools of two nodes   *)
(* get committees of two without a spare, three nodes get all three with    *)
(* one spare.                                                               *)
EXTENDS Orchestrator

MCPolicy == [t |-> 1, cap |-> 4, tiers |-> {[maxActive |-> 2, size |-> 2, spare |-> 0],
                                            [maxActive |-> 9, size |-> 3, spare |-> 1]}]
MCHash == [w \in Wallets |-> [n \in Nodes |-> n]]
\* The first wallet is of an old network with both families, others have ed25519 only.
CONSTANT Legacy
MCKeys == [w \in Wallets |-> IF w = Legacy THEN Kinds ELSE {"eddsa"}]
=============================================================================
