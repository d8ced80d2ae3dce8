--------------------------- MODULE MCReshareLock ---------------------------
(* Model-checking instances of ReshareLock.                                 *)
EXTENDS ReshareLock, TLC

Symmetric == Permutations(Instances) \cup Permutations(Wallets)
               \cup Permutations(Sessions) \cup Permutations(Attempts)
=============================================================================
