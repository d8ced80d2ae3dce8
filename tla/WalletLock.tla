----------------------------- MODULE WalletLock -----------------------------
(***************************************************************************)
(* What the lock manager of pkg/orchestrator promises, without sessions,   *)
(* records, instances or a sweeper: a wallet is given to an attempt only   *)
(* while nobody has it.  An attempt may lose the wallet at any moment, and *)
(* several at once: it releases it, its process dies, its session ends, or *)
(* somebody deletes its record.                                            *)
(***************************************************************************)
CONSTANTS Wallets, Attempts

VARIABLE holders   \* the attempts that have each wallet

Init == holders = [w \in Wallets |-> {}]

Take(w, a) ==
  /\ holders[w] = {}
  /\ \A v \in Wallets : a \notin holders[v]
  /\ holders' = [holders EXCEPT ![w] = {a}]

Lose ==
  /\ holders' \in [Wallets -> SUBSET Attempts]
  /\ \A w \in Wallets : holders'[w] \subseteq holders[w]

Next == Lose \/ \E w \in Wallets, a \in Attempts : Take(w, a)

Spec == Init /\ [][Next]_holders
=============================================================================
