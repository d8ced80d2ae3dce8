----------------------------- MODULE Committee -----------------------------
(***************************************************************************)
(* What the committee policy of pkg/committee promises, over sets of node  *)
(* ids: which size a pool of nodes gets, and which nodes of the pool.  The *)
(* loops that compute it are in CommitteeSelection, which is checked       *)
(* against this module; Orchestrator uses this one.                        *)
(*                                                                         *)
(* A node id is a number: its place in the lexicographic order of ids.  A  *)
(* policy is a record; its tiers are a set, because the code sorts them    *)
(* (distinct max_active values: the sort is not stable).  h maps a node to *)
(* its hashKey for the wallet and the policy version at hand.              *)
(***************************************************************************)
EXTENDS Integers, FiniteSets

\* The numbers of a policy are integers; its tiers are finitely many, so one is the largest.
IsPolicy(p) ==
  /\ p.t \in Int /\ p.cap \in Int
  /\ p.tiers \subseteq [maxActive : Int, size : Int, spare : Int]
  /\ \E q \in p.tiers : \A r \in p.tiers : r.maxActive <= q.maxActive

\* t is mpc_threshold: signing takes t + 1 nodes.
Validate(p) ==
  /\ p.t >= 1
  /\ p.cap >= p.t + 1
  /\ p.tiers # {}
  /\ \A r \in p.tiers : r.maxActive >= 1 /\ r.size >= p.t + 1 /\ r.spare >= 0

\* The first tier that admits n active nodes, or the largest one.
TierFor(p, n) ==
  LET admits == {r \in p.tiers : n <= r.maxActive}
  IN  IF admits # {}
      THEN CHOOSE r \in admits : \A q \in admits : r.maxActive <= q.maxActive
      ELSE CHOOSE r \in p.tiers : \A q \in p.tiers : r.maxActive >= q.maxActive

min3(a, b, c) ==
  LET m == IF b < a THEN b ELSE a
  IN  IF c < m THEN c ELSE m

TargetSize(p, n) == min3(n, p.cap, TierFor(p, n).size)

\* The order of sortByHash; ties go to the smaller id.
Before(h, m, n) == h[m] < h[n] \/ (h[m] = h[n] /\ m < n)

\* m is taken ahead of n: members of the old committee first, then hash order.
Preferred(h, old, m, n) ==
  \/ m \in old /\ n \notin old
  \/ (m \in old <=> n \in old) /\ Before(h, m, n)

CanSelect(p, pool) ==
  /\ Validate(p)
  /\ pool # {}
  /\ TargetSize(p, Cardinality(pool)) >= p.t + 1

\* The committee: the first TargetSize nodes of the pool in order of preference.
Chosen(p, h, old, pool) ==
  {n \in pool : Cardinality({m \in pool : Preferred(h, old, m, n)})
                  < TargetSize(p, Cardinality(pool))}
=============================================================================
