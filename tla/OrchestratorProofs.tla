------------------------- MODULE OrchestratorProofs -------------------------
(***************************************************************************)
(* The committee policy and the reconcile loop, for any network, policy    *)
(* and set of wallets.  The first part proves what a selection promises    *)
(* whatever the policy, hash order, old committee and pool; the second     *)
(* that SelectCommittee's loops and sorts on lists compute exactly that,   *)
(* through the life of a wallet; the third that the loop's state is well   *)
(* typed, that global_max_inflight is never exceeded and that every        *)
(* committee on record can sign.                                           *)
(***************************************************************************)
EXTENDS Orchestrator, CommitteeSelection, FiniteSetTheorems, TLAPS

----------------------------------------------------------------------------
(* The committee policy.                                                    *)

\* The node ids and the hash order a selection works with.
Input(h, pool) ==
  /\ pool \subseteq Nat
  /\ IsFiniteSet(pool)
  /\ \A n \in pool : h[n] \in Nat

\* The nodes taken ahead of n.
Ahead(h, old, pool, n) == {m \in pool : Preferred(h, old, m, n)}

\* The first k nodes of the pool: Chosen, for a given size.
First(h, old, pool, k) == {n \in pool : Cardinality(Ahead(h, old, pool, n)) < k}

\* A set of naturals has a smallest element.
LEMMA Smallest ==
  ASSUME NEW T \in SUBSET Nat, T # {}
  PROVE  \E x \in T : \A y \in T : x <= y
<1> DEFINE R == OpToRel(<, Nat)
<1>1. IsWellFoundedOn(R, Nat)
  BY NatLessThanWellFounded
<1>2. \A x, y \in Nat : y < x => <<y, x>> \in R
  BY DEF OpToRel
<1> HIDE DEF R
<1>3. PICK x \in T : \A y \in T : ~(<<y, x>> \in R)
  BY <1>1, WFMin
<1>4. \A y \in T : ~(y < x) /\ x \in Nat /\ y \in Nat
  BY <1>2, <1>3
<1> QED
  BY <1>4

\* The order of preference is strict and total.
LEMMA Order ==
  ASSUME NEW h, NEW old, NEW pool, Input(h, pool)
  PROVE  /\ \A m \in pool : ~Preferred(h, old, m, m)
         /\ \A l, m, n \in pool : Preferred(h, old, l, m) /\ Preferred(h, old, m, n)
                                   => Preferred(h, old, l, n)
         /\ \A m, n \in pool : m = n \/ Preferred(h, old, m, n) \/ Preferred(h, old, n, m)
<1>1. \A m \in pool : h[m] \in Nat /\ m \in Nat
  BY DEF Input
<1>2. \A m \in pool : ~Before(h, m, m)
  BY <1>1 DEF Before
<1>3. \A l, m, n \in pool : Before(h, l, m) /\ Before(h, m, n) => Before(h, l, n)
  BY <1>1 DEF Before
<1>4. \A m, n \in pool : m = n \/ Before(h, m, n) \/ Before(h, n, m)
  BY <1>1 DEF Before
<1> QED
  BY <1>2, <1>3, <1>4, Zenon DEF Preferred

\* The number of nodes ahead is a number.
LEMMA RankType ==
  ASSUME NEW h, NEW old, NEW pool, Input(h, pool), NEW n
  PROVE  /\ IsFiniteSet(Ahead(h, old, pool, n))
         /\ Cardinality(Ahead(h, old, pool, n)) \in Nat
<1>1. Ahead(h, old, pool, n) \subseteq pool
  BY DEF Ahead
<1> QED
  BY <1>1, FS_Subset, FS_CardinalityType DEF Input

\* Who comes first has fewer ahead.
LEMMA RankGrows ==
  ASSUME NEW h, NEW old, NEW pool, Input(h, pool), NEW m \in pool, NEW n \in pool,
         Preferred(h, old, m, n)
  PROVE  Cardinality(Ahead(h, old, pool, m)) < Cardinality(Ahead(h, old, pool, n))
<1>1. Ahead(h, old, pool, m) \subseteq Ahead(h, old, pool, n)
  BY Order DEF Ahead
<1>2. m \in Ahead(h, old, pool, n) /\ m \notin Ahead(h, old, pool, m)
  BY Order DEF Ahead
<1>3. IsFiniteSet(Ahead(h, old, pool, n)) /\ Cardinality(Ahead(h, old, pool, n)) \in Nat
  BY RankType
<1>4. Cardinality(Ahead(h, old, pool, m)) \in Nat
  BY RankType
<1> QED
  BY <1>1, <1>2, <1>3, <1>4, FS_Subset

\* No more than k nodes have fewer than k ahead.
LEMMA AtMost ==
  ASSUME NEW h, NEW old, NEW pool, Input(h, pool), NEW k \in Nat
  PROVE  /\ IsFiniteSet(First(h, old, pool, k))
         /\ Cardinality(First(h, old, pool, k)) \in Nat
         /\ Cardinality(First(h, old, pool, k)) <= k
<1> DEFINE C == First(h, old, pool, k)
           rank == [n \in C |-> Cardinality(Ahead(h, old, pool, n))]
<1>1. C \subseteq pool
  BY DEF First
<1>2. IsFiniteSet(C) /\ Cardinality(C) \in Nat
  BY <1>1, FS_Subset, FS_CardinalityType DEF Input
<1>3. rank \in [C -> 0..(k - 1)]
  <2>1. \A n \in C : Cardinality(Ahead(h, old, pool, n)) \in 0..(k - 1)
    BY RankType DEF First
  <2> QED
    BY <2>1
<1>4. \A m, n \in C : rank[m] = rank[n] => m = n
  <2> SUFFICES ASSUME NEW m \in C, NEW n \in C, m # n PROVE rank[m] # rank[n]
    OBVIOUS
  <2>1. m \in pool /\ n \in pool
    BY <1>1
  <2>2. Preferred(h, old, m, n) \/ Preferred(h, old, n, m)
    BY <2>1, Order
  <2>3. Cardinality(Ahead(h, old, pool, m)) \in Nat /\ Cardinality(Ahead(h, old, pool, n)) \in Nat
    BY RankType
  <2> QED
    BY <2>1, <2>2, <2>3, RankGrows
<1>5. rank \in Injection(C, 0..(k - 1))
  BY <1>3, <1>4 DEF Injection, IsInjective
<1>6. IsFiniteSet(0..(k - 1)) /\ Cardinality(0..(k - 1)) = k
  BY FS_Interval
<1> HIDE DEF rank, C
<1>7. Cardinality(C) <= k
  BY <1>5, <1>6, FS_Injection
<1> QED
  BY <1>2, <1>7 DEF C

\* Unless the whole pool is taken, at least k nodes have fewer than k ahead.
LEMMA AtLeast ==
  ASSUME NEW h, NEW old, NEW pool, Input(h, pool), NEW k \in Nat,
         NEW x \in pool, x \notin First(h, old, pool, k)
  PROVE  k <= Cardinality(First(h, old, pool, k))
<1> DEFINE C == First(h, old, pool, k)
           rank(n) == Cardinality(Ahead(h, old, pool, n))
           T == {rank(n) : n \in pool \ C}
<1>1. \A n \in pool : rank(n) \in Nat
  BY RankType
<1>2. T \in SUBSET Nat /\ T # {}
  BY <1>1
<1>3. PICK y \in pool \ C : \A n \in pool \ C : rank(y) <= rank(n)
  <2> HIDE DEF rank, C
  <2>1. \E r \in T : \A s \in T : r <= s
    BY <1>2, Smallest
  <2> QED
    BY <2>1
<1>4. Ahead(h, old, pool, y) \subseteq C
  <2> SUFFICES ASSUME NEW m \in pool, Preferred(h, old, m, y), m \notin C PROVE FALSE
    BY DEF Ahead
  <2>1. rank(m) < rank(y)
    BY RankGrows
  <2>2. rank(y) <= rank(m) /\ rank(m) \in Nat /\ rank(y) \in Nat
    BY <1>1, <1>3
  <2> HIDE DEF rank
  <2> QED
    BY <2>1, <2>2
<1>5. IsFiniteSet(C) /\ Cardinality(C) \in Nat
  BY AtMost
<1>6. rank(y) <= Cardinality(C)
  BY <1>4, <1>5, FS_Subset
<1>7. k <= rank(y) /\ rank(y) \in Nat
  BY <1>1, <1>3 DEF First
<1> HIDE DEF C, rank
<1>8. k <= Cardinality(C)
  BY <1>5, <1>6, <1>7
<1> QED
  BY <1>8 DEF C

\* A committee is full: selection takes exactly k nodes of a pool that has them.
LEMMA Exactly ==
  ASSUME NEW h, NEW old, NEW pool, Input(h, pool), NEW k \in Nat, k <= Cardinality(pool)
  PROVE  Cardinality(First(h, old, pool, k)) = k
<1> DEFINE C == First(h, old, pool, k)
<1>1. Cardinality(C) \in Nat /\ Cardinality(C) <= k
  BY AtMost
<1>2. k <= Cardinality(C)
  <2>1. CASE C = pool
    BY <2>1
  <2>2. CASE C # pool
    <3>1. PICK x \in pool : x \notin C
      BY <2>2 DEF First
    <3> QED
      BY <3>1, AtLeast
  <2> QED
    BY <2>1, <2>2
<1> HIDE DEF C
<1>3. Cardinality(C) = k
  BY <1>1, <1>2
<1> QED
  BY <1>3 DEF C

\* Selecting again from the same pool with the chosen nodes as the old committee
\* chooses them again.
LEMMA FirstSettles ==
  ASSUME NEW h, NEW old, NEW pool, Input(h, pool), NEW k \in Nat
  PROVE  First(h, First(h, old, pool, k), pool, k) = First(h, old, pool, k)
<1> DEFINE C == First(h, old, pool, k)
<1>1. C \subseteq pool
  BY DEF First
<1>2. IsFiniteSet(C) /\ Cardinality(C) \in Nat /\ Cardinality(C) <= k
  BY AtMost
<1>3. ASSUME NEW n \in C PROVE n \in First(h, C, pool, k)
  <2>1. Ahead(h, C, pool, n) \subseteq C /\ n \notin Ahead(h, C, pool, n)
    <3>1. n \in pool
      BY <1>1, <1>3
    <3>2. ~Preferred(h, C, n, n)
      BY <3>1, Order
    <3> QED
      BY <1>3, <3>2, Zenon DEF Ahead, Preferred
  <2>2. Cardinality(Ahead(h, C, pool, n)) <= Cardinality(C)
        /\ Cardinality(Ahead(h, C, pool, n)) # Cardinality(C)
    BY <1>2, <1>3, <2>1, FS_Subset
  <2>3. Cardinality(Ahead(h, C, pool, n)) \in Nat /\ n \in pool
    BY <1>1, <1>3, RankType
  <2> HIDE DEF C
  <2>4. Cardinality(Ahead(h, C, pool, n)) < k
    BY <1>2, <2>2, <2>3
  <2> QED
    BY <2>3, <2>4 DEF First
<1>4. ASSUME NEW n \in pool, n \notin C PROVE n \notin First(h, C, pool, k)
  <2>1. C \subseteq Ahead(h, C, pool, n)
    BY <1>1, <1>4 DEF Ahead, Preferred
  <2>2. IsFiniteSet(Ahead(h, C, pool, n)) /\ Cardinality(Ahead(h, C, pool, n)) \in Nat
    BY RankType
  <2>3. Cardinality(C) <= Cardinality(Ahead(h, C, pool, n))
    BY <2>1, <2>2, FS_Subset
  <2>4. k <= Cardinality(C)
    BY <1>4, AtLeast
  <2> HIDE DEF C
  <2>5. ~(Cardinality(Ahead(h, C, pool, n)) < k)
    BY <1>2, <2>2, <2>3, <2>4
  <2> QED
    BY <2>5 DEF First
<1>5. First(h, C, pool, k) \subseteq pool
  BY DEF First
<1> HIDE DEF C
<1>6. First(h, C, pool, k) = C
  BY <1>1, <1>3, <1>4, <1>5
<1> QED
  BY <1>6 DEF C

\* A newcomer in the committee means that every old member of the pool is in it.
LEMMA OldFirst ==
  ASSUME NEW h, NEW old, NEW pool, Input(h, pool), NEW k \in Nat,
         NEW x \in First(h, old, pool, k), x \notin old, NEW y \in pool, y \in old
  PROVE  y \in First(h, old, pool, k)
<1>1. Preferred(h, old, y, x) /\ x \in pool /\ Cardinality(Ahead(h, old, pool, x)) < k
  BY DEF Preferred, First
<1>2. Cardinality(Ahead(h, old, pool, y)) < Cardinality(Ahead(h, old, pool, x))
  BY <1>1, RankGrows
<1>3. Cardinality(Ahead(h, old, pool, x)) \in Nat /\ Cardinality(Ahead(h, old, pool, y)) \in Nat
  BY RankType
<1>4. Cardinality(Ahead(h, old, pool, y)) < k
  BY <1>1, <1>2, <1>3
<1> QED
  BY <1>4 DEF First

\* TierFor returns one of the tiers.
LEMMA TierType ==
  ASSUME NEW p, IsPolicy(p), Validate(p), NEW n \in Nat
  PROVE  TierFor(p, n) \in p.tiers
<1> DEFINE admits == {r \in p.tiers : n <= r.maxActive}
<1>1. \A r \in p.tiers : r.maxActive \in Nat
  BY DEF IsPolicy, Validate
<1>2. admits # {} => \E r \in admits : \A q \in admits : r.maxActive <= q.maxActive
  <2> DEFINE T == {r.maxActive : r \in admits}
  <2> SUFFICES ASSUME admits # {} PROVE \E r \in admits : \A q \in admits : r.maxActive <= q.maxActive
    OBVIOUS
  <2>1. T \in SUBSET Nat /\ T # {}
    BY <1>1
  <2> HIDE DEF admits
  <2>2. \E x \in T : \A y \in T : x <= y
    BY <2>1, Smallest
  <2> QED
    BY <2>2
<1>3. \E r \in p.tiers : \A q \in p.tiers : r.maxActive >= q.maxActive
  BY <1>1 DEF IsPolicy
<1>4. CASE admits # {}
  <2>1. TierFor(p, n) = CHOOSE r \in admits : \A q \in admits : r.maxActive <= q.maxActive
    BY <1>4 DEF TierFor
  <2> HIDE DEF admits
  <2>2. TierFor(p, n) \in admits
    BY <1>2, <1>4, <2>1
  <2> QED
    BY <2>2 DEF admits
<1>5. CASE admits = {}
  <2>1. TierFor(p, n) = CHOOSE r \in p.tiers : \A q \in p.tiers : r.maxActive >= q.maxActive
    BY <1>5 DEF TierFor
  <2> QED
    BY <1>3, <2>1
<1> QED
  BY <1>4, <1>5

\* The target is within the pool, the cap and the tier, and a quorum when the pool is.
LEMMA TargetBounds ==
  ASSUME NEW p, IsPolicy(p), Validate(p), NEW n \in Nat
  PROVE  /\ TargetSize(p, n) \in Nat
         /\ TargetSize(p, n) <= n /\ TargetSize(p, n) <= p.cap
         /\ n >= p.t + 1 => TargetSize(p, n) >= p.t + 1
<1>1. TierFor(p, n).size \in Int /\ TierFor(p, n).size >= p.t + 1
  BY TierType DEF IsPolicy, Validate
<1>2. p.t \in Int /\ p.cap \in Int /\ p.t >= 1 /\ p.cap >= p.t + 1
  BY DEF IsPolicy, Validate
<1> QED
  BY <1>1, <1>2 DEF TargetSize, min3

\* SelectCommittee's absolute rule, for every valid policy: a pool with a signing quorum
\* is never refused, and the committee has exactly the target size, which is a quorum
\* within the pool and the cap (committee.go:84-107, 130-137, 181-189, 239-244).
THEOREM CommitteeIsFullQuorum ==
  ASSUME NEW p, NEW h, NEW old, NEW pool, IsPolicy(p), Validate(p), Input(h, pool),
         Cardinality(pool) >= p.t + 1
  PROVE  /\ CanSelect(p, pool)
         /\ Cardinality(Chosen(p, h, old, pool)) = TargetSize(p, Cardinality(pool))
         /\ Cardinality(Chosen(p, h, old, pool)) >= p.t + 1
         /\ Cardinality(Chosen(p, h, old, pool)) <= p.cap
<1> DEFINE size == TargetSize(p, Cardinality(pool))
<1>1. Cardinality(pool) \in Nat
  BY FS_CardinalityType DEF Input
<1>2. size \in Nat /\ size <= Cardinality(pool) /\ size <= p.cap /\ size >= p.t + 1
  BY <1>1, TargetBounds
<1>3. Chosen(p, h, old, pool) = First(h, old, pool, size)
  BY DEF Chosen, First, Ahead
<1>4. pool # {}
  <2>1. p.t \in Int /\ p.t >= 1
    BY DEF IsPolicy, Validate
  <2> QED
    BY <1>1, <2>1, FS_EmptySet
<1> HIDE DEF size
<1>5. Cardinality(Chosen(p, h, old, pool)) = size
  BY <1>2, <1>3, Exactly
<1> QED
  BY <1>2, <1>4, <1>5 DEF size, CanSelect

\* Selection settles, for every policy and pool: with the committee it chose as the old
\* one, the same pool gives the same committee, so a retried reshare moves nothing
\* (the retain step, committee.go:196-219).
THEOREM SelectionSettles ==
  ASSUME NEW p, NEW h, NEW old, NEW pool, IsPolicy(p), Validate(p), Input(h, pool)
  PROVE  Chosen(p, h, Chosen(p, h, old, pool), pool) = Chosen(p, h, old, pool)
<1> DEFINE size == TargetSize(p, Cardinality(pool))
<1>1. Cardinality(pool) \in Nat
  BY FS_CardinalityType DEF Input
<1>2. size \in Nat
  BY <1>1, TargetBounds
<1>3. ASSUME NEW o PROVE Chosen(p, h, o, pool) = First(h, o, pool, size)
  BY DEF Chosen, First, Ahead
<1> HIDE DEF size
<1> QED
  BY <1>2, <1>3, FirstSettles

\* A reshare moves no more shares than it must: if it brings in a newcomer, every old
\* member still in the pool keeps its place (the retain step ahead of the fill step,
\* committee.go:196-237).
THEOREM LiveMembersStay ==
  ASSUME NEW p, NEW h, NEW old, NEW pool, IsPolicy(p), Validate(p), Input(h, pool)
  PROVE  \/ old \cap pool \subseteq Chosen(p, h, old, pool)
         \/ Chosen(p, h, old, pool) \subseteq old
<1> DEFINE size == TargetSize(p, Cardinality(pool))
<1>1. Cardinality(pool) \in Nat
  BY FS_CardinalityType DEF Input
<1>2. size \in Nat
  BY <1>1, TargetBounds
<1>3. Chosen(p, h, old, pool) = First(h, old, pool, size)
  BY DEF Chosen, First, Ahead
<1> HIDE DEF size
<1>4. \A x \in First(h, old, pool, size), y \in pool :
        x \notin old /\ y \in old => y \in First(h, old, pool, size)
  BY <1>2, OldFirst
<1> QED
  BY <1>3, <1>4

----------------------------------------------------------------------------
(* SelectCommittee on lists: the loops, the sorts and the plan.             *)

\* One pass of the dedup loop over the first k entries of a list.
Dedup(list, S, k, f) ==
  f = [i \in 0..k |->
         IF i = 0 THEN <<>>
         ELSE IF list[i] \in S /\ list[i] \notin ToSet(f[i - 1])
              THEN Append(f[i - 1], list[i])
              ELSE f[i - 1]]

\* The loop is defined on every list: its recursive definition has a solution.
LEMMA DedupExists ==
  ASSUME NEW list, NEW S, NEW n \in Nat
  PROVE  \E f : Dedup(list, S, n, f)
<1> DEFINE W == {k \in Nat : ~\E f : Dedup(list, S, k, f)}
<1> SUFFICES ASSUME W # {} PROVE FALSE
  OBVIOUS
<1>1. W \in SUBSET Nat
  OBVIOUS
<1>2. PICK k \in W : \A y \in W : k <= y
  <2> HIDE DEF W
  <2> QED
    BY <1>1, Smallest
<1>3. CASE k = 0
  <2>1. Dedup(list, S, 0, [i \in 0..0 |-> <<>>])
    BY DEF Dedup
  <2> QED
    BY <1>2, <1>3, <2>1
<1>4. CASE k # 0
  <2>1. k \in Nat /\ k - 1 \in Nat /\ k - 1 \notin W
    BY <1>2, <1>4
  <2>2. PICK f : Dedup(list, S, k - 1, f)
    BY <2>1
  <2> DEFINE new == IF list[k] \in S /\ list[k] \notin ToSet(f[k - 1])
                    THEN Append(f[k - 1], list[k])
                    ELSE f[k - 1]
             g == [i \in 0..k |-> IF i = k THEN new ELSE f[i]]
  <2> DEFINE body(r, i) == IF i = 0 THEN <<>>
                     ELSE IF list[i] \in S /\ list[i] \notin ToSet(r[i - 1])
                     THEN Append(r[i - 1], list[i])
                     ELSE r[i - 1]
  <2>3. f = [i \in 0..(k - 1) |-> body(f, i)]
    BY <2>2 DEF Dedup
  <2>4. \A i \in 0..k : i # 0 => g[i - 1] = f[i - 1]
    BY <2>1
  <2>5. \A i \in 0..k : i # k => i \in 0..(k - 1) /\ g[i] = f[i]
    BY <2>1
  <2>6. g[k] = new
    BY <2>1
  <2> HIDE DEF g
  <2>7. \A i \in 0..k : body(g, i) = body(f, i)
    BY <2>4
  <2>8. \A i \in 0..k : g[i] = body(f, i)
    <3>1. new = body(f, k)
      BY <1>4
    <3> HIDE DEF body, new
    <3> QED
      BY <2>3, <2>5, <2>6, <3>1
  <2>9. g = [i \in 0..k |-> body(g, i)]
    <3>1. g = [i \in 0..k |-> g[i]]
      BY DEF g
    <3> HIDE DEF body
    <3> QED
      BY <2>7, <2>8, <3>1
  <2>10. Dedup(list, S, k, g)
    BY <2>9 DEF Dedup
  <2> QED
    BY <1>2, <2>10
<1> QED
  BY <1>3, <1>4

\* distinct is the last value of the loop.
LEMMA DistinctIsLast ==
  ASSUME NEW list, NEW S, Len(list) \in Nat
  PROVE  \E f : Dedup(list, S, Len(list), f) /\ distinct(list, S) = f[Len(list)]
<1> DEFINE f == CHOOSE x : Dedup(list, S, Len(list), x)
<1>1. Dedup(list, S, Len(list), f)
  BY DedupExists
<1>2. distinct(list, S) = f[Len(list)]
  BY DEF distinct, Dedup
<1> QED
  BY <1>1, <1>2

\* The loop keeps the entries of the list that are in S, each once.
LEMMA DistinctList ==
  ASSUME NEW T, NEW list \in Seq(T), NEW S
  PROVE  /\ distinct(list, S) \in Seq(T)
         /\ IsInjective(distinct(list, S))
         /\ ToSet(distinct(list, S)) = ToSet(list) \cap S
<1>1. Len(list) \in Nat /\ DOMAIN list = 1..Len(list) /\ \A i \in 1..Len(list) : list[i] \in T
  OBVIOUS
<1>2. PICK f : Dedup(list, S, Len(list), f) /\ distinct(list, S) = f[Len(list)]
  BY <1>1, DistinctIsLast
<1> DEFINE Good(i) == /\ f[i] \in Seq(T)
                      /\ IsInjective(f[i])
                      /\ ToSet(f[i]) = {list[j] : j \in 1..i} \cap S
           W == {i \in 0..Len(list) : ~Good(i)}
<1>3. W = {}
  <2> SUFFICES ASSUME W # {} PROVE FALSE
    OBVIOUS
  <2>1. W \in SUBSET Nat
    BY <1>1
  <2>2. PICK k \in W : \A y \in W : k <= y
    <3> HIDE DEF W
    <3> QED
      BY <2>1, Smallest
  <2>3. k \in 0..Len(list) /\ ~Good(k)
    BY <2>2
  <2>4. CASE k = 0
    <3>1. f[0] = <<>>
      BY <1>1, <1>2 DEF Dedup
    <3>2. Good(0)
      BY <3>1 DEF ToSet, IsInjective
    <3> QED
      BY <2>3, <2>4, <3>2
  <2>5. CASE k # 0
    <3>1. k - 1 \in 0..Len(list) /\ k \in 1..Len(list) /\ k - 1 \in Nat /\ k - 1 \notin W
      <4> HIDE DEF W
      <4> QED
        BY <1>1, <2>2, <2>3, <2>5
    <3>2. Good(k - 1)
      <4> HIDE DEF Good
      <4> QED
        BY <3>1
    <3> DEFINE s == f[k - 1]
               x == list[k]
    <3>3. f[k] = IF x \in S /\ x \notin ToSet(s) THEN Append(s, x) ELSE s
      BY <1>2, <2>3, <2>5 DEF Dedup
    <3>4. s \in Seq(T) /\ IsInjective(s) /\ x \in T
      BY <1>1, <3>1, <3>2
    <3>5. ToSet(s) = {list[j] : j \in 1..(k - 1)} \cap S
      BY <3>2
    <3>6. {list[j] : j \in 1..k} = {list[j] : j \in 1..(k - 1)} \cup {x}
      BY <3>1
    <3> HIDE DEF s, x
    <3>7. CASE x \in S /\ x \notin ToSet(s)
      <4>1. f[k] = Append(s, x)
        BY <3>3, <3>7
      <4>2. /\ Append(s, x) \in Seq(T)
            /\ IsInjective(Append(s, x))
            /\ ToSet(Append(s, x)) = ToSet(s) \cup {x}
        <5>1. \A i \in 1..Len(s) : s[i] # x
          BY <3>4, <3>7 DEF ToSet
        <5>2. /\ Append(s, x) \in Seq(T)
              /\ DOMAIN Append(s, x) = 1..(Len(s) + 1)
              /\ DOMAIN s = 1..Len(s)
              /\ Len(s) \in Nat
              /\ \A i \in 1..Len(s) : Append(s, x)[i] = s[i]
              /\ Append(s, x)[Len(s) + 1] = x
          BY <3>4
        <5>3. IsInjective(Append(s, x))
          BY <3>4, <5>1, <5>2 DEF IsInjective
        <5>4. ToSet(Append(s, x)) = ToSet(s) \cup {x}
          BY <5>2 DEF ToSet
        <5> QED
          BY <5>2, <5>3, <5>4
      <4>3. Good(k)
        BY <3>5, <3>6, <3>7, <4>1, <4>2
      <4> QED
        BY <2>3, <4>3
    <3>8. CASE ~(x \in S /\ x \notin ToSet(s))
      <4>1. f[k] = s
        BY <3>3, <3>8
      <4>2. Good(k)
        BY <3>4, <3>5, <3>6, <3>8, <4>1
      <4> QED
        BY <2>3, <4>2
    <3> QED
      BY <3>7, <3>8
  <2> QED
    BY <2>4, <2>5
<1>4. Good(Len(list))
  <2> HIDE DEF Good
  <2> QED
    BY <1>1, <1>3
<1>5. ToSet(list) = {list[j] : j \in 1..Len(list)}
  BY <1>1 DEF ToSet
<1> QED
  BY <1>2, <1>4, <1>5

\* The length of a list without repetitions is the number of its entries.
LEMMA LengthIsCount ==
  ASSUME NEW T, NEW s \in Seq(T), IsInjective(s)
  PROVE  /\ IsFiniteSet(ToSet(s))
         /\ Cardinality(ToSet(s)) = Len(s)
<1>1. Len(s) \in Nat /\ DOMAIN s = 1..Len(s) /\ s \in [1..Len(s) -> T]
  OBVIOUS
<1>2. s \in Bijection(1..Len(s), ToSet(s))
  BY <1>1 DEF Bijection, Injection, Surjection, ToSet
<1>3. ExistsBijection(1..Len(s), ToSet(s))
  BY <1>2 DEF ExistsBijection
<1>4. IsFiniteSet(1..Len(s)) /\ Cardinality(1..Len(s)) = Len(s)
  BY <1>1, FS_Interval
<1> QED
  BY <1>3, <1>4, FS_Bijection

\* Counting the places of a list without repetitions counts its entries.
LEMMA PlacesCount ==
  ASSUME NEW T, NEW s \in Seq(T), IsInjective(s), NEW J \in SUBSET (1..Len(s))
  PROVE  /\ IsFiniteSet({s[j] : j \in J})
         /\ Cardinality({s[j] : j \in J}) = Cardinality(J)
<1> DEFINE g == [j \in J |-> s[j]]
<1>1. Len(s) \in Nat /\ DOMAIN s = 1..Len(s)
  OBVIOUS
<1>2. g \in Bijection(J, {s[j] : j \in J})
  BY <1>1 DEF Bijection, Injection, Surjection, IsInjective
<1>3. ExistsBijection(J, {s[j] : j \in J})
  BY <1>2 DEF ExistsBijection
<1>4. IsFiniteSet(J)
  <2>1. IsFiniteSet(1..Len(s))
    BY <1>1, FS_Interval
  <2> QED
    BY <2>1, FS_Subset
<1> QED
  BY <1>3, <1>4, FS_Bijection

\* The number of nodes of S ahead of n in hash order.
rank(h, S, n) == Cardinality(Ahead(h, {}, S, n))

\* Ranks tell nodes apart and are below the number of nodes.
LEMMA RankIsPlace ==
  ASSUME NEW h, NEW S, Input(h, S)
  PROVE  /\ \A n \in S : rank(h, S, n) \in 0..(Cardinality(S) - 1)
         /\ \A m, n \in S : rank(h, S, m) = rank(h, S, n) => m = n
<1>1. \A n \in S : rank(h, S, n) \in Nat
  BY RankType DEF rank
<1>2. IsFiniteSet(S) /\ Cardinality(S) \in Nat
  BY FS_CardinalityType DEF Input
<1>3. ASSUME NEW n \in S PROVE rank(h, S, n) < Cardinality(S)
  <2>1. Ahead(h, {}, S, n) \subseteq S /\ n \notin Ahead(h, {}, S, n)
    BY Order DEF Ahead
  <2>2. Cardinality(Ahead(h, {}, S, n)) <= Cardinality(S)
        /\ Cardinality(Ahead(h, {}, S, n)) # Cardinality(S)
    BY <1>2, <2>1, FS_Subset
  <2> QED
    BY <1>1, <1>2, <2>2 DEF rank
<1>4. ASSUME NEW m \in S, NEW n \in S, m # n PROVE rank(h, S, m) # rank(h, S, n)
  <2>1. Preferred(h, {}, m, n) \/ Preferred(h, {}, n, m)
    BY <1>4, Order
  <2>2. rank(h, S, m) < rank(h, S, n) \/ rank(h, S, n) < rank(h, S, m)
    BY <2>1, RankGrows DEF rank
  <2> QED
    BY <1>1, <2>2
<1> QED
  BY <1>1, <1>2, <1>3, <1>4

\* Every place is some node's.
LEMMA PlaceIsTaken ==
  ASSUME NEW h, NEW S, Input(h, S), NEW i \in 1..Cardinality(S)
  PROVE  \E n \in S : rank(h, S, n) = i - 1
<1>1. Cardinality(S) \in Nat
  BY FS_CardinalityType DEF Input
<1>2. i \in Nat /\ i - 1 \in Nat /\ i <= Cardinality(S) /\ i - 1 <= Cardinality(S)
  BY <1>1
<1>3. Cardinality(First(h, {}, S, i)) = i /\ Cardinality(First(h, {}, S, i - 1)) = i - 1
  BY <1>2, Exactly
<1>4. IsFiniteSet(First(h, {}, S, i - 1))
  BY <1>2, AtMost
<1>5. ~(First(h, {}, S, i) \subseteq First(h, {}, S, i - 1))
  <2> SUFFICES ASSUME First(h, {}, S, i) \subseteq First(h, {}, S, i - 1) PROVE FALSE
    OBVIOUS
  <2>1. Cardinality(First(h, {}, S, i)) <= Cardinality(First(h, {}, S, i - 1))
    BY <1>4, FS_Subset
  <2> QED
    BY <1>2, <1>3, <2>1
<1>6. PICK n \in First(h, {}, S, i) : n \notin First(h, {}, S, i - 1)
  BY <1>5
<1>7. n \in S /\ rank(h, S, n) < i /\ ~(rank(h, S, n) < i - 1)
  BY <1>6 DEF First, rank
<1>8. rank(h, S, n) \in Nat
  BY <1>7, RankType DEF rank
<1>9. rank(h, S, n) = i - 1
  BY <1>2, <1>7, <1>8
<1> QED
  BY <1>7, <1>9

\* The counts by which sortByHash finds the i-th entry are its rank and its rank plus one.
LEMMA SortCounts ==
  ASSUME NEW T, NEW h, NEW ids \in Seq(T), IsInjective(ids), Input(h, ToSet(ids)),
         NEW n \in ToSet(ids)
  PROVE  /\ Cardinality({j \in 1..Len(ids) : Before(h, ids[j], n)}) = rank(h, ToSet(ids), n)
         /\ Cardinality({j \in 1..Len(ids) : ~Before(h, n, ids[j])}) = rank(h, ToSet(ids), n) + 1
<1> DEFINE S == ToSet(ids)
           J == {j \in 1..Len(ids) : Before(h, ids[j], n)}
           K == {j \in 1..Len(ids) : ~Before(h, n, ids[j])}
<1>1. \A m : m \in S <=> \E j \in 1..Len(ids) : ids[j] = m
  BY DEF ToSet
<1>2. \A l, m : Preferred(h, {}, l, m) <=> Before(h, l, m)
  BY DEF Preferred
<1>3. Input(h, S) /\ n \in S
  OBVIOUS
<1>4. J \in SUBSET (1..Len(ids)) /\ K \in SUBSET (1..Len(ids))
  OBVIOUS
<1> HIDE DEF S
<1>5. {ids[j] : j \in J} = Ahead(h, {}, S, n)
  BY <1>1, <1>2 DEF Ahead
<1>6. {ids[j] : j \in K} = Ahead(h, {}, S, n) \cup {n}
  <2>1. /\ ~Preferred(h, {}, n, n)
        /\ \A m \in S : Preferred(h, {}, n, m) => ~Preferred(h, {}, m, n)
        /\ \A m \in S : m = n \/ Preferred(h, {}, m, n) \/ Preferred(h, {}, n, m)
    BY <1>3, Order
  <2>2. \A m \in S : ~Before(h, n, m) <=> m = n \/ Before(h, m, n)
    BY <1>2, <1>3, <2>1
  <2> QED
    BY <1>1, <1>2, <1>3, <2>2 DEF Ahead
<1>7. IsFiniteSet(Ahead(h, {}, S, n)) /\ n \notin Ahead(h, {}, S, n)
  <2>1. ~Preferred(h, {}, n, n)
    BY <1>3, Order
  <2>2. IsFiniteSet(Ahead(h, {}, S, n))
    BY <1>3, RankType
  <2> QED
    BY <2>1, <2>2 DEF Ahead
<1> HIDE DEF J, K
<1>8. Cardinality(Ahead(h, {}, S, n) \cup {n}) = Cardinality(Ahead(h, {}, S, n)) + 1
  BY <1>7, FS_AddElement
<1>9. Cardinality({ids[j] : j \in J}) = Cardinality(J)
  BY <1>4, PlacesCount
<1>10. Cardinality({ids[j] : j \in K}) = Cardinality(K)
  BY <1>4, PlacesCount
<1>11. Cardinality(J) = rank(h, S, n) /\ Cardinality(K) = rank(h, S, n) + 1
  BY <1>5, <1>6, <1>8, <1>9, <1>10 DEF rank
<1> QED
  BY <1>11 DEF J, K, S

\* sortByHash puts a list in hash order: the i-th entry has i - 1 ahead of it.
LEMMA SortRanks ==
  ASSUME NEW T, NEW h, NEW ids \in Seq(T), IsInjective(ids), Input(h, ToSet(ids))
  PROVE  /\ sortByHash(h, ids) \in [1..Len(ids) -> ToSet(ids)]
         /\ \A i \in 1..Len(ids) : rank(h, ToSet(ids), sortByHash(h, ids)[i]) = i - 1
<1> DEFINE S == ToSet(ids)
           before(n) == Cardinality({j \in 1..Len(ids) : Before(h, ids[j], n)})
           notAfter(n) == Cardinality({j \in 1..Len(ids) : ~Before(h, n, ids[j])})
           fits(i, n) == before(n) < i /\ i <= notAfter(n)
<1>1. sortByHash(h, ids) = [i \in 1..Len(ids) |-> CHOOSE n \in S : fits(i, n)]
  BY DEF sortByHash
<1>2. Cardinality(S) = Len(ids)
  BY LengthIsCount
<1>3. \A n \in S : rank(h, S, n) \in Nat
  BY RankType DEF rank
<1>4. \A n \in S : \A i \in 1..Len(ids) : fits(i, n) <=> rank(h, S, n) = i - 1
  <2> SUFFICES ASSUME NEW n \in S, NEW i \in 1..Len(ids)
               PROVE  fits(i, n) <=> rank(h, S, n) = i - 1
    OBVIOUS
  <2>1. before(n) = rank(h, S, n) /\ notAfter(n) = rank(h, S, n) + 1
    BY SortCounts
  <2>2. i \in Nat /\ rank(h, S, n) \in Nat
    BY <1>3
  <2> HIDE DEF S, before, notAfter
  <2> QED
    BY <2>1, <2>2
<1>5. \A i \in 1..Len(ids) : \E n \in S : rank(h, S, n) = i - 1
  BY <1>2, PlaceIsTaken
<1> HIDE DEF S, fits
<1>6. \A i \in 1..Len(ids) : LET n == CHOOSE m \in S : fits(i, m)
                             IN  n \in S /\ rank(h, S, n) = i - 1
  BY <1>4, <1>5
<1>7. /\ sortByHash(h, ids) \in [1..Len(ids) -> S]
      /\ \A i \in 1..Len(ids) : rank(h, S, sortByHash(h, ids)[i]) = i - 1
  BY <1>1, <1>6
<1> QED
  BY <1>7 DEF S

\* The sorted list holds the entries of the list, once each.
LEMMA SortKeeps ==
  ASSUME NEW T, NEW h, NEW ids \in Seq(T), IsInjective(ids), Input(h, ToSet(ids))
  PROVE  /\ sortByHash(h, ids) \in Seq(ToSet(ids))
         /\ Len(sortByHash(h, ids)) = Len(ids)
         /\ IsInjective(sortByHash(h, ids))
         /\ ToSet(sortByHash(h, ids)) = ToSet(ids)
<1> DEFINE S == ToSet(ids)
           s == sortByHash(h, ids)
<1>1. Len(ids) \in Nat /\ Cardinality(S) = Len(ids)
  BY LengthIsCount
<1>2. /\ s \in [1..Len(ids) -> S]
      /\ \A i \in 1..Len(ids) : rank(h, S, s[i]) = i - 1
  BY SortRanks
<1>3. /\ \A n \in S : rank(h, S, n) \in 0..(Len(ids) - 1)
      /\ \A m, n \in S : rank(h, S, m) = rank(h, S, n) => m = n
  BY <1>1, RankIsPlace
<1> HIDE DEF s, S
<1>4. s \in Seq(S) /\ Len(s) = Len(ids)
  BY <1>1, <1>2
<1>5. IsInjective(s)
  <2> SUFFICES ASSUME NEW i \in 1..Len(ids), NEW j \in 1..Len(ids), s[i] = s[j] PROVE i = j
    BY <1>2 DEF IsInjective
  <2>1. i - 1 = j - 1
    BY <1>2
  <2> QED
    BY <1>1, <2>1
<1>6. ToSet(s) = S
  <2>1. \A n \in S : rank(h, S, n) + 1 \in 1..Len(ids) /\ s[rank(h, S, n) + 1] = n
    <3> SUFFICES ASSUME NEW n \in S
                 PROVE  rank(h, S, n) + 1 \in 1..Len(ids) /\ s[rank(h, S, n) + 1] = n
      OBVIOUS
    <3> DEFINE r == rank(h, S, n)
    <3>1. r \in 0..(Len(ids) - 1)
      BY <1>3
    <3> HIDE DEF r
    <3>2. r + 1 \in 1..Len(ids) /\ (r + 1) - 1 = r
      BY <1>1, <3>1
    <3>3. s[r + 1] \in S /\ rank(h, S, s[r + 1]) = r
      BY <1>2, <3>2
    <3>4. s[r + 1] = n
      BY <1>3, <3>3 DEF r
    <3> QED
      BY <3>2, <3>4 DEF r
  <2> QED
    BY <1>2, <2>1 DEF ToSet
<1> QED
  BY <1>4, <1>5, <1>6 DEF s, S

\* The first k of the sorted list are the first k of its entries in hash order.
LEMMA SortPrefix ==
  ASSUME NEW T, NEW h, NEW ids \in Seq(T), IsInjective(ids), Input(h, ToSet(ids)),
         NEW k \in 0..Len(ids)
  PROVE  /\ SubSeq(sortByHash(h, ids), 1, k) \in Seq(ToSet(ids))
         /\ Len(SubSeq(sortByHash(h, ids), 1, k)) = k
         /\ IsInjective(SubSeq(sortByHash(h, ids), 1, k))
         /\ ToSet(SubSeq(sortByHash(h, ids), 1, k)) = First(h, {}, ToSet(ids), k)
<1> DEFINE S == ToSet(ids)
           s == sortByHash(h, ids)
           q == SubSeq(s, 1, k)
<1>1. Len(ids) \in Nat /\ k \in Nat /\ k <= Len(ids)
  OBVIOUS
<1>2. s \in Seq(S) /\ Len(s) = Len(ids) /\ IsInjective(s) /\ ToSet(s) = S
  BY SortKeeps
<1>3. /\ s \in [1..Len(ids) -> S]
      /\ \A i \in 1..Len(ids) : rank(h, S, s[i]) = i - 1
  BY SortRanks
<1> HIDE DEF s, S
<1>4. /\ q \in Seq(S) /\ Len(q) = k /\ DOMAIN q = 1..k
      /\ \A i \in 1..k : q[i] = s[i] /\ i \in 1..Len(ids)
  BY <1>1, <1>2
<1> HIDE DEF q
<1>5. IsInjective(q)
  BY <1>2, <1>3, <1>4 DEF IsInjective
<1>6. ToSet(q) = First(h, {}, S, k)
  <2>1. \A i \in 1..Len(ids) : s[i] \in First(h, {}, S, k) <=> i - 1 < k
    BY <1>3 DEF First, rank
  <2>2. \A i \in 1..Len(ids) : i - 1 < k <=> i \in 1..k
    BY <1>1
  <2>3. \A n \in S : \E i \in 1..Len(ids) : s[i] = n
    BY <1>2, <1>3 DEF ToSet
  <2>4. First(h, {}, S, k) \subseteq S
    BY DEF First
  <2>5. \A n : n \in ToSet(q) <=> \E i \in 1..k : s[i] = n
    BY <1>4 DEF ToSet
  <2> QED
    BY <1>4, <2>1, <2>2, <2>3, <2>4, <2>5
<1> QED
  BY <1>4, <1>5, <1>6 DEF q, s, S

\* The sorted list depends only on which entries there are, not on their order.
LEMMA SortIsCanonical ==
  ASSUME NEW T, NEW h, NEW ids \in Seq(T), NEW other \in Seq(T),
         IsInjective(ids), IsInjective(other), ToSet(ids) = ToSet(other),
         Input(h, ToSet(ids))
  PROVE  sortByHash(h, ids) = sortByHash(h, other)
<1> DEFINE S == ToSet(ids)
           s == sortByHash(h, ids)
           r == sortByHash(h, other)
<1>1. Len(ids) = Len(other)
  BY LengthIsCount
<1>2. /\ s \in [1..Len(ids) -> S]
      /\ \A i \in 1..Len(ids) : rank(h, S, s[i]) = i - 1
  BY SortRanks
<1>3. /\ r \in [1..Len(other) -> S]
      /\ \A i \in 1..Len(other) : rank(h, S, r[i]) = i - 1
  <2>1. Input(h, ToSet(other))
    OBVIOUS
  <2>2. /\ r \in [1..Len(other) -> ToSet(other)]
        /\ \A i \in 1..Len(other) : rank(h, ToSet(other), r[i]) = i - 1
    BY <2>1, SortRanks
  <2> QED
    BY <2>2
<1>4. \A m, n \in S : rank(h, S, m) = rank(h, S, n) => m = n
  BY RankIsPlace
<1> HIDE DEF s, r, S
<1>5. \A i \in 1..Len(ids) : s[i] = r[i]
  BY <1>1, <1>2, <1>3, <1>4
<1>6. s = r
  BY <1>1, <1>2, <1>3, <1>5
<1> QED
  BY <1>6 DEF s, r

\* The members of the old committee that are in the pool, and the other nodes of the pool.
Alive(old, pool) == old \cap pool
Others(old, pool) == pool \ old

\* Where more old members are alive than fit, the first k in hash order are the committee.
LEMMA TrimChooses ==
  ASSUME NEW h, NEW old, NEW pool, Input(h, pool),
         NEW k \in Nat, k <= Cardinality(Alive(old, pool))
  PROVE  First(h, {}, Alive(old, pool), k) = First(h, old, pool, k)
<1> DEFINE R == Alive(old, pool)
<1>0. \A n : n \in R <=> n \in old /\ n \in pool
  BY DEF Alive
<1> HIDE DEF R
<1>1. IsFiniteSet(R) /\ Cardinality(R) \in Nat
  <2>1. R \subseteq pool
    BY <1>0
  <2> QED
    BY <2>1, FS_Subset, FS_CardinalityType DEF Input
<1>2. ASSUME NEW n \in R PROVE Ahead(h, {}, R, n) = Ahead(h, old, pool, n)
  BY <1>0, <1>2 DEF Ahead, Preferred
<1>3. ASSUME NEW n \in pool, n \notin R PROVE n \notin First(h, old, pool, k)
  <2>1. R \subseteq Ahead(h, old, pool, n)
    BY <1>0, <1>3 DEF Ahead, Preferred
  <2>2. IsFiniteSet(Ahead(h, old, pool, n)) /\ Cardinality(Ahead(h, old, pool, n)) \in Nat
    BY RankType
  <2>3. Cardinality(R) <= Cardinality(Ahead(h, old, pool, n))
    BY <2>1, <2>2, FS_Subset
  <2>4. ~(Cardinality(Ahead(h, old, pool, n)) < k)
    BY <1>1, <2>2, <2>3 DEF R
  <2> QED
    BY <2>4 DEF First
<1>4. First(h, {}, R, k) \subseteq R /\ First(h, old, pool, k) \subseteq pool /\ R \subseteq pool
  BY <1>0 DEF First
<1>5. \A n \in R : n \in First(h, {}, R, k) <=> n \in First(h, old, pool, k)
  BY <1>2, <1>4 DEF First
<1>6. First(h, {}, R, k) = First(h, old, pool, k)
  BY <1>3, <1>4, <1>5
<1> QED
  BY <1>6 DEF R

\* Where all live old members fit, the first others in hash order complete the committee.
LEMMA FillChooses ==
  ASSUME NEW h, NEW old, NEW pool, Input(h, pool),
         NEW k \in Nat, Cardinality(Alive(old, pool)) <= k
  PROVE  \A n : n \in First(h, old, pool, k) <=>
                  \/ n \in Alive(old, pool)
                  \/ n \in First(h, {}, Others(old, pool), k - Cardinality(Alive(old, pool)))
<1> DEFINE R == Alive(old, pool)
           Q == Others(old, pool)
           c == Cardinality(R)
<1>0. /\ \A n : n \in R <=> n \in old /\ n \in pool
      /\ \A n : n \in Q <=> n \in pool /\ n \notin old
  BY DEF Alive, Others
<1> HIDE DEF R, Q
<1>1. IsFiniteSet(R) /\ c \in Nat
  <2>1. R \subseteq pool
    BY <1>0
  <2> QED
    BY <2>1, FS_Subset, FS_CardinalityType DEF Input
<1>2. Input(h, Q)
  <2>1. Q \subseteq pool
    BY <1>0
  <2> QED
    BY <2>1, FS_Subset DEF Input
<1>3. ASSUME NEW n \in R PROVE n \in First(h, old, pool, k)
  <2>1. Ahead(h, old, pool, n) \subseteq R /\ n \notin Ahead(h, old, pool, n)
    <3>1. ~Preferred(h, old, n, n)
      BY <1>0, <1>3, Order
    <3> QED
      BY <1>0, <1>3, <3>1, Zenon DEF Ahead, Preferred
  <2>2. Cardinality(Ahead(h, old, pool, n)) <= c /\ Cardinality(Ahead(h, old, pool, n)) # c
    BY <1>1, <1>3, <2>1, FS_Subset
  <2>3. Cardinality(Ahead(h, old, pool, n)) \in Nat /\ n \in pool
    BY <1>0, <1>3, RankType
  <2>4. Cardinality(Ahead(h, old, pool, n)) < k
    BY <1>1, <2>2, <2>3 DEF R
  <2> QED
    BY <2>3, <2>4 DEF First
<1>4. ASSUME NEW n \in Q
      PROVE  n \in First(h, {}, Q, k - c) <=> n \in First(h, old, pool, k)
  <2> DEFINE A == Ahead(h, {}, Q, n)
             B == Ahead(h, old, pool, n)
  <2>1. B = R \cup A /\ R \cap A = {}
    BY <1>0, <1>4 DEF Ahead, Preferred
  <2>2. IsFiniteSet(A) /\ Cardinality(A) \in Nat
    BY <1>2, RankType
  <2> HIDE DEF A, B
  <2>3. Cardinality(B) = c + Cardinality(A)
    <3>1. Cardinality(R \cup A) = c + Cardinality(A) - Cardinality(R \cap A)
      BY <1>1, <2>2, FS_Union
    <3>2. Cardinality(R \cap A) = 0
      BY <2>1, FS_EmptySet
    <3> QED
      BY <1>1, <2>1, <2>2, <3>1, <3>2
  <2>4. Cardinality(A) < k - c <=> Cardinality(B) < k
    BY <1>1, <2>2, <2>3
  <2>5. n \in pool
    BY <1>0, <1>4
  <2>6. /\ n \in First(h, {}, Q, k - c) <=> Cardinality(A) < k - c
        /\ n \in First(h, old, pool, k) <=> Cardinality(B) < k
    BY <1>4, <2>5 DEF First, A, B
  <2> QED
    BY <2>4, <2>6
<1>5. /\ First(h, {}, Q, k - c) \subseteq Q
      /\ First(h, old, pool, k) \subseteq pool
      /\ R \cup Q = pool
  BY <1>0 DEF First
<1> HIDE DEF c
<1>6. \A n : n \in First(h, old, pool, k) <=> n \in R \/ n \in First(h, {}, Q, k - c)
  BY <1>3, <1>4, <1>5
<1> QED
  BY <1>6 DEF R, Q, c

\* Filling up from the sorted candidates adds the first of them, up to the size.
LEMMA FillUpAdds ==
  ASSUME NEW T, NEW h, NEW retained \in Seq(T), NEW others \in Seq(T), NEW k \in Nat,
         IsInjective(retained), IsInjective(others), Input(h, ToSet(others)),
         \A n \in ToSet(retained) : n \notin ToSet(others),
         Len(retained) <= k, k - Len(retained) <= Len(others),
         NEW m, m = fillUp(retained, sortByHash(h, others), k)
  PROVE  /\ m \in Seq(T) /\ Len(m) = k /\ IsInjective(m)
         /\ \A n : n \in ToSet(m) <=>
                     n \in ToSet(retained) \/ n \in First(h, {}, ToSet(others), k - Len(retained))
<1> DEFINE room == k - Len(retained)
           s == sortByHash(h, others)
           q == SubSeq(s, 1, room)
<1>1. Len(retained) \in Nat /\ Len(others) \in Nat /\ room \in 0..Len(others)
  OBVIOUS
<1>2. s \in Seq(ToSet(others)) /\ Len(s) = Len(others)
  BY SortKeeps
<1> HIDE DEF room
<1>3. /\ q \in Seq(ToSet(others)) /\ Len(q) = room /\ IsInjective(q)
      /\ ToSet(q) = First(h, {}, ToSet(others), room)
  BY <1>1, SortPrefix
<1> HIDE DEF s
<1>4. m = retained \o q
  <2>1. (IF room < Len(s) THEN room ELSE Len(s)) = room
    BY <1>1, <1>2
  <2> QED
    BY <2>1 DEF fillUp, room, s
<1>5. ToSet(others) \subseteq T
  BY DEF ToSet
<1>6. q \in Seq(T)
  BY <1>3, <1>5
<1>7. \A i \in 1..Len(q) : q[i] \in ToSet(others)
  BY <1>3
<1>8. \A i \in 1..Len(retained) : retained[i] \in ToSet(retained)
  BY DEF ToSet
<1> HIDE DEF q
<1>9. /\ m \in Seq(T) /\ Len(m) = Len(retained) + room
      /\ DOMAIN m = 1..(Len(retained) + room)
      /\ \A i \in 1..Len(retained) : m[i] = retained[i]
      /\ \A i \in (Len(retained) + 1)..(Len(retained) + room) :
           m[i] = q[i - Len(retained)] /\ i - Len(retained) \in 1..room
  <2>1. /\ m \in Seq(T) /\ Len(m) = Len(retained) + Len(q)
        /\ \A i \in 1..(Len(retained) + Len(q)) :
             m[i] = IF i <= Len(retained) THEN retained[i] ELSE q[i - Len(retained)]
    BY <1>4, <1>6
  <2>2. Len(q) = room /\ room \in Nat /\ Len(retained) \in Nat
    BY <1>1, <1>3
  <2>3. ASSUME NEW i \in 1..Len(retained) PROVE m[i] = retained[i]
    BY <2>1, <2>2
  <2>4. ASSUME NEW i \in (Len(retained) + 1)..(Len(retained) + room)
        PROVE  m[i] = q[i - Len(retained)] /\ i - Len(retained) \in 1..room
    <3>1. i \in 1..(Len(retained) + room) /\ ~(i <= Len(retained)) /\ i - Len(retained) \in 1..room
      BY <2>2
    <3> QED
      BY <2>1, <2>2, <3>1
  <2> QED
    BY <2>1, <2>2, <2>3, <2>4
<1>10. Len(m) = k
  BY <1>1, <1>9 DEF room
<1>11. IsInjective(m)
  <2> SUFFICES ASSUME NEW i \in 1..(Len(retained) + room), NEW j \in 1..(Len(retained) + room),
                      m[i] = m[j]
               PROVE  i = j
    BY <1>9 DEF IsInjective
  <2> DEFINE low(x) == x \in 1..Len(retained)
             high(x) == x \in (Len(retained) + 1)..(Len(retained) + room)
  <2>1. (low(i) \/ high(i)) /\ (low(j) \/ high(j))
    BY <1>1
  <2>2. CASE low(i) /\ low(j)
    <3>1. retained[i] = retained[j]
      BY <1>9, <2>2
    <3> QED
      BY <2>2, <3>1 DEF IsInjective
  <2>3. CASE high(i) /\ high(j)
    <3>1. /\ q[i - Len(retained)] = q[j - Len(retained)]
          /\ i - Len(retained) \in 1..room /\ j - Len(retained) \in 1..room
      BY <1>9, <2>3
    <3>2. DOMAIN q = 1..room
      BY <1>3
    <3>3. i - Len(retained) = j - Len(retained)
      BY <1>3, <3>1, <3>2 DEF IsInjective
    <3> QED
      BY <1>1, <3>3
  <2>4. CASE low(i) /\ high(j)
    <3>1. m[i] \in ToSet(retained) /\ m[j] \in ToSet(others)
      BY <1>3, <1>7, <1>8, <1>9, <2>4
    <3> QED
      BY <3>1
  <2>5. CASE high(i) /\ low(j)
    <3>1. m[j] \in ToSet(retained) /\ m[i] \in ToSet(others)
      BY <1>3, <1>7, <1>8, <1>9, <2>5
    <3> QED
      BY <3>1
  <2> QED
    BY <2>1, <2>2, <2>3, <2>4, <2>5
<1>12. ToSet(m) = ToSet(retained) \cup ToSet(q)
  <2>1. ASSUME NEW i \in DOMAIN m PROVE m[i] \in ToSet(retained) \cup ToSet(q)
    <3>1. CASE i \in 1..Len(retained)
      BY <1>8, <1>9, <3>1
    <3>2. CASE i \notin 1..Len(retained)
      <4>1. i \in (Len(retained) + 1)..(Len(retained) + room)
        BY <1>1, <1>9, <2>1, <3>2
      <4>2. m[i] = q[i - Len(retained)] /\ i - Len(retained) \in DOMAIN q
        BY <1>3, <1>9, <4>1
      <4> QED
        BY <4>2 DEF ToSet
    <3> QED
      BY <3>1, <3>2
  <2>2. ASSUME NEW i \in 1..Len(retained) PROVE retained[i] \in ToSet(m)
    <3>1. i \in DOMAIN m /\ m[i] = retained[i]
      BY <1>1, <1>9
    <3> QED
      BY <3>1 DEF ToSet
  <2>3. ASSUME NEW i \in 1..room PROVE q[i] \in ToSet(m)
    <3> DEFINE j == Len(retained) + i
    <3>1. j \in (Len(retained) + 1)..(Len(retained) + room) /\ j - Len(retained) = i
      BY <1>1
    <3>2. j \in DOMAIN m /\ m[j] = q[i]
      <4> HIDE DEF j
      <4>1. j \in 1..(Len(retained) + room)
        BY <1>1, <3>1
      <4> QED
        BY <1>9, <3>1, <4>1
    <3> QED
      BY <3>2 DEF ToSet
  <2>4. DOMAIN retained = 1..Len(retained) /\ DOMAIN q = 1..room
    BY <1>3
  <2> QED
    BY <2>1, <2>2, <2>3, <2>4 DEF ToSet
<1> QED
  BY <1>3, <1>9, <1>10, <1>11, <1>12 DEF room

\* The retain step keeps the live old members, or the committee when they are too many.
LEMMA RetainKeeps ==
  ASSUME NEW T, NEW h, NEW old \in Seq(T), NEW pool, Input(h, pool), NEW k \in Nat,
         NEW r, r = retain(h, old, pool, k)
  PROVE  /\ r \in Seq(T) /\ IsInjective(r) /\ Len(r) <= k
         /\ \/ /\ Cardinality(Alive(ToSet(old), pool)) <= k
               /\ ToSet(r) = Alive(ToSet(old), pool)
            \/ Len(r) = k /\ ToSet(r) = First(h, ToSet(old), pool, k)
<1> DEFINE d == distinct(old, pool)
           alive == Alive(ToSet(old), pool)
<1>1. d \in Seq(T) /\ IsInjective(d) /\ ToSet(d) = alive
  <2>1. d \in Seq(T) /\ IsInjective(d) /\ ToSet(d) = ToSet(old) \cap pool
    BY DistinctList
  <2> QED
    BY <2>1 DEF Alive
<1>2. r = IF Len(d) > k THEN SubSeq(sortByHash(h, d), 1, k) ELSE d
  BY DEF retain
<1> HIDE DEF d
<1>3. Len(d) \in Nat /\ Cardinality(alive) = Len(d)
  <2>1. Cardinality(ToSet(d)) = Len(d)
    BY <1>1, LengthIsCount
  <2> QED
    BY <1>1, <2>1
<1>4. Input(h, alive)
  <2>1. alive \subseteq pool
    BY DEF Alive
  <2> QED
    BY <2>1, FS_Subset DEF Input
<1>5. alive \subseteq T
  BY <1>1 DEF ToSet
<1> HIDE DEF alive
<1>6. CASE Len(d) > k
  <2>1. k \in 0..Len(d)
    BY <1>3, <1>6
  <2>2. /\ r \in Seq(alive) /\ Len(r) = k /\ IsInjective(r)
        /\ ToSet(r) = First(h, {}, alive, k)
    <3>1. r = SubSeq(sortByHash(h, d), 1, k)
      BY <1>2, <1>6
    <3>2. d \in Seq(T) /\ IsInjective(d) /\ Input(h, ToSet(d))
      BY <1>1, <1>4
    <3>3. /\ SubSeq(sortByHash(h, d), 1, k) \in Seq(ToSet(d))
          /\ Len(SubSeq(sortByHash(h, d), 1, k)) = k
          /\ IsInjective(SubSeq(sortByHash(h, d), 1, k))
          /\ ToSet(SubSeq(sortByHash(h, d), 1, k)) = First(h, {}, ToSet(d), k)
      BY <2>1, <3>2, SortPrefix
    <3> QED
      BY <1>1, <3>1, <3>3
  <2>3. r \in Seq(T)
    BY <1>5, <2>2
  <2>4. First(h, {}, alive, k) = First(h, ToSet(old), pool, k)
    <3>1. k <= Cardinality(alive)
      BY <1>3, <2>1
    <3> QED
      BY <3>1, TrimChooses DEF alive
  <2> QED
    BY <2>2, <2>3, <2>4
<1>7. CASE ~(Len(d) > k)
  <2>1. r = d /\ Len(d) <= k
    BY <1>2, <1>3, <1>7
  <2> QED
    BY <1>1, <1>3, <2>1 DEF alive
<1> QED
  BY <1>6, <1>7

\* The retain and fill steps return exactly k nodes, the first k in order of preference.
LEMMA MembersChosen ==
  ASSUME NEW T, NEW h, NEW old \in Seq(T), NEW ids \in Seq(T), IsInjective(ids),
         NEW P, P = ToSet(ids), Input(h, P), NEW k \in Nat, k <= Len(ids),
         NEW m, m = fill(h, retain(h, old, P, k), ids, k)
  PROVE  /\ m \in Seq(T) /\ IsInjective(m) /\ Len(m) = k
         /\ ToSet(m) = First(h, ToSet(old), P, k)
<1> DEFINE alive == Alive(ToSet(old), P)
           r == retain(h, old, P, k)
           others == distinct(ids, P \ ToSet(r))
<1>1. Input(h, P) /\ k \in Nat /\ Len(ids) \in Nat /\ k <= Len(ids)
  OBVIOUS
<1>2. IsFiniteSet(P) /\ Cardinality(P) = Len(ids)
  BY LengthIsCount
<1> HIDE DEF alive, r
<1>3. /\ r \in Seq(T) /\ IsInjective(r) /\ Len(r) <= k
      /\ \/ Cardinality(alive) <= k /\ ToSet(r) = alive
         \/ Len(r) = k /\ ToSet(r) = First(h, ToSet(old), P, k)
  BY <1>1, RetainKeeps DEF r, alive
<1>4. others \in Seq(T) /\ IsInjective(others) /\ ToSet(others) = P \cap (P \ ToSet(r))
  BY DistinctList
<1>5. m = fillUp(r, sortByHash(h, others), k)
  BY DEF fill, r
<1> HIDE DEF others
<1>6. ToSet(others) = P \ ToSet(r) /\ \A n \in ToSet(r) : n \notin ToSet(others)
  BY <1>4
<1>7. ToSet(r) \subseteq P
  BY <1>3 DEF First, alive, Alive
<1>8. Input(h, ToSet(others))
  <2>1. ToSet(others) \subseteq P
    BY <1>6
  <2> QED
    BY <1>1, <2>1, FS_Subset DEF Input
<1>9. Len(r) \in Nat /\ Len(others) \in Nat /\ Cardinality(ToSet(r)) = Len(r)
      /\ Cardinality(ToSet(others)) = Len(others)
  <2>1. Cardinality(ToSet(r)) = Len(r)
    BY <1>3, LengthIsCount
  <2>2. Cardinality(ToSet(others)) = Len(others)
    BY <1>4, LengthIsCount
  <2> QED
    BY <1>3, <1>4, <2>1, <2>2
<1>10. Len(others) = Len(ids) - Len(r)
  <2>1. Cardinality(P \ ToSet(r)) = Cardinality(P) - Cardinality(P \cap ToSet(r))
    BY <1>2, FS_Difference
  <2>2. P \cap ToSet(r) = ToSet(r)
    BY <1>7
  <2> QED
    BY <1>2, <1>6, <1>9, <2>1, <2>2
<1>11. k - Len(r) <= Len(others)
  BY <1>1, <1>9, <1>10
<1>12. /\ m \in Seq(T) /\ Len(m) = k /\ IsInjective(m)
       /\ \A n : n \in ToSet(m) <=> n \in ToSet(r) \/ n \in First(h, {}, ToSet(others), k - Len(r))
  <2>1. r \in Seq(T) /\ others \in Seq(T) /\ IsInjective(r) /\ IsInjective(others)
    BY <1>3, <1>4
  <2>2. Len(r) <= k /\ k - Len(r) <= Len(others) /\ k \in Nat
    BY <1>1, <1>3, <1>11
  <2>3. \A n \in ToSet(r) : n \notin ToSet(others)
    BY <1>6
  <2> QED
    BY <1>5, <1>8, <2>1, <2>2, <2>3, FillUpAdds
<1>13. ToSet(m) = First(h, ToSet(old), P, k)
  <2>1. CASE Cardinality(alive) <= k /\ ToSet(r) = alive
    <3>1. Len(r) = Cardinality(alive) /\ ToSet(others) = Others(ToSet(old), P)
      BY <1>6, <1>9, <2>1 DEF alive, Alive, Others
    <3>2. \A n : n \in First(h, ToSet(old), P, k) <=>
                   n \in alive \/ n \in First(h, {}, ToSet(others), k - Cardinality(alive))
      BY <1>1, <2>1, <3>1, FillChooses DEF alive
    <3> QED
      BY <1>12, <2>1, <3>1, <3>2
  <2>2. CASE Len(r) = k /\ ToSet(r) = First(h, ToSet(old), P, k)
    <3>1. k - Len(r) = 0
      BY <1>1, <2>2
    <3>2. First(h, {}, ToSet(others), 0) = {}
      <4>1. \A n : Cardinality(Ahead(h, {}, ToSet(others), n)) \in Nat
        BY <1>8, RankType
      <4> QED
        BY <4>1 DEF First
    <3> QED
      BY <1>12, <2>2, <3>1, <3>2
  <2> QED
    BY <1>3, <2>1, <2>2
<1> QED
  BY <1>12, <1>13

\* Ids are numbers, so a list of them can be sorted as strings.
LEMMA IdsSort ==
  ASSUME NEW ids \in Seq(Ids), IsInjective(ids)
  PROVE  Input([n \in Ids |-> n], ToSet(ids))
<1>1. ToSet(ids) \subseteq Ids
  BY DEF ToSet
<1>2. Ids \subseteq Nat
  BY SelectionAssumption
<1>3. IsFiniteSet(ToSet(ids))
  BY LengthIsCount
<1>4. \A n \in ToSet(ids) : [x \in Ids |-> x][n] \in Nat
  BY <1>1, <1>2
<1> QED
  BY <1>1, <1>2, <1>3, <1>4 DEF Input

\* The active pool: the ids that are not empty, once each.
LEMMA PoolList ==
  ASSUME NEW given \in Seq(Ids \cup {Empty})
  PROVE  /\ uniqueSorted(given) \in Seq(Ids)
         /\ IsInjective(uniqueSorted(given))
         /\ ToSet(uniqueSorted(given)) = ToSet(given) \ {Empty}
<1> DEFINE d == distinct(given, ToSet(given) \ {Empty})
           live == ToSet(given) \ {Empty}
<1>1. d \in Seq(Ids \cup {Empty}) /\ IsInjective(d) /\ ToSet(d) = live
  <2>1. /\ d \in Seq(Ids \cup {Empty}) /\ IsInjective(d)
        /\ ToSet(d) = ToSet(given) \cap (ToSet(given) \ {Empty})
    BY DistinctList
  <2> QED
    BY <2>1
<1>2. live \subseteq Ids
  BY DEF ToSet
<1>3. uniqueSorted(given) = sortByHash([n \in Ids |-> n], d)
  BY DEF uniqueSorted, sortStrings
<1> HIDE DEF d, live
<1>4. \A i \in 1..Len(d) : d[i] \in Ids
  BY <1>1, <1>2 DEF ToSet
<1>5. d \in Seq(Ids)
  <2>1. Len(d) \in Nat /\ d \in [1..Len(d) -> Ids]
    BY <1>1, <1>4
  <2> QED
    BY <2>1
<1>6. Input([n \in Ids |-> n], ToSet(d))
  BY <1>1, <1>5, IdsSort
<1>7. /\ sortByHash([n \in Ids |-> n], d) \in Seq(ToSet(d))
      /\ IsInjective(sortByHash([n \in Ids |-> n], d))
      /\ ToSet(sortByHash([n \in Ids |-> n], d)) = ToSet(d)
  BY <1>1, <1>5, <1>6, SortKeeps
<1>8. uniqueSorted(given) \in Seq(Ids)
  BY <1>1, <1>2, <1>3, <1>7
<1> QED
  BY <1>1, <1>3, <1>7, <1>8 DEF live

\* The nodes of a snapshot.
Live(given) == ToSet(given) \ {Empty}

\* A snapshot's nodes are an input of the policy.
LEMMA LiveInput ==
  ASSUME NEW h, \A n \in Ids : h[n] \in Nat, NEW given \in Seq(Ids \cup {Empty})
  PROVE  Input(h, Live(given))
<1> DEFINE ids == uniqueSorted(given)
<1>1. ids \in Seq(Ids) /\ IsInjective(ids) /\ ToSet(ids) = Live(given)
  BY PoolList DEF Live
<1> HIDE DEF ids
<1>2. IsFiniteSet(Live(given))
  <2>1. IsFiniteSet(ToSet(ids))
    BY <1>1, LengthIsCount
  <2> QED
    BY <1>1, <2>1
<1>3. Live(given) \subseteq Ids
  <2>1. ToSet(ids) \subseteq Ids
    BY <1>1 DEF ToSet
  <2> QED
    BY <1>1, <2>1
<1> QED
  BY <1>2, <1>3, SelectionAssumption DEF Input

\* What SelectCommittee returns: it refuses exactly what cannot be selected, and otherwise
\* returns the chosen nodes, sorted.
LEMMA PlanChosen ==
  ASSUME NEW p, Validate(p) => IsPolicy(p), NEW h, \A n \in Ids : h[n] \in Nat,
         NEW old \in Seq(Ids), NEW given \in Seq(Ids \cup {Empty})
  PROVE  /\ SelectCommittee(p, h, old, given).ok <=> CanSelect(p, Live(given))
         /\ CanSelect(p, Live(given)) =>
              \E m \in Seq(Ids) :
                /\ IsInjective(m)
                /\ ToSet(m) = Chosen(p, h, ToSet(old), Live(given))
                /\ SelectCommittee(p, h, old, given) = [ok |-> TRUE, nodeIDs |-> sortStrings(m)]
<1> DEFINE plan == SelectCommittee(p, h, old, given)
           ids == uniqueSorted(given)
           live == Live(given)
           size == TargetSize(p, Len(ids))
           m == fill(h, retain(h, old, ToSet(ids), size), ids, size)
<1>1. plan = IF ~Validate(p) \/ ids = <<>> THEN Refused
             ELSE IF size < p.t + 1 THEN Refused
             ELSE IF Len(m) # size THEN Refused
             ELSE [ok |-> TRUE, nodeIDs |-> sortStrings(m)]
  BY DEF SelectCommittee
<1>2. ids \in Seq(Ids) /\ IsInjective(ids) /\ ToSet(ids) = live
  BY PoolList DEF Live
<1>3. Input(h, live)
  BY LiveInput
<1> HIDE DEF plan, ids, live, size, m
<1>4. Len(ids) \in Nat /\ Cardinality(live) = Len(ids)
  <2>1. Cardinality(ToSet(ids)) = Len(ids)
    BY <1>2, LengthIsCount
  <2> QED
    BY <1>2, <2>1
<1>5. ids = <<>> <=> live = {}
  <2>1. ids = <<>> <=> Len(ids) = 0
    BY <1>2
  <2>2. IsFiniteSet(live)
    BY <1>3 DEF Input
  <2> QED
    BY <1>4, <2>1, <2>2, FS_EmptySet
<1>6. ~Refused.ok
  BY DEF Refused
<1>7. CASE ~Validate(p)
  <2>1. plan = Refused /\ ~CanSelect(p, live)
    BY <1>1, <1>7 DEF CanSelect
  <2> QED
    BY <1>6, <2>1 DEF plan, live
<1>8. CASE Validate(p)
  <2>1. size \in Nat /\ size <= Len(ids) /\ p.t \in Int
    BY <1>4, <1>8, TargetBounds DEF size, IsPolicy
  <2>2. CanSelect(p, live) <=> ids # <<>> /\ ~(size < p.t + 1)
    BY <1>4, <1>5, <1>8, <2>1 DEF CanSelect, size
  <2>3. /\ m \in Seq(Ids) /\ IsInjective(m) /\ Len(m) = size
        /\ ToSet(m) = First(h, ToSet(old), live, size)
    BY <1>2, <1>3, <2>1, MembersChosen DEF m
  <2>4. First(h, ToSet(old), live, size) = Chosen(p, h, ToSet(old), live)
    BY <1>4 DEF First, Ahead, Chosen, size
  <2>5. CASE CanSelect(p, live)
    <3>1. plan = [ok |-> TRUE, nodeIDs |-> sortStrings(m)]
      BY <1>1, <1>8, <2>2, <2>3, <2>5
    <3>2. plan.ok
      BY <3>1
    <3>3. \E x \in Seq(Ids) : /\ IsInjective(x)
                              /\ ToSet(x) = Chosen(p, h, ToSet(old), live)
                              /\ plan = [ok |-> TRUE, nodeIDs |-> sortStrings(x)]
      BY <2>3, <2>4, <3>1, Zenon
    <3> QED
      BY <2>5, <3>2, <3>3, Zenon DEF plan, live
  <2>6. CASE ~CanSelect(p, live)
    <3>1. plan = Refused
      BY <1>1, <1>8, <2>2, <2>6
    <3> QED
      BY <1>6, <2>6, <3>1 DEF plan, live
  <2> QED
    BY <2>5, <2>6
<1> QED
  BY <1>7, <1>8

\* The list of a plan holds the chosen nodes, once each.
LEMMA PlanList ==
  ASSUME NEW m \in Seq(Ids), IsInjective(m)
  PROVE  /\ sortStrings(m) \in Seq(Ids)
         /\ ToSet(sortStrings(m)) = ToSet(m)
         /\ Len(sortStrings(m)) = Cardinality(ToSet(m))
<1> DEFINE s == sortByHash([n \in Ids |-> n], m)
<1>1. Input([n \in Ids |-> n], ToSet(m))
  BY IdsSort
<1>2. s \in Seq(ToSet(m)) /\ Len(s) = Len(m) /\ ToSet(s) = ToSet(m)
  BY <1>1, SortKeeps
<1> HIDE DEF s
<1>3. ToSet(m) \subseteq Ids
  BY DEF ToSet
<1>4. s \in Seq(Ids)
  BY <1>2, <1>3
<1>5. Cardinality(ToSet(m)) = Len(m)
  BY LengthIsCount
<1> QED
  BY <1>2, <1>4, <1>5 DEF sortStrings, s

----------------------------------------------------------------------------
(* The life of a wallet.                                                    *)

\* What every selection is given.
WalletOK ==
  /\ policy \in Policies
  /\ hash \in Hashes
  /\ committee \in Seq(Ids)
  /\ snapshot \in Seq(Ids \cup {Empty})

\* A bounded list is a list.
LEMMA ListType ==
  ASSUME NEW S, NEW n \in Nat, NEW list \in Lists(S, n)
  PROVE  list \in Seq(S)
<1>1. PICK k \in 0..n : list \in [1..k -> S]
  BY DEF Lists
<1> QED
  BY <1>1

\* The wallet's policy and hash order are ones the policy's lemmas are about.
LEMMA WalletFacts ==
  ASSUME WalletOK
  PROVE  /\ Validate(policy) => IsPolicy(policy)
         /\ \A n \in Ids : hash[n] \in Nat
BY SelectionAssumption DEF WalletOK

\* The record of an old wallet is a list of ids.
LEMMA WalletInit == SelectInit => WalletOK
<1> SUFFICES ASSUME SelectInit PROVE WalletOK
  OBVIOUS
<1>1. committee \in Seq(Ids)
  BY ListType, SelectionAssumption DEF SelectInit
<1>2. snapshot \in Seq(Ids \cup {Empty})
  BY DEF SelectInit
<1> QED
  BY <1>1, <1>2 DEF SelectInit, WalletOK

\* Snapshots and reshares leave lists of ids.
LEMMA WalletStep == WalletOK /\ [SelectNext]_wallet => WalletOK'
<1> SUFFICES ASSUME WalletOK, [SelectNext]_wallet PROVE WalletOK'
  OBVIOUS
<1>1. CASE Observe
  <2>1. snapshot' \in Seq(Ids \cup {Empty})
    <3>1. MaxPool \in Nat /\ snapshot' \in Lists(Ids \cup {Empty}, MaxPool)
      BY <1>1, SelectionAssumption DEF Observe
    <3> QED
      BY <3>1, ListType
  <2> QED
    BY <1>1, <2>1 DEF Observe, WalletOK
<1>2. CASE Reshare
  <2> DEFINE plan == SelectCommittee(policy, hash, committee, snapshot)
  <2>1. plan.ok /\ committee' = plan.nodeIDs
    BY <1>2 DEF Reshare
  <2>2. \E m \in Seq(Ids) : IsInjective(m) /\ plan = [ok |-> TRUE, nodeIDs |-> sortStrings(m)]
    BY <2>1, PlanChosen, WalletFacts DEF WalletOK
  <2> HIDE DEF plan
  <2>3. committee' \in Seq(Ids)
    BY <2>1, <2>2, PlanList
  <2> QED
    BY <1>2, <2>3 DEF Reshare, WalletOK
<1>3. CASE Refuse
  BY <1>3 DEF Refuse, WalletOK
<1>4. CASE UNCHANGED wallet
  BY <1>4 DEF wallet, WalletOK
<1> QED
  BY <1>1, <1>2, <1>3, <1>4 DEF SelectNext

\* The life of a wallet keeps what a selection is given well formed.
LEMMA WalletTyped == SelectSpec => []WalletOK
BY WalletInit, WalletStep, PTL DEF SelectSpec

\* Every plan is the committee the policy promises.
LEMMA PromiseKept == WalletOK => MatchesPromise
<1> SUFFICES ASSUME WalletOK PROVE MatchesPromise
  OBVIOUS
<1> DEFINE plan == SelectCommittee(policy, hash, committee, snapshot)
           live == Live(snapshot)
<1>1. plan.ok <=> CanSelect(policy, live)
  BY PlanChosen, WalletFacts DEF WalletOK
<1>2. ASSUME plan.ok
      PROVE  /\ ToSet(plan.nodeIDs) = Chosen(policy, hash, ToSet(committee), live)
             /\ Len(plan.nodeIDs) = Cardinality(ToSet(plan.nodeIDs))
  <2>1. PICK m \in Seq(Ids) :
          /\ IsInjective(m)
          /\ ToSet(m) = Chosen(policy, hash, ToSet(committee), live)
          /\ plan = [ok |-> TRUE, nodeIDs |-> sortStrings(m)]
    BY <1>1, <1>2, PlanChosen, WalletFacts DEF WalletOK
  <2> HIDE DEF plan, live
  <2>2. ToSet(sortStrings(m)) = ToSet(m) /\ Len(sortStrings(m)) = Cardinality(ToSet(m))
    BY <2>1, PlanList
  <2> QED
    BY <2>1, <2>2
<1> QED
  BY <1>1, <1>2 DEF MatchesPromise, Live

\* SelectCommittee as the code computes it, on lists, keeps the policy's promise in every
\* wallet's life: whatever the order, the duplicates and the empty ids of the pool and the
\* order of the old committee, the plan is the set Committee defines, each member once, and
\* the code refuses exactly when no quorum can be formed; in particular its last error,
\* insufficient candidates, never occurs (committee.go:167-258).
THEOREM PlansMatchPromise == SelectSpec => []MatchesPromise
BY WalletTyped, PromiseKept, PTL

\* A second selection from the same snapshot returns the first plan.
LEMMA PlanSettles == WalletOK => Settles
<1> SUFFICES ASSUME WalletOK PROVE Settles
  OBVIOUS
<1> DEFINE plan == SelectCommittee(policy, hash, committee, snapshot)
           again == SelectCommittee(policy, hash, plan.nodeIDs, snapshot)
           live == Live(snapshot)
<1> SUFFICES ASSUME plan.ok PROVE again = plan
  BY DEF Settles
<1>1. /\ Validate(policy) => IsPolicy(policy)
      /\ \A n \in Ids : hash[n] \in Nat
      /\ committee \in Seq(Ids) /\ snapshot \in Seq(Ids \cup {Empty})
  BY WalletFacts DEF WalletOK
<1>2. CanSelect(policy, live)
  BY <1>1, PlanChosen
<1>3. PICK m \in Seq(Ids) :
        /\ IsInjective(m)
        /\ ToSet(m) = Chosen(policy, hash, ToSet(committee), live)
        /\ plan = [ok |-> TRUE, nodeIDs |-> sortStrings(m)]
  BY <1>1, <1>2, PlanChosen
<1>4. plan.nodeIDs \in Seq(Ids) /\ ToSet(plan.nodeIDs) = ToSet(m)
  <2> HIDE DEF plan
  <2> QED
    BY <1>3, PlanList
<1>5. PICK q \in Seq(Ids) :
        /\ IsInjective(q)
        /\ ToSet(q) = Chosen(policy, hash, ToSet(plan.nodeIDs), live)
        /\ again = [ok |-> TRUE, nodeIDs |-> sortStrings(q)]
  <2> DEFINE nodeIDs == plan.nodeIDs
  <2>1. nodeIDs \in Seq(Ids)
    BY <1>4
  <2> HIDE DEF nodeIDs
  <2>2. \E q \in Seq(Ids) :
          /\ IsInjective(q)
          /\ ToSet(q) = Chosen(policy, hash, ToSet(nodeIDs), live)
          /\ SelectCommittee(policy, hash, nodeIDs, snapshot)
               = [ok |-> TRUE, nodeIDs |-> sortStrings(q)]
    BY <1>1, <1>2, <2>1, PlanChosen
  <2> QED
    BY <2>2 DEF nodeIDs
<1>6. Input(hash, live)
  BY <1>1, LiveInput
<1>7. Validate(policy) /\ IsPolicy(policy)
  BY <1>1, <1>2 DEF CanSelect
<1> HIDE DEF plan, again, live
<1>8. ToSet(q) = ToSet(m)
  <2>1. ToSet(q) = Chosen(policy, hash, Chosen(policy, hash, ToSet(committee), live), live)
    BY <1>3, <1>4, <1>5
  <2> QED
    BY <1>3, <1>6, <1>7, <2>1, SelectionSettles
<1>9. sortStrings(q) = sortStrings(m)
  <2>1. Input([n \in Ids |-> n], ToSet(q))
    BY <1>5, IdsSort
  <2>2. sortByHash([n \in Ids |-> n], q) = sortByHash([n \in Ids |-> n], m)
    BY <1>3, <1>5, <1>8, <2>1, SortIsCanonical
  <2> QED
    BY <2>2 DEF sortStrings
<1> QED
  BY <1>3, <1>5, <1>9

\* The code's selection settles, in every wallet's life: run again on the pool it chose
\* from, it returns the same plan, list and all, so a retried reshare proposes the same
\* committee (committee.go:167-258).
THEOREM PlansSettle == SelectSpec => []Settles
BY WalletTyped, PlanSettles, PTL

\* A reshare keeps the live members, or a full committee of them.
LEMMA ReshareKeeps == WalletOK /\ [SelectNext]_wallet => 
  [Reshare =>
     LET kept == ToSet(committee) \cap ToSet(committee')
         alive == ToSet(committee) \cap ToSet(snapshot)
     IN  kept = alive \/ (kept \subseteq alive /\ kept = ToSet(committee'))]_wallet
<1> SUFFICES ASSUME WalletOK, Reshare
             PROVE  LET kept == ToSet(committee) \cap ToSet(committee')
                        alive == ToSet(committee) \cap ToSet(snapshot)
                    IN  kept = alive \/ (kept \subseteq alive /\ kept = ToSet(committee'))
  OBVIOUS
<1> DEFINE plan == SelectCommittee(policy, hash, committee, snapshot)
           live == Live(snapshot)
           old == ToSet(committee)
           new == ToSet(committee')
<1>1. /\ Validate(policy) => IsPolicy(policy)
      /\ \A n \in Ids : hash[n] \in Nat
      /\ committee \in Seq(Ids) /\ snapshot \in Seq(Ids \cup {Empty})
  BY WalletFacts DEF WalletOK
<1>2. plan.ok /\ committee' = plan.nodeIDs
  BY DEF Reshare
<1>3. CanSelect(policy, live) /\ Input(hash, live)
  BY <1>1, <1>2, PlanChosen, LiveInput
<1>4. new = Chosen(policy, hash, old, live)
  <2>1. PICK m \in Seq(Ids) :
          /\ IsInjective(m)
          /\ ToSet(m) = Chosen(policy, hash, ToSet(committee), live)
          /\ plan = [ok |-> TRUE, nodeIDs |-> sortStrings(m)]
    BY <1>1, <1>3, PlanChosen
  <2> HIDE DEF plan
  <2>2. ToSet(sortStrings(m)) = ToSet(m) /\ committee' = sortStrings(m)
    BY <1>2, <2>1, PlanList
  <2> QED
    BY <2>1, <2>2
<1>5. Validate(policy) /\ IsPolicy(policy)
  BY <1>1, <1>3 DEF CanSelect
<1>6. old \subseteq Ids /\ Empty \notin old
  <2>1. old \subseteq Ids
    BY <1>1 DEF ToSet
  <2> QED
    BY <2>1, SelectionAssumption
<1>7. \A n : n \in live <=> n \in ToSet(snapshot) /\ n # Empty
  BY DEF Live
<1> HIDE DEF plan, live, old, new
<1>8. new \subseteq live
  BY <1>4 DEF Chosen
<1>9. \/ old \cap live \subseteq new
      \/ new \subseteq old
  BY <1>3, <1>4, <1>5, LiveMembersStay
<1>10. (old \cap new = old \cap ToSet(snapshot))
       \/ (old \cap new \subseteq old \cap ToSet(snapshot) /\ old \cap new = new)
  BY <1>6, <1>7, <1>8, <1>9
<1> QED
  BY <1>10 DEF old, new

\* A reshare moves no more shares than it must, in every wallet's life: of the old members
\* still in the pool it keeps all, or a full committee of them (committee.go:196-237).
THEOREM ResharesKeepLiveMembers == SelectSpec => KeepsLiveMembers
BY WalletTyped, ReshareKeeps, PTL DEF SelectSpec, KeepsLiveMembers

----------------------------------------------------------------------------
(* The reconcile loop.                                                      *)

busy == {w \in Wallets : job[w].st # "idle"}

\* Why the cap holds: between the look at the gauge and the start of a reshare only the
\* scan itself could raise it.
RoomLeft == scan.st \in {"gate", "acquire"} => scan.w \in Wallets /\ active < GlobalMaxInflight

\* Why committees can sign: a plan is a quorum from the gate on, wherever it travels (to
\* the job, and from a given-up try to the sessions left behind), and it is written for
\* a family the wallet holds.
PlansFit ==
  /\ scan.st = "acquire" => Quorum(scan.plan)
  /\ \A s \in late : Quorum(s.c) /\ s.k \in Keys[s.w]
  /\ \A w \in Wallets : pending[w] \subseteq Keys[w]

JobFits(w) ==
  /\ job[w].st # "idle" => Quorum(job[w].plan)
  /\ job[w].only \subseteq Keys[w]
  /\ job[w].st = "begin" => job[w].done = {}
  /\ job[w].st = "publishing" => job[w].only \ job[w].done # {}

Fits == PlansFit /\ (\A w \in Wallets : JobFits(w)) /\ CommitteesCanSign

Inv == TypeOK /\ RoomLeft /\ CapHolds /\ Fits

\* The busy wallets are finitely many.
LEMMA BusyFinite == IsFiniteSet(busy) /\ active \in Nat /\ active = Cardinality(busy)
<1>1. IsFiniteSet(busy)
  BY OrchestratorAssumption, FS_Subset DEF busy
<1> QED
  BY <1>1, FS_CardinalityType DEF busy, active

\* When no wallet becomes busy the gauge does not rise.
LEMMA GaugeFalls ==
  ASSUME busy' \subseteq busy
  PROVE  active' <= active /\ active' \in Nat
<1>1. IsFiniteSet(busy) /\ active \in Nat /\ active = Cardinality(busy)
  BY BusyFinite
<1>2. active' = Cardinality(busy')
  BY DEF active, busy
<1> QED
  BY <1>1, <1>2, FS_Subset, FS_CardinalityType

\* When one wallet becomes busy the gauge rises by one at most.
LEMMA GaugeRises ==
  ASSUME NEW w, busy' \subseteq busy \cup {w}
  PROVE  active' <= active + 1 /\ active' \in Nat
<1>1. IsFiniteSet(busy) /\ active \in Nat /\ active = Cardinality(busy)
  BY BusyFinite
<1>2. active' = Cardinality(busy')
  BY DEF active, busy
<1>3. IsFiniteSet(busy \cup {w}) /\ Cardinality(busy \cup {w}) <= active + 1
  BY <1>1, FS_AddElement
<1>4. Cardinality(busy \cup {w}) \in Nat
  BY <1>3, FS_CardinalityType
<1> QED
  BY <1>1, <1>2, <1>3, <1>4, FS_Subset, FS_CardinalityType

\* A plan is drawn from the nodes.
LEMMA PlanType ==
  ASSUME NEW w, NEW old, NEW snap
  PROVE  Plan(w, old, snap) \in SUBSET Nodes
BY DEF Plan, Chosen, CandidatePool

\* What follows a visit of w is a scan of the remaining wallets, before the gate.
LEMMA ContinueType ==
  ASSUME TypeOK, NEW w
  PROVE  Continue(w) \in Scans /\ Continue(w).st \in {"idle", "visit"}
<1>1. IdleScan \in Scans /\ IdleScan.st = "idle"
  BY DEF IdleScan, Scans
<1>2. scan \in Scans
  BY DEF TypeOK
<1>3. [scan EXCEPT !.st = "visit", !.todo = @ \ {w}, !.w = None, !.plan = {}] \in Scans
  BY <1>2 DEF Scans
<1>4. [scan EXCEPT !.st = "visit", !.todo = @ \ {w}, !.w = None, !.plan = {}].st = "visit"
  BY <1>2 DEF Scans
<1> QED
  BY <1>1, <1>3, <1>4 DEF Continue

\* The bound on interferences only falls.
LEMMA TroubleType ==
  ASSUME TypeOK, Trouble \/ UNCHANGED trouble
  PROVE  trouble' \in 0..MaxTrouble
BY OrchestratorAssumption DEF TypeOK, Trouble

\* Every state of a job's family bookkeeping is well typed.
LEMMA NextKindType ==
  ASSUME NEW w
  PROVE  NextKind(w) \in Kinds
BY DEF NextKind, Kinds

\* The session of a job names a wallet, a family and a committee.
LEMMA SessionType ==
  ASSUME TypeOK, NEW w \in Wallets
  PROVE  session(w) \in [w : Wallets, k : Kinds, c : SUBSET Nodes]
BY NextKindType DEF session, TypeOK, Jobs

\* A job keeps its type when a step only moves it to another stage.
LEMMA SetJobType ==
  ASSUME TypeOK, NEW w \in Wallets, NEW st \in JobStages, SetJob(w, st)
  PROVE  job' \in [Wallets -> Jobs]
<1>1. [job[w] EXCEPT !.st = st] \in Jobs
  BY DEF TypeOK, Jobs
<1>2. job' = [job EXCEPT ![w] = [job[w] EXCEPT !.st = st]]
  BY DEF SetJob
<1> QED
  BY <1>1, <1>2 DEF TypeOK

\* The environment keeps the types.
LEMMA EnvironmentType ==
  ASSUME TypeOK, Environment \/ (\E w \in Wallets : CooldownElapses(w) \/ LockLapses(w))
  PROVE  TypeOK'
<1>1. ASSUME NEW n \in Nodes, NodeChanges(n) PROVE TypeOK'
  <2>1. trouble' \in 0..MaxTrouble
    BY <1>1, TroubleType DEF NodeChanges
  <2>2. node' \in [Nodes -> Statuses]
    BY <1>1 DEF NodeChanges, TypeOK
  <2> QED
    BY <1>1, <2>1, <2>2 DEF NodeChanges, network, consul, TypeOK
<1>2. CASE Restart
  <2>1. trouble' \in 0..MaxTrouble
    BY <1>2, TroubleType DEF Restart
  <2>2. IdleScan \in Scans /\ IdleJob \in Jobs
    BY DEF IdleScan, Scans, IdleJob, Jobs, JobStages
  <2>3. 0 \in 0..(ConfirmDeadScans - 1)
    BY OrchestratorAssumption
  <2>4. scan' \in Scans /\ job' \in [Wallets -> Jobs]
        /\ streak' \in [Wallets -> 0..(ConfirmDeadScans - 1)]
    BY <1>2, <2>2, <2>3 DEF Restart
  <2>5. late' \in SUBSET [w : Wallets, k : Kinds, c : SUBSET Nodes]
    BY <1>2, SessionType DEF Restart, TypeOK
  <2> QED
    BY <1>2, <2>1, <2>4, <2>5 DEF Restart, network, consul, TypeOK
<1>3. ASSUME NEW w \in Wallets, CooldownElapses(w) PROVE TypeOK'
  BY <1>3 DEF CooldownElapses, network, TypeOK
<1>4. ASSUME NEW w \in Wallets, LockLapses(w) PROVE TypeOK'
  BY <1>4 DEF LockLapses, network, TypeOK
<1>5. ASSUME NEW s \in late, LateCompletion(s) PROVE TypeOK'
  <2>1. s.w \in Wallets /\ s.k \in Kinds /\ s.c \in SUBSET Nodes
    BY DEF TypeOK
  <2>2. keyinfo' \in [Wallets -> [Kinds -> SUBSET Nodes]]
    BY <1>5, <2>1 DEF LateCompletion, TypeOK
  <2> QED
    BY <1>5, <2>2 DEF LateCompletion, TypeOK
<1> QED
  BY <1>1, <1>2, <1>3, <1>4, <1>5 DEF Environment

\* The scan keeps the types; to take the lock it must be at a wallet.
LEMMA ScanType ==
  ASSUME TypeOK, RoomLeft, ScanStep
  PROVE  TypeOK'
<1>1. CASE List
  <2>1. \A w \in Wallets : OldCommittee(w) \in SUBSET Nodes
    BY DEF OldCommittee, TypeOK, Kinds
  <2>2. scan' \in Scans
    BY <1>1, <2>1 DEF List, IdleScan, Scans
  <2> QED
    BY <1>1, <2>2 DEF List, network, consul, TypeOK
<1>10. CASE Snapshot
  <2>1. PICK snap \in {node, [n \in Nodes |-> IF node[n] = "silent" THEN "active" ELSE node[n]]} :
          /\ scan' = [scan EXCEPT !.st = "visit", !.snap = snap]
          /\ IF snap = node THEN UNCHANGED trouble ELSE Trouble
    BY <1>10 DEF Snapshot
  <2>2. snap \in [Nodes -> Statuses]
    BY DEF TypeOK, Statuses
  <2>3. scan' \in Scans
    BY <2>1, <2>2 DEF Scans, TypeOK
  <2>4. trouble' \in 0..MaxTrouble
    BY <2>1, TroubleType
  <2> QED
    BY <1>10, <2>3, <2>4 DEF Snapshot, network, consul, TypeOK
<1>2. CASE Saturated
  BY <1>2 DEF Saturated, network, consul, TypeOK, IdleScan, Scans
<1>3. ASSUME NEW w \in Wallets, SkipFrozen(w) PROVE TypeOK'
  <2>1. trouble' \in 0..MaxTrouble /\ scan' \in Scans
    BY <1>3, TroubleType, ContinueType DEF SkipFrozen
  <2> QED
    BY <1>3, <2>1 DEF SkipFrozen, network, consul, TypeOK
<1>4. ASSUME NEW w \in Wallets, Pass(w) PROVE TypeOK'
  <2>1. scan' \in Scans
    BY <1>4, ContinueType DEF Pass
  <2> DEFINE trig == Trigger(scan.old[w], scan.snap)
  <2>2. ~Confirmed(w, trig) => Streak(w, trig) \in 0..(ConfirmDeadScans - 1)
    BY OrchestratorAssumption DEF Streak, Confirmed, TypeOK
  <2>3. streak' \in [Wallets -> 0..(ConfirmDeadScans - 1)]
    BY <1>4, <2>2 DEF Pass, TypeOK
  <2> QED
    BY <1>4, <2>1, <2>3 DEF Pass, network, consul, TypeOK
<1>5. ASSUME NEW w \in Wallets, Confirm(w) PROVE TypeOK'
  <2>1. scan' \in Scans
    BY <1>5 DEF Confirm, TypeOK, Scans
  <2>2. streak' \in [Wallets -> 0..(ConfirmDeadScans - 1)]
    BY <1>5, OrchestratorAssumption DEF Confirm, TypeOK
  <2> QED
    BY <1>5, <2>1, <2>2 DEF Confirm, network, consul, TypeOK
<1>6. CASE Defer
  <2>1. trouble' \in 0..MaxTrouble /\ scan' \in Scans
    BY <1>6, TroubleType, ContinueType DEF Defer
  <2> QED
    BY <1>6, <2>1 DEF Defer, network, consul, TypeOK
<1>7. CASE Gate
  <2>1. scan' \in Scans
    BY <1>7, PlanType DEF Gate, TypeOK, Scans
  <2> QED
    BY <1>7, <2>1 DEF Gate, network, consul, TypeOK
<1>8. CASE Acquire
  <2>1. scan' \in Scans /\ scan.w \in Wallets
    BY <1>8, ContinueType DEF Acquire, RoomLeft
  <2>2. [IdleJob EXCEPT !.st = "begin", !.plan = scan.plan] \in Jobs
    BY DEF IdleJob, Jobs, JobStages, TypeOK, Scans
  <2>3. job' \in [Wallets -> Jobs] /\ inflight' \in SUBSET Wallets
    BY <1>8, <2>1, <2>2 DEF Acquire, TypeOK
  <2> QED
    BY <1>8, <2>1, <2>3 DEF Acquire, network, TypeOK
<1>9. CASE AcquireRefused
  <2>1. trouble' \in 0..MaxTrouble /\ scan' \in Scans
    BY <1>9, TroubleType, ContinueType DEF AcquireRefused
  <2> QED
    BY <1>9, <2>1 DEF AcquireRefused, network, consul, TypeOK
<1> QED
  BY <1>1, <1>2, <1>3, <1>4, <1>5, <1>6, <1>7, <1>8, <1>9, <1>10 DEF ScanStep

\* runReshare keeps the types.
LEMMA JobType ==
  ASSUME TypeOK, NEW w \in Wallets, JobStep(w)
  PROVE  TypeOK'
<1>1. CASE Begin(w)
  <2>1. PICK only \in {Keys[w], pending[w]} \ {{}} :
          /\ IF only = pending[w] \/ pending[w] = {} THEN UNCHANGED trouble ELSE Trouble
          /\ job' = [job EXCEPT ![w].st = "publishing", ![w].only = only]
    BY <1>1 DEF Begin
  <2>2. only \in SUBSET Kinds
    BY OrchestratorAssumption DEF TypeOK
  <2>3. trouble' \in 0..MaxTrouble
    BY <2>1, TroubleType
  <2>4. job' \in [Wallets -> Jobs]
    <3>1. [job[w] EXCEPT !.st = "publishing", !.only = only] \in Jobs
      BY <2>2 DEF TypeOK, Jobs, JobStages
    <3>2. job' = [job EXCEPT ![w] = [job[w] EXCEPT !.st = "publishing", !.only = only]]
      BY <2>1 DEF TypeOK, Jobs
    <3> QED
      BY <3>1, <3>2 DEF TypeOK
  <2> QED
    BY <1>1, <2>3, <2>4 DEF Begin, network, consul, TypeOK
<1>2. CASE FamilyDone(w)
  <2> DEFINE k == NextKind(w)
             st == IF job[w].only \ (job[w].done \cup {k}) = {} THEN "published" ELSE "publishing"
  <2>1. k \in Kinds /\ st \in JobStages /\ job[w] \in Jobs
    BY NextKindType DEF JobStages, TypeOK
  <2> HIDE DEF k, st
  <2>2. keyinfo' \in [Wallets -> [Kinds -> SUBSET Nodes]]
    BY <1>2, <2>1 DEF FamilyDone, TypeOK, Jobs, k
  <2>3. trouble' \in 0..MaxTrouble
    BY <1>2, TroubleType DEF FamilyDone
  <2>4. \/ job' = [job EXCEPT ![w].st = st, ![w].done = @ \cup {k}]
        \/ job' = [job EXCEPT ![w].st = st, ![w].done = @ \cup {k}, ![w].changed = @ \cup {k}]
    BY <1>2 DEF FamilyDone, k, st
  <2>5. [job[w] EXCEPT !.st = st, !.done = @ \cup {k}] \in Jobs
    BY <2>1 DEF Jobs
  <2>6. [job[w] EXCEPT !.st = st, !.done = @ \cup {k}, !.changed = @ \cup {k}] \in Jobs
    BY <2>1 DEF Jobs
  <2>7. job' \in [Wallets -> Jobs]
    BY <2>4, <2>5, <2>6 DEF TypeOK, Jobs
  <2> QED
    BY <1>2, <2>2, <2>3, <2>7 DEF FamilyDone, network, TypeOK
<1>3. CASE FamilyFails(w)
  <2>1. job' \in [Wallets -> Jobs] /\ trouble' \in 0..MaxTrouble
    BY <1>3, SetJobType, TroubleType DEF FamilyFails, JobStages
  <2>2. late' \in SUBSET [w : Wallets, k : Kinds, c : SUBSET Nodes]
    BY <1>3, SessionType DEF FamilyFails, TypeOK
  <2> QED
    BY <1>3, <2>1, <2>2 DEF FamilyFails, consul, TypeOK
<1>4. CASE Verify(w)
  <2>1. job' \in [Wallets -> Jobs] /\ trouble' \in 0..MaxTrouble
    BY <1>4, SetJobType, TroubleType DEF Verify, JobStages
  <2>2. PICK seen \in SUBSET job[w].done :
          /\ pubkey' = [pubkey EXCEPT ![w] = [k \in Kinds |->
                          IF k \in seen /\ pubkey[w][k] = "none" THEN Result(w, k)
                          ELSE pubkey[w][k]]]
          /\ frozen' \in {frozen, frozen \cup {w}}
    BY <1>4 DEF Verify
  <2>3. [k \in Kinds |-> IF k \in seen /\ pubkey[w][k] = "none" THEN Result(w, k)
                         ELSE pubkey[w][k]] \in [Kinds -> {"none", "own", "other"}]
    BY DEF TypeOK, Result
  <2>4. pubkey' \in [Wallets -> [Kinds -> {"none", "own", "other"}]] /\ frozen' \in SUBSET Wallets
    BY <2>2, <2>3 DEF TypeOK
  <2> QED
    BY <1>4, <2>1, <2>4 DEF Verify, network, TypeOK
<1>5. CASE Record(w)
  <2>1. job' \in [Wallets -> Jobs] /\ trouble' \in 0..MaxTrouble
    BY <1>5, SetJobType, TroubleType DEF Record, JobStages
  <2>2. pending' \in [Wallets -> SUBSET Kinds]
    <3>1. job[w].only \ job[w].done \in SUBSET Kinds
      BY DEF TypeOK, Jobs
    <3>2. pending' = [pending EXCEPT ![w] = job[w].only \ job[w].done] \/ pending' = pending
      BY <1>5 DEF Record
    <3> QED
      BY <3>1, <3>2 DEF TypeOK
  <2> QED
    BY <1>5, <2>1, <2>2 DEF Record, network, TypeOK
<1>6. CASE Finish(w)
  <2>1. job' \in [Wallets -> Jobs]
    BY <1>6 DEF Finish, TypeOK, IdleJob, Jobs, JobStages
  <2>2. trouble' \in 0..MaxTrouble
    BY <1>6, TroubleType DEF Finish
  <2> QED
    BY <1>6, <2>1, <2>2 DEF Finish, network, TypeOK
<1> QED
  BY <1>1, <1>2, <1>3, <1>4, <1>5, <1>6 DEF JobStep

\* Steps that raise nothing and bring no scan to the gate keep the cap and the room.
LEMMA CapKept ==
  ASSUME Inv, busy' \subseteq busy, scan' = scan \/ scan'.st \in {"idle", "listed", "visit"}
  PROVE  RoomLeft' /\ CapHolds'
<1>1. active' <= active /\ active' \in Nat /\ active \in Nat
  BY GaugeFalls, BusyFinite
<1>2. GlobalMaxInflight \in Nat
  BY OrchestratorAssumption
<1> QED
  BY <1>1, <1>2 DEF Inv, RoomLeft, CapHolds

\* A job step never makes an idle wallet busy.
LEMMA JobStaysBusy ==
  ASSUME TypeOK, NEW w \in Wallets, JobStep(w)
  PROVE  busy' \subseteq busy /\ scan' = scan
<1>1. job[w].st # "idle" /\ scan' = scan
  BY DEF JobStep, Begin, FamilyDone, FamilyFails, Verify, Record, Finish
<1>2. \A v \in Wallets \ {w} : job'[v] = job[v]
  BY DEF JobStep, Begin, FamilyDone, FamilyFails, Verify, Record, Finish, SetJob, TypeOK
<1> QED
  BY <1>1, <1>2 DEF busy

\* The scan: only Acquire raises the gauge, and RoomLeft holds then.
LEMMA ScanCap ==
  ASSUME Inv, ScanStep
  PROVE  RoomLeft' /\ CapHolds'
<1>1. CASE List \/ Snapshot \/ Saturated \/ Defer \/ AcquireRefused
           \/ \E w \in Wallets : SkipFrozen(w) \/ Pass(w)
  <2>1. scan'.st \in {"idle", "listed", "visit"} /\ job' = job
    <3>1. CASE List
      <4>1. IdleScan \in Scans
        BY DEF IdleScan, Scans
      <4> QED
        BY <3>1, <4>1 DEF List, Scans
    <3>5. CASE Saturated
      BY <3>5 DEF Saturated, IdleScan
    <3>2. CASE Snapshot
      BY <3>2 DEF Snapshot, Inv, TypeOK, Scans
    <3>3. CASE Defer \/ AcquireRefused
      BY <3>3, ContinueType DEF Inv, Defer, AcquireRefused
    <3>4. ASSUME NEW w \in Wallets, SkipFrozen(w) \/ Pass(w)
          PROVE  scan'.st \in {"idle", "listed", "visit"} /\ job' = job
      BY <3>4, ContinueType DEF Inv, SkipFrozen, Pass
    <3> QED
      BY <1>1, <3>1, <3>2, <3>3, <3>4, <3>5
  <2>2. busy' \subseteq busy
    BY <2>1 DEF busy
  <2> QED
    BY <2>1, <2>2, CapKept
<1>2. ASSUME NEW w \in Wallets, Confirm(w) PROVE RoomLeft' /\ CapHolds'
  <2>1. active' = active
    BY <1>2 DEF Confirm, active
  <2>2. scan'.w = w /\ active < GlobalMaxInflight
    BY <1>2 DEF Confirm, Visiting, Inv, TypeOK, Scans
  <2> QED
    BY <2>1, <2>2 DEF Inv, RoomLeft, CapHolds
<1>3. CASE Gate
  <2>1. active' = active
    BY <1>3 DEF Gate, active
  <2>2. scan'.w = scan.w /\ scan.st = "gate"
    BY <1>3 DEF Gate, Inv, TypeOK, Scans
  <2> QED
    BY <2>1, <2>2 DEF Inv, RoomLeft, CapHolds
<1>4. CASE Acquire
  <2>1. busy' \subseteq busy \cup {scan.w}
    BY <1>4 DEF Acquire, busy, Inv, TypeOK
  <2>2. active' <= active + 1 /\ active' \in Nat /\ active \in Nat
    BY <2>1, GaugeRises, BusyFinite
  <2>3. active < GlobalMaxInflight /\ GlobalMaxInflight \in Nat
    BY <1>4, OrchestratorAssumption DEF Acquire, Inv, RoomLeft
  <2>4. scan'.st \in {"idle", "visit"}
    BY <1>4, ContinueType DEF Acquire, Inv
  <2> QED
    BY <2>2, <2>3, <2>4 DEF RoomLeft, CapHolds
<1> QED
  BY <1>1, <1>2, <1>3, <1>4 DEF ScanStep

\* A plan drawn from a pool that SelectCommittee accepts is a quorum within the cap.
LEMMA PlanIsQuorum ==
  ASSUME NEW w \in Wallets, NEW old, NEW pool \in SUBSET Nodes, CanSelect(Policy, pool)
  PROVE  /\ Quorum(Chosen(Policy, Hash[w], old, pool))
         /\ Cardinality(Chosen(Policy, Hash[w], old, pool)) = TargetSize(Policy, Cardinality(pool))
<1>1. IsPolicy(Policy) /\ Validate(Policy) /\ Input(Hash[w], pool)
  BY OrchestratorAssumption, FS_Subset DEF Input
<1>2. Cardinality(pool) \in Nat /\ Policy.t \in Int
  BY <1>1, FS_CardinalityType DEF Input, IsPolicy
<1>3. Cardinality(pool) >= Policy.t + 1
  <2>1. TargetSize(Policy, Cardinality(pool)) \in Nat
        /\ TargetSize(Policy, Cardinality(pool)) <= Cardinality(pool)
    BY <1>1, <1>2, TargetBounds
  <2> QED
    BY <1>2, <2>1 DEF CanSelect
<1>4. /\ Cardinality(Chosen(Policy, Hash[w], old, pool)) = TargetSize(Policy, Cardinality(pool))
      /\ Cardinality(Chosen(Policy, Hash[w], old, pool)) >= Policy.t + 1
      /\ Cardinality(Chosen(Policy, Hash[w], old, pool)) <= Policy.cap
  BY <1>1, <1>3, CommitteeIsFullQuorum
<1>5. TargetSize(Policy, Cardinality(pool)) \in Nat
  BY <1>1, <1>2, TargetBounds
<1> QED
  BY <1>2, <1>4, <1>5 DEF Quorum

\* The loop comes to rest exactly under policies whose target leaves the tier its spare:
\* a committee just chosen calls for no further reshare on the same snapshot, and one
\* chosen under any other policy calls for one again (reconciler.go:96-165, trigger.go:55-70).
THEOREM FreshCommitteeRests ==
  ASSUME NEW w \in Wallets, NEW old, NEW snap, CanSelect(Policy, CandidatePool(snap))
  PROVE  LET n == Cardinality(CandidatePool(snap)) IN
         Trigger(Plan(w, old, snap), snap) =
           IF TargetSize(Policy, n) >= Policy.t + 1 + TierFor(Policy, n).spare
           THEN "none" ELSE "proactive"
<1> DEFINE c == Plan(w, old, snap)
           n == Cardinality(CandidatePool(snap))
           size == TargetSize(Policy, n)
           spare == TierFor(Policy, n).spare
<1>1. CandidatePool(snap) \in SUBSET Nodes
  BY DEF CandidatePool
<1>2. n \in Nat /\ IsPolicy(Policy) /\ Validate(Policy)
  BY <1>1, OrchestratorAssumption, FS_Subset, FS_CardinalityType
<1>3. Policy.t \in Int /\ Policy.t >= 1 /\ spare \in Int /\ size \in Nat /\ size >= Policy.t + 1
  BY <1>2, TierType, TargetBounds DEF CanSelect, IsPolicy, Validate
<1>4. Cardinality(c) = size
  BY <1>1, PlanIsQuorum DEF Plan
<1>5. reachableCommittee(c, snap) = c /\ countReady(c, snap) = Cardinality(c)
  <2>1. \A x \in c : snap[x] = "active"
    BY DEF Plan, Chosen, CandidatePool
  <2> HIDE DEF c
  <2>2. reachableCommittee(c, snap) = c
    BY <2>1 DEF reachableCommittee
  <2>3. {x \in c : snap[x] \in {"active", "silent"}} = c
    BY <2>1
  <2> QED
    BY <2>2, <2>3 DEF countReady
<1> HIDE DEF c, size, spare
<1>6. DecideTrigger(spare, size) = IF size >= Policy.t + 1 + spare THEN "none" ELSE "proactive"
  BY <1>3 DEF DecideTrigger
<1>7. Trigger(c, snap) = DecideTrigger(spare, size)
  BY <1>3, <1>4, <1>5 DEF Trigger, size, spare
<1> QED
  BY <1>6, <1>7 DEF c, size, spare

\* While a job publishes, its next family is one it has left, and the wallet's own.
LEMMA NextKindLeft ==
  ASSUME TypeOK, NEW w \in Wallets, JobFits(w), job[w].st = "publishing"
  PROVE  /\ NextKind(w) \in job[w].only \ job[w].done
         /\ NextKind(w) \in Keys[w] /\ Quorum(job[w].plan)
         /\ Quorum(session(w).c) /\ session(w).k \in Keys[session(w).w]
<1>1. job[w].only \in SUBSET Kinds /\ job[w].only \ job[w].done # {}
  BY DEF JobFits, TypeOK, Jobs
<1>2. NextKind(w) \in job[w].only \ job[w].done
  BY <1>1 DEF NextKind, Kinds
<1> QED
  BY <1>2 DEF JobFits, session

\* A step that writes no committee, progress record, job or session keeps the plans fit.
LEMMA FitsUntouched ==
  ASSUME Fits, UNCHANGED <<late, keyinfo, pending, job>>,
         scan' = scan \/ scan'.st # "acquire"
  PROVE  Fits'
BY DEF Fits, PlansFit, JobFits, CommitteesCanSign

\* Writing a quorum for a family the wallet holds keeps every wallet signable.
LEMMA QuorumWritten ==
  ASSUME TypeOK, CommitteesCanSign, NEW w \in Wallets, NEW k \in Keys[w], NEW c,
         Quorum(c), keyinfo' = [keyinfo EXCEPT ![w][k] = c]
  PROVE  CommitteesCanSign'
<1>1. k \in Kinds
  BY OrchestratorAssumption
<1>2. ASSUME NEW v \in Wallets, NEW j \in Kinds
      PROVE  keyinfo'[v][j] = IF v = w /\ j = k THEN c ELSE keyinfo[v][j]
  BY <1>1 DEF TypeOK
<1>3. ASSUME NEW v \in Wallets, NEW j \in Kinds
      PROVE  IF j \in Keys[v] THEN Quorum(keyinfo'[v][j]) ELSE keyinfo'[v][j] = {}
  <2>1. IF j \in Keys[v] THEN Quorum(keyinfo[v][j]) ELSE keyinfo[v][j] = {}
    BY DEF CommitteesCanSign
  <2> QED
    BY <1>2, <2>1
<1> QED
  BY <1>3 DEF CommitteesCanSign, Quorum

\* The environment: a restart leaves the published plans behind as sessions, and a late
\* completion writes one of those.
LEMMA EnvironmentFits ==
  ASSUME Inv, Environment \/ (\E w \in Wallets : CooldownElapses(w) \/ LockLapses(w))
  PROVE  Fits'
<1>1. ASSUME NEW n \in Nodes, NodeChanges(n) PROVE Fits'
  BY <1>1, FitsUntouched DEF NodeChanges, consul, Inv
<1>2. ASSUME NEW w \in Wallets, CooldownElapses(w) \/ LockLapses(w) PROVE Fits'
  BY <1>2, FitsUntouched DEF CooldownElapses, LockLapses, network, Inv
<1>3. CASE Restart
  <2>1. \A s \in late' : Quorum(s.c) /\ s.k \in Keys[s.w]
    <3>1. \A w \in Wallets : job[w].st = "publishing" =>
            Quorum(session(w).c) /\ session(w).k \in Keys[session(w).w]
      BY NextKindLeft DEF Inv, Fits
    <3> QED
      BY <1>3, <3>1 DEF Restart, Inv, Fits, PlansFit
  <2>2. \A w \in Wallets : JobFits(w)'
    BY <1>3 DEF Restart, JobFits, IdleJob
  <2>3. scan'.st # "acquire"
    BY <1>3 DEF Restart, IdleScan
  <2> QED
    BY <1>3, <2>1, <2>2, <2>3 DEF Restart, consul, Inv, Fits, PlansFit, CommitteesCanSign, Quorum
<1>4. ASSUME NEW s \in late, LateCompletion(s) PROVE Fits'
  <2>1. s.w \in Wallets /\ s.k \in Keys[s.w] /\ Quorum(s.c)
    BY DEF Inv, TypeOK, Fits, PlansFit
  <2>2. CommitteesCanSign'
    BY <1>4, <2>1, QuorumWritten DEF LateCompletion, Inv, Fits
  <2> QED
    BY <1>4, <2>2 DEF LateCompletion, Inv, Fits, PlansFit, JobFits
<1> QED
  BY <1>1, <1>2, <1>3, <1>4 DEF Environment

\* The scan: a plan passes the gate only when SelectCommittee accepted its pool, and it
\* is handed on unchanged.
LEMMA ScanFits ==
  ASSUME Inv, ScanStep
  PROVE  Fits'
<1>1. CASE List \/ Snapshot \/ Saturated \/ Defer \/ AcquireRefused
           \/ \E w \in Wallets : SkipFrozen(w) \/ Pass(w) \/ Confirm(w)
  <2>1. scan'.st # "acquire"
    <3>1. CASE List \/ Saturated
      <4>1. IdleScan \in Scans /\ IdleScan.st = "idle"
        BY DEF IdleScan, Scans
      <4> QED
        BY <3>1, <4>1 DEF List, Saturated, Scans
    <3>2. CASE Snapshot
      BY <3>2 DEF Snapshot, Inv, TypeOK, Scans
    <3>3. CASE Defer \/ AcquireRefused
      BY <3>3, ContinueType DEF Inv, Defer, AcquireRefused
    <3>4. ASSUME NEW w \in Wallets, SkipFrozen(w) \/ Pass(w) PROVE scan'.st # "acquire"
      BY <3>4, ContinueType DEF Inv, SkipFrozen, Pass
    <3>5. ASSUME NEW w \in Wallets, Confirm(w) PROVE scan'.st # "acquire"
      BY <3>5 DEF Confirm, Inv, TypeOK, Scans
    <3> QED
      BY <1>1, <3>1, <3>2, <3>3, <3>4, <3>5
  <2>2. UNCHANGED <<late, keyinfo, pending, job>>
    BY <1>1 DEF List, Snapshot, Saturated, Defer, AcquireRefused, SkipFrozen, Pass, Confirm,
                network, consul
  <2> QED
    BY <2>1, <2>2, FitsUntouched DEF Inv
<1>2. CASE Gate
  <2> DEFINE plan == Plan(scan.w, scan.old[scan.w], scan.snap)
  <2>1. scan.w \in Wallets /\ CanSelect(Policy, CandidatePool(scan.snap))
    BY <1>2 DEF Gate, Inv, RoomLeft, Publishable
  <2>2. CandidatePool(scan.snap) \in SUBSET Nodes
    BY DEF CandidatePool
  <2>3. Quorum(plan)
    BY <2>1, <2>2, PlanIsQuorum DEF Plan
  <2> HIDE DEF plan
  <2>4. scan'.plan = plan
    BY <1>2 DEF Gate, Inv, TypeOK, Scans, plan
  <2> QED
    BY <1>2, <2>3, <2>4 DEF Gate, network, consul, Inv, Fits, PlansFit, JobFits, CommitteesCanSign, Quorum
<1>3. CASE Acquire
  <2>1. Quorum(scan.plan) /\ scan.w \in Wallets
    BY <1>3 DEF Acquire, Inv, RoomLeft, Fits, PlansFit
  <2>2. scan'.st # "acquire"
    BY <1>3, ContinueType DEF Acquire, Inv
  <2>3. \A v \in Wallets : job'[v] = IF v = scan.w
                                     THEN [IdleJob EXCEPT !.st = "begin", !.plan = scan.plan]
                                     ELSE job[v]
    BY <1>3 DEF Acquire, Inv, TypeOK
  <2>4. \A v \in Wallets : JobFits(v)'
    BY <2>1, <2>3 DEF Inv, Fits, JobFits, IdleJob, Quorum
  <2> QED
    BY <1>3, <2>2, <2>4 DEF Acquire, network, Inv, Fits, PlansFit, CommitteesCanSign, Quorum
<1> QED
  BY <1>1, <1>2, <1>3 DEF ScanStep

\* runReshare: what it writes, leaves behind or records is of its plan and its families.
LEMMA JobStepFits ==
  ASSUME Inv, NEW w \in Wallets, JobStep(w)
  PROVE  Fits'
<1> USE DEF Inv
<1>1. \A v \in Wallets \ {w} : job'[v] = job[v]
  BY DEF JobStep, Begin, FamilyDone, FamilyFails, Verify, Record, Finish, SetJob, TypeOK
<1>2. JobFits(w)' => \A v \in Wallets : JobFits(v)'
  BY <1>1 DEF Fits, JobFits, Quorum
<1>3. job[w] \in Jobs /\ JobFits(w) /\ scan' = scan
  BY DEF JobStep, Begin, FamilyDone, FamilyFails, Verify, Record, Finish, TypeOK, Fits
<1>4. CASE Begin(w)
  <2>1. PICK only \in {Keys[w], pending[w]} \ {{}} :
          job' = [job EXCEPT ![w].st = "publishing", ![w].only = only]
    BY <1>4 DEF Begin
  <2>2. job'[w] = [job[w] EXCEPT !.st = "publishing", !.only = only]
    BY <2>1 DEF TypeOK, Jobs
  <2>3. only \subseteq Keys[w] /\ only # {}
    BY DEF Fits, PlansFit
  <2>4. JobFits(w)'
    BY <1>3, <1>4, <2>2, <2>3 DEF Begin, JobFits, Jobs
  <2> QED
    BY <1>2, <1>4, <2>4 DEF Begin, network, consul, Fits, PlansFit, CommitteesCanSign
<1>5. CASE FamilyDone(w)
  <2>1. NextKind(w) \in Keys[w] /\ Quorum(job[w].plan)
    BY <1>3, <1>5, NextKindLeft DEF FamilyDone
  <2>2. keyinfo' = [keyinfo EXCEPT ![w][NextKind(w)] = job[w].plan]
    BY <1>5 DEF FamilyDone
  <2>3. CommitteesCanSign'
    BY <2>1, <2>2, QuorumWritten DEF Fits
  <2>4. JobFits(w)'
    <3> DEFINE k == NextKind(w)
               st == IF job[w].only \ (job[w].done \cup {k}) = {} THEN "published" ELSE "publishing"
    <3> HIDE DEF k
    <3>1. \/ job' = [job EXCEPT ![w].st = st, ![w].done = @ \cup {k}]
          \/ job' = [job EXCEPT ![w].st = st, ![w].done = @ \cup {k}, ![w].changed = @ \cup {k}]
      BY <1>5 DEF FamilyDone, k
    <3> HIDE DEF st
    <3>2. /\ job'[w].st = st /\ job'[w].plan = job[w].plan /\ job'[w].only = job[w].only
          /\ job'[w].done = job[w].done \cup {k}
      BY <1>3, <3>1 DEF TypeOK, Jobs
    <3> QED
      BY <1>3, <2>1, <3>2 DEF JobFits, Quorum, st
  <2> QED
    BY <1>2, <1>5, <2>3, <2>4 DEF FamilyDone, network, Fits, PlansFit
<1>6. CASE FamilyFails(w)
  <2>1. Quorum(session(w).c) /\ session(w).k \in Keys[session(w).w]
    BY <1>3, <1>6, NextKindLeft DEF FamilyFails
  <2>2. job'[w] = [job[w] EXCEPT !.st = "failed"]
    BY <1>3, <1>6 DEF FamilyFails, SetJob, TypeOK, Jobs
  <2>3. JobFits(w)'
    BY <1>3, <1>6, <2>2 DEF FamilyFails, JobFits, Jobs
  <2> QED
    BY <1>2, <1>6, <2>1, <2>3 DEF FamilyFails, consul, Fits, PlansFit, CommitteesCanSign
<1>7. CASE Verify(w)
  <2>1. job'[w] = [job[w] EXCEPT !.st = "verified"]
    BY <1>3, <1>7 DEF Verify, SetJob, TypeOK, Jobs
  <2>2. JobFits(w)'
    BY <1>3, <1>7, <2>1 DEF Verify, JobFits, Jobs
  <2> QED
    BY <1>2, <1>7, <2>2 DEF Verify, network, Fits, PlansFit, CommitteesCanSign
<1>8. CASE Record(w)
  <2>1. job'[w] = [job[w] EXCEPT !.st = "recorded"]
    BY <1>3, <1>8 DEF Record, SetJob, TypeOK, Jobs
  <2>2. JobFits(w)'
    BY <1>3, <1>8, <2>1 DEF Record, JobFits, Jobs
  <2>3. \A v \in Wallets : pending'[v] \subseteq Keys[v]
    <3>1. job[w].only \ job[w].done \subseteq Keys[w]
      BY <1>3 DEF JobFits
    <3>2. pending' = [pending EXCEPT ![w] = job[w].only \ job[w].done] \/ pending' = pending
      BY <1>8 DEF Record
    <3> QED
      BY <3>1, <3>2 DEF TypeOK, Fits, PlansFit
  <2> QED
    BY <1>2, <1>8, <2>2, <2>3 DEF Record, network, Fits, PlansFit, CommitteesCanSign
<1>9. CASE Finish(w)
  <2>1. job'[w] = IdleJob
    BY <1>9 DEF Finish, TypeOK
  <2>2. JobFits(w)'
    BY <2>1 DEF JobFits, IdleJob
  <2> QED
    BY <1>2, <1>9, <2>2 DEF Finish, network, Fits, PlansFit, CommitteesCanSign
<1> QED
  BY <1>4, <1>5, <1>6, <1>7, <1>8, <1>9 DEF JobStep

\* Wallets start on committees that can sign.
LEMMA InitFits == Init => Fits
<1> SUFFICES ASSUME Init PROVE Fits
  OBVIOUS
<1>1. CommitteesCanSign
  <2> SUFFICES ASSUME NEW w \in Wallets, NEW k \in Kinds
               PROVE  IF k \in Keys[w] THEN Quorum(keyinfo[w][k]) ELSE keyinfo[w][k] = {}
    BY Zenon DEF CommitteesCanSign
  <2>1. PICK P \in SUBSET Nodes :
          /\ CanSelect(Policy, P)
          /\ \A j \in Kinds : keyinfo[w][j] = IF j \in Keys[w] THEN Chosen(Policy, Hash[w], {}, P) ELSE {}
    BY DEF Init, Generated
  <2>2. Quorum(Chosen(Policy, Hash[w], {}, P))
    BY <2>1, PlanIsQuorum
  <2> QED
    BY <2>1, <2>2
<1>2. \A w \in Wallets : JobFits(w)
  BY DEF Init, JobFits, IdleJob
<1>3. PlansFit
  BY DEF Init, PlansFit, IdleScan
<1> QED
  BY <1>1, <1>2, <1>3 DEF Fits

\* The inductive invariant of the reconcile loop.
THEOREM LoopInvariant == Spec => []Inv
<1>1. Init => Inv
  <2> SUFFICES ASSUME Init PROVE Inv
    OBVIOUS
  <2>1. TypeOK
    <3>1. keyinfo \in [Wallets -> [Kinds -> SUBSET Nodes]]
      BY DEF Init
    <3>2. IdleScan \in Scans /\ IdleJob \in Jobs
      BY DEF IdleScan, Scans, IdleJob, Jobs, JobStages
    <3>3. 0 \in 0..(ConfirmDeadScans - 1) /\ MaxTrouble \in 0..MaxTrouble
      BY OrchestratorAssumption
    <3> QED
      BY <3>1, <3>2, <3>3 DEF Init, TypeOK, Statuses
  <2>2. busy = {} /\ scan.st = "idle"
    BY DEF Init, busy, IdleJob, IdleScan
  <2>3. active = 0
    BY <2>2, BusyFinite, FS_EmptySet
  <2> QED
    BY <2>1, <2>2, <2>3, InitFits, OrchestratorAssumption DEF Inv, RoomLeft, CapHolds
<1>2. Inv /\ [Next]_vars => Inv'
  <2> SUFFICES ASSUME Inv, [Next]_vars PROVE Inv'
    OBVIOUS
  <2>1. CASE Environment \/ \E w \in Wallets : CooldownElapses(w) \/ LockLapses(w)
    <3>1. TypeOK'
      BY <2>1, EnvironmentType DEF Inv
    <3>2. busy' \subseteq busy /\ (scan' = scan \/ scan'.st \in {"idle", "visit"})
      <4>1. CASE Restart
        BY <4>1 DEF Restart, busy, IdleJob, IdleScan
      <4>2. ASSUME NEW n \in Nodes, NodeChanges(n) PROVE job' = job /\ scan' = scan
        BY <4>2 DEF NodeChanges
      <4>3. ASSUME NEW s \in late, LateCompletion(s) PROVE job' = job /\ scan' = scan
        BY <4>3 DEF LateCompletion
      <4>4. ASSUME NEW w \in Wallets, CooldownElapses(w) \/ LockLapses(w)
            PROVE  job' = job /\ scan' = scan
        BY <4>4 DEF CooldownElapses, LockLapses
      <4> QED
        BY <2>1, <4>1, <4>2, <4>3, <4>4 DEF Environment, busy
    <3> QED
      BY <2>1, <3>1, <3>2, CapKept, EnvironmentFits DEF Inv
  <2>2. ASSUME NEW w \in Wallets, JobStep(w) PROVE Inv'
    <3>1. TypeOK'
      BY <2>2, JobType DEF Inv
    <3>2. busy' \subseteq busy /\ scan' = scan
      BY <2>2, JobStaysBusy DEF Inv
    <3> QED
      BY <2>2, <3>1, <3>2, CapKept, JobStepFits DEF Inv
  <2>3. CASE ScanStep
    BY <2>3, ScanType, ScanCap, ScanFits DEF Inv
  <2>4. CASE UNCHANGED vars
    <3>1. Fits'
      BY <2>4, FitsUntouched DEF vars, network, consul, Inv
    <3> QED
      BY <2>4, <3>1 DEF vars, network, consul, Inv, TypeOK, RoomLeft, CapHolds, active
  <2> QED
    BY <2>1, <2>2, <2>3, <2>4 DEF Next
<1> QED
  BY <1>1, <1>2, PTL DEF Spec

\* The types of the reconcile loop's state, for every network and policy.
THEOREM TypeCorrect == Spec => []TypeOK
<1>1. Inv => TypeOK
  BY DEF Inv
<1> QED
  BY <1>1, LoopInvariant, PTL

\* global_max_inflight is never exceeded, whatever fails, restarts or interleaves.
THEOREM CapNeverExceeded == Spec => []CapHolds
<1>1. Inv => CapHolds
  BY DEF Inv
<1> QED
  BY <1>1, LoopInvariant, PTL

\* Every wallet stays signable, for every network, policy and history of failures: a
\* committee on record is a quorum within the cap, whether it was written by the reshare
\* that planned it, by one resumed after a crash or by a session the nodes end late.
THEOREM WalletsStaySignable == Spec => []CommitteesCanSign
<1>1. Inv => CommitteesCanSign
  BY DEF Inv, Fits
<1> QED
  BY <1>1, LoopInvariant, PTL
=============================================================================
