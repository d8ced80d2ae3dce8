------------------------ MODULE MCCommitteeSelection ------------------------
(* Four nodes, two shapes of the default policy scaled to t = 1 (one tier   *)
(* boundary inside the range of pools, one with a cap below the tier size), *)
(* one policy that does not validate, and two hash orders (one with a     *)
(* collision).                                                              *)
EXTENDS CommitteeSelection

Tier(m, s, e) == [maxActive |-> m, size |-> s, spare |-> e]

MCPolicies ==
  { [t |-> 1, cap |-> 7, tiers |-> {Tier(2, 2, 0), Tier(9, 3, 1)}],
    [t |-> 1, cap |-> 2, tiers |-> {Tier(3, 3, 0)}],
    [t |-> 2, cap |-> 2, tiers |-> {Tier(4, 3, 0)}] }

MCHashes == { <<3, 1, 4, 2>>, <<2, 1, 1, 2>> }

\* The sort of the model is TLC's, for every list of up to four ids.
ASSUME SortsAsTLC ==
  \A h \in MCHashes, ids \in Lists(Ids, 4) :
    sortByHash(h, ids) = SortSeq(ids, LAMBDA m, n : Before(h, m, n))
=============================================================================
