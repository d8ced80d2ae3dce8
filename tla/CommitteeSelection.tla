------------------------- MODULE CommitteeSelection -------------------------
(***************************************************************************)
(* SelectCommittee of pkg/committee as the code computes it, on lists: the *)
(* dedup, retain, trim and fill passes.  The state machine puts it through *)
(* the life of one wallet: the snapshot of active nodes a caller passes    *)
(* changes arbitrarily (any order, duplicates, empty ids), and every       *)
(* selection takes the committee of the previous one as the old committee. *)
(***************************************************************************)
EXTENDS Committee, Sequences, SequencesExt

CONSTANTS
  Ids,       \* node ids, positive numbers
  Policies,
  Hashes,    \* the hash orders considered, functions of Ids
  MaxPool,   \* longest activePool a caller passes
  MaxOld     \* longest committee recorded for an old wallet

Empty == 0   \* the empty string as a node id

ASSUME SelectionAssumption ==
  /\ Ids \subseteq Nat \ {Empty}
  /\ \A p \in Policies : Validate(p) => IsPolicy(p)
  /\ \A h \in Hashes : DOMAIN h = Ids /\ \A n \in Ids : h[n] \in Nat
  /\ MaxPool \in Nat /\ MaxOld \in Nat

VARIABLES
  policy,
  hash,
  snapshot,   \* activePool of the next call
  committee   \* NodeIDs of the last plan, or the committee of an old wallet

wallet == <<policy, hash, snapshot, committee>>

Lists(S, n) == UNION {[1..k -> S] : k \in 0..n}

----------------------------------------------------------------------------
\* The loop of the dedup, retain and fill passes: the entries of list that are in S, in
\* their order, each at its first occurrence.
distinct(list, S) ==
  LET kept[i \in 0..Len(list)] ==
        IF i = 0 THEN <<>>
        ELSE IF list[i] \in S /\ list[i] \notin ToSet(kept[i - 1])
             THEN Append(kept[i - 1], list[i])
             ELSE kept[i - 1]
  IN  kept[Len(list)]

\* The i-th of the sorted list has fewer than i entries before it and at least i that
\* are not after it.
sortByHash(h, ids) ==
  [i \in 1..Len(ids) |->
     CHOOSE n \in ToSet(ids) :
       /\ Cardinality({j \in 1..Len(ids) : Before(h, ids[j], n)}) < i
       /\ i <= Cardinality({j \in 1..Len(ids) : ~Before(h, n, ids[j])})]

\* sort.Strings: an id is its own key.
sortStrings(ids) == sortByHash([n \in Ids |-> n], ids)

uniqueSorted(ids) == sortStrings(distinct(ids, ToSet(ids) \ {Empty}))

\* Mutant: the old committee is ignored, as in a keygen.
retainNothing(h, old, poolSet, size) == <<>>

\* Mutant: the surviving members are cut in the order the caller listed them.
retainUnsorted(h, old, poolSet, size) ==
  LET retained == distinct(old, poolSet)
  IN  IF Len(retained) > size THEN SubSeq(retained, 1, size) ELSE retained

\* Step 3: live old members once each, in their order; too many are cut by hash.
retain(h, old, poolSet, size) ==
  LET retained == distinct(old, poolSet)
  IN  IF Len(retained) > size THEN SubSeq(sortByHash(h, retained), 1, size) ELSE retained

\* retained, with candidates appended until the committee is full.
fillUp(retained, candidates, size) ==
  LET room == size - Len(retained)
  IN  retained \o SubSeq(candidates, 1, IF room < Len(candidates) THEN room ELSE Len(candidates))

\* Mutant: the fill does not look at who was retained.
fillRepeats(h, retained, ids, size) == fillUp(retained, sortByHash(h, ids), size)

\* Step 4: the other pool members by hash.
fill(h, retained, ids, size) ==
  fillUp(retained, sortByHash(h, distinct(ids, ToSet(ids) \ ToSet(retained))), size)

Refused == [ok |-> FALSE, nodeIDs |-> <<>>]

SelectCommittee(p, h, old, activePool) ==
  LET ids == uniqueSorted(activePool)
      size == TargetSize(p, Len(ids))
      members == fill(h, retain(h, old, ToSet(ids), size), ids, size)
  IN  IF ~Validate(p) \/ ids = <<>> THEN Refused
      ELSE IF size < p.t + 1 THEN Refused
      ELSE IF Len(members) # size THEN Refused
      ELSE [ok |-> TRUE, nodeIDs |-> sortStrings(members)]

----------------------------------------------------------------------------
SelectInit ==
  /\ policy \in Policies
  /\ hash \in Hashes
  /\ committee \in Lists(Ids, MaxOld)
  /\ snapshot = <<>>

\* A caller takes a snapshot of the active nodes and is about to select.
Observe ==
  /\ snapshot = <<>>
  /\ snapshot' \in Lists(Ids \cup {Empty}, MaxPool)
  /\ UNCHANGED <<policy, hash, committee>>

\* The selection and the reshare (or, from an empty old committee, the keygen) that
\* installs it; the next call takes a snapshot of its own.
Reshare ==
  LET plan == SelectCommittee(policy, hash, committee, snapshot)
  IN  /\ plan.ok
      /\ committee' = plan.nodeIDs
      /\ snapshot' = <<>>
      /\ UNCHANGED <<policy, hash>>

\* The caller gives up on an error and comes back with the next snapshot.
Refuse ==
  /\ snapshot # <<>>
  /\ ~SelectCommittee(policy, hash, committee, snapshot).ok
  /\ snapshot' = <<>>
  /\ UNCHANGED <<policy, hash, committee>>

SelectNext == Observe \/ Reshare \/ Refuse

SelectSpec == SelectInit /\ [][SelectNext]_wallet

----------------------------------------------------------------------------
(* Properties.                                                              *)

\* Coordinators that see the same nodes choose the same committee: the lists' order,
\* their duplicates and empty ids, and the order of the old committee do not matter.
\* The plan is exactly the set Committee promises, each member once, and selection is
\* refused exactly when the promise cannot be kept (committee.go:6-10).
MatchesPromise ==
  LET live == ToSet(snapshot) \ {Empty}
      plan == SelectCommittee(policy, hash, committee, snapshot)
  IN  /\ plan.ok <=> CanSelect(policy, live)
      /\ plan.ok => /\ ToSet(plan.nodeIDs) = Chosen(policy, hash, ToSet(committee), live)
                    /\ Len(plan.nodeIDs) = Cardinality(ToSet(plan.nodeIDs))

\* A reshare moves no more shares than it must: of the old members still in the pool it
\* keeps all, or a full committee of them.
KeepsLiveMembers ==
  [][Reshare =>
       LET kept == ToSet(committee) \cap ToSet(committee')
           alive == ToSet(committee) \cap ToSet(snapshot)
       IN  kept = alive \/ (kept \subseteq alive /\ kept = ToSet(committee'))]_wallet

\* Selection settles: run again on the pool it chose from, it changes nothing, so a
\* retried reshare does not shuffle the committee.
Settles ==
  LET plan == SelectCommittee(policy, hash, committee, snapshot)
  IN  plan.ok => SelectCommittee(policy, hash, plan.nodeIDs, snapshot) = plan
=============================================================================
