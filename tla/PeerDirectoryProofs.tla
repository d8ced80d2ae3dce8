------------------------- MODULE PeerDirectoryProofs -------------------------
(***************************************************************************)
(* The safety of the peer directory, for any number of peers and keys, any *)
(* threshold, and any number of edits and faults: who may be in the        *)
(* registry, what the ready counter counts, and what an open keygen gate   *)
(* means.                                                                  *)
(***************************************************************************)
EXTENDS PeerDirectory, FiniteSetTheorems, TLAPS

\* Callbacks are outstanding only while runNode or the watch makes them, and nobody is
\* registered before.
CallbacksInPhase ==
    /\ pc \notin {"boot", "callbacks"} => added = {} /\ removed = {}
    /\ pc = "boot" => removed = {}
    /\ pc \in {"load", "verifier"} => registry = {}

\* The registry trails the store by the callbacks: it knows nobody the store has
\* dropped but the peers whose removal is still to be called, and nobody who is still to
\* be added.
RegistryTrails ==
    /\ registry \subseteq Known \cup removed
    /\ added \subseteq Known \ registry
    /\ removed \cap Known = {}

\* The whitelist, and what the cache holds of it, are part of its history.
CacheFromWhitelist ==
    \A n \in Peers : /\ <<n, wl[n]>> \in allowed
                     /\ cache[n] # Nothing => <<n, cache[n]>> \in allowed

\* The flag speaks for the members at the last update, and every member is in the mesh.
FlagSound == allReady => registry \ fresh \subseteq ready
RegistryInMesh == registry \subseteq meshPeers

DirectoryInv ==
    /\ TypeOK /\ CallbacksInPhase /\ RegistryTrails /\ CacheFromWhitelist
    /\ FlagSound /\ RegistryInMesh /\ ReadyCounted /\ MembersWhitelisted

-----------------------------------------------------------------------------
(* Types                                                                   *)

\* The faults counted stay within their bound.
LEMMA FaultType == ASSUME TypeOK, Fault \/ UNCHANGED faults PROVE faults' \in 0..MaxFaults
  BY DirectoryAssumption DEF TypeOK, Fault

\* The edits counted stay within their bound.
LEMMA EditType == ASSUME TypeOK, Edit PROVE edits' \in 0..MaxEdits
  BY DirectoryAssumption DEF TypeOK, Edit

\* A directory entry that is there has a key, or one that the watch takes for empty.
LEMMA EntryKey ==
  ASSUME TypeOK, NEW n \in Peers, dir[n] # Nothing
  PROVE  /\ dir[n][2] = Garbled \/ dir[n][2] \in Keys \cup {NoKey}
         /\ WatchedKey(n) \in Keys \cup {NoKey}
<1>1. dir[n] \in {"json", "simple"} \X (Keys \cup {NoKey, Garbled})
  BY DEF TypeOK, Entries
<1> QED BY <1>1 DEF WatchedKey

\* A membership check reloads the cache from the whitelist or leaves it.
LEMMA VerifyType ==
  ASSUME TypeOK, NEW n \in Peers, NEW k, NEW ok, VerifyMembership(n, k, ok)
  PROVE  cache' \in [Peers -> Listing] /\ faults' \in 0..MaxFaults
<1>1. cache' \in {cache, wl} /\ (Fault \/ UNCHANGED faults)
  BY DEF VerifyMembership
<1> QED BY <1>1, FaultType DEF TypeOK

\* The flag is a truth value after every update.
LEMMA FlagType == updateReadyState => allReady' \in BOOLEAN /\ fresh' = {}
  BY Zenon DEF updateReadyState

\* Every step keeps the types.
LEMMA StepType == TypeOK /\ [Next]_vars => TypeOK'
<1> SUFFICES ASSUME TypeOK, [Next]_vars PROVE TypeOK'
  OBVIOUS
<1>1. ASSUME NEW n \in Peers, NEW l \in WlValues[n], EditWhitelist(n, l) PROVE TypeOK'
  <2>1. l \in Listing
    BY DirectoryAssumption DEF Listing
  <2>2. wl' \in [Peers -> Listing] /\ allowed' \subseteq Peers \X Listing
    BY <1>1, <2>1 DEF EditWhitelist, TypeOK
  <2>3. edits' \in 0..MaxEdits
    BY <1>1, EditType DEF EditWhitelist
  <2> QED BY <1>1, <2>2, <2>3 DEF EditWhitelist, TypeOK, node
<1>2. ASSUME NEW n \in Peers, NEW e \in DirValues[n], EditDirectory(n, e) PROVE TypeOK'
  <2>1. e \in Entries
    BY DirectoryAssumption DEF Entries
  <2>2. dir' \in [Peers -> Entries]
    BY <1>2, <2>1 DEF EditDirectory, TypeOK
  <2>3. edits' \in 0..MaxEdits
    BY <1>2, EditType DEF EditDirectory
  <2>4. changed' \in BOOLEAN
    BY <1>2, Zenon DEF EditDirectory
  <2> QED BY <1>2, <2>2, <2>3, <2>4 DEF EditDirectory, TypeOK, node
<1>3. ASSUME NEW n \in Peers, Exchange(n) PROVE TypeOK'
  BY <1>3 DEF Exchange, TypeOK, consul
<1>4. ASSUME NEW up \in SUBSET Peers, CheckPeerReadiness(up) PROVE TypeOK'
  <2>1. ready' \subseteq Peers /\ registry' = registry
    BY <1>4 DEF CheckPeerReadiness, TypeOK
  <2>2. IsFiniteSet(ready' \ ready) /\ IsFiniteSet(ready \ ready')
    BY <2>1, DirectoryAssumption, FS_Subset DEF TypeOK
  <2>3. readyCount' \in Int
    BY <1>4, <2>2, FS_CardinalityType DEF CheckPeerReadiness, TypeOK
  <2>4. meshPeers' \subseteq Peers /\ symKeys' \subseteq Peers
    BY <1>4, <2>1 DEF CheckPeerReadiness, HandleECDHRejoin, TypeOK
  <2>5. allReady' \in BOOLEAN /\ fresh' \subseteq Peers
    BY <1>4, FlagType DEF CheckPeerReadiness
  <2> QED BY <1>4, <2>1, <2>3, <2>4, <2>5 DEF CheckPeerReadiness, TypeOK, consul
<1>5. CASE LoadPeersFromConsul
  <2>1. faults' \in 0..MaxFaults
    BY <1>5, FaultType DEF LoadPeersFromConsul
  <2>2. store' \in [Peers -> Keys \cup {NoKey, Nothing}]
    BY <1>5, EntryKey DEF LoadPeersFromConsul, TypeOK
  <2> QED BY <1>5, <2>1, <2>2 DEF LoadPeersFromConsul, TypeOK, consul, PcStates
<1>6. CASE CreateMembershipVerifier
  <2>1. faults' \in 0..MaxFaults
    BY <1>6, FaultType DEF CreateMembershipVerifier
  <2>2. cache' \in [Peers -> Listing] /\ verifier' \in {"none", "whitelist", "stub"}
    BY <1>6 DEF CreateMembershipVerifier, TypeOK
  <2> QED BY <1>6, <2>1, <2>2 DEF CreateMembershipVerifier, TypeOK, consul, PcStates, Known
<1>7. ASSUME NEW n \in Peers, PeerAdded(n) PROVE TypeOK'
  <2>1. PICK ok \in BOOLEAN : VerifyMembership(n, store[n], ok)
    BY <1>7 DEF PeerAdded, AddPeer
  <2>2. cache' \in [Peers -> Listing] /\ faults' \in 0..MaxFaults
    BY <2>1, VerifyType
  <2>3. /\ registry' \subseteq registry \cup {n} /\ fresh' \subseteq fresh \cup {n}
        /\ meshPeers' \subseteq meshPeers \cup {n} /\ symKeys' \subseteq symKeys
        /\ excused' \subseteq excused \cup {n}
    BY <1>7 DEF PeerAdded, AddPeer, SessionAddPeer
  <2> QED BY <1>7, <2>2, <2>3 DEF PeerAdded, TypeOK, consul
<1>8. ASSUME NEW n \in Peers, PeerRemoved(n) PROVE TypeOK'
  <2>1. registry' \subseteq Peers /\ ready' \subseteq Peers /\ readyCount' \in Int
    BY <1>8 DEF PeerRemoved, RemovePeer, TypeOK
  <2>2. allReady' \in BOOLEAN /\ fresh' \subseteq Peers
    <3>1. CASE n \in registry
      BY <1>8, <3>1, FlagType DEF PeerRemoved, RemovePeer
    <3>2. CASE n \notin registry
      BY <1>8, <3>2 DEF PeerRemoved, RemovePeer, TypeOK
    <3> QED BY <3>1, <3>2
  <2> QED BY <1>8, <2>1, <2>2 DEF PeerRemoved, TypeOK, consul
<1>9. CASE WatchRound
  <2>1. added' \subseteq Peers /\ removed' \subseteq Peers /\ \A n \in added' : dir[n] # Nothing
    BY <1>9 DEF WatchRound, NewPeers, Known, Listed
  <2>2. store' \in [Peers -> Keys \cup {NoKey, Nothing}]
    BY <1>9, <2>1, EntryKey DEF WatchRound, TypeOK
  <2>3. changed' \in BOOLEAN
    BY <1>9, Zenon DEF WatchRound
  <2> QED BY <1>9, <2>1, <2>2, <2>3 DEF WatchRound, TypeOK, PcStates
<1>10. CASE StopWatch
  <2>1. stopped' \in BOOLEAN
    BY <1>10, Zenon DEF StopWatch
  <2> QED BY <1>10, <2>1 DEF StopWatch, TypeOK, consul
<1>11. CASE WatchTop \/ WatchIdle \/ CallbacksDone \/ IsSelfMember
  BY <1>11 DEF WatchTop, WatchIdle, CallbacksDone, IsSelfMember, TypeOK, consul, PcStates
<1>12. CASE UNCHANGED vars
  BY <1>12 DEF vars, consul, node, TypeOK
<1> QED BY <1>1, <1>2, <1>3, <1>4, <1>5, <1>6, <1>7, <1>8, <1>9, <1>10, <1>11, <1>12
        DEF Next, Boot, Watch
-----------------------------------------------------------------------------
(* Counting                                                                *)

\* What checkPeerReadiness adds and subtracts is the change in the number of ready peers.
LEMMA Recount ==
  ASSUME NEW A, NEW B, IsFiniteSet(A), IsFiniteSet(B)
  PROVE  Cardinality(B) = Cardinality(A) + Cardinality(B \ A) - Cardinality(A \ B)
<1>1. Cardinality(B \ A) = Cardinality(B) - Cardinality(A \cap B)
  <2>1. B \cap A = A \cap B
    OBVIOUS
  <2> QED BY <2>1, FS_Difference
<1>2. Cardinality(A \ B) = Cardinality(A) - Cardinality(A \cap B)
  BY FS_Difference
<1>3. /\ Cardinality(A) \in Nat /\ Cardinality(B) \in Nat /\ Cardinality(A \cap B) \in Nat
  BY FS_CardinalityType, FS_Intersection
<1> QED BY <1>1, <1>2, <1>3

\* updateReadyState compares two numbers; that the ready peers are members makes it a
\* comparison of the sets.
LEMMA UpdateSound ==
  ASSUME TypeOK', ready' \subseteq registry', updateReadyState
  PROVE  FlagSound'
<1> SUFFICES ASSUME allReady' PROVE registry' \subseteq ready'
  BY DEF FlagSound
<1>1. IsFiniteSet(registry')
  BY DirectoryAssumption, FS_Subset DEF TypeOK
<1>2. Cardinality(ready') = Cardinality(registry')
  BY DEF updateReadyState
<1> QED BY <1>1, <1>2, FS_Subset

-----------------------------------------------------------------------------
(* The other parts of the invariant                                        *)

Rest ==
    /\ CallbacksInPhase /\ RegistryTrails /\ CacheFromWhitelist
    /\ FlagSound /\ RegistryInMesh /\ ReadyCounted /\ MembersWhitelisted

\* A node starts with an empty store, cache, mesh and registry.
LEMMA InitDirectory == Init => DirectoryInv
<1> SUFFICES ASSUME Init PROVE DirectoryInv
  OBVIOUS
<1>1. TypeOK
  <2>1. edits \in 0..MaxEdits /\ faults \in 0..MaxFaults /\ readyCount \in Int
    BY DirectoryAssumption DEF Init
  <2>2. changed \in BOOLEAN /\ allReady \in BOOLEAN /\ stopped \in BOOLEAN
    BY Zenon DEF Init
  <2>3. dir \in [Peers -> Entries] /\ wl \in [Peers -> Listing]
    BY DEF Init
  <2>4. allowed \subseteq Peers \X Listing
    BY <2>3 DEF Init
  <2> QED BY <2>1, <2>2, <2>3, <2>4 DEF Init, TypeOK, PcStates, Listing
<1>2. ReadyCounted
  BY FS_EmptySet DEF Init, ReadyCounted
<1>3. CacheFromWhitelist
  BY DEF Init, CacheFromWhitelist
<1> QED BY <1>1, <1>2, <1>3
        DEF Init, DirectoryInv, CallbacksInPhase, RegistryTrails, FlagSound, RegistryInMesh,
            MembersWhitelisted, Known

\* Every step keeps the relations between store, whitelist, mesh and registry.
LEMMA StepRest == DirectoryInv /\ TypeOK' /\ [Next]_vars => Rest'
<1> SUFFICES ASSUME DirectoryInv, TypeOK', [Next]_vars PROVE Rest'
  OBVIOUS
<1> USE DEF Rest
\* Steps that only the whitelist, the directory or the symmetric keys are the object of.
<1>1. ASSUME UNCHANGED <<wl, allowed, cache, pc, store, meshPeers, added, removed, registry, ready,
                         readyCount, allReady, fresh>>
      PROVE  Rest'
  BY <1>1 DEF DirectoryInv, CallbacksInPhase, RegistryTrails, CacheFromWhitelist, FlagSound,
              RegistryInMesh, ReadyCounted, MembersWhitelisted, Known
<1>2. ASSUME NEW n \in Peers, NEW l \in WlValues[n], EditWhitelist(n, l) PROVE Rest'
  <2>1. UNCHANGED <<pc, cache, store, meshPeers, added, removed, registry, ready, readyCount,
                    allReady, fresh>>
    BY <1>2 DEF EditWhitelist, node
  <2>2. CacheFromWhitelist' /\ MembersWhitelisted'
    BY <1>2, <2>1 DEF EditWhitelist, DirectoryInv, TypeOK, CacheFromWhitelist, MembersWhitelisted,
                      Known
  <2> QED BY <2>1, <2>2 DEF DirectoryInv, CallbacksInPhase, RegistryTrails, FlagSound,
                            RegistryInMesh, ReadyCounted, Known
<1>3. CASE IsSelfMember
  BY <1>3 DEF IsSelfMember, consul, DirectoryInv, CallbacksInPhase, RegistryTrails,
              CacheFromWhitelist, FlagSound, RegistryInMesh, ReadyCounted, MembersWhitelisted,
              Known
<1>4. ASSUME NEW up \in SUBSET Peers, CheckPeerReadiness(up) PROVE Rest'
  <2>1. /\ UNCHANGED <<wl, allowed, pc, cache, store, added, removed, registry>>
        /\ ready' = registry \cap up /\ meshPeers \subseteq meshPeers'
    BY <1>4 DEF CheckPeerReadiness, consul, HandleECDHRejoin
  <2>2. IsFiniteSet(ready) /\ IsFiniteSet(ready')
    BY DirectoryAssumption, FS_Subset DEF DirectoryInv, TypeOK
  <2>3. ReadyCounted'
    <3>1. Cardinality(ready') = Cardinality(ready) + Cardinality(ready' \ ready)
                                - Cardinality(ready \ ready')
      BY <2>2, Recount
    <3>2. /\ Cardinality(ready) \in Nat /\ Cardinality(ready' \ ready) \in Nat
          /\ Cardinality(ready \ ready') \in Nat
      BY <2>2, FS_CardinalityType, FS_Difference
    <3> QED BY <1>4, <2>1, <3>1, <3>2 DEF CheckPeerReadiness, DirectoryInv, ReadyCounted
  <2>4. FlagSound'
    BY <1>4, <2>1, UpdateSound DEF CheckPeerReadiness
  <2> QED BY <2>1, <2>3, <2>4 DEF DirectoryInv, CallbacksInPhase, RegistryTrails,
                                  CacheFromWhitelist, RegistryInMesh, MembersWhitelisted, Known
<1>5. CASE LoadPeersFromConsul
  BY <1>5 DEF LoadPeersFromConsul, consul, DirectoryInv, CallbacksInPhase, RegistryTrails,
              CacheFromWhitelist, FlagSound, RegistryInMesh, ReadyCounted, MembersWhitelisted
<1>6. CASE CreateMembershipVerifier
  <2>1. cache' \in {cache, wl} /\ registry = {} /\ UNCHANGED <<wl, allowed, store, registry>>
    BY <1>6 DEF CreateMembershipVerifier, consul, DirectoryInv, CallbacksInPhase
  <2>2. CacheFromWhitelist'
    BY <2>1 DEF DirectoryInv, CacheFromWhitelist
  <2> QED BY <1>6, <2>1, <2>2
          DEF CreateMembershipVerifier, DirectoryInv, CallbacksInPhase, RegistryTrails, FlagSound,
              RegistryInMesh, ReadyCounted, MembersWhitelisted, Known
<1>7. ASSUME NEW n \in Peers, PeerAdded(n) PROVE Rest'
  <2>1. PICK ok \in BOOLEAN :
          /\ VerifyMembership(n, store[n], ok)
          /\ IF ok THEN registry' = registry \cup {n} /\ fresh' = fresh \cup {n}
                        /\ meshPeers' = meshPeers \cup {n}
                   ELSE UNCHANGED <<registry, fresh, meshPeers>>
    BY <1>7 DEF PeerAdded, AddPeer, SessionAddPeer
  <2>2. /\ n \in added /\ added' = added \ {n} /\ pc \in {"boot", "callbacks"}
        /\ UNCHANGED <<wl, allowed, pc, store, removed, ready, readyCount, allReady>>
    BY <1>7 DEF PeerAdded, consul
  <2>3. cache' \in {cache, wl}
    BY <2>1 DEF VerifyMembership
  <2>4. CacheFromWhitelist'
    BY <2>2, <2>3 DEF DirectoryInv, CacheFromWhitelist
  <2>5. ok => \E l \in Keys \cup {AnyKey} :
                <<n, l>> \in allowed /\ (l \in {store[n], AnyKey} \/ store[n] = NoKey)
    <3>1. ok => \E l \in {cache[n], wl[n]} :
                  <<n, l>> \in allowed /\ Matches(l, store[n])
      BY <2>1 DEF VerifyMembership, Matches, DirectoryInv, CacheFromWhitelist
    <3>2. cache[n] \in Listing /\ wl[n] \in Listing
      BY DEF DirectoryInv, TypeOK
    <3> QED BY <3>1, <3>2 DEF Matches, Listing
  <2>6. MembersWhitelisted'
    BY <2>1, <2>2, <2>5 DEF DirectoryInv, MembersWhitelisted, Known
  <2>7. CallbacksInPhase' /\ RegistryTrails'
    BY <2>1, <2>2 DEF DirectoryInv, CallbacksInPhase, RegistryTrails, Known
  <2>8. FlagSound' /\ RegistryInMesh' /\ ReadyCounted'
    BY <2>1, <2>2 DEF DirectoryInv, FlagSound, RegistryInMesh, ReadyCounted
  <2> QED BY <2>4, <2>6, <2>7, <2>8
<1>8. ASSUME NEW n \in Peers, PeerRemoved(n) PROVE Rest'
  <2>1. /\ pc = "callbacks" /\ n \in removed /\ removed' = removed \ {n}
        /\ UNCHANGED <<wl, allowed, pc, cache, store, meshPeers, added>>
    BY <1>8 DEF PeerRemoved, consul
  <2>2. registry' = registry \ {n} /\ ready' = ready \ {n}
    BY <1>8 DEF PeerRemoved, RemovePeer, DirectoryInv, ReadyCounted
  <2>3. ReadyCounted'
    <3>1. IsFiniteSet(ready) /\ Cardinality(ready) \in Nat
      BY DirectoryAssumption, FS_Subset, FS_CardinalityType DEF DirectoryInv, TypeOK
    <3>2. Cardinality(ready \ {n}) = IF n \in ready THEN Cardinality(ready) - 1
                                                    ELSE Cardinality(ready)
      BY <3>1, FS_RemoveElement
    <3> QED BY <1>8, <2>2, <3>1, <3>2 DEF PeerRemoved, RemovePeer, DirectoryInv, ReadyCounted
  <2>4. FlagSound'
    <3>1. CASE n \in registry
      BY <1>8, <2>3, <3>1, UpdateSound DEF PeerRemoved, RemovePeer, ReadyCounted
    <3>2. CASE n \notin registry
      BY <1>8, <3>2 DEF PeerRemoved, RemovePeer, DirectoryInv, FlagSound
    <3> QED BY <3>1, <3>2
  <2>5. CallbacksInPhase' /\ RegistryTrails'
    BY <2>1, <2>2 DEF DirectoryInv, CallbacksInPhase, RegistryTrails, Known
  <2> QED BY <2>1, <2>2, <2>3, <2>4, <2>5
          DEF DirectoryInv, CacheFromWhitelist, RegistryInMesh, MembersWhitelisted, Known
<1>9. CASE WatchRound
  <2>1. /\ added = {} /\ removed = {} /\ registry \subseteq Known
        /\ UNCHANGED <<wl, allowed, cache, meshPeers, registry, ready, readyCount, allReady, fresh>>
    BY <1>9 DEF WatchRound, DirectoryInv, CallbacksInPhase, RegistryTrails
  <2>2. /\ added' = NewPeers \ Known /\ removed' = Known \ NewPeers /\ pc' = "callbacks"
        /\ \A n \in added' : dir[n] # Nothing /\ n \in Peers
    BY <1>9 DEF WatchRound, NewPeers, Listed
  <2>3. store' = [n \in Peers |-> CASE n \in added' -> WatchedKey(n)
                                    [] n \in removed' -> Nothing
                                    [] OTHER -> store[n]]
    BY <1>9 DEF WatchRound
  <2>4. \A n \in added' : store'[n] # Nothing
    BY <2>2, <2>3, EntryKey, DirectoryAssumption DEF DirectoryInv
  <2>5. added' \cap removed' = {} /\ added' \cap Known = {} /\ removed' \subseteq Known
    BY <2>2
  <2>6. \A n \in Known \ removed' : store'[n] = store[n] /\ store[n] # Nothing
    BY <2>3, <2>5 DEF Known
  <2>7. \A n \in removed' : store'[n] = Nothing
    BY <2>3, <2>5 DEF Known
  <2>8. RegistryTrails'
    BY <2>1, <2>2, <2>4, <2>5, <2>6, <2>7 DEF RegistryTrails, Known
  <2>9. MembersWhitelisted'
    BY <2>1, <2>6, <2>7 DEF DirectoryInv, MembersWhitelisted, Known
  <2> QED BY <2>1, <2>2, <2>8, <2>9
          DEF DirectoryInv, CallbacksInPhase, CacheFromWhitelist, FlagSound, RegistryInMesh,
              ReadyCounted
<1>10. CASE WatchTop \/ WatchIdle \/ CallbacksDone
  <2>1. /\ UNCHANGED <<wl, allowed, cache, store, meshPeers, added, removed, registry, ready,
                       readyCount, allReady, fresh>>
        /\ added = {} /\ removed = {} /\ pc' \in {"off", "list", "top"}
    BY <1>10 DEF WatchTop, WatchIdle, CallbacksDone, consul, DirectoryInv, CallbacksInPhase
  <2>2. CallbacksInPhase' /\ RegistryTrails'
    BY <2>1 DEF DirectoryInv, CallbacksInPhase, RegistryTrails, Known
  <2> QED BY <2>1, <2>2 DEF DirectoryInv, CacheFromWhitelist, FlagSound, RegistryInMesh,
                            ReadyCounted, MembersWhitelisted, Known
<1>11. CASE \/ StopWatch \/ UNCHANGED vars
            \/ \E n \in Peers : Exchange(n) \/ \E e \in DirValues[n] : EditDirectory(n, e)
  BY <1>1, <1>11 DEF StopWatch, vars, Exchange, EditDirectory, consul, node
<1> QED BY <1>2, <1>3, <1>4, <1>5, <1>6, <1>7, <1>8, <1>9, <1>10, <1>11 DEF Next, Boot, Watch

-----------------------------------------------------------------------------
(* Theorems                                                                *)

\* The inductive invariant holds in every state of every behaviour.
THEOREM DirectoryInvariant == Spec => []DirectoryInv
<1>1. DirectoryInv /\ [Next]_vars => DirectoryInv'
  BY StepType, StepRest DEF DirectoryInv, Rest
<1> QED BY InitDirectory, <1>1, PTL DEF Spec

\* The maps of the identity store, the verifier and the registry are well typed.
THEOREM TypeCorrect == Spec => []TypeOK
  BY DirectoryInvariant, PTL DEF DirectoryInv

\* AddPeer lets nobody into the registry whom the whitelist did not name, under the key
\* the store has for it now, under none, or, when the store has an empty key, under any:
\* whatever was cached, edited or lost in between.
THEOREM OnlyWhitelistedMembers == Spec => []MembersWhitelisted
  BY DirectoryInvariant, PTL DEF DirectoryInv

\* The counter that AddPeer, RemovePeer and checkPeerReadiness keep by increments is the
\* number of ready members and this node.
THEOREM CounterIsExact == Spec => []ReadyCounted
  BY DirectoryInvariant, PTL DEF DirectoryInv

\* ArePeersReady opens the gate to keygen only with a quorum ready, every peer of the last
\* update among it, and a symmetric key with every member.
THEOREM OpenGateIsSound == Spec => []GateSound
<1>1. DirectoryInv => GateSound
  <2> SUFFICES ASSUME DirectoryInv, ArePeersReady PROVE
        /\ registry \ fresh \subseteq ready /\ Cardinality(ready) + 1 >= Threshold + 1
        /\ registry \subseteq symKeys
    BY DEF GateSound
  <2> QED BY DEF DirectoryInv, ArePeersReady, FlagSound, ReadyCounted, RegistryInMesh
<1> QED BY DirectoryInvariant, <1>1, PTL
==============================================================================
