---------------------------- MODULE PeerDirectory ----------------------------
(***************************************************************************)
(* How one node learns its peers: the identity directory and the           *)
(* membership whitelist in Consul (cmd/operator), the whitelist cache of   *)
(* the verifier (pkg/eligibility/whitelist_membership.go), the public keys *)
(* of the identity store and its watch (pkg/identity/dynamic_store.go),    *)
(* the peer registry, its readiness bookkeeping and the keygen gate        *)
(* (pkg/mpc/dynamic_registry.go), wired by cmd/aicw-node/main.go.          *)
(*                                                                         *)
(* Public keys are model values, NoKey among them: the key of no bytes.  A *)
(* directory entry is a pair of the format it is written in and the key,   *)
(* or Garbled where that is not hexadecimal.  The loop that renegotiates   *)
(* symmetric keys is in KeyExchange; here Exchange completes one.  The     *)
(* ready/ keys of the peers, which ReadySession is about, come and go      *)
(* freely: a readiness check finds any set of them, restarted or not.      *)
(***************************************************************************)
EXTENDS Integers, FiniteSets

CONSTANTS
    Peers,       \* the other nodes
    Keys,        \* public keys
    NoKey,       \* an empty public key
    Garbled,     \* a public key in the directory that does not decode
    AnyKey,      \* a whitelist entry without a public key: any key matches
    Nothing,     \* no entry, no key
    Threshold,   \* mpc_threshold
    DirValues,   \* bound: what the directory may hold for each peer
    WlValues,    \* bound: what the whitelist may hold for each peer
    MaxEdits,    \* bound: changes of the directory and of the whitelist
    MaxFaults    \* bound: requests to Consul that fail

ASSUME DirectoryAssumption ==
    /\ IsFiniteSet(Peers)
    /\ NoKey \notin Keys /\ Garbled \notin Keys \cup {NoKey}
    /\ AnyKey \notin Keys \cup {NoKey} /\ Nothing \notin Keys \cup {NoKey, AnyKey}
    /\ Nothing \notin {"json", "simple"} \X (Keys \cup {NoKey, Garbled})
    /\ DirValues \in
         [Peers -> SUBSET (({"json", "simple"} \X (Keys \cup {NoKey, Garbled})) \cup {Nothing})]
    /\ WlValues \in [Peers -> SUBSET (Keys \cup {AnyKey, Nothing})]
    /\ Threshold \in Nat \ {0} /\ MaxEdits \in Nat /\ MaxFaults \in Nat

Entries == ({"json", "simple"} \X (Keys \cup {NoKey, Garbled})) \cup {Nothing}
Listing == Keys \cup {AnyKey, Nothing}

VARIABLES
    dir,         \* mpc_node_identity/ in Consul
    wl,          \* the membership whitelist in Consul
    pc,          \* where runNode, then the goroutine of the watch, is
    verifier,    \* "whitelist", or "stub" when the first load failed
    cache,       \* allowedPeers
    store,       \* peerPublicKeys
    symKeys,     \* the peers with a symmetric key
    meshPeers,   \* peerIDs of the ECDH session
    added,       \* callbacks still to make ...
    removed,     \* ... the removals come after the additions
    changed,     \* the directory has changed since the last List
    registry,    \* peerNodeIDs
    ready,       \* the peers readyMap says are ready
    readyCount,
    allReady,    \* the field ready: every peer is
    stopped,     \* performShutdown has closed both watch channels
    allowed,     \* history: every <<node, listing>> the whitelist ever held
    fresh,       \* history: peers added since the last updateReadyState
    excused,     \* history: peers AddPeer refused, by whitelist, cache or failed load
    edits, faults

consul == <<dir, wl, changed, allowed, edits>>
node == <<pc, verifier, cache, store, symKeys, meshPeers, added, removed,
          registry, ready, readyCount, allReady, stopped, fresh, excused>>
vars == <<consul, node, faults>>

PcStates == {"load", "verifier", "boot", "top", "list", "callbacks", "off"}

\* One type invariant: the state of Consul and of the node's maps.
TypeOK ==
    /\ dir \in [Peers -> Entries] /\ wl \in [Peers -> Listing]
    /\ changed \in BOOLEAN
    /\ pc \in PcStates /\ verifier \in {"none", "whitelist", "stub"}
    /\ cache \in [Peers -> Listing]
    /\ store \in [Peers -> Keys \cup {NoKey, Nothing}]
    /\ symKeys \subseteq Peers /\ meshPeers \subseteq Peers
    /\ added \subseteq Peers /\ removed \subseteq Peers
    /\ registry \subseteq Peers /\ ready \subseteq Peers
    /\ readyCount \in Int /\ allReady \in BOOLEAN
    /\ stopped \in BOOLEAN
    /\ allowed \subseteq Peers \X Listing
    /\ fresh \subseteq Peers /\ excused \subseteq Peers
    /\ edits \in 0..MaxEdits /\ faults \in 0..MaxFaults

\* The node starts against whatever Consul holds.
Init ==
    /\ dir \in {d \in [Peers -> Entries] : \A n \in Peers : d[n] \in DirValues[n]}
    /\ wl \in {w \in [Peers -> Listing] : \A n \in Peers : w[n] \in WlValues[n]}
    /\ changed = TRUE
    /\ allowed = {<<n, wl[n]>> : n \in Peers}
    /\ pc = "load" /\ verifier = "none"
    /\ cache = [n \in Peers |-> Nothing]
    /\ store = [n \in Peers |-> Nothing]
    /\ symKeys = {} /\ meshPeers = {} /\ added = {} /\ removed = {}
    /\ registry = {} /\ ready = {} /\ readyCount = 1 /\ allReady = FALSE
    /\ stopped = FALSE /\ fresh = {} /\ excused = {}
    /\ edits = 0 /\ faults = 0

Fault == faults < MaxFaults /\ faults' = faults + 1
Edit == edits < MaxEdits /\ edits' = edits + 1
Known == {n \in Peers : store[n] # Nothing}

\* The comparison in VerifyMembership: made only when both keys have bytes.
Matches(listing, k) ==
    listing # Nothing /\ (listing = AnyKey \/ k = NoKey \/ listing = k)

-----------------------------------------------------------------------------
(* The operators and the other nodes                                       *)

\* add-member and remove-member.
EditWhitelist(n, l) ==
    /\ Edit /\ wl[n] # l
    /\ wl' = [wl EXCEPT ![n] = l]
    /\ allowed' = allowed \cup {<<n, l>>}
    /\ UNCHANGED <<dir, changed, node, faults>>

\* A peer runs SyncSelfToConsul, or its entry is written or deleted by hand.
EditDirectory(n, e) ==
    /\ Edit /\ dir[n] # e
    /\ dir' = [dir EXCEPT ![n] = e]
    /\ changed' = TRUE
    /\ UNCHANGED <<wl, allowed, node, faults>>

\* The inner session accepts the key of a peer whose signature verifies under
\* the public key in the store, whether or not the registry has the peer.
\* No key is agreed under an empty one: ed25519.Verify takes keys of one size.
Exchange(n) ==
    /\ pc \notin {"load", "verifier", "off"} /\ n \in Known \ symKeys
    /\ dir[n] # Nothing /\ dir[n][2] = store[n] /\ store[n] # NoKey
    /\ symKeys' = symKeys \cup {n}
    /\ UNCHANGED <<consul, pc, verifier, cache, store, meshPeers, added, removed, registry,
                   ready, readyCount, allReady, stopped, fresh, excused, faults>>

-----------------------------------------------------------------------------
(* Membership                                                              *)

\* Mutant: a miss is final, the whitelist is not loaded again.
VerifyNoRefresh(n, k, ok) ==
    /\ ok = (verifier = "whitelist" /\ Matches(cache[n], k))
    /\ UNCHANGED <<cache, faults>>

\* Mutant: the keys are not compared.
VerifyNodeOnly(n, k, ok) ==
    \/ /\ cache[n] # Nothing /\ ok = TRUE /\ UNCHANGED <<cache, faults>>
    \/ /\ cache[n] = Nothing /\ cache' = wl /\ ok = (wl[n] # Nothing) /\ UNCHANGED faults

\* A hit is decided by the cache.  A miss loads the whitelist once more.
VerifyMembership(n, k, ok) ==
    \/ /\ verifier = "stub" /\ ~ ok
       /\ UNCHANGED <<cache, faults>>
    \/ /\ verifier = "whitelist" /\ cache[n] # Nothing
       /\ ok = Matches(cache[n], k)
       /\ UNCHANGED <<cache, faults>>
    \/ /\ verifier = "whitelist" /\ cache[n] = Nothing
       /\ \/ cache' = wl /\ ok = Matches(wl[n], k) /\ UNCHANGED faults
          \/ Fault /\ ~ ok /\ UNCHANGED cache

\* IsSelfMember, asked before every ceremony by a goroutine of its own: when
\* the cache lacks this node itself, it loads the whitelist under the watch.
IsSelfMember ==
    /\ pc \in {"top", "list", "callbacks"} /\ verifier = "whitelist"
    /\ cache # wl /\ cache' = wl
    /\ UNCHANGED <<consul, pc, verifier, store, symKeys, meshPeers, added, removed, registry,
                   ready, readyCount, allReady, stopped, fresh, excused, faults>>

-----------------------------------------------------------------------------
(* The registry                                                            *)

\* Mutant: the mesh does not learn of the peer.
SessionAddPeerOutside(n) == symKeys' = symKeys \ {n} /\ UNCHANGED meshPeers

\* AddPeer of the ECDH session: a known peer loses its symmetric key.
SessionAddPeer(n) ==
    /\ meshPeers' = meshPeers \cup {n}
    /\ symKeys' = IF n \in meshPeers THEN symKeys \ {n} ELSE symKeys

\* AddPeer with the key the store holds, so that it is not registered again.
\* Both callers hand over peers the registry does not have.
AddPeer(n) ==
    \E ok \in BOOLEAN :
      /\ VerifyMembership(n, store[n], ok)
      /\ IF ok
           THEN /\ registry' = registry \cup {n}
                /\ fresh' = fresh \cup {n}
                /\ SessionAddPeer(n)
                /\ UNCHANGED excused
           ELSE /\ excused' = IF faults' # faults \/ verifier = "stub" \/ cache[n] # Nothing
                                 \/ ~ Matches(wl[n], store[n])
                                THEN excused \cup {n} ELSE excused
                /\ UNCHANGED <<registry, fresh, meshPeers, symKeys>>

updateReadyState ==
    /\ allReady' = (registry' # {} /\ Cardinality(ready') = Cardinality(registry'))
    /\ fresh' = {}

\* Mutant: the count of ready peers is left alone.
RemovePeerKeepsCount(n) ==
    /\ registry' = registry \ {n}
    /\ ready' = ready \ {n}
    /\ updateReadyState
    /\ UNCHANGED readyCount

\* The store has dropped the keys already; the ECDH session keeps the peer.
RemovePeer(n) ==
    IF n \in registry
      THEN /\ registry' = registry \ {n}
           /\ readyCount' = IF n \in ready THEN readyCount - 1 ELSE readyCount
           /\ ready' = ready \ {n}
           /\ updateReadyState
      ELSE UNCHANGED <<registry, readyCount, ready, allReady, fresh>>

\* handleECDHRejoin of a set of peers, at once (KeyExchange lets it wait).
HandleECDHRejoin(S, keys) ==
    /\ meshPeers' = meshPeers \cup S
    /\ symKeys' = keys \ S

\* checkPeerReadiness finds the ready/ keys of up, some written anew since.
CheckPeerReadiness(up) ==
    /\ pc \in {"top", "list", "callbacks"} /\ ~ stopped
    /\ ready' = registry \cap up
    /\ readyCount' = readyCount + Cardinality(ready' \ ready) - Cardinality(ready \ ready')
    /\ \E restarted \in SUBSET (ready' \cap ready) :
         HandleECDHRejoin((ready' \ ready) \cup restarted, symKeys \ (ready \ ready'))
    /\ UNCHANGED registry /\ updateReadyState
    /\ UNCHANGED <<consul, pc, verifier, cache, store, added, removed, stopped, excused,
                   faults>>

-----------------------------------------------------------------------------
(* Start                                                                   *)

\* Mutant: the raw value is kept in place of the decoded key.
LoadUndecoded ==
    /\ pc = "load" /\ pc' = "verifier"
    /\ store' = dir
    /\ UNCHANGED <<consul, verifier, cache, symKeys, meshPeers, added, removed, registry,
                   ready, readyCount, allReady, stopped, fresh, excused, faults>>

\* LoadPeersFromConsul takes both formats and skips what does not decode; its
\* failure is only logged.
LoadPeersFromConsul ==
    /\ pc = "load" /\ pc' = "verifier"
    /\ \/ /\ store' = [n \in Peers |-> IF dir[n] = Nothing \/ dir[n][2] = Garbled
                                       THEN Nothing ELSE dir[n][2]]
          /\ UNCHANGED faults
       \/ Fault /\ UNCHANGED store
    /\ UNCHANGED <<consul, verifier, cache, symKeys, meshPeers, added, removed, registry,
                   ready, readyCount, allReady, stopped, fresh, excused>>

\* createMembershipVerifier, then the ECDH session starts from the store and
\* every peer of the store is handed to AddPeer.
CreateMembershipVerifier ==
    /\ pc = "verifier" /\ pc' = "boot"
    /\ \/ verifier' = "whitelist" /\ cache' = wl /\ UNCHANGED faults
       \/ Fault /\ verifier' = "stub" /\ UNCHANGED cache
    /\ meshPeers' = Known /\ added' = Known
    /\ UNCHANGED <<consul, store, symKeys, removed, registry, ready, readyCount, allReady,
                   stopped, fresh, excused>>

\* The loop over GetAllPeerIDs in runNode, and the callback of the watch.
PeerAdded(n) ==
    /\ pc \in {"boot", "callbacks"} /\ n \in added
    /\ added' = added \ {n}
    /\ AddPeer(n)
    /\ UNCHANGED <<consul, pc, verifier, store, removed, ready, readyCount, allReady,
                   stopped>>

PeerRemoved(n) ==
    /\ pc = "callbacks" /\ added = {} /\ n \in removed
    /\ removed' = removed \ {n}
    /\ RemovePeer(n)
    /\ UNCHANGED <<consul, pc, verifier, cache, store, symKeys, meshPeers, added, stopped, excused, faults>>

CallbacksDone ==
    /\ pc \in {"boot", "callbacks"} /\ added = {} /\ removed = {}
    /\ pc' = "top"
    /\ UNCHANGED <<consul, verifier, cache, store, symKeys, meshPeers, added, removed,
                   registry, ready, readyCount, allReady, stopped, fresh, excused,
                   faults>>

-----------------------------------------------------------------------------
(* The watch                                                               *)

\* The only place where the goroutine looks at its stop channel.
WatchTop ==
    /\ pc = "top" /\ pc' = IF stopped THEN "off" ELSE "list"
    /\ UNCHANGED <<consul, verifier, cache, store, symKeys, meshPeers, added, removed,
                   registry, ready, readyCount, allReady, stopped, fresh, excused,
                   faults>>

\* Only entries in the JSON format count, and the error of decoding their key
\* does not: the key is then empty.  (DecodeString hands back the bytes before
\* the fault; when there are any, the key is one that nobody signs with.)
Listed(n) == dir[n] # Nothing /\ dir[n][1] = "json"
WatchedKey(n) == IF dir[n][2] = Garbled THEN NoKey ELSE dir[n][2]

\* Mutant: a peer that leaves the directory is not noticed.
NewPeersOrKnown == {n \in Peers : Listed(n)} \cup Known

NewPeers == {n \in Peers : Listed(n)}

\* A List with a new index, and the store brought in line under its lock: the
\* key of a peer the store already has is not looked at.
WatchRound ==
    /\ pc = "list" /\ changed /\ changed' = FALSE
    /\ added' = NewPeers \ Known /\ removed' = Known \ NewPeers
    /\ store' = [n \in Peers |-> CASE n \in added' -> WatchedKey(n)
                                   [] n \in removed' -> Nothing
                                   [] OTHER -> store[n]]
    /\ symKeys' = symKeys \ removed'
    /\ excused' = excused \ removed'
    /\ pc' = "callbacks"
    /\ UNCHANGED <<dir, wl, allowed, edits, verifier, cache, meshPeers, registry,
                   ready, readyCount, allReady, stopped, fresh, faults>>

\* A blocking List that times out or fails turns the loop.
WatchIdle ==
    /\ pc = "list" /\ stopped /\ pc' = "top"
    /\ UNCHANGED <<consul, verifier, cache, store, symKeys, meshPeers, added, removed,
                   registry, ready, readyCount, allReady, stopped, fresh, excused,
                   faults>>

\* performShutdown: Resign, then StopWatch.
StopWatch ==
    /\ pc \in {"top", "list", "callbacks"} /\ ~ stopped /\ stopped' = TRUE
    /\ UNCHANGED <<consul, pc, verifier, cache, store, symKeys, meshPeers, added, removed,
                   registry, ready, readyCount, allReady, fresh, excused, faults>>

-----------------------------------------------------------------------------
Boot == LoadPeersFromConsul \/ CreateMembershipVerifier
Watch == WatchTop \/ WatchRound \/ WatchIdle \/ CallbacksDone
         \/ \E n \in Peers : PeerAdded(n) \/ PeerRemoved(n)

Next ==
    \/ \E n \in Peers : \/ \E l \in WlValues[n] : EditWhitelist(n, l)
                        \/ \E e \in DirValues[n] : EditDirectory(n, e)
                        \/ Exchange(n)
    \/ \E up \in SUBSET Peers : CheckPeerReadiness(up)
    \/ Boot \/ Watch \/ IsSelfMember \/ StopWatch

\* The goroutine of the watch runs; nothing makes peers or operators act.
Spec == Init /\ [][Next]_vars /\ WF_vars(Boot) /\ WF_vars(Watch)

-----------------------------------------------------------------------------
\* The gate keygen polls.
ArePeersReady ==
    /\ registry # {}
    /\ Cardinality(registry) + 1 >= Threshold + 1
    /\ allReady
    /\ readyCount >= Threshold + 1
    /\ meshPeers # {} /\ meshPeers \subseteq symKeys

\* Every peer of the registry was on the whitelist at some time: with the key
\* the store has for it or with none; with another key only if the store has
\* an empty one.  Whatever the cache, the store and the watch went through.
MembersWhitelisted ==
    \A n \in registry \cap Known :
      \E l \in Keys \cup {AnyKey} :
        <<n, l>> \in allowed /\ (l \in {store[n], AnyKey} \/ store[n] = NoKey)

\* "If the whitelist entry carries a public key, the joining node must present
\* the exact same key": what the comment above the comparison says.  It does
\* not hold of a peer whose directory entry has an empty or garbled key.
ExactKeyPresented ==
    \A n \in registry \cap Known :
      \E l \in {store[n], AnyKey} : <<n, l>> \in allowed

\* The counter AreMajorityReady trusts is the number of ready members, over
\* additions, removals and readiness checks in any order.
ReadyCounted == ready \subseteq registry /\ readyCount = Cardinality(ready) + 1

\* An open gate means a quorum is ready, a symmetric key with every peer of
\* the registry, and every peer that was there at the last readiness update
\* ready.  (AddPeer does not update the flag: see AllKnownReady.)
GateSound ==
    ArePeersReady =>
      /\ registry \ fresh \subseteq ready
      /\ Cardinality(ready) + 1 >= Threshold + 1
      /\ registry \subseteq symKeys

\* "Every known peer is currently ready": what the comment of ArePeersReady
\* says of an open gate.  It does not hold of peers just added.
AllKnownReady == ArePeersReady => registry \subseteq ready

Eligible(n) == Listed(n) /\ Matches(wl[n], WatchedKey(n))

\* A peer that the directory and the whitelist name is taken into the
\* registry, unless it was refused before: a refusal is not tried again.
Joins ==
    \A n \in Peers :
      Eligible(n) ~> n \in registry \cup excused \/ ~ Eligible(n) \/ stopped

\* A peer that leaves the directory leaves the registry.
Departs ==
    \A n \in Peers : ~ Listed(n) ~> n \notin registry \/ Listed(n) \/ stopped
==============================================================================
