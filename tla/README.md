# TLA+ models of aicw_node

aicw_node runs the MPC nodes that hold key shares of wallets, and a *reshare
orchestrator* that watches the nodes and moves a wallet's key to a new committee when
too few members of the old one are alive. This directory holds TLA+ specifications of
the parts of that program where concurrency, failure and ordering decide whether it is
correct, TLC configurations that check them on small instances, and TLAPS proofs of
their central invariants.

`PROJECT.json` is the index: components, runs, the source lines every definition
translates, the mutants that show each property can fail, the disagreements found
between code and comments, and the hazards of the code with the properties that
cover them.

## The system

| Component | Source | State | Operations |
|---|---|---|---|
| Lock manager, sweeper | `pkg/orchestrator/lock.go`, `sweeper.go` | Consul session, `held`, in-flight and cooldown keys | `NewLockManager`, session maintenance, `Acquire`, `Release`, `CooldownOK`, `MarkSuccess`/`MarkFailure`, `SweepStale`, `Close` |
| Reconcile loop | `reconciler.go`, `trigger.go` | gauge of running reshares, streaks | `reconcileOnce`, `observe`, `preflightReady`, `runReshare` |
| Inventory, liveness, progress, verifier | `inventory.go`, `liveness.go`, `progress.go`, `verifier.go`, `types.go` | keyinfo, ready, heartbeat, progress, baseline and freeze keys in Consul | snapshot reads, `SetPending`/`Clear`, `Verify`, `Freeze` |
| Publisher | `publisher.go`, `authorizer.go` | table of waiters | `ReshareWallet`, `reshareOne`, `deliver` |
| Committee policy | `pkg/committee/committee.go` | none | `Validate`, `TierFor`, `TargetSize`, `SelectCommittee` |
| Peer registry | `pkg/mpc/dynamic_registry.go` | ready session, members, ready map and epochs, ready count, broadcast loop flag | `Ready`, `registerReady`, `maintainReadySession`, `Resign`, `AddPeer`, `RemovePeer`, `checkPeerReadiness`, `handleECDHRejoin`, `periodicECDHBroadcast`, `ArePeersReady`, `EnsureCeremonyReady` |
| ECDH session | `pkg/mpc/dynamic_ecdh_session.go` | mesh peers, ceremony scope | `AddPeer`, `EnsureECDH`, `BroadcastPublicKey` |
| Identity store, membership | `pkg/identity`, `pkg/eligibility` | public and symmetric keys, whitelist cache | `LoadPeersFromConsul`, `WatchPeerDirectory`, `VerifyMembership`, `Refresh` |
| Node and operator commands | `cmd/aicw-node`, `cmd/operator` | stop file, shutdown once | start, shutdown; `add-member`, `remove-member` |
| GUI process manager | `aicw-node-gui/internal/nodeprocess` | process table, pid files, stop files | `Start`, `Stop`, exit watcher |
| GUI application | `aicw-node-gui/app.go` and `internal` | session, registration job, node files, close prompt | sign-in, `RegisterNode`, `StartNode`, `RemoveNode`, `HandleBeforeClose` |

How they interact. Each tick the loop lists the wallets (Consul keyinfo), takes a
snapshot of the nodes (Consul ready keys, whitelist, node_web pings), and for each
wallet decides a trigger, confirms it over several scans, selects a committee, acquires
the wallet's lock and starts `runReshare` in a goroutine. That goroutine asks the
publisher to reshare each key family; the nodes do so, write the new keyinfo
themselves and report over NATS, whose callback hands the result to the waiter. The
goroutine verifies public keys, records what is left to do, writes the cooldown and
releases the lock. Nodes refuse to sign with a wallet while its in-flight key exists.
A second orchestrator process, or the successor of a crashed one, meets the first only
in Consul.

A node publishes a ready key through a Consul session, watches the ready keys of its
peers and the identity directory, and keeps a symmetric key with each peer by broadcasts
that are repeated until all keys are there. Membership of a peer is decided against a
whitelist that operators edit. A node that restarts has a new DH key, and its peers learn
it from the epoch in its ready key. The desktop application registers nodes with node
web, keeps their key files, and starts and stops their processes through pid and stop
files.

What is hard:

* the lock is two locks, a Consul session lock and an in-process set, and a session can
  end under a running reshare; `Release` and the sweeper delete keys by name;
* the scan uses a committee, a snapshot and a freeze flag it read before several calls
  to Consul, while reshares finish and change them;
* a reshare has two families and four separate Consul writes, and can fail or die
  between any two of them, while nodes complete sessions nobody waits for any more (in
  `Orchestrator` the last two, cooldown and release, are one step with the gauge);
* results carry no session id, and overlapping calls share one table of waiters;
* a node registers again while it shuts down; a peer restarts inside the TTL of its ready
  key; a loop that ends is asked to go on; a directory and a whitelist change between two
  reads of one decision;
* the files of the GUI are guarded by nothing, its calls overlap and take minutes, and
  every step of a registration or a removal can fail, or be cut off, after the one before;
* nothing may be lost for good: a leaked key, a saturated loop, a pending family.

What makes each part correct: a lock handed out once and always given back; a loop that
heals every wallet it can and then rests; a cap that holds; calls that return; a
committee that depends on nothing but what every coordinator sees, is a quorum, keeps
live members and does not move when selected again; a ready key that follows the life of
its node; keys that follow the restarts of peers; members that are whitelisted and
counters that count them; no node process left behind and no registered node without its
key.

## Modules

* `ReshareLock`: several orchestrator instances on one Consul. Actions are the code
  between two points where another goroutine or process can run: a Consul call or a hold
  of the mutex. So `Acquire` is `AcquireCheck` (held and session id), the request
  (`AcquireGranted`, `AcquireRefused`, `AcquireAnswerLost`: it took effect and the call
  failed) and `AcquireMark`; `Release` is `ReleaseLocal` and `ReleaseKey`; the sweeper is
  `SweepList`, `SweepDecide`, `SweepDelete`. `exposed` is a history variable: attempts
  whose record or held mark another party took away. Cooldown lengths (the exponential
  backoff) are abstracted: a cooldown holds until it elapses.
* `Committee`: the policy as a promise over sets: the size of a committee, and which
  nodes of a pool form it. The sha256 order is an arbitrary function to numbers. Tiers
  have distinct `max_active` (the sort of the code is not stable).
* `CommitteeSelection`: the dedup, retain, trim and fill passes of `SelectCommittee`
  on lists, driven through the life of one wallet and compared with `Committee`. `distinct`
  is the loop the passes share. `sortByHash` says where an entry lands (its place is the
  number of entries before it); an assumption of `MCCommitteeSelection` compares it with
  the sort of TLC on every list of up to four ids.
* `Orchestrator` (uses `Committee`): one process; the scan of `reconcileOnce` and one
  `runReshare` per wallet, interleaved at their Consul calls. The lock is one atomic
  step here, one family's publication with its retry too. `LateCompletion` and
  the keyinfo written by `FamilyDone` are what the nodes (mpcium) do. `trouble` bounds
  how often the environment interferes: a node changes, the process dies, a call or write
  is lost, a family fails, a result reports a public key that is not the wallet's.
* `Publisher`: calls of `ReshareWallet` for one wallet, that overlap when the lock was
  lost; tries, timers, the two halves of `deliver`, and nodes that answer late or
  never.
* `WalletLock`: what the lock manager promises, with the holders of each wallet as its only
  state: a wallet is given only while nobody has it, and may be lost at any moment.
  `ReshareLock` implements it (`RefinesWalletLock`) with `holders`, the attempts at work whose
  lock nobody took away.
* `ReadySession`: the ready key of one node over successive processes. The two requests of
  `createReadySession` and the fields it sets, the two `Acquire`s with the `Delete` between
  them, the checks of `watchStopCh` and `Resign` are steps of their own, because the
  maintenance goroutine and `performShutdown` run side by side. Consul's part (behaviour
  delete, TTL, lock-delay) is external. Every registration has a fresh epoch, so the
  session stands for it. `Exit` may come at any time: `performShutdown` cancels the context
  before it resigns, and `runNode` does not wait for it.
* `KeyExchange`: several nodes that run the same registry and restart with fresh DH keys
  (`inc`). Time is counted in broadcast periods, in each of which a live node checks the
  ready keys, ends its handlers and ticks once, in any order. `RejoinAdd` and
  `RejoinResume` are the two halves of `handleECDHRejoin`; `LoopStored` is the deferred
  store of the running flag; `unresumed` records that a CAS found a loop that was in its
  grace period or already ending. The ceremony gate is that of committee mode for the
  committee of all nodes.
* `PeerDirectory`: one node, its store, whitelist cache, mesh and registry, against a
  directory and a whitelist that change. `WatchRound` is the part of a watch round under
  the store's lock, `PeerAdded` and `PeerRemoved` are its callbacks. `excused` are the peers
  that `AddPeer` refused, for any reason: the whitelist did not match, its reload failed, a
  cache hit was out of date, or the verifier is the stub, which refuses everybody. The code
  does not try a refused peer again until the directory has it anew, so `Joins` speaks of the
  others. `fresh` are peers added since the last readiness update. Among the keys are the
  empty one, which the membership check does not compare, and one that does not decode,
  which the watch takes for an empty one and the load at start skips. `ArePeersReady` is
  the gate of legacy mode.
* `NodeProcess`: table, pid files, stop files and processes of one install folder; each
  hold of the mutex and each file operation between two of them is a step; calls overlap.
  `doomed` are the processes a confirmed close found alive, `hurried` records that a second
  close ended the application before the first was through.
* `GuiApp`: session, registration job, node files, node web's record and removals. Node
  names and ids are kept, file contents are not: a file stands for the id it was
  written for. Two history variables keep apart the removals that delete keys of a
  registered node: `wiped`, of a node taken for a local one and not offboarded at all, and
  `mistaken`, of a removal that offboarded another id and deletes by name.
* `MCReshareLock`, `MCCommitteeSelection`, `MCOrchestrator`, `MCPublisher`,
  `MCReadySession`, `MCKeyExchange`, `MCPeerDirectory`, `MCNodeProcess`, `MCGuiApp`: instances.
* `ReshareLockProofs`, `OrchestratorProofs` (of `Committee` and `CommitteeSelection` too), `PublisherProofs`,
  `ReadySessionProofs`, `KeyExchangeProofs`, `PeerDirectoryProofs`, `NodeProcessProofs`,
  `GuiAppProofs`.

## Runs

| Run | Bounds | Shows |
|---|---|---|
| `lock_safety` | 2 instances, 1 wallet, 3 sessions, 3 attempts; sessions may lapse at any time; symmetric | types; `Exclusion`, `HeldIsReleased`, `RecordCoversWork`; `RefinesWalletLock` |
| `lock_liveness` | 1 instance, 1 wallet, 2 sessions, 2 attempts, sweeper on | `LeakReclaimed` |
| `committee_selection` | 4 nodes, pools of up to 4 entries (duplicates and empty ids), old committees of up to 3, 3 policies, 2 hash orders | `MatchesPromise`, `Settles`, `KeepsLiveMembers` |
| `orchestrator_heals` | 3 nodes, 1 wallet with both families, 2 interferences | types; `CommitteesCanSign`; `SelfHeals`, `ComesToRest` |
| `orchestrator_saturation` | 3 nodes, 2 wallets, cap 1, 1 interference | `CapHolds`, `CommitteesCanSign` with a wallet of one family; `SelfHeals` although wallets compete |
| `publisher_calls` | 2 overlapping calls, 2 tries, 2 families | types; `WaiterIsRead`, `CallReturns` |
| `ready_session` | 2 processes in turn, 3 faults (failed requests, lost sessions) | `KeyHasSession`, `ResignedNeverRenews`; `Retired`, `ReadyAgain` |
| `key_exchange` | 2 nodes, 1 restart (clean or crash), 1 lost broadcast, grace 3 and gate 5 periods | types; `HandledIsFresh`; `MeshHeals`, `CeremonyHeals` |
| `peer_directory` | 2 peers, 2 keys and an empty or undecodable one, both formats, 2 edits, 1 failed request | types; `MembersWhitelisted`, `ReadyCounted`, `GateSound`; `Joins`, `Departs` |
| `node_process` | 1 name, 2 processes, 2 overlapping calls | `QuitLeavesNone`; `CallsReturn` |
| `gui` | 1 name, 2 ids, 1 wallet, 2 removals at a time | `RegisteredHasFiles`; `RegisterEnds`, `RemoveReturns` |
| `orchestrator_ecdsa_starved` | as `orchestrator_heals` | expected violation of `EveryFamilyHeals` |

Why these are enough to be interesting. A lock is contended by two instances; a third
attempt is the one granted wrongly after two have met, and a third session is the one
an instance gets after losing its first while the other has its own. Wallets share
only the session and the scan goroutine, so one suffices. Session and attempt ids are
reused once nothing names them, so a history is not limited to three of each. For committees, the
two valid policies put a tier boundary and a binding cap inside the range of pools and
the third does not validate; one hash order has collisions. For the loop, threshold
`t = 1` with tiers (up to 2 nodes: 2 members, no spare; more: 3 members, spare 1) makes
every trigger reachable with three nodes, and two interferences suffice for a failure
followed by a failure of its repair. `publisher_calls` does not check for deadlock: when
every call has returned the system has really stopped; the same holds of a node that has
exited, of a cluster whose exchange is over and of an application nobody uses.

A second process of a node is the one that meets what the first left in Consul, and
three faults suffice for a registration that fails, is repeated, and is then lost. In
`key_exchange` one restart is what the peers react to; the restarted node meets a peer in
every state of its loop, because `Init` starts loops anywhere in their grace period; the
real periods (10 and 40) only lengthen the stretches in which nothing changes. In
`peer_directory` two edits are a peer that leaves and comes back, or a key and its
whitelist entry changed in either order; a threshold of 1 with two peers tells the
quorum from all. In `node_process` the second process is the one started under the eyes
of the first's watcher; in `gui` the second id is the registration after a failed one.

Fairness. `lock_liveness`: Consul expires sessions nobody renews, goroutines run, clocks
advance (weak fairness), and no Consul call fails for ever (strong fairness of
`AcquireGranted` and `SweepDelete`, each of which may fail any number of times first).
Nothing forces scans, crashes or restarts, and `LeakReclaimed` asks only for processes
that stay up in the end. The orchestrator runs assume that the ticker ticks, goroutines
run, cooldowns elapse and sessions of dead processes lapse; that failures cease is not
fairness but the bound on `trouble`. `publisher_calls` assumes that goroutines run and
timers fire; the nodes owe no answer. `ready_session`: goroutines of a live process move on,
Consul reaps sessions nobody renews and ends lock-delays; nothing makes a process boot,
stop or exit. `key_exchange`: tickers fire, handlers run, a node that stopped is started
again; losses and restarts are bounded. `peer_directory`: the start-up code and the watch
goroutine run. `node_process` and `gui`: every wait of a call has a time limit in the code, so calls
move on; users, nodes and node web do as they like.

### Where code and comments disagree

`orchestrator_ecdsa_starved` is expected to find a violation of a sentence in the source
(`findings` in `PROJECT.json` quotes it): the trigger looks at the EdDSA committee only
(`EveryFamilyHeals`). Once EdDSA has moved and ECDSA has not, there is no trigger, so the
pending record is never read. `SelfHeals` is the part that holds.

The modules state eleven more claims of comments or messages that do not hold; each is
marked so at its definition, and TLC gives the counterexample when it is added to the
configuration named here in place of the other properties:

* `NoOverlap` (`lock_safety`): "only if the wallet is not already locked by this or any
  other orchestrator instance" (`lock.go:176`). An attempt that outlived its lock deletes,
  in its `Release`, the key of the next holder, by name; a third attempt then runs
  beside the second. `Exclusion` and `RefinesWalletLock` are what remains true: one of the
  two has lost its lock.
* `SweepSparesHeld` (`lock_liveness`, a `PROPERTY`): "Keys held by this instance (m.held)
  are never removed" (`lock.go:232`). The sweeper checks `held`, lets the mutex go and
  deletes; the wallet may be acquired by the same instance in between.
* `FrozenLeftAlone` (`orchestrator_heals`, a `PROPERTY`): "never auto-reshare a wallet flagged
  frozen" (`reconciler.go:128`). The freeze flag is read before the lock is acquired, and so
  is the cooldown; a running reshare of the same wallet that freezes it, writes its
  cooldown and releases after both were read leaves the lock to the scan.
* `AnswerIsOwn` (`publisher_calls`): "each try uses a fresh session ID"
  (`publisher.go:18`), but a result of the first try, late, decides the second.
* `MeshAlwaysHeals` (`key_exchange`, a `PROPERTY`): a rejoin resumes broadcasting whatever
  the loop is doing (comments at `dynamic_registry.go:607` and `:519`). A loop found in its
  grace period keeps its old deadline when the key is back before its next tick, and one
  that has decided to return is not replaced; the restarted node may then get no key until
  a ceremony.
* `AllKnownReady` (`peer_directory`): "every known peer is currently ready"
  (`dynamic_registry.go`, at `ArePeersReady`). `AddPeer` does not clear the flag, so the
  gate is open until the next check, a second at most, with a peer that is not ready.
* `ExactKeyPresented` (`peer_directory`): "Verification is NOT skipped: if the whitelist entry
  carries a public key, the joining node must present the exact same key"
  (`whitelist_membership.go:124-126`). The comparison is made only if the key presented is
  not empty (`:127`), and the watch drops the error of decoding a key
  (`dynamic_store.go:525`), so a peer whose entry does not decode joins under whatever key
  the whitelist has for its id. `MembersWhitelisted` is what remains true, with the empty
  key as its stated exception.
* `ConfirmedQuitStops` (`node_process`): "Stop them and quit AICW Node?" (`app.go:1435`), and
  "the actual quit is triggered from a goroutine once the user confirms" (`:1414`). A second
  close while `StopAll` waits is let through (`:1418`) and ends the application with nodes
  still running. `QuitLeavesNone` is what remains true: of a quit no second close hurried.
* `ClearedBeforeRemoval` (`gui`): "Network registration was already cleared"
  (`app.go:1237`). When node web does not answer, the dashboard shows every node of the
  wallet as local only, and `RemoveNode` then deletes the keys of a registered node.
* `RemovesSameNode` (`gui`): "Remove ... from this computer and the network?"
  (`frontend/dist/app.js:520-522`). `RemoveNode` offboards the id it read and, minutes later,
  deletes the files of the name. If the name was registered anew in between, they are the
  new node's. It takes two removals at a time, which the front end's `removeBusy` normally
  prevents and the Go code does not, or a node web that has two ids of one name.
* `LiveIsDiscovered` (`node_process`): `DiscoverRunningNodeNames` "returns node names with a
  live aicw-node process" (`process.go:154`). The exit watcher of the process before
  removes, by name, the pid file of the one just started.

A comment outside the models' claims is not borne out either: `main.go:579` calls what
it falls back to when no verifier can be made a "Stub that allows all", and
`StakeMembershipVerifier` refuses every peer (`stake_stub.go:44`). The model follows the code.

## Proofs

For every number of instances, wallets, sessions, attempts, nodes and calls, from the
assumptions named in the modules (`LockAssumption`, `OrchestratorAssumption`,
`SelectionAssumption`, `PublisherAssumption`, `ReadyAssumption`, `KeyExchangeAssumption`, `DirectoryAssumption`,
`ProcessAssumption`, `AppAssumption`), none of which bounds a constant from above. They ask for
finite sets where the code counts, for a policy that validates, and for a hash order on numbers.

* `ReshareLockProofs`: `TypeCorrect`, `HeldAlwaysReleased`, `WorkIsCovered` and
  `AcquireExcludes` follow from the inductive invariant `LockInv`. `Exclusion` alone is
  not inductive. Two instances are kept apart by Consul, because a session id belongs to
  one instance (`SessionsApart`) and a covered attempt's record carries its session
  (`RecordIsOwn`). Within one instance Consul would grant the key again to the same
  session; there the held set does the work (`MarkHolds`), and the gap between the check
  of `held` and the request is closed by the single scan goroutine (`OneScan`) and by
  the fact that a checked attempt does not carry the session of a covered one
  (`CheckIsSound`). `InstallSession` empties `held` under running attempts, which
  is why `MarkHolds` and `CheckIsSound` speak of sessions.
  `LockRefines`: `ReshareLock` implements `WalletLock`. Every step other than a grant only
  shrinks `holders` (`ShrinkIsLoss`). A grant is a `Take` (`GrantFindsFree`): Consul grants
  over a record only to the session that owns it, and a covered attempt of that session
  is excluded by `OneScan` and `CheckIsSound`.
* `OrchestratorProofs`, the policy: for every policy that validates, every pool and every
  hash order, the committee of `Committee` has exactly the target size and is a quorum within
  the cap (`CommitteeIsFullQuorum`), selecting again changes nothing
  (`SelectionSettles`), and a newcomer is taken only if every live old member stays
  (`LiveMembersStay`). The preference order is total; the rank of a node (how many are
  preferred to it) is injective into the initial segment, so the nodes of rank below
  k are exactly k; the minimum argument shows that no rank is skipped.
* `OrchestratorProofs`, the lists: `PlansMatchPromise`, `PlansSettle` and
  `ResharesKeepLiveMembers`, for every wallet's life in `CommitteeSelection` and every length
  of pool and old committee. The library's induction theorems are out of reach, so the
  facts about the loop of `distinct` go by the least counterexample (`Smallest`): its
  recursive definition has a solution (`DedupExists`), and that keeps each entry of the set
  once (`DistinctList`). Counting places in a list without repetitions counts nodes
  (`PlacesCount`), so the i-th entry of the sorted list is the node of rank i - 1
  (`SortRanks`; one exists, since the first i nodes are exactly i), the list's prefix of
  length k is the k first nodes (`SortPrefix`), and the order of the input is forgotten
  (`SortIsCanonical`). If too many old members are alive, the trim takes the nodes of rank below
  the size (`TrimChooses`); otherwise the fill completes them (`FillChooses`); either way the
  list has exactly the target size (`MembersChosen`), which is why the code's error for
  insufficient candidates is never returned. The state invariant `WalletOK` only says
  that the lists hold ids.
* `OrchestratorProofs`, the loop: `TypeCorrect`, `CapNeverExceeded` and `WalletsStaySignable`, from
  `Inv`. The gauge is read at a visit and raised at `Acquire`; `RoomLeft` says that in between
  there is still a place, because only the scan raises it. `CommitteesCanSign` is not
  inductive, since a committee is written long after it was chosen, by a job, by one that
  resumes a progress record, or by nodes that end a session nobody waits for. `PlansFit` and
  `JobFits` follow a plan from the gate, where `CommitteeIsFullQuorum` makes it a quorum, to
  all of these, together with the family it is for: progress records and the families of a
  job are families of the wallet, and a job that publishes has one left. A consequence is
  that `reconcileOnce` never meets an empty committee once a wallet was generated on one.
  `FreshCommitteeRests` is the static half of `ComesToRest`: a committee just chosen calls for
  no further reshare exactly if the target size is at least `t + 1 + spare`; under a policy
  without that, which `Validate` admits, it calls for a proactive one again.
* `PublisherProofs`: `TypeCorrect` and `WaitersAreRead`, though calls overwrite and
  remove each other's entries: every way out of a try clears the family's entry.
* `ReadySessionProofs`: `TypeCorrect`, `KeyNeverOutlives` and `RenewalsEnd`, from `ReadyInv`.
  The second is not inductive: the maintenance goroutine may have passed the check of
  `watchStopCh`, or read its session id, before `Resign` runs. `RenewsCurrent` says that
  until then the id it has read is the current one, so that the id `Resign` takes is the
  one it may still renew once; `ReadsNothing` that a goroutine caught between check
  and read finds no session; `ServesUnstopped` that `Resign` runs once.
* `GuiAppProofs`: `KeysAreKept`, from `AppInv`: a registered node has its files, but for the
  removals in `wiped` and `mistaken`. Files are kept by name and records by id; the
  two are related by what the job has written so far (`JobFiles`), by the fact that its
  id is not on record yet (`RecordKnown`), and by the fact that a removal is never of the
  job's id and that an offboarded id never returns (`RemovalKnown`).
* `KeyExchangeProofs`: `TypeCorrect` and `RejoinLeavesNoStaleKey`, from `KeyInv`. An incarnation
  is new to everybody because nobody's epoch or key is above the last one begun
  (`Bounded`); so a restart never makes a handled epoch out of an old one, a check that
  brings a new epoch brings the task with it, and the task starts by dropping the key.
* `PeerDirectoryProofs`: `TypeCorrect`, `OnlyWhitelistedMembers`, `CounterIsExact` and
  `OpenGateIsSound`, from `DirectoryInv`. The store changes under its lock and the registry
  by callbacks later; `RegistryTrails` says how far they may be apart, and `CallbacksInPhase`
  when. The cache holds only what the whitelist held (`CacheFromWhitelist`). The gate reads a
  flag, a counter and the mesh: `FlagSound`, `ReadyCounted` and `RegistryInMesh` say what each
  tells of the registry. `OnlyWhitelistedMembers` says: on the whitelist at some time with the
  key of the store or without one, or with any if the store has an empty one. `TypeCorrect`
  says of the counter only that it is an integer; its value is `CounterIsExact`.
* `NodeProcessProofs`: `NoneSurvivesQuit`, from `ProcessInv`, for quits that no second close
  hurried. Until a confirmed close is
  through, every process it found alive is dead or among its targets (`DoomedTargeted`);
  that needs one close at a time (`OneClose`), what a call knows at each of its places
  (`CallLocals`), and that pids in tables, files and locals are of started processes
  (`PidsStarted`), which never come back to life.

Only model-checked: liveness and everything under fairness (out of the prover's reach), that
`sortByHash` is the sort of TLC, and the claims that do not hold.

## What is left out

* The time of cooldowns and of record ages; the hash function; parsing and
  formatting of Consul values; logging and the audit log (write-only).
* `Orchestrator` reads the ready keys, whitelist and pings of a snapshot in one step, and
  has one process; the effect of a second one is in `ReshareLock` and `Publisher`.
* Committee policies whose tier size is below `t + 1 + spare`, which `Validate` admits,
  are not in the instances: `ComesToRest` would fail for them (`FreshCommitteeRests`).
* Cryptography, key files, downloads and HTTP of the GUI, command-line flags; the
  recovery manager, which no command constructs.
* `NodeProcess` has the process list of Windows, where the GUI ships: elsewhere
  `findNodeBinaryPIDs` finds nothing and `QuitLeavesNone` would not hold. It assumes that
  the system ends a process it is asked to end and lists its processes when asked, and
  reads and cleans the pid files of one look at once (`StopFind`).
* `GuiApp` has one end of `RegisterNode` for all its early returns. A key file cut short by a
  failed write counts as none, and the files of a removal go in one step.
* `PeerDirectory`: an undecodable key is an empty one (`hex.DecodeString` also returns the
  bytes before the bad digit). What a node does with a message signed by a peer whose key
  has not 32 bytes is not modelled; no key is agreed with it.
* A failed Consul request of `ReadySession` has had no effect; `Publisher` takes the result
  from the channel and leaves the table in one step; a broadcast of `KeyExchange` arrives at
  once or never.
* `KeyExchange` has one committee, of all nodes. Concurrent ceremonies share
  one ceremony scope (`dynamic_ecdh_session.go:246`), which only narrows
  `IsKeyExchangeComplete`; none of the gates reads it. The dispatcher branch of
  `EnsureCeremonyReady` (a node outside the committee) only reads the ready map.
* Initiator verifiers and the authorizer's signatures: stateless checks.
* Reward withdrawals, dashboard figures, activity and wallet history, release checks:
  requests and displays that no other state depends on.

## Plan

1. `Orchestrator` over `WalletLock` with two processes.
2. The authorizer client (which signatures count) in or beside `Publisher`.
