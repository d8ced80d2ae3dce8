---------------------------- MODULE Orchestrator ----------------------------
(***************************************************************************)
(* The reconcile loop of pkg/orchestrator: one process scans the wallets,  *)
(* decides from a snapshot of the network which committees need a reshare, *)
(* and runs each reshare in a goroutine that publishes it family by        *)
(* family, verifies the result and records progress and cooldown.          *)
(*                                                                         *)
(* The scan and the reshares interleave at their calls to Consul.  The     *)
(* per-wallet lock is atomic here (ReshareLock has its details), and so is *)
(* one family's publication with its retry (Publisher has those).  What a  *)
(* node writes when a reshare completes is external, from mpcium.          *)
(***************************************************************************)
EXTENDS Committee

CONSTANTS
  Nodes,
  Wallets,
  Keys,               \* Keys[w]: the key families the wallet holds
  Policy,             \* committee_policy
  Hash,               \* Hash[w]: the hash order of the nodes for w
  GlobalMaxInflight,
  ConfirmDeadScans,
  MigrateOversized,
  MaxTrouble,         \* bound: how many times the environment may interfere
  None

Kinds == {"eddsa", "ecdsa"}

ASSUME OrchestratorAssumption ==
  /\ Nodes \subseteq Nat /\ IsFiniteSet(Nodes)
  /\ IsFiniteSet(Wallets)
  /\ Keys \in [Wallets -> SUBSET Kinds]
  /\ \A w \in Wallets : Keys[w] # {}
  /\ IsPolicy(Policy) /\ Validate(Policy)
  /\ \A w \in Wallets, n \in Nodes : Hash[w][n] \in Nat
  /\ GlobalMaxInflight \in Nat \ {0}
  /\ ConfirmDeadScans \in Nat \ {0}
  /\ MigrateOversized \in BOOLEAN
  /\ MaxTrouble \in Nat
  /\ None \notin Wallets

VARIABLES
  node,       \* what Consul and node_web say of a node
  late,       \* sessions the nodes still work on though their try was given up
  keyinfo,    \* threshold_keyinfo: the committee of each family
  pubkey,     \* the recorded baseline public key of each family
  frozen,     \* wallets with a freeze record
  pending,    \* the progress record: families left to reshare
  cooldown,   \* wallets whose cooldown has not elapsed
  inflight,   \* wallets locked
  streak,     \* confirmTracker
  scan,       \* the scan under way
  job,        \* runReshare of each wallet
  trouble     \* interferences left

consul == <<keyinfo, pubkey, frozen, pending, cooldown, inflight>>
network == <<node, late>>
vars == <<network, consul, streak, scan, job, trouble>>

\* active: whitelisted, ready and pinging; silent: not pinging; down: not ready;
\* out: off the whitelist.
Statuses == {"active", "silent", "down", "out"}

IdleScan == [st |-> "idle", todo |-> {}, old |-> <<>>, snap |-> <<>>, w |-> None, plan |-> {}]
IdleJob == [st |-> "idle", plan |-> {}, only |-> {}, done |-> {}, changed |-> {}]
JobStages == {"idle", "begin", "publishing", "failed", "published", "verified", "recorded"}

Trouble == trouble > 0 /\ trouble' = trouble - 1

----------------------------------------------------------------------------
(* Decisions.                                                               *)

\* The wallet's committee as the scan sees it: ed25519 is authoritative.
OldCommittee(w) ==
  IF "eddsa" \in Keys[w] /\ keyinfo[w]["eddsa"] # {} THEN keyinfo[w]["eddsa"]
  ELSE keyinfo[w]["ecdsa"]

CandidatePool(snap) == {n \in Nodes : snap[n] = "active"}

reachableCommittee(c, snap) == {n \in c : snap[n] # "out"}

countReady(c, snap) ==
  Cardinality({n \in reachableCommittee(c, snap) : snap[n] \in {"active", "silent"}})

\* Mutant: the spare must be exceeded, not just met.
DecideTriggerStrict(spareTarget, aReady) ==
  CASE aReady = 0                           -> "unrecoverable"
    [] 0 < aReady /\ aReady < Policy.t + 1  -> "urgent"
    [] Policy.t + 1 <= aReady /\ aReady <= Policy.t + 1 + spareTarget -> "proactive"
    [] OTHER                                -> "none"

DecideTrigger(spareTarget, aReady) ==
  CASE aReady = 0                           -> "unrecoverable"
    [] 0 < aReady /\ aReady < Policy.t + 1  -> "urgent"
    [] Policy.t + 1 <= aReady /\ aReady < Policy.t + 1 + spareTarget -> "proactive"
    [] OTHER                                -> "none"

\* With the migration of oversized committees on top.
Trigger(c, snap) ==
  LET n == Cardinality(CandidatePool(snap))
      aReady == countReady(c, snap)
      size == Cardinality(reachableCommittee(c, snap))
      trig == DecideTrigger(TierFor(Policy, n).spare, aReady)
  IN  IF trig = "none" /\ MigrateOversized /\ size > TargetSize(Policy, n) /\ aReady = size
      THEN "migration" ELSE trig

\* Mutant: acts on the scan after the confirming one.
ConfirmedLate(w, trig) ==
  \/ trig = "urgent"
  \/ trig \in {"proactive", "migration"} /\ streak[w] + 1 > ConfirmDeadScans

\* observe: whether the trigger is acted upon, and the streak it leaves.
Confirmed(w, trig) ==
  \/ trig = "urgent"
  \/ trig \in {"proactive", "migration"} /\ streak[w] + 1 >= ConfirmDeadScans

\* Mutant: the incremented streak is not written back.
StreakLost(w, trig) == 0

Streak(w, trig) ==
  IF trig \in {"proactive", "migration"} /\ ~Confirmed(w, trig) THEN streak[w] + 1 ELSE 0

preflightReady(old, plan, snap) ==
  /\ countReady(old, snap) >= Policy.t + 1
  /\ \A n \in plan : snap[n] \in {"active", "silent"}

Plan(w, old, snap) == Chosen(Policy, Hash[w], old, CandidatePool(snap))

\* Mutant: the error of SelectCommittee is dropped.
PublishableUnchecked(w, old, snap) == preflightReady(old, Plan(w, old, snap), snap)

\* SelectCommittee succeeds and the pre-flight passes.
Publishable(w, old, snap) ==
  /\ CanSelect(Policy, CandidatePool(snap))
  /\ preflightReady(old, Plan(w, old, snap), snap)

active == Cardinality({w \in Wallets : job[w].st # "idle"})

\* ReshareWallet: ed25519 before secp256k1.
NextKind(w) ==
  LET left == job[w].only \ job[w].done
  IN  IF "eddsa" \in left THEN "eddsa" ELSE "ecdsa"

\* The session the nodes work on for w.
session(w) == [w |-> w, k |-> NextKind(w), c |-> job[w].plan]

----------------------------------------------------------------------------
(* Every wallet was generated on a committee the policy chose from some     *)
(* earlier network.                                                         *)
Generated(w, families) ==
  \E P \in SUBSET Nodes :
    /\ CanSelect(Policy, P)
    /\ \A k \in Kinds :
         families[k] = IF k \in Keys[w] THEN Chosen(Policy, Hash[w], {}, P) ELSE {}

Init ==
  /\ node = [n \in Nodes |-> "active"]
  /\ late = {}
  /\ keyinfo \in [Wallets -> [Kinds -> SUBSET Nodes]]
  /\ \A w \in Wallets : Generated(w, keyinfo[w])
  /\ pubkey = [w \in Wallets |-> [k \in Kinds |-> "none"]]
  /\ frozen = {} /\ cooldown = {} /\ inflight = {}
  /\ pending = [w \in Wallets |-> {}]
  /\ streak = [w \in Wallets |-> 0]
  /\ scan = IdleScan
  /\ job = [w \in Wallets |-> IdleJob]
  /\ trouble = MaxTrouble

----------------------------------------------------------------------------
(* The environment.                                                         *)

NodeChanges(n) ==
  /\ Trouble
  /\ \E s \in Statuses \ {node[n]} : node' = [node EXCEPT ![n] = s]
  /\ UNCHANGED <<late, consul, streak, scan, job>>

CooldownElapses(w) ==
  /\ w \in cooldown
  /\ cooldown' = cooldown \ {w}
  /\ UNCHANGED <<network, keyinfo, pubkey, frozen, pending, inflight, streak, scan, job, trouble>>

\* The process dies and is started again: only Consul remembers.
Restart ==
  /\ Trouble
  /\ scan' = IdleScan
  /\ streak' = [w \in Wallets |-> 0]
  /\ job' = [w \in Wallets |-> IdleJob]
  /\ late' = late \cup {session(w) : w \in {v \in Wallets : job[v].st = "publishing"}}
  /\ UNCHANGED <<node, consul>>

\* The nodes complete a session nobody waits for any more; they may also never do so.
LateCompletion(s) ==
  /\ s \in late
  /\ late' = late \ {s}
  /\ keyinfo' = [keyinfo EXCEPT ![s.w][s.k] = s.c]
  /\ UNCHANGED <<node, pubkey, frozen, pending, cooldown, inflight, streak, scan, job, trouble>>

\* The session of the dead process lapses, and its locks with it.
LockLapses(w) ==
  /\ w \in inflight /\ job[w].st = "idle"
  /\ inflight' = inflight \ {w}
  /\ UNCHANGED <<network, keyinfo, pubkey, frozen, pending, cooldown, streak, scan, job, trouble>>

----------------------------------------------------------------------------
(* reconcileOnce.                                                           *)

\* The inventory: every wallet with its committee.
List ==
  /\ scan.st = "idle"
  /\ scan' = [IdleScan EXCEPT !.st = "listed", !.todo = Wallets,
                              !.old = [w \in Wallets |-> OldCommittee(w)]]
  /\ UNCHANGED <<network, consul, streak, job, trouble>>

\* Without an answer from node_web the ready nodes count as pinging.
Snapshot ==
  /\ scan.st = "listed"
  /\ \E snap \in {node, [n \in Nodes |-> IF node[n] = "silent" THEN "active" ELSE node[n]]} :
       /\ scan' = [scan EXCEPT !.st = "visit", !.snap = snap]
       /\ IF snap = node THEN UNCHANGED trouble ELSE Trouble
  /\ UNCHANGED <<network, consul, streak, job>>

\* The loop goes on to the wallets after w.
Continue(w) ==
  IF scan.todo \ {w} = {} THEN IdleScan
  ELSE [scan EXCEPT !.st = "visit", !.todo = @ \ {w}, !.w = None, !.plan = {}]

\* global_max_inflight is reached: the scan ends here.
Saturated ==
  /\ scan.st = "visit"
  /\ active >= GlobalMaxInflight
  /\ scan' = IdleScan
  /\ UNCHANGED <<network, consul, streak, job, trouble>>

\* Mutant: the gauge is read at the start of the scan only.
VisitingUncapped(w) == scan.st = "visit" /\ w \in scan.todo

Visiting(w) == scan.st = "visit" /\ active < GlobalMaxInflight /\ w \in scan.todo

\* Frozen, or the freeze record cannot be read.
SkipFrozen(w) ==
  /\ Visiting(w)
  /\ \/ w \in frozen /\ UNCHANGED trouble
     \/ Trouble
  /\ scan' = Continue(w)
  /\ UNCHANGED <<network, consul, streak, job>>

\* Nothing to do yet: unrecoverable wallets are passed over before observe.
Pass(w) ==
  LET trig == Trigger(scan.old[w], scan.snap)
  IN  /\ Visiting(w)
      /\ w \notin frozen
      /\ ~Confirmed(w, trig)
      /\ streak' = IF trig = "unrecoverable" THEN streak
                   ELSE [streak EXCEPT ![w] = Streak(w, trig)]
      /\ scan' = Continue(w)
      /\ UNCHANGED <<network, consul, job, trouble>>

Confirm(w) ==
  LET trig == Trigger(scan.old[w], scan.snap)
  IN  /\ Visiting(w)
      /\ w \notin frozen
      /\ Confirmed(w, trig)
      /\ streak' = [streak EXCEPT ![w] = 0]
      /\ scan' = [scan EXCEPT !.st = "gate", !.w = w]
      /\ UNCHANGED <<network, consul, job, trouble>>

\* In its cooldown, the cooldown cannot be read, or no reshare can be formed.
Defer ==
  /\ scan.st = "gate"
  /\ \/ scan.w \in cooldown /\ UNCHANGED trouble
     \/ ~Publishable(scan.w, scan.old[scan.w], scan.snap) /\ UNCHANGED trouble
     \/ Trouble
  /\ scan' = Continue(scan.w)
  /\ UNCHANGED <<network, consul, streak, job>>

Gate ==
  /\ scan.st = "gate"
  /\ scan.w \notin cooldown
  /\ Publishable(scan.w, scan.old[scan.w], scan.snap)
  /\ scan' = [scan EXCEPT !.st = "acquire",
                          !.plan = Plan(scan.w, scan.old[scan.w], scan.snap)]
  /\ UNCHANGED <<network, consul, streak, job, trouble>>

\* The lock is granted and runReshare starts.
Acquire ==
  /\ scan.st = "acquire"
  /\ scan.w \notin inflight
  /\ inflight' = inflight \cup {scan.w}
  /\ job' = [job EXCEPT ![scan.w] = [IdleJob EXCEPT !.st = "begin", !.plan = scan.plan]]
  /\ scan' = Continue(scan.w)
  /\ UNCHANGED <<network, keyinfo, pubkey, frozen, pending, cooldown, streak, trouble>>

AcquireRefused ==
  /\ scan.st = "acquire"
  /\ \/ scan.w \in inflight /\ UNCHANGED trouble
     \/ Trouble
  /\ scan' = Continue(scan.w)
  /\ UNCHANGED <<network, consul, streak, job>>

----------------------------------------------------------------------------
(* runReshare.                                                              *)

SetJob(w, st) == job' = [job EXCEPT ![w].st = st]

\* Mutant: with nothing pending both families are done, whatever the wallet holds.
BeginBoth(w) ==
  /\ job[w].st = "begin"
  /\ \E only \in {Kinds, pending[w]} \ {{}} :
       /\ IF only = pending[w] \/ pending[w] = {} THEN UNCHANGED trouble ELSE Trouble
       /\ job' = [job EXCEPT ![w].st = "publishing", ![w].only = only]
  /\ UNCHANGED <<network, consul, streak, scan>>

\* The families to do: what is pending, or all when nothing is (or it cannot be read).
Begin(w) ==
  /\ job[w].st = "begin"
  /\ \E only \in {Keys[w], pending[w]} \ {{}} :
       /\ IF only = pending[w] \/ pending[w] = {} THEN UNCHANGED trouble ELSE Trouble
       /\ job' = [job EXCEPT ![w].st = "publishing", ![w].only = only]
  /\ UNCHANGED <<network, consul, streak, scan>>

\* The nodes complete the family's reshare: they write its keyinfo, and the result
\* arrives.  By the nodes' fault it may report a key that is not the wallet's.
FamilyDone(w) ==
  /\ job[w].st = "publishing"
  /\ LET k == NextKind(w)
         rest == job[w].only \ (job[w].done \cup {k})
         st == IF rest = {} THEN "published" ELSE "publishing"
     IN  /\ keyinfo' = [keyinfo EXCEPT ![w][k] = job[w].plan]
         /\ \/ job' = [job EXCEPT ![w].st = st, ![w].done = @ \cup {k}] /\ UNCHANGED trouble
            \/ /\ job' = [job EXCEPT ![w].st = st, ![w].done = @ \cup {k},
                                     ![w].changed = @ \cup {k}]
               /\ Trouble
  /\ UNCHANGED <<network, pubkey, frozen, pending, cooldown, inflight, streak, scan>>

\* Every try failed or timed out.  The nodes may still be at it.
FamilyFails(w) ==
  /\ job[w].st = "publishing"
  /\ Trouble
  /\ late' = late \cup {session(w)}
  /\ SetJob(w, "failed")
  /\ UNCHANGED <<node, consul, streak, scan>>

Result(w, k) == IF k \in job[w].changed THEN "other" ELSE "own"

\* Verify: the first public key of a family is recorded, another one freezes the wallet.
\* The version and committee checks only reach the audit record.
\* A family whose read or write fails is passed over, with a trace in the log only.
Verify(w) ==
  /\ job[w].st \in {"published", "failed"}
  /\ \E seen \in SUBSET job[w].done :
       /\ pubkey' = [pubkey EXCEPT ![w] = [k \in Kinds |->
                       IF k \in seen /\ pubkey[w][k] = "none" THEN Result(w, k)
                       ELSE pubkey[w][k]]]
       /\ frozen' = IF \E k \in seen : pubkey[w][k] \notin {"none", Result(w, k)}
                    THEN frozen \cup {w} ELSE frozen
       /\ IF seen = job[w].done THEN UNCHANGED trouble ELSE Trouble
  /\ SetJob(w, "verified")
  /\ UNCHANGED <<network, keyinfo, pending, cooldown, inflight, streak, scan>>

\* SetPending after a failure, Clear after success; either write may be lost.
Record(w) ==
  /\ job[w].st = "verified"
  /\ \/ pending' = [pending EXCEPT ![w] = job[w].only \ job[w].done] /\ UNCHANGED trouble
     \/ UNCHANGED pending /\ Trouble
  /\ SetJob(w, "recorded")
  /\ UNCHANGED <<network, keyinfo, pubkey, frozen, cooldown, inflight, streak, scan>>

\* MarkSuccess or MarkFailure (whose write may be lost), then the deferred Release and
\* the fall of the gauge.
Finish(w) ==
  /\ job[w].st = "recorded"
  /\ \/ cooldown' = cooldown \cup {w} /\ UNCHANGED trouble
     \/ UNCHANGED cooldown /\ Trouble
  /\ inflight' = inflight \ {w}
  /\ job' = [job EXCEPT ![w] = IdleJob]
  /\ UNCHANGED <<network, keyinfo, pubkey, frozen, pending, streak, scan>>

----------------------------------------------------------------------------
ScanStep ==
  \/ List \/ Snapshot \/ Saturated \/ Defer \/ Gate \/ Acquire \/ AcquireRefused
  \/ \E w \in Wallets : SkipFrozen(w) \/ Pass(w) \/ Confirm(w)

JobStep(w) ==
  Begin(w) \/ FamilyDone(w) \/ FamilyFails(w) \/ Verify(w) \/ Record(w) \/ Finish(w)

Environment ==
  \/ \E n \in Nodes : NodeChanges(n)
  \/ Restart
  \/ \E s \in late : LateCompletion(s)

Next ==
  \/ Environment
  \/ \E w \in Wallets : CooldownElapses(w) \/ LockLapses(w) \/ JobStep(w)
  \/ ScanStep

Spec == Init /\ [][Next]_vars

\* The ticker keeps ticking, goroutines run, cooldowns elapse, dead sessions lapse.
Fairness ==
  /\ WF_vars(ScanStep)
  /\ \A w \in Wallets :
       WF_vars(JobStep(w)) /\ WF_vars(CooldownElapses(w)) /\ WF_vars(LockLapses(w))

FairSpec == Spec /\ Fairness
----------------------------------------------------------------------------
(* Properties.                                                              *)

Scans == [st : {"idle", "listed", "visit", "gate", "acquire"}, todo : SUBSET Wallets,
          old : {<<>>} \cup [Wallets -> SUBSET Nodes], snap : {<<>>} \cup [Nodes -> Statuses],
          w : Wallets \cup {None}, plan : SUBSET Nodes]
Jobs == [st : JobStages, plan : SUBSET Nodes, only : SUBSET Kinds, done : SUBSET Kinds,
         changed : SUBSET Kinds]

TypeOK ==
  /\ node \in [Nodes -> Statuses]
  /\ late \in SUBSET [w : Wallets, k : Kinds, c : SUBSET Nodes]
  /\ keyinfo \in [Wallets -> [Kinds -> SUBSET Nodes]]
  /\ pubkey \in [Wallets -> [Kinds -> {"none", "own", "other"}]]
  /\ frozen \in SUBSET Wallets
  /\ pending \in [Wallets -> SUBSET Kinds]
  /\ cooldown \in SUBSET Wallets
  /\ inflight \in SUBSET Wallets
  /\ streak \in [Wallets -> 0..(ConfirmDeadScans - 1)]
  /\ scan \in Scans
  /\ job \in [Wallets -> Jobs]
  /\ trouble \in 0..MaxTrouble

\* No more than global_max_inflight reshares run, though the gauge is read long before
\* it is raised and wallets are visited while others finish.
CapHolds == active <= GlobalMaxInflight

Quorum(c) == Policy.t + 1 <= Cardinality(c) /\ Cardinality(c) <= Policy.cap

\* Every wallet stays signable on paper: the committee on record of each of its families
\* is a signing quorum within the cap, and no other family is ever given one, whatever
\* was chosen from stale snapshots, resumed after a crash, or completed late by the nodes.
CommitteesCanSign ==
  \A w \in Wallets, k \in Kinds :
    IF k \in Keys[w] THEN Quorum(keyinfo[w][k]) ELSE keyinfo[w][k] = {}

\* A committee the loop has no reason, or no way, to reshare.
Settled(w, c) == Trigger(c, node) = "none" \/ ~Publishable(w, c, node)

\* The loop heals: once the environment leaves it alone, the committee of every wallet
\* that is not frozen and can be reshared is back to its full spare, whatever crashed,
\* failed or got lost before.
SelfHeals == <>[](\A w \in Wallets : w \in frozen \/ Settled(w, OldCommittee(w)))

\* The loop comes to rest: a committee it chose never triggers the next reshare, so
\* with a steady network no wallet is reshared over and over.
ComesToRest == <>[](\A w \in Wallets : job[w].st = "idle")

\* "EdDSA first, then ECDSA: both must be updated or the ECDSA signing path breaks"
\* (publisher.go:29-31): every family heals, not only the authoritative one.
EveryFamilyHeals ==
  <>[](\A w \in Wallets : \A k \in Keys[w] : w \in frozen \/ Settled(w, keyinfo[w][k]))

\* "never auto-reshare a wallet flagged frozen" (reconciler.go:128): no reshare starts
\* on a frozen wallet.  It does not hold: the flag is read before the lock is acquired.
FrozenLeftAlone ==
  [][\A w \in Wallets : job[w].st = "idle" /\ job'[w].st = "begin" => w \notin frozen]_vars
=============================================================================
