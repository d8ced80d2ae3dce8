---------------------------- MODULE ReshareLock ----------------------------
(***************************************************************************)
(* The LockManager of pkg/orchestrator: per-wallet in-flight locks kept as *)
(* Consul session locks (behaviour "delete"), the cooldown gate in front   *)
(* of them, the goroutine that maintains the session, and the stale-lock   *)
(* sweeper.                                                                *)
(*                                                                         *)
(* Several orchestrator instances share one Consul.  In each of them one   *)
(* goroutine scans the wallets and calls Acquire, every granted attempt    *)
(* runs in a goroutine of its own that ends with Release, one goroutine    *)
(* maintains the session and one sweeps.  An action is the code between    *)
(* two points where another goroutine or another process can be scheduled: *)
(* a call to Consul, or a hold of the manager's mutex.                     *)
(***************************************************************************)
EXTENDS Naturals, FiniteSets

CONSTANTS
  Instances,         \* orchestrator processes
  Wallets,
  Sessions,          \* Consul session ids; one is reused once nothing names it
  Attempts,          \* reshare attempts (the sessionID of a record); reused likewise
  None,
  GlobalMaxInflight, \* orchestrator.global_max_inflight
  RenewalsTimely,    \* TRUE: no session of a live instance ever lapses
  SweepEnabled       \* orchestrator.inflight_sweep_enabled

ASSUME LockAssumption ==
  /\ None \notin Instances \cup Wallets \cup Sessions \cup Attempts
  /\ GlobalMaxInflight \in Nat \ {0}
  /\ RenewalsTimely \in BOOLEAN
  /\ SweepEnabled \in BOOLEAN

VARIABLES
  \* Consul
  live,       \* the sessions that exist
  inflight,   \* orchestrator/reshare/inflight/{wallet}
  cooldown,   \* orchestrator/reshare/cooldown/{wallet}: TRUE while it bars the wallet
  \* each LockManager
  proc,       \* the process: "down", "up", or "closing" between Close and exit
  sessionID,
  held,
  renew,      \* maintainLockSession: "renewing", "creating" or "done"
  fresh,      \* session created but not yet installed
  listed,     \* sweeper: the pairs of the List not yet looked at
  doomed,     \* sweeper: the key it is about to delete
  \* reshare attempts, from the scan loop's gate to the end of runReshare
  task,
  \* history
  exposed     \* attempts in progress that lost their record or their held mark to another party

managerVars == <<proc, sessionID, held, renew, fresh>>
sweepVars == <<listed, doomed>>
consulVars == <<live, inflight, cooldown, exposed>>
vars == <<consulVars, managerVars, sweepVars, task>>

----------------------------------------------------------------------------
(* Records.  The value of a record is its age as the sweeper sees it:       *)
(* "aged" once StartedAt + maxAge has passed, "corrupt" when it does not    *)
(* unmarshal.                                                               *)

Values == {"absent", "fresh", "aged", "corrupt"}
Record == [session : Sessions \cup {None}, attempt : Attempts \cup {None}, value : Values]

NoRecord == [session |-> None, attempt |-> None, value |-> "absent"]

\* A key left in Consul that no session owns.
Leftover(v) == [session |-> None, attempt |-> None, value |-> v]

\* What an attempt goes through:
\*   eligible  the scan loop found the wallet past its cooldown
\*   checked   Acquire passed the in-process check and read the session id
\*   locked    Consul granted the key
\*   running   held is set and runReshare is working
\*   marked    runReshare wrote the cooldown; only the deferred Release is left
\*   released  Release cleared held and is about to delete the key
Stages == {"idle", "eligible", "checked", "locked", "running", "marked", "released"}
Task == [st : Stages, inst : Instances \cup {None}, wallet : Wallets \cup {None},
         sess : Sessions \cup {None}]
IdleTask == [st |-> "idle", inst |-> None, wallet |-> None, sess |-> None]

\* The attempt counts on the lock: Acquire was granted and Release not yet called.
InProgress(a) == task[a].st \in {"locked", "running", "marked"}

\* The goroutine of i that scans and calls Acquire is busy with an attempt.
Scanning(i) ==
  \E a \in Attempts : task[a].inst = i /\ task[a].st \in {"eligible", "checked", "locked"}

\* o.active: the runReshare goroutines of i.
active(i) ==
  Cardinality({a \in Attempts :
                 task[a].inst = i /\ task[a].st \in {"running", "marked", "released"}})

NewAttempt(a) == task[a] = IdleTask /\ \A w \in Wallets : inflight[w].attempt # a

NewSession(s) ==
  /\ s \notin live
  /\ \A i \in Instances : sessionID[i] # s /\ fresh[i] # s
  /\ \A a \in Attempts : task[a].sess # s

\* maintainLockSession of some instance is renewing s.
Renewed(s) == \E i \in Instances : proc[i] = "up" /\ renew[i] = "renewing" /\ sessionID[i] = s

----------------------------------------------------------------------------
(* Effects on Consul.                                                       *)

\* The attempts in progress that lose their record when the keys of W go.
Orphaning(W) ==
  {a \in Attempts : /\ InProgress(a)
                    /\ task[a].wallet \in W
                    /\ inflight[task[a].wallet].attempt = a}

\* held is keyed by wallet: the other running attempts of the instance on the wallet
\* lose their mark when attempt a releases.
LoseMark(a) ==
  {b \in Attempts \ {a} : /\ task[b].st \in {"running", "marked"}
                          /\ task[b].inst = task[a].inst
                          /\ task[b].wallet = task[a].wallet}

DeleteRecords(W) ==
  /\ inflight' = [w \in Wallets |-> IF w \in W THEN NoRecord ELSE inflight[w]]
  /\ exposed' = exposed \cup Orphaning(W)

\* A session ends: expiry or Destroy.  Behaviour "delete" takes its keys along.
EndSession(s) ==
  /\ live' = live \ {s}
  /\ DeleteRecords({w \in Wallets : inflight[w].session = s})

\* kv.Acquire: the session must exist, and the key be free or its own already.
Grantable(w, s) == s \in live /\ inflight[w].session \in {None, s}

Grant(w, s, a) ==
  inflight' = [inflight EXCEPT ![w] = [session |-> s, attempt |-> a, value |-> "fresh"]]

----------------------------------------------------------------------------
Init ==
  /\ live = {}
  /\ inflight \in [Wallets -> {NoRecord, Leftover("aged"), Leftover("corrupt")}]
  /\ cooldown = [w \in Wallets |-> FALSE]
  /\ proc = [i \in Instances |-> "down"]
  /\ sessionID = [i \in Instances |-> None]
  /\ held = [i \in Instances |-> {}]
  /\ renew = [i \in Instances |-> "done"]
  /\ fresh = [i \in Instances |-> None]
  /\ listed = [i \in Instances |-> {}]
  /\ doomed = [i \in Instances |-> None]
  /\ task = [a \in Attempts |-> IdleTask]
  /\ exposed = {}

----------------------------------------------------------------------------
(* The environment: Consul's TTL and the passing of time.                   *)

\* The TTL of s runs out.  With timely renewals only an unrenewed session lapses.
SessionLapse(s) ==
  /\ s \in live
  /\ RenewalsTimely => ~Renewed(s)
  /\ EndSession(s)
  /\ UNCHANGED <<cooldown, managerVars, sweepVars, task>>

\* StartedAt + maxAge passes on some instance's clock.
RecordAges(w) ==
  /\ inflight[w].value = "fresh"
  /\ inflight' = [inflight EXCEPT ![w].value = "aged"]
  /\ UNCHANGED <<live, cooldown, exposed, managerVars, sweepVars, task>>

CooldownElapses(w) ==
  /\ cooldown[w]
  /\ cooldown' = [cooldown EXCEPT ![w] = FALSE]
  /\ UNCHANGED <<live, inflight, exposed, managerVars, sweepVars, task>>

----------------------------------------------------------------------------
(* The life of the process and of its session.                              *)

NewLockManager(i, s) ==
  /\ proc[i] = "down"
  /\ NewSession(s)
  /\ live' = live \cup {s}
  /\ proc' = [proc EXCEPT ![i] = "up"]
  /\ sessionID' = [sessionID EXCEPT ![i] = s]
  /\ held' = [held EXCEPT ![i] = {}]
  /\ renew' = [renew EXCEPT ![i] = "renewing"]
  /\ UNCHANGED <<inflight, cooldown, exposed, fresh, sweepVars, task>>

\* RenewPeriodic gives up: the session is gone, or Consul did not answer for a TTL.
RenewFails(i) ==
  /\ proc[i] = "up" /\ renew[i] = "renewing"
  /\ RenewalsTimely => sessionID[i] \notin live
  /\ renew' = [renew EXCEPT ![i] = "creating"]
  /\ UNCHANGED <<consulVars, proc, sessionID, held, fresh, sweepVars, task>>

CreateSession(i, s) ==
  /\ renew[i] = "creating" /\ fresh[i] = None
  /\ NewSession(s)
  /\ live' = live \cup {s}
  /\ fresh' = [fresh EXCEPT ![i] = s]
  /\ UNCHANGED <<inflight, cooldown, exposed, proc, sessionID, held, renew, sweepVars, task>>

InstallSession(i) ==
  /\ renew[i] = "creating" /\ fresh[i] # None
  /\ sessionID' = [sessionID EXCEPT ![i] = fresh[i]]
  /\ fresh' = [fresh EXCEPT ![i] = None]
  /\ held' = [held EXCEPT ![i] = {}]
  /\ renew' = [renew EXCEPT ![i] = "renewing"]
  /\ UNCHANGED <<consulVars, proc, sweepVars, task>>

\* The reconcile loop has returned; running attempts are still there until exit.
Close(i) ==
  /\ proc[i] = "up" /\ ~Scanning(i)
  /\ proc' = [proc EXCEPT ![i] = "closing"]
  /\ EndSession(sessionID[i])
  /\ UNCHANGED <<cooldown, sessionID, held, renew, fresh, sweepVars, task>>

\* maintainLockSession sees renewDone: RenewPeriodic destroys the session it renews.
MaintainExit(i) ==
  /\ proc[i] = "closing"
  /\ \/ renew[i] = "renewing" /\ EndSession(sessionID[i])
     \/ renew[i] = "creating" /\ fresh[i] = None /\ UNCHANGED <<live, inflight, exposed>>
  /\ renew' = [renew EXCEPT ![i] = "done"]
  /\ UNCHANGED <<cooldown, proc, sessionID, held, fresh, sweepVars, task>>

\* The process dies, or exits after Close: its goroutines and memory go, its
\* sessions stay in Consul until they lapse.
Exit(i) ==
  /\ proc[i] # "down"
  /\ proc' = [proc EXCEPT ![i] = "down"]
  /\ sessionID' = [sessionID EXCEPT ![i] = None]
  /\ held' = [held EXCEPT ![i] = {}]
  /\ renew' = [renew EXCEPT ![i] = "done"]
  /\ fresh' = [fresh EXCEPT ![i] = None]
  /\ listed' = [listed EXCEPT ![i] = {}]
  /\ doomed' = [doomed EXCEPT ![i] = None]
  /\ task' = [a \in Attempts |-> IF task[a].inst = i THEN IdleTask ELSE task[a]]
  /\ exposed' = {a \in exposed : task[a].inst # i}
  /\ UNCHANGED <<live, inflight, cooldown>>

----------------------------------------------------------------------------
(* The scan loop: the cooldown gate, then Acquire.                          *)

CooldownOK(i, w, a) ==
  /\ proc[i] = "up" /\ ~Scanning(i)
  /\ active(i) < GlobalMaxInflight
  /\ ~cooldown[w]
  /\ NewAttempt(a)
  /\ task' = [task EXCEPT ![a] = [st |-> "eligible", inst |-> i, wallet |-> w, sess |-> None]]
  /\ UNCHANGED <<consulVars, managerVars, sweepVars>>

\* Mutant: no in-process check before the request to Consul.
AcquireCheckUnheld(a) ==
  /\ task[a].st = "eligible"
  /\ task' = [task EXCEPT ![a].st = "checked", ![a].sess = sessionID[task[a].inst]]
  /\ UNCHANGED <<consulVars, managerVars, sweepVars>>

\* Acquire up to the request: the held check and the session id it will send.
AcquireCheck(a) ==
  /\ task[a].st = "eligible"
  /\ LET i == task[a].inst
         w == task[a].wallet
     IN  task' = [task EXCEPT ![a] = IF w \in held[i] THEN IdleTask
                    ELSE [st |-> "checked", inst |-> i, wallet |-> w, sess |-> sessionID[i]]]
  /\ UNCHANGED <<consulVars, managerVars, sweepVars>>

\* Consul grants the key and the answer arrives.
AcquireGranted(a) ==
  /\ task[a].st = "checked"
  /\ Grantable(task[a].wallet, task[a].sess)
  /\ Grant(task[a].wallet, task[a].sess, a)
  /\ task' = [task EXCEPT ![a].st = "locked"]
  /\ UNCHANGED <<live, cooldown, exposed, managerVars, sweepVars>>

\* Consul grants the key but the call returns an error: the caller gives up.
AcquireAnswerLost(a) ==
  /\ task[a].st = "checked"
  /\ Grantable(task[a].wallet, task[a].sess)
  /\ Grant(task[a].wallet, task[a].sess, a)
  /\ task' = [task EXCEPT ![a] = IdleTask]
  /\ UNCHANGED <<live, cooldown, exposed, managerVars, sweepVars>>

\* Mutant: the boolean answer of kv.Acquire is ignored.
AcquireAnswerIgnored(a) ==
  /\ task[a].st = "checked"
  /\ task' = [task EXCEPT ![a].st = "locked"]
  /\ UNCHANGED <<consulVars, managerVars, sweepVars>>

\* The key belongs to another session, the session is invalid, or the call fails.
AcquireRefused(a) ==
  /\ task[a].st = "checked"
  /\ task' = [task EXCEPT ![a] = IdleTask]
  /\ UNCHANGED <<consulVars, managerVars, sweepVars>>

\* Acquire records the lock as held and the loop starts runReshare.
AcquireMark(a) ==
  /\ task[a].st = "locked"
  /\ held' = [held EXCEPT ![task[a].inst] = @ \cup {task[a].wallet}]
  /\ task' = [task EXCEPT ![a].st = "running"]
  /\ UNCHANGED <<consulVars, proc, sessionID, renew, fresh, sweepVars>>

----------------------------------------------------------------------------
(* The end of runReshare: MarkSuccess or MarkFailure, then Release.         *)

\* Mutant: the cooldown record is written without the time it ends.
MarkCooldownNoTime(a) ==
  /\ task[a].st = "running"
  /\ cooldown' = [cooldown EXCEPT ![task[a].wallet] = None]
  /\ task' = [task EXCEPT ![a].st = "marked"]
  /\ UNCHANGED <<live, inflight, exposed, managerVars, sweepVars>>

MarkCooldown(a) ==
  /\ task[a].st = "running"
  /\ \/ cooldown' = [cooldown EXCEPT ![task[a].wallet] = TRUE]
     \/ UNCHANGED cooldown   \* the put failed; runReshare only logs it
  /\ task' = [task EXCEPT ![a].st = "marked"]
  /\ UNCHANGED <<live, inflight, exposed, managerVars, sweepVars>>

\* Mutant: Release forgets the held set.
ReleaseKeepsHeld(a) ==
  /\ task[a].st = "marked"
  /\ task' = [task EXCEPT ![a].st = "released"]
  /\ exposed' = exposed \ {a}
  /\ UNCHANGED <<live, inflight, cooldown, managerVars, sweepVars>>

ReleaseLocal(a) ==
  /\ task[a].st = "marked"
  /\ held' = [held EXCEPT ![task[a].inst] = @ \ {task[a].wallet}]
  /\ task' = [task EXCEPT ![a].st = "released"]
  /\ exposed' = (exposed \ {a}) \cup LoseMark(a)
  /\ UNCHANGED <<live, inflight, cooldown, proc, sessionID, renew, fresh, sweepVars>>

\* kv.Delete names only the key: whoever's record is there goes.
ReleaseKey(a) ==
  /\ task[a].st = "released"
  /\ DeleteRecords({task[a].wallet})
  /\ task' = [task EXCEPT ![a] = IdleTask]
  /\ UNCHANGED <<live, cooldown, managerVars, sweepVars>>

ReleaseFails(a) ==
  /\ task[a].st = "released"
  /\ task' = [task EXCEPT ![a] = IdleTask]
  /\ UNCHANGED <<consulVars, managerVars, sweepVars>>

----------------------------------------------------------------------------
(* The sweeper.                                                             *)

\* Mutant: only records that do not parse are swept.
SweepOnlyCorrupt(corrupt, isHeld, aged) == corrupt

decideInflightSweep(corrupt, isHeld, aged) == corrupt \/ (~isHeld /\ aged)

SweepList(i) ==
  /\ SweepEnabled
  /\ proc[i] = "up" /\ listed[i] = {} /\ doomed[i] = None
  /\ listed' = [listed EXCEPT ![i] = {<<w, inflight[w].value>> :
                                        w \in {v \in Wallets : inflight[v] # NoRecord}}]
  /\ UNCHANGED <<consulVars, managerVars, doomed, task>>

SweepDecide(i) ==
  /\ doomed[i] = None
  /\ \E p \in listed[i] :
       /\ listed' = [listed EXCEPT ![i] = @ \ {p}]
       /\ doomed' = [doomed EXCEPT ![i] =
             IF decideInflightSweep(p[2] = "corrupt", p[1] \in held[i], p[2] = "aged")
             THEN p[1] ELSE None]
  /\ UNCHANGED <<consulVars, managerVars, task>>

SweepDelete(i) ==
  /\ doomed[i] # None
  /\ DeleteRecords({doomed[i]})
  /\ doomed' = [doomed EXCEPT ![i] = None]
  /\ UNCHANGED <<live, cooldown, managerVars, listed, task>>

\* The delete fails: SweepStale returns, the rest of the list is dropped.
SweepFails(i) ==
  /\ doomed[i] # None
  /\ doomed' = [doomed EXCEPT ![i] = None]
  /\ listed' = [listed EXCEPT ![i] = {}]
  /\ UNCHANGED <<consulVars, managerVars, task>>

----------------------------------------------------------------------------
SessionStep(i) ==
  \/ \E s \in Sessions : NewLockManager(i, s) \/ CreateSession(i, s)
  \/ RenewFails(i) \/ InstallSession(i) \/ Close(i) \/ MaintainExit(i) \/ Exit(i)

ScanStep(i) == \E w \in Wallets, a \in Attempts : CooldownOK(i, w, a)

TaskStep(a) ==
  \/ AcquireCheck(a) \/ AcquireGranted(a) \/ AcquireAnswerLost(a) \/ AcquireRefused(a)
  \/ AcquireMark(a) \/ MarkCooldown(a) \/ ReleaseLocal(a) \/ ReleaseKey(a) \/ ReleaseFails(a)

SweepStep(i) == SweepList(i) \/ SweepDecide(i) \/ SweepDelete(i) \/ SweepFails(i)

Next ==
  \/ \E s \in Sessions : SessionLapse(s)
  \/ \E w \in Wallets : RecordAges(w) \/ CooldownElapses(w)
  \/ \E i \in Instances : SessionStep(i) \/ ScanStep(i) \/ SweepStep(i)
  \/ \E a \in Attempts : TaskStep(a)

Spec == Init /\ [][Next]_vars

\* Consul expires what nobody renews, goroutines run, clocks advance, and no
\* call to Consul fails for ever.  Scans, crashes, restarts and lost renewals need not happen.
Fairness ==
  /\ \A s \in Sessions : WF_vars(SessionLapse(s) /\ ~Renewed(s))
  /\ \A w \in Wallets : WF_vars(RecordAges(w))
  /\ \A a \in Attempts : WF_vars(TaskStep(a)) /\ SF_vars(AcquireGranted(a))
  /\ \A i \in Instances :
       WF_vars(SweepList(i)) /\ WF_vars(SweepDecide(i)) /\ SF_vars(SweepDelete(i))

FairSpec == Spec /\ Fairness

----------------------------------------------------------------------------
(* Properties.                                                              *)

TypeOK ==
  /\ live \in SUBSET Sessions
  /\ inflight \in [Wallets -> Record]
  /\ cooldown \in [Wallets -> BOOLEAN]
  /\ proc \in [Instances -> {"down", "up", "closing"}]
  /\ sessionID \in [Instances -> Sessions \cup {None}]
  /\ held \in [Instances -> SUBSET Wallets]
  /\ renew \in [Instances -> {"renewing", "creating", "done"}]
  /\ fresh \in [Instances -> Sessions \cup {None}]
  /\ listed \in [Instances -> SUBSET (Wallets \X Values)]
  /\ doomed \in [Instances -> Wallets \cup {None}]
  /\ task \in [Attempts -> Task]
  /\ exposed \in SUBSET Attempts

\* Acquire never hands out a wallet twice: two attempts are in progress on one
\* wallet only if one of them lost its record (to the end of its session, a sweep, or
\* another attempt's Release) or its held mark (to another attempt's Release).  This is
\* what the pair of the Consul lock and the in-process held set is for: Consul lets a
\* session acquire a key it already owns.
Exclusion ==
  \A a, b \in Attempts :
    (/\ a # b /\ InProgress(a) /\ InProgress(b)
     /\ task[a].wallet = task[b].wallet) => a \in exposed \/ b \in exposed

\* held never outlives the work: a wallet marked as held has a runReshare of the same
\* instance that will release it, so no wallet is "in progress" for ever.
HeldIsReleased ==
  \A i \in Instances : \A w \in held[i] :
    \E a \in Attempts : /\ task[a].inst = i /\ task[a].wallet = w
                        /\ task[a].st \in {"running", "marked"}

\* An attempt that was not exposed works under its own record: while it runs the
\* record keeps other instances out, and the nodes, which look for the key, refuse to
\* sign with the wallet.
RecordCoversWork ==
  \A a \in Attempts :
    InProgress(a) /\ a \notin exposed => inflight[task[a].wallet].attempt = a

\* A record nobody works under (its owner crashed, its delete failed, the answer to
\* its acquire was lost) goes away once every instance stays up with its sweeper on.
Leaked(w) ==
  /\ inflight[w] # NoRecord
  /\ \A a \in Attempts : inflight[w].attempt = a => task[a].st = "idle"
LeakReclaimed ==
  <>[](\A i \in Instances : proc[i] = "up") => \A w \in Wallets : Leaked(w) ~> ~Leaked(w)

\* Acquire "returns (true, nil) only if the wallet is not already locked by this or any
\* other orchestrator instance" (lock.go:176): instances that are up never have two
\* attempts in progress on one wallet.  It does not hold: Release deletes by name.
Working(a) == InProgress(a) /\ proc[task[a].inst] = "up"
NoOverlap ==
  \A a, b \in Attempts :
    a # b /\ Working(a) /\ Working(b) => task[a].wallet # task[b].wallet

\* "Keys held by this instance (m.held) are never removed" (lock.go:232): a sweep step
\* that deletes a key finds it outside the held set.  It does not hold: the look at
\* held and the delete are apart.
SweepSparesHeld ==
  [][\A i \in Instances : doomed[i] # None /\ doomed'[i] = None
        /\ inflight'[doomed[i]] # inflight[doomed[i]] => doomed[i] \notin held[i]]_vars

----------------------------------------------------------------------------
(* The inductive invariant behind HeldIsReleased, RecordCoversWork and      *)
(* Exclusion (proved in ReshareLockProofs).                                 *)

\* An attempt that has begun belongs to a process that exists; from the check on it
\* carries the session id it read.
TaskShape ==
  \A a \in Attempts : task[a].st # "idle" =>
    /\ task[a].inst \in Instances /\ task[a].wallet \in Wallets
    /\ proc[task[a].inst] # "down"
    /\ task[a].st # "eligible" => task[a].sess \in Sessions

UpHasSession == \A i \in Instances : proc[i] # "down" => sessionID[i] \in Sessions

\* A session id is known to one instance only, and one not yet installed to no attempt.
SessionsApart ==
  /\ \A i, j \in Instances :
       /\ sessionID[i] \in Sessions /\ sessionID[i] = sessionID[j] => i = j
       /\ fresh[i] \in Sessions => fresh[i] # sessionID[j] /\ (fresh[i] = fresh[j] => i = j)
  /\ \A a \in Attempts, j \in Instances : task[a].sess \in Sessions =>
       task[a].sess # fresh[j] /\ (task[a].sess = sessionID[j] => j = task[a].inst)
  /\ \A a, b \in Attempts :
       task[a].sess \in Sessions /\ task[a].sess = task[b].sess => task[a].inst = task[b].inst

\* One goroutine per instance scans.
OneScan ==
  \A a, b \in Attempts :
    (/\ task[a].st \in {"eligible", "checked", "locked"}
     /\ task[b].st \in {"eligible", "checked", "locked"}
     /\ task[a].inst = task[b].inst) => a = b

Covered(a) == InProgress(a) /\ a \notin exposed

\* RecordCoversWork with the session: the record is the attempt's and its session's.
RecordIsOwn ==
  \A a \in Attempts : Covered(a) =>
    /\ inflight[task[a].wallet].attempt = a
    /\ inflight[task[a].wallet].session = task[a].sess

\* A covered attempt is marked in held unless its instance has moved to another session.
MarkHolds ==
  \A a \in Attempts : Covered(a) /\ task[a].st # "locked" =>
    \/ task[a].wallet \in held[task[a].inst]
    \/ task[a].sess # sessionID[task[a].inst]

\* An Acquire past its held check does not carry the session of a covered attempt on the
\* same wallet of the same instance.
CheckIsSound ==
  \A a, b \in Attempts :
    (/\ task[a].st = "checked" /\ Covered(b) /\ task[b].st # "locked"
     /\ task[a].inst = task[b].inst /\ task[a].wallet = task[b].wallet)
      => task[a].sess # task[b].sess

(* What the manager implements.                                             *)

\* An attempt has its wallet while it is covered.
holders == [w \in Wallets |-> {a \in Attempts : Covered(a) /\ task[a].wallet = w}]
Lock == INSTANCE WalletLock WITH holders <- holders

\* Acquire, Release, sweeps, crashes and ends of sessions, with all their steps in
\* between, are takes of a free wallet and losses: WalletLock's Spec.
RefinesWalletLock == Lock!Spec

----------------------------------------------------------------------------
LockInv ==
  /\ TypeOK /\ TaskShape /\ UpHasSession /\ SessionsApart /\ OneScan
  /\ HeldIsReleased /\ RecordIsOwn /\ MarkHolds /\ CheckIsSound
=============================================================================
