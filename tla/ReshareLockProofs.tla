------------------------- MODULE ReshareLockProofs -------------------------
(***************************************************************************)
(* Proofs about ReshareLock, for every set of instances, wallets, sessions *)
(* and attempts: type correctness, HeldIsReleased, and RecordCoversWork,   *)
(* from which Exclusion follows.                                           *)
(***************************************************************************)
EXTENDS ReshareLock, TLAPS

\* The lock manager starts well typed.
LEMMA InitTypeOK == Init => TypeOK
  BY LockAssumption DEF Init, TypeOK, Record, Task, NoRecord, Leftover, IdleTask, Values, Stages

\* What the effects on Consul do to the types.
LEMMA DeleteRecordsType ==
  ASSUME TypeOK, NEW W, DeleteRecords(W)
  PROVE  inflight' \in [Wallets -> Record] /\ exposed' \in SUBSET Attempts
  BY DEF TypeOK, DeleteRecords, Orphaning, NoRecord, Record, Values

\* The end of a session leaves Consul's records well typed.
LEMMA EndSessionType ==
  ASSUME TypeOK, NEW s, EndSession(s)
  PROVE  /\ live' \in SUBSET Sessions
         /\ inflight' \in [Wallets -> Record] /\ exposed' \in SUBSET Attempts
  BY DeleteRecordsType DEF TypeOK, EndSession

\* A process that does nothing has a well typed task.
LEMMA IdleTaskType == IdleTask \in Task
  BY LockAssumption DEF IdleTask, Task, Stages

\* Every step keeps the types.
LEMMA NextTypeOK == TypeOK /\ TaskShape /\ [Next]_vars => TypeOK'
<1> SUFFICES ASSUME TypeOK, TaskShape, [Next]_vars PROVE TypeOK'
  OBVIOUS
<1> USE DEF TypeOK, managerVars, sweepVars, consulVars
<1>1. ASSUME NEW s \in Sessions, SessionLapse(s) PROVE TypeOK'
  BY <1>1, EndSessionType DEF SessionLapse
<1>2. ASSUME NEW w \in Wallets, RecordAges(w) PROVE TypeOK'
  <2>0. inflight[w] \in Record /\ [inflight[w] EXCEPT !.value = "aged"] \in Record
    BY <1>2 DEF Record, Values
  <2>1. inflight' \in [Wallets -> Record]
    BY <1>2, <2>0 DEF RecordAges
  <2> QED BY <1>2, <2>1 DEF RecordAges
<1>3. ASSUME NEW w \in Wallets, CooldownElapses(w) PROVE TypeOK'
  BY <1>3 DEF CooldownElapses
<1>4. ASSUME NEW i \in Instances, SessionStep(i) PROVE TypeOK'
  <2>1. ASSUME NEW s \in Sessions, NewLockManager(i, s) PROVE TypeOK'
    BY <2>1 DEF NewLockManager
  <2>2. ASSUME NEW s \in Sessions, CreateSession(i, s) PROVE TypeOK'
    BY <2>2 DEF CreateSession
  <2>3. CASE RenewFails(i)
    BY <2>3 DEF RenewFails
  <2>4. CASE InstallSession(i)
    BY <2>4 DEF InstallSession
  <2>5. CASE Close(i)
    BY <2>5, EndSessionType DEF Close
  <2>6. CASE MaintainExit(i)
    BY <2>6, EndSessionType DEF MaintainExit
  <2>7. CASE Exit(i)
    <3>1. task' \in [Attempts -> Task]
      BY <2>7, IdleTaskType DEF Exit
    <3> QED BY <2>7, <3>1 DEF Exit
  <2> QED BY <1>4, <2>1, <2>2, <2>3, <2>4, <2>5, <2>6, <2>7 DEF SessionStep
<1>5. ASSUME NEW i \in Instances, ScanStep(i) PROVE TypeOK'
  <2> PICK w \in Wallets, a \in Attempts : CooldownOK(i, w, a)
    BY <1>5 DEF ScanStep
  <2>1. task' \in [Attempts -> Task]
    BY DEF CooldownOK, Task, Stages
  <2> QED BY <2>1 DEF CooldownOK
<1>6. ASSUME NEW i \in Instances, SweepStep(i) PROVE TypeOK'
  <2>1. CASE SweepList(i)
    BY <2>1 DEF SweepList, Record
  <2>2. CASE SweepDecide(i)
    BY <2>2 DEF SweepDecide
  <2>3. CASE SweepDelete(i)
    BY <2>3, DeleteRecordsType DEF SweepDelete
  <2>4. CASE SweepFails(i)
    BY <2>4 DEF SweepFails
  <2> QED BY <1>6, <2>1, <2>2, <2>3, <2>4 DEF SweepStep
<1>7. ASSUME NEW a \in Attempts, TaskStep(a) PROVE TypeOK'
  <2>0. task[a] \in Task
    OBVIOUS
  <2>1. CASE AcquireCheck(a)
    <3>1. task' \in [Attempts -> Task]
      BY <2>1, <2>0, IdleTaskType DEF AcquireCheck, Task, Stages, TaskShape
    <3> QED BY <2>1, <3>1 DEF AcquireCheck
  <2>2. ASSUME task[a].st # "idle", Grant(task[a].wallet, task[a].sess, a)
        PROVE inflight' \in [Wallets -> Record]
    BY <2>0, <2>2 DEF Grant, Record, Task, Values
  <2>3. CASE AcquireGranted(a)
    <3>1. task' \in [Attempts -> Task]
      BY <2>0, <2>3 DEF AcquireGranted, Task, Stages
    <3> QED BY <2>2, <2>3, <3>1 DEF AcquireGranted
  <2>4. CASE AcquireAnswerLost(a)
    BY <2>2, <2>4, IdleTaskType DEF AcquireAnswerLost
  <2>5. CASE AcquireRefused(a)
    BY <2>5, IdleTaskType DEF AcquireRefused
  <2>6. CASE AcquireMark(a)
    <3>1. task' \in [Attempts -> Task]
      BY <2>0, <2>6 DEF AcquireMark, Task, Stages
    <3>2. held' \in [Instances -> SUBSET Wallets]
      BY <2>0, <2>6 DEF AcquireMark, Task, TaskShape
    <3> QED BY <2>6, <3>1, <3>2 DEF AcquireMark
  <2>7. CASE MarkCooldown(a)
    <3>1. task' \in [Attempts -> Task]
      BY <2>0, <2>7 DEF MarkCooldown, Task, Stages
    <3>2. cooldown' \in [Wallets -> BOOLEAN]
      BY <2>7 DEF MarkCooldown
    <3> QED BY <2>7, <3>1, <3>2 DEF MarkCooldown
  <2>8. CASE ReleaseLocal(a)
    <3>1. task' \in [Attempts -> Task]
      BY <2>0, <2>8 DEF ReleaseLocal, Task, Stages
    <3>2. exposed' \in SUBSET Attempts /\ held' \in [Instances -> SUBSET Wallets]
      BY <2>8 DEF ReleaseLocal, LoseMark
    <3> QED BY <2>8, <3>1, <3>2 DEF ReleaseLocal
  <2>9. CASE ReleaseKey(a)
    BY <2>9, IdleTaskType, DeleteRecordsType DEF ReleaseKey
  <2>10. CASE ReleaseFails(a)
    BY <2>10, IdleTaskType DEF ReleaseFails
  <2> QED BY <1>7, <2>1, <2>3, <2>4, <2>5, <2>6, <2>7, <2>8, <2>9, <2>10 DEF TaskStep
<1>8. CASE UNCHANGED vars
  BY <1>8 DEF vars
<1> QED BY <1>1, <1>2, <1>3, <1>4, <1>5, <1>6, <1>7, <1>8 DEF Next

----------------------------------------------------------------------------
(* LockInv is inductive.  Only deletions of records, changes of session and *)
(* the steps of an attempt can disturb it.                                  *)

\* The records that a deletion leaves are still owned: an attempt that loses its record
\* is exposed by the same step.
LEMMA DeleteRecordsInv ==
  ASSUME LockInv, NEW W, DeleteRecords(W), UNCHANGED task
  PROVE  RecordIsOwn' /\ \A a \in Attempts : Covered(a)' => Covered(a)
  BY DEF LockInv, TypeOK, RecordIsOwn, TaskShape, Covered, InProgress, DeleteRecords, Orphaning

\* Steps that delete records and leave attempts and managers alone.
LEMMA DeletingStepInv ==
  ASSUME LockInv, NEW W, DeleteRecords(W), UNCHANGED <<task, managerVars>>
  PROVE  /\ TaskShape' /\ UpHasSession' /\ SessionsApart' /\ OneScan'
         /\ HeldIsReleased' /\ RecordIsOwn' /\ MarkHolds' /\ CheckIsSound'
<1>1. RecordIsOwn' /\ \A a \in Attempts : Covered(a)' => Covered(a)
  BY DeleteRecordsInv
<1>2. MarkHolds' /\ CheckIsSound'
  BY <1>1 DEF LockInv, MarkHolds, CheckIsSound, managerVars
<1> QED BY <1>1, <1>2 DEF LockInv, TaskShape, UpHasSession, SessionsApart, OneScan,
                         HeldIsReleased, managerVars

\* Steps that leave attempts, managers and the owners of records alone.
LEMMA QuietStepInv ==
  ASSUME LockInv, UNCHANGED <<task, managerVars, exposed>>,
         \A w \in Wallets : /\ inflight'[w].attempt = inflight[w].attempt
                            /\ inflight'[w].session = inflight[w].session
  PROVE  /\ TaskShape' /\ UpHasSession' /\ SessionsApart' /\ OneScan'
         /\ HeldIsReleased' /\ RecordIsOwn' /\ MarkHolds' /\ CheckIsSound'
<1> USE DEF LockInv, managerVars, Covered, InProgress
<1>1. TaskShape' /\ UpHasSession' /\ SessionsApart' /\ OneScan' /\ HeldIsReleased'
  BY DEF TaskShape, UpHasSession, SessionsApart, OneScan, HeldIsReleased
<1>2. RecordIsOwn'
  BY DEF RecordIsOwn, TaskShape
<1>3. MarkHolds' /\ CheckIsSound'
  BY DEF MarkHolds, CheckIsSound
<1> QED BY <1>1, <1>2, <1>3

----------------------------------------------------------------------------
(* Session steps.                                                           *)

\* A session nothing names becomes the session of a process that starts.
LEMMA NewLockManagerInv ==
  ASSUME LockInv, NEW i \in Instances, NEW s \in Sessions, NewLockManager(i, s), TypeOK'
  PROVE  LockInv'
<1> USE DEF LockInv, NewLockManager, Covered, InProgress
<1>1. \A a \in Attempts : task[a].st # "idle" => task[a].inst # i
  BY DEF TaskShape
<1>2. TaskShape' /\ UpHasSession' /\ OneScan'
  BY LockAssumption DEF TypeOK, TaskShape, UpHasSession, OneScan
<1>3. SessionsApart'
  BY LockAssumption DEF TypeOK, SessionsApart, NewSession
<1>4. HeldIsReleased'
  BY DEF TypeOK, HeldIsReleased
<1>5. RecordIsOwn'
  BY DEF RecordIsOwn
<1>6. MarkHolds'
  BY <1>1 DEF TypeOK, MarkHolds, TaskShape
<1>7. CheckIsSound'
  BY DEF CheckIsSound
<1> QED BY <1>2, <1>3, <1>4, <1>5, <1>6, <1>7

\* A renewal that fails keeps the invariant.
LEMMA RenewFailsInv ==
  ASSUME LockInv, NEW i \in Instances, RenewFails(i), TypeOK'
  PROVE  LockInv'
<1> USE DEF LockInv, RenewFails, consulVars, Covered, InProgress
<1>1. TaskShape' /\ UpHasSession' /\ OneScan' /\ SessionsApart' /\ HeldIsReleased'
  BY DEF TaskShape, UpHasSession, OneScan, SessionsApart, HeldIsReleased
<1>2. RecordIsOwn' /\ MarkHolds' /\ CheckIsSound'
  BY DEF RecordIsOwn, MarkHolds, CheckIsSound
<1> QED BY <1>1, <1>2

\* A new session belongs to its creator alone.
LEMMA CreateSessionInv ==
  ASSUME LockInv, NEW i \in Instances, NEW s \in Sessions, CreateSession(i, s), TypeOK'
  PROVE  LockInv'
<1> USE DEF LockInv, CreateSession, Covered, InProgress
<1>1. TaskShape' /\ UpHasSession' /\ OneScan' /\ HeldIsReleased'
  BY DEF TaskShape, UpHasSession, OneScan, HeldIsReleased
<1>2. SessionsApart'
  BY DEF TypeOK, SessionsApart, NewSession
<1>3. RecordIsOwn' /\ MarkHolds' /\ CheckIsSound'
  BY DEF RecordIsOwn, MarkHolds, CheckIsSound
<1> QED BY <1>1, <1>2, <1>3

\* held is cleared, and no attempt carries the new session: MarkHolds survives because the
\* covered attempts of the instance now carry a session that is not its own any more.
LEMMA InstallSessionInv ==
  ASSUME LockInv, NEW i \in Instances, InstallSession(i), TypeOK'
  PROVE  LockInv'
<1> USE DEF LockInv, InstallSession, consulVars, Covered, InProgress
<1>1. TaskShape' /\ OneScan'
  BY DEF TaskShape, OneScan
<1>2. UpHasSession'
  BY DEF TypeOK, UpHasSession
<1>3. SessionsApart'
  BY LockAssumption DEF TypeOK, SessionsApart
<1>4. HeldIsReleased'
  BY DEF TypeOK, HeldIsReleased
<1>5. RecordIsOwn' /\ CheckIsSound'
  BY DEF RecordIsOwn, CheckIsSound
<1>6. MarkHolds'
  BY DEF TypeOK, MarkHolds, SessionsApart, TaskShape
<1> QED BY <1>1, <1>2, <1>3, <1>4, <1>5, <1>6

\* Close and the end of maintainLockSession change nothing but proc, renew and Consul.
LEMMA ClosingStepInv ==
  ASSUME LockInv, NEW i \in Instances, Close(i) \/ MaintainExit(i), TypeOK'
  PROVE  LockInv'
<1> USE DEF LockInv, Close, MaintainExit
<1>1. \A j \in Instances : proc'[j] = "down" <=> proc[j] = "down"
  BY DEF TypeOK
<1>2. TaskShape' /\ UpHasSession'
  BY <1>1 DEF TaskShape, UpHasSession
<1>3. OneScan' /\ SessionsApart' /\ HeldIsReleased'
  BY DEF OneScan, SessionsApart, HeldIsReleased
<1>4. RecordIsOwn' /\ \A a \in Attempts : Covered(a)' => Covered(a)
  <2>1. CASE UNCHANGED <<live, inflight, exposed>>
    BY <2>1 DEF RecordIsOwn, Covered, InProgress
  <2>2. CASE EndSession(sessionID[i])
    BY <2>2, DeleteRecordsInv DEF EndSession
  <2> QED BY <2>1, <2>2
<1>5. MarkHolds' /\ CheckIsSound'
  BY <1>4 DEF MarkHolds, CheckIsSound
<1> QED BY <1>2, <1>3, <1>4, <1>5

\* A process that ends takes no other's lock away.
LEMMA ExitInv ==
  ASSUME LockInv, NEW i \in Instances, Exit(i), TypeOK'
  PROVE  LockInv'
<1> USE DEF LockInv, Exit
<1>1. \A a \in Attempts : /\ task[a].inst = i => task'[a] = IdleTask
                          /\ task[a].inst # i => task'[a] = task[a]
  BY DEF TypeOK
<1>2. \A a \in Attempts : Covered(a)' => Covered(a) /\ task'[a] = task[a] /\ task[a].inst # i
  BY <1>1 DEF Covered, InProgress, IdleTask
<1>3. TaskShape' /\ UpHasSession'
  BY <1>1 DEF TypeOK, TaskShape, UpHasSession, IdleTask
<1>4. OneScan'
  BY <1>1 DEF OneScan, IdleTask
<1>5. SessionsApart'
  BY <1>1, LockAssumption DEF TypeOK, SessionsApart, IdleTask
<1>6. HeldIsReleased'
  BY <1>1 DEF TypeOK, HeldIsReleased
<1>7. RecordIsOwn'
  BY <1>2 DEF RecordIsOwn
<1>8. MarkHolds'
  BY <1>2 DEF TypeOK, MarkHolds, TaskShape, Covered, InProgress
<1>9. CheckIsSound'
  BY <1>1, <1>2 DEF CheckIsSound, IdleTask
<1> QED BY <1>3, <1>4, <1>5, <1>6, <1>7, <1>8, <1>9

----------------------------------------------------------------------------
(* Steps of an attempt.                                                     *)

\* The cooldown check keeps the invariant.
LEMMA CooldownOKInv ==
  ASSUME LockInv, NEW i \in Instances, NEW w \in Wallets, NEW a \in Attempts,
         CooldownOK(i, w, a), TypeOK'
  PROVE  LockInv'
<1> USE DEF LockInv, CooldownOK, managerVars, consulVars, Covered, InProgress
<1>1. /\ task[a].st = "idle" /\ task'[a].st = "eligible" /\ task'[a].inst = i
      /\ task'[a].wallet = w /\ task'[a].sess = None
      /\ \A b \in Attempts \ {a} : task'[b] = task[b]
  BY DEF TypeOK, NewAttempt, IdleTask
<1>2. TaskShape'
  BY <1>1 DEF TypeOK, TaskShape
<1>3. UpHasSession' /\ SessionsApart'
  BY <1>1, LockAssumption DEF TypeOK, UpHasSession, SessionsApart
<1>4. OneScan'
  BY <1>1 DEF OneScan, Scanning
<1>5. HeldIsReleased'
  BY <1>1 DEF HeldIsReleased
<1>6. RecordIsOwn' /\ MarkHolds' /\ CheckIsSound'
  BY <1>1 DEF RecordIsOwn, MarkHolds, CheckIsSound
<1> QED BY <1>2, <1>3, <1>4, <1>5, <1>6

\* The held check: a wallet that is not held has no covered attempt with the session that
\* Acquire is about to send.
LEMMA AcquireCheckInv ==
  ASSUME LockInv, NEW a \in Attempts, AcquireCheck(a), TypeOK'
  PROVE  LockInv'
<1> USE DEF LockInv, AcquireCheck, managerVars, consulVars, Covered, InProgress
<1>1. /\ task[a].st = "eligible" /\ \A b \in Attempts \ {a} : task'[b] = task[b]
      /\ task'[a] = IF task[a].wallet \in held[task[a].inst] THEN IdleTask
                    ELSE [st |-> "checked", inst |-> task[a].inst, wallet |-> task[a].wallet,
                          sess |-> sessionID[task[a].inst]]
  BY DEF TypeOK
<1>2. task[a] \in Task /\ task[a].inst \in Instances /\ task[a].wallet \in Wallets
      /\ proc[task[a].inst] # "down"
  BY <1>1 DEF TypeOK, TaskShape
<1>3. CASE task[a].wallet \in held[task[a].inst]
  <2>1. task'[a].st = "idle" /\ task'[a].sess = None
    BY <1>1, <1>3 DEF IdleTask
  <2>2. TaskShape' /\ UpHasSession' /\ OneScan' /\ HeldIsReleased'
    BY <1>1, <2>1 DEF TaskShape, UpHasSession, OneScan, HeldIsReleased
  <2>3. SessionsApart'
    BY <1>1, <2>1, LockAssumption DEF SessionsApart
  <2>4. RecordIsOwn' /\ MarkHolds' /\ CheckIsSound'
    BY <1>1, <2>1 DEF RecordIsOwn, MarkHolds, CheckIsSound
  <2> QED BY <2>2, <2>3, <2>4
<1>4. CASE task[a].wallet \notin held[task[a].inst]
  <2>1. /\ task'[a].st = "checked" /\ task'[a].sess = sessionID[task[a].inst]
        /\ task'[a].inst = task[a].inst /\ task'[a].wallet = task[a].wallet
    BY <1>1, <1>4
  <2>2. TaskShape' /\ UpHasSession' /\ OneScan' /\ HeldIsReleased'
    BY <1>1, <1>2, <2>1 DEF TaskShape, UpHasSession, OneScan, HeldIsReleased
  <2>3. SessionsApart'
    BY <1>1, <1>2, <2>1 DEF TypeOK, SessionsApart, UpHasSession
  <2>4. RecordIsOwn' /\ MarkHolds'
    BY <1>1, <2>1 DEF RecordIsOwn, MarkHolds
  <2>5. CheckIsSound'
    BY <1>1, <1>4, <2>1 DEF CheckIsSound, MarkHolds
  <2> QED BY <2>2, <2>3, <2>4, <2>5
<1> QED BY <1>3, <1>4

\* No covered attempt loses its record to a grant: Consul grants a key that is free or that
\* the same session owns, and in the second case the check was sound.
LEMMA GrantSpares ==
  ASSUME LockInv, NEW a \in Attempts, task[a].st = "checked",
         Grantable(task[a].wallet, task[a].sess),
         NEW b \in Attempts, Covered(b), b # a
  PROVE  task[b].wallet # task[a].wallet
<1> SUFFICES ASSUME task[b].wallet = task[a].wallet PROVE FALSE
  OBVIOUS
<1> USE DEF LockInv, Covered, InProgress
<1>1. task[b].st # "idle" /\ task[b].st # "eligible" /\ task[b].sess \in Sessions
  BY DEF TaskShape
<1>2. task[b].sess = task[a].sess
  BY <1>1, LockAssumption DEF Grantable, RecordIsOwn
<1>3. task[b].inst = task[a].inst
  BY <1>1, <1>2 DEF SessionsApart
<1>4. task[b].st # "locked"
  BY <1>3 DEF OneScan
<1> QED BY <1>2, <1>3, <1>4 DEF CheckIsSound

\* A grant covers the attempt and meets no other covered one.
LEMMA AcquireGrantedInv ==
  ASSUME LockInv, NEW a \in Attempts, AcquireGranted(a), TypeOK'
  PROVE  LockInv'
<1> USE DEF LockInv, AcquireGranted, managerVars
<1>1. /\ task[a].st = "checked" /\ task'[a].st = "locked" /\ task'[a].inst = task[a].inst
      /\ task'[a].wallet = task[a].wallet /\ task'[a].sess = task[a].sess
      /\ \A b \in Attempts \ {a} : task'[b] = task[b]
  BY DEF TypeOK, Task
<1>2. TaskShape' /\ UpHasSession' /\ OneScan' /\ HeldIsReleased'
  BY <1>1 DEF TaskShape, UpHasSession, OneScan, HeldIsReleased
<1>3. SessionsApart'
  BY <1>1 DEF SessionsApart
<1>4. RecordIsOwn'
  <2> SUFFICES ASSUME NEW b \in Attempts, Covered(b)'
               PROVE  /\ inflight'[task'[b].wallet].attempt = b
                      /\ inflight'[task'[b].wallet].session = task'[b].sess
    BY DEF RecordIsOwn
  <2>1. CASE b = a
    BY <1>1, <2>1 DEF TypeOK, TaskShape, Grant
  <2>2. CASE b # a
    <3>1. Covered(b)
      BY <1>1, <2>2 DEF Covered, InProgress
    <3>2. task[b].wallet # task[a].wallet
      BY <1>1, <2>2, <3>1, GrantSpares
    <3>3. inflight'[task[b].wallet] = inflight[task[b].wallet]
      BY <3>1, <3>2 DEF TypeOK, TaskShape, Grant, Covered, InProgress
    <3> QED BY <1>1, <2>2, <3>1, <3>3 DEF RecordIsOwn
  <2> QED BY <2>1, <2>2
<1>5. MarkHolds' /\ CheckIsSound'
  BY <1>1 DEF MarkHolds, CheckIsSound, Covered, InProgress
<1> QED BY <1>2, <1>3, <1>4, <1>5

\* Consul has the record of an attempt that gives up; no covered attempt is hurt.
LEMMA AcquireAnswerLostInv ==
  ASSUME LockInv, NEW a \in Attempts, AcquireAnswerLost(a), TypeOK'
  PROVE  LockInv'
<1> USE DEF LockInv, AcquireAnswerLost, managerVars
<1>1. /\ task[a].st = "checked" /\ task'[a].st = "idle" /\ task'[a].sess = None
      /\ \A b \in Attempts \ {a} : task'[b] = task[b]
  BY DEF TypeOK, IdleTask
<1>2. TaskShape' /\ UpHasSession' /\ OneScan' /\ HeldIsReleased'
  BY <1>1 DEF TaskShape, UpHasSession, OneScan, HeldIsReleased
<1>3. SessionsApart'
  BY <1>1, LockAssumption DEF SessionsApart
<1>4. RecordIsOwn'
  <2> SUFFICES ASSUME NEW b \in Attempts, Covered(b)'
               PROVE  /\ inflight'[task'[b].wallet].attempt = b
                      /\ inflight'[task'[b].wallet].session = task'[b].sess
    BY DEF RecordIsOwn
  <2>1. b # a /\ Covered(b)
    BY <1>1 DEF Covered, InProgress
  <2>2. task[b].wallet # task[a].wallet
    BY <1>1, <2>1, GrantSpares
  <2>3. inflight'[task[b].wallet] = inflight[task[b].wallet]
    BY <2>1, <2>2 DEF TypeOK, TaskShape, Grant, Covered, InProgress
  <2> QED BY <1>1, <2>1, <2>3 DEF RecordIsOwn
<1>5. MarkHolds' /\ CheckIsSound'
  BY <1>1 DEF MarkHolds, CheckIsSound, Covered, InProgress
<1> QED BY <1>2, <1>3, <1>4, <1>5

\* An attempt that ends without touching Consul.
LEMMA GiveUpInv ==
  ASSUME LockInv, NEW a \in Attempts, AcquireRefused(a) \/ ReleaseFails(a), TypeOK'
  PROVE  LockInv'
<1> USE DEF LockInv, AcquireRefused, ReleaseFails, managerVars, consulVars
<1>1. /\ task[a].st \in {"checked", "released"} /\ task'[a].st = "idle" /\ task'[a].sess = None
      /\ \A b \in Attempts \ {a} : task'[b] = task[b]
  BY DEF TypeOK, IdleTask
<1>2. TaskShape' /\ UpHasSession' /\ OneScan' /\ HeldIsReleased'
  BY <1>1 DEF TaskShape, UpHasSession, OneScan, HeldIsReleased
<1>3. SessionsApart'
  BY <1>1, LockAssumption DEF SessionsApart
<1>4. RecordIsOwn' /\ MarkHolds' /\ CheckIsSound'
  BY <1>1 DEF RecordIsOwn, MarkHolds, CheckIsSound, Covered, InProgress
<1> QED BY <1>2, <1>3, <1>4

\* Marking a grant as held keeps the invariant.
LEMMA AcquireMarkInv ==
  ASSUME LockInv, NEW a \in Attempts, AcquireMark(a), TypeOK'
  PROVE  LockInv'
<1> USE DEF LockInv, AcquireMark, consulVars
<1>1. /\ task[a].st = "locked" /\ task'[a].st = "running" /\ task'[a].inst = task[a].inst
      /\ task'[a].wallet = task[a].wallet /\ task'[a].sess = task[a].sess
      /\ \A b \in Attempts \ {a} : task'[b] = task[b]
  BY DEF TypeOK, Task
<1>2. task[a].inst \in Instances
  BY <1>1 DEF TaskShape
<1>3. TaskShape' /\ UpHasSession' /\ OneScan'
  BY <1>1 DEF TaskShape, UpHasSession, OneScan
<1>4. SessionsApart'
  BY <1>1 DEF SessionsApart
<1>5. HeldIsReleased'
  BY <1>1, <1>2 DEF TypeOK, HeldIsReleased
<1>6. RecordIsOwn'
  BY <1>1 DEF RecordIsOwn, Covered, InProgress
<1>7. MarkHolds'
  BY <1>1, <1>2 DEF TypeOK, MarkHolds, TaskShape, Covered, InProgress
<1>8. CheckIsSound'
  BY <1>1 DEF CheckIsSound, OneScan, Covered, InProgress
<1> QED BY <1>3, <1>4, <1>5, <1>6, <1>7, <1>8

\* Writing the cooldown keeps the invariant.
LEMMA MarkCooldownInv ==
  ASSUME LockInv, NEW a \in Attempts, MarkCooldown(a), TypeOK'
  PROVE  LockInv'
<1> USE DEF LockInv, MarkCooldown, managerVars
<1>1. /\ task[a].st = "running" /\ task'[a].st = "marked" /\ task'[a].inst = task[a].inst
      /\ task'[a].wallet = task[a].wallet /\ task'[a].sess = task[a].sess
      /\ \A b \in Attempts \ {a} : task'[b] = task[b]
  BY DEF TypeOK, Task
<1>2. TaskShape' /\ UpHasSession' /\ OneScan' /\ HeldIsReleased'
  BY <1>1 DEF TaskShape, UpHasSession, OneScan, HeldIsReleased
<1>3. SessionsApart'
  BY <1>1 DEF SessionsApart
<1>4. RecordIsOwn' /\ MarkHolds' /\ CheckIsSound'
  BY <1>1 DEF RecordIsOwn, MarkHolds, CheckIsSound, Covered, InProgress
<1> QED BY <1>2, <1>3, <1>4

\* held loses the wallet; the attempts of the instance that relied on the mark are exposed.
LEMMA ReleaseLocalInv ==
  ASSUME LockInv, NEW a \in Attempts, ReleaseLocal(a), TypeOK'
  PROVE  LockInv'
<1> USE DEF LockInv, ReleaseLocal
<1>1. /\ task[a].st = "marked" /\ task'[a].st = "released" /\ task'[a].inst = task[a].inst
      /\ task'[a].wallet = task[a].wallet /\ task'[a].sess = task[a].sess
      /\ \A b \in Attempts \ {a} : task'[b] = task[b]
  BY DEF TypeOK, Task
<1>2. task[a].inst \in Instances
  BY <1>1 DEF TaskShape
<1>3. TaskShape' /\ UpHasSession' /\ OneScan'
  BY <1>1 DEF TaskShape, UpHasSession, OneScan
<1>4. SessionsApart'
  BY <1>1 DEF SessionsApart
<1>5. HeldIsReleased'
  <2> SUFFICES ASSUME NEW j \in Instances, NEW w \in held'[j]
               PROVE  \E b \in Attempts : /\ task'[b].inst = j /\ task'[b].wallet = w
                                          /\ task'[b].st \in {"running", "marked"}
    BY DEF HeldIsReleased
  <2>1. w \in held[j] /\ ~(j = task[a].inst /\ w = task[a].wallet)
    BY <1>2 DEF TypeOK
  <2>2. PICK b \in Attempts : /\ task[b].inst = j /\ task[b].wallet = w
                              /\ task[b].st \in {"running", "marked"}
    BY <2>1 DEF HeldIsReleased
  <2> QED BY <1>1, <2>1, <2>2
<1>6. \A b \in Attempts : Covered(b)' =>
        b # a /\ Covered(b) /\ b \notin LoseMark(a)
  BY <1>1 DEF Covered, InProgress
<1>7. RecordIsOwn' /\ CheckIsSound'
  BY <1>1, <1>6 DEF RecordIsOwn, CheckIsSound
<1>8. MarkHolds'
  BY <1>1, <1>2, <1>6 DEF TypeOK, MarkHolds, LoseMark, TaskShape, Covered, InProgress
<1> QED BY <1>3, <1>4, <1>5, <1>7, <1>8

\* A release that deletes a key by name exposes whoever had it.
LEMMA ReleaseKeyInv ==
  ASSUME LockInv, NEW a \in Attempts, ReleaseKey(a), TypeOK'
  PROVE  LockInv'
<1> USE DEF LockInv, ReleaseKey, managerVars
<1>1. /\ task[a].st = "released" /\ task'[a].st = "idle" /\ task'[a].sess = None
      /\ \A b \in Attempts \ {a} : task'[b] = task[b]
  BY DEF TypeOK, IdleTask
<1>2. TaskShape' /\ UpHasSession' /\ OneScan' /\ HeldIsReleased'
  BY <1>1 DEF TaskShape, UpHasSession, OneScan, HeldIsReleased
<1>3. SessionsApart'
  BY <1>1, LockAssumption DEF SessionsApart
<1>4. \A b \in Attempts : Covered(b)' =>
        b # a /\ Covered(b) /\ task[b].wallet # task[a].wallet
  BY <1>1 DEF Covered, InProgress, DeleteRecords, Orphaning, RecordIsOwn
<1>5. RecordIsOwn'
  BY <1>1, <1>4 DEF RecordIsOwn, DeleteRecords, TaskShape, Covered, InProgress
<1>6. MarkHolds' /\ CheckIsSound'
  BY <1>1, <1>4 DEF MarkHolds, CheckIsSound
<1> QED BY <1>2, <1>3, <1>5, <1>6

----------------------------------------------------------------------------
(* The theorems.                                                            *)

\* The lock manager starts with nothing held.
LEMMA InitLockInv == Init => LockInv
<1> SUFFICES ASSUME Init PROVE LockInv
  OBVIOUS
<1>1. TypeOK
  BY InitTypeOK
<1>2. \A a \in Attempts : task[a] = IdleTask /\ task[a].st = "idle" /\ task[a].sess = None
  BY DEF Init, IdleTask
<1>3. TaskShape /\ UpHasSession /\ OneScan /\ HeldIsReleased
  BY <1>2 DEF Init, TaskShape, UpHasSession, OneScan, HeldIsReleased
<1>4. SessionsApart
  BY <1>2, LockAssumption DEF Init, SessionsApart
<1>5. RecordIsOwn /\ MarkHolds /\ CheckIsSound
  BY <1>2 DEF RecordIsOwn, MarkHolds, CheckIsSound, Covered, InProgress
<1> QED BY <1>1, <1>3, <1>4, <1>5 DEF LockInv

\* Every step keeps the invariant.
LEMMA NextLockInv == LockInv /\ [Next]_vars => LockInv'
<1> SUFFICES ASSUME LockInv, [Next]_vars PROVE LockInv'
  OBVIOUS
<1>0. TypeOK'
  BY NextTypeOK DEF LockInv
<1>1. ASSUME NEW s \in Sessions, SessionLapse(s) PROVE LockInv'
  BY <1>0, <1>1, DeletingStepInv DEF LockInv, SessionLapse, EndSession
<1>2. ASSUME NEW w \in Wallets, RecordAges(w) PROVE LockInv'
  <2>1. \A v \in Wallets : /\ inflight'[v].attempt = inflight[v].attempt
                           /\ inflight'[v].session = inflight[v].session
    BY <1>2 DEF RecordAges, LockInv, TypeOK, Record
  <2> QED BY <1>0, <1>2, <2>1, QuietStepInv DEF LockInv, RecordAges
<1>3. ASSUME NEW w \in Wallets, CooldownElapses(w) PROVE LockInv'
  BY <1>0, <1>3, QuietStepInv DEF LockInv, CooldownElapses
<1>4. ASSUME NEW i \in Instances, SessionStep(i) PROVE LockInv'
  BY <1>0, <1>4, NewLockManagerInv, CreateSessionInv, RenewFailsInv, InstallSessionInv,
     ClosingStepInv, ExitInv DEF SessionStep
<1>5. ASSUME NEW i \in Instances, ScanStep(i) PROVE LockInv'
  BY <1>0, <1>5, CooldownOKInv DEF ScanStep
<1>6. ASSUME NEW i \in Instances, SweepStep(i) PROVE LockInv'
  <2>1. CASE SweepDelete(i)
    BY <1>0, <2>1, DeletingStepInv DEF LockInv, SweepDelete
  <2>2. CASE SweepList(i) \/ SweepDecide(i) \/ SweepFails(i)
    BY <1>0, <2>2, QuietStepInv DEF LockInv, SweepList, SweepDecide, SweepFails, consulVars
  <2> QED BY <1>6, <2>1, <2>2 DEF SweepStep
<1>7. ASSUME NEW a \in Attempts, TaskStep(a) PROVE LockInv'
  BY <1>0, <1>7, AcquireCheckInv, AcquireGrantedInv, AcquireAnswerLostInv, GiveUpInv,
     AcquireMarkInv, MarkCooldownInv, ReleaseLocalInv, ReleaseKeyInv DEF TaskStep
<1>8. CASE UNCHANGED vars
  BY <1>0, <1>8, QuietStepInv DEF LockInv, vars, consulVars
<1> QED BY <1>1, <1>2, <1>3, <1>4, <1>5, <1>6, <1>7, <1>8 DEF Next

\* The inductive invariant holds in every reachable state of the lock manager.
THEOREM LockInvariant == Spec => []LockInv
  BY InitLockInv, NextLockInv, PTL DEF Spec

\* Every variable of the lock manager keeps its type (lock.go's state, Consul's keys).
THEOREM TypeCorrect == Spec => []TypeOK
<1>1. LockInv => TypeOK
  BY DEF LockInv
<1> QED BY <1>1, LockInvariant, PTL

\* A wallet in an instance's held set has a running runReshare of that instance, whatever
\* sessions lapse, calls fail and instances crash.
THEOREM HeldAlwaysReleased == Spec => []HeldIsReleased
<1>1. LockInv => HeldIsReleased
  BY DEF LockInv
<1> QED BY <1>1, LockInvariant, PTL

\* While an attempt is in progress and unexposed, the inflight key carries its record.
THEOREM WorkIsCovered == Spec => []RecordCoversWork
<1>1. LockInv => RecordCoversWork
  BY DEF LockInv, RecordIsOwn, RecordCoversWork, Covered
<1> QED BY <1>1, LockInvariant, PTL

\* Acquire is safe: two attempts are in progress on one wallet only if one of them lost its
\* record or its held mark to another party.
THEOREM AcquireExcludes == Spec => []Exclusion
<1>1. LockInv => Exclusion
  BY DEF LockInv, RecordIsOwn, Exclusion, Covered
<1> QED BY <1>1, LockInvariant, PTL

-----------------------------------------------------------------------------
(* The manager implements WalletLock.                                       *)

\* No step but a grant gives an attempt its wallet.
Shrinks == \A a \in Attempts : Covered(a)' => Covered(a) /\ task'[a].wallet = task[a].wallet

\* Fewer holders of a wallet is a loss of the abstract lock, or a stutter.
LEMMA ShrinkIsLoss ==
  ASSUME Shrinks PROVE Lock!Lose
  BY DEF Shrinks, Lock!Lose, holders

\* Steps that leave the attempts alone, and may expose some.
LEMMA ExposingShrinks ==
  ASSUME UNCHANGED task, exposed \subseteq exposed'
  PROVE  Shrinks
  BY DEF Shrinks, Covered, InProgress

\* A grant finds the wallet free: the record it may take over belongs to no covered attempt.
LEMMA GrantFindsFree ==
  ASSUME LockInv, NEW a \in Attempts, AcquireGranted(a),
         NEW b \in Attempts, Covered(b), task[b].wallet = task[a].wallet
  PROVE  FALSE
<1>1. task[a].st = "checked" /\ task[b].st \in {"locked", "running", "marked"}
  BY DEF AcquireGranted, Covered, InProgress
<1>2. task[b].sess \in Sessions /\ task[a].sess \in Sessions
  BY <1>1 DEF LockInv, TaskShape
<1>3. inflight[task[a].wallet].session = task[b].sess
  BY DEF LockInv, RecordIsOwn
<1>4. task[b].sess = task[a].sess
  BY <1>2, <1>3, LockAssumption DEF AcquireGranted, Grantable
<1>5. task[a].inst = task[b].inst
  BY <1>2, <1>4 DEF LockInv, SessionsApart
<1>6. task[b].st # "locked"
  BY <1>1, <1>5 DEF LockInv, OneScan
<1> QED BY <1>1, <1>4, <1>5, <1>6 DEF LockInv, CheckIsSound

\* A grant is a take of the abstract lock: nobody holds the wallet.
LEMMA GrantIsTake ==
  ASSUME LockInv, NEW a \in Attempts, AcquireGranted(a)
  PROVE  Lock!Next
<1>1. /\ task[a].st = "checked" /\ task[a].wallet \in Wallets
      /\ task'[a].st = "locked" /\ task'[a].wallet = task[a].wallet
      /\ \A b \in Attempts \ {a} : task'[b] = task[b]
      /\ exposed' = exposed
  BY DEF AcquireGranted, LockInv, TypeOK, Task, TaskShape
<1>2. ~Covered(a) /\ \A b \in Attempts \ {a} : Covered(b)' <=> Covered(b)
  BY <1>1 DEF Covered, InProgress
<1>3. CASE a \in exposed
  <2>1. ~Covered(a)'
    BY <1>1, <1>3 DEF Covered
  <2>2. Shrinks
    BY <1>1, <1>2, <2>1 DEF Shrinks
  <2> QED BY <2>2, ShrinkIsLoss DEF Lock!Next
<1>4. CASE a \notin exposed
  <2>1. Covered(a)'
    BY <1>1, <1>4 DEF Covered, InProgress
  <2>2. \A b \in Attempts : Covered(b) => task[b].wallet # task[a].wallet
    BY GrantFindsFree
  <2>3. holders[task[a].wallet] = {}
    BY <1>1, <2>2 DEF holders
  <2>4. \A v \in Wallets : a \notin holders[v]
    BY <1>2 DEF holders
  <2>5. holders' = [holders EXCEPT ![task[a].wallet] = {a}]
    <3>1. \A w \in Wallets :
            {b \in Attempts : Covered(b)' /\ task'[b].wallet = w}
              = IF w = task[a].wallet THEN {a} ELSE {b \in Attempts : Covered(b) /\ task[b].wallet = w}
      BY <1>1, <1>2, <2>1, <2>2
    <3> QED BY <3>1, <1>1 DEF holders
  <2> QED BY <1>1, <2>3, <2>4, <2>5 DEF Lock!Next, Lock!Take
<1> QED BY <1>3, <1>4

\* A step of one attempt that is not a grant.
LEMMA TaskShrinks ==
  ASSUME LockInv, NEW a \in Attempts, TaskStep(a), ~AcquireGranted(a)
  PROVE  Shrinks
<1> USE DEF TypeOK, Task, IdleTask
<1>1. TypeOK
  BY DEF LockInv
<1>2. \A b \in Attempts \ {a} : task'[b] = task[b]
  BY <1>1 DEF TaskStep, AcquireCheck, AcquireAnswerLost, AcquireRefused, AcquireMark, MarkCooldown,
              ReleaseLocal, ReleaseKey, ReleaseFails
<1>3. exposed \subseteq exposed' \cup {a}
  BY <1>1 DEF TaskStep, AcquireCheck, AcquireAnswerLost, AcquireRefused, AcquireMark, MarkCooldown,
              ReleaseLocal, ReleaseKey, ReleaseFails, DeleteRecords, consulVars
<1>4. Covered(a)' => Covered(a) /\ task'[a].wallet = task[a].wallet
  <2>1. CASE AcquireMark(a) \/ MarkCooldown(a)
    BY <1>1, <2>1 DEF AcquireMark, MarkCooldown, Covered, InProgress, consulVars
  <2>2. CASE ~AcquireMark(a) /\ ~MarkCooldown(a)
    <3>1. task'[a].st \in {"idle", "checked", "released"}
      BY <1>1, <2>2 DEF TaskStep, AcquireCheck, AcquireAnswerLost, AcquireRefused,
                        ReleaseLocal, ReleaseKey, ReleaseFails
    <3> QED BY <3>1 DEF Covered, InProgress
  <2> QED BY <2>1, <2>2
<1> QED BY <1>2, <1>3, <1>4 DEF Shrinks, Covered, InProgress

\* Steps of an instance: only Exit and the gate touch attempts.
LEMMA SessionShrinks ==
  ASSUME LockInv, NEW i \in Instances, SessionStep(i)
  PROVE  Shrinks
<1>1. CASE Exit(i)
  <2>1. \A a \in Attempts : IF task[a].inst = i THEN task'[a] = IdleTask ELSE task'[a] = task[a]
    BY <1>1 DEF Exit
  <2>2. \A a \in exposed : task[a].inst # i => a \in exposed'
    BY <1>1 DEF Exit
  <2> QED BY <2>1, <2>2 DEF Shrinks, Covered, InProgress, IdleTask
<1>2. CASE ~Exit(i)
  <2>1. UNCHANGED task /\ exposed \subseteq exposed'
    BY <1>2 DEF SessionStep, NewLockManager, CreateSession, RenewFails, InstallSession, Close,
                MaintainExit, EndSession, DeleteRecords, consulVars
  <2> QED BY <2>1, ExposingShrinks
<1> QED BY <1>1, <1>2

\* The step with which a scan begins an attempt adds no holder.
LEMMA ScanShrinks ==
  ASSUME LockInv, NEW i \in Instances, ScanStep(i)
  PROVE  Shrinks
<1>1. PICK w \in Wallets, a \in Attempts : CooldownOK(i, w, a)
  BY DEF ScanStep
<1>2. /\ task'[a].st = "eligible" /\ exposed' = exposed
      /\ \A b \in Attempts \ {a} : task'[b] = task[b]
  BY <1>1 DEF CooldownOK, consulVars, LockInv, TypeOK
<1> QED BY <1>2 DEF Shrinks, Covered, InProgress

\* Every step of the lock manager is a step of the abstract lock.
LEMMA StepRefines == LockInv /\ [Next]_vars => [Lock!Next]_holders
<1> SUFFICES ASSUME LockInv, [Next]_vars PROVE Lock!Next \/ UNCHANGED holders
  OBVIOUS
<1>1. ASSUME NEW s \in Sessions, SessionLapse(s) PROVE Shrinks
  BY <1>1, ExposingShrinks DEF SessionLapse, EndSession, DeleteRecords
<1>2. ASSUME NEW w \in Wallets, RecordAges(w) \/ CooldownElapses(w) PROVE Shrinks
  BY <1>2, ExposingShrinks DEF RecordAges, CooldownElapses
<1>3. ASSUME NEW i \in Instances, SweepStep(i) PROVE Shrinks
  BY <1>3, ExposingShrinks DEF SweepStep, SweepList, SweepDecide, SweepDelete, SweepFails,
                               DeleteRecords, consulVars
<1>4. CASE UNCHANGED vars
  BY <1>4 DEF vars, consulVars, holders, Covered, InProgress
<1>5. ASSUME NEW a \in Attempts, TaskStep(a) PROVE Lock!Next
  BY <1>5, GrantIsTake, TaskShrinks, ShrinkIsLoss DEF Lock!Next
<1>6. ASSUME NEW i \in Instances, SessionStep(i) \/ ScanStep(i) PROVE Shrinks
  BY <1>6, SessionShrinks, ScanShrinks
<1> QED BY <1>1, <1>2, <1>3, <1>4, <1>5, <1>6, ShrinkIsLoss DEF Next, Lock!Next

\* The lock manager starts where the abstract lock does.
LEMMA InitRefines == Init => Lock!Init
  BY DEF Init, Lock!Init, holders, Covered, InProgress, IdleTask

\* The lock manager, with sessions, records, a sweeper and crashes, implements the lock
\* of WalletLock: a wallet goes to an attempt only while no covered attempt has it.
THEOREM LockRefines == Spec => RefinesWalletLock
  BY InitRefines, StepRefines, LockInvariant, PTL DEF Spec, RefinesWalletLock, Lock!Spec
=============================================================================
