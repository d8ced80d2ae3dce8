-------------------------- MODULE ReadySessionProofs --------------------------
(***************************************************************************)
(* The safety of the ready session, for every number of processes and of   *)
(* faults: the ready key never outlives its session, and a process that    *)
(* has resigned renews no session but the one Resign closed.               *)
(***************************************************************************)
EXTENDS ReadySession, TLAPS

\* The maintenance goroutine that has read its session id works on the current one,
\* until Resign takes it.
RenewsCurrent ==
    \A p \in Procs : pc[p] = "renew" /\ ~ stopped[p] => regSid[p] = sid[p]

\* The goroutine passed the check of watchStopCh before Resign: it finds no session.
ReadsNothing ==
    \A p \in Procs : pc[p] = "read" /\ stopped[p] => sid[p] = NoSession

\* Resign is called once, by performShutdown.
ServesUnstopped ==
    \A p \in Procs : main[p] \in {"new", "booting", "serving"} => ~ stopped[p]

ReadyInv == /\ TypeOK /\ KeyHasSession /\ ResignedNeverRenews
            /\ RenewsCurrent /\ ReadsNothing /\ ServesUnstopped

-----------------------------------------------------------------------------
\* The node starts without a process, a session or a key.
LEMMA InitReadyInv == Init => ReadyInv
<1> SUFFICES ASSUME Init PROVE ReadyInv
  OBVIOUS
<1>1. TypeOK
  <2>1. /\ made \in [Procs -> Nat] /\ main \in [Procs -> MainStates]
        /\ pc \in [Procs -> PcStates] /\ faults \in 0..MaxFaults
    BY ReadyAssumption DEF Init, MainStates, PcStates
  <2>2. /\ sid \in [Procs -> Sessions \cup {NoSession}] /\ regSid \in [Procs -> Sessions \cup {NoSession}]
        /\ resignSid \in [Procs -> Sessions \cup {NoSession}]
        /\ sessions \subseteq Sessions /\ key \in Sessions \cup {NoSession}
    BY DEF Init
  <2>3. lockDelay \in BOOLEAN /\ stopped \in [Procs -> BOOLEAN] /\ refused \in [Procs -> BOOLEAN]
    BY DEF Init
  <2> QED BY <2>1, <2>2, <2>3 DEF TypeOK
<1>2. KeyHasSession
  BY DEF Init, KeyHasSession
<1>3. \A p \in Procs : pc[p] = "off" /\ ~ stopped[p]
  BY DEF Init
<1> QED BY <1>1, <1>2, <1>3
        DEF ReadyInv, ResignedNeverRenews, RenewsCurrent, ReadsNothing, ServesUnstopped

\* Type correctness, one step per group of actions.
LEMMA FaultType ==
  ASSUME TypeOK, Fault PROVE faults' \in 0..MaxFaults
  BY ReadyAssumption DEF TypeOK, Fault

\* Ending a session leaves Consul's state well typed.
LEMMA InvalidateType ==
  ASSUME TypeOK, NEW s, Invalidate(s)
  PROVE  /\ sessions' \subseteq Sessions /\ key' \in Sessions \cup {NoSession}
         /\ lockDelay' \in BOOLEAN
  BY DEF TypeOK, Invalidate

\* Every step of a process or of Consul keeps the types.
LEMMA StepType == TypeOK /\ [Next]_vars => TypeOK'
<1> SUFFICES ASSUME TypeOK, [Next]_vars PROVE TypeOK'
  OBVIOUS
<1> USE DEF TypeOK
<1>1. ASSUME NEW s \in sessions, Reap(s) \/ Lose(s) PROVE TypeOK'
  BY <1>1, InvalidateType, FaultType DEF Reap, Lose
<1>2. CASE DelayOver
  BY <1>2 DEF DelayOver
<1>3. ASSUME NEW p \in Procs, Boot(p) PROVE TypeOK'
  BY <1>3 DEF Boot, MainStates, PcStates, RegStates, consul
<1>4. ASSUME NEW p \in Procs, RequestFails(p) PROVE TypeOK'
  <2>1. pc' \in [Procs -> PcStates] /\ main' \in [Procs -> MainStates]
    BY <1>4 DEF RequestFails, RegisterFails, MainStates, PcStates
  <2> QED BY <1>4, <2>1, FaultType DEF RequestFails, consul
<1>5. ASSUME NEW p \in Procs, Create(p) PROVE TypeOK'
  <2>1. <<p, made[p]>> \in Sessions /\ made' \in [Procs -> Nat]
    BY <1>5 DEF Create, Sessions
  <2> QED BY <1>5, <2>1 DEF Create, PcStates, RegStates
<1>6. ASSUME NEW p \in Procs, Record(p) PROVE TypeOK'
  BY <1>6 DEF Record, PcStates, RegStates, consul
<1>7. ASSUME NEW p \in Procs, Acquire(p) \/ Reacquire(p) PROVE TypeOK'
  <2>1. /\ pc' \in [Procs -> PcStates] /\ main' \in [Procs -> MainStates]
        /\ key' \in Sessions \cup {NoSession}
    BY <1>7 DEF Acquire, Reacquire, RegisterFails, Registered, MainStates, PcStates, RegStates
  <2>2. Refuses(regSid[p]) \in BOOLEAN
    BY DEF Refuses
  <2>3. refused' \in [Procs -> BOOLEAN]
    BY <1>7, <2>2 DEF Acquire, Reacquire
  <2> QED BY <1>7, <2>1, <2>3 DEF Acquire, Reacquire
<1>8. ASSUME NEW p \in Procs, ClearStale(p) PROVE TypeOK'
  BY <1>8 DEF ClearStale, PcStates, RegStates
<1>9. ASSUME NEW p \in Procs, MaintainLoop(p) \/ RenewGivesUp(p) PROVE TypeOK'
  <2>1. pc' \in [Procs -> PcStates]
    BY <1>9 DEF MaintainLoop, Maintain, ReadSession, RenewExpired, RenewStopped, BackoffOver,
                RenewGivesUp, StopOrRegister, PcStates, RegStates
  <2>2. regSid' \in [Procs -> Sessions \cup {NoSession}]
    BY <1>9 DEF MaintainLoop, Maintain, ReadSession, RenewExpired, RenewStopped, BackoffOver,
                RenewGivesUp
  <2>3. CASE RenewStopped(p)
    BY <2>1, <2>2, <2>3, InvalidateType DEF RenewStopped
  <2>4. CASE RenewGivesUp(p)
    BY <2>1, <2>2, <2>4, FaultType DEF RenewGivesUp, consul
  <2> QED BY <1>9, <2>1, <2>2, <2>3, <2>4
          DEF MaintainLoop, Maintain, ReadSession, RenewExpired, BackoffOver, consul
<1>10. ASSUME NEW p \in Procs, Shutdown(p) \/ Exit(p) PROVE TypeOK'
  BY <1>10 DEF Shutdown, Exit, MainStates, PcStates, consul
<1>11. ASSUME NEW p \in Procs, Resign(p) PROVE TypeOK'
  <2>1. CASE ResignDelete(p)
    BY <2>1, FaultType DEF ResignDelete, MainStates
  <2>2. CASE ResignDestroy(p)
    <3>1. /\ sessions' \subseteq Sessions /\ key' \in Sessions \cup {NoSession}
          /\ lockDelay' \in BOOLEAN
      BY <2>2, InvalidateType DEF ResignDestroy, consul
    <3> QED BY <2>2, <3>1, FaultType DEF ResignDestroy, MainStates
  <2> QED BY <1>11, <2>1, <2>2 DEF Resign
<1>12. CASE UNCHANGED vars
  BY <1>12 DEF vars
<1> QED BY <1>1, <1>2, <1>3, <1>4, <1>5, <1>6, <1>7, <1>8, <1>9, <1>10, <1>11, <1>12
        DEF Next, Register

-----------------------------------------------------------------------------
\* The end of a session takes its key along.
LEMMA InvalidateKey ==
  ASSUME KeyHasSession, NEW s, Invalidate(s) PROVE KeyHasSession'
  BY DEF KeyHasSession, Invalidate

\* Every step keeps the ready key with a live session.
LEMMA StepKey == TypeOK /\ KeyHasSession /\ [Next]_vars => KeyHasSession'
<1> SUFFICES ASSUME TypeOK, KeyHasSession, [Next]_vars PROVE KeyHasSession'
  OBVIOUS
<1>1. ASSUME NEW s \in sessions, Reap(s) \/ Lose(s) PROVE KeyHasSession'
  BY <1>1, InvalidateKey DEF Reap, Lose
<1>2. ASSUME NEW p \in Procs, RenewStopped(p) PROVE KeyHasSession'
  BY <1>2, InvalidateKey DEF RenewStopped
<1>3. ASSUME NEW p \in Procs, ResignDestroy(p) PROVE KeyHasSession'
  BY <1>3, InvalidateKey DEF ResignDestroy, consul, KeyHasSession
<1>4. ASSUME NEW p \in Procs, Acquire(p) \/ Reacquire(p) PROVE KeyHasSession'
  BY <1>4 DEF Acquire, Reacquire, KeyHasSession
<1>5. ASSUME NEW p \in Procs, Create(p) \/ ClearStale(p) \/ ResignDelete(p) PROVE KeyHasSession'
  BY <1>5 DEF Create, ClearStale, ResignDelete, KeyHasSession
<1>6. ASSUME UNCHANGED <<sessions, key>> PROVE KeyHasSession'
  BY <1>6 DEF KeyHasSession
<1> QED BY <1>1, <1>2, <1>3, <1>4, <1>5, <1>6
        DEF Next, Register, MaintainLoop, Resign, vars, consul, DelayOver, Boot, Record,
            RequestFails, Maintain, ReadSession, RenewExpired, BackoffOver, RenewGivesUp,
            Shutdown, Exit

-----------------------------------------------------------------------------
Renewals == ResignedNeverRenews /\ RenewsCurrent /\ ReadsNothing

\* A step that moves the goroutine of p somewhere but to "read" or "renew", and leaves its
\* session ids and those of the other processes alone.
LEMMA MovesElsewhere ==
  ASSUME TypeOK, Renewals, NEW p \in Procs,
         pc'[p] \notin {"read", "renew"},
         \A q \in Procs \ {p} : /\ pc'[q] = pc[q] /\ sid'[q] = sid[q] /\ regSid'[q] = regSid[q]
                                /\ stopped'[q] = stopped[q] /\ resignSid'[q] = resignSid[q]
  PROVE  Renewals'
  BY DEF Renewals, ResignedNeverRenews, RenewsCurrent, ReadsNothing

\* Every step keeps a serving node one whose maintenance was not stopped.
LEMMA StepUnstopped == TypeOK /\ ServesUnstopped /\ [Next]_vars => ServesUnstopped'
<1> SUFFICES ASSUME TypeOK, ServesUnstopped, [Next]_vars PROVE ServesUnstopped'
  OBVIOUS
<1> USE DEF TypeOK, ServesUnstopped
<1>1. ASSUME UNCHANGED <<main, stopped>> PROVE ServesUnstopped'
  BY <1>1
<1>2. ASSUME NEW p \in Procs, Boot(p) PROVE ServesUnstopped'
  BY <1>2 DEF Boot
<1>3. ASSUME NEW p \in Procs, Register(p) \/ RequestFails(p) PROVE ServesUnstopped'
  BY <1>3 DEF Register, RequestFails, Create, Record, Acquire, ClearStale, Reacquire, Registered,
              RegisterFails
<1>4. ASSUME NEW p \in Procs, Shutdown(p) \/ Resign(p) \/ Exit(p) PROVE ServesUnstopped'
  BY <1>4 DEF Shutdown, Resign, ResignDelete, ResignDestroy, Exit
<1> QED BY <1>1, <1>2, <1>3, <1>4
        DEF Next, MaintainLoop, vars, DelayOver, Reap, Lose, Maintain, ReadSession, RenewExpired,
            RenewStopped, BackoffOver, RenewGivesUp

\* Every step keeps what the maintenance goroutine may still renew.
LEMMA StepRenewals == TypeOK /\ ServesUnstopped /\ Renewals /\ [Next]_vars => Renewals'
<1> SUFFICES ASSUME TypeOK, ServesUnstopped, Renewals, [Next]_vars PROVE Renewals'
  OBVIOUS
<1>1. ASSUME UNCHANGED <<pc, sid, regSid, stopped, resignSid>> PROVE Renewals'
  BY <1>1 DEF Renewals, ResignedNeverRenews, RenewsCurrent, ReadsNothing
<1>2. ASSUME NEW p \in Procs, Register(p) \/ RequestFails(p) \/ Boot(p) PROVE Renewals'
  <2>1. pc'[p] \notin {"read", "renew"}
    BY <1>2 DEF TypeOK, Register, RequestFails, Boot, Create, Record, Acquire, ClearStale, Reacquire,
                Registered, RegisterFails
  <2>2. \A q \in Procs \ {p} : /\ pc'[q] = pc[q] /\ sid'[q] = sid[q] /\ regSid'[q] = regSid[q]
                               /\ stopped'[q] = stopped[q] /\ resignSid'[q] = resignSid[q]
    BY <1>2 DEF TypeOK, Register, RequestFails, Boot, Create, Record, Acquire, ClearStale, Reacquire,
                Registered, RegisterFails
  <2> QED BY <2>1, <2>2, MovesElsewhere
<1>3. ASSUME NEW p \in Procs, RenewExpired(p) \/ RenewStopped(p) \/ BackoffOver(p) \/ RenewGivesUp(p)
                              \/ Exit(p)
      PROVE  Renewals'
  <2>1. pc'[p] \notin {"read", "renew"}
    BY <1>3 DEF TypeOK, RenewExpired, RenewStopped, BackoffOver, RenewGivesUp, StopOrRegister, Exit
  <2>2. \A q \in Procs \ {p} : /\ pc'[q] = pc[q] /\ sid'[q] = sid[q] /\ regSid'[q] = regSid[q]
                               /\ stopped'[q] = stopped[q] /\ resignSid'[q] = resignSid[q]
    BY <1>3 DEF TypeOK, RenewExpired, RenewStopped, BackoffOver, RenewGivesUp, StopOrRegister, Exit
  <2> QED BY <2>1, <2>2, MovesElsewhere
<1>4. ASSUME NEW p \in Procs, Maintain(p) PROVE Renewals'
  BY <1>4 DEF Maintain, TypeOK, Renewals, ResignedNeverRenews, RenewsCurrent, ReadsNothing
<1>5. ASSUME NEW p \in Procs, ReadSession(p) PROVE Renewals'
  <2>1. stopped[p] => sid[p] = NoSession
    BY <1>5 DEF ReadSession, Renewals, ReadsNothing
  <2> QED BY <1>5, <2>1
          DEF ReadSession, TypeOK, Renewals, ResignedNeverRenews, RenewsCurrent, ReadsNothing
\* Resign finds the renewal at work on the session it takes.
<1>6. ASSUME NEW p \in Procs, Shutdown(p) PROVE Renewals'
  <2>1. pc[p] = "renew" => regSid[p] = resignSid'[p]
    BY <1>6 DEF Shutdown, TypeOK, ServesUnstopped, Renewals, RenewsCurrent
  <2> QED BY <1>6, <2>1
          DEF Shutdown, TypeOK, Renewals, ResignedNeverRenews, RenewsCurrent, ReadsNothing
<1> QED BY <1>1, <1>2, <1>3, <1>4, <1>5, <1>6
        DEF Next, MaintainLoop, Resign, vars, DelayOver, Reap, Lose, ResignDelete, ResignDestroy

-----------------------------------------------------------------------------
\* The inductive invariant holds in every state of every behaviour.
THEOREM ReadyInvariant == Spec => []ReadyInv
<1>1. ReadyInv /\ [Next]_vars => ReadyInv'
  BY StepType, StepKey, StepUnstopped, StepRenewals DEF ReadyInv, Renewals
<1> QED BY InitReadyInv, <1>1, PTL DEF Spec

\* The fields of the registry and of Consul keep their types.
THEOREM TypeCorrect == Spec => []TypeOK
  BY ReadyInvariant, PTL DEF ReadyInv

\* registerReady never publishes a ready key that no session can take away again.
THEOREM KeyNeverOutlives == Spec => []KeyHasSession
  BY ReadyInvariant, PTL DEF ReadyInv

\* maintainReadySession never renews a session after Resign, but the one Resign closed.
THEOREM RenewalsEnd == Spec => []ResignedNeverRenews
  BY ReadyInvariant, PTL DEF ReadyInv
=============================================================================
