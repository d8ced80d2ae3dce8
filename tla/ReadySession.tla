---------------------------- MODULE ReadySession ----------------------------
(***************************************************************************)
(* How a node keeps its ready/ key in Consul (pkg/mpc/dynamic_registry.go: *)
(* registerReady, maintainReadySession, Ready, Resign) over the life of    *)
(* its process (cmd/aicw-node/main.go).  The key is held through a Consul  *)
(* session that deletes it when it expires.                                *)
(*                                                                         *)
(* Procs are the successive processes of one node: each boots once, and    *)
(* only when no other one runs.  A session is a pair <<p, k>>, the k-th    *)
(* one process p creates; every registration takes a fresh session and a   *)
(* fresh epoch, so the session that holds the key stands for both.         *)
(***************************************************************************)
EXTENDS Integers

CONSTANTS
    Procs,       \* the processes of the node, one at a time
    MaxFaults,   \* bound: failed requests and lost sessions in a behaviour
    NoSession    \* the empty readySessionID, and the holder of no key

ASSUME ReadyAssumption == /\ MaxFaults \in Nat
                          /\ NoSession \notin Procs \X Nat

Sessions == Procs \X Nat

VARIABLES
    sessions,   \* sessions alive in Consul
    key,        \* the session that holds ready/<node>, or NoSession: no key
    lockDelay,  \* the key's lock-delay is running: Consul refuses Acquire
    made,       \* how many sessions each process has created
    main,       \* where the main goroutine of each process is
    pc,         \* where its registering goroutine is
    sid,        \* readySessionID of each process
    regSid,     \* the session id registerReady or maintainReadySession works on
    stopped,    \* watchStopCh is closed
    resignSid,  \* the session id Resign took; its stop channel is closed
    refused,    \* the second Acquire of the last registration was refused
    faults

consul == <<sessions, key, lockDelay>>
vars == <<sessions, key, lockDelay, made, main, pc, sid, regSid, stopped,
          resignSid, refused, faults>>

MainStates == {"new", "booting", "serving", "resigning", "deleted",
               "resigned", "dead"}
RegStates == {"create", "record", "acquire", "clear", "reacquire"}
PcStates == RegStates \cup {"off", "maintain", "read", "renew", "backoff"}

\* One type invariant: what the fields of the registry and Consul may hold.
TypeOK ==
    /\ sessions \subseteq Sessions
    /\ key \in Sessions \cup {NoSession}
    /\ lockDelay \in BOOLEAN
    /\ made \in [Procs -> Nat]
    /\ main \in [Procs -> MainStates]
    /\ pc \in [Procs -> PcStates]
    /\ sid \in [Procs -> Sessions \cup {NoSession}]
    /\ regSid \in [Procs -> Sessions \cup {NoSession}]
    /\ stopped \in [Procs -> BOOLEAN]
    /\ resignSid \in [Procs -> Sessions \cup {NoSession}]
    /\ refused \in [Procs -> BOOLEAN]
    /\ faults \in 0..MaxFaults

Init ==
    /\ sessions = {} /\ key = NoSession /\ lockDelay = FALSE
    /\ made = [p \in Procs |-> 0]
    /\ main = [p \in Procs |-> "new"]
    /\ pc = [p \in Procs |-> "off"]
    /\ sid = [p \in Procs |-> NoSession]
    /\ regSid = [p \in Procs |-> NoSession]
    /\ stopped = [p \in Procs |-> FALSE]
    /\ resignSid = [p \in Procs |-> NoSession]
    /\ refused = [p \in Procs |-> FALSE]
    /\ faults = 0

Alive(p) == main[p] \notin {"new", "dead"}
Fault == faults < MaxFaults /\ faults' = faults + 1

-----------------------------------------------------------------------------
(* Consul                                                                  *)

\* Mutant: the session is created with Behavior release, which keeps the key.
InvalidateRelease(s) ==
    /\ sessions' = sessions \ {s}
    /\ UNCHANGED <<key, lockDelay>>

\* A session ends: its key goes with it, and the key's lock-delay starts.
Invalidate(s) ==
    /\ sessions' = sessions \ {s}
    /\ key' = IF key = s THEN NoSession ELSE key
    /\ lockDelay' = (lockDelay \/ key = s)

\* Acquire refuses a key another session holds, or one in its lock-delay.
Refuses(s) == lockDelay \/ key \notin {NoSession, s}

\* A live goroutine works on the session: it is being renewed, or is younger
\* than its TTL.
InUse(s) == \E p \in Procs :
    /\ Alive(p) /\ regSid[p] = s
    /\ pc[p] \notin {"off", "backoff", "create"}

\* Consul reaps a session nobody renews.
Reap(s) ==
    /\ s \in sessions /\ ~ InUse(s)
    /\ Invalidate(s)
    /\ UNCHANGED <<made, main, pc, sid, regSid, stopped, resignSid, refused, faults>>

\* A session in use is lost all the same: a partition, a slow renewal.
Lose(s) ==
    /\ s \in sessions /\ InUse(s)
    /\ Fault
    /\ Invalidate(s)
    /\ UNCHANGED <<made, main, pc, sid, regSid, stopped, resignSid, refused>>

DelayOver ==
    /\ lockDelay /\ lockDelay' = FALSE
    /\ UNCHANGED <<sessions, key, made, main, pc, sid, regSid, stopped,
                   resignSid, refused, faults>>

-----------------------------------------------------------------------------
(* The node                                                                *)

\* runNode reaches Ready, which broadcasts and calls registerReady.
Boot(p) ==
    /\ main[p] = "new" /\ \A q \in Procs : ~ Alive(q)
    /\ main' = [main EXCEPT ![p] = "booting"]
    /\ pc' = [pc EXCEPT ![p] = "create"]
    /\ UNCHANGED <<consul, made, sid, regSid, stopped, resignSid, refused, faults>>

\* registerReady returns nil: Ready starts maintainReadySession, or the
\* maintenance loop turns.
Registered(p) ==
    /\ pc' = [pc EXCEPT ![p] = "maintain"]
    /\ main' = [main EXCEPT ![p] = IF @ = "booting" THEN "serving" ELSE @]

\* Mutant: a failed registration ends the maintenance goroutine too.
RegisterFailsQuits(p) ==
    /\ pc' = [pc EXCEPT ![p] = "off"]
    /\ main' = [main EXCEPT ![p] = IF @ = "booting" THEN "serving" ELSE @]

\* registerReady returns an error: Ready returns it, runNode logs it and goes
\* on without a maintenance goroutine; the maintenance loop backs off.
RegisterFails(p) ==
    IF main[p] = "booting"
      THEN /\ pc' = [pc EXCEPT ![p] = "off"]
           /\ main' = [main EXCEPT ![p] = "serving"]
      ELSE pc' = [pc EXCEPT ![p] = "backoff"] /\ UNCHANGED main

\* A request to Consul fails in the middle of registerReady.
RequestFails(p) ==
    /\ Alive(p) /\ pc[p] \in RegStates \ {"record"}
    /\ Fault
    /\ RegisterFails(p)
    /\ UNCHANGED <<consul, made, sid, regSid, stopped, resignSid, refused>>

\* createReadySession, the request ...
Create(p) ==
    /\ Alive(p) /\ pc[p] = "create"
    /\ sessions' = sessions \cup {<<p, made[p]>>}
    /\ regSid' = [regSid EXCEPT ![p] = <<p, made[p]>>]
    /\ made' = [made EXCEPT ![p] = @ + 1]
    /\ pc' = [pc EXCEPT ![p] = "record"]
    /\ UNCHANGED <<key, lockDelay, main, sid, stopped, resignSid, refused, faults>>

\* ... and the fields it sets under the lock, whatever Resign did meanwhile.
Record(p) ==
    /\ Alive(p) /\ pc[p] = "record"
    /\ sid' = [sid EXCEPT ![p] = regSid[p]]
    /\ pc' = [pc EXCEPT ![p] = "acquire"]
    /\ UNCHANGED <<consul, made, main, regSid, stopped, resignSid, refused, faults>>

\* The first Acquire: its boolean decides whether the stale key is cleared.
Acquire(p) ==
    /\ Alive(p) /\ pc[p] = "acquire"
    /\ \/ /\ regSid[p] \notin sessions
          /\ RegisterFails(p) /\ UNCHANGED <<key, refused>>
       \/ /\ regSid[p] \in sessions /\ Refuses(regSid[p])
          /\ pc' = [pc EXCEPT ![p] = "clear"] /\ UNCHANGED <<key, main, refused>>
       \/ /\ regSid[p] \in sessions /\ ~ Refuses(regSid[p])
          /\ key' = regSid[p]
          /\ refused' = [refused EXCEPT ![p] = FALSE]
          /\ Registered(p)
    /\ UNCHANGED <<sessions, lockDelay, made, sid, regSid, stopped, resignSid, faults>>

\* Delete of a key another session holds.
ClearStale(p) ==
    /\ Alive(p) /\ pc[p] = "clear"
    /\ key' = NoSession
    /\ pc' = [pc EXCEPT ![p] = "reacquire"]
    /\ UNCHANGED <<sessions, lockDelay, made, main, sid, regSid, stopped,
                   resignSid, refused, faults>>

\* The second Acquire: its boolean is not looked at.
Reacquire(p) ==
    /\ Alive(p) /\ pc[p] = "reacquire"
    /\ \/ /\ regSid[p] \notin sessions
          /\ RegisterFails(p) /\ UNCHANGED <<key, refused>>
       \/ /\ regSid[p] \in sessions
          /\ key' = IF Refuses(regSid[p]) THEN key ELSE regSid[p]
          /\ refused' = [refused EXCEPT ![p] = Refuses(regSid[p])]
          /\ Registered(p)
    /\ UNCHANGED <<sessions, lockDelay, made, sid, regSid, stopped, resignSid, faults>>

\* Mutant: the loop does not look at watchStopCh before it renews.
MaintainUnchecked(p) ==
    /\ Alive(p) /\ pc[p] = "maintain"
    /\ pc' = [pc EXCEPT ![p] = "read"]
    /\ UNCHANGED <<consul, made, main, sid, regSid, stopped, resignSid, refused, faults>>

\* maintainReadySession, the check of watchStopCh at the top of its loop ...
Maintain(p) ==
    /\ Alive(p) /\ pc[p] = "maintain"
    /\ pc' = [pc EXCEPT ![p] = IF stopped[p] THEN "off" ELSE "read"]
    /\ UNCHANGED <<consul, made, main, sid, regSid, stopped, resignSid, refused, faults>>

\* ... then the session id and the stop channel, read under the lock.
ReadSession(p) ==
    /\ Alive(p) /\ pc[p] = "read"
    /\ IF sid[p] = NoSession
         THEN pc' = [pc EXCEPT ![p] = "off"] /\ UNCHANGED regSid
         ELSE /\ pc' = [pc EXCEPT ![p] = "renew"]
              /\ regSid' = [regSid EXCEPT ![p] = sid[p]]
    /\ UNCHANGED <<consul, made, main, sid, stopped, resignSid, refused, faults>>

\* Whatever ends a wait, watchStopCh decides between return and registerReady.
StopOrRegister(p) ==
    pc' = [pc EXCEPT ![p] = IF stopped[p] THEN "off" ELSE "create"]

\* RenewPeriodic returns: the session has expired.
RenewExpired(p) ==
    /\ Alive(p) /\ pc[p] = "renew" /\ regSid[p] \notin sessions
    /\ StopOrRegister(p)
    /\ UNCHANGED <<consul, made, main, sid, regSid, stopped, resignSid, refused, faults>>

\* RenewPeriodic returns: Consul did not answer for a whole TTL, though the
\* session may live on.
RenewGivesUp(p) ==
    /\ Alive(p) /\ pc[p] = "renew"
    /\ Fault
    /\ StopOrRegister(p)
    /\ UNCHANGED <<consul, made, main, sid, regSid, stopped, resignSid, refused>>

\* RenewPeriodic returns: its stop channel is closed; it destroys the session.
RenewStopped(p) ==
    /\ Alive(p) /\ pc[p] = "renew" /\ resignSid[p] = regSid[p]
    /\ Invalidate(regSid[p])
    /\ StopOrRegister(p)
    /\ UNCHANGED <<made, main, sid, regSid, stopped, resignSid, refused, faults>>

\* The backoff ends, by its timer or by watchStopCh.
BackoffOver(p) ==
    /\ Alive(p) /\ pc[p] = "backoff"
    /\ StopOrRegister(p)
    /\ UNCHANGED <<consul, made, main, sid, regSid, stopped, resignSid, refused, faults>>

\* performShutdown calls Resign, which closes the channels and takes the
\* session id.  The goroutines that call it start after Ready has returned.
Shutdown(p) ==
    /\ main[p] = "serving"
    /\ main' = [main EXCEPT ![p] = "resigning"]
    /\ stopped' = [stopped EXCEPT ![p] = TRUE]
    /\ resignSid' = [resignSid EXCEPT ![p] = sid[p]]
    /\ sid' = [sid EXCEPT ![p] = NoSession]
    /\ UNCHANGED <<consul, made, pc, regSid, refused, faults>>

\* Resign deletes the key; an error is kept and the next request still made.
ResignDelete(p) ==
    /\ main[p] = "resigning"
    /\ main' = [main EXCEPT ![p] = "deleted"]
    /\ \/ key' = NoSession /\ UNCHANGED faults
       \/ Fault /\ UNCHANGED key
    /\ UNCHANGED <<sessions, lockDelay, made, pc, sid, regSid, stopped, resignSid, refused>>

\* Resign destroys the session it took, when it took one.
ResignDestroy(p) ==
    /\ main[p] = "deleted"
    /\ main' = [main EXCEPT ![p] = "resigned"]
    /\ \/ /\ IF resignSid[p] = NoSession THEN UNCHANGED consul ELSE Invalidate(resignSid[p])
          /\ UNCHANGED faults
       \/ Fault /\ UNCHANGED consul
    /\ UNCHANGED <<made, pc, sid, regSid, stopped, resignSid, refused>>

\* The consumers return and the process exits, or it crashes at any point:
\* its goroutines and its memory are gone.
Exit(p) ==
    /\ Alive(p)
    /\ main' = [main EXCEPT ![p] = "dead"]
    /\ pc' = [pc EXCEPT ![p] = "off"]
    /\ sid' = [sid EXCEPT ![p] = NoSession]
    /\ regSid' = [regSid EXCEPT ![p] = NoSession]
    /\ resignSid' = [resignSid EXCEPT ![p] = NoSession]
    /\ stopped' = [stopped EXCEPT ![p] = FALSE]
    /\ refused' = [refused EXCEPT ![p] = FALSE]
    /\ UNCHANGED <<consul, made, faults>>

-----------------------------------------------------------------------------
Register(p) == Create(p) \/ Record(p) \/ Acquire(p) \/ ClearStale(p) \/ Reacquire(p)
MaintainLoop(p) == Maintain(p) \/ ReadSession(p) \/ RenewExpired(p) \/ RenewStopped(p)
                   \/ BackoffOver(p)
Resign(p) == ResignDelete(p) \/ ResignDestroy(p)

Next ==
    \/ \E s \in sessions : Reap(s) \/ Lose(s)
    \/ DelayOver
    \/ \E p \in Procs :
         \/ Boot(p) \/ Register(p) \/ RequestFails(p) \/ MaintainLoop(p)
         \/ RenewGivesUp(p) \/ Shutdown(p) \/ Resign(p) \/ Exit(p)

\* The goroutines of a live process make progress, Consul reaps what nobody
\* renews, and a lock-delay ends.  Nothing makes a process boot, stop or exit.
Fairness ==
    /\ WF_vars(\E s \in sessions : Reap(s))
    /\ WF_vars(DelayOver)
    /\ \A p \in Procs : /\ WF_vars(Register(p)) /\ WF_vars(MaintainLoop(p))
                        /\ WF_vars(Resign(p))

Spec == Init /\ [][Next]_vars /\ Fairness

-----------------------------------------------------------------------------
Owns(p, s) == s # NoSession /\ s[1] = p
Gone(p) == main[p] \in {"resigned", "dead"}

\* A ready key is never left behind without a session that can expire.
KeyHasSession == key # NoSession => key \in sessions

\* A node that has resigned renews no session but the one whose stop channel
\* Resign closed ("bail out before renewing so the leaked session dies by TTL").
ResignedNeverRenews ==
    \A p \in Procs : stopped[p] /\ pc[p] = "renew" => regSid[p] = resignSid[p]

\* Crash, kill or shutdown retires the node from the ready set, for good,
\* whatever registration the process was in the middle of.
Retired ==
    \A p \in Procs : Gone(p) ~> [](~ Owns(p, key))

\* A serving node whose session is lost becomes ready again, unless the second
\* Acquire was refused and the answer dropped.
ReadyAgain ==
    \A p \in Procs :
      main[p] = "serving" /\ pc[p] # "off"
        ~> Owns(p, key) \/ main[p] # "serving" \/ refused[p]
=============================================================================
