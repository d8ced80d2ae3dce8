----------------------------- MODULE KeyExchange -----------------------------
(***************************************************************************)
(* How the nodes of a cluster keep pairwise symmetric keys while they      *)
(* restart with fresh ephemeral DH keys: the readiness watch, the rejoin   *)
(* handler and the periodic broadcast of pkg/mpc/dynamic_registry.go over  *)
(* pkg/mpc/dynamic_ecdh_session.go.                                        *)
(*                                                                         *)
(* Every node runs the same code.  Time is counted in rounds, one broadcast*)
(* period (3 s) each: in a round every live node looks at the ready keys,  *)
(* its handlers finish and its broadcast loop ticks once, in any order.  A *)
(* broadcast reaches each live node at once or is lost on the way to it.   *)
(***************************************************************************)
EXTENDS Integers, FiniteSets

CONSTANTS
    Nodes,
    GraceRounds,  \* ECDHGracePeriod in broadcast periods (10 in the code)
    GateRounds,   \* the ceremony gate's budget in broadcast periods (40)
    MaxRestarts,  \* bound: restarts of nodes in a behaviour
    MaxLost       \* bound: broadcasts the messaging layer loses

ASSUME KeyExchangeAssumption ==
    /\ IsFiniteSet(Nodes)
    /\ GraceRounds \in Nat \ {0} /\ GateRounds \in Nat \ {0}
    /\ MaxRestarts \in Nat /\ MaxLost \in Nat

VARIABLES
    inc,       \* incarnation of each node, 0 when it is down: its DH key and epoch
    last,      \* its highest incarnation so far
    readyKV,   \* ready/<node> in Consul: the epoch published, 0 when absent
    seen,      \* seen[n][m]: readyMap and readyEpoch of m at n, 0 when not ready
    symKey,    \* symKey[n][m]: the incarnation of m that n's key was derived from
    tasks,     \* tasks[n]: handleECDHRejoin goroutines, as <<peer, next step>>
    loop,      \* periodicECDHBroadcast of each node
    grace,     \* broadcast periods left of its grace period
    gate,      \* EnsureCeremonyReady of each node, for the committee of all nodes
    left,      \* broadcast periods left to that gate
    done,      \* <<n, what>>: what n has done in this round
    unresumed, \* history: a loop in its grace period or ending was left as it was
    restarts, lost

vars == <<inc, last, readyKV, seen, symKey, tasks, loop, grace, gate, left,
          done, unresumed, restarts, lost>>

Up(n) == inc[n] # 0
Peers(n) == Nodes \ {n}
Steps == {"add", "resume"}

\* One type invariant: incarnations are bounded by the restarts allowed.
TypeOK ==
    LET Incs == 0..(MaxRestarts + 1) IN
    /\ inc \in [Nodes -> Incs] /\ last \in [Nodes -> Incs]
    /\ readyKV \in [Nodes -> Incs]
    /\ seen \in [Nodes -> [Nodes -> Incs]] /\ symKey \in [Nodes -> [Nodes -> Incs]]
    /\ tasks \in [Nodes -> SUBSET (Nodes \X Steps)]
    /\ loop \in [Nodes -> {"off", "active", "grace", "stopping"}]
    /\ grace \in [Nodes -> 0..GraceRounds]
    /\ gate \in [Nodes -> {"idle", "waiting", "passed", "failed"}]
    /\ left \in [Nodes -> 0..GateRounds]
    /\ done \subseteq (Nodes \X {"check", "tick"})
    /\ unresumed \in BOOLEAN
    /\ restarts \in 0..MaxRestarts /\ lost \in 0..MaxLost

Nothing == [n \in Nodes |-> 0]

\* A running cluster whose first exchange is over: every pair has keys, and a
\* loop has ended or is somewhere in its grace period.
Init ==
    /\ inc = [n \in Nodes |-> 1] /\ last = inc /\ readyKV = inc
    /\ seen = [n \in Nodes |-> [m \in Nodes |-> IF m = n THEN 0 ELSE 1]]
    /\ symKey = seen
    /\ tasks = [n \in Nodes |-> {}]
    /\ loop \in [Nodes -> {"off", "grace"}]
    /\ grace \in [Nodes -> 0..GraceRounds]
    /\ \A n \in Nodes : loop[n] = "off" => grace[n] = 0
    /\ gate = [n \in Nodes |-> "idle"] /\ left = Nothing
    /\ done = {} /\ unresumed = FALSE /\ restarts = 0 /\ lost = 0

\* BroadcastPublicKey of node n, incarnation i, when the keys are held: publish
\* and subscribe, so a node that is down hears nothing and one that is up may
\* miss it.  The inner session derives a key from what it receives, from any
\* peer, and does not answer.
Broadcast(n, i, held) ==
    LET Listening == {m \in Peers(n) : Up(m)}
    IN  \E H \in SUBSET Listening :
          /\ lost' = lost + Cardinality(Listening \ H) /\ lost' <= MaxLost
          /\ symKey' = [m \in Nodes |-> IF m \in H THEN [held[m] EXCEPT ![n] = i]
                                                  ELSE held[m]]

\* GetMeshCompletedKeyCount >= GetMeshExpectedPeerCount > 0.
MeshComplete(n) == Peers(n) # {} /\ \A m \in Peers(n) : symKey[n][m] # 0

\* ensurePeriodicECDHBroadcast: the CAS starts a loop when none is marked running.
EnsureLoop(n) ==
    /\ loop' = [loop EXCEPT ![n] = IF @ = "off" THEN "active" ELSE @]
    /\ unresumed' = (unresumed \/ loop[n] \in {"grace", "stopping"})

-----------------------------------------------------------------------------
(* Starting and stopping a node                                            *)

\* Ready: listen, broadcast, start the loop, publish the ready key with a fresh
\* epoch.  InitializeWithPeers has put every known peer in the session.
Start(n) ==
    /\ ~ Up(n)
    /\ inc' = [inc EXCEPT ![n] = last[n] + 1]
    /\ last' = [last EXCEPT ![n] = @ + 1]
    /\ readyKV' = [readyKV EXCEPT ![n] = last[n] + 1]
    /\ Broadcast(n, last[n] + 1, symKey)
    /\ EnsureLoop(n)
    /\ UNCHANGED <<seen, tasks, grace, gate, left, done, restarts>>

\* A node stops: all it holds in memory is gone, and Resign deletes its ready
\* key; a crash leaves the key.
Stop(n) ==
    /\ Up(n) /\ restarts < MaxRestarts
    /\ restarts' = restarts + 1
    /\ inc' = [inc EXCEPT ![n] = 0]
    /\ readyKV' \in {readyKV, [readyKV EXCEPT ![n] = 0]}
    /\ seen' = [seen EXCEPT ![n] = Nothing]
    /\ symKey' = [symKey EXCEPT ![n] = Nothing]
    /\ tasks' = [tasks EXCEPT ![n] = {}]
    /\ loop' = [loop EXCEPT ![n] = "off"] /\ grace' = [grace EXCEPT ![n] = 0]
    /\ gate' = [gate EXCEPT ![n] = "idle"] /\ left' = [left EXCEPT ![n] = 0]
    /\ done' = {d \in done : d[1] # n}
    /\ UNCHANGED <<last, unresumed, lost>>

\* The session of a crashed node expires and Consul deletes its ready key.
Reap(n) ==
    /\ ~ Up(n) /\ readyKV[n] # 0
    /\ readyKV' = [readyKV EXCEPT ![n] = 0]
    /\ UNCHANGED <<inc, last, seen, symKey, tasks, loop, grace, gate, left,
                   done, unresumed, restarts, lost>>

-----------------------------------------------------------------------------
(* The readiness watch and the rejoin handler                              *)

\* Mutant: only a peer that was not ready before is a rejoin.
RejoinedIfUnready(n) == {m \in Peers(n) : readyKV[m] # 0 /\ seen[n][m] = 0}

\* A peer that became ready, or published another epoch, is handled as a rejoin.
Rejoined(n) == {m \in Peers(n) : readyKV[m] # 0 /\ seen[n][m] # readyKV[m]}

\* checkPeerReadiness: a peer that is no longer ready loses its key.
CheckPeerReadiness(n) ==
    /\ Up(n) /\ <<n, "check">> \notin done
    /\ done' = done \cup {<<n, "check">>}
    /\ tasks' = [tasks EXCEPT ![n] = @ \cup {<<m, "add">> : m \in Rejoined(n)}]
    /\ symKey' = [symKey EXCEPT ![n] =
                    [m \in Nodes |-> IF m # n /\ readyKV[m] = 0 /\ seen[n][m] # 0
                                       THEN 0 ELSE @[m]]]
    /\ seen' = [seen EXCEPT ![n] = [m \in Nodes |-> IF m = n THEN 0 ELSE readyKV[m]]]
    /\ UNCHANGED <<inc, last, readyKV, loop, grace, gate, left, unresumed, restarts, lost>>

Rest == <<inc, last, readyKV, seen, grace, gate, left, done, restarts>>

\* Mutant: the rejoin handler broadcasts but keeps the key it holds.
RejoinAddKeeps(n, m) ==
    /\ <<m, "add">> \in tasks[n]
    /\ tasks' = [tasks EXCEPT ![n] = (@ \ {<<m, "add">>}) \cup {<<m, "resume">>}]
    /\ Broadcast(n, inc[n], symKey)
    /\ UNCHANGED <<Rest, loop, unresumed>>

\* handleECDHRejoin, its start: RemoveSymmetricKey, then AddPeer of a peer the
\* session knows, which removes the key once more and broadcasts.
RejoinAdd(n, m) ==
    /\ <<m, "add">> \in tasks[n]
    /\ tasks' = [tasks EXCEPT ![n] = (@ \ {<<m, "add">>}) \cup {<<m, "resume">>}]
    /\ Broadcast(n, inc[n], [symKey EXCEPT ![n][m] = 0])
    /\ UNCHANGED <<Rest, loop, unresumed>>

\* handleECDHRejoin, its end: the loop is started unless one is marked running,
\* and a last broadcast.
RejoinResume(n, m) ==
    /\ <<m, "resume">> \in tasks[n]
    /\ tasks' = [tasks EXCEPT ![n] = @ \ {<<m, "resume">>}]
    /\ EnsureLoop(n)
    /\ Broadcast(n, inc[n], symKey)
    /\ UNCHANGED Rest

-----------------------------------------------------------------------------
(* The broadcast loop                                                      *)

\* A tick with keys missing: broadcast, and forget a grace period.
TickIncomplete(n) ==
    /\ ~ MeshComplete(n)
    /\ loop' = [loop EXCEPT ![n] = "active"] /\ grace' = [grace EXCEPT ![n] = 0]
    /\ Broadcast(n, inc[n], symKey)

\* Mutant: the loop returns as soon as its own keys are complete.
TickNoGrace(n) ==
    /\ MeshComplete(n)
    /\ loop' = [loop EXCEPT ![n] = "stopping"]
    /\ UNCHANGED <<grace, symKey, lost>>

\* Mutant: the deadline of the grace period is never looked at.
TickNoDeadline(n) ==
    /\ MeshComplete(n)
    /\ loop' = [loop EXCEPT ![n] = "grace"]
    /\ grace' = [grace EXCEPT ![n] = IF loop[n] = "active" THEN GraceRounds ELSE @ - 1]
    /\ Broadcast(n, inc[n], symKey)

\* A tick with all keys: the grace period starts, goes on, or is over; when it
\* is over the loop returns without a broadcast.
TickComplete(n) ==
    /\ MeshComplete(n)
    /\ \/ /\ loop[n] = "active"
          /\ loop' = [loop EXCEPT ![n] = "grace"]
          /\ grace' = [grace EXCEPT ![n] = GraceRounds]
          /\ Broadcast(n, inc[n], symKey)
       \/ /\ loop[n] = "grace" /\ grace[n] > 0
          /\ grace' = [grace EXCEPT ![n] = @ - 1]
          /\ Broadcast(n, inc[n], symKey)
          /\ UNCHANGED loop
       \/ /\ loop[n] = "grace" /\ grace[n] = 0
          /\ loop' = [loop EXCEPT ![n] = "stopping"]
          /\ UNCHANGED <<grace, symKey, lost>>

Tick(n) ==
    /\ loop[n] \in {"active", "grace"} /\ <<n, "tick">> \notin done
    /\ done' = done \cup {<<n, "tick">>}
    /\ TickIncomplete(n) \/ TickComplete(n)
    /\ UNCHANGED <<inc, last, readyKV, seen, tasks, gate, left, unresumed, restarts>>

\* The deferred store of ecdhBroadcastRunning.
LoopStored(n) ==
    /\ loop[n] = "stopping"
    /\ loop' = [loop EXCEPT ![n] = "off"]
    /\ UNCHANGED <<Rest, symKey, tasks, unresumed, lost>>

-----------------------------------------------------------------------------
\* Every node is up and no restart is left.
Settled == restarts = MaxRestarts /\ \A n \in Nodes : Up(n)

(* The ceremony gate, in committee mode                                    *)

\* EnsureCeremonyReady, its start: EnsureCeremonyECDH restarts the loop and
\* EnsureECDH broadcasts.
GateStart(n) ==
    /\ Settled /\ gate[n] = "idle"
    /\ gate' = [gate EXCEPT ![n] = "waiting"] /\ left' = [left EXCEPT ![n] = GateRounds]
    /\ EnsureLoop(n)
    /\ Broadcast(n, inc[n], symKey)
    /\ UNCHANGED <<inc, last, readyKV, seen, tasks, grace, done, restarts>>

\* AreCeremonyReady: every member is ready and has a key here.
AreCeremonyReady(n) == \A m \in Peers(n) : seen[n][m] # 0 /\ symKey[n][m] # 0

GateEnds(n) ==
    /\ gate[n] = "waiting"
    /\ \/ AreCeremonyReady(n) /\ gate' = [gate EXCEPT ![n] = "passed"]
       \/ /\ ~ AreCeremonyReady(n) /\ left[n] = 0
          /\ gate' = [gate EXCEPT ![n] = "failed"]
    /\ left' = [left EXCEPT ![n] = 0]
    /\ UNCHANGED <<inc, last, readyKV, seen, symKey, tasks, loop, grace, done,
                   unresumed, restarts, lost>>

-----------------------------------------------------------------------------
\* What must have happened before the next broadcast period.
RoundOver ==
    /\ \A n \in Nodes : Up(n) =>
         /\ <<n, "check">> \in done /\ tasks[n] = {}
         /\ loop[n] # "stopping" /\ (loop[n] # "off" => <<n, "tick">> \in done)
         /\ (gate[n] = "waiting" => left[n] > 0 /\ ~ AreCeremonyReady(n))

NextRound ==
    /\ RoundOver
    /\ done' = {}
    /\ left' = [n \in Nodes |-> IF gate[n] = "waiting" THEN left[n] - 1 ELSE left[n]]
    /\ UNCHANGED <<inc, last, readyKV, seen, symKey, tasks, loop, grace, gate,
                   unresumed, restarts, lost>>

NodeStep(n) ==
    \/ CheckPeerReadiness(n) \/ Tick(n) \/ LoopStored(n) \/ GateEnds(n)
    \/ \E m \in Peers(n) : RejoinAdd(n, m) \/ RejoinResume(n, m)

Next ==
    \/ \E n \in Nodes : Start(n) \/ Stop(n) \/ Reap(n) \/ GateStart(n) \/ NodeStep(n)
    \/ NextRound

\* Every round ends: the tickers fire, the handlers run, messages arrive.  A
\* node that stopped is started again.
Fairness ==
    /\ \A n \in Nodes : WF_vars(NodeStep(n)) /\ WF_vars(Start(n))
    /\ WF_vars(NextRound)

Spec == Init /\ [][Next]_vars /\ Fairness

-----------------------------------------------------------------------------
\* No stale key outlives a handled rejoin: once n knows the epoch m runs with and its
\* handler has begun, the key n has for m, if any, is of that incarnation, whatever
\* restarts, checks and broadcasts came in between.
HandledIsFresh ==
    \A n \in Nodes, m \in Nodes :
      n # m /\ Up(m) /\ seen[n][m] = inc[m] /\ <<m, "add">> \notin tasks[n]
        => symKey[n][m] \in {0, inc[m]}

MeshCurrent ==
    \A n \in Nodes, m \in Nodes : n # m => symKey[n][m] = inc[m]

\* The key exchange converges: once nodes stop restarting, every pair holds keys
\* derived from each other's current DH key, whatever order the watches, handlers
\* and loops ran in and whatever was lost, unless a loop that had to be resumed
\* was found in its grace period or ending.
MeshHeals == Settled ~> MeshCurrent \/ unresumed

\* The same without the exception: a rejoin resumes broadcasting "even if the
\* broadcast loop is still running", "or be in grace".  It does not hold.
MeshAlwaysHeals == Settled ~> MeshCurrent

\* A ceremony gate that every node enters is passed by every node, whatever keys
\* the restarts before it left missing, with the same exception.
CeremonyHeals ==
    Settled /\ (\A n \in Nodes : gate[n] = "waiting")
      ~> (\A n \in Nodes : gate[n] = "passed") \/ unresumed
=============================================================================
