-------------------------- MODULE KeyExchangeProofs --------------------------
(***************************************************************************)
(* The key exchange of any number of nodes, with any number of restarts    *)
(* and lost broadcasts: its state is well typed, and a handled rejoin      *)
(* leaves no key of an earlier incarnation.                                *)
(***************************************************************************)
EXTENDS KeyExchange, FiniteSetTheorems, TLAPS

Incs == 0..(MaxRestarts + 1)

\* Incarnations only grow, one per restart, and nobody knows one that has not begun.
Bounded ==
    \A n \in Nodes :
      /\ last[n] <= restarts + 1 /\ (~ Up(n) => last[n] <= restarts)
      /\ inc[n] <= last[n] /\ readyKV[n] <= last[n]
      /\ \A m \in Nodes : seen[m][n] <= last[n] /\ symKey[m][n] <= last[n]

\* A gate waits on a running node only.
GateUp == \A n \in Nodes : gate[n] = "waiting" => Up(n)

KeyInv == TypeOK /\ Bounded /\ GateUp /\ HandledIsFresh

-----------------------------------------------------------------------------
\* What a broadcast of n may do to the keys: nobody but its peers hears it, and they
\* know n by incarnation i afterwards or as they did.
LEMMA BroadcastKeys ==
    ASSUME NEW n \in Nodes, NEW i \in Incs, NEW held \in [Nodes -> [Nodes -> Incs]],
           lost \in 0..MaxLost, Broadcast(n, i, held)
    PROVE  /\ symKey' \in [Nodes -> [Nodes -> Incs]]
           /\ lost' \in 0..MaxLost
           /\ \A l, m \in Nodes : symKey'[l][m] = held[l][m] \/ (m = n /\ l # n /\ symKey'[l][m] = i)
<1> DEFINE Listening == {m \in Peers(n) : Up(m)}
<1>1. PICK H \in SUBSET Listening :
        /\ lost' = lost + Cardinality(Listening \ H) /\ lost' <= MaxLost
        /\ symKey' = [m \in Nodes |-> IF m \in H THEN [held[m] EXCEPT ![n] = i] ELSE held[m]]
  BY DEF Broadcast
<1>2. Cardinality(Listening \ H) \in Nat
  <2>1. Listening \ H \subseteq Nodes
    BY DEF Peers
  <2> QED
    BY <2>1, KeyExchangeAssumption, FS_Subset, FS_CardinalityType
<1>3. lost' \in 0..MaxLost
  BY <1>1, <1>2, KeyExchangeAssumption
<1>4. n \notin H
  BY DEF Peers
<1>5. symKey' \in [Nodes -> [Nodes -> Incs]]
  BY <1>1
<1>6. \A l, m \in Nodes : symKey'[l][m] = held[l][m] \/ (m = n /\ l # n /\ symKey'[l][m] = i)
  BY <1>1, <1>4
<1> QED
  BY <1>3, <1>5, <1>6

\* The incarnations are numbers, and none is above the last one begun.
LEMMA Incarnations ==
    ASSUME KeyInv
    PROVE  /\ inc \in [Nodes -> Incs] /\ last \in [Nodes -> Incs] /\ readyKV \in [Nodes -> Incs]
           /\ seen \in [Nodes -> [Nodes -> Incs]] /\ symKey \in [Nodes -> [Nodes -> Incs]]
           /\ 0 \in Incs /\ Incs \subseteq Int /\ \A i \in Incs : 0 <= i
           /\ \A l, m \in Nodes : seen[l][m] <= last[m] /\ symKey[l][m] <= last[m]
BY KeyExchangeAssumption DEF KeyInv, TypeOK, Bounded, Incs

\* A loop that is started, or found running, is a loop.
LEMMA EnsureLoopType ==
    ASSUME TypeOK, NEW n \in Nodes, EnsureLoop(n)
    PROVE  /\ loop' \in [Nodes -> {"off", "active", "grace", "stopping"}]
           /\ unresumed' \in BOOLEAN
<1>1. loop' \in [Nodes -> {"off", "active", "grace", "stopping"}]
  BY DEF EnsureLoop, TypeOK
<1>2. unresumed' \in BOOLEAN
  BY Zenon DEF EnsureLoop
<1> QED
  BY <1>1, <1>2

\* A broadcast of a running node's own incarnation, with nobody's view of the epochs and
\* no task changed but n's: it disturbs neither the bounds nor the freshness.
LEMMA OwnBroadcast ==
    ASSUME KeyInv, NEW n \in Nodes, UNCHANGED <<inc, last, readyKV, seen, restarts>>,
           \A l \in Nodes : {t \in tasks[l] : t[2] = "add"} = {t \in tasks'[l] : t[2] = "add"},
           Broadcast(n, inc[n], symKey)
    PROVE  /\ symKey' \in [Nodes -> [Nodes -> Incs]] /\ lost' \in 0..MaxLost
           /\ Bounded' /\ HandledIsFresh'
<1>1. inc[n] \in Incs /\ symKey \in [Nodes -> [Nodes -> Incs]] /\ inc[n] <= last[n]
  BY DEF KeyInv, TypeOK, Bounded, Incs
<1>2. /\ symKey' \in [Nodes -> [Nodes -> Incs]] /\ lost' \in 0..MaxLost
      /\ \A l, m \in Nodes : symKey'[l][m] = symKey[l][m] \/ (m = n /\ l # n /\ symKey'[l][m] = inc[n])
  BY <1>1, BroadcastKeys DEF KeyInv, TypeOK
<1>3. Bounded'
  BY <1>1, <1>2 DEF KeyInv, Bounded, Up
<1>4. HandledIsFresh'
  <2> SUFFICES ASSUME NEW l \in Nodes, NEW m \in Nodes, l # m, Up(m)', seen'[l][m] = inc'[m],
                      <<m, "add">> \notin tasks'[l]
               PROVE  symKey'[l][m] \in {0, inc'[m]}
    BY DEF HandledIsFresh
  <2>1. <<m, "add">> \notin tasks[l]
    OBVIOUS
  <2>2. symKey[l][m] \in {0, inc[m]}
    BY <2>1 DEF KeyInv, HandledIsFresh, Up
  <2> QED
    BY <1>2, <2>2
<1> QED
  BY <1>2, <1>3, <1>4

-----------------------------------------------------------------------------
\* A fresh incarnation is one nobody has seen.
LEMMA StartKeeps ==
    ASSUME KeyInv, NEW n \in Nodes, Start(n)
    PROVE  KeyInv'
<1> DEFINE i == last[n] + 1
<1>1. i \in Incs /\ i <= restarts + 1 /\ i # 0
  BY KeyExchangeAssumption DEF KeyInv, TypeOK, Bounded, Start, Incs
<1>2. /\ inc' = [inc EXCEPT ![n] = i] /\ last' = [last EXCEPT ![n] = i]
      /\ readyKV' = [readyKV EXCEPT ![n] = i] /\ Broadcast(n, i, symKey)
  BY DEF Start, KeyInv, TypeOK
<1>3. inc' \in [Nodes -> Incs] /\ last' \in [Nodes -> Incs] /\ readyKV' \in [Nodes -> Incs]
  BY <1>1, <1>2 DEF KeyInv, TypeOK, Incs
<1>4. /\ symKey' \in [Nodes -> [Nodes -> Incs]] /\ lost' \in 0..MaxLost
      /\ \A l, m \in Nodes : symKey'[l][m] = symKey[l][m] \/ (m = n /\ l # n /\ symKey'[l][m] = i)
  BY <1>1, <1>2, BroadcastKeys DEF KeyInv, TypeOK, Incs
<1>5. TypeOK'
  BY <1>3, <1>4, EnsureLoopType DEF Start, KeyInv, TypeOK, Incs
<1>6. Bounded'
  <2>1. \A m \in Nodes : last[m] <= last'[m]
    BY <1>2 DEF KeyInv, TypeOK
  <2>2. \A l, m \in Nodes : symKey'[l][m] <= last'[m]
    <3>1. \A l, m \in Nodes : symKey[l][m] <= last'[m]
      BY <1>3, <2>1, Incarnations
    <3>2. last'[n] = i /\ i \in Int
      BY <1>1, <1>2, Incarnations
    <3> QED
      BY <1>4, <3>1, <3>2
  <2>3. \A l, m \in Nodes : seen'[l][m] <= last'[m]
    BY <1>2, <2>1 DEF Start, KeyInv, TypeOK, Bounded
  <2>4. \A m \in Nodes : last'[m] <= restarts' + 1 /\ (inc'[m] = 0 => last'[m] <= restarts')
    BY <1>1, <1>2 DEF Start, KeyInv, TypeOK, Bounded, Up
  <2>5. \A m \in Nodes : inc'[m] <= last'[m] /\ readyKV'[m] <= last'[m]
    BY <1>1, <1>2 DEF KeyInv, TypeOK, Bounded
  <2> QED
    BY <2>2, <2>3, <2>4, <2>5 DEF Bounded, Up
<1>7. GateUp'
  BY <1>1, <1>2 DEF Start, KeyInv, GateUp, TypeOK, Up
<1>8. HandledIsFresh'
  <2> SUFFICES ASSUME NEW l \in Nodes, NEW m \in Nodes, l # m, Up(m)', seen'[l][m] = inc'[m],
                      <<m, "add">> \notin tasks'[l]
               PROVE  symKey'[l][m] \in {0, inc'[m]}
    BY DEF HandledIsFresh
  <2>1. m # n
    BY <1>2 DEF Start, KeyInv, TypeOK, Bounded
  <2>2. inc'[m] = inc[m] /\ symKey'[l][m] = symKey[l][m]
    BY <1>2, <1>4, <2>1 DEF KeyInv, TypeOK
  <2> QED
    BY <2>2 DEF Start, KeyInv, HandledIsFresh, Up
<1> QED
  BY <1>5, <1>6, <1>7, <1>8 DEF KeyInv

\* A node that stops forgets what it knew, and makes room for its next incarnation.
LEMMA StopKeeps ==
    ASSUME KeyInv, NEW n \in Nodes, Stop(n)
    PROVE  KeyInv'
<1>1. 0 \in Incs /\ Nothing \in [Nodes -> Incs]
  BY KeyExchangeAssumption DEF Incs, Nothing
<1>2. /\ inc' = [inc EXCEPT ![n] = 0] /\ last' = last /\ restarts' = restarts + 1
      /\ seen' = [seen EXCEPT ![n] = Nothing] /\ symKey' = [symKey EXCEPT ![n] = Nothing]
      /\ \A m \in Nodes : readyKV'[m] \in {0, readyKV[m]}
  BY DEF Stop, KeyInv, TypeOK
<1>3. TypeOK'
  <2>1. /\ inc' \in [Nodes -> Incs] /\ last' \in [Nodes -> Incs] /\ readyKV' \in [Nodes -> Incs]
        /\ seen' \in [Nodes -> [Nodes -> Incs]] /\ symKey' \in [Nodes -> [Nodes -> Incs]]
    <3>1. readyKV' = readyKV \/ readyKV' = [readyKV EXCEPT ![n] = 0]
      BY DEF Stop
    <3> QED
      BY <1>1, <1>2, <3>1, Incarnations
  <2>2. /\ tasks' \in [Nodes -> SUBSET (Nodes \X Steps)]
        /\ loop' \in [Nodes -> {"off", "active", "grace", "stopping"}]
        /\ gate' \in [Nodes -> {"idle", "waiting", "passed", "failed"}]
        /\ done' \subseteq (Nodes \X {"check", "tick"})
    BY DEF Stop, KeyInv, TypeOK
  <2>3. grace' \in [Nodes -> 0..GraceRounds] /\ left' \in [Nodes -> 0..GateRounds]
        /\ restarts' \in 0..MaxRestarts
    BY KeyExchangeAssumption DEF Stop, KeyInv, TypeOK
  <2> QED
    BY <2>1, <2>2, <2>3 DEF Stop, KeyInv, TypeOK, Incs
<1>4. Bounded'
  <2>1. \A l, m \in Nodes : seen'[l][m] \in {0, seen[l][m]} /\ symKey'[l][m] \in {0, symKey[l][m]}
    BY <1>2 DEF KeyInv, TypeOK, Nothing
  <2>2. \A m \in Nodes : inc'[m] \in {0, inc[m]} /\ (inc'[m] = 0 => m = n \/ inc[m] = 0)
    BY <1>2 DEF KeyInv, TypeOK
  <2>3. \A l, m \in Nodes : seen'[l][m] <= last'[m] /\ symKey'[l][m] <= last'[m]
    BY <1>2, <2>1, Incarnations
  <2>4. \A m \in Nodes : inc'[m] <= last'[m] /\ readyKV'[m] <= last'[m]
    BY <1>2, <2>2, Incarnations DEF KeyInv, Bounded
  <2>5. \A m \in Nodes : last'[m] <= restarts' + 1 /\ (inc'[m] = 0 => last'[m] <= restarts')
    <3>1. restarts \in Int /\ \A m \in Nodes : last[m] \in Int /\ last[m] <= restarts + 1
      BY Incarnations DEF KeyInv, TypeOK, Bounded
    <3> QED
      BY <1>2, <3>1
  <2> QED
    BY <2>3, <2>4, <2>5 DEF Bounded, Up
<1>5. GateUp'
  BY <1>2 DEF Stop, KeyInv, TypeOK, GateUp, Up
<1>6. HandledIsFresh'
  <2> SUFFICES ASSUME NEW l \in Nodes, NEW m \in Nodes, l # m, Up(m)', seen'[l][m] = inc'[m],
                      <<m, "add">> \notin tasks'[l]
               PROVE  symKey'[l][m] \in {0, inc'[m]}
    BY DEF HandledIsFresh
  <2>1. m # n /\ inc'[m] = inc[m]
    BY <1>2 DEF KeyInv, TypeOK, Up
  <2>2. CASE l = n
    BY <1>2, <2>2 DEF KeyInv, TypeOK, Nothing
  <2>3. CASE l # n
    BY <1>2, <2>1, <2>3 DEF Stop, KeyInv, TypeOK, HandledIsFresh, Up
  <2> QED
    BY <2>2, <2>3
<1> QED
  BY <1>3, <1>4, <1>5, <1>6 DEF KeyInv

\* The readiness watch: an epoch that is news brings a rejoin task with it.
LEMMA CheckKeeps ==
    ASSUME KeyInv, NEW n \in Nodes, CheckPeerReadiness(n)
    PROVE  KeyInv'
<1>1. 0 \in Incs
  BY KeyExchangeAssumption DEF Incs
<1>2. /\ symKey' \in [Nodes -> [Nodes -> Incs]]
      /\ \A l, m \in Nodes : symKey'[l][m] \in {0, symKey[l][m]}
  BY <1>1 DEF CheckPeerReadiness, KeyInv, TypeOK, Incs
<1>3. /\ seen' \in [Nodes -> [Nodes -> Incs]]
      /\ \A l, m \in Nodes : seen'[l][m] = IF l # n THEN seen[l][m] ELSE IF m = n THEN 0 ELSE readyKV[m]
  BY <1>1 DEF CheckPeerReadiness, KeyInv, TypeOK, Incs
<1>4. tasks' = [tasks EXCEPT ![n] = @ \cup {<<m, "add">> : m \in Rejoined(n)}]
  BY DEF CheckPeerReadiness
<1>5. TypeOK'
  <2>1. tasks' \in [Nodes -> SUBSET (Nodes \X Steps)]
    BY <1>4 DEF KeyInv, TypeOK, Rejoined, Peers, Steps
  <2>2. done' \subseteq (Nodes \X {"check", "tick"})
    BY DEF CheckPeerReadiness, KeyInv, TypeOK
  <2> QED
    BY <1>2, <1>3, <2>1, <2>2 DEF CheckPeerReadiness, KeyInv, TypeOK, Incs
<1>6. Bounded'
  BY <1>2, <1>3 DEF CheckPeerReadiness, KeyInv, TypeOK, Bounded, Up
<1>7. GateUp'
  BY DEF CheckPeerReadiness, KeyInv, GateUp, Up
<1>8. HandledIsFresh'
  <2> SUFFICES ASSUME NEW l \in Nodes, NEW m \in Nodes, l # m, Up(m)', seen'[l][m] = inc'[m],
                      <<m, "add">> \notin tasks'[l]
               PROVE  symKey'[l][m] \in {0, inc'[m]}
    BY DEF HandledIsFresh
  <2>1. inc' = inc /\ Up(m)
    BY DEF CheckPeerReadiness, Up
  <2>2. <<m, "add">> \notin tasks[l]
    BY <1>4 DEF KeyInv, TypeOK
  <2>3. seen[l][m] = inc[m]
    <3>1. CASE l # n
      BY <1>3, <2>1, <3>1
    <3>2. CASE l = n
      <4>1. m \notin Rejoined(n)
        BY <1>4, <3>2 DEF KeyInv, TypeOK
      <4>2. readyKV[m] = inc[m] /\ inc[m] # 0
        BY <1>3, <2>1, <3>2 DEF Up
      <4> QED
        BY <3>2, <4>1, <4>2 DEF Rejoined, Peers
    <3> QED
      BY <3>1, <3>2
  <2>4. symKey[l][m] \in {0, inc[m]}
    BY <2>1, <2>2, <2>3 DEF KeyInv, HandledIsFresh
  <2> QED
    BY <1>2, <2>1, <2>4
<1> QED
  BY <1>5, <1>6, <1>7, <1>8 DEF KeyInv

\* The rejoin handler's start removes the key it makes way for.
LEMMA RejoinAddInv ==
    ASSUME KeyInv, NEW n \in Nodes, NEW p \in Peers(n), RejoinAdd(n, p)
    PROVE  KeyInv'
<1> DEFINE held == [symKey EXCEPT ![n][p] = 0]
<1>1. p \in Nodes /\ p # n /\ 0 \in Incs /\ inc[n] \in Incs /\ inc[n] <= last[n]
  BY KeyExchangeAssumption DEF Peers, KeyInv, TypeOK, Bounded, Incs
<1>2. held \in [Nodes -> [Nodes -> Incs]]
      /\ \A l, m \in Nodes : held[l][m] = IF l = n /\ m = p THEN 0 ELSE symKey[l][m]
  BY <1>1 DEF KeyInv, TypeOK, Incs
<1>3. Broadcast(n, inc[n], held) /\ UNCHANGED <<inc, last, readyKV, seen, restarts>>
  BY DEF RejoinAdd, Rest
<1> HIDE DEF held
<1>4. /\ symKey' \in [Nodes -> [Nodes -> Incs]] /\ lost' \in 0..MaxLost
      /\ \A l, m \in Nodes : symKey'[l][m] = held[l][m] \/ (m = n /\ l # n /\ symKey'[l][m] = inc[n])
  BY <1>1, <1>2, <1>3, BroadcastKeys DEF KeyInv, TypeOK
<1>5. tasks' = [tasks EXCEPT ![n] = (@ \ {<<p, "add">>}) \cup {<<p, "resume">>}]
  BY DEF RejoinAdd
<1>6. TypeOK'
  <2>1. tasks' \in [Nodes -> SUBSET (Nodes \X Steps)]
    BY <1>1, <1>5 DEF KeyInv, TypeOK, Steps
  <2> QED
    BY <1>4, <2>1 DEF RejoinAdd, Rest, KeyInv, TypeOK, Incs
<1>7. Bounded'
  <2>1. \A l, m \in Nodes : symKey'[l][m] <= last[m]
    <3>1. \A l, m \in Nodes : held[l][m] <= last[m]
      BY <1>2, Incarnations
    <3> QED
      BY <1>1, <1>4, <3>1
  <2> QED
    BY <1>3, <2>1 DEF KeyInv, Bounded, Up
<1>8. GateUp'
  BY DEF RejoinAdd, Rest, KeyInv, GateUp, Up
<1>9. HandledIsFresh'
  <2> SUFFICES ASSUME NEW l \in Nodes, NEW m \in Nodes, l # m, Up(m)', seen'[l][m] = inc'[m],
                      <<m, "add">> \notin tasks'[l]
               PROVE  symKey'[l][m] \in {0, inc'[m]}
    BY DEF HandledIsFresh
  <2>1. CASE l = n /\ m = p
    BY <1>1, <1>2, <1>4, <2>1
  <2>2. CASE ~(l = n /\ m = p)
    <3>1. <<m, "add">> \notin tasks[l]
      BY <1>5, <2>2 DEF KeyInv, TypeOK
    <3>2. symKey[l][m] \in {0, inc[m]}
      BY <1>3, <3>1 DEF KeyInv, HandledIsFresh, Up
    <3> QED
      BY <1>2, <1>3, <1>4, <2>2, <3>2
  <2> QED
    BY <2>1, <2>2
<1> QED
  BY <1>6, <1>7, <1>8, <1>9 DEF KeyInv

\* The rejoin handler's end.
LEMMA RejoinResumeKeeps ==
    ASSUME KeyInv, NEW n \in Nodes, NEW p \in Peers(n), RejoinResume(n, p)
    PROVE  KeyInv'
<1>1. tasks' = [tasks EXCEPT ![n] = @ \ {<<p, "resume">>}]
  BY DEF RejoinResume
<1>2. \A l \in Nodes : {t \in tasks[l] : t[2] = "add"} = {t \in tasks'[l] : t[2] = "add"}
  BY <1>1 DEF KeyInv, TypeOK
<1>3. /\ symKey' \in [Nodes -> [Nodes -> Incs]] /\ lost' \in 0..MaxLost
      /\ Bounded' /\ HandledIsFresh'
  BY <1>2, OwnBroadcast DEF RejoinResume, Rest
<1>4. tasks' \in [Nodes -> SUBSET (Nodes \X Steps)]
  BY <1>1 DEF KeyInv, TypeOK
<1>5. TypeOK'
  BY <1>3, <1>4, EnsureLoopType DEF RejoinResume, Rest, KeyInv, TypeOK, Incs
<1>6. GateUp'
  BY DEF RejoinResume, Rest, KeyInv, GateUp, Up
<1> QED
  BY <1>3, <1>5, <1>6 DEF KeyInv

\* A tick of the broadcast loop.
LEMMA TickKeeps ==
    ASSUME KeyInv, NEW n \in Nodes, Tick(n)
    PROVE  KeyInv'
<1>1. done' \subseteq (Nodes \X {"check", "tick"})
  BY DEF Tick, KeyInv, TypeOK
<1>2. /\ loop' \in [Nodes -> {"off", "active", "grace", "stopping"}]
      /\ grace' \in [Nodes -> 0..GraceRounds]
  <2>1. loop \in [Nodes -> {"off", "active", "grace", "stopping"}] /\ grace \in [Nodes -> 0..GraceRounds]
    BY DEF KeyInv, TypeOK
  <2>2. \/ loop' = loop \/ loop' = [loop EXCEPT ![n] = "active"]
        \/ loop' = [loop EXCEPT ![n] = "grace"] \/ loop' = [loop EXCEPT ![n] = "stopping"]
    BY DEF Tick, TickIncomplete, TickComplete
  <2>3. \/ grace' = grace \/ grace' = [grace EXCEPT ![n] = 0]
        \/ grace' = [grace EXCEPT ![n] = GraceRounds]
        \/ grace[n] > 0 /\ grace' = [grace EXCEPT ![n] = grace[n] - 1]
    BY DEF Tick, TickIncomplete, TickComplete
  <2> QED
    BY <2>1, <2>2, <2>3, KeyExchangeAssumption
<1>3. Broadcast(n, inc[n], symKey) \/ UNCHANGED <<symKey, lost>>
  BY DEF Tick, TickIncomplete, TickComplete
<1>4. /\ symKey' \in [Nodes -> [Nodes -> Incs]] /\ lost' \in 0..MaxLost
      /\ Bounded' /\ HandledIsFresh'
  <2>1. CASE Broadcast(n, inc[n], symKey)
    BY <2>1, OwnBroadcast DEF Tick
  <2>2. CASE UNCHANGED <<symKey, lost>>
    BY <2>2 DEF Tick, KeyInv, TypeOK, Bounded, HandledIsFresh, Up, Incs
  <2> QED
    BY <1>3, <2>1, <2>2
<1>5. TypeOK'
  BY <1>1, <1>2, <1>4 DEF Tick, KeyInv, TypeOK, Incs
<1>6. GateUp'
  BY DEF Tick, KeyInv, GateUp, Up
<1> QED
  BY <1>4, <1>5, <1>6 DEF KeyInv

\* The ceremony gate opens on a settled cluster, where every node is up.
LEMMA GateStartKeeps ==
    ASSUME KeyInv, NEW n \in Nodes, GateStart(n)
    PROVE  KeyInv'
<1>1. /\ symKey' \in [Nodes -> [Nodes -> Incs]] /\ lost' \in 0..MaxLost
      /\ Bounded' /\ HandledIsFresh'
  BY OwnBroadcast DEF GateStart
<1>2. gate' \in [Nodes -> {"idle", "waiting", "passed", "failed"}]
      /\ left' \in [Nodes -> 0..GateRounds]
  BY KeyExchangeAssumption DEF GateStart, KeyInv, TypeOK
<1>3. TypeOK'
  BY <1>1, <1>2, EnsureLoopType DEF GateStart, KeyInv, TypeOK, Incs
<1>4. GateUp'
  BY DEF GateStart, Settled, GateUp, Up
<1> QED
  BY <1>1, <1>3, <1>4 DEF KeyInv

\* Steps that leave the epochs, the keys and the tasks alone.
LEMMA QuietKeeps ==
    ASSUME KeyInv,
           NextRound \/ (UNCHANGED vars) \/ (\E n \in Nodes : Reap(n) \/ LoopStored(n) \/ GateEnds(n))
    PROVE  KeyInv'
<1>1. ASSUME NEW n \in Nodes, Reap(n) PROVE KeyInv'
  <2>1. 0 \in Incs
    BY KeyExchangeAssumption DEF Incs
  <2>2. readyKV' \in [Nodes -> Incs] /\ \A m \in Nodes : readyKV'[m] \in {0, readyKV[m]}
    BY <1>1, <2>1 DEF Reap, KeyInv, TypeOK, Incs
  <2>3. Bounded'
    BY <1>1, <2>2 DEF Reap, KeyInv, TypeOK, Bounded, Up
  <2> QED
    BY <1>1, <2>2, <2>3 DEF Reap, KeyInv, TypeOK, GateUp, HandledIsFresh, Up, Incs
<1>2. ASSUME NEW n \in Nodes, LoopStored(n) PROVE KeyInv'
  <2>1. loop' \in [Nodes -> {"off", "active", "grace", "stopping"}]
    BY <1>2 DEF LoopStored, KeyInv, TypeOK
  <2> QED
    BY <1>2, <2>1 DEF LoopStored, Rest, KeyInv, TypeOK, Bounded, GateUp, HandledIsFresh, Up
<1>3. ASSUME NEW n \in Nodes, GateEnds(n) PROVE KeyInv'
  <2>1. /\ gate' \in [Nodes -> {"idle", "waiting", "passed", "failed"}]
        /\ left' \in [Nodes -> 0..GateRounds]
        /\ \A m \in Nodes : gate'[m] = "waiting" => gate[m] = "waiting"
    BY <1>3, KeyExchangeAssumption DEF GateEnds, KeyInv, TypeOK
  <2> QED
    BY <1>3, <2>1 DEF GateEnds, KeyInv, TypeOK, Bounded, GateUp, HandledIsFresh, Up
<1>4. CASE NextRound
  <2>1. \A n \in Nodes : gate[n] = "waiting" => left[n] > 0
    BY <1>4 DEF NextRound, RoundOver, KeyInv, GateUp
  <2>2. left' \in [Nodes -> 0..GateRounds]
    BY <1>4, <2>1, KeyExchangeAssumption DEF NextRound, KeyInv, TypeOK
  <2> QED
    BY <1>4, <2>2 DEF NextRound, KeyInv, TypeOK, Bounded, GateUp, HandledIsFresh, Up
<1>5. CASE UNCHANGED vars
  BY <1>5 DEF vars, KeyInv, TypeOK, Bounded, GateUp, HandledIsFresh, Up
<1> QED
  BY <1>1, <1>2, <1>3, <1>4, <1>5

-----------------------------------------------------------------------------
\* The inductive invariant of the key exchange.
THEOREM ExchangeInvariant == Spec => []KeyInv
<1>1. Init => KeyInv
  <2> SUFFICES ASSUME Init PROVE KeyInv
    OBVIOUS
  <2>1. 0 \in Incs /\ 1 \in Incs
    BY KeyExchangeAssumption DEF Incs
  <2>2. /\ inc \in [Nodes -> Incs] /\ last \in [Nodes -> Incs] /\ readyKV \in [Nodes -> Incs]
        /\ seen \in [Nodes -> [Nodes -> Incs]] /\ symKey \in [Nodes -> [Nodes -> Incs]]
    BY <2>1 DEF Init
  <2>3. TypeOK
    <3>1. left \in [Nodes -> 0..GateRounds] /\ restarts \in 0..MaxRestarts /\ lost \in 0..MaxLost
      BY KeyExchangeAssumption DEF Init, Nothing
    <3>2. /\ loop \in [Nodes -> {"off", "active", "grace", "stopping"}]
          /\ grace \in [Nodes -> 0..GraceRounds]
          /\ gate \in [Nodes -> {"idle", "waiting", "passed", "failed"}]
          /\ tasks \in [Nodes -> SUBSET (Nodes \X Steps)]
      BY DEF Init
    <3> QED
      BY <2>2, <3>1, <3>2 DEF Init, TypeOK, Incs
  <2>4. \A n \in Nodes : /\ inc[n] = 1 /\ last[n] = 1 /\ readyKV[n] = 1
                         /\ \A m \in Nodes : seen[m][n] \in {0, 1} /\ symKey[m][n] \in {0, 1}
    BY DEF Init
  <2>5. Bounded /\ GateUp /\ HandledIsFresh
    BY <2>4 DEF Init, Bounded, GateUp, HandledIsFresh, Up
  <2> QED
    BY <2>3, <2>5 DEF KeyInv
<1>2. KeyInv /\ [Next]_vars => KeyInv'
  BY StartKeeps, StopKeeps, CheckKeeps, RejoinAddInv, RejoinResumeKeeps, TickKeeps,
     GateStartKeeps, QuietKeeps DEF Next, NodeStep
<1> QED
  BY <1>1, <1>2, PTL DEF Spec

\* Types, and no more incarnations of a node than restarts allow.
THEOREM TypeCorrect == Spec => []TypeOK
<1>1. KeyInv => TypeOK
  BY DEF KeyInv
<1> QED
  BY <1>1, ExchangeInvariant, PTL

\* No stale key outlives a handled rejoin, for any number of nodes, restarts and lost
\* broadcasts (handleECDHRejoin, dynamic_registry.go; AddPeer, dynamic_ecdh_session.go).
THEOREM RejoinLeavesNoStaleKey == Spec => []HandledIsFresh
<1>1. KeyInv => HandledIsFresh
  BY DEF KeyInv
<1> QED
  BY <1>1, ExchangeInvariant, PTL
=============================================================================
