-------------------------- MODULE PublisherProofs --------------------------
(***************************************************************************)
(* For any number of overlapping calls: the publisher's state is well      *)
(* typed, and no entry of the table of waiters outlives the try that reads *)
(* its channel.                                                            *)
(***************************************************************************)
EXTENDS Publisher, TLAPS

\* A waiter is registered under the family of its try, and that try is being made.
Reads(c, k) ==
  waiters[k] = Current(c) /\ Kind(c) = k /\ call[c].st \in {"publish", "wait"}
WaiterInv == \A k \in Kinds : waiters[k] # None => \E c \in Calls : Reads(c, k)

\* The try a call is at is a try.
LEMMA CurrentType ==
  ASSUME TypeOK, NEW c \in Calls
  PROVE  /\ Kind(c) \in Kinds
         /\ Current(c) \in Tries
         /\ Current(c).call = c /\ Current(c).kind = Kind(c)
<1>1. Kind(c) \in Kinds
  BY DEF Kind, Kinds
<1>2. call[c].try \in 1..reshareMaxTries
  BY DEF TypeOK, CallState
<1> QED
  BY <1>1, <1>2 DEF Current, Tries

\* A step of one call leaves the current try of the others alone.
LEMMA CurrentStable ==
  ASSUME NEW c \in Calls, call'[c] = call[c]
  PROVE  Current(c)' = Current(c) /\ Kind(c)' = Kind(c)
BY DEF Current, Kind

\* The state keeps its types for any set of calls; in particular no family gets more
\* than reshareMaxTries tries.
THEOREM TypeCorrect == Spec => []TypeOK
<1>1. Init => TypeOK
  BY DEF Init, TypeOK, CallState, Kinds, reshareMaxTries
<1>2. TypeOK /\ [Next]_vars => TypeOK'
  <2> SUFFICES ASSUME TypeOK, [Next]_vars PROVE TypeOK'
    OBVIOUS
  <2>1. ASSUME NEW c \in Calls, ReshareWallet(c) PROVE TypeOK'
    <3>1. PICK only \in Requests[c] :
            call' = [call EXCEPT ![c].st = "register", ![c].only = only]
      BY <2>1 DEF ReshareWallet
    <3>2. only \in SUBSET Kinds
      BY <3>1, PublisherAssumption
    <3>3. call' \in [Calls -> CallState]
      BY <3>1, <3>2 DEF TypeOK, CallState
    <3> QED
      BY <2>1, <3>3 DEF ReshareWallet, TypeOK
  <2>2. ASSUME NEW c \in Calls, register(c) PROVE TypeOK'
    <3>1. call' \in [Calls -> CallState]
      BY <2>2 DEF register, TypeOK, CallState
    <3>2. waiters' \in [Kinds -> Tries \cup {None}]
      BY <2>2, CurrentType DEF register, TypeOK
    <3> QED
      BY <2>2, <3>1, <3>2 DEF register, TypeOK
  <2>3. ASSUME NEW c \in Calls, Publish(c) PROVE TypeOK'
    <3>1. call' \in [Calls -> CallState]
      BY <2>3 DEF Publish, TypeOK, CallState
    <3>2. running' \in SUBSET Tries
      BY <2>3, CurrentType DEF Publish, TypeOK
    <3> QED
      BY <2>3, <3>1, <3>2 DEF Publish, TypeOK
  <2>4. ASSUME NEW c \in Calls, TryFails(c), UNCHANGED <<running, sent, hand>> PROVE TypeOK'
    <3>1. call' \in [Calls -> CallState]
      <4>1. CASE call[c].try < reshareMaxTries
                 /\ call' = [call EXCEPT ![c].st = "register", ![c].try = @ + 1]
        <5>1. call[c].try + 1 \in 1..reshareMaxTries
          BY <4>1 DEF TypeOK, CallState, reshareMaxTries
        <5> QED
          BY <4>1, <5>1 DEF TypeOK, CallState
      <4>2. CASE call' = [call EXCEPT ![c].st = "returned"]
        BY <4>2 DEF TypeOK, CallState
      <4> QED
        BY <2>4, <4>1, <4>2 DEF TryFails
    <3> QED
      BY <2>4, <3>1, CurrentType DEF TryFails, unregister, TypeOK
  <2>5. ASSUME NEW c \in Calls, TrySucceeds(c), UNCHANGED <<running, sent, hand>> PROVE TypeOK'
    <3>1. Kind(c) \in Kinds /\ 1 \in 1..reshareMaxTries
      BY CurrentType DEF reshareMaxTries
    <3>2. call' \in [Calls -> CallState]
      <4>1. PICK st \in {"returned", "register"} :
              call' = [call EXCEPT ![c].st = st, ![c].done = @ \cup {Kind(c)}, ![c].try = 1]
        BY <2>5 DEF TrySucceeds
      <4>2. QED
        <5> DEFINE new == [call[c] EXCEPT !.st = st, !.done = @ \cup {Kind(c)}, !.try = 1]
        <5>1. new \in CallState
          BY <3>1 DEF TypeOK, CallState
        <5>2. call' = [call EXCEPT ![c] = new]
          BY <4>1 DEF TypeOK, CallState
        <5> QED
          BY <5>1, <5>2 DEF TypeOK
    <3> QED
      BY <2>5, <3>1, <3>2 DEF TrySucceeds, unregister, TypeOK
  <2>6. ASSUME NEW s \in running, Answer(s) PROVE TypeOK'
    BY <2>6 DEF Answer, TypeOK, Events
  <2>7. ASSUME NEW e \in sent, DeliverLookup(e) PROVE TypeOK'
    <3>1. e \in Events /\ e.session.kind \in Kinds
      BY DEF TypeOK, Events, Tries
    <3>2. hand' \in Deliveries \cup {None}
      BY <2>7, <3>1 DEF DeliverLookup, TypeOK, Deliveries
    <3> QED
      BY <2>7, <3>2 DEF DeliverLookup, TypeOK
  <2>8. CASE DeliverSend
    BY <2>8 DEF DeliverSend, TypeOK
  <2>9. CASE UNCHANGED vars
    BY <2>9 DEF vars, TypeOK
  <2> QED
    BY <2>1, <2>2, <2>3, <2>4, <2>5, <2>6, <2>7, <2>8, <2>9
    DEF Next, CallStep, PublishFails, Receive, GiveUp
<1> QED
  BY <1>1, <1>2, PTL DEF Spec

\* Steps that neither touch the table nor end or begin a try keep WaiterInv.
LEMMA WaiterKept ==
  ASSUME WaiterInv, UNCHANGED <<call, waiters>>
  PROVE  WaiterInv'
BY DEF WaiterInv, Reads, Current, Kind

\* A reader that does not move keeps reading.
LEMMA ReaderKept ==
  ASSUME NEW k \in Kinds, NEW c \in Calls, Reads(c, k),
         waiters'[k] = waiters[k], call'[c] = call[c]
  PROVE  Reads(c, k)'
BY CurrentStable DEF Reads

\* The end of a try removes the family's entry: what is left belongs to other calls.
LEMMA WaiterRemoved ==
  ASSUME TypeOK, WaiterInv, NEW c \in Calls, unregister(c),
         \A d \in Calls \ {c} : call'[d] = call[d]
  PROVE  WaiterInv'
<1> SUFFICES ASSUME NEW k \in Kinds, waiters'[k] # None
             PROVE  \E d \in Calls : Reads(d, k)'
  BY DEF WaiterInv
<1>1. k # Kind(c) /\ waiters'[k] = waiters[k]
  BY CurrentType DEF unregister, TypeOK
<1>2. PICK d \in Calls : Reads(d, k)
  BY <1>1 DEF WaiterInv
<1>3. d # c
  BY <1>1, <1>2 DEF Reads
<1> QED
  BY <1>1, <1>2, <1>3, ReaderKept

\* No waiter outlives its reader, for any set of calls.
THEOREM WaitersAreRead == Spec => []WaiterIsRead
<1>1. Init => WaiterInv
  BY DEF Init, WaiterInv
<1>2. TypeOK /\ WaiterInv /\ [Next]_vars => WaiterInv'
  <2> SUFFICES ASSUME TypeOK, WaiterInv, [Next]_vars PROVE WaiterInv'
    OBVIOUS
  <2>1. ASSUME NEW c \in Calls, ReshareWallet(c) PROVE WaiterInv'
    <3>1. waiters' = waiters /\ call[c].st = "start" /\ \A d \in Calls \ {c} : call'[d] = call[d]
      BY <2>1 DEF ReshareWallet, TypeOK
    <3>2. ASSUME NEW k \in Kinds, waiters'[k] # None PROVE \E d \in Calls : Reads(d, k)'
      <4>1. PICK d \in Calls : Reads(d, k)
        BY <3>1, <3>2 DEF WaiterInv
      <4>2. d # c
        BY <3>1, <4>1 DEF Reads
      <4> QED
        BY <3>1, <4>1, <4>2, ReaderKept
    <3> QED
      BY <3>2 DEF WaiterInv
  <2>2. ASSUME NEW c \in Calls, register(c) PROVE WaiterInv'
    <3>1. Kind(c) \in Kinds
      BY CurrentType
    <3>2. Kind(c)' = Kind(c) /\ Current(c)' = Current(c) /\ call'[c].st = "publish"
      BY <2>2 DEF register, Kind, Current, TypeOK, CallState
    <3>3. ASSUME NEW k \in Kinds, waiters'[k] # None PROVE \E d \in Calls : Reads(d, k)'
      <4>1. CASE k = Kind(c)
        BY <2>2, <3>1, <3>2, <4>1 DEF register, TypeOK, Reads
      <4>2. CASE k # Kind(c)
        <5>1. waiters'[k] = waiters[k] /\ \A d \in Calls \ {c} : call'[d] = call[d]
          BY <2>2, <4>2 DEF register, TypeOK
        <5>2. PICK d \in Calls : Reads(d, k)
          BY <3>3, <5>1 DEF WaiterInv
        <5>3. d # c
          BY <2>2, <5>2 DEF Reads, register
        <5> QED
          BY <5>1, <5>2, <5>3, ReaderKept
      <4> QED
        BY <4>1, <4>2
    <3> QED
      BY <3>3 DEF WaiterInv
  <2>3. ASSUME NEW c \in Calls, Publish(c) PROVE WaiterInv'
    <3>1. waiters' = waiters /\ \A d \in Calls : Current(d)' = Current(d) /\ Kind(d)' = Kind(d)
      BY <2>3 DEF Publish, Current, Kind, TypeOK, CallState
    <3>2. \A d \in Calls : call[d].st \in {"publish", "wait"} => call'[d].st \in {"publish", "wait"}
      BY <2>3 DEF Publish, TypeOK, CallState
    <3> QED
      BY <3>1, <3>2 DEF WaiterInv, Reads
  <2>4. ASSUME NEW c \in Calls, TryFails(c) PROVE WaiterInv'
    <3>1. unregister(c) /\ \A d \in Calls \ {c} : call'[d] = call[d]
      BY <2>4 DEF TryFails, TypeOK
    <3> QED
      BY <3>1, WaiterRemoved
  <2>5. ASSUME NEW c \in Calls, TrySucceeds(c) PROVE WaiterInv'
    <3>1. unregister(c) /\ \A d \in Calls \ {c} : call'[d] = call[d]
      BY <2>5 DEF TrySucceeds, TypeOK
    <3> QED
      BY <3>1, WaiterRemoved
  <2>6. ASSUME NEW s \in running, Answer(s) PROVE WaiterInv'
    BY <2>6, WaiterKept DEF Answer
  <2>7. ASSUME NEW e \in sent, DeliverLookup(e) PROVE WaiterInv'
    BY <2>7, WaiterKept DEF DeliverLookup
  <2>8. CASE DeliverSend
    BY <2>8, WaiterKept DEF DeliverSend
  <2>9. CASE UNCHANGED vars
    BY <2>9, WaiterKept DEF vars
  <2> QED
    BY <2>1, <2>2, <2>3, <2>4, <2>5, <2>6, <2>7, <2>8, <2>9
    DEF Next, CallStep, PublishFails, Receive, GiveUp
<1>3. TypeOK /\ WaiterInv => WaiterIsRead
  BY CurrentType DEF WaiterInv, Reads, WaiterIsRead
<1> QED
  BY <1>1, <1>2, <1>3, TypeCorrect, PTL DEF Spec
=============================================================================
