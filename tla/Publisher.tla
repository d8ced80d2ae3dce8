----------------------------- MODULE Publisher -----------------------------
(***************************************************************************)
(* The Publisher of pkg/orchestrator for one wallet: calls of              *)
(* ReshareWallet publish one reshare per key family, with a retry under a  *)
(* new session id, and wait for the result that the NATS callback delivers *)
(* through a table of waiters keyed by wallet and family.                  *)
(*                                                                         *)
(* Calls overlap when the wallet's lock was lost (see ReshareLock).  The   *)
(* steps are the holds of the publisher's mutex, the publication and the   *)
(* select on result, timer and context.  The nodes are external: they may  *)
(* answer a published session at any time, or never.                       *)
(***************************************************************************)
EXTENDS Naturals, FiniteSets

CONSTANTS
  Calls,      \* calls of ReshareWallet
  Requests,   \* Requests[c]: the families call c may be asked to do
  None

Kinds == {"eddsa", "ecdsa"}

ASSUME PublisherAssumption ==
  /\ None \notin Calls
  /\ Requests \in [Calls -> SUBSET ((SUBSET Kinds) \ {{}})]

VARIABLES
  call,      \* the progress of each call
  waiters,   \* waiters[k]: the channel registered for family k
  buffer,    \* results sitting in channels of capacity one
  running,   \* sessions the nodes work on
  sent,      \* results on their way
  hand       \* the callback, between its lookup and its send

vars == <<call, waiters, buffer, running, sent, hand>>

reshareMaxTries == 2

\* A try of a family by a call; it names its session id and its channel.
Tries == [call : Calls, kind : Kinds, try : 1..reshareMaxTries]
Events == [session : Tries, ok : BOOLEAN]
Deliveries == [chan : Tries, event : Events]

CallState == [st : {"start", "register", "publish", "wait", "returned"}, only : SUBSET Kinds,
              done : SUBSET Kinds, try : 1..reshareMaxTries]

\* reshareKeyTypes is ordered: ed25519 first.
Kind(c) == IF "eddsa" \in call[c].only \ call[c].done THEN "eddsa" ELSE "ecdsa"

Current(c) == [call |-> c, kind |-> Kind(c), try |-> call[c].try]

----------------------------------------------------------------------------
Init ==
  /\ call = [c \in Calls |-> [st |-> "start", only |-> {}, done |-> {}, try |-> 1]]
  /\ waiters = [k \in Kinds |-> None]
  /\ buffer = {}
  /\ running = {}
  /\ sent = {}
  /\ hand = None

\* The wallet's families, or those a former call left undone.
ReshareWallet(c) ==
  /\ call[c].st = "start"
  /\ \E only \in Requests[c] :
       call' = [call EXCEPT ![c].st = "register", ![c].only = only]
  /\ UNCHANGED <<waiters, buffer, running, sent, hand>>

register(c) ==
  /\ call[c].st = "register"
  /\ waiters' = [waiters EXCEPT ![Kind(c)] = Current(c)]
  /\ call' = [call EXCEPT ![c].st = "publish"]
  /\ UNCHANGED <<buffer, running, sent, hand>>

\* Signatures are collected and the message handed to NATS.
Publish(c) ==
  /\ call[c].st = "publish"
  /\ running' = running \cup {Current(c)}
  /\ call' = [call EXCEPT ![c].st = "wait"]
  /\ UNCHANGED <<waiters, buffer, sent, hand>>

\* Mutant: reshareOne returns without its deferred call.
KeepWaiter(c) == UNCHANGED <<waiters, buffer>>

\* The deferred call when reshareOne returns: whatever waiter the family has goes.  A
\* result left in the try's channel can no longer be read.
unregister(c) ==
  /\ waiters' = [waiters EXCEPT ![Kind(c)] = None]
  /\ buffer' = {d \in buffer : d.chan # Current(c)}

\* Mutant: one try too many.
TryFailsOnceMore(c) ==
  /\ unregister(c)
  /\ \/ /\ call[c].try <= reshareMaxTries
        /\ call' = [call EXCEPT ![c].st = "register", ![c].try = @ + 1]
     \/ call' = [call EXCEPT ![c].st = "returned"]

\* Mutant: tries are not counted.
TryFailsForever(c) ==
  /\ unregister(c)
  /\ call' = [call EXCEPT ![c].st = "register"]

\* An error: the next try, or the end of the call.  The context may be done at any
\* time (runReshare's deadline, or the process stops), and then there is no retry.
TryFails(c) ==
  /\ unregister(c)
  /\ \/ /\ call[c].try < reshareMaxTries
        /\ call' = [call EXCEPT ![c].st = "register", ![c].try = @ + 1]
     \/ call' = [call EXCEPT ![c].st = "returned"]

\* The family is done: the next one, or the end of the call.
TrySucceeds(c) ==
  /\ unregister(c)
  /\ call' = [call EXCEPT ![c].st = IF call[c].only = call[c].done \cup {Kind(c)}
                                   THEN "returned" ELSE "register",
                          ![c].done = @ \cup {Kind(c)}, ![c].try = 1]

\* An authorizer does not sign, or NATS does not take the message.
PublishFails(c) ==
  /\ call[c].st = "publish"
  /\ TryFails(c)
  /\ UNCHANGED <<running, sent, hand>>

\* select: there is a result in the channel; an empty public key counts as a failure.
Receive(c) ==
  /\ call[c].st = "wait"
  /\ \E d \in buffer :
       /\ d.chan = Current(c)
       /\ IF d.event.ok THEN TrySucceeds(c) ELSE TryFails(c)
  /\ UNCHANGED <<running, sent, hand>>

\* select: the timer has fired or the context is done.
GiveUp(c) ==
  /\ call[c].st = "wait"
  /\ TryFails(c)
  /\ UNCHANGED <<running, sent, hand>>

----------------------------------------------------------------------------
(* The nodes and the callback.                                              *)

\* The nodes end a session.  Its result names the wallet and the family only.
Answer(s) ==
  /\ s \in running
  /\ running' = running \ {s}
  /\ \E ok \in BOOLEAN : sent' = sent \cup {[session |-> s, ok |-> ok]}
  /\ UNCHANGED <<call, waiters, buffer, hand>>

\* deliver under the mutex: a result nobody waits for is dropped.
DeliverLookup(e) ==
  /\ e \in sent /\ hand = None
  /\ sent' = sent \ {e}
  /\ hand' = IF waiters[e.session.kind] = None THEN None
             ELSE [chan |-> waiters[e.session.kind], event |-> e]
  /\ UNCHANGED <<call, waiters, buffer, running>>

\* The send never blocks: a channel that holds a result refuses another, one that
\* nobody reads any more swallows it.
DeliverSend ==
  /\ hand # None
  /\ LET c == hand.chan.call
         read == hand.chan = Current(c) /\ call[c].st \in {"publish", "wait"}
         full == \E d \in buffer : d.chan = hand.chan
     IN  buffer' = IF read /\ ~full THEN buffer \cup {hand} ELSE buffer
  /\ hand' = None
  /\ UNCHANGED <<call, waiters, running, sent>>

----------------------------------------------------------------------------
CallStep(c) == register(c) \/ Publish(c) \/ PublishFails(c) \/ Receive(c) \/ GiveUp(c)

Next ==
  \/ \E c \in Calls : ReshareWallet(c) \/ CallStep(c)
  \/ \E s \in running : Answer(s)
  \/ \E e \in sent : DeliverLookup(e)
  \/ DeliverSend

Spec == Init /\ [][Next]_vars

\* Goroutines run and timers fire.  The nodes owe no answer.
FairSpec == Spec /\ \A c \in Calls : WF_vars(CallStep(c))

----------------------------------------------------------------------------
(* Properties.                                                              *)

TypeOK ==
  /\ call \in [Calls -> CallState]
  /\ waiters \in [Kinds -> Tries \cup {None}]
  /\ buffer \in SUBSET Deliveries
  /\ running \in SUBSET Tries
  /\ sent \in SUBSET Events
  /\ hand \in Deliveries \cup {None}

\* The table of waiters never outlives its readers: a registered channel is the one of
\* the current try of a call, though overlapping calls overwrite and remove each
\* other's entries.
WaiterIsRead ==
  \A k \in Kinds : waiters[k] # None =>
    LET c == waiters[k].call
    IN  waiters[k] = Current(c) /\ call[c].st \in {"publish", "wait"}

\* A call always returns, even if no result ever comes or another call took its waiter,
\* so its lock and its place under global_max_inflight are given back.
CallReturns == \A c \in Calls : (call[c].st = "register") ~> (call[c].st = "returned")

\* "waits for their results" (publisher.go:34), each try under "a fresh session ID"
\* (publisher.go:18-19): the result a try reads is the result of the session it
\* published.  It does not hold: a result carries no session.
AnswerIsOwn == \A d \in buffer : d.event.session = d.chan
=============================================================================
