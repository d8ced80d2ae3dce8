------------------------------- MODULE GuiApp -------------------------------
(***************************************************************************)
(* The desktop application (aicw-node-gui/app.go): the session, the        *)
(* registration job, the node files of the install folder                  *)
(* (internal/nodeidentity, setupfiles, install), what node web has on      *)
(* record (internal/nodeweb) and the removal of a node.  Every             *)
(* registration generates a fresh node id, and the files of a node stand   *)
(* for the id they were written for.                                       *)
(*                                                                         *)
(* One registration runs at a time, in a goroutine of its own; RemoveNode  *)
(* is a call of the front end that takes minutes, and several may be under *)
(* way: a call is a slot c with a place in the code, pcall[c].  Of the     *)
(* processes only the names that run are kept: NodeProcess has the rest.   *)
(***************************************************************************)
EXTENDS Integers, FiniteSets

CONSTANTS
    Names,     \* node names
    Ids,       \* bound: the node ids registrations generate
    Wallets,   \* wallets of the owner; a signature may come from another one
    Calls,     \* bound: the removals under way at a time
    None

ASSUME AppAssumption == None \notin Names \cup Ids \cup Wallets \cup Calls

VARIABLES
    session,    \* [wallet, verified]; no wallet: signed out.  Kept in a file
    shared,     \* the shared files are there
    identity,   \* the id in identity/<name>_identity.json
    keyFile,    \* the id whose private key is in <name>_private_key.txt
    running,    \* the names with a node process
    nameOf,     \* the name each id was generated for ...
    ownerOf,    \* ... and the wallet of the session at that time
    web,        \* the ids on record at node web
    jpc,        \* where the registration job is
    jname, jid, \* its node name and id
    regActive,  \* registerActive
    pcall,      \* where each RemoveNode is
    target,     \* its node name ...
    rid,        \* ... and the id it is to offboard
    wiped,      \* history: ids whose files a RemoveNode deleted that took the
                \* node of that name for a local one, so offboarded none
    mistaken    \* history: ids whose files a RemoveNode deleted that had
                \* offboarded another id of that name

diskVars == <<session, shared, identity, keyFile>>
idVars == <<nameOf, ownerOf>>
jobVars == <<jpc, jname, jid, regActive>>
removeVars == <<pcall, target, rid, wiped, mistaken>>
vars == <<session, shared, identity, keyFile, running, nameOf, ownerOf, web, jpc, jname, jid,
          regActive, pcall, target, rid, wiped, mistaken>>

TypeOK ==
    /\ session \in [wallet : Wallets \cup {None}, verified : BOOLEAN]
    /\ shared \in BOOLEAN
    /\ identity \in [Names -> Ids \cup {None}] /\ keyFile \in [Names -> Ids \cup {None}]
    /\ running \subseteq Names
    /\ nameOf \in [Ids -> Names \cup {None}] /\ ownerOf \in [Ids -> Wallets \cup {None}]
    /\ web \subseteq Ids
    /\ jpc \in {"idle", "checks", "signing", "config", "keyfile", "register"}
    /\ jname \in Names \cup {None} /\ jid \in Ids \cup {None} /\ regActive \in BOOLEAN
    /\ pcall \in [Calls -> {"idle", "dashboard", "stop", "inactive", "offboard", "remove"}]
    /\ target \in [Calls -> Names \cup {None}] /\ rid \in [Calls -> Ids \cup {None}]
    /\ wiped \subseteq Ids /\ mistaken \subseteq Ids

Init ==
    /\ session = [wallet |-> None, verified |-> FALSE] /\ shared = FALSE
    /\ identity = [n \in Names |-> None] /\ keyFile = [n \in Names |-> None] /\ running = {}
    /\ nameOf = [i \in Ids |-> None] /\ ownerOf = [i \in Ids |-> None] /\ web = {}
    /\ jpc = "idle" /\ jname = None /\ jid = None /\ regActive = FALSE
    /\ pcall = [c \in Calls |-> "idle"] /\ target = [c \in Calls |-> None]
    /\ rid = [c \in Calls |-> None] /\ wiped = {} /\ mistaken = {}

-----------------------------------------------------------------------------
(* Session, shared files, processes                                        *)

\* SignInWithBrowser, and SetWalletAddress without a signature.
SignIn(w, verified) ==
    /\ session' = [wallet |-> w, verified |-> verified]
    /\ UNCHANGED <<shared, identity, keyFile, running, idVars, web, jobVars, removeVars>>

SignOut ==
    /\ session' = [wallet |-> None, verified |-> FALSE]
    /\ UNCHANGED <<shared, identity, keyFile, running, idVars, web, jobVars, removeVars>>

\* EnsureSharedSetup and the start of the application, when node web answers.
EnsureSharedSetup ==
    /\ shared' = TRUE
    /\ UNCHANGED <<session, identity, keyFile, running, idVars, web, jobVars, removeVars>>

\* StartNode: only with a wallet, and with every file in place.
StartNode(n) ==
    /\ session.wallet # None
    /\ shared /\ identity[n] # None /\ keyFile[n] # None
    /\ running' = running \cup {n}
    /\ UNCHANGED <<diskVars, idVars, web, jobVars, removeVars>>

\* StopNode, and a node that ends by itself.
NodeStops(n) ==
    /\ running' = running \ {n}
    /\ UNCHANGED <<diskVars, idVars, web, jobVars, removeVars>>

-----------------------------------------------------------------------------
(* Registration                                                            *)

\* finishRegisterJob, and every early return of RegisterNode.
JobEnds == /\ regActive' = FALSE /\ jpc' = "idle" /\ jname' = None /\ jid' = None

\* RegisterNode takes registerActive under its mutex.
RegisterNode(n) ==
    /\ ~ regActive
    /\ regActive' = TRUE /\ jname' = n /\ jpc' = "checks" /\ UNCHANGED jid
    /\ UNCHANGED <<diskVars, running, idVars, web, removeVars>>

\* Mutant: a wallet that may not register leaves the job marked active.
ChecksKeepActive ==
    /\ jpc = "checks" /\ jpc' = "idle"
    /\ UNCHANGED <<jname, jid, regActive, diskVars, running, idVars, web, removeVars>>

\* The session, the wallet's eligibility, the identity and the sign-in server:
\* any of them may end it.
RegisterChecks ==
    /\ jpc = "checks"
    /\ \/ JobEnds /\ UNCHANGED idVars
       \/ \E i \in Ids :
            /\ session.verified /\ nameOf[i] = None
            /\ nameOf' = [nameOf EXCEPT ![i] = jname]
            /\ ownerOf' = [ownerOf EXCEPT ![i] = session.wallet]
            /\ jid' = i /\ jpc' = "signing" /\ UNCHANGED <<jname, regActive>>
    /\ UNCHANGED <<diskVars, running, web, removeVars>>

\* WaitResult: a signature of the wallet; or of another one, or none in time.
JobSigned ==
    /\ jpc = "signing"
    /\ \/ jpc' = "config" /\ UNCHANGED <<jname, jid, regActive>>
       \/ JobEnds
    /\ UNCHANGED <<diskVars, running, idVars, web, removeVars>>

\* Mutant: files of an earlier registration are overwritten.
ConfigureOverwrites ==
    /\ jpc = "config"
    /\ shared' = TRUE /\ identity' = [identity EXCEPT ![jname] = jid]
    /\ jpc' = "keyfile" /\ UNCHANGED <<jname, jid, regActive>>
    /\ UNCHANGED <<session, keyFile, running, idVars, web, removeVars>>

\* configureLocalNodeFiles, up to the identity file: neither it nor the key
\* file may exist.
JobConfigures ==
    /\ jpc = "config"
    /\ \/ /\ shared' = TRUE
          /\ identity[jname] = None /\ keyFile[jname] = None
          /\ identity' = [identity EXCEPT ![jname] = jid]
          /\ jpc' = "keyfile" /\ UNCHANGED <<jname, jid, regActive>>
       \/ shared' \in {shared, TRUE} /\ UNCHANGED identity /\ JobEnds
    /\ UNCHANGED <<session, keyFile, running, idVars, web, removeVars>>

\* The private key, or an error that leaves the identity file behind.
JobWritesKey ==
    /\ jpc = "keyfile"
    /\ \/ /\ keyFile' = [keyFile EXCEPT ![jname] = jid]
          /\ jpc' = "register" /\ UNCHANGED <<jname, jid, regActive>>
       \/ UNCHANGED keyFile /\ JobEnds
    /\ UNCHANGED <<session, shared, identity, running, idVars, web, removeVars>>

\* The request to node web is carried out or not; an answer may be lost.
JobRegisters ==
    /\ jpc = "register"
    /\ web' \in {web, web \cup {jid}}
    /\ JobEnds
    /\ UNCHANGED <<diskVars, running, idVars, removeVars>>

-----------------------------------------------------------------------------
(* RemoveNode                                                              *)

Go(c, s) == pcall' = [pcall EXCEPT ![c] = s]
Return(c) == Go(c, "idle") /\ target' = [target EXCEPT ![c] = None]
                           /\ rid' = [rid EXCEPT ![c] = None]

RemoveNode(c, n) ==
    /\ session.verified /\ pcall[c] = "idle"
    /\ Go(c, "dashboard") /\ target' = [target EXCEPT ![c] = n]
    /\ UNCHANGED <<diskVars, running, idVars, web, jobVars, rid, wiped, mistaken>>

OnRecord(n, w) == {i \in web : nameOf[i] = n /\ ownerOf[i] = w}
BelongsTo(n, w) == identity[n] # None /\ ownerOf[identity[n]] = w

\* The dashboard: a node on record is to be offboarded; one that is only here,
\* as every node of the wallet is when node web does not answer, is not.
RemoveLooks(c) ==
    /\ pcall[c] = "dashboard" /\ session.verified
    /\ \/ \E i \in OnRecord(target[c], session.wallet) : rid' = [rid EXCEPT ![c] = i]
       \/ BelongsTo(target[c], session.wallet) /\ UNCHANGED rid
    /\ Go(c, "stop")
    /\ UNCHANGED <<diskVars, running, idVars, web, jobVars, target, wiped, mistaken>>

\* Stop, when the node is seen to run, which NodeProcess shows it may not be.
RemoveStops(c) ==
    /\ pcall[c] = "stop"
    /\ running' \in {running, running \ {target[c]}}
    /\ Go(c, IF rid[c] = None THEN "remove" ELSE "inactive")
    /\ UNCHANGED <<diskVars, idVars, web, jobVars, target, rid, wiped, mistaken>>

\* Mutant: the waits for the node to be inactive and for the signature have no
\* time limit.
GivesUpEarlyOnly(c) ==
    /\ pcall[c] \in {"dashboard", "stop"}
    /\ Return(c)
    /\ UNCHANGED <<diskVars, running, idVars, web, jobVars, wiped, mistaken>>

\* An early return: signed out, no such node, a stake return under way, a
\* process that cannot be stopped, the node still active, no signature in time
\* or one of another wallet.
RemoveGivesUp(c) ==
    /\ pcall[c] \in {"dashboard", "stop", "inactive"}
    /\ Return(c)
    /\ UNCHANGED <<diskVars, running, idVars, web, jobVars, wiped, mistaken>>

\* WaitForNodeInactive, and the signature in the browser; node web learns
\* late that a node has been started again.
RemoveSigned(c) ==
    /\ pcall[c] = "inactive"
    /\ Go(c, "offboard")
    /\ UNCHANGED <<diskVars, running, idVars, web, jobVars, target, rid, wiped, mistaken>>

\* Mutant: the files go whether or not node web has carried out the request.
OffboardUnchecked(c) ==
    /\ pcall[c] = "offboard"
    /\ web' \in {web, web \ {rid[c]}}
    /\ Go(c, "remove") /\ UNCHANGED <<target, rid>>
    /\ UNCHANGED <<diskVars, running, idVars, jobVars, wiped, mistaken>>

\* OffboardNode: carried out and answered, carried out with the answer lost,
\* or refused.
RemoveOffboards(c) ==
    /\ pcall[c] = "offboard"
    /\ \/ web' = web \ {rid[c]} /\ Go(c, "remove") /\ UNCHANGED <<target, rid>>
       \/ web' \in {web, web \ {rid[c]}} /\ Return(c)
    /\ UNCHANGED <<diskVars, running, idVars, jobVars, wiped, mistaken>>

\* RemoveNodeLocalSetup: the identity, the key and the database, by name,
\* whatever id they are of by now.
RemoveFiles(c) ==
    /\ pcall[c] = "remove"
    /\ LET n == target[c] IN
         /\ identity' = [identity EXCEPT ![n] = None]
         /\ keyFile' = [keyFile EXCEPT ![n] = None]
         /\ IF rid[c] = None
              THEN wiped' = wiped \cup ({identity[n]} \ {None}) /\ UNCHANGED mistaken
              ELSE /\ mistaken' = mistaken \cup ({identity[n]} \ {rid[c], None})
                   /\ UNCHANGED wiped
    /\ Return(c)
    /\ UNCHANGED <<session, shared, running, idVars, web, jobVars>>

-----------------------------------------------------------------------------
\* The application ends, by itself or not, and is started anew: calls and job
\* are gone, the files and the processes stay.
Restart ==
    /\ pcall' = [c \in Calls |-> "idle"] /\ target' = [c \in Calls |-> None]
    /\ rid' = [c \in Calls |-> None] /\ JobEnds
    /\ UNCHANGED <<diskVars, running, idVars, web, wiped, mistaken>>

Job == RegisterChecks \/ JobSigned \/ JobConfigures \/ JobWritesKey \/ JobRegisters
RemoveSteps(c) == RemoveLooks(c) \/ RemoveStops(c) \/ RemoveGivesUp(c)
                  \/ RemoveOffboards(c) \/ RemoveFiles(c)

Next ==
    \/ \E w \in Wallets, v \in BOOLEAN : SignIn(w, v)
    \/ SignOut \/ EnsureSharedSetup \/ Job \/ Restart
    \/ \E n \in Names : RegisterNode(n) \/ StartNode(n) \/ NodeStops(n)
    \/ \E c \in Calls : RemoveSteps(c) \/ RemoveSigned(c) \/ \E n \in Names : RemoveNode(c, n)

\* Every wait of the job and of RemoveNode has a time limit; a user acts or
\* signs, and a node ends, when they like.
Spec == /\ Init /\ [][Next]_vars
        /\ WF_vars(Job) /\ \A c \in Calls : WF_vars(RemoveSteps(c))

-----------------------------------------------------------------------------
\* A node on record at node web has its identity and its private key here,
\* whatever failed, was lost or crashed on the way, with two exceptions: a
\* RemoveNode that took the node of the name for a local one deleted them, or
\* one that had offboarded another id of the name did.
RegisteredHasFiles ==
    \A i \in web \ (wiped \cup mistaken) :
      identity[nameOf[i]] = i /\ keyFile[nameOf[i]] = i

\* "Network registration was already cleared": what RemoveNode reports when it
\* deletes the files of a node without offboarding it.  It does not hold when
\* node web did not answer.
ClearedBeforeRemoval == web \cap wiped = {}

\* "Remove ... from this computer and the network?", asks the front end: the
\* node whose files RemoveNode deletes is the one it has offboarded.  It does
\* not hold when a second id was registered under the name of the first.
RemovesSameNode == web \cap mistaken = {}

\* A registration comes to an end: registerActive does not stay set.
RegisterEnds == regActive ~> ~ regActive

\* RemoveNode returns, whatever node web, the browser and the node do.
RemoveReturns == \A c \in Calls : pcall[c] # "idle" ~> pcall[c] = "idle"
=============================================================================
