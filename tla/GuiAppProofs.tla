---------------------------- MODULE GuiAppProofs ----------------------------
(***************************************************************************)
(* A node on record at node web has its keys here, for every number of     *)
(* names, ids, wallets and overlapping removals.                           *)
(***************************************************************************)
EXTENDS GuiApp, TLAPS

\* Ids on record have been generated for a name; the id of the job is not on record yet.
RecordKnown ==
    /\ \A i \in web : nameOf[i] # None
    /\ jid # None => jid \notin web /\ nameOf[jid] = jname
    /\ jpc # "idle" => jname # None
    /\ regActive <=> jpc # "idle"
    /\ jid = None <=> jpc \in {"idle", "checks"}

\* A removal is of an id once on record, so not of the job's; after the offboarding
\* the id is off the record and stays off.
RemovalKnown ==
    \A c \in Calls : rid[c] # None =>
      /\ pcall[c] \notin {"idle", "dashboard"}
      /\ nameOf[rid[c]] # None /\ rid[c] # jid
      /\ pcall[c] = "remove" => rid[c] \notin web
\* A removal at work has a target.
RemovalTargets == \A c \in Calls : pcall[c] # "idle" => target[c] # None

\* The ids whose files went without their being offboarded.
Deleted == wiped \cup mistaken

\* Between its two files the job finds its own identity file or none; once it has
\* written both they are there, or a removal has deleted them.
JobFiles ==
    /\ jpc = "keyfile" => /\ identity[jname] \in {jid, None}
                          /\ identity[jname] = jid \/ jid \in Deleted
    /\ jpc = "register" => \/ identity[jname] = jid /\ keyFile[jname] = jid
                           \/ jid \in Deleted

AppInv == /\ TypeOK /\ RecordKnown /\ RemovalKnown /\ RemovalTargets
          /\ JobFiles /\ RegisteredHasFiles

-----------------------------------------------------------------------------
\* The application starts with nothing on record, so the invariant holds.
LEMMA InitAppInv == Init => AppInv
<1> SUFFICES ASSUME Init PROVE AppInv
  OBVIOUS
<1>1. TypeOK
  BY DEF Init, TypeOK
<1> QED BY <1>1
        DEF Init, AppInv, RecordKnown, RemovalKnown, RemovalTargets, JobFiles, RegisteredHasFiles,
            Deleted

\* Every step of the user, the job, a removal or node web keeps the types.
LEMMA StepType == TypeOK /\ RemovalTargets /\ RecordKnown /\ [Next]_vars => TypeOK'
<1> SUFFICES ASSUME TypeOK, RemovalTargets, RecordKnown, [Next]_vars PROVE TypeOK'
  OBVIOUS
<1> USE DEF TypeOK, diskVars, idVars, jobVars, removeVars
<1>1. ASSUME NEW w \in Wallets, NEW v \in BOOLEAN, SignIn(w, v) PROVE TypeOK'
  <2>1. session' \in [wallet : Wallets \cup {None}, verified : BOOLEAN]
    BY <1>1, Zenon DEF SignIn
  <2> QED BY <1>1, <2>1 DEF SignIn
<1>2. CASE SignOut \/ EnsureSharedSetup
  <2>1. CASE SignOut
    <3>1. [wallet |-> None, verified |-> FALSE] \in [wallet : Wallets \cup {None}, verified : BOOLEAN]
      OBVIOUS
    <3> QED BY <2>1, <3>1 DEF SignOut
  <2>2. CASE EnsureSharedSetup
    <3>1. shared' \in BOOLEAN
      BY <2>2, Zenon DEF EnsureSharedSetup
    <3> QED BY <2>2, <3>1 DEF EnsureSharedSetup
  <2> QED BY <1>2, <2>1, <2>2
<1>3. CASE RegisterChecks
  <2>1. /\ nameOf' \in [Ids -> Names \cup {None}] /\ ownerOf' \in [Ids -> Wallets \cup {None}]
        /\ jpc' \in {"idle", "signing"} /\ jname' \in Names \cup {None} /\ jid' \in Ids \cup {None}
    BY <1>3 DEF RegisterChecks, JobEnds
  <2>2. regActive' \in BOOLEAN
    BY <1>3 DEF RegisterChecks, JobEnds
  <2> QED BY <1>3, <2>1, <2>2 DEF RegisterChecks
<1>4. CASE JobSigned
  BY <1>4 DEF JobSigned, JobEnds
<1>5. CASE JobConfigures
  BY <1>5 DEF JobConfigures, JobEnds
<1>6. CASE JobWritesKey
  BY <1>6 DEF JobWritesKey, JobEnds
<1>7. CASE JobRegisters
  <2>1. jid \in Ids
    BY <1>7 DEF JobRegisters, RecordKnown
  <2> QED BY <1>7, <2>1 DEF JobRegisters, JobEnds
<1>8. CASE Restart
  BY <1>8 DEF Restart, JobEnds
<1>9. ASSUME NEW n \in Names, RegisterNode(n) PROVE TypeOK'
  BY <1>9 DEF RegisterNode
<1>10. ASSUME NEW n \in Names, StartNode(n) \/ NodeStops(n) PROVE TypeOK'
  BY <1>10 DEF StartNode, NodeStops
<1>11. ASSUME NEW c \in Calls, NEW n \in Names, RemoveNode(c, n) PROVE TypeOK'
  BY <1>11 DEF RemoveNode, Go
<1>12. ASSUME NEW c \in Calls, RemoveLooks(c) \/ RemoveStops(c) \/ RemoveSigned(c) PROVE TypeOK'
  <2>1. CASE RemoveLooks(c)
    <3>1. rid' \in [Calls -> Ids \cup {None}]
      BY <2>1 DEF RemoveLooks, OnRecord
    <3> QED BY <2>1, <3>1 DEF RemoveLooks, Go
  <2>2. CASE RemoveStops(c)
    BY <2>2 DEF RemoveStops, Go
  <2>3. CASE RemoveSigned(c)
    BY <2>3 DEF RemoveSigned, Go
  <2> QED BY <1>12, <2>1, <2>2, <2>3
<1>13. ASSUME NEW c \in Calls, RemoveGivesUp(c) \/ RemoveOffboards(c) PROVE TypeOK'
  BY <1>13 DEF RemoveGivesUp, RemoveOffboards, Go, Return
<1>14. ASSUME NEW c \in Calls, RemoveFiles(c) PROVE TypeOK'
  <2>1. target[c] \in Names
    BY <1>14 DEF RemoveFiles, RemovalTargets
  <2>2. wiped' \subseteq Ids /\ mistaken' \subseteq Ids
    BY <1>14, <2>1 DEF RemoveFiles
  <2>3. /\ identity' \in [Names -> Ids \cup {None}] /\ keyFile' \in [Names -> Ids \cup {None}]
        /\ UNCHANGED <<session, shared, running, idVars, web, jobVars>>
    BY <1>14, <2>1 DEF RemoveFiles
  <2>4. /\ pcall' = [pcall EXCEPT ![c] = "idle"] /\ target' = [target EXCEPT ![c] = None]
        /\ rid' = [rid EXCEPT ![c] = None]
    BY <1>14 DEF RemoveFiles, Go, Return
  <2> QED BY <2>2, <2>3, <2>4
<1>15. CASE UNCHANGED vars
  BY <1>15 DEF vars
<1> QED BY <1>1, <1>2, <1>3, <1>4, <1>5, <1>6, <1>7, <1>8, <1>9, <1>10, <1>11, <1>12, <1>13, <1>14, <1>15
        DEF Next, Job, RemoveSteps

-----------------------------------------------------------------------------
Rest == RecordKnown /\ RemovalKnown /\ RemovalTargets /\ JobFiles /\ RegisteredHasFiles

\* Every step keeps the relations between files, records, job and removals.
LEMMA StepRest == TypeOK /\ Rest /\ [Next]_vars => Rest'
<1> SUFFICES ASSUME TypeOK, Rest, [Next]_vars PROVE Rest'
  OBVIOUS
<1> USE AppAssumption
    DEF TypeOK, diskVars, idVars, jobVars, removeVars, Rest, Deleted
\* Steps that concern neither files nor records.
<1>1. ASSUME UNCHANGED <<identity, keyFile, idVars, web, jobVars, removeVars>> PROVE Rest'
  BY <1>1 DEF RecordKnown, RemovalKnown, RemovalTargets, JobFiles, RegisteredHasFiles
\* The job, or all of the application, ends: what the job leaves behind is on disk.
<1>2. ASSUME JobEnds, UNCHANGED <<identity, keyFile, nameOf, web, removeVars>> PROVE Rest'
  BY <1>2 DEF JobEnds, RecordKnown, RemovalKnown, RemovalTargets, JobFiles, RegisteredHasFiles
<1>3. CASE RegisterChecks
  <2>1. ASSUME NEW i \in Ids, nameOf[i] = None, nameOf' = [nameOf EXCEPT ![i] = jname],
               jid' = i, jpc' = "signing", jname' = jname,
               UNCHANGED <<identity, keyFile, web, removeVars, regActive>>, jname # None,
               regActive
        PROVE  Rest'
    <3>1. i \notin web /\ \A c \in Calls : rid[c] # i
      BY <2>1 DEF RecordKnown, RemovalKnown
    <3> QED BY <2>1, <3>1
            DEF RecordKnown, RemovalKnown, RemovalTargets, JobFiles, RegisteredHasFiles
  <2>2. jname # None /\ regActive
    BY <1>3 DEF RegisterChecks, RecordKnown
  <2> QED BY <1>2, <1>3, <2>1, <2>2 DEF RegisterChecks
<1>4. CASE JobSigned
  <2>1. ASSUME jpc = "signing", jpc' = "config", UNCHANGED <<jname, jid, regActive, identity, keyFile, nameOf, web, removeVars>>
        PROVE  Rest'
    BY <2>1 DEF RecordKnown, RemovalKnown, RemovalTargets, JobFiles, RegisteredHasFiles
  <2> QED BY <1>2, <1>4, <2>1 DEF JobSigned
<1>5. CASE JobConfigures
  <2>1. ASSUME jpc = "config", identity[jname] = None, identity' = [identity EXCEPT ![jname] = jid],
               jpc' = "keyfile", UNCHANGED <<jname, jid, regActive, keyFile, nameOf, web, removeVars>>
        PROVE  Rest'
    <3>1. jid \in Ids /\ jname \in Names /\ nameOf[jid] = jname
      BY <2>1 DEF RecordKnown
    <3>2. \A i \in web \ Deleted : nameOf[i] # jname
      BY <2>1 DEF RegisteredHasFiles
    <3>3. RegisteredHasFiles'
      BY <2>1, <3>2 DEF RegisteredHasFiles, RecordKnown
    <3>4. JobFiles'
      BY <2>1, <3>1 DEF JobFiles, RecordKnown
    <3> QED BY <2>1, <3>3, <3>4 DEF RecordKnown, RemovalKnown, RemovalTargets
  <2> QED BY <1>2, <1>5, <2>1 DEF JobConfigures
<1>6. CASE JobWritesKey
  <2>1. ASSUME jpc = "keyfile", keyFile' = [keyFile EXCEPT ![jname] = jid],
               jpc' = "register", UNCHANGED <<jname, jid, regActive, identity, nameOf, web, removeVars>>
        PROVE  Rest'
    <3>1. jid \in Ids /\ jname \in Names /\ nameOf[jid] = jname /\ jid \notin web
      BY <2>1 DEF RecordKnown
    <3>2. \A i \in web \ Deleted : nameOf[i] # jname
      BY <2>1, <3>1 DEF RegisteredHasFiles, JobFiles
    <3>3. RegisteredHasFiles'
      BY <2>1, <3>2 DEF RegisteredHasFiles, RecordKnown
    <3>4. JobFiles'
      BY <2>1, <3>1 DEF JobFiles, RecordKnown
    <3> QED BY <2>1, <3>3, <3>4 DEF RecordKnown, RemovalKnown, RemovalTargets
  <2> QED BY <1>2, <1>6, <2>1 DEF JobWritesKey
<1>7. CASE JobRegisters
  <2>1. jid \in Ids /\ nameOf[jid] = jname /\ jname # None
    BY <1>7 DEF JobRegisters, RecordKnown
  <2>2. RegisteredHasFiles'
    BY <1>7, <2>1 DEF JobRegisters, JobFiles, RegisteredHasFiles
  <2>3. RemovalKnown'
    BY <1>7 DEF JobRegisters, JobEnds, RemovalKnown
  <2>4. RecordKnown' /\ JobFiles'
    BY <1>7, <2>1 DEF JobRegisters, JobEnds, RecordKnown, JobFiles
  <2> QED BY <1>7, <2>2, <2>3, <2>4 DEF JobRegisters, RemovalTargets
<1>8. CASE Restart
  BY <1>8 DEF Restart, JobEnds, RecordKnown, RemovalKnown, RemovalTargets, JobFiles, RegisteredHasFiles
<1>9. ASSUME NEW n \in Names, RegisterNode(n) PROVE Rest'
  BY <1>9 DEF RegisterNode, RecordKnown, RemovalKnown, RemovalTargets, JobFiles, RegisteredHasFiles
\* Steps of a removal that leave files and records alone.
<1>10. ASSUME NEW c \in Calls, NEW n \in Names, RemoveNode(c, n) PROVE Rest'
  BY <1>10 DEF RemoveNode, Go, RecordKnown, RemovalKnown, RemovalTargets, JobFiles, RegisteredHasFiles
<1>11. ASSUME NEW c \in Calls, RemoveLooks(c) PROVE Rest'
  <2>1. \A d \in Calls \ {c} : rid'[d] = rid[d] /\ pcall'[d] = pcall[d]
    BY <1>11 DEF RemoveLooks, Go
  <2>2. pcall'[c] = "stop" /\ (rid'[c] # None => rid'[c] \in web)
    BY <1>11 DEF RemoveLooks, Go, OnRecord, RemovalKnown
  <2>3. UNCHANGED <<nameOf, web, jid>>
    BY <1>11 DEF RemoveLooks
  <2>4. RemovalKnown'
    BY <2>1, <2>2, <2>3 DEF RemovalKnown, RecordKnown
  <2> QED BY <1>11, <2>4
          DEF RemoveLooks, Go, RecordKnown, RemovalTargets, JobFiles, RegisteredHasFiles
<1>12. ASSUME NEW c \in Calls, RemoveStops(c) \/ RemoveSigned(c) PROVE Rest'
  BY <1>12 DEF RemoveStops, RemoveSigned, Go, RecordKnown, RemovalKnown, RemovalTargets, JobFiles,
               RegisteredHasFiles
<1>13. ASSUME NEW c \in Calls, RemoveGivesUp(c) PROVE Rest'
  BY <1>13 DEF RemoveGivesUp, Go, Return, RecordKnown, RemovalKnown, RemovalTargets, JobFiles,
               RegisteredHasFiles
<1>14. ASSUME NEW c \in Calls, RemoveOffboards(c) PROVE Rest'
  <2>1. web' \subseteq web
    BY <1>14 DEF RemoveOffboards
  <2>2. RemovalKnown' /\ RemovalTargets'
    BY <1>14, <2>1 DEF RemoveOffboards, Go, Return, RemovalKnown, RemovalTargets
  <2> QED BY <1>14, <2>1, <2>2 DEF RemoveOffboards, RecordKnown, JobFiles, RegisteredHasFiles
\* The files of a name go: of an id off the record, or of one that is not the removal's.
<1>15. ASSUME NEW c \in Calls, RemoveFiles(c) PROVE Rest'
  <2> DEFINE n == target[c]
  <2>1. /\ n \in Names /\ pcall[c] = "remove"
        /\ identity' = [identity EXCEPT ![n] = None] /\ keyFile' = [keyFile EXCEPT ![n] = None]
        /\ Deleted' = Deleted \cup ({identity[n]} \ {rid[c], None})
        /\ UNCHANGED <<nameOf, web, jpc, jname, jid, regActive>>
    BY <1>15 DEF RemoveFiles, RemovalTargets
  <2>2. RemovalKnown' /\ RemovalTargets'
    BY <1>15, <2>1 DEF RemoveFiles, Return, Go, RemovalKnown, RemovalTargets
  <2>3. \A i \in web \ Deleted' : nameOf[i] # n
    <3> SUFFICES ASSUME NEW i \in web, i \notin Deleted', nameOf[i] = n PROVE FALSE
      OBVIOUS
    <3>1. identity[n] = i
      BY <2>1 DEF RegisteredHasFiles
    <3>2. i = rid[c]
      BY <2>1, <3>1
    <3> QED BY <2>1, <3>2 DEF RemovalKnown
  <2>4. RegisteredHasFiles'
    BY <2>1, <2>3 DEF RegisteredHasFiles, RecordKnown
  <2>5. JobFiles'
    <3>1. rid[c] # jid \/ jid = None
      BY DEF RemovalKnown
    <3> QED BY <2>1, <3>1 DEF JobFiles, RecordKnown
  <2> QED BY <2>1, <2>2, <2>4, <2>5 DEF RecordKnown
<1> QED BY <1>1, <1>3, <1>4, <1>5, <1>6, <1>7, <1>8, <1>9, <1>10, <1>11, <1>12, <1>13, <1>14, <1>15
        DEF Next, Job, RemoveSteps, SignIn, SignOut, EnsureSharedSetup, StartNode, NodeStops, vars

-----------------------------------------------------------------------------
\* The inductive invariant holds in every state of every behaviour.
THEOREM AppInvariant == Spec => []AppInv
<1>1. AppInv /\ [Next]_vars => AppInv'
  BY StepType, StepRest DEF AppInv, Rest
<1> QED BY InitAppInv, <1>1, PTL DEF Spec

\* RegisterNode and RemoveNode never part a node on record from its keys, but for two
\* kinds of removals: of a node taken for a local one, and of a name under which another
\* id was offboarded.
THEOREM KeysAreKept == Spec => []RegisteredHasFiles
  BY AppInvariant, PTL DEF AppInv
=============================================================================
