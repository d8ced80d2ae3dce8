--------------------------- MODULE NodeProcessProofs ---------------------------
(***************************************************************************)
(* No node process survives a confirmed close of the application that is   *)
(* left to finish, for any number of node names, processes and overlapping *)
(* calls.                                                                  *)
(***************************************************************************)
EXTENDS NodeProcess, TLAPS

Started == {p \in Pids : life[p] # "unused"}

\* Pids stand for processes that have been started, for a name: those in the table, in
\* the pid files and in the locals of calls.
PidsStarted ==
    /\ \A p \in Started : owner[p] \in Names
    /\ \A n \in Names : table[n] \in Started \cup {None} /\ pidFile[n] \in Started \cup {None}
    /\ \A c \in Calls : targets[c] \cup blind[c] \subseteq Started /\ cur[c] \in Started \cup {None}
    /\ doomed \subseteq Started

\* What a call knows at its place in the code.
CallLocals ==
    \A c \in Calls :
      /\ pcall[c] \in {"check", "spawn", "record", "pidfile"} => arg[c] \in Names
      /\ pcall[c] \in {"record", "pidfile"} => cur[c] # None
      /\ pcall[c] \in {"track", "find", "wait", "clear"} => arg[c] \in Names \cup {All}
      /\ pcall[c] = "clear" => cur[c] # None /\ life[cur[c]] = "dead"
      /\ pcall[c] = "quit" => c \in quits

\* One prompt or one confirmed close at a time, of every node.
OneClose ==
    /\ \A c \in Calls : pcall[c] = "prompt" => prompt /\ ~ quitting /\ arg[c] = All
    /\ \A c, d \in Calls : pcall[c] = "prompt" /\ pcall[d] = "prompt" => c = d
    /\ \A c, d \in quits : c = d
    /\ \A c \in quits : /\ quitting /\ arg[c] = All
                        /\ pcall[c] \in {"track", "find", "wait", "clear", "quit"}

\* Until the close is through, what it found alive is dead or among its targets.
DoomedTargeted ==
    \A c \in quits :
      /\ pcall[c] \in {"wait", "clear"} => \A p \in doomed : Alive(p) => p \in targets[c] \cup blind[c]
      /\ pcall[c] = "quit" => \A p \in doomed : ~ Alive(p)

\* Nothing runs in an application that has ended.
GoneIdle == gone => \A c \in Calls : pcall[c] = "idle"

ProcessInv ==
    /\ TypeOK /\ PidsStarted /\ CallLocals /\ OneClose /\ DoomedTargeted /\ GoneIdle
    /\ QuitLeavesNone

--------------------------------------------------------------------------------
(* Processes and pid files                                                    *)

\* Looking at the pid files drops some and changes none.
LEMMA LookDrops ==
  ASSUME TypeOK
  PROVE  /\ LivePidFiles \in [Names -> Pids \cup {None}]
         /\ \A n \in Names : LivePidFiles[n] \in {pidFile[n], None}
  BY DEF TypeOK, LivePidFiles

\* A process that was started stays so, under its name, and never comes back to life.
Ages ==
    /\ Started \subseteq Started'
    /\ \A p \in Started : /\ Alive(p)' => Alive(p)
                          /\ life[p] = "dead" => life'[p] = "dead"
                          /\ owner'[p] = owner[p]

\* No step of the application or of a node brings a process back.
LEMMA LifeMoves ==
  ASSUME TypeOK, [Next]_vars PROVE Ages
<1> USE DEF Started, Alive, Ages
<1>1. ASSUME UNCHANGED osVars PROVE Ages
  BY <1>1 DEF osVars
<1>2. ASSUME NEW q \in Pids, NEW l \in {"closing", "dead"}, Alive(q) \/ l = "dead",
             life' = [life EXCEPT ![q] = l], UNCHANGED owner PROVE Ages
  BY <1>2 DEF TypeOK
<1>3. ASSUME NEW q \in Pids, life[q] = "unused", NEW n,
             life' = [life EXCEPT ![q] = "live"], owner' = [owner EXCEPT ![q] = n] PROVE Ages
  BY <1>3 DEF TypeOK
<1>4. ASSUME NEW p \in Pids, SeeStopFile(p) \/ Exit(p)
      PROVE  \E l \in {"closing", "dead"} : Alive(p) /\ life' = [life EXCEPT ![p] = l] /\ UNCHANGED owner
  BY <1>4 DEF SeeStopFile, Exit
<1>5. ASSUME NEW p \in Pids, WaiterSteps(p) PROVE UNCHANGED osVars
  BY <1>5 DEF WaiterSteps, WaiterUnlists, WaiterCleans
<1>6. ASSUME NEW c \in Calls, NEW n \in Names \cup {All}, StartNode(c, n) \/ StopNode(c, n)
      PROVE  UNCHANGED osVars
  BY <1>6 DEF StartNode, StopNode
<1>7. ASSUME NEW c \in Calls,
             \/ CloseAsked(c) \/ CloseAnswered(c) \/ StartCheck(c) \/ StartRecord(c) \/ StartPidFile(c)
             \/ StartReport(c) \/ StopTrack(c) \/ StopFind(c) \/ StopClear(c) \/ StopDone(c) \/ Quit(c)
      PROVE  UNCHANGED osVars
  BY <1>7 DEF CloseAsked, CloseAnswered, StartCheck, StartRecord, StartPidFile, StartReport, StopTrack,
              StopFind, StopClear, StopDone, Quit, Ends
<1>8. ASSUME NEW c \in Calls, StartSpawn(c)
      PROVE  \/ UNCHANGED osVars
             \/ \E q \in Pids : /\ life[q] = "unused" /\ life' = [life EXCEPT ![q] = "live"]
                                /\ owner' = [owner EXCEPT ![q] = arg[c]]
  BY <1>8 DEF StartSpawn
<1>9. ASSUME NEW c \in Calls, NEW p \in Pids, StopWait(c, p)
      PROVE  life' = [life EXCEPT ![p] = "dead"] /\ UNCHANGED owner
  BY <1>9 DEF StopWait
<1>10. CASE ListRunning \/ CloseAgain \/ Restart \/ UNCHANGED vars
  <2>1. UNCHANGED osVars
    BY <1>10 DEF ListRunning, CloseAgain, Restart, Ends, vars, osVars
  <2> QED BY <1>1, <2>1
<1>11. ASSUME NEW p \in Pids, SeeStopFile(p) \/ Exit(p) \/ WaiterSteps(p) PROVE Ages
  BY <1>1, <1>2, <1>4, <1>5, <1>11
<1>12. ASSUME NEW c \in Calls, CallSteps(c) PROVE Ages
  BY <1>1, <1>2, <1>3, <1>7, <1>8, <1>9, <1>12 DEF CallSteps
<1> QED BY <1>1, <1>6, <1>7, <1>10, <1>11, <1>12 DEF Next
--------------------------------------------------------------------------------
(* Types, and pids that stand for processes                                   *)

\* The locals of calls are well typed, and hold pids of started processes.
LocalsOK ==
    /\ pcall \in [Calls -> Places]
    /\ arg \in [Calls -> Names \cup {All, None}] /\ quits \subseteq Calls
    /\ targets \in [Calls -> SUBSET Pids] /\ blind \in [Calls -> SUBSET Pids]
    /\ cur \in [Calls -> Pids \cup {None}]
    /\ \A c \in Calls : targets[c] \cup blind[c] \subseteq Started /\ cur[c] \in Started \cup {None}

\* The table and the pid files hold pids of started processes.
FilesOK ==
    /\ table \in [Names -> Pids \cup {None}] /\ pidFile \in [Names -> Pids \cup {None}]
    /\ \A n \in Names : table[n] \in Started \cup {None} /\ pidFile[n] \in Started \cup {None}

\* The processes, and what waits for them.
SystemOK ==
    /\ life \in [Pids -> {"unused", "live", "closing", "dead"}]
    /\ owner \in [Pids -> Names \cup {None}]
    /\ \A p \in Started : owner[p] \in Names
    /\ stopFile \subseteq Names
    /\ waiter \in [Pids -> {"off", "wait", "unlisted"}]

\* The close of the application.
CloseOK ==
    /\ prompt \in BOOLEAN /\ quitting \in BOOLEAN /\ gone \in BOOLEAN /\ hurried \in BOOLEAN
    /\ doomed \subseteq Started

\* The types, in four parts that different steps disturb.
LEMMA TypesSplit == TypeOK /\ PidsStarted <=> LocalsOK /\ FilesOK /\ SystemOK /\ CloseOK
  BY DEF TypeOK, PidsStarted, LocalsOK, FilesOK, SystemOK, CloseOK, Started

\* Both sides of a call: what it leaves alone, and its return.
LEMMA LocalsKept == ASSUME LocalsOK, Ages, UNCHANGED callVars PROVE LocalsOK'
  BY DEF LocalsOK, Ages, callVars

\* A call that returns leaves its locals well typed.
LEMMA ReturnKeeps ==
  ASSUME LocalsOK, Ages, NEW c \in Calls, Return(c)
  PROVE  LocalsOK'
<1>1. "idle" \in Places
  BY DEF Places
<1> QED BY <1>1 DEF LocalsOK, Ages, Return, Go

\* A call that moves on to another place of the code keeps its locals.
LEMMA GoKeeps ==
  ASSUME LocalsOK, Ages, NEW c \in Calls, NEW s \in Places, Go(c, s),
         UNCHANGED <<arg, quits, targets, blind, cur>>
  PROVE  LocalsOK'
  BY DEF LocalsOK, Ages, Go

\* A call that begins has well typed locals.
LEMMA BeginKeeps ==
  ASSUME LocalsOK, Ages, NEW c \in Calls, NEW s \in Places, NEW n \in Names \cup {All}, Begin(c, s, n)
  PROVE  LocalsOK'
  BY DEF LocalsOK, Ages, Begin, Go

\* Each step of a call keeps its locals in order.
LEMMA StepLocals ==
  ASSUME ProcessInv, Ages, [Next]_vars
  PROVE  LocalsOK'
<1>1. TypeOK /\ LocalsOK /\ FilesOK /\ SystemOK
  BY TypesSplit DEF ProcessInv
<1>2. ASSUME NEW p \in Pids, SeeStopFile(p) \/ Exit(p) \/ WaiterSteps(p) PROVE LocalsOK'
  BY <1>1, <1>2, LocalsKept DEF SeeStopFile, Exit, WaiterSteps, WaiterUnlists, WaiterCleans
<1>3. ASSUME NEW c \in Calls, NEW n \in Names \cup {All}, StartNode(c, n) \/ StopNode(c, n) PROVE LocalsOK'
  BY <1>1, <1>3, BeginKeeps DEF StartNode, StopNode, Places
<1>4. ASSUME NEW c \in Calls, CloseAsked(c) PROVE LocalsOK'
  BY <1>1, <1>4, BeginKeeps DEF CloseAsked, Places
<1>5. ASSUME NEW c \in Calls, CloseAnswered(c) PROVE LocalsOK'
  <2>1. CASE Return(c)
    BY <1>1, <2>1, ReturnKeeps
  <2>2. CASE /\ Go(c, "track") /\ quits' = quits \cup {c}
             /\ UNCHANGED <<arg, targets, blind, cur>>
    BY <1>1, <2>2 DEF LocalsOK, Ages, Go, Places
  <2> QED BY <1>5, <2>1, <2>2 DEF CloseAnswered
<1>6. ASSUME NEW c \in Calls, StartCheck(c) \/ StartRecord(c) \/ StartPidFile(c) PROVE LocalsOK'
  BY <1>1, <1>6, GoKeeps DEF StartCheck, StartRecord, StartPidFile, Places
<1>7. ASSUME NEW c \in Calls, StartSpawn(c) PROVE LocalsOK'
  <2>1. CASE Return(c)
    BY <1>1, <2>1, ReturnKeeps
  <2>2. ASSUME NEW p \in Pids, life' = [life EXCEPT ![p] = "live"], cur' = [cur EXCEPT ![c] = p],
               Go(c, "record"), UNCHANGED <<arg, quits, targets, blind>>
        PROVE  LocalsOK'
    <3>1. p \in Started'
      BY <1>1, <2>2 DEF Started, SystemOK
    <3> QED BY <1>1, <2>2, <3>1 DEF LocalsOK, Ages, Go, Places
  <2> QED BY <1>7, <2>1, <2>2 DEF StartSpawn
<1>8. ASSUME NEW c \in Calls, StartReport(c) PROVE LocalsOK'
  BY <1>1, <1>8, ReturnKeeps DEF StartReport
<1>9. ASSUME NEW c \in Calls, StopTrack(c) PROVE LocalsOK'
  <2>1. Asked(c) \subseteq Names
    BY <1>9 DEF StopTrack, Asked, ProcessInv, CallLocals
  <2>2. {table[n] : n \in Asked(c)} \ {None} \subseteq Started
    BY <1>1, <2>1 DEF FilesOK
  <2> QED BY <1>1, <1>9, <2>2 DEF StopTrack, LocalsOK, Ages, Go, Places, Started
<1>10. ASSUME NEW c \in Calls, StopFind(c) PROVE LocalsOK'
  <2> DEFINE found == targets[c] \cup ({LivePidFiles[n] : n \in Asked(c)} \ {None})
             rest == findNodeBinaryPIDs(c, found)
  <2>1. Asked(c) \subseteq Names
    BY <1>10 DEF StopFind, Asked, ProcessInv, CallLocals
  <2>2. found \subseteq Started
    BY <1>1, <2>1, LookDrops DEF FilesOK, LocalsOK
  <2>3. rest \subseteq Started
    BY DEF findNodeBinaryPIDs, Alive, Started
  <2>4. /\ targets' = [targets EXCEPT ![c] = found] /\ blind' = [blind EXCEPT ![c] = rest]
        /\ pcall' = [pcall EXCEPT ![c] = "wait"] /\ UNCHANGED <<arg, quits, cur>>
    BY <1>10 DEF StopFind, Go
  <2> HIDE DEF found, rest
  <2> QED BY <1>1, <2>2, <2>3, <2>4 DEF LocalsOK, Ages, Places, Started
<1>11. ASSUME NEW c \in Calls, StopClear(c) PROVE LocalsOK'
  BY <1>1, <1>11 DEF StopClear, LocalsOK, Ages, Go, Places
<1>12. ASSUME NEW c \in Calls, StopDone(c) PROVE LocalsOK'
  <2>1. CASE c \in quits
    BY <1>1, <1>12, <2>1, GoKeeps DEF StopDone, Places
  <2>2. CASE c \notin quits
    BY <1>1, <1>12, <2>2, ReturnKeeps DEF StopDone
  <2> QED BY <2>1, <2>2
<1>13. ASSUME NEW c \in Calls, NEW p \in Pids, StopWait(c, p) PROVE LocalsOK'
  <2>1. p \in Started
    BY <1>1, <1>13 DEF StopWait, LocalsOK
  <2> QED BY <1>1, <1>13, <2>1 DEF StopWait, LocalsOK, Ages, Go, Places
<1>14. ASSUME Ends PROVE LocalsOK'
  BY <1>14 DEF Ends, LocalsOK, Places
<1>15. CASE ListRunning \/ UNCHANGED vars
  BY <1>1, <1>15, LocalsKept DEF ListRunning, vars, callVars
<1>16. ASSUME NEW c \in Calls, CallSteps(c) PROVE LocalsOK'
  BY <1>6, <1>7, <1>8, <1>9, <1>10, <1>11, <1>12, <1>13, <1>14, <1>16 DEF CallSteps, Quit
<1> QED BY <1>2, <1>3, <1>4, <1>5, <1>14, <1>15, <1>16 DEF Next, CloseAgain, Restart
\* Entries and pid files are written with the pid of a call and removed, no more.
LEMMA StepFiles ==
  ASSUME ProcessInv, Ages, [Next]_vars
  PROVE  FilesOK'
<1>1. TypeOK /\ LocalsOK /\ FilesOK
  BY TypesSplit DEF ProcessInv
<1>2. ASSUME table' \in {table, [n \in Names |-> None]}, pidFile' \in {pidFile, LivePidFiles} PROVE FilesOK'
  BY <1>1, <1>2, LookDrops DEF FilesOK, Ages
<1>3. ASSUME NEW n, NEW x, x \in Started \cup {None},
             table' \in {table, [table EXCEPT ![n] = x]}, pidFile' \in {pidFile, [pidFile EXCEPT ![n] = x]}
      PROVE  FilesOK'
  BY <1>1, <1>3 DEF FilesOK, Ages, Started
<1>4. ASSUME NEW p \in Pids, SeeStopFile(p) \/ Exit(p) \/ WaiterSteps(p) PROVE FilesOK'
  <2>1. CASE SeeStopFile(p) \/ Exit(p)
    BY <1>2, <2>1 DEF SeeStopFile, Exit, fileVars
  <2>2. CASE WaiterSteps(p)
    BY <1>3, <2>2 DEF WaiterSteps, WaiterUnlists, WaiterCleans, fileVars
  <2> QED BY <1>4, <2>1, <2>2
<1>5. ASSUME NEW c \in Calls, NEW n \in Names \cup {All}, StartNode(c, n) \/ StopNode(c, n) PROVE FilesOK'
  BY <1>2, <1>5 DEF StartNode, StopNode, fileVars
<1>6. ASSUME NEW c \in Calls,
             \/ CloseAsked(c) \/ CloseAnswered(c) \/ StartCheck(c) \/ StartSpawn(c) \/ StartReport(c)
             \/ StopTrack(c) \/ StopFind(c) \/ StopDone(c)
      PROVE  FilesOK'
  BY <1>2, <1>6 DEF CloseAsked, CloseAnswered, StartCheck, StartSpawn, StartReport, StopTrack, StopFind,
                    StopDone, fileVars
<1>7. ASSUME NEW c \in Calls, StartRecord(c) \/ StartPidFile(c) PROVE FilesOK'
  <2>1. cur[c] \in Started \cup {None}
    BY <1>1 DEF LocalsOK
  <2> QED BY <1>3, <1>7, <2>1 DEF StartRecord, StartPidFile, fileVars
<1>8. ASSUME NEW c \in Calls, StopClear(c) PROVE FilesOK'
  BY <1>3, <1>8 DEF StopClear, fileVars
<1>9. ASSUME NEW c \in Calls, NEW p \in Pids, StopWait(c, p) PROVE FilesOK'
  BY <1>2, <1>9 DEF StopWait, fileVars
<1>10. CASE ListRunning \/ CloseAgain \/ Restart \/ UNCHANGED vars
  BY <1>2, <1>10 DEF ListRunning, CloseAgain, Restart, Ends, vars, fileVars
<1>11. ASSUME NEW c \in Calls, Quit(c) PROVE FilesOK'
  BY <1>2, <1>11 DEF Quit, Ends, fileVars
<1> QED BY <1>4, <1>5, <1>6, <1>7, <1>8, <1>9, <1>10, <1>11 DEF Next, CallSteps

\* Processes have a name once they are started, and stop files are for names.
LEMMA StepSystem ==
  ASSUME ProcessInv, Ages, [Next]_vars
  PROVE  SystemOK'
<1>1. TypeOK /\ LocalsOK /\ FilesOK /\ SystemOK
  BY TypesSplit DEF ProcessInv
<1>2. ASSUME UNCHANGED osVars, stopFile' \subseteq Names, waiter' \in [Pids -> {"off", "wait", "unlisted"}]
      PROVE  SystemOK'
  BY <1>1, <1>2 DEF SystemOK, osVars, Started
<1>3. ASSUME NEW p \in Started, NEW l \in {"closing", "dead"}, life' = [life EXCEPT ![p] = l],
             UNCHANGED <<owner, waiter>>, stopFile' \subseteq stopFile
      PROVE  SystemOK'
  BY <1>1, <1>3 DEF SystemOK, Started
<1>4. ASSUME NEW p \in Pids, SeeStopFile(p) \/ Exit(p) PROVE SystemOK'
  BY <1>3, <1>4 DEF SeeStopFile, Exit, fileVars, Alive, Started
<1>5. ASSUME NEW p \in Pids, WaiterSteps(p) PROVE SystemOK'
  BY <1>1, <1>2, <1>5 DEF WaiterSteps, WaiterUnlists, WaiterCleans, fileVars, SystemOK
<1>6. ASSUME NEW c \in Calls, NEW n \in Names \cup {All}, StartNode(c, n) \/ StopNode(c, n) PROVE SystemOK'
  BY <1>1, <1>2, <1>6 DEF StartNode, StopNode, fileVars, SystemOK
<1>7. ASSUME NEW c \in Calls,
             \/ CloseAsked(c) \/ CloseAnswered(c) \/ StartCheck(c) \/ StartRecord(c) \/ StartReport(c)
             \/ StopTrack(c) \/ StopDone(c)
      PROVE  SystemOK'
  BY <1>1, <1>2, <1>7 DEF CloseAsked, CloseAnswered, StartCheck, StartRecord, StartReport, StopTrack,
                          StopDone, fileVars, SystemOK
<1>8. ASSUME NEW c \in Calls, StartSpawn(c) PROVE SystemOK'
  <2>1. CASE UNCHANGED osVars
    BY <1>1, <1>2, <1>8, <2>1 DEF StartSpawn, fileVars, SystemOK
  <2>2. ASSUME NEW p \in Pids, life' = [life EXCEPT ![p] = "live"], owner' = [owner EXCEPT ![p] = arg[c]]
        PROVE  SystemOK'
    <3>1. arg[c] \in Names
      BY <1>8 DEF StartSpawn, ProcessInv, CallLocals
    <3>2. UNCHANGED <<stopFile, waiter>>
      BY <1>8 DEF StartSpawn, fileVars
    <3> QED BY <1>1, <2>2, <3>1, <3>2 DEF SystemOK, Started
  <2> QED BY <1>8, <2>1, <2>2 DEF StartSpawn
<1>9. ASSUME NEW c \in Calls, StartPidFile(c) PROVE SystemOK'
  BY <1>1, <1>2, <1>9 DEF StartPidFile, SystemOK
<1>10. ASSUME NEW c \in Calls, StopFind(c) PROVE SystemOK'
  <2>1. Asked(c) \subseteq Names
    BY <1>10 DEF StopFind, Asked, ProcessInv, CallLocals
  <2>2. targets[c] \cup ({LivePidFiles[n] : n \in Asked(c)} \ {None}) \subseteq Started
    BY <1>1, <2>1, LookDrops DEF FilesOK, LocalsOK
  <2>3. stopFile' \subseteq Names
    BY <1>1, <1>10, <2>2 DEF StopFind, SystemOK
  <2> QED BY <1>1, <1>2, <1>10, <2>3 DEF StopFind, SystemOK
<1>11. ASSUME NEW c \in Calls, StopClear(c) PROVE SystemOK'
  <2>1. stopFile' \subseteq stopFile
    BY <1>11 DEF StopClear, fileVars
  <2> QED BY <1>1, <1>2, <1>11, <2>1 DEF StopClear, SystemOK
<1>12. ASSUME NEW c \in Calls, NEW p \in Pids, StopWait(c, p) PROVE SystemOK'
  <2>1. p \in Started
    BY <1>1, <1>12 DEF StopWait, LocalsOK
  <2> QED BY <1>3, <1>12, <2>1 DEF StopWait, fileVars
<1>13. ASSUME Ends PROVE SystemOK'
  BY <1>1, <1>2, <1>13 DEF Ends, fileVars, SystemOK
<1>14. CASE ListRunning \/ UNCHANGED vars
  BY <1>1, <1>2, <1>14 DEF ListRunning, vars, osVars, SystemOK
<1>15. ASSUME NEW c \in Calls, CallSteps(c) PROVE SystemOK'
  BY <1>7, <1>8, <1>9, <1>10, <1>11, <1>12, <1>13, <1>15 DEF CallSteps, Quit
<1> QED BY <1>4, <1>5, <1>6, <1>7, <1>13, <1>14, <1>15 DEF Next, CloseAgain, Restart

\* What a close found is started, so Started keeps it.
LEMMA StepClose ==
  ASSUME ProcessInv, Ages, [Next]_vars
  PROVE  CloseOK'
<1>1. CloseOK
  BY TypesSplit DEF ProcessInv
<1>2. ASSUME UNCHANGED quitVars PROVE CloseOK'
  BY <1>1, <1>2 DEF CloseOK, quitVars, Ages
<1>3. ASSUME NEW c \in Calls, CloseAsked(c) \/ CloseAnswered(c) PROVE CloseOK'
  <2>1. prompt' \in BOOLEAN /\ quitting' \in BOOLEAN /\ UNCHANGED <<gone, doomed, hurried>>
    <3>1. CASE CloseAsked(c)
      BY <1>1, <3>1, Zenon DEF CloseAsked, CloseOK
    <3>2. CASE CloseAnswered(c)
      BY <1>1, <3>2, Zenon DEF CloseAnswered, CloseOK
    <3> QED BY <1>3, <3>1, <3>2
  <2> QED BY <1>1, <2>1 DEF CloseOK, Ages
<1>4. ASSUME NEW c \in Calls, StopFind(c) PROVE CloseOK'
  <2>1. doomed' \subseteq Started /\ UNCHANGED <<prompt, quitting, gone, hurried>>
    BY <1>1, <1>4 DEF StopFind, CloseOK, Alive, Started
  <2> QED BY <1>1, <2>1 DEF CloseOK, Ages
<1>5. ASSUME Ends, gone' = TRUE \/ gone' = FALSE, doomed' \in {doomed, {}},
             UNCHANGED hurried \/ hurried' = TRUE \/ hurried' = FALSE PROVE CloseOK'
  <2>1. /\ prompt' \in BOOLEAN /\ quitting' \in BOOLEAN
        /\ gone' \in BOOLEAN /\ hurried' \in BOOLEAN
    BY <1>1, <1>5, Zenon DEF Ends, CloseOK
  <2> QED BY <1>1, <1>5, <2>1 DEF CloseOK, Ages
<1>6. ASSUME NEW p \in Pids, SeeStopFile(p) \/ Exit(p) \/ WaiterSteps(p) PROVE CloseOK'
  BY <1>2, <1>6 DEF SeeStopFile, Exit, WaiterSteps, WaiterUnlists, WaiterCleans
<1>7. ASSUME NEW c \in Calls, NEW n \in Names \cup {All}, StartNode(c, n) \/ StopNode(c, n) PROVE CloseOK'
  BY <1>2, <1>7 DEF StartNode, StopNode
<1>8. ASSUME NEW c \in Calls, CallSteps(c) PROVE CloseOK'
  <2>1. CASE StopFind(c)
    BY <1>4, <2>1
  <2>2. CASE Quit(c)
    BY <1>5, <2>2 DEF Quit
  <2>3. ASSUME ~ StopFind(c), ~ Quit(c) PROVE UNCHANGED quitVars
    BY <1>8, <2>3 DEF CallSteps, StartCheck, StartSpawn, StartRecord, StartPidFile, StartReport, StopTrack,
                      StopClear, StopDone, StopWait
  <2> QED BY <1>2, <2>1, <2>2, <2>3
<1>9. CASE ListRunning \/ UNCHANGED vars
  BY <1>2, <1>9 DEF ListRunning, vars, quitVars
<1> QED BY <1>3, <1>5, <1>6, <1>7, <1>8, <1>9 DEF Next, CloseAgain, Restart
--------------------------------------------------------------------------------
(* Calls                                                                      *)

\* A call leaves the locals of the others alone.
Others(c) == \A d \in Calls \ {c} : /\ pcall'[d] = pcall[d] /\ arg'[d] = arg[d] /\ cur'[d] = cur[d]
                                    /\ targets'[d] = targets[d] /\ blind'[d] = blind[d]

CallStep(c) ==
    \/ \E n \in Names : StartNode(c, n)
    \/ \E n \in Names \cup {All} : StopNode(c, n)
    \/ CloseAsked(c) \/ CloseAnswered(c)
    \/ StartCheck(c) \/ StartSpawn(c) \/ StartRecord(c) \/ StartPidFile(c)
    \/ StartReport(c) \/ StopTrack(c) \/ StopFind(c) \/ StopClear(c) \/ StopDone(c)
    \/ \E p \in Pids : StopWait(c, p)

\* Every step is one of a call, of the whole application, or of no call.
LEMMA StepKinds ==
  ASSUME [Next]_vars
  PROVE  \/ UNCHANGED <<callVars, quitVars>>
         \/ \E c \in Calls : CallStep(c) \/ Quit(c)
         \/ CloseAgain \/ Restart
<1>1. ASSUME NEW p \in Pids, SeeStopFile(p) \/ Exit(p) \/ WaiterSteps(p) PROVE UNCHANGED <<callVars, quitVars>>
  BY <1>1 DEF SeeStopFile, Exit, WaiterSteps, WaiterUnlists, WaiterCleans
<1>2. CASE ListRunning \/ UNCHANGED vars
  BY <1>2 DEF ListRunning, vars, callVars, quitVars
<1> QED BY <1>1, <1>2 DEF Next, CallSteps, CallStep

\* A call's step touches the locals of no other call.
LEMMA CallAlone == ASSUME TypeOK, NEW c \in Calls, CallStep(c) PROVE Others(c)
<1> USE DEF TypeOK, Others
<1>1. CASE \/ \E n \in Names : StartNode(c, n)
           \/ (\E n \in Names \cup {All} : StopNode(c, n)) \/ CloseAsked(c) \/ CloseAnswered(c)
  BY <1>1 DEF StartNode, StopNode, CloseAsked, CloseAnswered, Begin, Go, Return
<1>2. CASE StartCheck(c) \/ StartSpawn(c) \/ StartRecord(c) \/ StartPidFile(c) \/ StartReport(c)
  BY <1>2 DEF StartCheck, StartSpawn, StartRecord, StartPidFile, StartReport, Go, Return
<1>3. CASE StopTrack(c) \/ StopFind(c) \/ StopClear(c) \/ StopDone(c) \/ \E p \in Pids : StopWait(c, p)
  BY <1>3 DEF StopTrack, StopFind, StopClear, StopDone, StopWait, Go, Return
<1> QED BY <1>1, <1>2, <1>3 DEF CallStep

\* What one call knows.
Knows(c) ==
    /\ pcall[c] \in {"check", "spawn", "record", "pidfile"} => arg[c] \in Names
    /\ pcall[c] \in {"record", "pidfile"} => cur[c] # None
    /\ pcall[c] \in {"track", "find", "wait", "clear"} => arg[c] \in Names \cup {All}
    /\ pcall[c] = "clear" => cur[c] # None /\ life[cur[c]] = "dead"
    /\ pcall[c] = "quit" => c \in quits

\* A call that took a step knows what its new place in the code requires.
LEMMA StepKnows == ASSUME ProcessInv, NEW c \in Calls, CallStep(c) PROVE Knows(c)'
<1>1. TypeOK /\ Knows(c) /\ (pcall[c] = "prompt" => arg[c] = All)
  BY DEF ProcessInv, CallLocals, Knows, OneClose
<1> USE <1>1, ProcessAssumption DEF TypeOK, Knows
<1>2. CASE \/ \E n \in Names : StartNode(c, n)
           \/ (\E n \in Names \cup {All} : StopNode(c, n)) \/ CloseAsked(c)
  BY <1>2 DEF StartNode, StopNode, CloseAsked, Begin, Go
<1>3. ASSUME Return(c) PROVE pcall'[c] = "idle"
  BY <1>3 DEF Return, Go
<1>4. CASE CloseAnswered(c)
  BY <1>3, <1>4 DEF CloseAnswered, Go
<1>5. CASE StartCheck(c) \/ StartRecord(c) \/ StartPidFile(c)
  BY <1>5 DEF StartCheck, StartRecord, StartPidFile, Go
<1>6. CASE StartSpawn(c)
  BY <1>3, <1>6 DEF StartSpawn, Go
<1>7. CASE StartReport(c) \/ StopDone(c)
  <2>1. pcall'[c] = "idle" \/ (pcall'[c] = "quit" /\ c \in quits')
    BY <1>3, <1>7 DEF StartReport, StopDone, Go
  <2> QED BY <2>1
<1>8. CASE StopTrack(c) \/ StopFind(c) \/ StopClear(c)
  BY <1>8 DEF StopTrack, StopFind, StopClear, Go
<1>9. ASSUME NEW p \in Pids, StopWait(c, p) PROVE Knows(c)'
  BY <1>9 DEF StopWait, Go
<1> QED BY <1>2, <1>4, <1>5, <1>6, <1>7, <1>8, <1>9 DEF CallStep

\* Every step leaves every call knowing what its place requires.
LEMMA StepCallLocals == ASSUME ProcessInv, Ages, [Next]_vars PROVE CallLocals'
<1>1. TypeOK /\ \A c \in Calls : Knows(c) /\ cur[c] \in Started \cup {None}
  BY DEF ProcessInv, CallLocals, Knows, PidsStarted
<1>2. ASSUME NEW d \in Calls, pcall'[d] = pcall[d], arg'[d] = arg[d], cur'[d] = cur[d], quits \subseteq quits'
      PROVE  Knows(d)'
  BY <1>1, <1>2 DEF Knows, Ages
<1>3. CASE UNCHANGED <<callVars, quitVars>>
  BY <1>2, <1>3 DEF CallLocals, Knows, callVars
<1>4. ASSUME NEW c \in Calls, CallStep(c) PROVE CallLocals'
  <2>1. quits \subseteq quits'
    BY <1>4 DEF CallStep, StartNode, StopNode, CloseAsked, CloseAnswered, Begin, StartCheck, StartSpawn,
                StartRecord, StartPidFile, StartReport, StopTrack, StopFind, StopClear, StopDone, StopWait, Return
  <2>2. Knows(c)' /\ \A d \in Calls \ {c} : Knows(d)'
    BY <1>1, <1>2, <1>4, <2>1, StepKnows, CallAlone DEF Others
  <2> QED BY <2>2 DEF CallLocals, Knows
<1>5. ASSUME Ends PROVE CallLocals'
  BY <1>5 DEF Ends, CallLocals
<1> QED BY <1>3, <1>4, <1>5, StepKinds DEF Quit, CloseAgain, Restart

--------------------------------------------------------------------------------
(* The close                                                                  *)

\* A call that does not close the application stays out of its way.
LEMMA StepOneClose == ASSUME ProcessInv, [Next]_vars PROVE OneClose' /\ GoneIdle'
<1>1. TypeOK /\ OneClose /\ GoneIdle
  BY DEF ProcessInv
<1>2. CASE UNCHANGED <<callVars, quitVars>>
  BY <1>1, <1>2 DEF OneClose, GoneIdle, callVars, quitVars
<1>3. ASSUME NEW c \in Calls, CallStep(c) PROVE OneClose' /\ GoneIdle'
  <2>1. Others(c)
    BY <1>1, <1>3, CallAlone
  <2>2. ~ gone /\ UNCHANGED gone
    BY <1>1, <1>3 DEF CallStep, StartNode, StopNode, CloseAsked, CloseAnswered, Begin, StartCheck, StartSpawn,
                StartRecord, StartPidFile, StartReport, StopTrack, StopFind, StopClear, StopDone, StopWait,
                quitVars, GoneIdle
  <2>3. GoneIdle'
    BY <2>2 DEF GoneIdle
  <2>4. CASE CloseAsked(c)
    <3>1. pcall'[c] = "prompt" /\ arg'[c] = All /\ prompt' /\ ~ quitting' /\ ~ quitting
      BY <1>1, <2>4 DEF CloseAsked, Begin, Go, TypeOK
    <3>2. ~ prompt /\ UNCHANGED quits
      BY <2>4 DEF CloseAsked, Begin
    <3>3. quits = {} /\ \A d \in Calls : pcall[d] # "prompt"
      BY <1>1, <3>1, <3>2 DEF OneClose
    <3> QED BY <2>1, <2>3, <3>1, <3>2, <3>3 DEF OneClose, Others
  <2>5. CASE CloseAnswered(c)
    <3>1. pcall[c] = "prompt" /\ ~ quitting /\ arg[c] = All
      BY <1>1, <2>5 DEF CloseAnswered, OneClose
    <3>2. quits = {} /\ \A d \in Calls \ {c} : pcall[d] # "prompt"
      BY <1>1, <3>1 DEF OneClose
    <3>3. \/ pcall'[c] = "idle" /\ quits' = {}
          \/ pcall'[c] = "track" /\ arg'[c] = All /\ quits' = {c} /\ quitting'
      BY <1>1, <2>5, <3>1, <3>2 DEF CloseAnswered, Go, Return, TypeOK
    <3> QED BY <2>1, <2>3, <3>2, <3>3 DEF OneClose, Others
  <2>6. ASSUME ~ CloseAsked(c), ~ CloseAnswered(c)
        PROVE  /\ UNCHANGED <<quits, prompt, quitting>> /\ pcall[c] # "prompt" /\ pcall'[c] # "prompt"
               /\ c \in quits => /\ pcall'[c] \in {"track", "find", "wait", "clear", "quit"}
                                 /\ arg'[c] = arg[c]
    <3> USE <1>1, <1>3, <2>6 DEF TypeOK
    <3>1. CASE \/ \E n \in Names : StartNode(c, n)
               \/ (\E n \in Names \cup {All} : StopNode(c, n))
      BY <3>1 DEF StartNode, StopNode, Begin, Go, OneClose, quitVars
    <3>2. CASE StartCheck(c) \/ StartSpawn(c) \/ StartRecord(c) \/ StartPidFile(c) \/ StartReport(c)
      BY <3>2 DEF StartCheck, StartSpawn, StartRecord, StartPidFile, StartReport, Go, Return, OneClose, quitVars
    <3>3. CASE StopTrack(c) \/ StopFind(c) \/ StopClear(c)
      BY <3>3 DEF StopTrack, StopFind, StopClear, Go, quitVars
    <3>4. CASE StopDone(c)
      BY <3>4 DEF StopDone, Go, Return, quitVars
    <3>5. ASSUME NEW p \in Pids, StopWait(c, p)
          PROVE  /\ UNCHANGED <<quits, prompt, quitting>> /\ pcall[c] # "prompt" /\ pcall'[c] = "clear"
                 /\ arg'[c] = arg[c]
      BY <3>5 DEF StopWait, Go, quitVars
    <3> QED BY <3>1, <3>2, <3>3, <3>4, <3>5 DEF CallStep
  <2>7. CASE ~ CloseAsked(c) /\ ~ CloseAnswered(c)
    <3>1. \A d \in Calls : pcall'[d] = "prompt" => pcall[d] = "prompt" /\ arg'[d] = arg[d]
      BY <2>1, <2>6, <2>7 DEF Others
    <3>2. \A d \in quits : /\ pcall'[d] \in {"track", "find", "wait", "clear", "quit"}
                           /\ arg'[d] = arg[d]
      BY <1>1, <2>1, <2>6, <2>7 DEF OneClose, Others, TypeOK
    <3> QED BY <1>1, <2>3, <2>6, <2>7, <3>1, <3>2 DEF OneClose
  <2> QED BY <2>4, <2>5, <2>7
<1>4. ASSUME Ends PROVE OneClose' /\ GoneIdle'
  BY <1>4 DEF Ends, OneClose, GoneIdle
<1> QED BY <1>2, <1>3, <1>4, StepKinds DEF Quit, CloseAgain, Restart
\* Processes die, and the close keeps those it found alive among its targets.
LEMMA StepDoomed ==
  ASSUME ProcessInv, Ages, [Next]_vars
  PROVE  DoomedTargeted' /\ QuitLeavesNone'
<1>1. /\ TypeOK /\ OneClose /\ GoneIdle /\ DoomedTargeted /\ QuitLeavesNone
      /\ doomed \subseteq Started /\ quits \subseteq Calls
  BY DEF ProcessInv, PidsStarted, TypeOK
<1>2. \A p \in doomed : Alive(p)' => Alive(p)
  BY <1>1 DEF Ages
<1>3. CASE UNCHANGED <<callVars, quitVars>>
  BY <1>1, <1>2, <1>3 DEF DoomedTargeted, QuitLeavesNone, callVars, quitVars
<1>4. ASSUME NEW c \in Calls, CallStep(c) PROVE DoomedTargeted' /\ QuitLeavesNone'
  <2>1. Others(c) /\ ~ gone'
    <3>1. ~ gone /\ UNCHANGED gone
      BY <1>1, <1>4 DEF CallStep, StartNode, StopNode, CloseAsked, CloseAnswered, Begin, StartCheck, StartSpawn,
                  StartRecord, StartPidFile, StartReport, StopTrack, StopFind, StopClear, StopDone, StopWait,
                  quitVars, GoneIdle
    <3> QED BY <1>1, <1>4, <3>1, CallAlone
  <2>2. ASSUME UNCHANGED <<quits, doomed>>,
               c \in quits /\ pcall'[c] \in {"wait", "clear"} =>
                 \A p \in doomed : Alive(p)' => p \in targets'[c] \cup blind'[c],
               c \in quits /\ pcall'[c] = "quit" => \A p \in doomed : ~ Alive(p)'
        PROVE  DoomedTargeted' /\ QuitLeavesNone'
    BY <1>1, <1>2, <2>1, <2>2 DEF DoomedTargeted, QuitLeavesNone, Others
  <2>3. CASE StopFind(c)
    <3>1. CASE c \in quits
      <4>1. /\ doomed' = {p \in Pids : Alive(p)} /\ UNCHANGED quits /\ pcall'[c] = "wait"
            /\ arg[c] = All /\ quits = {c}
        BY <1>1, <2>3, <3>1 DEF StopFind, Go, TypeOK, OneClose
      <4>2. {p \in Pids : Alive(p)} \subseteq targets'[c] \cup blind'[c]
        BY <1>1, <2>3, <4>1 DEF StopFind, findNodeBinaryPIDs, TypeOK
      <4> QED BY <2>1, <4>1, <4>2 DEF DoomedTargeted, QuitLeavesNone
    <3>2. CASE c \notin quits
      BY <2>2, <2>3, <3>2 DEF StopFind
    <3> QED BY <3>1, <3>2
  <2>4. ASSUME NEW p \in Pids, StopWait(c, p) PROVE DoomedTargeted' /\ QuitLeavesNone'
    <3>1. UNCHANGED <<quits, doomed, targets, blind>> /\ pcall[c] = "wait" /\ pcall'[c] = "clear"
      BY <1>1, <2>4 DEF StopWait, Go, TypeOK, quitVars
    <3> QED BY <1>1, <1>2, <2>2, <3>1 DEF DoomedTargeted
  <2>5. CASE StopClear(c)
    <3>1. /\ UNCHANGED <<quits, doomed, life>> /\ pcall[c] = "clear" /\ pcall'[c] = "wait"
          /\ targets'[c] = targets[c] \ {cur[c]} /\ blind'[c] = blind[c] \ {cur[c]}
      BY <1>1, <2>5 DEF StopClear, Go, TypeOK, quitVars, osVars
    <3>2. life[cur[c]] = "dead"
      BY <3>1 DEF ProcessInv, CallLocals
    <3> QED BY <1>1, <2>2, <3>1, <3>2 DEF DoomedTargeted, Alive
  <2>6. CASE StopDone(c)
    <3>1. /\ UNCHANGED <<quits, doomed, life>> /\ pcall[c] = "wait" /\ targets[c] = {} /\ blind[c] = {}
          /\ pcall'[c] \in {"quit", "idle"}
      BY <1>1, <2>6 DEF StopDone, Go, Return, TypeOK, quitVars, osVars
    <3> QED BY <1>1, <1>2, <2>2, <3>1 DEF DoomedTargeted
  <2>7. CASE CloseAnswered(c)
    <3>1. quits = {} /\ UNCHANGED doomed /\ pcall'[c] \in {"idle", "track"} /\ quits' \subseteq {c}
      BY <1>1, <2>7 DEF CloseAnswered, Go, Return, TypeOK, OneClose
    <3> QED BY <2>1, <3>1 DEF DoomedTargeted, QuitLeavesNone
  <2>8. CASE \/ \E n \in Names : StartNode(c, n)
             \/ (\E n \in Names \cup {All} : StopNode(c, n)) \/ CloseAsked(c)
    <3>1. UNCHANGED <<quits, doomed>> /\ pcall'[c] \in {"check", "track", "prompt"}
      BY <1>1, <2>8 DEF StartNode, StopNode, CloseAsked, Begin, Go, TypeOK, quitVars
    <3> QED BY <2>2, <3>1
  <2>9. CASE StartCheck(c) \/ StartSpawn(c) \/ StartRecord(c) \/ StartPidFile(c) \/ StartReport(c) \/ StopTrack(c)
    <3>1. /\ UNCHANGED <<quits, doomed>>
          /\ pcall'[c] \in {"report", "spawn", "record", "idle", "pidfile", "find"}
      BY <1>1, <2>9 DEF StartCheck, StartSpawn, StartRecord, StartPidFile, StartReport, StopTrack, Go, Return,
                        TypeOK, quitVars
    <3> QED BY <2>2, <3>1
  <2> QED BY <1>4, <2>3, <2>4, <2>5, <2>6, <2>7, <2>8, <2>9 DEF CallStep
<1>5. ASSUME NEW c \in Calls, Quit(c) PROVE DoomedTargeted' /\ QuitLeavesNone'
  <2>1. c \in quits
    BY <1>5 DEF Quit, ProcessInv, CallLocals
  <2>2. \A p \in doomed : ~ Alive(p)
    BY <1>1, <1>5, <2>1 DEF Quit, DoomedTargeted
  <2> QED BY <1>2, <1>5, <2>2 DEF Quit, Ends, DoomedTargeted, QuitLeavesNone
<1>6. CASE CloseAgain \/ Restart
  BY <1>6 DEF CloseAgain, Restart, Ends, DoomedTargeted, QuitLeavesNone
<1> QED BY <1>3, <1>4, <1>5, <1>6, StepKinds
--------------------------------------------------------------------------------
(* Theorems                                                                   *)

\* The application starts with no process, file or call.
LEMMA InitProcess == Init => ProcessInv
<1> SUFFICES ASSUME Init PROVE ProcessInv
  OBVIOUS
<1>1. TypeOK
  <2>1. prompt \in BOOLEAN /\ quitting \in BOOLEAN /\ gone \in BOOLEAN /\ hurried \in BOOLEAN
    BY Zenon DEF Init
  <2> QED BY <2>1 DEF Init, TypeOK, Places
<1> QED BY <1>1 DEF Init, ProcessInv, PidsStarted, Started, CallLocals, OneClose, DoomedTargeted, GoneIdle,
                    QuitLeavesNone

\* The inductive invariant holds in every state of every behaviour.
THEOREM ProcessInvariant == Spec => []ProcessInv
<1>1. ProcessInv /\ [Next]_vars => ProcessInv'
  <2> SUFFICES ASSUME ProcessInv, [Next]_vars PROVE ProcessInv'
    OBVIOUS
  <2>1. Ages
    BY LifeMoves DEF ProcessInv
  <2>2. LocalsOK' /\ FilesOK' /\ SystemOK' /\ CloseOK'
    BY <2>1, StepLocals, StepFiles, StepSystem, StepClose
  <2>3. TypeOK' /\ PidsStarted'
    BY <2>2 DEF TypeOK, PidsStarted, LocalsOK, FilesOK, SystemOK, CloseOK, Started
  <2> QED BY <2>1, <2>3, StepCallLocals, StepOneClose, StepDoomed DEF ProcessInv
<1> QED BY InitProcess, <1>1, PTL DEF Spec

\* The manager's table, the files on disk and the locals of its calls are well typed; a pid in
\* any of them is of a process that was started.
THEOREM TypeCorrect == Spec => [](TypeOK /\ PidsStarted)
  BY ProcessInvariant, PTL DEF ProcessInv

\* HandleBeforeClose: when the application has quit after a confirmed prompt, every process
\* that was there when Stop looked for them is dead, though starts, stops, exits and clean-ups of
\* the same names went on meanwhile and removed each other's entries.  A second
\* close, which does not wait for Stop, is excepted.
THEOREM NoneSurvivesQuit == Spec => []QuitLeavesNone
  BY ProcessInvariant, PTL DEF ProcessInv
================================================================================
