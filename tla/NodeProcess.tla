----------------------------- MODULE NodeProcess -----------------------------
(***************************************************************************)
(* The node processes of one install folder: the process manager of the    *)
(* desktop application (aicw-node-gui/internal/nodeprocess), the calls of  *)
(* app.go that use it, what a node does about its stop file                *)
(* (cmd/aicw-node/main.go), and the end of the application.                *)
(*                                                                         *)
(* The manager keeps a table in memory, guarded by a mutex, and a pid file *)
(* and a stop file per node name on disk, guarded by nothing.  Start and   *)
(* Stop are calls of the front end and may overlap; a call is a slot c     *)
(* with a place in the code, pcall[c].  Every process gets a pid of its    *)
(* own.  The process list of the system is that of Windows: on the other   *)
(* systems findNodeBinaryPIDs finds nothing.                               *)
(***************************************************************************)
EXTENDS Integers, FiniteSets

CONSTANTS
    Names,    \* node names
    Pids,     \* bound: the processes a behaviour may start
    Calls,    \* bound: the calls of the front end under way at a time
    All,      \* the empty node name: every node
    None

ASSUME ProcessAssumption == /\ All \notin Names
                            /\ None \notin Names \cup Pids \cup Calls

VARIABLES
    life,      \* of each pid: "unused", "live", "closing" or "dead"
    owner,     \* the node name each pid was started for
    table,     \* Manager.processes
    pidFile,   \* run/<name>.pid
    stopFile,  \* the names with a run/<name>.stop
    waiter,    \* the goroutine in cmd.Wait of each pid
    pcall,     \* where each call is
    arg,       \* its node name
    quits,     \* the calls that close the application
    targets,   \* of a Stop: pids it found under a name ...
    blind,     \* ... and pids it found by their binary
    cur,       \* the pid a call has just started, or seen exit
    prompt,    \* closePromptOpen
    quitting,  \* the user has confirmed
    gone,      \* the application has ended
    doomed,    \* history: the processes alive when quitting looked for them
    hurried    \* history: the window was closed again before they were stopped

osVars == <<life, owner>>
fileVars == <<pidFile, stopFile>>
callVars == <<pcall, arg, quits, targets, blind, cur>>
quitVars == <<prompt, quitting, gone, doomed, hurried>>
vars == <<life, owner, table, pidFile, stopFile, waiter, pcall, arg, quits, targets, blind,
          cur, prompt, quitting, gone, doomed, hurried>>

Places == {"idle", "check", "spawn", "record", "pidfile", "report",
           "track", "find", "wait", "clear", "prompt", "quit"}

TypeOK ==
    /\ life \in [Pids -> {"unused", "live", "closing", "dead"}]
    /\ owner \in [Pids -> Names \cup {None}]
    /\ table \in [Names -> Pids \cup {None}] /\ pidFile \in [Names -> Pids \cup {None}]
    /\ stopFile \subseteq Names
    /\ waiter \in [Pids -> {"off", "wait", "unlisted"}]
    /\ pcall \in [Calls -> Places]
    /\ arg \in [Calls -> Names \cup {All, None}] /\ quits \subseteq Calls
    /\ targets \in [Calls -> SUBSET Pids] /\ blind \in [Calls -> SUBSET Pids]
    /\ cur \in [Calls -> Pids \cup {None}]
    /\ prompt \in BOOLEAN /\ quitting \in BOOLEAN /\ gone \in BOOLEAN
    /\ doomed \subseteq Pids /\ hurried \in BOOLEAN

Init ==
    /\ life = [p \in Pids |-> "unused"] /\ owner = [p \in Pids |-> None]
    /\ table = [n \in Names |-> None] /\ pidFile = [n \in Names |-> None]
    /\ stopFile = {} /\ waiter = [p \in Pids |-> "off"]
    /\ pcall = [c \in Calls |-> "idle"] /\ arg = [c \in Calls |-> None] /\ quits = {}
    /\ targets = [c \in Calls |-> {}] /\ blind = [c \in Calls |-> {}]
    /\ cur = [c \in Calls |-> None]
    /\ prompt = FALSE /\ quitting = FALSE /\ gone = FALSE /\ doomed = {}
    /\ hurried = FALSE

Alive(p) == life[p] \in {"live", "closing"}
Go(c, s) == pcall' = [pcall EXCEPT ![c] = s]
\* The call returns to the front end: its locals are gone.
Return(c) ==
    /\ Go(c, "idle")
    /\ arg' = [arg EXCEPT ![c] = None] /\ UNCHANGED quits
    /\ targets' = [targets EXCEPT ![c] = {}] /\ blind' = [blind EXCEPT ![c] = {}]
    /\ cur' = [cur EXCEPT ![c] = None]

-----------------------------------------------------------------------------
(* The node                                                                *)

\* The poller finds the stop file, removes it and shuts down.
SeeStopFile(p) ==
    /\ life[p] = "live" /\ owner[p] \in stopFile
    /\ life' = [life EXCEPT ![p] = "closing"]
    /\ stopFile' = stopFile \ {owner[p]}
    /\ UNCHANGED <<owner, table, pidFile, waiter, callVars, quitVars>>

\* The process is gone: shut down, crashed, or never got off the ground.
Exit(p) ==
    /\ Alive(p)
    /\ life' = [life EXCEPT ![p] = "dead"]
    /\ UNCHANGED <<owner, table, fileVars, waiter, callVars, quitVars>>

-----------------------------------------------------------------------------
(* Start                                                                   *)

\* livePIDsByNode drops the pid files of processes that are gone.
LivePidFiles == [n \in Names |-> IF pidFile[n] # None /\ Alive(pidFile[n])
                                   THEN pidFile[n] ELSE None]
Running(n) == table[n] # None \/ LivePidFiles[n] # None

\* cleanupStaleState, then the check under the mutex.
StartCheck(c) ==
    /\ pcall[c] = "check"
    /\ pidFile' = LivePidFiles
    /\ Go(c, IF Running(arg[c]) THEN "report" ELSE "spawn")
    /\ UNCHANGED <<osVars, table, stopFile, waiter, arg, quits, targets, blind, cur, quitVars>>

\* The mutex is not held while the process starts, or fails to.
StartSpawn(c) ==
    /\ pcall[c] = "spawn"
    /\ \/ \E p \in Pids :
            /\ life[p] = "unused"
            /\ life' = [life EXCEPT ![p] = "live"]
            /\ owner' = [owner EXCEPT ![p] = arg[c]]
            /\ cur' = [cur EXCEPT ![c] = p]
            /\ Go(c, "record") /\ UNCHANGED <<arg, quits, targets, blind>>
       \/ Return(c) /\ UNCHANGED osVars
    /\ UNCHANGED <<table, fileVars, waiter, quitVars>>

StartRecord(c) ==
    /\ pcall[c] = "record"
    /\ table' = [table EXCEPT ![arg[c]] = cur[c]]
    /\ Go(c, "pidfile")
    /\ UNCHANGED <<osVars, fileVars, waiter, arg, quits, targets, blind, cur, quitVars>>

\* The pid file is written and the goroutine that waits for the exit started.
StartPidFile(c) ==
    /\ pcall[c] = "pidfile"
    /\ pidFile' = [pidFile EXCEPT ![arg[c]] = cur[c]]
    /\ waiter' = [waiter EXCEPT ![cur[c]] = "wait"]
    /\ Go(c, "report") /\ UNCHANGED <<arg, quits, targets, blind, cur>>
    /\ UNCHANGED <<osVars, table, stopFile, quitVars>>

\* StartNode looks once more before it reports.
StartReport(c) ==
    /\ pcall[c] = "report"
    /\ pidFile' = LivePidFiles
    /\ Return(c)
    /\ UNCHANGED <<osVars, table, stopFile, waiter, quitVars>>

\* cmd.Wait returns: the entry of the name goes, whatever pid it holds ...
WaiterUnlists(p) ==
    /\ waiter[p] = "wait" /\ life[p] = "dead"
    /\ waiter' = [waiter EXCEPT ![p] = "unlisted"]
    /\ table' = [table EXCEPT ![owner[p]] = None]
    /\ UNCHANGED <<osVars, fileVars, callVars, quitVars>>

\* ... and then the pid file of the name.
WaiterCleans(p) ==
    /\ waiter[p] = "unlisted"
    /\ waiter' = [waiter EXCEPT ![p] = "off"]
    /\ pidFile' = [pidFile EXCEPT ![owner[p]] = None]
    /\ UNCHANGED <<osVars, table, stopFile, callVars, quitVars>>

-----------------------------------------------------------------------------
(* Stop                                                                    *)

Asked(c) == IF arg[c] = All THEN Names ELSE {arg[c]}

\* The table, under the mutex ...
StopTrack(c) ==
    /\ pcall[c] = "track"
    /\ targets' = [targets EXCEPT ![c] = {table[n] : n \in Asked(c)} \ {None}]
    /\ Go(c, "find")
    /\ UNCHANGED <<osVars, table, fileVars, waiter, arg, quits, blind, cur, quitVars>>

\* Mutant: the processes themselves are not searched for.
FindByBinary(c, found) == {}

\* ... the processes of the install folder's binary, for every node or when
\* nothing is known under the name asked for ...
findNodeBinaryPIDs(c, found) ==
    IF arg[c] = All \/ found = {} THEN {p \in Pids : Alive(p)} \ found ELSE {}

\* ... and the pid files; then a stop file for every target with a name.
StopFind(c) ==
    /\ pcall[c] = "find"
    /\ pidFile' = LivePidFiles
    /\ LET found == targets[c] \cup ({LivePidFiles[n] : n \in Asked(c)} \ {None})
       IN /\ targets' = [targets EXCEPT ![c] = found]
          /\ blind' = [blind EXCEPT ![c] = findNodeBinaryPIDs(c, found)]
          /\ stopFile' = stopFile \cup {owner[p] : p \in found}
          /\ doomed' = IF c \in quits THEN {p \in Pids : Alive(p)} ELSE doomed
    /\ Go(c, "wait")
    /\ UNCHANGED <<osVars, table, waiter, arg, quits, cur, prompt, quitting, gone, hurried>>

\* Mutant: no time limit, a node that does not react is waited for.
StopWaitForever(c, p) ==
    /\ pcall[c] = "wait" /\ p \in targets[c] \cup blind[c]
    /\ life[p] = "dead"
    /\ cur' = [cur EXCEPT ![c] = p] /\ Go(c, "clear")
    /\ UNCHANGED <<osVars, table, fileVars, waiter, arg, quits, targets, blind, quitVars>>

\* One target is seen to exit, or is terminated after gracefulStopTimeout.
StopWait(c, p) ==
    /\ pcall[c] = "wait" /\ p \in targets[c] \cup blind[c]
    /\ life' = [life EXCEPT ![p] = "dead"]
    /\ cur' = [cur EXCEPT ![c] = p] /\ Go(c, "clear")
    /\ UNCHANGED <<owner, table, fileVars, waiter, arg, quits, targets, blind, quitVars>>

\* Its files and its entry go, by name, when it was found under one.
StopClear(c) ==
    /\ pcall[c] = "clear"
    /\ IF cur[c] \in targets[c]
         THEN LET n == owner[cur[c]]
              IN /\ stopFile' = stopFile \ {n}
                 /\ pidFile' = [pidFile EXCEPT ![n] = None]
                 /\ table' = [table EXCEPT ![n] = None]
         ELSE UNCHANGED <<fileVars, table>>
    /\ targets' = [targets EXCEPT ![c] = @ \ {cur[c]}]
    /\ blind' = [blind EXCEPT ![c] = @ \ {cur[c]}]
    /\ cur' = [cur EXCEPT ![c] = None] /\ Go(c, "wait")
    /\ UNCHANGED <<osVars, waiter, arg, quits, quitVars>>

\* Every target has been dealt with: Stop returns to its caller.
StopDone(c) ==
    /\ pcall[c] = "wait" /\ targets[c] = {} /\ blind[c] = {}
    /\ IF c \in quits THEN Go(c, "quit") /\ UNCHANGED <<arg, quits, targets, blind, cur>>
                      ELSE Return(c)
    /\ UNCHANGED <<osVars, table, fileVars, waiter, quitVars>>

-----------------------------------------------------------------------------
(* The calls of the application                                            *)

Begin(c, s, n) ==
    /\ ~ gone /\ pcall[c] = "idle"
    /\ Go(c, s) /\ arg' = [arg EXCEPT ![c] = n]
    /\ UNCHANGED <<quits, targets, blind, cur>>

\* StartNode: the wallet and the files are GuiApp's concern.
StartNode(c, n) ==
    /\ ~ Running(n) /\ pidFile' = LivePidFiles
    /\ Begin(c, "check", n)
    /\ UNCHANGED <<osVars, table, stopFile, waiter, quitVars>>

\* StopNode, and the Stop of RemoveNode.
StopNode(c, n) ==
    /\ Begin(c, "track", n)
    /\ UNCHANGED <<osVars, table, fileVars, waiter, quitVars>>

\* RunningNodeNames, of the dashboard and of every refused StartNode.
ListRunning ==
    /\ ~ gone /\ pidFile' = LivePidFiles
    /\ UNCHANGED <<osVars, table, stopFile, waiter, callVars, quitVars>>

\* HandleBeforeClose asks, one prompt at a time.
CloseAsked(c) ==
    /\ ~ quitting /\ ~ prompt /\ prompt' = TRUE
    /\ pidFile' = LivePidFiles
    /\ Begin(c, "prompt", All)
    /\ UNCHANGED <<osVars, table, stopFile, waiter, gone, quitting, doomed, hurried>>

\* The user cancels, or confirms: then every node is stopped first.
CloseAnswered(c) ==
    /\ pcall[c] = "prompt" /\ prompt' = FALSE
    /\ \/ Return(c) /\ UNCHANGED quitting
       \/ /\ Go(c, "track") /\ quits' = quits \cup {c} /\ quitting' = TRUE
          /\ UNCHANGED <<arg, targets, blind, cur>>
    /\ UNCHANGED <<osVars, table, fileVars, waiter, gone, doomed, hurried>>

\* The application ends: its calls, its goroutines and its table are gone.
Ends ==
    /\ pcall' = [c \in Calls |-> "idle"] /\ arg' = [c \in Calls |-> None]
    /\ quits' = {} /\ cur' = [c \in Calls |-> None]
    /\ targets' = [c \in Calls |-> {}] /\ blind' = [c \in Calls |-> {}]
    /\ table' = [n \in Names |-> None] /\ waiter' = [p \in Pids |-> "off"]
    /\ prompt' = FALSE /\ quitting' = FALSE
    /\ UNCHANGED <<osVars, fileVars>>

\* runtime.Quit, once Stop has returned.
Quit(c) == pcall[c] = "quit" /\ gone' = TRUE /\ Ends /\ UNCHANGED <<doomed, hurried>>

\* The window is closed again while the nodes are being stopped: nobody asks,
\* and nobody waits for StopAll.
CloseAgain ==
    /\ ~ gone /\ quitting /\ gone' = TRUE
    /\ hurried' = TRUE /\ UNCHANGED doomed
    /\ Ends

\* It is started anew after a crash, or after it quit.
Restart == gone' = FALSE /\ doomed' = {} /\ hurried' = FALSE /\ Ends

-----------------------------------------------------------------------------
CallSteps(c) == \/ StartCheck(c) \/ StartSpawn(c) \/ StartRecord(c) \/ StartPidFile(c)
                \/ StartReport(c) \/ StopTrack(c) \/ StopFind(c) \/ StopClear(c)
                \/ StopDone(c) \/ Quit(c)
                \/ \E p \in Pids : StopWait(c, p)
WaiterSteps(p) == WaiterUnlists(p) \/ WaiterCleans(p)

Next ==
    \/ \E p \in Pids : SeeStopFile(p) \/ Exit(p) \/ WaiterSteps(p)
    \/ \E c \in Calls :
         \/ \E n \in Names : StartNode(c, n)
         \/ \E n \in Names \cup {All} : StopNode(c, n)
         \/ CloseAsked(c) \/ CloseAnswered(c) \/ CallSteps(c)
    \/ ListRunning \/ CloseAgain \/ Restart

\* Waits have time limits, so a call moves on; a node exits, and the user
\* answers a prompt, when they like.
Spec == /\ Init /\ [][Next]_vars
        /\ \A c \in Calls : WF_vars(CallSteps(c))

-----------------------------------------------------------------------------
\* When the application has quit after a prompt, every node process that was
\* there when it looked for them is gone, recorded under its name or not,
\* unless the window was closed again before StopAll returned.
QuitLeavesNone == gone /\ ~ hurried => \A p \in doomed : ~ Alive(p)

\* "Stop them and quit AICW Node?", says the prompt of HandleBeforeClose, and
\* its comment that "the actual quit is triggered from a goroutine once the user
\* confirms".  It does not hold: a second close ends the application at once.
ConfirmedQuitStops == gone => \A p \in doomed : ~ Alive(p)

\* Start and Stop return, whatever the nodes do.
CallsReturn == \A c \in Calls : pcall[c] \notin {"idle", "prompt"} ~> pcall[c] = "idle"

\* "DiscoverRunningNodeNames returns node names with a live aicw-node process":
\* the name of every process that Start has started and recorded.  It does not
\* hold: files and entries are removed by name.
LiveIsDiscovered ==
    \A p \in Pids : waiter[p] = "wait" /\ Alive(p) => LivePidFiles[owner[p]] # None
=============================================================================
