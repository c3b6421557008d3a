------------------------------- MODULE Stack -------------------------------
(***************************************************************************)
(* The processes of the local stack, the two programs that start and stop  *)
(* them, and the metrics file between the proxy and the dashboard.         *)
(*                                                                         *)
(* The stack is run either by the desktop application                      *)
(* (desktop/omegalb_desktop.py), whose handlers and whose 1.5 s timer      *)
(* share the GUI thread, or by the script demo/run.py. Both keep a table   *)
(* of the processes they started. The file is module MetricsFile: its      *)
(* writer lives and dies with the proxy process.                           *)
(***************************************************************************)
EXTENDS MetricsFile

CONSTANTS
    Optional,    \* the processes besides the proxy that may be started
    MaxCrashes,  \* bound: processes that exit on their own
    MaxStarts    \* bound: starts of the stack by the desktop application

ASSUME OptionalAssumption == Optional \subseteq {"backends", "loadgen", "dashboard"}
ASSUME BoundAssumption == MaxCrashes \in Nat /\ MaxStarts \in Nat

VARIABLES
    tool,        \* which of the two launchers is in use
    pc,          \* what it is doing
    todo,        \* the processes it still has to start or to stop
    table,       \* OmegaDesktop.processes, PROCESSES: the processes it knows
    state,       \* of each process: dead, starting or up
    told,        \* processes that got SIGINT
    foreign,     \* does another program listen on the port of the proxy?
    chip,        \* the ONLINE chip of the desktop application
    mode,        \* what each session of the dashboard showed last
    crashes,     \* crashes that may still happen
    starts       \* starts that may still happen

launchVars == <<tool, pc, todo, table, state, told, foreign, chip, crashes, starts>>
vars == <<fileVars, launchVars, mode>>

Parts == {"proxy"} \cup Optional

\* The order in which processes are started; the tables keep it.
Rank == [backends |-> 1, proxy |-> 2, loadgen |-> 3, dashboard |-> 4]
First(p, parts) == p \in parts /\ \A q \in parts : Rank[p] <= Rank[q]
Last(p, parts) == p \in parts /\ \A q \in parts : Rank[q] <= Rank[p]

Alive(p) == state[p] # "dead"

Init ==
    /\ FileInit
    /\ tool \in {"desktop", "run"}
    /\ pc = IF tool = "desktop" THEN "idle" ELSE "spawn"
    /\ todo = IF tool = "desktop" THEN {} ELSE Parts \ {"dashboard"}
    /\ table = {}
    /\ state = [p \in Parts |-> "dead"]
    /\ told = {}
    /\ foreign = FALSE
    /\ chip = FALSE
    /\ mode = [r \in Readers |-> "demo"]
    /\ crashes = MaxCrashes
    /\ starts = MaxStarts

-----------------------------------------------------------------------------
(***************************************************************************)
(* The processes.                                                          *)
(***************************************************************************)

\* Process p ends: the writer is gone with the proxy, open files with the
\* dashboard.
Ends(p) ==
    /\ state' = [state EXCEPT ![p] = "dead"]
    /\ told' = told \ {p}
    /\ IF p = "proxy" THEN WriterKilled ELSE UNCHANGED writer
    /\ IF p = "dashboard" THEN fd' = [r \in Readers |-> NoInode] ELSE UNCHANGED fd
    /\ UNCHANGED <<dir, content, latest, expired>>

\* run_proxy cannot bind its port: the exception ends the process.
PortTaken(p) == p = "proxy" /\ foreign

\* A process gets ready, or exits.
Boot(p) ==
    /\ state[p] = "starting"
    /\ IF PortTaken(p)
       THEN Ends(p)
       ELSE /\ state' = [state EXCEPT ![p] = "up"]
            /\ UNCHANGED <<told, fileVars>>
    /\ UNCHANGED <<tool, pc, todo, table, foreign, chip, mode, crashes, starts>>

\* A process exits that nobody asked to.
Crash(p) ==
    /\ Alive(p)
    /\ crashes > 0
    /\ crashes' = crashes - 1
    /\ Ends(p)
    /\ UNCHANGED <<tool, pc, todo, table, foreign, chip, mode, starts>>

\* A process that got SIGINT shuts down.
Exit(p) ==
    /\ Alive(p)
    /\ p \in told
    /\ Ends(p)
    /\ UNCHANGED <<tool, pc, todo, table, foreign, chip, mode, crashes, starts>>

\* Another program takes the port of the proxy, or leaves it.
Foreign ==
    /\ foreign \/ state["proxy"] # "up"
    /\ foreign' = ~foreign
    /\ UNCHANGED <<fileVars, tool, pc, todo, table, state, told, chip, mode,
                   crashes, starts>>

-----------------------------------------------------------------------------
(***************************************************************************)
(* The desktop application.                                                *)
(***************************************************************************)

\* start_stack up to the first process: nothing is started while the table
\* holds a process, while the port is taken, or if the wiring cannot be saved.
\* With managed backends on other addresses the user is asked first.
StartStack ==
    /\ tool = "desktop" /\ pc = "idle"
    /\ starts > 0
    /\ table = {}
    /\ ~foreign /\ state["proxy"] # "up"
    /\ \E extra \in SUBSET Optional :
          /\ todo' = {"proxy"} \cup extra
          /\ pc' \in {"spawn"} \cup (IF "backends" \in extra THEN {"asked"} ELSE {})
    /\ starts' = starts - 1
    /\ UNCHANGED <<fileVars, tool, table, state, told, foreign, chip, mode, crashes>>

\* The answer to the question.
Answer ==
    /\ pc = "asked"
    /\ \/ pc' = "spawn" /\ UNCHANGED todo
       \/ pc' = "idle" /\ todo' = {}
    /\ UNCHANGED <<fileVars, tool, table, state, told, foreign, chip, mode,
                   crashes, starts>>

\* Mutant: the table is filled when all processes have been started.
SpawnLate ==
    /\ tool = "desktop" /\ pc = "spawn"
    /\ \E p \in todo :
          /\ First(p, todo)
          /\ state' = [state EXCEPT ![p] = "starting"]
          /\ todo' = todo \ {p}
    /\ table' = IF todo' = {} THEN {p \in Parts : state'[p] # "dead"} ELSE table
    /\ pc' = IF todo' = {} THEN "idle" ELSE "spawn"
    /\ UNCHANGED <<fileVars, tool, told, foreign, chip, mode, crashes, starts>>

\* One turn of the loop that starts processes. The handler has the GUI thread to
\* itself, so that each is entered in the table before anything else is done.
Spawn ==
    /\ tool = "desktop" /\ pc = "spawn"
    /\ \E p \in todo :
          /\ First(p, todo)
          /\ state' = [state EXCEPT ![p] = "starting"]
          /\ table' = table \cup {p}
          /\ todo' = todo \ {p}
    /\ pc' = IF todo' = {} THEN "idle" ELSE "spawn"
    /\ UNCHANGED <<fileVars, tool, told, foreign, chip, mode, crashes, starts>>

\* A process cannot be started: the exception leaves the handler and what runs
\* already stays. The script tears down and exits.
SpawnFails ==
    /\ pc = "spawn"
    /\ crashes > 0
    /\ crashes' = crashes - 1
    /\ pc' = IF tool = "run" THEN "exit" ELSE "idle"
    /\ todo' = {}
    /\ UNCHANGED <<fileVars, tool, table, state, told, foreign, chip, mode, starts>>

\* stop_stack begins, from the button or from closeEvent.
StopStack(next) ==
    /\ tool = "desktop" /\ pc = "idle"
    /\ pc' = next
    /\ todo' = table
    /\ UNCHANGED <<fileVars, tool, table, state, told, foreign, chip, mode,
                   crashes, starts>>

\* terminate, join, SIGKILL, join: one process after the other is gone.
StopOne ==
    /\ pc \in {"stop", "close"}
    /\ \E p \in todo :
          /\ First(p, todo)
          /\ Ends(p)
          /\ todo' = todo \ {p}
    /\ UNCHANGED <<tool, pc, table, foreign, chip, mode, crashes, starts>>

\* The table is cleared.
Stopped ==
    /\ pc \in {"stop", "close"}
    /\ todo = {}
    /\ pc' = IF pc = "stop" THEN "idle" ELSE "exited"
    /\ table' = {}
    /\ chip' = FALSE
    /\ UNCHANGED <<fileVars, tool, todo, state, told, foreign, mode, crashes, starts>>

\* Mutant: the watchdog looks only at the first process of the table.
PollFirst ==
    LET dead == {p \in table : First(p, table) /\ ~Alive(p)}
    IN  /\ tool = "desktop" /\ pc \in {"idle", "asked"}
        /\ table' = table \ dead
        /\ chip' = (state["proxy"] = "up")
        /\ UNCHANGED <<fileVars, tool, pc, todo, state, told, foreign, mode,
                       crashes, starts>>

\* poll_status: the watchdog drops the first dead process of the table, and the
\* chip shows whether the proxy answers. The timer also fires while a dialog is
\* open.
Poll ==
    LET dead == {p \in table : ~Alive(p)}
    IN  /\ tool = "desktop" /\ pc \in {"idle", "asked"}
        /\ table' = table \ {p \in dead : First(p, dead)}
        /\ chip' = (state["proxy"] = "up")
        /\ UNCHANGED <<fileVars, tool, pc, todo, state, told, foreign, mode,
                       crashes, starts>>

-----------------------------------------------------------------------------
(***************************************************************************)
(* demo/run.py.                                                            *)
(***************************************************************************)

\* _start makes the process ...
Popen ==
    /\ tool = "run" /\ pc = "spawn"
    /\ \E p \in todo : First(p, todo) /\ state' = [state EXCEPT ![p] = "starting"]
    /\ pc' = "popen"
    /\ UNCHANGED <<fileVars, tool, todo, table, told, foreign, chip, mode, crashes, starts>>

\* ... and enters it in PROCESSES, unless Ctrl-C comes first.
Enter ==
    /\ pc = "popen"
    /\ \E p \in todo :
          /\ First(p, todo)
          /\ table' = table \cup {p}
          /\ todo' = todo \ {p}
    /\ pc' = "wait"
    /\ UNCHANGED <<fileVars, tool, state, told, foreign, chip, mode, crashes, starts>>

\* _start after its sleep: the process it started must still be there. After
\* the last one the script watches.
Check ==
    /\ pc = "wait"
    /\ pc' = IF \E p \in table : Last(p, table) /\ ~Alive(p) THEN "down"
             ELSE IF todo = {} THEN "watch" ELSE "spawn"
    /\ UNCHANGED <<fileVars, tool, todo, table, state, told, foreign, chip, mode,
                   crashes, starts>>

\* Ctrl-C, which the terminal sends to the script and to its children. While
\* it starts processes, or in _teardown, nothing catches it and the handler
\* registered with atexit is next; there, it ends the script.
Interrupt ==
    /\ tool = "run" /\ pc # "exited"
    /\ pc' = CASE pc = "watch" -> "down"
               [] pc \in {"exit", "exitwait"} -> "exited"
               [] OTHER -> "exit"
    /\ todo' = {}
    /\ told' = told \cup {p \in Parts : Alive(p)}
    /\ UNCHANGED <<fileVars, tool, table, state, foreign, chip, mode, crashes, starts>>

\* Mutant: the backends are left to themselves.
TellOthers ==
    /\ pc \in {"down", "exit"}
    /\ pc' = IF pc = "down" THEN "downwait" ELSE "exitwait"
    /\ told' = told \cup {p \in table \ {"backends"} : Alive(p)}
    /\ todo' = table \ {"backends"}
    /\ UNCHANGED <<fileVars, tool, table, state, foreign, chip, mode, crashes, starts>>

\* _teardown: SIGINT to every process, ...
Tell ==
    /\ pc \in {"down", "exit"}
    /\ pc' = IF pc = "down" THEN "downwait" ELSE "exitwait"
    /\ told' = told \cup {p \in table : Alive(p)}
    /\ todo' = table
    /\ UNCHANGED <<fileVars, tool, table, state, foreign, chip, mode, crashes, starts>>

\* ... then four seconds for each, and SIGKILL. It runs once more at exit.
AwaitOne ==
    /\ pc \in {"downwait", "exitwait"}
    /\ \/ \E p \in todo :
             First(p, todo) /\ Ends(p) /\ todo' = todo \ {p} /\ UNCHANGED pc
       \/ /\ todo = {}
          /\ pc' = IF pc = "downwait" THEN "exit" ELSE "exited"
          /\ UNCHANGED <<fileVars, todo, state, told>>
    /\ UNCHANGED <<tool, table, foreign, chip, mode, crashes, starts>>

-----------------------------------------------------------------------------
(***************************************************************************)
(* The file and the dashboard.                                             *)
(***************************************************************************)

ProxyWrites == Alive("proxy") /\ WriterStep /\ UNCHANGED <<launchVars, mode>>

TimePasses == Expire /\ UNCHANGED <<launchVars, mode>>

\* The script leaves the dashboard to the user: it may run at any time.
DashboardRuns == tool = "run" \/ ("dashboard" \in Parts /\ state["dashboard"] = "up")

\* A refresh begins. Without a file it ends at once, in demo mode.
Refresh(r) ==
    /\ DashboardRuns
    /\ \/ OpenLiveToRead(r) /\ UNCHANGED mode
       \/ /\ dir["live"] = NoInode
          /\ mode' = [mode EXCEPT ![r] = "demo"]
          /\ UNCHANGED fileVars
    /\ UNCHANGED launchVars

\* Mutant: the age of the snapshot is not looked at.
ShowAny(r) ==
    /\ CloseReader(r)
    /\ mode' = [mode EXCEPT ![r] = IF content[fd[r]] > 0 THEN "live" ELSE "demo"]
    /\ UNCHANGED launchVars

\* _load_data: live if there is a snapshot that is fresh, the simulation if not.
Show(r) ==
    /\ CloseReader(r)
    /\ mode' = [mode EXCEPT ![r] = IF Loaded(r) THEN "live" ELSE "demo"]
    /\ UNCHANGED launchVars

Desktop == Spawn \/ StopOne \/ Stopped
Script == Popen \/ Enter \/ Check \/ Tell \/ AwaitOne

Next ==
    \/ StartStack \/ Answer \/ SpawnFails \/ Poll
    \/ table # {} /\ StopStack("stop")
    \/ StopStack("close")
    \/ Interrupt
    \/ Desktop \/ Script
    \/ \E p \in Parts : Boot(p) \/ Crash(p) \/ Exit(p)
    \/ Foreign
    \/ ProxyWrites \/ TimePasses
    \/ \E r \in Readers : Refresh(r) \/ Show(r)

(***************************************************************************)
(* Processes and threads run, a process that got SIGINT ends, the timer    *)
(* fires, time passes and the dashboard refreshes. Nothing is assumed of   *)
(* the user.                                                               *)
(***************************************************************************)
Fairness ==
    /\ WF_vars(Desktop) /\ WF_vars(Script) /\ WF_vars(Poll)
    /\ \A p \in Parts : WF_vars(Boot(p)) /\ WF_vars(Exit(p))
    /\ WF_vars(TimePasses)
    /\ \A r \in Readers : WF_vars(Refresh(r)) /\ WF_vars(Show(r))

Spec == Init /\ [][Next]_vars /\ Fairness

-----------------------------------------------------------------------------
StackTypeOK ==
    /\ dir \in [{"live", "tmp"} -> Inodes \cup {NoInode}]
    /\ content \in [Inodes -> 0 .. latest]
    /\ writer \in [pc : {"sleep", "open", "dump", "replace"}, snap : 0 .. latest]
    /\ fd \in [Readers -> Inodes \cup {NoInode}]
    /\ expired \in 0 .. latest
    /\ pc \in IF tool = "desktop"
              THEN {"idle", "asked", "spawn", "stop", "close", "exited"}
              ELSE {"spawn", "popen", "wait", "watch", "down", "downwait", "exit", "exitwait",
                    "exited"}
    /\ table \subseteq Parts /\ todo \subseteq Parts
    /\ state \in [Parts -> {"dead", "starting", "up"}]
    /\ told \subseteq Parts
    /\ mode \in [Readers -> {"live", "demo"}]

\* A process that runs is in the table of its launcher, so that it can be
\* stopped: in the middle of a start that fails, beside the watchdog, and after
\* the desktop application has been closed. One that the script has made and not
\* entered yet is about to be, or the Ctrl-C that came between went to it too.
NoOrphan ==
    \A p \in Parts :
        Alive(p) => \/ p \in table
                    \/ tool = "run" /\ pc = "popen" /\ First(p, todo)
                    \/ tool = "run" /\ p \in told

\* When the script has ended, every process it started is gone or was told to
\* go, however impatient the user was.
ScriptCleansUp ==
    tool = "run" /\ pc = "exited" => \A p \in Parts : Alive(p) => p \in told

\* The watchdog drops only one process at a time, and only while the
\* application is idle or asks, yet every process that died leaves the table.
CrashNoticed ==
    \A p \in Parts :
        (tool = "desktop" /\ p \in table /\ ~Alive(p)) ~> (p \notin table \/ Alive(p))

\* The dashboard goes back to the simulation when the proxy is gone for good,
\* although the last file stays.
DashboardSettles ==
    \A r \in Readers :
        <>[](~Alive("proxy") /\ DashboardRuns) => <>[](mode[r] = "demo")
=============================================================================
