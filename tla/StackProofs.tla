---------------------------- MODULE StackProofs ----------------------------
(***************************************************************************)
(* Proofs about Stack, for every set of readers, every choice of processes *)
(* and all bounds: the metrics file implements the register, and no        *)
(* process escapes its launcher.                                           *)
(***************************************************************************)
EXTENDS Stack, TLAPS

-----------------------------------------------------------------------------
(***************************************************************************)
(* The file. Its part of the state changes by the steps of the writer, of  *)
(* readers and of time, and when processes die.                            *)
(***************************************************************************)

Killed ==
    /\ writer' \in {writer, Asleep}
    /\ fd' \in {fd, [r \in Readers |-> NoInode]}
    /\ UNCHANGED <<dir, content, latest, expired>>

FileStep ==
    \/ WriterStep
    \/ Expire
    \/ \E r \in Readers : OpenLiveToRead(r) \/ CloseReader(r)
    \/ Killed

FileTypes ==
    /\ dir \in [{"live", "tmp"} -> Inodes \cup {NoInode}]
    /\ latest \in Nat
    /\ expired \in 0 .. latest
    /\ content \in [Inodes -> 0 .. latest]
    /\ writer \in [pc : {"sleep", "open", "dump", "replace"}, snap : 0 .. latest]
    /\ fd \in [Readers -> Inodes \cup {NoInode}]

\* The file under its name, and every file that is open, holds a snapshot.
Whole ==
    /\ dir["live"] # NoInode => content[dir["live"]] \in 1 .. latest
    /\ \A r \in Readers : fd[r] # NoInode => content[fd[r]] \in 1 .. latest

\* The file that is being written is nobody else's.
Apart ==
    dir["tmp"] # NoInode =>
        /\ dir["tmp"] # dir["live"]
        /\ \A r \in Readers : fd[r] # dir["tmp"]

\* What is being written is newer than what is there.
Newer ==
    writer.pc # "sleep" =>
        /\ writer.snap \in 1 .. latest
        /\ dir["live"] # NoInode => content[dir["live"]] < writer.snap

\* The file is there before it is filled, and full before it is renamed.
Filled ==
    /\ writer.pc \in {"dump", "replace"} => dir["tmp"] # NoInode
    /\ writer.pc = "replace" => content[dir["tmp"]] = writer.snap

FileInv == FileTypes /\ Whole /\ Apart /\ Newer /\ Filled

\* Every step of the stack is a step of the file or leaves it alone: only the
\* end of a process reaches into it.
LEMMA NextIsFileStep == [Next]_vars => FileStep
<1> SUFFICES ASSUME [Next]_vars PROVE FileStep
  OBVIOUS
<1>1. UNCHANGED fileVars => Killed
  BY DEF fileVars, Killed
<1>2. ASSUME NEW p, Ends(p) PROVE Killed
  BY <1>2 DEF Ends, WriterKilled, Killed
<1>3. CASE UNCHANGED vars
  BY <1>1, <1>3 DEF vars, FileStep
<1>4. CASE StartStack \/ Answer \/ SpawnFails \/ Poll
  BY <1>1, <1>4 DEF StartStack, Answer, SpawnFails, Poll, FileStep
<1>5. CASE StopStack("stop") \/ StopStack("close") \/ Interrupt \/ Foreign
  BY <1>1, <1>5 DEF StopStack, Interrupt, Foreign, FileStep
<1>6. CASE Desktop
  BY <1>1, <1>2, <1>6 DEF Desktop, Spawn, StopOne, Stopped, FileStep
<1>7. CASE Script
  BY <1>1, <1>2, <1>7 DEF Script, Popen, Enter, Check, Tell, AwaitOne, FileStep
<1>8. ASSUME NEW p \in Parts, Boot(p) \/ Crash(p) \/ Exit(p) PROVE FileStep
  BY <1>1, <1>2, <1>8 DEF Boot, Crash, Exit, FileStep
<1>9. CASE ProxyWrites \/ TimePasses
  BY <1>9 DEF ProxyWrites, TimePasses, FileStep
<1>10. ASSUME NEW r \in Readers, Refresh(r) \/ Show(r) PROVE FileStep
  BY <1>1, <1>10 DEF Refresh, Show, FileStep
<1> QED
  BY <1>3, <1>4, <1>5, <1>6, <1>7, <1>8, <1>9, <1>10 DEF Next

LEMMA FileInit0 == Init => FileInv
BY InodeAssumption
   DEF Init, FileInit, FileInv, FileTypes, Whole, Apart, Newer, Filled, Asleep, NoInode

\* An inode the writer may truncate is neither the file nor open.
LEMMA FreshIsFree ==
    ASSUME NEW i \in Fresh
    PROVE  /\ i \in Inodes
           /\ i # NoInode
           /\ i # dir["live"]
           /\ i # dir["tmp"]
           /\ \A r \in Readers : fd[r] # i
BY InodeAssumption DEF Fresh, NoInode

LEMMA FileInvStep == FileInv /\ FileStep => FileInv'
<1> SUFFICES ASSUME FileInv, FileStep PROVE FileInv'
  OBVIOUS
<1> USE InodeAssumption
<1> USE DEF FileInv, FileTypes, Whole, Apart, Newer, Filled, NoInode, Asleep
<1>1. CASE TakeSnapshot
  BY <1>1, SnapshotAssumption DEF TakeSnapshot
<1>2. CASE OpenTmp
  <2> PICK i \in IF dir["tmp"] = NoInode THEN Fresh ELSE {dir["tmp"]} :
             /\ dir' = [dir EXCEPT !["tmp"] = i]
             /\ content' = [content EXCEPT ![i] = 0]
    BY <1>2 DEF OpenTmp
  <2>1. /\ i \in Inodes /\ i # 0 /\ i # dir["live"]
        /\ \A r \in Readers : fd[r] # i
    BY FreshIsFree
  <2> QED
    BY <1>2, <2>1 DEF OpenTmp
<1>3. CASE Dump
  BY <1>3 DEF Dump
<1>4. CASE Replace
  BY <1>4 DEF Replace
<1>5. CASE WriteFails
  BY <1>5 DEF WriteFails
<1>6. CASE Expire
  BY <1>6 DEF Expire
<1>7. ASSUME NEW r \in Readers, OpenLiveToRead(r) PROVE FileInv'
  BY <1>7 DEF OpenLiveToRead
<1>8. ASSUME NEW r \in Readers, CloseReader(r) PROVE FileInv'
  BY <1>8 DEF CloseReader
<1>9. CASE Killed
  BY <1>9 DEF Killed
<1> QED
  BY <1>1, <1>2, <1>3, <1>4, <1>5, <1>6, <1>7, <1>8, <1>9 DEF FileStep, WriterStep

\* A step of the file is a step of the register, or the register stutters.
LEMMA FileStepRefines ==
    FileInv /\ FileStep => [R!Next]_<<Stored, Held>>
<1> SUFFICES ASSUME FileInv, FileStep PROVE [R!Next]_<<Stored, Held>>
  OBVIOUS
<1> USE InodeAssumption
<1> USE DEF FileInv, FileTypes, Whole, Apart, Newer, Filled, NoInode
<1>1. CASE TakeSnapshot \/ WriteFails \/ Expire
  BY <1>1 DEF TakeSnapshot, WriteFails, Expire, Stored, Held
<1>2. CASE OpenTmp
  <2> PICK i \in IF dir["tmp"] = NoInode THEN Fresh ELSE {dir["tmp"]} :
             /\ dir' = [dir EXCEPT !["tmp"] = i]
             /\ content' = [content EXCEPT ![i] = 0]
    BY <1>2 DEF OpenTmp
  <2>1. /\ i \in Inodes /\ i # 0 /\ i # dir["live"]
        /\ \A r \in Readers : fd[r] # i
    BY FreshIsFree
  <2> QED
    BY <1>2, <2>1 DEF OpenTmp, Stored, Held
<1>3. CASE Dump
  BY <1>3 DEF Dump, Stored, Held
<1>4. CASE Replace
  <2>1. Stored' = writer.snap /\ Stored < writer.snap /\ writer.snap \in Int
    BY <1>4 DEF Replace, Stored
  <2>2. Held' = Held
    BY <1>4 DEF Replace, Held
  <2> QED
    BY <2>1, <2>2 DEF R!Next, R!Write
<1>5. ASSUME NEW r \in Readers, OpenLiveToRead(r) PROVE R!Next
  <2>1. Held[r] = R!Idle /\ Stored > 0 /\ UNCHANGED Stored
    BY <1>5 DEF OpenLiveToRead, Held, Stored, R!Idle
  <2>2. Held' = [Held EXCEPT ![r] = Stored]
    BY <1>5 DEF OpenLiveToRead, Held, Stored
  <2> QED
    BY <2>1, <2>2 DEF R!Next, R!Read
<1>6. ASSUME NEW r \in Readers, CloseReader(r) PROVE R!Next
  <2>1. Held' = [q \in Readers |-> IF q \in {r} THEN R!Idle ELSE Held[q]]
    BY <1>6 DEF CloseReader, Held, R!Idle
  <2>2. UNCHANGED Stored
    BY <1>6 DEF CloseReader, Stored
  <2>3. R!Done({r})
    BY <2>1, <2>2 DEF R!Done
  <2> QED
    BY <2>3 DEF R!Next
<1>7. CASE Killed
  <2>1. UNCHANGED Stored
    BY <1>7 DEF Killed, Stored
  <2>2. CASE fd' = fd
    BY <1>7, <2>1, <2>2 DEF Killed, Held
  <2>3. CASE fd' = [r \in Readers |-> NoInode]
    <3>1. Held' = [q \in Readers |-> IF q \in Readers THEN R!Idle ELSE Held[q]]
      BY <1>7, <2>3 DEF Killed, Held, R!Idle
    <3> QED
      BY <2>1, <3>1 DEF R!Next, R!Done
  <2> QED
    BY <1>7, <2>2, <2>3 DEF Killed
<1> QED
  BY <1>1, <1>2, <1>3, <1>4, <1>5, <1>6, <1>7 DEF FileStep, WriterStep

LEMMA FileInitRefines == Init => R!Init
BY DEF Init, FileInit, R!Init, R!Idle, Stored, Held, NoInode

\* _write_json and read_live_metrics implement the register, for any number of
\* sessions and of snapshots, whichever process dies when.
THEOREM FileIsRegister == Spec => AtomicFile
<1>1. Init => FileInv
  BY FileInit0
<1>2. FileInv /\ [Next]_vars => FileInv'
  BY NextIsFileStep, FileInvStep
<1>3. FileInv /\ [Next]_vars => [R!Next]_<<Stored, Held>>
  BY NextIsFileStep, FileStepRefines
<1> QED
  BY <1>1, <1>2, <1>3, FileInitRefines, PTL DEF Spec, AtomicFile, R!Spec

-----------------------------------------------------------------------------
(***************************************************************************)
(* The launchers.                                                          *)
(***************************************************************************)

LaunchTypes ==
    /\ tool \in {"desktop", "run"}
    /\ pc \in IF tool = "desktop"
              THEN {"idle", "asked", "spawn", "stop", "close", "exited"}
              ELSE {"spawn", "popen", "wait", "watch", "down", "downwait", "exit", "exitwait",
                    "exited"}
    /\ table \subseteq Parts /\ todo \subseteq Parts
    /\ state \in [Parts -> {"dead", "starting", "up"}]
    /\ told \subseteq Parts
    /\ mode \in [Readers -> {"live", "demo"}]

\* SIGINT is the script's way of stopping processes.
ToldByScript == tool = "desktop" => told = {}

\* A stop forgets a process only when it is gone.
StopInProgress ==
    pc \in {"stop", "close"} => \A p \in Parts : Alive(p) => p \in todo

\* From the last teardown on, every process that is left was told.
LastTeardown ==
    tool = "run" /\ pc \in {"exitwait", "exited"} =>
        \A p \in Parts : Alive(p) => p \in told

LaunchInv == LaunchTypes /\ ToldByScript /\ NoOrphan /\ StopInProgress /\ LastTeardown

LEMMA LaunchInit == Init => LaunchInv
BY DEF Init, LaunchInv, LaunchTypes, ToldByScript, NoOrphan, StopInProgress, LastTeardown,
       Alive, Parts

\* No two processes have the same place in the order.
LEMMA FirstUnique ==
    ASSUME NEW parts \in SUBSET Parts, NEW p \in parts, NEW q \in parts,
           First(p, parts), First(q, parts)
    PROVE  p = q
<1>1. \A x \in parts : x \in {"proxy", "backends", "loadgen", "dashboard"}
  BY OptionalAssumption DEF Parts
<1>2. Rank[p] <= Rank[q] /\ Rank[q] <= Rank[p]
  BY DEF First
<1> QED
  BY <1>1, <1>2 DEF Rank

LEMMA LaunchInvStep == LaunchInv /\ [Next]_vars => LaunchInv'
<1> SUFFICES ASSUME LaunchInv, [Next]_vars PROVE LaunchInv'
  OBVIOUS
<1> USE DEF LaunchInv, LaunchTypes, ToldByScript, NoOrphan, StopInProgress, LastTeardown,
            Alive
<1>0. "proxy" \in Parts /\ Optional \subseteq Parts
  BY DEF Parts
<1>1. CASE UNCHANGED vars
  BY <1>1 DEF vars, launchVars
<1>2. CASE StartStack
  BY <1>0, <1>2 DEF StartStack
<1>3. CASE Answer
  BY <1>3 DEF Answer
<1>4. CASE SpawnFails
  BY <1>4 DEF SpawnFails
<1>5. CASE Poll
  BY <1>5 DEF Poll
<1>6. CASE StopStack("stop") \/ StopStack("close")
  BY <1>6 DEF StopStack
<1>7. CASE Interrupt
  BY <1>7 DEF Interrupt
<1>8. CASE Spawn
  BY <1>8 DEF Spawn
<1>9. CASE StopOne
  BY <1>9 DEF StopOne, Ends
<1>10. CASE Stopped
  BY <1>10 DEF Stopped
<1>11. CASE Check \/ Tell
  BY <1>11 DEF Check, Tell
<1>12. CASE AwaitOne
  BY <1>12 DEF AwaitOne, Ends
<1>13. ASSUME NEW p \in Parts, Boot(p) PROVE LaunchInv'
  BY <1>13 DEF Boot, Ends
<1>14. ASSUME NEW p \in Parts, Crash(p) \/ Exit(p) PROVE LaunchInv'
  BY <1>14 DEF Crash, Exit, Ends
<1>15. CASE Foreign \/ ProxyWrites \/ TimePasses
  BY <1>15 DEF Foreign, ProxyWrites, TimePasses, launchVars
<1>16. ASSUME NEW r \in Readers, Refresh(r) \/ Show(r) PROVE LaunchInv'
  BY <1>16 DEF Refresh, Show, launchVars
<1>17. CASE Popen
  BY <1>17 DEF Popen
<1>18. CASE Enter
  <2>1. PICK p \in todo : First(p, todo) /\ table' = table \cup {p} /\ todo' = todo \ {p}
    BY <1>18 DEF Enter
  <2>2. \A q \in Parts : First(q, todo) => q = p
    <3> SUFFICES ASSUME NEW q \in Parts, First(q, todo) PROVE q = p
      OBVIOUS
    <3>1. q \in todo /\ todo \in SUBSET Parts
      BY DEF First
    <3> QED
      BY ONLY <2>1, <3>1, First(q, todo), FirstUnique, Zenon
  <2>3. NoOrphan'
    BY <1>18, <2>1, <2>2 DEF Enter
  <2> QED
    BY <1>18, <2>1, <2>3 DEF Enter
<1> QED
  BY <1>1, <1>2, <1>3, <1>4, <1>5, <1>6, <1>7, <1>8, <1>9, <1>10, <1>11, <1>12,
     <1>13, <1>14, <1>15, <1>16, <1>17, <1>18 DEF Next, Desktop, Script

THEOREM LaunchInvariant == Spec => []LaunchInv
<1> QED
  BY LaunchInit, LaunchInvStep, PTL DEF Spec

\* start_stack, stop_stack and the watchdog never lose track of a process that
\* runs, whatever fails; _start and _teardown lose track only of one that the
\* Ctrl-C which came between Popen and the table has reached as well.
THEOREM NoOrphanTheorem == Spec => []NoOrphan
<1>1. LaunchInv => NoOrphan
  BY DEF LaunchInv
<1> QED
  BY <1>1, LaunchInvariant, PTL

\* However _teardown is interrupted, the script leaves no process behind that
\* was not told to end.
THEOREM CleanUpTheorem == Spec => []ScriptCleansUp
<1>1. LaunchInv => ScriptCleansUp
  BY DEF LaunchInv, LastTeardown, ScriptCleansUp
<1> QED
  BY <1>1, LaunchInvariant, PTL

\* Every variable of the stack stays in its type, snapshots in files and in
\* the writer's hands below the number of those taken.
THEOREM StackTypeInvariant == Spec => []StackTypeOK
<1>1. Init => FileInv
  BY FileInit0
<1>2. FileInv /\ [Next]_vars => FileInv'
  BY NextIsFileStep, FileInvStep
<1>3. FileInv /\ LaunchInv => StackTypeOK
  BY DEF FileInv, FileTypes, LaunchInv, LaunchTypes, StackTypeOK
<1> QED
  BY <1>1, <1>2, <1>3, LaunchInvariant, PTL DEF Spec
=============================================================================
