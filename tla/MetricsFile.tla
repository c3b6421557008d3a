---------------------------- MODULE MetricsFile ----------------------------
(***************************************************************************)
(* live_metrics.json: the aggregator thread of the proxy writes it once a  *)
(* second (demo/metrics_store.py), the dashboard reads it at every refresh *)
(* (read_live_metrics). The two share no lock: the writer fills a file of  *)
(* another name and renames it.                                            *)
(*                                                                         *)
(* Of the file system this needs names and inodes: opening a name for      *)
(* writing truncates the inode it stands for, a rename moves the name, and *)
(* a file stays readable through a descriptor after its name has moved.    *)
(* Snapshots are numbered; 0 is a file that json.load cannot parse.        *)
(***************************************************************************)
EXTENDS Integers, FiniteSets

CONSTANTS
    Readers,     \* sessions of the dashboard
    Inodes,      \* inodes the file system can give to the two names
    MaxSnapshots \* bound: snapshots taken in a run

ASSUME InodeAssumption == Inodes \subseteq Nat \ {0}
ASSUME SnapshotAssumption == MaxSnapshots \in Nat

VARIABLES
    dir,         \* the inode of METRICS_FILE ("live") and of its .tmp ("tmp")
    content,     \* the snapshot in each inode
    writer,      \* the aggregator thread: where it is and with which snapshot
    latest,      \* snapshots taken so far, by this proxy and its predecessors
    expired,     \* snapshots up to this one are more than five seconds old
    fd           \* the inode each reader has open

NoInode == 0

fileVars == <<dir, content, writer, latest, expired, fd>>

Asleep == [pc |-> "sleep", snap |-> 0]

FileInit ==
    /\ dir = [name \in {"live", "tmp"} |-> NoInode]
    /\ content = [i \in Inodes |-> 0]
    /\ writer = Asleep
    /\ latest = 0
    /\ expired = 0
    /\ fd = [r \in Readers |-> NoInode]

\* The inode a new file gets, if there is one: which one makes no difference.
Fresh ==
    LET free == {i \in Inodes : /\ i # dir["live"] /\ i # dir["tmp"]
                                /\ \A r \in Readers : fd[r] # i}
    IN  {i \in free : \A j \in free : i <= j}

-----------------------------------------------------------------------------
(***************************************************************************)
(* The writer: _aggregate_tick and snapshot, then _write_json.             *)
(***************************************************************************)

TakeSnapshot ==
    /\ writer.pc = "sleep"
    /\ latest < MaxSnapshots
    /\ latest' = latest + 1
    /\ writer' = [pc |-> "open", snap |-> latest + 1]
    /\ UNCHANGED <<dir, content, expired, fd>>

\* Mutant: the writer opens the file that readers open.
OpenLive ==
    /\ writer.pc = "open"
    /\ \E i \in IF dir["live"] = NoInode THEN Fresh ELSE {dir["live"]} :
          /\ dir' = [dir EXCEPT !["live"] = i, !["tmp"] = i]
          /\ content' = [content EXCEPT ![i] = 0]
    /\ writer' = [writer EXCEPT !.pc = "dump"]
    /\ UNCHANGED <<latest, expired, fd>>

\* open(tmp, "w"): a file that a killed writer left behind is used again.
OpenTmp ==
    /\ writer.pc = "open"
    /\ \E i \in IF dir["tmp"] = NoInode THEN Fresh ELSE {dir["tmp"]} :
          /\ dir' = [dir EXCEPT !["tmp"] = i]
          /\ content' = [content EXCEPT ![i] = 0]
    /\ writer' = [writer EXCEPT !.pc = "dump"]
    /\ UNCHANGED <<latest, expired, fd>>

\* json.dump and the end of the with statement.
Dump ==
    /\ writer.pc = "dump"
    /\ content' = [content EXCEPT ![dir["tmp"]] = writer.snap]
    /\ writer' = [writer EXCEPT !.pc = "replace"]
    /\ UNCHANGED <<dir, latest, expired, fd>>

\* os.replace.
Replace ==
    /\ writer.pc = "replace"
    /\ dir' = [name \in {"live", "tmp"} |->
                 IF name = "live" THEN dir["tmp"] ELSE NoInode]
    /\ writer' = Asleep
    /\ UNCHANGED <<content, latest, expired, fd>>

\* Any of the calls raises; the exception is dropped and the file that was
\* being written stays.
WriteFails ==
    /\ writer.pc # "sleep"
    /\ writer' = Asleep
    /\ UNCHANGED <<dir, content, latest, expired, fd>>

WriterStep == TakeSnapshot \/ OpenTmp \/ Dump \/ Replace \/ WriteFails

\* The process dies, whatever its thread is doing.
WriterKilled == writer' = Asleep

-----------------------------------------------------------------------------
(***************************************************************************)
(* Readers and time.                                                       *)
(***************************************************************************)

OpenLiveToRead(r) ==
    /\ fd[r] = NoInode
    /\ dir["live"] # NoInode
    /\ fd' = [fd EXCEPT ![r] = dir["live"]]
    /\ UNCHANGED <<dir, content, writer, latest, expired>>

\* What read_live_metrics returns once it has parsed the file: a snapshot that
\* is not stale, or None.
Loaded(r) == content[fd[r]] > expired

CloseReader(r) ==
    /\ fd[r] # NoInode
    /\ fd' = [fd EXCEPT ![r] = NoInode]
    /\ UNCHANGED <<dir, content, writer, latest, expired>>

Expire ==
    /\ expired < latest
    /\ expired' \in (expired + 1) .. latest
    /\ UNCHANGED <<dir, content, writer, latest, fd>>

-----------------------------------------------------------------------------
\* What the file and the readers stand for.
Stored == IF dir["live"] = NoInode THEN 0 ELSE content[dir["live"]]
Held == [r \in Readers |-> IF fd[r] = NoInode THEN -1 ELSE content[fd[r]]]

R == INSTANCE Register WITH value <- Stored, got <- Held

\* Although the writer and the readers share no lock, and although the writer
\* may be killed between any two of its calls, the file behaves like the
\* register: a reader sees one whole snapshot, never an older one than before,
\* and what it reads from does not change under it.
AtomicFile == R!Spec
=============================================================================
