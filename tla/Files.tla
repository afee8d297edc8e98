------------------------------- MODULE Files -------------------------------
(***************************************************************************)
(* fs.cpp: processes that read one file with read_file and replace it with   *)
(* atomic_write_file, some of them under a FileLock, system call by system   *)
(* call, and the file system below them.                                    *)
(*                                                                          *)
(*   update  acquire the lock, then replace (peer add, peer remove, apply)   *)
(*   build   replace without the lock                                       *)
(*   load    read without the lock                                          *)
(*                                                                          *)
(* The file system is external: a name points to an inode, a rename points   *)
(* it to another one, an inode lives while a name or a descriptor points to  *)
(* it.  The disk has the name as it was last written back, and of an inode   *)
(* that was not fsynced anything from nothing to all of it.                  *)
(***************************************************************************)
EXTENDS Integers

CONSTANTS
    Process,   \* wirebard processes
    NoProcess, \* nobody holds the lock
    Contents,  \* what the file may hold
    Inode,     \* inode numbers
    NoInode,   \* no temp file, no open file
    Tasks,     \* what a process may be called for
    NoTask,    \* a process that runs nothing
    Faults     \* what may go wrong

\* Data that is not complete.
Part == "part"
Data == Contents \cup {Part}

\* nullopt leaves the mode to the umask; 0600 is for what holds a key.
Mode == {"default", "0600"}

\* The time-out of acquire is counted in sleeps of 50 ms (600 in the commands).
AllTasks ==
    [op : {"update"}, data : Contents, mode : Mode, timeout : Nat]
    \cup [op : {"build"}, data : Contents, mode : Mode]
    \cup [op : {"load"}]
Answers == {"none", "ok", "failed", "busy"}

(***************************************************************************)
(*   fail     a system call fails, reads excepted                           *)
(*   eio      the device fails while an open file is read                   *)
(*   cleanup  the removal of the temp file fails, which is ignored           *)
(*   nosync   open or fsync fails on the temp file, which is ignored         *)
(*   crash    a process is killed                                           *)
(*   cut      power is cut                                                  *)
(***************************************************************************)
AllFaults == {"fail", "eio", "cleanup", "nosync", "crash", "cut"}

ASSUME FilesAssumption ==
    /\ NoProcess \notin Process
    /\ NoInode \notin Inode /\ NoInode \notin Data
    /\ Inode \subseteq Nat
    /\ Contents \cap (Answers \cup {Part}) = {}
    /\ Tasks \subseteq AllTasks
    /\ NoTask \notin Tasks
    /\ Faults \subseteq AllFaults

VARIABLES
    inode,   \* data, mode, the mode its writer asked for, whether it is synced
    dest,    \* the inode that the file's name points to
    stored,  \* the same on the disk
    temp,    \* the inode of each process's temp file
    opened,  \* the inode it reads
    holder,  \* whose descriptor of the lock file is flocked
    waited,  \* sleeps of acquire
    task,    \* what it has been called for
    answer,  \* what the call returns
    pc       \* the system call it makes next

names == <<dest, stored, temp, opened>>
flock == <<holder, waited>>
vars == <<inode, names, flock, task, answer, pc>>

Writing == {"create", "write", "chmod", "fsync", "rename"}
Labels == {"idle", "flock", "blocked", "open", "read", "return"} \cup Writing

TypeOK ==
    /\ inode \in [Inode -> [data : Data, mode : Mode, asked : Mode, synced : BOOLEAN]]
    /\ dest \in Inode /\ stored \in Inode
    /\ temp \in [Process -> Inode \cup {NoInode}]
    /\ opened \in [Process -> Inode \cup {NoInode}]
    /\ holder \in Process \cup {NoProcess}
    /\ waited \in [Process -> Nat]
    /\ task \in [Process -> Tasks \cup {NoTask}]
    /\ answer \in [Process -> Answers \cup Data]
    /\ pc \in [Process -> Labels]

Blank == [data |-> Part, mode |-> "default", asked |-> "default", synced |-> FALSE]

Init ==
    /\ dest \in Inode /\ \A i \in Inode : dest <= i
    /\ stored = dest
    /\ \E c \in Contents, m \in Mode :
        inode = [i \in Inode |->
                    IF i = dest THEN [data |-> c, mode |-> m, asked |-> m, synced |-> TRUE]
                    ELSE Blank]
    /\ temp = [p \in Process |-> NoInode]
    /\ opened = [p \in Process |-> NoInode]
    /\ holder = NoProcess
    /\ waited = [p \in Process |-> 0]
    /\ task = [p \in Process |-> NoTask]
    /\ answer = [p \in Process |-> "none"]
    /\ pc = [p \in Process |-> "idle"]
-----------------------------------------------------------------------------
At(p, label) == pc[p] = label
Goto(p, label) == pc' = [pc EXCEPT ![p] = label]

Answer(p, a) ==
    /\ answer' = [answer EXCEPT ![p] = a]
    /\ Goto(p, "return")

Used == {dest, stored} \cup {temp[p] : p \in Process} \cup {opened[p] : p \in Process}

\* The file system after a step: inodes nobody points to any more are reclaimed.
Leave(ino) == inode' = [i \in Inode |-> IF i \in Used' THEN ino[i] ELSE Blank]

Call(p) ==
    /\ At(p, "idle")
    /\ \E t \in Tasks :
        /\ task' = [task EXCEPT ![p] = t]
        /\ Goto(p, CASE t.op = "update" -> "flock"
                     [] t.op = "build" -> "create"
                     [] t.op = "load" -> "open")
    /\ UNCHANGED <<inode, names, flock, answer>>

\* The destructor of the FileLock unlocks and closes.
Return(p) ==
    /\ At(p, "return")
    /\ holder' = IF holder = p THEN NoProcess ELSE holder
    /\ waited' = [waited EXCEPT ![p] = 0]
    /\ task' = [task EXCEPT ![p] = NoTask]
    /\ answer' = [answer EXCEPT ![p] = "none"]
    /\ Goto(p, "idle")
    /\ UNCHANGED <<inode, names>>
-----------------------------------------------------------------------------
(* FileLock::acquire.                                                       *)

\* The lock file cannot be opened, or flock fails otherwise than by EWOULDBLOCK.
LockFails(p) ==
    /\ "fail" \in Faults
    /\ At(p, "flock")
    /\ Answer(p, "failed")
    /\ UNCHANGED <<inode, names, flock, task>>

\* Mutant: the FileLock that acquire's is moved from keeps its descriptor.
LockAndUnlock(p) ==
    /\ At(p, "flock")
    /\ holder = NoProcess
    /\ Goto(p, "create")
    /\ UNCHANGED <<inode, names, flock, task, answer>>

\* The FileLock is moved out of acquire; what is left of it has no descriptor
\* that its destructor would unlock.
Lock(p) ==
    /\ At(p, "flock")
    /\ holder = NoProcess
    /\ holder' = p
    /\ Goto(p, "create")
    /\ UNCHANGED <<inode, names, waited, task, answer>>

Blocked(p) ==
    /\ At(p, "flock")
    /\ holder # NoProcess
    /\ Goto(p, "blocked")
    /\ UNCHANGED <<inode, names, flock, task, answer>>

\* Mutant: the time that has passed is not added up.
SleepUncounted(p) ==
    /\ At(p, "blocked")
    /\ waited[p] < task[p].timeout
    /\ Goto(p, "flock")
    /\ UNCHANGED <<inode, names, flock, task, answer>>

\* Mutant: the time that is left is counted, but nobody sets it.
SleepDown(p) ==
    /\ At(p, "blocked")
    /\ waited[p] < task[p].timeout
    /\ waited' = [waited EXCEPT ![p] = @ - 1]
    /\ Goto(p, "flock")
    /\ UNCHANGED <<inode, names, holder, task, answer>>

Sleep(p) ==
    /\ At(p, "blocked")
    /\ waited[p] < task[p].timeout
    /\ waited' = [waited EXCEPT ![p] = @ + 1]
    /\ Goto(p, "flock")
    /\ UNCHANGED <<inode, names, holder, task, answer>>

GiveUp(p) ==
    /\ At(p, "blocked")
    /\ waited[p] >= task[p].timeout
    /\ Answer(p, "busy")
    /\ UNCHANGED <<inode, names, flock, task>>
-----------------------------------------------------------------------------
(* write_atomic.                                                            *)

\* Which number a new inode gets does not matter: the lowest unused.
Unused(i) == i \in Inode \ Used /\ \A j \in Inode \ Used : i <= j

\* A temp file beside the destination.  Its name ends in a random suffix, which
\* is taken to be new.
Create(p) ==
    /\ At(p, "create")
    /\ \E i \in Inode :
        /\ Unused(i)
        /\ inode' = [inode EXCEPT ![i] = [Blank EXCEPT !.asked = task[p].mode]]
        /\ temp' = [temp EXCEPT ![p] = i]
    /\ Goto(p, "write")
    /\ UNCHANGED <<dest, stored, opened, flock, task, answer>>

CreateFails(p) ==
    /\ "fail" \in Faults
    /\ At(p, "create")
    /\ Answer(p, "failed")
    /\ UNCHANGED <<inode, names, flock, task>>

\* The stream writes in any number of pieces; flush and close leave none behind.
Write(p) ==
    /\ At(p, "write")
    /\ inode' = [inode EXCEPT ![temp[p]].data = task[p].data]
    /\ Goto(p, IF task[p].mode = "default" THEN "fsync" ELSE "chmod")
    /\ UNCHANGED <<names, flock, task, answer>>

\* Mutant: the file is put in place first and its permissions tightened later.
ChmodLate(p) ==
    /\ At(p, "chmod")
    /\ Goto(p, "fsync")
    /\ UNCHANGED <<inode, names, flock, task, answer>>

Chmod(p) ==
    /\ At(p, "chmod")
    /\ inode' = [inode EXCEPT ![temp[p]].mode = task[p].mode]
    /\ Goto(p, "fsync")
    /\ UNCHANGED <<names, flock, task, answer>>

\* Mutant: no fsync.
FsyncSkipped(p) ==
    /\ At(p, "fsync")
    /\ Goto(p, "rename")
    /\ UNCHANGED <<inode, names, flock, task, answer>>

\* Neither the open before it nor fsync itself is checked.
Fsync(p) ==
    /\ At(p, "fsync")
    /\ \E done \in {TRUE} \cup (IF "nosync" \in Faults THEN {FALSE} ELSE {}) :
        inode' = [inode EXCEPT ![temp[p]].synced = done]
    /\ Goto(p, "rename")
    /\ UNCHANGED <<names, flock, task, answer>>

Rename(p) ==
    /\ At(p, "rename")
    /\ dest' = temp[p]
    /\ temp' = [temp EXCEPT ![p] = NoInode]
    /\ UNCHANGED <<stored, opened>>
    /\ Leave(inode)
    /\ Answer(p, "ok")
    /\ UNCHANGED <<flock, task>>

\* Mutant: an error return leaves the temp file where it is.
KeepTemp(p) == UNCHANGED temp

RemoveTemp(p) ==
    temp' \in {[temp EXCEPT ![p] = NoInode]} \cup (IF "cleanup" \in Faults THEN {temp} ELSE {})

\* write, chmod or rename fails.
WriteFails(p) ==
    /\ "fail" \in Faults
    /\ pc[p] \in {"write", "chmod", "rename"}
    /\ RemoveTemp(p)
    /\ UNCHANGED <<dest, stored, opened>>
    /\ Leave(inode)
    /\ Answer(p, "failed")
    /\ UNCHANGED <<flock, task>>
-----------------------------------------------------------------------------
(* read_file.                                                               *)

Open(p) ==
    /\ At(p, "open")
    /\ opened' = [opened EXCEPT ![p] = dest]
    /\ Goto(p, "read")
    /\ UNCHANGED <<inode, dest, stored, temp, flock, task, answer>>

OpenFails(p) ==
    /\ "fail" \in Faults
    /\ At(p, "open")
    /\ Answer(p, "failed")
    /\ UNCHANGED <<inode, names, flock, task>>

\* A failing read is an exception inside `buf << in.rdbuf()`, which marks buf.
\* in.bad() is therefore never true: the error return behind it is not taken, and
\* what has been read so far is the answer.  The stream closes the file.
Read(p) ==
    /\ At(p, "read")
    /\ opened' = [opened EXCEPT ![p] = NoInode]
    /\ UNCHANGED <<dest, stored, temp>>
    /\ Leave(inode)
    /\ \E d \in {inode[opened[p]].data} \cup (IF "eio" \in Faults THEN {Part} ELSE {}) :
        Answer(p, d)
    /\ UNCHANGED <<flock, task>>
-----------------------------------------------------------------------------
(* The environment.                                                         *)

\* The kernel closes a dead process's descriptors.  Its temp file stays, under
\* a name that no command lists.
Forget(dead) ==
    /\ temp' = [p \in Process |-> IF p \in dead THEN NoInode ELSE temp[p]]
    /\ opened' = [p \in Process |-> IF p \in dead THEN NoInode ELSE opened[p]]
    /\ holder' = IF holder \in dead THEN NoProcess ELSE holder
    /\ waited' = [p \in Process |-> IF p \in dead THEN 0 ELSE waited[p]]
    /\ task' = [p \in Process |-> IF p \in dead THEN NoTask ELSE task[p]]
    /\ answer' = [p \in Process |-> IF p \in dead THEN "none" ELSE answer[p]]
    /\ pc' = [p \in Process |-> IF p \in dead THEN "idle" ELSE pc[p]]

Crash(p) ==
    /\ "crash" \in Faults
    /\ ~ At(p, "idle")
    /\ Forget({p})
    /\ UNCHANGED <<dest, stored>>
    /\ Leave(inode)

\* The kernel writes the directory back when it likes: nobody syncs it.
WriteBack ==
    /\ stored' = dest
    /\ UNCHANGED <<dest, temp, opened>>
    /\ Leave(inode)
    /\ UNCHANGED <<flock, task, answer, pc>>

\* Of an inode that is not synced neither data nor mode is certain.
PowerCut ==
    /\ "cut" \in Faults
    /\ Forget(Process)
    /\ dest' = stored
    /\ UNCHANGED stored
    /\ \E lost \in {FALSE, ~ inode[stored].synced} :
        LET left == IF lost THEN [Blank EXCEPT !.asked = inode[stored].asked]
                            ELSE inode[stored]
        IN  Leave([inode EXCEPT ![stored] = [left EXCEPT !.synced = TRUE]])
-----------------------------------------------------------------------------
LockStep(p) == LockFails(p) \/ Lock(p) \/ Blocked(p) \/ Sleep(p) \/ GiveUp(p)
WriteStep(p) ==
    \/ Create(p) \/ CreateFails(p) \/ Write(p) \/ Chmod(p) \/ Fsync(p)
    \/ Rename(p) \/ WriteFails(p)
ReadStep(p) == Open(p) \/ OpenFails(p) \/ Read(p)

Next ==
    \/ \E p \in Process :
        Call(p) \/ LockStep(p) \/ WriteStep(p) \/ ReadStep(p) \/ Return(p) \/ Crash(p)
    \/ WriteBack \/ PowerCut

Spec == Init /\ [][Next]_vars

\* A process that waits for the lock gets to run; the one that has it need not
\* ever go on (its commands may take minutes).
FairSpec == Spec /\ \A p \in Process : WF_vars(LockStep(p))
-----------------------------------------------------------------------------
\* At most one process is past acquire and has not yet returned, whatever time
\* outs, moves of the FileLock and deaths there are (FileLock in fs.cpp).
Protected(p) == task[p] # NoTask /\ task[p].op = "update" /\ pc[p] \in Writing
Exclusive == \A p, q \in Process : Protected(p) /\ Protected(q) => p = q

\* A call that returns, on whatever path, leaves no temp file behind
\* (write_atomic).
NoDroppings == \A p \in Process : temp[p] # NoInode => pc[p] \in Writing

\* Whoever opens the file, now or after a power cut, finds it with the
\* permissions its writer asked for: "explicit permission bits set BEFORE the
\* rename, so the destination is never momentarily world-readable" (fs.h:41-42).
ModeKept == \A i \in {dest, stored} : inode[i].mode = inode[i].asked

\* The wait for the lock ends, though its holder keep it for ever: "acquire()
\* blocks up to `timeout`, retrying, then FAILS rather than hanging" (fs.h:53).
AcquireReturns ==
    \A p \in Process : pc[p] \in {"flock", "blocked"} ~> pc[p] \notin {"flock", "blocked"}

A == INSTANCE AtomicFile WITH
    current <- inode[dest].data,
    stable <- inode[stored].data,
    Unread <- NoInode,
    Piece <- Part,
    Readable <- "eio" \notin Faults,
    seen <- [p \in Process |-> IF opened[p] = NoInode THEN NoInode
                               ELSE inode[opened[p]].data]

\* "Readers NEVER see a half-written result" (fs.h:24), whatever writers run
\* side by side, fail or die, and a power cut leaves an old or the new file:
\* write_atomic and read_file implement an atomic file.  (A reader whose device
\* fails is given a piece of it for the whole; the file is not affected.)
AtomicSpec == A!Spec
=============================================================================
