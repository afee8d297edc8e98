----------------------------- MODULE FilesProofs -----------------------------
(* fs.cpp for every set of processes, contents, tasks and inodes.            *)
EXTENDS Files, TLAPS

Held == {"write", "chmod", "fsync", "rename"}
InodeState == [data : Data, mode : Mode, asked : Mode, synced : BOOLEAN]

\* What a process has in hand at each system call.
Stages ==
    \A p \in Process :
        /\ pc[p] = "idle" <=> task[p] = NoTask
        /\ pc[p] \in {"flock", "blocked"} => task[p].op = "update"
        /\ pc[p] \in Writing => task[p].op \in {"update", "build"}
        /\ pc[p] \in {"open", "read"} => task[p].op = "load"
        /\ pc[p] = "return" <=> answer[p] # "none"
        /\ pc[p] = "read" <=> opened[p] # NoInode

\* A temp file that is being written is nobody else's, and not yet the file.
Own ==
    \A p \in Process : pc[p] \in Held =>
        /\ temp[p] \in Inode \ {dest, stored}
        /\ \A q \in Process : temp[p] # opened[q] /\ (q # p => temp[p] # temp[q])

\* How far a temp file is.
Fits(label, file, t) ==
    /\ file.asked = t.mode
    /\ label = "write" => file.mode = "default"
    /\ label \in {"fsync", "rename"} => file.mode = file.asked
    /\ label \in {"chmod", "fsync", "rename"} => file.data = t.data
    /\ label = "rename" => file.synced
Progress ==
    \A p \in Process : pc[p] \in Held => Fits(pc[p], inode[temp[p]], task[p])

\* What is in place, on the disk or in a reader's hand is as its writer meant it.
Whole(file) == file.data \in Contents /\ file.mode = file.asked /\ file.synced
Complete ==
    /\ Whole(inode[dest]) /\ Whole(inode[stored])
    /\ \A p \in Process : opened[p] # NoInode => Whole(inode[opened[p]])

\* Who is past acquire has the lock.
Locked == \A p \in Process : Protected(p) => holder = p

FilesInv == TypeOK /\ Stages /\ Own /\ Locked
-----------------------------------------------------------------------------
\* The fields that tasks of each kind have.
LEMMA TaskFields ==
    ASSUME NEW t \in Tasks
    PROVE  /\ t # NoTask
           /\ t.op \in {"update", "build", "load"}
           /\ t.op # "load" => t.data \in Contents /\ t.mode \in Mode
           /\ t.op = "update" => t.timeout \in Nat
BY FilesAssumption DEF AllTasks

\* A reclaimed inode is blank, the others are as the step left them.
LEMMA LeaveKeeps ==
    ASSUME NEW ino \in [Inode -> InodeState], Leave(ino)
    PROVE  /\ inode' \in [Inode -> InodeState]
           /\ \A i \in Inode : i \in Used' => inode'[i] = ino[i]
<1>1. Blank \in InodeState
  BY DEF Blank, InodeState, Data, Mode
<1> QED BY <1>1 DEF Leave

LEMMA FilesInit == Init => FilesInv /\ Progress /\ Complete
<1> SUFFICES ASSUME Init PROVE FilesInv /\ Progress /\ Complete
  OBVIOUS
<1>1. inode \in [Inode -> InodeState] /\ Whole(inode[dest])
  <2>1. PICK c \in Contents, m \in Mode :
          inode = [i \in Inode |->
                    IF i = dest THEN [data |-> c, mode |-> m, asked |-> m, synced |-> TRUE]
                    ELSE Blank]
    BY DEF Init
  <2>2. Blank \in InodeState
    BY DEF Blank, InodeState, Data, Mode
  <2>3. [data |-> c, mode |-> m, asked |-> m, synced |-> TRUE] \in InodeState
    BY DEF InodeState, Data
  <2>4. dest \in Inode
    BY DEF Init
  <2> QED BY <2>1, <2>2, <2>3, <2>4 DEF Whole
<1>2. TypeOK
  BY <1>1 DEF Init, TypeOK, InodeState, Labels, Answers
<1>3. Stages /\ Own /\ Locked /\ Progress
  BY DEF Init, Stages, Own, Locked, Progress, Protected, Held, Writing
<1>4. Complete
  BY <1>1 DEF Init, Complete
<1> QED BY <1>2, <1>3, <1>4 DEF FilesInv

\* What the death of some processes keeps.
LEMMA ForgetKeeps ==
    ASSUME FilesInv, NEW dead \in SUBSET Process, Forget(dead)
    PROVE  /\ temp' \in [Process -> Inode \cup {NoInode}]
           /\ opened' \in [Process -> Inode \cup {NoInode}]
           /\ holder' \in Process \cup {NoProcess}
           /\ waited' \in [Process -> Nat]
           /\ task' \in [Process -> Tasks \cup {NoTask}]
           /\ answer' \in [Process -> Answers \cup Data]
           /\ pc' \in [Process -> Labels]
           /\ Stages' /\ Locked'
<1> USE DEF FilesInv, TypeOK, Forget
<1>1. /\ temp' \in [Process -> Inode \cup {NoInode}]
      /\ opened' \in [Process -> Inode \cup {NoInode}]
      /\ holder' \in Process \cup {NoProcess}
      /\ waited' \in [Process -> Nat]
      /\ task' \in [Process -> Tasks \cup {NoTask}]
  OBVIOUS
<1>2. /\ answer' \in [Process -> Answers \cup Data]
      /\ pc' \in [Process -> Labels]
  BY DEF Answers, Labels
<1>3. Stages'
  BY DEF Stages, Writing
<1>4. Locked'
  BY DEF Locked, Protected, Writing
<1> QED BY <1>1, <1>2, <1>3, <1>4
\* A reader is answered with data, or with a part of them.
LEMMA ReadAnswers ==
    ASSUME FilesInv, NEW p \in Process, Read(p)
    PROVE  \E d \in Data :
              answer' = [answer EXCEPT ![p] = d] /\ pc' = [pc EXCEPT ![p] = "return"]
<1>1. opened[p] \in Inode
  BY DEF FilesInv, TypeOK, Stages, Read, At
<1>2. inode[opened[p]].data \in Data
  BY <1>1 DEF FilesInv, TypeOK
<1>3. PICK d \in {inode[opened[p]].data, Part} : Answer(p, d)
  BY DEF Read
<1>4. d \in Data
  BY <1>2 DEF Data
<1> QED BY <1>3, <1>4 DEF Answer, Goto
-----------------------------------------------------------------------------
\* Every step keeps the types.
LEMMA StepTypes == ASSUME FilesInv, [Next]_vars PROVE TypeOK'
<1> USE FilesAssumption, TaskFields
    DEF FilesInv, TypeOK, Stages, names, flock, At, Goto, Answer, Labels, Writing, Answers
<1>1. ASSUME NEW p \in Process, Call(p) PROVE TypeOK'
  <2>1. PICK t \in Tasks : task' = [task EXCEPT ![p] = t]
    BY <1>1 DEF Call
  <2>2. t.op \in {"update", "build", "load"}
    BY <2>1
  <2>3. pc' \in [Process -> Labels]
    BY <1>1, <2>1, <2>2 DEF Call
  <2> QED BY <1>1, <2>1, <2>3 DEF Call
<1>2. ASSUME NEW p \in Process, LockStep(p) PROVE TypeOK'
  <2>1. task[p] \in Tasks /\ (At(p, "blocked") => task[p].timeout \in Nat)
    BY <1>2 DEF LockStep, LockFails, Lock, Blocked, Sleep, GiveUp
  <2> QED BY <1>2, <2>1 DEF LockStep, LockFails, Lock, Blocked, Sleep, GiveUp
<1>3. ASSUME NEW p \in Process, WriteStep(p) PROVE TypeOK'
  <2> USE DEF Data, InodeState
  <2>1. task[p] \in Tasks /\ task[p].data \in Contents /\ task[p].mode \in Mode
    <3>1. pc[p] \in Writing
      BY <1>3 DEF WriteStep, Create, CreateFails, Write, Chmod, Fsync, Rename, WriteFails
    <3>2. task[p] \in Tasks /\ task[p].op # "load"
      BY <3>1
    <3> QED BY <3>2
  <2>2. CASE Create(p)
    <3>1. PICK i \in Inode :
            /\ inode' = [inode EXCEPT ![i] = [Blank EXCEPT !.asked = task[p].mode]]
            /\ temp' = [temp EXCEPT ![p] = i]
      BY <2>2 DEF Create
    <3>2. [Blank EXCEPT !.asked = task[p].mode] \in InodeState
      BY <2>1 DEF Blank, Mode
    <3>3. inode' \in [Inode -> InodeState] /\ temp' \in [Process -> Inode \cup {NoInode}]
      BY <3>1, <3>2
    <3> QED BY <2>2, <3>3 DEF Create
  <2>3. CASE CreateFails(p)
    BY <2>3 DEF CreateFails
  <2>4. CASE Write(p)
    <3>1. temp[p] \in Inode
      BY <2>4 DEF Write, Own, Held
    <3>2. inode' \in [Inode -> InodeState]
      BY <2>1, <2>4, <3>1 DEF Write
    <3> QED BY <2>4, <3>2 DEF Write
  <2>5. CASE Chmod(p)
    <3>1. temp[p] \in Inode
      BY <2>5 DEF Chmod, Own, Held
    <3>2. inode' \in [Inode -> InodeState]
      BY <2>1, <2>5, <3>1 DEF Chmod
    <3> QED BY <2>5, <3>2 DEF Chmod
  <2>6. CASE Fsync(p)
    <3>1. PICK done \in BOOLEAN : inode' = [inode EXCEPT ![temp[p]].synced = done]
      BY <2>6 DEF Fsync
    <3>2. temp[p] \in Inode
      BY <2>6 DEF Fsync, Own, Held
    <3>3. inode' \in [Inode -> InodeState]
      BY <3>1, <3>2
    <3> QED BY <2>6, <3>3 DEF Fsync
  <2>7. CASE Rename(p)
    <3>1. inode' \in [Inode -> InodeState]
      BY <2>7, LeaveKeeps DEF Rename
    <3>2. temp[p] \in Inode
      BY <2>7 DEF Rename, Own, Held
    <3> QED BY <2>7, <3>1, <3>2 DEF Rename
  <2>8. CASE WriteFails(p)
    <3>1. inode' \in [Inode -> InodeState]
      BY <2>8, LeaveKeeps DEF WriteFails
    <3> QED BY <2>8, <3>1 DEF WriteFails, RemoveTemp
  <2> QED BY <1>3, <2>2, <2>3, <2>4, <2>5, <2>6, <2>7, <2>8 DEF WriteStep
<1>4. ASSUME NEW p \in Process, ReadStep(p) PROVE TypeOK'
  <2>1. CASE Open(p)
    BY <2>1 DEF Open
  <2>2. CASE OpenFails(p)
    BY <2>2 DEF OpenFails
  <2>3. CASE Read(p)
    <3>1. inode' \in [Inode -> InodeState]
      BY <2>3, LeaveKeeps DEF Read, InodeState
    <3>2. opened[p] \in Inode
      BY <2>3 DEF Read
    <3>3. \E d \in Data :
            answer' = [answer EXCEPT ![p] = d] /\ pc' = [pc EXCEPT ![p] = "return"]
      BY <2>3, ReadAnswers
    <3>4. /\ opened' = [opened EXCEPT ![p] = NoInode]
          /\ UNCHANGED <<dest, stored, temp, holder, waited, task>>
      BY <2>3 DEF Read
    <3>5. answer' \in [Process -> Answers \cup Data]
      BY <3>3
    <3> QED BY <3>1, <3>3, <3>4, <3>5 DEF InodeState
  <2> QED BY <1>4, <2>1, <2>2, <2>3 DEF ReadStep
<1>5. ASSUME NEW p \in Process, Return(p) PROVE TypeOK'
  BY <1>5 DEF Return
<1>6. ASSUME NEW p \in Process, Crash(p) PROVE TypeOK'
  <2>1. inode' \in [Inode -> InodeState]
    BY <1>6, LeaveKeeps DEF Crash, InodeState
  <2> QED BY <1>6, <2>1, ForgetKeeps DEF Crash, InodeState
<1>7. CASE WriteBack
  <2>1. inode' \in [Inode -> InodeState]
    BY <1>7, LeaveKeeps DEF WriteBack, InodeState
  <2> QED BY <1>7, <2>1 DEF WriteBack, InodeState
<1>8. CASE PowerCut
  <2>1. PICK left \in InodeState : Leave([inode EXCEPT ![stored] = [left EXCEPT !.synced = TRUE]])
    BY <1>8 DEF PowerCut, Blank, InodeState, Data, Mode
  <2>2. [inode EXCEPT ![stored] = [left EXCEPT !.synced = TRUE]] \in [Inode -> InodeState]
    BY <2>1 DEF InodeState
  <2>3. inode' \in [Inode -> InodeState]
    BY <2>1, <2>2, LeaveKeeps
  <2> QED BY <1>8, <2>3, ForgetKeeps DEF PowerCut, InodeState
<1>9. CASE UNCHANGED vars
  BY <1>9 DEF vars
<1> QED BY <1>1, <1>2, <1>3, <1>4, <1>5, <1>6, <1>7, <1>8, <1>9 DEF Next
-----------------------------------------------------------------------------
\* Every step keeps what processes have in hand, and who has the lock.
LEMMA StepStages == ASSUME FilesInv, [Next]_vars PROVE Stages' /\ Locked'
<1> USE FilesAssumption, TaskFields
    DEF FilesInv, TypeOK, Stages, Locked, Protected, names, flock, At, Goto, Answer, Writing
<1>1. ASSUME NEW p \in Process, Call(p) PROVE Stages' /\ Locked'
  <2>1. PICK t \in Tasks :
          /\ task' = [task EXCEPT ![p] = t]
          /\ Goto(p, CASE t.op = "update" -> "flock"
                       [] t.op = "build" -> "create"
                       [] t.op = "load" -> "open")
    BY <1>1 DEF Call
  <2>2. CASE t.op = "update"
    BY <1>1, <2>1, <2>2 DEF Call
  <2>3. CASE t.op = "build"
    BY <1>1, <2>1, <2>3 DEF Call
  <2>4. CASE t.op = "load"
    BY <1>1, <2>1, <2>4 DEF Call
  <2> QED BY <2>1, <2>2, <2>3, <2>4
<1>2. ASSUME NEW p \in Process, LockStep(p) PROVE Stages' /\ Locked'
  <2>1. CASE LockFails(p)
    BY <2>1 DEF LockFails
  <2>2. CASE Lock(p)
    BY <2>2 DEF Lock
  <2>3. CASE Blocked(p)
    BY <2>3 DEF Blocked
  <2>4. CASE Sleep(p)
    BY <2>4 DEF Sleep
  <2>5. CASE GiveUp(p)
    BY <2>5 DEF GiveUp
  <2> QED BY <1>2, <2>1, <2>2, <2>3, <2>4, <2>5 DEF LockStep
<1>3. ASSUME NEW p \in Process, WriteStep(p) PROVE Stages' /\ Locked'
  <2>1. CASE Create(p)
    BY <2>1 DEF Create
  <2>2. CASE CreateFails(p)
    BY <2>2 DEF CreateFails
  <2>3. CASE Write(p)
    BY <2>3 DEF Write
  <2>4. CASE Chmod(p)
    BY <2>4 DEF Chmod
  <2>5. CASE Fsync(p)
    BY <2>5 DEF Fsync
  <2>6. CASE Rename(p)
    BY <2>6 DEF Rename
  <2>7. CASE WriteFails(p)
    BY <2>7 DEF WriteFails
  <2> QED BY <1>3, <2>1, <2>2, <2>3, <2>4, <2>5, <2>6, <2>7 DEF WriteStep
<1>4. ASSUME NEW p \in Process, ReadStep(p) PROVE Stages' /\ Locked'
  <2>1. CASE Open(p)
    BY <2>1 DEF Open
  <2>2. CASE OpenFails(p)
    BY <2>2 DEF OpenFails
  <2>3. CASE Read(p)
    <3>1. PICK d \in Data :
            answer' = [answer EXCEPT ![p] = d] /\ pc' = [pc EXCEPT ![p] = "return"]
      BY <2>3, ReadAnswers
    <3>2. d # "none"
      BY DEF Data, Part, Answers
    <3>3. /\ opened' = [opened EXCEPT ![p] = NoInode] /\ pc[p] = "read"
          /\ UNCHANGED <<holder, task>>
      BY <2>3 DEF Read
    <3> QED BY <3>1, <3>2, <3>3
  <2> QED BY <1>4, <2>1, <2>2, <2>3 DEF ReadStep
<1>5. ASSUME NEW p \in Process, Return(p) PROVE Stages' /\ Locked'
  BY <1>5 DEF Return
<1>6. ASSUME NEW p \in Process, Crash(p) PROVE Stages' /\ Locked'
  <2>1. Forget({p}) /\ {p} \in SUBSET Process
    BY <1>6 DEF Crash
  <2> QED BY ONLY FilesInv, <2>1, ForgetKeeps
<1>7. CASE WriteBack
  BY <1>7 DEF WriteBack
<1>8. CASE PowerCut
  <2>1. Forget(Process)
    BY <1>8 DEF PowerCut
  <2> QED BY ONLY FilesInv, <2>1, ForgetKeeps
<1>9. CASE UNCHANGED vars
  BY <1>9 DEF vars
<1> QED BY <1>1, <1>2, <1>3, <1>4, <1>5, <1>6, <1>7, <1>8, <1>9 DEF Next

\* Temp files stay apart from each other and from what is in place.
LEMMA StepOwn == ASSUME FilesInv, [Next]_vars PROVE Own'
<1> USE FilesAssumption
    DEF FilesInv, TypeOK, Stages, Own, Held, names, flock, At, Goto, Answer
<1>1. ASSUME NEW p \in Process, Call(p) PROVE Own'
  <2>1. \A q \in Process : pc'[q] \in Held => pc[q] \in Held
    BY <1>1, TaskFields DEF Call
  <2>2. UNCHANGED names
    BY <1>1 DEF Call
  <2> QED BY <2>1, <2>2
<1>2. ASSUME NEW p \in Process, LockStep(p) PROVE Own'
  BY <1>2 DEF LockStep, LockFails, Lock, Blocked, Sleep, GiveUp
<1>3. ASSUME NEW p \in Process, WriteStep(p) PROVE Own'
  <2>1. CASE Create(p)
    <3>1. PICK i \in Inode : Unused(i) /\ temp' = [temp EXCEPT ![p] = i]
      BY <2>1 DEF Create
    <3>2. /\ i # dest /\ i # stored
          /\ \A q \in Process : i # temp[q] /\ i # opened[q]
      BY <3>1 DEF Unused, Used
    <3> QED BY <2>1, <3>1, <3>2 DEF Create
  <2>2. CASE CreateFails(p)
    BY <2>2 DEF CreateFails
  <2>3. CASE Write(p) \/ Chmod(p) \/ Fsync(p)
    <3>1. UNCHANGED names /\ \A q \in Process : pc'[q] \in Held => pc[q] \in Held
      BY <2>3 DEF Write, Chmod, Fsync
    <3> QED BY <3>1
  <2>4. CASE Rename(p)
    BY <2>4 DEF Rename
  <2>5. CASE WriteFails(p)
    BY <2>5 DEF WriteFails, RemoveTemp
  <2> QED BY <1>3, <2>1, <2>2, <2>3, <2>4, <2>5 DEF WriteStep
<1>4. ASSUME NEW p \in Process, ReadStep(p) PROVE Own'
  <2>1. CASE Open(p)
    BY <2>1 DEF Open
  <2>2. CASE OpenFails(p)
    BY <2>2 DEF OpenFails
  <2>3. CASE Read(p)
    BY <2>3 DEF Read
  <2> QED BY <1>4, <2>1, <2>2, <2>3 DEF ReadStep
<1>5. ASSUME NEW p \in Process, Return(p) PROVE Own'
  BY <1>5 DEF Return
<1>6. ASSUME NEW p \in Process, Crash(p) PROVE Own'
  BY <1>6 DEF Crash, Forget
<1>7. CASE WriteBack
  BY <1>7 DEF WriteBack
<1>8. CASE PowerCut
  BY <1>8 DEF PowerCut, Forget
<1>9. CASE UNCHANGED vars
  BY <1>9 DEF vars
<1> QED BY <1>1, <1>2, <1>3, <1>4, <1>5, <1>6, <1>7, <1>8, <1>9 DEF Next

Act(p) == Call(p) \/ LockStep(p) \/ WriteStep(p) \/ ReadStep(p) \/ Return(p) \/ Crash(p)

\* What others than p point to.
Shared(p) ==
    {dest, stored} \cup {temp[q] : q \in Process \ {p}} \cup {opened[q] : q \in Process \ {p}}

\* A process changes nothing of what others have in hand.
LEMMA OthersKeep ==
    ASSUME FilesInv, NEW p \in Process, Act(p), NEW q \in Process, q # p
    PROVE  pc'[q] = pc[q] /\ task'[q] = task[q] /\ temp'[q] = temp[q] /\ opened'[q] = opened[q]
<1> USE DEF FilesInv, TypeOK, names, flock, Goto, Answer
<1>1. CASE Call(p)
  BY <1>1 DEF Call
<1>2. CASE LockStep(p)
  BY <1>2 DEF LockStep, LockFails, Lock, Blocked, Sleep, GiveUp
<1>3. CASE WriteStep(p)
  BY <1>3 DEF WriteStep, Create, CreateFails, Write, Chmod, Fsync, Rename, WriteFails, RemoveTemp
<1>4. CASE ReadStep(p)
  BY <1>4 DEF ReadStep, Open, OpenFails, Read
<1>5. CASE Return(p) \/ Crash(p)
  BY <1>5 DEF Return, Crash, Forget
<1> QED BY <1>1, <1>2, <1>3, <1>4, <1>5 DEF Act

\* Nor any inode that others point to and that is still in use.
LEMMA SharedKeeps ==
    ASSUME FilesInv, NEW p \in Process, Act(p), NEW i \in Inode, i \in Shared(p), i \in Used'
    PROVE  inode'[i] = inode[i]
<1> USE DEF FilesInv, names, flock
<1>1. CASE UNCHANGED inode
  BY <1>1
<1>2. CASE Leave(inode)
  BY <1>2 DEF Leave
<1>3. CASE Create(p)
  <2>1. PICK k \in Inode :
          Unused(k) /\ inode' = [inode EXCEPT ![k] = [Blank EXCEPT !.asked = task[p].mode]]
    BY <1>3 DEF Create
  <2>2. k # i
    BY <2>1 DEF Unused, Used, Shared
  <2> QED BY <2>1, <2>2 DEF TypeOK
<1>4. CASE Write(p) \/ Chmod(p) \/ Fsync(p)
  <2>1. i # temp[p] /\ temp[p] \in Inode
    BY <1>4 DEF Write, Chmod, Fsync, Own, Held, At, Shared
  <2> QED BY <1>4, <2>1 DEF Write, Chmod, Fsync, TypeOK
<1> QED BY <1>1, <1>2, <1>3, <1>4
    DEF Act, Call, LockStep, LockFails, Lock, Blocked, Sleep, GiveUp, WriteStep, CreateFails,
        Rename, WriteFails, ReadStep, Open, OpenFails, Read, Return, Crash

\* What is in place after a step was in place before it, unless it is renamed.
LEMMA InPlace ==
    ASSUME FilesInv, FilesInv', NEW p \in Process, Act(p)
    PROVE  /\ ~ Rename(p) => dest' = dest /\ inode'[dest] = inode[dest]
           /\ stored' = stored /\ inode'[stored] = inode[stored]
<1>1. dest' \in Used' /\ stored' \in Used' /\ dest \in Shared(p) /\ stored \in Shared(p)
  BY DEF Used, Shared
<1>2. stored' = stored /\ (~ Rename(p) => dest' = dest)
  BY DEF Act, Call, LockStep, LockFails, Lock, Blocked, Sleep, GiveUp, WriteStep, Create,
         CreateFails, Write, Chmod, Fsync, Rename, WriteFails, ReadStep, Open, OpenFails, Read,
         Return, Crash, names
<1>3. dest \in Inode /\ stored \in Inode
  BY DEF FilesInv, TypeOK
<1> QED BY <1>1, <1>2, <1>3, SharedKeeps

\* Without ignored failures of fsync, temp files are as far as their writers.
LEMMA StepProgress ==
    ASSUME FilesInv, FilesInv', Progress, "nosync" \notin Faults, NEW p \in Process, Act(p)
    PROVE  Progress'
<1>1. ASSUME NEW q \in Process, q # p, pc'[q] \in Held
      PROVE  Fits(pc'[q], inode'[temp'[q]], task'[q])
  <2>1. pc'[q] = pc[q] /\ task'[q] = task[q] /\ temp'[q] = temp[q]
    BY <1>1, OthersKeep
  <2>2. temp[q] \in Inode /\ temp[q] \in Shared(p)
    BY <1>1, <2>1 DEF FilesInv, Own, Shared
  <2>3. temp[q] \in Used'
    BY <2>1 DEF Used
  <2>4. inode'[temp[q]] = inode[temp[q]]
    BY <2>2, <2>3, SharedKeeps
  <2> QED BY <1>1, <2>1, <2>4 DEF Progress
<1>2. ASSUME pc'[p] \in Held PROVE Fits(pc'[p], inode'[temp'[p]], task'[p])
  <2> USE DEF At, Goto, Answer, Held, FilesInv, TypeOK
  <2>1. CASE Create(p)
    <3>1. PICK i \in Inode :
            /\ inode' = [inode EXCEPT ![i] = [Blank EXCEPT !.asked = task[p].mode]]
            /\ temp' = [temp EXCEPT ![p] = i]
      BY <2>1 DEF Create
    <3>2. inode'[i] = [Blank EXCEPT !.asked = task[p].mode] /\ temp'[p] = i
      BY <3>1
    <3> QED BY <2>1, <3>2 DEF Create, Fits, Blank
  <2>2. CASE Write(p)
    <3>1. temp[p] \in Inode /\ temp' = temp /\ task' = task
      BY <2>2 DEF Write, Own, names
    <3> QED BY <2>2, <3>1 DEF Write, Progress, Fits
  <2>3. CASE Chmod(p)
    <3>1. temp[p] \in Inode /\ temp' = temp /\ task' = task
      BY <2>3 DEF Chmod, Own, names
    <3> QED BY <2>3, <3>1 DEF Chmod, Progress, Fits
  <2>4. CASE Fsync(p)
    <3>1. temp[p] \in Inode /\ temp' = temp /\ task' = task
      BY <2>4 DEF Fsync, Own, names
    <3>2. inode' = [inode EXCEPT ![temp[p]].synced = TRUE]
      BY <2>4 DEF Fsync
    <3> QED BY <2>4, <3>1, <3>2 DEF Fsync, Progress, Fits
  <2> QED BY <1>2, <2>1, <2>2, <2>3, <2>4, TaskFields
      DEF Act, Call, LockStep, LockFails, Lock, Blocked, Sleep, GiveUp, WriteStep, CreateFails,
          Rename, WriteFails, ReadStep, Open, OpenFails, Read, Return, Crash, Forget
<1> QED BY <1>1, <1>2 DEF Progress

\* Nor is anything but a whole file ever in place, on the disk or in a reader's
\* hand.
LEMMA StepComplete ==
    ASSUME FilesInv, FilesInv', Progress, Complete, "nosync" \notin Faults,
           NEW p \in Process, Act(p)
    PROVE  Complete'
<1>1. Whole(inode'[dest'])
  <2>1. CASE Rename(p)
    <3>1. temp[p] \in Inode /\ temp[p] \in Used' /\ dest' = temp[p]
      BY <2>1 DEF Rename, FilesInv, Own, Held, At, Used
    <3>2. inode'[temp[p]] = inode[temp[p]]
      BY <2>1, <3>1 DEF Rename, Leave
    <3>3. task[p] \in Tasks /\ task[p].op # "load" /\ Fits("rename", inode[temp[p]], task[p])
      BY <2>1 DEF Rename, FilesInv, TypeOK, Stages, Progress, At, Held, Writing
    <3> QED BY <3>1, <3>2, <3>3, TaskFields DEF Fits, Whole
  <2>2. CASE ~ Rename(p)
    BY <2>2, InPlace DEF Complete
  <2> QED BY <2>1, <2>2
<1>2. Whole(inode'[stored'])
  BY InPlace DEF Complete
<1>3. ASSUME NEW q \in Process, opened'[q] # NoInode PROVE Whole(inode'[opened'[q]])
  <2>1. CASE q # p
    <3>1. opened'[q] = opened[q] /\ opened[q] \in Inode
      BY <1>3, <2>1, OthersKeep DEF FilesInv, TypeOK
    <3>2. opened[q] \in Shared(p) /\ opened[q] \in Used'
      BY <2>1, <3>1 DEF Shared, Used
    <3> QED BY <1>3, <3>1, <3>2, SharedKeeps DEF Complete
  <2>2. CASE q = p
    <3>1. pc'[p] = "read"
      BY <1>3, <2>2 DEF FilesInv, Stages
    <3>2. Open(p)
      BY <3>1, TaskFields
      DEF Act, Call, LockStep, LockFails, Lock, Blocked, Sleep, GiveUp, WriteStep, Create,
          CreateFails, Write, Chmod, Fsync, Rename, WriteFails, ReadStep, OpenFails, Read,
          Return, Crash, Forget, Goto, Answer, FilesInv, TypeOK
    <3>3. inode' = inode /\ opened'[p] = dest
      BY <3>2 DEF Open, FilesInv, TypeOK
    <3> QED BY <2>2, <3>3 DEF Complete
  <2> QED BY <2>1, <2>2
<1> QED BY <1>1, <1>2, <1>3 DEF Complete

\* What happens to the names and to the inode on the disk when power is cut.
LEMMA CutKeeps ==
    ASSUME FilesInv, Complete, PowerCut
    PROVE  /\ dest' = stored /\ stored' = stored
           /\ Whole(inode'[stored]) /\ inode'[stored].data = inode[stored].data
           /\ \A q \in Process : pc'[q] = "idle" /\ opened'[q] = NoInode
<1> USE DEF FilesInv, TypeOK
<1>1. inode[stored].synced /\ stored \in Inode /\ inode[stored] \in InodeState
  BY DEF Complete, Whole, InodeState
<1>2. Leave([inode EXCEPT ![stored] = [inode[stored] EXCEPT !.synced = TRUE]])
  BY <1>1 DEF PowerCut
<1>3. dest' = stored /\ stored' = stored /\ \A q \in Process : pc'[q] = "idle" /\ opened'[q] = NoInode
  BY DEF PowerCut, Forget
<1>4. inode'[stored] = [inode[stored] EXCEPT !.synced = TRUE]
  BY <1>1, <1>2, <1>3 DEF Leave, Used
<1>5. /\ inode'[stored].data = inode[stored].data /\ inode'[stored].mode = inode[stored].mode
      /\ inode'[stored].asked = inode[stored].asked /\ inode'[stored].synced
  BY <1>1, <1>4 DEF InodeState
<1> QED BY <1>1, <1>3, <1>5 DEF Complete, Whole

\* Every step keeps the two.
LEMMA StepWhole ==
    ASSUME FilesInv, FilesInv', Progress, Complete, [Next]_vars, "nosync" \notin Faults
    PROVE  Progress' /\ Complete'
<1>1. ASSUME NEW p \in Process, Act(p) PROVE Progress' /\ Complete'
  BY <1>1, StepProgress, StepComplete
<1>2. CASE WriteBack
  <2>1. /\ UNCHANGED <<dest, temp, opened, task, pc>> /\ stored' = dest
        /\ \A i \in Inode : i \in Used' => inode'[i] = inode[i]
    BY <1>2 DEF WriteBack, Leave
  <2>2. Complete'
    BY <2>1 DEF Complete, Used, FilesInv, TypeOK
  <2>3. Progress'
    BY <2>1 DEF Progress, Used, FilesInv, Own
  <2> QED BY <2>2, <2>3
<1>3. CASE PowerCut
  BY <1>3, CutKeeps DEF Progress, Complete, Held
<1>4. CASE UNCHANGED vars
  BY <1>4 DEF vars, names, Progress, Complete
<1> QED BY <1>1, <1>2, <1>3, <1>4 DEF Next, Act

\* Type correctness for every set of processes and contents, and every mix of
\* tasks and faults.
THEOREM TypeCorrect == Spec => []TypeOK
<1>1. Init => FilesInv
  BY FilesInit
<1>2. FilesInv /\ [Next]_vars => FilesInv'
  BY StepTypes, StepStages, StepOwn DEF FilesInv
<1>3. FilesInv => TypeOK
  BY DEF FilesInv
<1> QED BY <1>1, <1>2, <1>3, PTL DEF Spec

\* No two processes are between acquire and their return at once.
THEOREM LockExcludes == Spec => []Exclusive
<1>1. Init => FilesInv
  BY FilesInit
<1>2. FilesInv /\ [Next]_vars => FilesInv'
  BY StepTypes, StepStages, StepOwn DEF FilesInv
<1>3. FilesInv => Exclusive
  BY DEF FilesInv, Locked, Exclusive
<1> QED BY <1>1, <1>2, <1>3, PTL DEF Spec
\* Before it has been created, too, there is no temp file.
Tidy == \A p \in Process : temp[p] # NoInode => pc[p] \in Held
TidyInv == FilesInv /\ Tidy

\* No call returns with a temp file left behind, if removing one does not fail.
THEOREM NothingDropped == ASSUME "cleanup" \notin Faults PROVE Spec => []NoDroppings
<1>1. Init => TidyInv
  BY FilesInit DEF Init, Tidy, TidyInv
<1>2. ASSUME TidyInv, [Next]_vars PROVE TidyInv'
  <2>1. FilesInv'
    BY <1>2, StepTypes, StepStages, StepOwn DEF TidyInv, FilesInv
  <2> USE <1>2 DEF TidyInv, FilesInv, TypeOK, Tidy, Held
  <2>2. ASSUME NEW p \in Process, Act(p) PROVE Tidy'
    <3>1. \A q \in Process : q # p => (temp'[q] # NoInode => pc'[q] \in Held)
      BY <2>2, OthersKeep
    <3>2. temp'[p] # NoInode => pc'[p] \in Held
      <4>1. CASE Call(p)
        <5>1. temp[p] = NoInode
          BY <4>1 DEF Call, At
        <5> QED BY <4>1, <5>1 DEF Call, names
      <4>2. CASE LockStep(p)
        <5>1. temp[p] = NoInode
          BY <4>2 DEF LockStep, LockFails, Lock, Blocked, Sleep, GiveUp, At
        <5> QED BY <4>2, <5>1 DEF LockStep, LockFails, Lock, Blocked, Sleep, GiveUp, names
      <4>3. CASE WriteStep(p)
        <5>1. CASE Create(p) \/ Write(p) \/ Chmod(p) \/ Fsync(p)
          BY <5>1, TaskFields DEF Create, Write, Chmod, Fsync, names, At, Goto
        <5>2. CASE CreateFails(p)
          <6>1. temp[p] = NoInode
            BY <5>2 DEF CreateFails, At
          <6> QED BY <5>2, <6>1 DEF CreateFails, names
        <5>3. CASE Rename(p) \/ WriteFails(p)
          BY <5>3 DEF Rename, WriteFails, RemoveTemp
        <5> QED BY <4>3, <5>1, <5>2, <5>3 DEF WriteStep
      <4>4. CASE ReadStep(p)
        <5>1. temp[p] = NoInode
          BY <4>4 DEF ReadStep, Open, OpenFails, Read, At
        <5> QED BY <4>4, <5>1 DEF ReadStep, Open, OpenFails, Read, names
      <4>5. CASE Return(p)
        <5>1. temp[p] = NoInode
          BY <4>5 DEF Return, At
        <5> QED BY <4>5, <5>1 DEF Return, names
      <4>6. CASE Crash(p)
        BY <4>6 DEF Crash, Forget
      <4> QED BY <2>2, <4>1, <4>2, <4>3, <4>4, <4>5, <4>6 DEF Act
    <3> QED BY <3>1, <3>2
  <2>3. ASSUME WriteBack PROVE Tidy'
    BY <2>3 DEF WriteBack
  <2>4. ASSUME PowerCut PROVE Tidy'
    BY <2>4 DEF PowerCut, Forget
  <2>5. ASSUME UNCHANGED vars PROVE Tidy'
    BY <2>5 DEF vars, names
  <2>6. Tidy'
    BY <2>2, <2>3, <2>4, <2>5 DEF Next, Act
  <2> QED BY <2>1, <2>6
<1>3. TidyInv => NoDroppings
  BY DEF TidyInv, Tidy, Held, NoDroppings, Writing
<1> QED BY <1>1, <1>2, <1>3, PTL DEF Spec

\* What keeps a file in place whole, put together.
WholeInv == FilesInv /\ Progress /\ Complete

LEMMA WholeInvariant == ASSUME "nosync" \notin Faults PROVE Spec => []WholeInv
<1>1. Init => WholeInv
  BY FilesInit DEF WholeInv
<1>2. WholeInv /\ [Next]_vars => WholeInv'
  <2> SUFFICES ASSUME WholeInv, [Next]_vars PROVE WholeInv'
    OBVIOUS
  <2>1. FilesInv'
    BY StepTypes, StepStages, StepOwn DEF WholeInv, FilesInv
  <2> QED BY <2>1, StepWhole DEF WholeInv
<1> QED BY <1>1, <1>2, PTL DEF Spec

\* The file, and what a power cut would leave of it, always has the permissions
\* its writer asked for, if fsync does what it should.
THEOREM ModeAlwaysKept == ASSUME "nosync" \notin Faults PROVE Spec => []ModeKept
<1>1. WholeInv => ModeKept
  BY DEF WholeInv, Complete, Whole, ModeKept
<1> QED BY <1>1, WholeInvariant, PTL
-----------------------------------------------------------------------------
Seen == [p \in Process |-> IF opened[p] = NoInode THEN NoInode ELSE inode[opened[p]].data]

\* What others have read of the file does not change under them.
LEMMA SeenKeeps ==
    ASSUME FilesInv, NEW p \in Process, Act(p), NEW q \in Process, q # p
    PROVE  Seen'[q] = Seen[q]
<1>1. opened'[q] = opened[q] /\ opened[q] \in Inode \cup {NoInode}
  BY OthersKeep DEF FilesInv, TypeOK
<1>2. CASE opened[q] = NoInode
  BY <1>1, <1>2 DEF Seen
<1>3. CASE opened[q] # NoInode
  <2>1. opened[q] \in Shared(p) /\ opened[q] \in Used' /\ opened[q] \in Inode
    BY <1>1, <1>3 DEF Shared, Used
  <2> QED BY <1>1, <2>1, SharedKeeps DEF Seen
<1> QED BY <1>2, <1>3

\* A function that differs from another in one place.
LEMMA Overrides ==
    ASSUME NEW D, NEW f, NEW g, NEW d \in D, f = [x \in D |-> f[x]], g = [x \in D |-> g[x]],
           \A x \in D : x # d => f[x] = g[x]
    PROVE  f = [g EXCEPT ![d] = f[d]]
<1>1. \A x \in D : f[x] = [g EXCEPT ![d] = f[d]][x]
  OBVIOUS
<1>2. [g EXCEPT ![d] = f[d]] = [x \in D |-> [g EXCEPT ![d] = f[d]][x]]
  OBVIOUS
<1> QED BY <1>1, <1>2

\* What readers have in hand is a function of the processes.
LEMMA SeenFunction ==
    /\ Seen = [q \in Process |-> Seen[q]]
    /\ Seen' = [q \in Process |-> Seen'[q]]
BY DEF Seen

\* A step of a process that neither opens nor reads leaves all of it alone.
LEMMA SeenStays ==
    ASSUME FilesInv, NEW p \in Process, Act(p), opened[p] = NoInode, opened'[p] = NoInode
    PROVE  Seen' = Seen
<1>1. \A q \in Process : Seen'[q] = Seen[q]
  BY SeenKeeps DEF Seen
<1> QED BY <1>1 DEF Seen

\* A step before the rename is a step of nothing.
LEMMA Stutters ==
    ASSUME FilesInv, FilesInv', NEW p \in Process, Act(p), ~ Rename(p),
           opened[p] = NoInode, opened'[p] = NoInode, UNCHANGED <<task, answer>>
    PROVE  UNCHANGED A!vars
<1>1. Seen' = Seen
  BY SeenStays
<1>2. inode'[dest'].data = inode[dest].data /\ inode'[stored'].data = inode[stored].data
  BY InPlace
<1> QED BY <1>1, <1>2 DEF A!vars, Seen

\* A call that fails or finds the lock busy has changed nothing.
LEMMA Refuses ==
    ASSUME FilesInv, FilesInv', NEW p \in Process, Act(p), ~ Rename(p),
           task[p] # NoTask, answer[p] = "none", opened[p] = NoInode, opened'[p] = NoInode,
           task' = task, NEW a \in {"failed", "busy"}, answer' = [answer EXCEPT ![p] = a]
    PROVE  A!Refuse(p)
<1>1. Seen' = Seen /\ Seen[p] = NoInode
  BY SeenStays DEF Seen
<1>2. inode'[dest'].data = inode[dest].data /\ inode'[stored'].data = inode[stored].data
  BY InPlace
<1>3. Seen' = [Seen EXCEPT ![p] = NoInode]
  BY <1>1 DEF Seen
<1> QED BY <1>1, <1>2, <1>3 DEF A!Refuse, A!Pending, Seen

\* Each step of a process is one of the atomic file's, or nothing to it.
LEMMA ActRefines ==
    ASSUME FilesInv, FilesInv', Progress, Complete, NEW p \in Process, Act(p)
    PROVE  A!Next \/ UNCHANGED A!vars
<1> USE DEF FilesInv, TypeOK, Stages, At, Goto, Answer, Writing
<1>0. Seen'[p] = IF opened'[p] = NoInode THEN NoInode ELSE inode'[opened'[p]].data
  BY DEF Seen
<1>1. CASE Call(p)
  <2>1. PICK t \in Tasks : task' = [task EXCEPT ![p] = t]
    BY <1>1 DEF Call
  <2>2. task[p] = NoTask /\ answer' = answer /\ opened' = opened /\ opened[p] = NoInode
    BY <1>1 DEF Call, names
  <2>3. Seen' = Seen
    BY <2>2, SeenStays
  <2>4. inode'[dest'].data = inode[dest].data /\ inode'[stored'].data = inode[stored].data
    BY <1>1 DEF Call, names
  <2>5. A!Ask(p)
    BY <2>1, <2>2, <2>3, <2>4 DEF A!Ask, Seen
  <2> QED BY <2>5 DEF A!Next
<1>2. CASE Return(p)
  <2>1. /\ answer[p] # "none" /\ opened' = opened /\ opened[p] = NoInode
        /\ task' = [task EXCEPT ![p] = NoTask] /\ answer' = [answer EXCEPT ![p] = "none"]
    BY <1>2 DEF Return, names
  <2>2. Seen' = Seen
    BY <2>1, SeenStays
  <2>3. inode'[dest'].data = inode[dest].data /\ inode'[stored'].data = inode[stored].data
    BY <1>2 DEF Return, names
  <2>4. A!Return(p)
    BY <2>1, <2>2, <2>3 DEF A!Return, Seen
  <2> QED BY <2>4 DEF A!Next
<1>3. CASE LockFails(p) \/ GiveUp(p) \/ CreateFails(p) \/ WriteFails(p) \/ OpenFails(p)
  <2>1. /\ task[p] # NoTask /\ answer[p] = "none"
        /\ opened' = opened /\ opened[p] = NoInode /\ task' = task
        /\ \E a \in {"failed", "busy"} : answer' = [answer EXCEPT ![p] = a]
    BY <1>3 DEF LockFails, GiveUp, CreateFails, WriteFails, OpenFails, names
  <2>2. ~ Rename(p)
    BY <1>3 DEF Rename, LockFails, GiveUp, CreateFails, WriteFails, OpenFails
  <2>3. A!Refuse(p)
    BY <2>1, <2>2, Refuses
  <2> QED BY <2>3 DEF A!Next
<1>4. CASE \/ Lock(p) \/ Blocked(p) \/ Sleep(p)
           \/ Create(p) \/ Write(p) \/ Chmod(p) \/ Fsync(p)
  <2>1. /\ opened' = opened /\ opened[p] = NoInode /\ UNCHANGED <<task, answer>> /\ ~ Rename(p)
    BY <1>4 DEF Lock, Blocked, Sleep, Create, Write, Chmod, Fsync, Rename, names
  <2> QED BY <2>1, Stutters
<1>5. CASE Rename(p)
  <2>1. /\ task[p] # NoTask /\ task[p].op # "load" /\ answer[p] = "none"
        /\ opened' = opened /\ opened[p] = NoInode /\ task' = task
        /\ answer' = [answer EXCEPT ![p] = "ok"] /\ dest' = temp[p]
    BY <1>5 DEF Rename
  <2>2. temp[p] \in Inode /\ temp[p] \in Used'
    BY <1>5 DEF Rename, Own, Held, Used
  <2>3. inode'[dest'].data = task[p].data
    BY <1>5, <2>1, <2>2 DEF Rename, Leave, Progress, Fits, Held
  <2>4. inode'[stored'].data = inode[stored].data
    BY InPlace
  <2>5. Seen' = Seen
    BY <2>1, SeenStays
  <2>6. A!Write(p)
    BY <2>1, <2>3, <2>4, <2>5 DEF A!Write, A!Pending, A!Reads, Seen
  <2> QED BY <2>6 DEF A!Next
<1>6. CASE Open(p)
  <2>1. /\ task[p] # NoTask /\ task[p].op = "load" /\ answer[p] = "none" /\ opened[p] = NoInode
        /\ inode' = inode /\ opened' = [opened EXCEPT ![p] = dest]
        /\ UNCHANGED <<dest, stored, task, answer>>
    BY <1>6 DEF Open
  <2>2. Seen' = [Seen EXCEPT ![p] = inode[dest].data] /\ Seen[p] = NoInode
    <3>1. \A q \in Process : q # p => Seen'[q] = Seen[q]
      BY SeenKeeps
    <3>2. dest # NoInode
      <4>1. dest \in Inode
        BY DEF TypeOK
      <4> QED BY <4>1, FilesAssumption
    <3>3. Seen'[p] = inode[dest].data
      BY <1>0, <2>1, <3>2
    <3>4. Seen' = [Seen EXCEPT ![p] = Seen'[p]]
      BY <3>1, SeenFunction, Overrides
    <3>5. Seen[p] = NoInode
      BY <2>1 DEF Seen
    <3> QED BY <3>3, <3>4, <3>5
  <2>3. A!Look(p)
    BY <2>1, <2>2 DEF A!Look, A!Pending, A!Reads, Seen
  <2> QED BY <2>3 DEF A!Next
<1>7. CASE Read(p)
  <2>1. /\ task[p] # NoTask /\ task[p].op = "load" /\ answer[p] = "none" /\ opened[p] # NoInode
        /\ opened' = [opened EXCEPT ![p] = NoInode] /\ task' = task
    BY <1>7 DEF Read
  <2>2. Seen[p] = inode[opened[p]].data /\ inode[opened[p]].data # NoInode
    <3>1. inode[opened[p]].data \in Data
      BY <2>1
    <3>2. inode[opened[p]].data # NoInode
      BY <3>1, FilesAssumption
    <3>3. Seen[p] = inode[opened[p]].data
      BY <2>1 DEF Seen
    <3> QED BY <3>2, <3>3
  <2>3. \A q \in Process : q # p => Seen'[q] = Seen[q]
    BY SeenKeeps
  <2>4. Seen'[p] = NoInode
    BY <1>0, <2>1
  <2>5. Seen' = [Seen EXCEPT ![p] = NoInode]
    BY <2>3, <2>4, SeenFunction, Overrides
  <2>6. ~ Rename(p)
    BY <1>7 DEF Rename, Read
  <2>7. inode'[dest'].data = inode[dest].data /\ inode'[stored'].data = inode[stored].data
    BY <2>6, InPlace
  <2>8. CASE answer' = [answer EXCEPT ![p] = inode[opened[p]].data]
    <3>1. A!Report(p)
      BY <2>1, <2>2, <2>5, <2>7, <2>8 DEF A!Report, A!Pending, Seen
    <3> QED BY <3>1 DEF A!Next
  <2>9. CASE "eio" \in Faults /\ answer' = [answer EXCEPT ![p] = Part]
    <3>1. A!Shorten(p)
      BY <2>1, <2>2, <2>5, <2>7, <2>9 DEF A!Shorten, A!Pending, Seen
    <3> QED BY <3>1 DEF A!Next
  <2> QED BY <1>7, <2>8, <2>9 DEF Read
<1>8. CASE Crash(p)
  <2>1. Forget({p}) /\ dest' = dest /\ stored' = stored
    BY <1>8 DEF Crash
  <2>2. inode'[dest] = inode[dest] /\ inode'[stored] = inode[stored]
    BY <1>8, <2>1 DEF Crash, Leave, Used
  <2>3. Seen' = [q \in Process |-> IF q \in {p} THEN NoInode ELSE Seen[q]]
    <3>1. \A q \in Process : q # p => Seen'[q] = Seen[q]
      BY SeenKeeps
    <3>2. Seen'[p] = NoInode
      BY <1>0, <2>1 DEF Forget
    <3> QED BY <3>1, <3>2 DEF Seen
  <2>4. A!Forget({p})
    BY <2>1, <2>3 DEF Forget, A!Forget, Seen
  <2>5. A!Die(p)
    BY <2>1, <2>2, <2>4 DEF A!Die
  <2> QED BY <2>5 DEF A!Next
<1> QED BY <1>1, <1>2, <1>3, <1>4, <1>5, <1>6, <1>7, <1>8
        DEF Act, LockStep, WriteStep, ReadStep

\* write_atomic and read_file implement an atomic file, if fsync does what it
\* should.
THEOREM ImplementsAtomicFile == ASSUME "nosync" \notin Faults PROVE Spec => AtomicSpec
<1>1. Init => A!Init
  <2> SUFFICES ASSUME Init PROVE A!Init
    OBVIOUS
  <2>1. Complete /\ stored = dest
    BY FilesInit DEF Init
  <2> QED BY <2>1 DEF Init, A!Init, Complete, Whole
<1>2. ASSUME WholeInv, WholeInv', [Next]_vars PROVE [A!Next]_(A!vars)
  <2> USE <1>2 DEF WholeInv
  <2>1. ASSUME NEW p \in Process, Act(p) PROVE [A!Next]_(A!vars)
    BY <2>1, ActRefines
  <2>2. CASE WriteBack
    <3>1. /\ UNCHANGED <<dest, opened, task, answer>> /\ stored' = dest
          /\ \A i \in Inode : i \in Used' => inode'[i] = inode[i]
      BY <2>2 DEF WriteBack, Leave
    <3>2. inode'[dest] = inode[dest]
      BY <3>1 DEF Used, FilesInv, TypeOK
    <3>3. Seen' = Seen
      BY <3>1 DEF Seen, Used, FilesInv, TypeOK
    <3>4. A!WriteBack
      BY <3>1, <3>2, <3>3 DEF A!WriteBack, Seen
    <3> QED BY <3>4 DEF A!Next
  <2>3. CASE PowerCut
    <3>1. Forget(Process)
      BY <2>3 DEF PowerCut
    <3>2. /\ dest' = stored /\ stored' = stored /\ inode'[stored].data = inode[stored].data
          /\ \A q \in Process : opened'[q] = NoInode
      BY <2>3, CutKeeps
    <3>3. A!Forget(Process)
      BY <3>1, <3>2 DEF Forget, A!Forget
    <3>4. A!PowerCut
      BY <3>2, <3>3 DEF A!PowerCut
    <3> QED BY <3>4 DEF A!Next
  <2>4. CASE UNCHANGED vars
    BY <2>4 DEF vars, names, A!vars
  <2> QED BY <2>1, <2>2, <2>3, <2>4 DEF Next, Act
<1> QED BY <1>1, <1>2, WholeInvariant, PTL DEF Spec, AtomicSpec, A!Spec
=============================================================================
