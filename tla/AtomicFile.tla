----------------------------- MODULE AtomicFile -----------------------------
(***************************************************************************)
(* What fs.h promises of a file that is written with atomic_write_file: it  *)
(* is replaced as a whole or not at all, a reader gets what it held at one   *)
(* moment of the read, and a power cut leaves something it has held.  And    *)
(* the one thing that a reader gets instead if the device fails.             *)
(***************************************************************************)
CONSTANTS
    Process,
    Contents, \* what the file may hold
    Tasks,    \* what a process may be called for: an op, and data to write
    NoTask,
    Unread,   \* a reader has not looked yet
    Piece,    \* not all of the file
    Readable  \* no device fails while a file is read

VARIABLES
    current, \* what the file holds
    stable,  \* what it holds after a power cut
    task,    \* what each process has been called for
    seen,    \* what a reader has in hand
    answer   \* what it returns

vars == <<current, stable, task, seen, answer>>

Init ==
    /\ current \in Contents /\ stable = current
    /\ task = [p \in Process |-> NoTask]
    /\ seen = [p \in Process |-> Unread]
    /\ answer = [p \in Process |-> "none"]

Pending(p) == task[p] # NoTask /\ answer[p] = "none"
Reads(p) == task[p].op = "load"

Ask(p) ==
    /\ task[p] = NoTask
    /\ \E t \in Tasks : task' = [task EXCEPT ![p] = t]
    /\ UNCHANGED <<current, stable, seen, answer>>

Write(p) ==
    /\ Pending(p) /\ ~ Reads(p)
    /\ current' = task[p].data
    /\ answer' = [answer EXCEPT ![p] = "ok"]
    /\ UNCHANGED <<stable, task, seen>>

Look(p) ==
    /\ Pending(p) /\ Reads(p) /\ seen[p] = Unread
    /\ seen' = [seen EXCEPT ![p] = current]
    /\ UNCHANGED <<current, stable, task, answer>>

Report(p) ==
    /\ Pending(p) /\ seen[p] # Unread
    /\ answer' = [answer EXCEPT ![p] = seen[p]]
    /\ seen' = [seen EXCEPT ![p] = Unread]
    /\ UNCHANGED <<current, stable, task>>

\* Nothing has happened; a reader may have looked already.
Refuse(p) ==
    /\ Pending(p)
    /\ \E a \in {"failed", "busy"} : answer' = [answer EXCEPT ![p] = a]
    /\ seen' = [seen EXCEPT ![p] = Unread]
    /\ UNCHANGED <<current, stable, task>>

\* What a reader may be told that looked and could not read on: it ought to be
\* refused, "bad() = actual I/O error" (fs.cpp:84), but is not always.
Shorten(p) ==
    /\ ~ Readable
    /\ Pending(p) /\ seen[p] # Unread
    /\ answer' = [answer EXCEPT ![p] = Piece]
    /\ seen' = [seen EXCEPT ![p] = Unread]
    /\ UNCHANGED <<current, stable, task>>

Return(p) ==
    /\ answer[p] # "none"
    /\ task' = [task EXCEPT ![p] = NoTask]
    /\ answer' = [answer EXCEPT ![p] = "none"]
    /\ UNCHANGED <<current, stable, seen>>

\* What dead processes have written stands, what they have not never comes.
Forget(dead) ==
    /\ task' = [p \in Process |-> IF p \in dead THEN NoTask ELSE task[p]]
    /\ seen' = [p \in Process |-> IF p \in dead THEN Unread ELSE seen[p]]
    /\ answer' = [p \in Process |-> IF p \in dead THEN "none" ELSE answer[p]]

Die(p) == Forget({p}) /\ UNCHANGED <<current, stable>>

WriteBack == stable' = current /\ UNCHANGED <<current, task, seen, answer>>

PowerCut == Forget(Process) /\ current' = stable /\ UNCHANGED stable

Next ==
    \/ \E p \in Process :
        Ask(p) \/ Write(p) \/ Look(p) \/ Report(p) \/ Refuse(p) \/ Shorten(p)
        \/ Return(p) \/ Die(p)
    \/ WriteBack \/ PowerCut

Spec == Init /\ [][Next]_vars
=============================================================================
