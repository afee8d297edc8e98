------------------------------ MODULE MCFiles ------------------------------
(* Constants of Files for TLC.                                               *)
EXTENDS Files

CONSTANTS p1, p2, a, b

MCProcess == {p1, p2}
MCContents == {a, b}

\* Each process points to one inode at most, the name and the disk to two.
MCInode == 1..4
MCTasks ==
    {[op |-> "update", data |-> a, mode |-> "default", timeout |-> 1],
     [op |-> "update", data |-> b, mode |-> "0600", timeout |-> 0],
     [op |-> "build", data |-> b, mode |-> "0600"],
     [op |-> "load"]}
=============================================================================
