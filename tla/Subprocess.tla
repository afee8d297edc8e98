----------------------------- MODULE Subprocess -----------------------------
(***************************************************************************)
(* run_command (subprocess.cpp): fork and exec a command, read its two      *)
(* pipes until both are at EOF or the deadline has passed, reap it.         *)
(*                                                                          *)
(* The command is external.  It may write, close a stream, start a helper   *)
(* that inherits its streams, end, or hang for ever; so may the helper.     *)
(* Pipe contents are counted in units, the time of the call in ticks.       *)
(***************************************************************************)
EXTENDS Integers

CONSTANTS
    Capacity,  \* units a pipe holds before a writer blocks (64 KiB)
    ReadMax,   \* units one read() takes (4096 bytes)
    Deadline,  \* ticks until the call gives up (120 s)
    Faults     \* what may happen, see AllFaults

Stream == {"out", "err"}
Others == {"child", "helper"}

(***************************************************************************)
(*   fail     pipe, fork, poll or waitpid fails                             *)
(*   signal   a signal interrupts poll                                      *)
(*   helper   the command starts a helper that inherits its streams         *)
(*   daemon   the command closes both its streams and goes on running       *)
(***************************************************************************)
AllFaults == {"fail", "signal", "helper", "daemon"}

ASSUME SubprocessAssumption ==
    /\ Capacity \in Nat \ {0}
    /\ ReadMax \in Nat \ {0}
    /\ Deadline \in Nat \ {0}
    /\ Faults \subseteq AllFaults

VARIABLES
    pc,        \* where run_command is
    clock,     \* ticks since the deadline was set; stops at the deadline
    timedOut,  \* run_command has noticed the deadline
    result,    \* what it returns
    watched,   \* the streams it has not seen at EOF
    ready,     \* the streams poll reported that are still to be read
    pipe,      \* what each pipe holds
    writers,   \* who holds a write end of each pipe
    child,     \* the command: none, running, ended (a zombie), reaped
    helper,    \* the command's own child: none or running
    silent     \* history: all but run_command closed the pipes in time

pipes == <<pipe, writers, silent>>
call == <<timedOut, result, watched, ready>>
vars == <<pc, clock, call, pipes, child, helper>>

Labels == {"idle", "fork", "close", "loop", "poll", "read", "reap", "done"}
Results == {"none", "notrun", "timedout", "answered"}

TypeOK ==
    /\ pc \in Labels
    /\ clock \in 0..Deadline
    /\ timedOut \in BOOLEAN
    /\ result \in Results
    /\ watched \in SUBSET Stream /\ ready \in SUBSET watched
    /\ pipe \in [Stream -> 0..Capacity]
    /\ writers \in [Stream -> SUBSET ({"parent"} \cup Others)]
    /\ child \in {"none", "running", "ended", "reaped"}
    /\ helper \in {"none", "running"}
    /\ silent \in BOOLEAN

Init ==
    /\ pc = "idle" /\ clock = 0 /\ timedOut = FALSE /\ result = "none"
    /\ watched = {} /\ ready = {}
    /\ pipe = [s \in Stream |-> 0] /\ writers = [s \in Stream |-> {}]
    /\ child = "none" /\ helper = "none" /\ silent = FALSE

\* poll reports a stream that has data or no writer left.
Readable(s) == pipe[s] > 0 \/ writers[s] = {}

\* Whether the output has ended, now that writers' hold its ends.
Quieten ==
    silent' = (silent \/ (clock < Deadline
                            /\ \A s \in Stream : writers'[s] \cap Others = {}))

\* who closes its write ends.
Leave(who) ==
    /\ writers' = [s \in Stream |-> writers[s] \ {who}]
    /\ Quieten

\* return: the destructors close what is still open.
Return(outcome) ==
    /\ pc' = "done"
    /\ result' = outcome
    /\ watched' = {} /\ ready' = {}
-----------------------------------------------------------------------------
(* The caller and run_command.                                              *)

\* A call opens both pipes.
Call ==
    /\ pc = "idle"
    /\ pc' = "fork"
    /\ watched' = Stream
    /\ writers' = [s \in Stream |-> {"parent"}]
    /\ UNCHANGED <<clock, timedOut, result, ready, pipe, silent, child, helper>>

\* pipe or fork fails.
Refused ==
    /\ "fail" \in Faults
    /\ pc = "fork"
    /\ Return("notrun")
    /\ UNCHANGED <<clock, timedOut, pipes, child, helper>>

\* The child holds a copy of each write end.  Until it execs it only closes
\* its other descriptors; a failed exec ends it with 127.
Fork ==
    /\ pc = "fork"
    /\ pc' = "close"
    /\ child' = "running"
    /\ writers' = [s \in Stream |-> writers[s] \cup {"child"}]
    /\ UNCHANGED <<clock, call, pipe, silent, helper>>

\* Mutant: the parent keeps its copies of the write ends.
CloseEndsForgotten ==
    /\ pc = "close"
    /\ pc' = "loop"
    /\ UNCHANGED <<clock, call, pipes, child, helper>>

\* The parent closes its copies; the time of the call starts.
CloseEnds ==
    /\ pc = "close"
    /\ pc' = "loop"
    /\ Leave("parent")
    /\ UNCHANGED <<clock, call, pipe, child, helper>>

ReadersDone ==
    /\ pc = "loop"
    /\ watched = {}
    /\ pc' = "reap"
    /\ UNCHANGED <<clock, call, pipes, child, helper>>

\* Mutant: the child is left alone.
Spare == UNCHANGED <<child, writers, silent>>

\* SIGKILL ends the child, if it has not ended, and nobody else.
Kill == child' = "ended" /\ Leave("child")

GiveUp ==
    /\ pc = "loop"
    /\ watched # {} /\ clock = Deadline
    /\ timedOut' = TRUE
    /\ Kill
    /\ pc' = "reap"
    /\ UNCHANGED <<clock, result, watched, ready, pipe, helper>>

EnterPoll ==
    /\ pc = "loop"
    /\ watched # {} /\ clock < Deadline
    /\ pc' = "poll"
    /\ UNCHANGED <<clock, call, pipes, child, helper>>

\* Mutant: every open stream is read, whatever poll said of it.
AllWatched == watched

Reported == {s \in watched : Readable(s)}

Poll ==
    /\ pc = "poll"
    /\ ready' = Reported
    /\ ready' # {}
    /\ pc' = "read"
    /\ UNCHANGED <<clock, timedOut, result, watched, pipes, child, helper>>

\* Nothing to report: the time slice is over, or EINTR.
PollAgain ==
    /\ pc = "poll"
    /\ \A s \in watched : ~ Readable(s)
    /\ clock = Deadline \/ "signal" \in Faults
    /\ pc' = "loop"
    /\ UNCHANGED <<clock, call, pipes, child, helper>>

KillAndReap == child' = "reaped" /\ Leave("child")

\* Another error of poll.
PollFails ==
    /\ "fail" \in Faults
    /\ pc = "poll"
    /\ KillAndReap
    /\ Return("notrun")
    /\ UNCHANGED <<clock, timedOut, pipe, helper>>

\* Mutant: a short read is taken for the end of the stream.
ShortRead(s) == pipe[s] < ReadMax

\* read() returns 0.
AtEof(s) == pipe[s] = 0

\* Mutant: the whole buffer is appended, not the bytes read.
LessBuffer(n) == n - ReadMax

\* What a read leaves of n units.
Left(n) == IF n > ReadMax THEN n - ReadMax ELSE 0

\* One read() of one reported stream: some data, or EOF and the stream is
\* closed.  It would block on a stream that is not Readable.
Read ==
    /\ pc = "read"
    /\ \E s \in ready :
        /\ Readable(s)
        /\ pipe' = [pipe EXCEPT ![s] = Left(@)]
        /\ watched' = IF AtEof(s) THEN watched \ {s} ELSE watched
        /\ ready' = ready \ {s}
    /\ pc' = IF ready' = {} THEN "loop" ELSE "read"
    /\ UNCHANGED <<clock, timedOut, result, writers, silent, child, helper>>

\* waitpid returns once the child has ended, however long that takes.
Reap ==
    /\ pc = "reap"
    /\ child = "ended"
    /\ child' = "reaped"
    /\ Return(IF timedOut THEN "timedout" ELSE "answered")
    /\ UNCHANGED <<clock, timedOut, pipes, helper>>

\* waitpid fails with ECHILD: SIGCHLD was ignored when wirebard was started,
\* so the kernel has reaped the child.
ReapFails ==
    /\ "fail" \in Faults
    /\ pc = "reap"
    /\ child = "ended"
    /\ child' = "reaped"
    /\ Return("notrun")
    /\ UNCHANGED <<clock, timedOut, pipes, helper>>

\* The caller goes on; a helper that still runs holds ends of dead pipes.
Take ==
    /\ pc = "done"
    /\ pc' = "idle"
    /\ clock' = 0 /\ timedOut' = FALSE /\ result' = "none"
    /\ pipe' = [s \in Stream |-> 0] /\ writers' = [s \in Stream |-> {}]
    /\ child' = "none" /\ helper' = "none" /\ silent' = FALSE
    /\ UNCHANGED <<watched, ready>>
-----------------------------------------------------------------------------
(* The command and its helper.                                              *)

Runs(who) == IF who = "child" THEN child = "running" ELSE helper = "running"

Write(who) ==
    /\ Runs(who)
    /\ \E s \in watched :
        /\ who \in writers[s] /\ pipe[s] < Capacity
        /\ pipe' = [pipe EXCEPT ![s] = @ + 1]
    /\ UNCHANGED <<pc, clock, call, writers, silent, child, helper>>

\* A command that means to go on keeps one of its streams, unless it is a
\* daemon.
CloseStream ==
    /\ child = "running"
    /\ \E s \in Stream :
        /\ "child" \in writers[s]
        /\ "daemon" \in Faults \/ \E t \in Stream \ {s} : "child" \in writers[t]
        /\ writers' = [writers EXCEPT ![s] = @ \ {"child"}]
    /\ Quieten
    /\ UNCHANGED <<pc, clock, call, pipe, child, helper>>

StartHelper ==
    /\ "helper" \in Faults
    /\ child = "running" /\ helper = "none"
    /\ helper' = "running"
    /\ writers' = [s \in Stream |-> IF "child" \in writers[s]
                                    THEN writers[s] \cup {"helper"} ELSE writers[s]]
    /\ UNCHANGED <<pc, clock, call, pipe, silent, child>>

\* Exit or death; the kernel closes the files.
ChildEnds ==
    /\ child = "running"
    /\ child' = "ended"
    /\ Leave("child")
    /\ UNCHANGED <<pc, clock, call, pipe, helper>>

HelperEnds ==
    /\ helper = "running"
    /\ helper' = "none"
    /\ Leave("helper")
    /\ UNCHANGED <<pc, clock, call, pipe, child>>

(***************************************************************************)
(* Time.  Once the output has ended, what run_command can do without        *)
(* waiting (drain two pipes) takes less than a tick.                        *)
(***************************************************************************)
Waiting ==
    \/ pc = "poll" /\ \A s \in watched : ~ Readable(s)
    \/ pc = "reap" /\ child # "ended"

Tick ==
    /\ pc \in {"loop", "poll", "read", "reap"}
    /\ clock < Deadline
    /\ silent => Waiting
    /\ clock' = clock + 1
    /\ UNCHANGED <<pc, call, pipes, child, helper>>
-----------------------------------------------------------------------------
Parent ==
    \/ Refused \/ Fork \/ CloseEnds
    \/ ReadersDone \/ GiveUp \/ EnterPoll
    \/ Poll \/ PollAgain \/ PollFails \/ Read
    \/ Reap \/ ReapFails \/ Take
Command ==
    \/ \E who \in Others : Write(who)
    \/ CloseStream \/ StartHelper \/ ChildEnds \/ HelperEnds

Next == Call \/ Parent \/ Command \/ Tick

Spec == Init /\ [][Next]_vars

\* run_command runs when it can and time passes; the command may hang.
FairSpec == Spec /\ WF_vars(Parent) /\ WF_vars(Tick)
-----------------------------------------------------------------------------
\* A call comes to an end, whatever the command does: "a hung wg/systemctl
\* would hang wirebard forever.  poll() + SIGKILL enforces one" (subprocess.h:11).
CallReturns == pc = "fork" ~> pc = "done"

\* An answer is complete: nothing is left in the pipes and nobody can write
\* any more (the read loop ends at EOF, not at the end of the command or at a
\* short read).
OutputComplete ==
    result = "answered" => \A s \in Stream : pipe[s] = 0 /\ writers[s] = {}

\* run_command never blocks in read(), so neither the other pipe nor the
\* deadline is starved while the command fills the one (the poll loop).
NeverBlocksInRead == \A s \in ready : Readable(s)

\* However the call ends, no zombie and no running command stays behind
\* (every return after the fork reaps the child).
NothingLeft == pc = "done" => child \in {"none", "reaped"}

\* A command that has closed its output in time, and whose helpers have, is
\* never reported as timed out ("when it exits, reads return EOF").
AnsweredInTime == result = "timedout" => ~ silent
=============================================================================
