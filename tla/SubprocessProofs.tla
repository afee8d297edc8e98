-------------------------- MODULE SubprocessProofs --------------------------
(* run_command for every capacity, read size, deadline and mix of faults.    *)
EXTENDS Subprocess, TLAPS

Running == {"loop", "poll", "read", "reap"}

\* What is there before, during and after a call.
Stages ==
    /\ pc \in {"idle", "fork"} =>
         child = "none" /\ clock = 0 /\ ~ silent /\ ~ timedOut /\ helper = "none"
    /\ pc \in {"close"} \cup Running => child \in {"running", "ended"}
    /\ pc = "close" => clock = 0 /\ ~ timedOut
    /\ pc \in {"loop", "poll", "read"} => ~ timedOut
    /\ pc \in {"idle", "done"} => watched = {}
    /\ pc \in {"fork", "close"} => watched = Stream
    /\ pc = "poll" => watched # {}
    /\ pc # "read" => ready = {}
    /\ pc # "done" => result = "none"
    /\ pc = "done" => child \in {"none", "reaped"}

\* run_command holds no write end while it reads, and a stream it has closed
\* was at its end for good.
Ends ==
    pc \in Running =>
        \A s \in Stream : /\ "parent" \notin writers[s]
                          /\ s \notin watched => pipe[s] = 0 /\ writers[s] = {}

\* Unless the deadline has passed, waitpid is reached with both streams closed.
Drained == pc = "reap" /\ ~ timedOut => watched = {}

\* Output that ended in time leaves time to read it.
InTime ==
    /\ silent => \A s \in Stream : writers[s] \cap Others = {}
    /\ silent /\ pc \in {"close", "loop", "poll", "read"} => clock < Deadline
    /\ timedOut => clock = Deadline /\ ~ silent
    /\ result = "timedout" => timedOut

CallInv == Stages /\ Ends /\ Drained /\ InTime /\ OutputComplete /\ NeverBlocksInRead
-----------------------------------------------------------------------------
LEMMA CallInit == Init => TypeOK /\ CallInv
<1> SUFFICES ASSUME Init PROVE TypeOK /\ CallInv
  OBVIOUS
<1> USE SubprocessAssumption DEF Init
<1>1. TypeOK
  <2>1. /\ pipe \in [Stream -> 0..Capacity]
         /\ writers \in [Stream -> SUBSET ({"parent"} \cup Others)]
    OBVIOUS
  <2>2. clock \in 0..Deadline
    OBVIOUS
  <2> QED BY <2>1, <2>2 DEF TypeOK, Labels, Results
<1>2. Stages /\ Ends /\ Drained
  BY DEF Stages, Running, Ends, Drained
<1>3. InTime /\ OutputComplete /\ NeverBlocksInRead
  BY DEF InTime, OutputComplete, NeverBlocksInRead
<1> QED BY <1>1, <1>2, <1>3 DEF CallInv

\* Every step keeps the types.
LEMMA CallTypes ==
    ASSUME TypeOK, CallInv, [Next]_vars
    PROVE  TypeOK'
<1> USE SubprocessAssumption
    DEF TypeOK, CallInv, Stages, Running, call, pipes, Reported, AtEof, Left,
        Labels, Results
<1>1. CASE Call
  BY <1>1 DEF Call
<1>2. CASE Refused
  BY <1>2 DEF Refused, Return
<1>3. CASE Fork
  <2>1. writers' \in [Stream -> SUBSET ({"parent"} \cup Others)]
    BY <1>3 DEF Fork, Others
  <2> QED BY <1>3, <2>1 DEF Fork
<1>4. CASE CloseEnds
  BY <1>4 DEF CloseEnds, Leave, Quieten
<1>5. CASE ReadersDone
  BY <1>5 DEF ReadersDone
<1>6. CASE GiveUp
  BY <1>6 DEF GiveUp, Kill, Leave, Quieten
<1>7. CASE EnterPoll
  BY <1>7 DEF EnterPoll
<1>8. CASE Poll
  BY <1>8 DEF Poll
<1>9. CASE PollAgain
  BY <1>9 DEF PollAgain
<1>10. CASE PollFails
  BY <1>10 DEF PollFails, KillAndReap, Leave, Quieten, Return
<1>11. CASE Read
  BY <1>11 DEF Read
<1>12. CASE Reap
  BY <1>12 DEF Reap, Return
<1>13. CASE ReapFails
  BY <1>13 DEF ReapFails, Return
<1>14. CASE Take
  <2>1. /\ pipe' \in [Stream -> 0..Capacity]
         /\ writers' \in [Stream -> SUBSET ({"parent"} \cup Others)]
    BY <1>14 DEF Take
  <2>2. watched' = {} /\ ready' = {}
    BY <1>14 DEF Take
  <2>3. clock' \in 0..Deadline
    BY <1>14 DEF Take
  <2> QED BY <1>14, <2>1, <2>2, <2>3 DEF Take
<1>15. CASE Command
  <2>1. ASSUME NEW who \in Others, Write(who) PROVE TypeOK'
    BY <2>1 DEF Write, Others
  <2>2. CASE CloseStream
    BY <2>2 DEF CloseStream, Quieten, Others
  <2>3. CASE StartHelper
    BY <2>3 DEF StartHelper, Others
  <2>4. CASE ChildEnds
    BY <2>4 DEF ChildEnds, Leave, Quieten, Others
  <2>5. CASE HelperEnds
    BY <2>5 DEF HelperEnds, Leave, Quieten, Others
  <2> QED BY <1>15, <2>1, <2>2, <2>3, <2>4, <2>5 DEF Command
<1>16. CASE Tick
  BY <1>16 DEF Tick
<1>17. CASE UNCHANGED vars
  BY <1>17 DEF vars
<1> QED BY <1>1, <1>2, <1>3, <1>4, <1>5, <1>6, <1>7, <1>8, <1>9,
           <1>10, <1>11, <1>12, <1>13, <1>14, <1>15, <1>16, <1>17 DEF Next, Parent

\* The stages of a call follow each other.
LEMMA CallStages ==
    ASSUME TypeOK, CallInv, [Next]_vars
    PROVE  Stages'
<1> USE SubprocessAssumption
    DEF TypeOK, CallInv, Stages, Running, call, pipes, Reported, AtEof, Left,
        Stream
<1>1. CASE Call
  BY <1>1 DEF Call
<1>2. CASE Refused
  BY <1>2 DEF Refused, Return
<1>3. CASE Fork
  BY <1>3 DEF Fork
<1>4. CASE CloseEnds
  BY <1>4 DEF CloseEnds, Leave, Quieten
<1>5. CASE ReadersDone
  BY <1>5 DEF ReadersDone
<1>6. CASE GiveUp
  BY <1>6 DEF GiveUp, Kill, Leave, Quieten
<1>7. CASE EnterPoll
  BY <1>7 DEF EnterPoll
<1>8. CASE Poll
  BY <1>8 DEF Poll
<1>9. CASE PollAgain
  BY <1>9 DEF PollAgain
<1>10. CASE PollFails
  BY <1>10 DEF PollFails, KillAndReap, Leave, Quieten, Return
<1>11. CASE Read
  BY <1>11 DEF Read
<1>12. CASE Reap
  BY <1>12 DEF Reap, Return
<1>13. CASE ReapFails
  BY <1>13 DEF ReapFails, Return
<1>14. CASE Take
  BY <1>14 DEF Take
<1>15. CASE Command
  <2>1. ASSUME NEW who \in Others, Write(who) PROVE Stages'
    BY <2>1 DEF Write, Others
  <2>2. CASE CloseStream
    BY <2>2 DEF CloseStream, Quieten, Others
  <2>3. CASE StartHelper
    BY <2>3 DEF StartHelper, Others
  <2>4. CASE ChildEnds
    BY <2>4 DEF ChildEnds, Leave, Quieten, Others
  <2>5. CASE HelperEnds
    BY <2>5 DEF HelperEnds, Leave, Quieten, Others
  <2> QED BY <1>15, <2>1, <2>2, <2>3, <2>4, <2>5 DEF Command
<1>16. CASE Tick
  BY <1>16 DEF Tick
<1>17. CASE UNCHANGED vars
  BY <1>17 DEF vars
<1> QED BY <1>1, <1>2, <1>3, <1>4, <1>5, <1>6, <1>7, <1>8, <1>9,
           <1>10, <1>11, <1>12, <1>13, <1>14, <1>15, <1>16, <1>17 DEF Next, Parent

\* A stream once closed stays at its end.
LEMMA CallEnds ==
    ASSUME TypeOK, CallInv, [Next]_vars
    PROVE  Ends'
<1> USE SubprocessAssumption
    DEF TypeOK, CallInv, Stages, Running, call, pipes, Reported, AtEof, Left,
        Ends, Drained, Readable
<1>1. CASE Call
  BY <1>1 DEF Call
<1>2. CASE Refused
  BY <1>2 DEF Refused, Return
<1>3. CASE Fork
  BY <1>3 DEF Fork
<1>4. CASE CloseEnds
  BY <1>4 DEF CloseEnds, Leave, Quieten
<1>5. CASE ReadersDone
  BY <1>5 DEF ReadersDone
<1>6. CASE GiveUp
  BY <1>6 DEF GiveUp, Kill, Leave, Quieten
<1>7. CASE EnterPoll
  BY <1>7 DEF EnterPoll
<1>8. CASE Poll
  BY <1>8 DEF Poll
<1>9. CASE PollAgain
  BY <1>9 DEF PollAgain
<1>10. CASE PollFails
  BY <1>10 DEF PollFails, KillAndReap, Leave, Quieten, Return
<1>11. CASE Read
  BY <1>11 DEF Read
<1>12. CASE Reap
  BY <1>12 DEF Reap, Return
<1>13. CASE ReapFails
  BY <1>13 DEF ReapFails, Return
<1>14. CASE Take
  BY <1>14 DEF Take
<1>15. CASE Command
  <2>1. ASSUME NEW who \in Others, Write(who) PROVE Ends'
    BY <2>1 DEF Write, Others
  <2>2. CASE CloseStream
    BY <2>2 DEF CloseStream, Quieten, Others
  <2>3. CASE StartHelper
    BY <2>3 DEF StartHelper, Others
  <2>4. CASE ChildEnds
    BY <2>4 DEF ChildEnds, Leave, Quieten, Others
  <2>5. CASE HelperEnds
    BY <2>5 DEF HelperEnds, Leave, Quieten, Others
  <2> QED BY <1>15, <2>1, <2>2, <2>3, <2>4, <2>5 DEF Command
<1>16. CASE Tick
  BY <1>16 DEF Tick
<1>17. CASE UNCHANGED vars
  BY <1>17 DEF vars
<1> QED BY <1>1, <1>2, <1>3, <1>4, <1>5, <1>6, <1>7, <1>8, <1>9,
           <1>10, <1>11, <1>12, <1>13, <1>14, <1>15, <1>16, <1>17 DEF Next, Parent

\* The loop is left at the end of both streams, or at the deadline.
LEMMA CallDrained ==
    ASSUME TypeOK, CallInv, [Next]_vars
    PROVE  Drained'
<1> USE SubprocessAssumption
    DEF TypeOK, CallInv, Stages, Running, call, pipes, Reported, AtEof, Left,
        Ends, Drained
<1>1. CASE Call
  BY <1>1 DEF Call
<1>2. CASE Refused
  BY <1>2 DEF Refused, Return
<1>3. CASE Fork
  BY <1>3 DEF Fork
<1>4. CASE CloseEnds
  BY <1>4 DEF CloseEnds, Leave, Quieten
<1>5. CASE ReadersDone
  BY <1>5 DEF ReadersDone
<1>6. CASE GiveUp
  BY <1>6 DEF GiveUp, Kill, Leave, Quieten
<1>7. CASE EnterPoll
  BY <1>7 DEF EnterPoll
<1>8. CASE Poll
  BY <1>8 DEF Poll
<1>9. CASE PollAgain
  BY <1>9 DEF PollAgain
<1>10. CASE PollFails
  BY <1>10 DEF PollFails, KillAndReap, Leave, Quieten, Return
<1>11. CASE Read
  BY <1>11 DEF Read
<1>12. CASE Reap
  BY <1>12 DEF Reap, Return
<1>13. CASE ReapFails
  BY <1>13 DEF ReapFails, Return
<1>14. CASE Take
  BY <1>14 DEF Take
<1>15. CASE Command
  <2>1. ASSUME NEW who \in Others, Write(who) PROVE Drained'
    BY <2>1 DEF Write, Others
  <2>2. CASE CloseStream
    BY <2>2 DEF CloseStream, Quieten, Others
  <2>3. CASE StartHelper
    BY <2>3 DEF StartHelper, Others
  <2>4. CASE ChildEnds
    BY <2>4 DEF ChildEnds, Leave, Quieten, Others
  <2>5. CASE HelperEnds
    BY <2>5 DEF HelperEnds, Leave, Quieten, Others
  <2> QED BY <1>15, <2>1, <2>2, <2>3, <2>4, <2>5 DEF Command
<1>16. CASE Tick
  BY <1>16 DEF Tick
<1>17. CASE UNCHANGED vars
  BY <1>17 DEF vars
<1> QED BY <1>1, <1>2, <1>3, <1>4, <1>5, <1>6, <1>7, <1>8, <1>9,
           <1>10, <1>11, <1>12, <1>13, <1>14, <1>15, <1>16, <1>17 DEF Next, Parent

\* Time leaves room for output that has ended.
LEMMA CallInTime ==
    ASSUME TypeOK, CallInv, [Next]_vars
    PROVE  InTime'
<1> USE SubprocessAssumption
    DEF TypeOK, CallInv, Stages, Running, call, pipes, Reported, AtEof, Left,
        InTime, Ends, Waiting, Readable
<1>1. CASE Call
  BY <1>1 DEF Call
<1>2. CASE Refused
  BY <1>2 DEF Refused, Return
<1>3. CASE Fork
  BY <1>3 DEF Fork
<1>4. CASE CloseEnds
  BY <1>4 DEF CloseEnds, Leave, Quieten
<1>5. CASE ReadersDone
  BY <1>5 DEF ReadersDone
<1>6. CASE GiveUp
  BY <1>6 DEF GiveUp, Kill, Leave, Quieten
<1>7. CASE EnterPoll
  BY <1>7 DEF EnterPoll
<1>8. CASE Poll
  BY <1>8 DEF Poll
<1>9. CASE PollAgain
  BY <1>9 DEF PollAgain
<1>10. CASE PollFails
  BY <1>10 DEF PollFails, KillAndReap, Leave, Quieten, Return
<1>11. CASE Read
  BY <1>11 DEF Read
<1>12. CASE Reap
  BY <1>12 DEF Reap, Return
<1>13. CASE ReapFails
  BY <1>13 DEF ReapFails, Return
<1>14. CASE Take
  BY <1>14 DEF Take
<1>15. CASE Command
  <2>1. ASSUME NEW who \in Others, Write(who) PROVE InTime'
    BY <2>1 DEF Write, Others
  <2>2. CASE CloseStream
    BY <2>2 DEF CloseStream, Quieten, Others
  <2>3. CASE StartHelper
    BY <2>3 DEF StartHelper, Others
  <2>4. CASE ChildEnds
    BY <2>4 DEF ChildEnds, Leave, Quieten, Others
  <2>5. CASE HelperEnds
    BY <2>5 DEF HelperEnds, Leave, Quieten, Others
  <2> QED BY <1>15, <2>1, <2>2, <2>3, <2>4, <2>5 DEF Command
<1>16. CASE Tick
  BY <1>16 DEF Tick
<1>17. CASE UNCHANGED vars
  BY <1>17 DEF vars
<1> QED BY <1>1, <1>2, <1>3, <1>4, <1>5, <1>6, <1>7, <1>8, <1>9,
           <1>10, <1>11, <1>12, <1>13, <1>14, <1>15, <1>16, <1>17 DEF Next, Parent

\* An answer is, and stays, complete.
LEMMA CallComplete ==
    ASSUME TypeOK, CallInv, [Next]_vars
    PROVE  OutputComplete'
<1> USE SubprocessAssumption
    DEF TypeOK, CallInv, Stages, Running, call, pipes, Reported, AtEof, Left,
        OutputComplete, Ends, Drained
<1>1. CASE Call
  BY <1>1 DEF Call
<1>2. CASE Refused
  BY <1>2 DEF Refused, Return
<1>3. CASE Fork
  BY <1>3 DEF Fork
<1>4. CASE CloseEnds
  BY <1>4 DEF CloseEnds, Leave, Quieten
<1>5. CASE ReadersDone
  BY <1>5 DEF ReadersDone
<1>6. CASE GiveUp
  BY <1>6 DEF GiveUp, Kill, Leave, Quieten
<1>7. CASE EnterPoll
  BY <1>7 DEF EnterPoll
<1>8. CASE Poll
  BY <1>8 DEF Poll
<1>9. CASE PollAgain
  BY <1>9 DEF PollAgain
<1>10. CASE PollFails
  BY <1>10 DEF PollFails, KillAndReap, Leave, Quieten, Return
<1>11. CASE Read
  BY <1>11 DEF Read
<1>12. CASE Reap
  BY <1>12 DEF Reap, Return
<1>13. CASE ReapFails
  BY <1>13 DEF ReapFails, Return
<1>14. CASE Take
  BY <1>14 DEF Take
<1>15. CASE Command
  <2>1. ASSUME NEW who \in Others, Write(who) PROVE OutputComplete'
    BY <2>1 DEF Write, Others
  <2>2. CASE CloseStream
    BY <2>2 DEF CloseStream, Quieten, Others
  <2>3. CASE StartHelper
    BY <2>3 DEF StartHelper, Others
  <2>4. CASE ChildEnds
    BY <2>4 DEF ChildEnds, Leave, Quieten, Others
  <2>5. CASE HelperEnds
    BY <2>5 DEF HelperEnds, Leave, Quieten, Others
  <2> QED BY <1>15, <2>1, <2>2, <2>3, <2>4, <2>5 DEF Command
<1>16. CASE Tick
  BY <1>16 DEF Tick
<1>17. CASE UNCHANGED vars
  BY <1>17 DEF vars
<1> QED BY <1>1, <1>2, <1>3, <1>4, <1>5, <1>6, <1>7, <1>8, <1>9,
           <1>10, <1>11, <1>12, <1>13, <1>14, <1>15, <1>16, <1>17 DEF Next, Parent

\* What poll has reported stays readable until it is read.
LEMMA CallReads ==
    ASSUME TypeOK, CallInv, [Next]_vars
    PROVE  NeverBlocksInRead'
<1> USE SubprocessAssumption
    DEF TypeOK, CallInv, Stages, Running, call, pipes, Reported, AtEof, Left,
        NeverBlocksInRead, Readable
<1>1. CASE Call
  BY <1>1 DEF Call
<1>2. CASE Refused
  BY <1>2 DEF Refused, Return
<1>3. CASE Fork
  BY <1>3 DEF Fork
<1>4. CASE CloseEnds
  BY <1>4 DEF CloseEnds, Leave, Quieten
<1>5. CASE ReadersDone
  BY <1>5 DEF ReadersDone
<1>6. CASE GiveUp
  BY <1>6 DEF GiveUp, Kill, Leave, Quieten
<1>7. CASE EnterPoll
  BY <1>7 DEF EnterPoll
<1>8. CASE Poll
  BY <1>8 DEF Poll
<1>9. CASE PollAgain
  BY <1>9 DEF PollAgain
<1>10. CASE PollFails
  BY <1>10 DEF PollFails, KillAndReap, Leave, Quieten, Return
<1>11. CASE Read
  BY <1>11 DEF Read
<1>12. CASE Reap
  BY <1>12 DEF Reap, Return
<1>13. CASE ReapFails
  BY <1>13 DEF ReapFails, Return
<1>14. CASE Take
  BY <1>14 DEF Take
<1>15. CASE Command
  <2>1. ASSUME NEW who \in Others, Write(who) PROVE NeverBlocksInRead'
    BY <2>1 DEF Write, Others
  <2>2. CASE CloseStream
    BY <2>2 DEF CloseStream, Quieten, Others
  <2>3. CASE StartHelper
    BY <2>3 DEF StartHelper, Others
  <2>4. CASE ChildEnds
    BY <2>4 DEF ChildEnds, Leave, Quieten, Others
  <2>5. CASE HelperEnds
    BY <2>5 DEF HelperEnds, Leave, Quieten, Others
  <2> QED BY <1>15, <2>1, <2>2, <2>3, <2>4, <2>5 DEF Command
<1>16. CASE Tick
  BY <1>16 DEF Tick
<1>17. CASE UNCHANGED vars
  BY <1>17 DEF vars
<1> QED BY <1>1, <1>2, <1>3, <1>4, <1>5, <1>6, <1>7, <1>8, <1>9,
           <1>10, <1>11, <1>12, <1>13, <1>14, <1>15, <1>16, <1>17 DEF Next, Parent

LEMMA CallInvariant == Spec => [](TypeOK /\ CallInv)
<1>1. TypeOK /\ CallInv /\ [Next]_vars => TypeOK' /\ CallInv'
  BY CallTypes, CallStages, CallEnds, CallDrained, CallInTime, CallComplete, CallReads
     DEF CallInv
<1> QED BY <1>1, CallInit, PTL DEF Spec

\* TypeOK for every deadline, command and number of helpers.
THEOREM TypeCorrect == Spec => []TypeOK
<1>1. TypeOK /\ CallInv => TypeOK
  OBVIOUS
<1> QED BY <1>1, CallInvariant, PTL

\* An answer holds all the output there is, whatever the command, its helpers
\* and the system calls do (the read loop of run_command).
THEOREM AnswersComplete == Spec => []OutputComplete
<1>1. CallInv => OutputComplete
  BY DEF CallInv
<1> QED BY <1>1, CallInvariant, PTL

\* read() is never called on a pipe that would make it block (the poll loop).
THEOREM ReadsNeverBlock == Spec => []NeverBlocksInRead
<1>1. CallInv => NeverBlocksInRead
  BY DEF CallInv
<1> QED BY <1>1, CallInvariant, PTL

\* No return of run_command leaves a zombie or a running command behind.
THEOREM NoZombie == Spec => []NothingLeft
<1>1. CallInv => NothingLeft
  BY DEF CallInv, Stages, NothingLeft
<1> QED BY <1>1, CallInvariant, PTL

\* For every deadline: a command that has closed its output before it, and whose
\* helpers have, is answered (the parent closes its own write ends at once).
THEOREM TimeOutsAreLate == Spec => []AnsweredInTime
<1>1. CallInv => AnsweredInTime
  BY DEF CallInv, InTime, AnsweredInTime
<1> QED BY <1>1, CallInvariant, PTL
=============================================================================
