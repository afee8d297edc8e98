\* Commands that write, hang, start helpers or end; system calls that fail.
SPECIFICATION FairSpec
CONSTANTS
    Capacity <- MCCapacity
    ReadMax <- MCReadMax
    Deadline <- MCDeadline
    Faults <- WellBehaved
INVARIANTS
    TypeOK
    OutputComplete
    NeverBlocksInRead
    NothingLeft
    AnsweredInTime
PROPERTY CallReturns
