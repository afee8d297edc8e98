\* Writers with and without the lock beside readers; failing calls and devices,
\* deaths, power cuts.
SPECIFICATION FairSpec
CONSTANTS
    p1 = p1
    p2 = p2
    a = a
    b = b
    NoProcess = NoProcess
    NoInode = NoInode
    NoTask = NoTask
    Process <- MCProcess
    Contents <- MCContents
    Inode <- MCInode
    Tasks <- MCTasks
    Faults = {"fail", "eio", "crash", "cut"}
INVARIANTS
    TypeOK
    Exclusive
    NoDroppings
    ModeKept
PROPERTIES
    AcquireReturns
    AtomicSpec
