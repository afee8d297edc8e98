\* A command that closes both its streams and runs on.
SPECIFICATION FairSpec
CONSTANTS
    Capacity <- MCCapacity
    ReadMax <- MCReadMax
    Deadline <- MCDeadline
    Faults <- Daemon
PROPERTY CallReturns
