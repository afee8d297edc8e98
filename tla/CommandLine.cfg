\* Every short command line and the sensible longer ones, on two networks whose
\* folders change all the time.
SPECIFICATION Spec
CONSTANTS
    Text <- MCText
    Names <- MCNames
    Invocations <- MCInvocations
    Layouts <- MCLayouts
    Keys <- MCKeys
INVARIANTS
    TypeOK
    ParsedRight
    ExitHonest
    TurnForAll
    InstalledIsOwn
    TouchesOnlyIts
CHECK_DEADLOCK FALSE
