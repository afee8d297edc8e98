SPECIFICATION Spec
CONSTANTS
    Key = {k1, k2}
    File = {f1, f2}
    MaxAddress = 3
    Network = 0
    Broadcast = 3
    Server = 2
    Process = {p1, p2}
    NoProcess = NoProcess
    NoFile = NoFile
    Ops = {"add", "remove", "apply", "check"}
    Faults = {"fail", "crash", "reboot"}
    EditFile = {}
    EditTexts <- NoTexts
SYMMETRY Symmetry
INVARIANTS
    LedgerSound
PROPERTIES
    RegistrySpec
    AppliedBeforeExit
    PersistedBeforeLive
