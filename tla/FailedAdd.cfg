SPECIFICATION Spec
CONSTANTS
    Key = {k1, k2}
    File = {f1, f2}
    MaxAddress = 4
    Network = 0
    Broadcast = 4
    Server = 2
    Process = {p1, p2}
    NoProcess = NoProcess
    NoFile = NoFile
    Ops = {"add"}
    Faults = {"fail"}
    EditFile = {}
    EditTexts <- NoTexts
SYMMETRY Symmetry
INVARIANTS
    FailedAddRestoresConf
