\* A remark after the [Interface] header of 00-main.conf.
SPECIFICATION Spec
CONSTANTS
    k1 = k1
    k2 = k2
    k3 = k3
    k4 = k4
    alice = alice
    padded = padded
    blank = blank
    bob = bob
    ay = ay
    tee = tee
    Dollar = Dollar
    Open = Open
    Close = Close
    None = None
    Span <- MCSpan
    Key <- MCKey
    Label <- MCLabel
    Bare <- MCBare
    Env <- MCEnv
    Ident <- MCIdent
    Spelling <- MCSpelling
    Cases <- NotedCases
INVARIANT KeyOnce
