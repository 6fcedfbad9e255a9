SPECIFICATION Spec
CONSTANTS
    r1 = r1
    r2 = r2
    r3 = r3
    x = x
    y = y
    v1 = v1
    v2 = v2
    k1 = k1
    Answers <- TwoSheets
    Stamps <- TwoVersions
    Keys <- OneKey
    NoKey = NoKey
    Unstamped = Unstamped
    Nobody = Nobody
    Requests <- ThreeRequests
SYMMETRY Interchangeable
INVARIANTS
    TypeOK
    AcceptedIsKept
    ReplayNotRefused
    RowsAgree
PROPERTIES
    NeverReopened
CHECK_DEADLOCK FALSE
