CONSTANTS
    Ann = Ann
    Auditors = {Ann}
    Slots = {s1, s2}
    OwnerOf <- AllOfAnn
    Sections = {x1}
    Keys = {k1}
    Requests = {r1, r2}
    NoRequest = NoRequest
    Origin = Origin
    NoKey = NoKey
SPECIFICATION FairSpec
PROPERTIES
    EveryRequestEnds
    ImplementsContract
\* Every request is used once, so the system stops when all have ended.
CHECK_DEADLOCK FALSE
