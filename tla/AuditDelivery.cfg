CONSTANTS
    Ann = Ann
    Auditors = {Ann}
    Slots = {s1}
    OwnerOf <- AllOfAnn
    Sections = {x1, x2}
    Keys = {k1}
    Requests = {r1, r2, r3}
    NoRequest = NoRequest
    Origin = Origin
    NoKey = NoKey
SPECIFICATION Spec
SYMMETRY Interchangeable
INVARIANTS
    TypeOK
    OneDelivery
    RetryIsSafe
    AnnouncedWorkIsKept
    LockDiscipline
PROPERTIES
    DeliveredIsFinal
    IntentStampedOnce
    ImplementsContract
\* Every request is used once, so the system stops when all have ended.
CHECK_DEADLOCK FALSE
