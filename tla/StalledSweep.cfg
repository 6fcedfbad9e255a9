SPECIFICATION FairSpec
CONSTANTS
    a1 = a1
    a2 = a2
    Audits <- TwoAudits
    Limit = 2
    Stall = 1
    Renotify = 2
    MaxCrashes = 1
INVARIANTS
    TypeOK
    StampMeansSent
    RunOwnsItsSelection
PROPERTIES
    NoEarlyRepeat
    EveryStalledNoticed
