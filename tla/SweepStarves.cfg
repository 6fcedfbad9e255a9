SPECIFICATION FairSpec
CONSTANTS
    a1 = a1
    a2 = a2
    Audits <- TwoAudits
    Limit = 1
    Stall = 1
    Renotify = 2
    MaxCrashes = 0
PROPERTIES
    NotSilentlyLost
