SPECIFICATION FiguresSpec
CONSTANTS
    Edition <- TwoEditions
    OnDisk = "old"
    NoEdition = NoEdition
    Specs <- ItemSpecs
    Shipped <- ShippedForm
    Forms <- Drafts
    Weightings <- Importance
    MaxVersions = 3
    NoItem = "none"
    NoAnswer = "blank"
    Programs = {"j", "k"}
    Venues = {"q"}
    Surveyors = {"u", "v"}
    Orgs = {"A", "B"}
    HomeOf <- TwoHomes
    Asked <- AsksAll
    Sessions <- ThreeSessions
    MaxWork = 2
    Detached = Detached
    Fields = {"f", "g", "h"}
    Spots = {"q", "r"}
    Walkers = {"u"}
    Firms = {"A", "B"}
    FirmOf <- ThreeFirms
    Unplaced = Unplaced
INVARIANTS
    FiguresTypeOK
    UnsureRange
    StaleAnswersDontCount
    ReadyAuditsScore
    PublicationKeepsItsPromise
    EveryViewAgrees
\* Versions and submissions are bounded: a component stops at its bounds.
CHECK_DEADLOCK FALSE
