SPECIFICATION AdminSpec
SYMMETRY AdminSymmetry
CONSTANTS
\* Sets that two components permute share their values, so that TLC permutes three
\* pairs and not nine.
    Persons = {a1, a2}
    Accounts = {b1, b2}
    Invites = {v1}
    OrgRequests = {c1, c2}
    MaxAddresses = 1
    Slots = 1
    Nobody = Nobody
    Unlinked = Unlinked
    Projects = {a1, a2}
    Places = {l1}
    Auditors = {w1}
    Assignments = {b1, b2}
    Reports = {x1}
    Tasks = {c1, c2}
    OwnerOf <- OneOwner
    None = None
    Versions = {a1, a2}
    Jobs = {b1, b2}
    NoRow = NoRow
    Emails = {e1}
    Homes = {h1}
    Offers = {f1}
    Desks = {a1, a2}
    MaxFresh = 3
    Nowhere = Nowhere
    Tickets = {n1}
    Issues = {k1}
    Home = Home
    Outside = Outside
    Unset = Unset
INVARIANTS
    AdministrationTypeOK
    OneAccountableOwner
    MembersHaveTheirProfile
    NoCircularWait
    SoundAssignments
    OneActiveVersion
    ActiveWasValidated
    AdmittedHaveAProfile
    BreadcrumbsAreKept
PROPERTIES
    EntryByInvitation
    NothingForTheErased
    UsedVersionsStay
    InvitationsAreSpentOnce
    VerificationIsKept
\* Every request is used once, so a component stops when all have ended.
CHECK_DEADLOCK FALSE
