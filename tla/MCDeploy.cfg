SPECIFICATION Spec
CONSTANTS
    Deployments = {d1, d2}
    Keys = {a, b}
    Contents = {old, new}
    Absent = Absent
    NoRow = NoRow
    Bundles = {}
    Packages <- MCPackages
    Desired <- MCDesired
    Orgs <- MCOrgs
    ListingsFail = TRUE
    MaxFaults = 1
    MaxEdits = 0
    a = a
    b = b
    old = old
    new = new
INVARIANTS
    TypeOK
    EveryEndReachesTheRow
    RowTellsWhatTheOrgDid
    RecordedContentWasThere
    RollbackRestores
PROPERTY ImplementsLifecycle
CHECK_DEADLOCK FALSE
