SPECIFICATION FairSpec
CONSTANTS
    Deployments = {d1}
    Keys = {a, b}
    Contents = {old, new}
    Absent = Absent
    NoRow = NoRow
    Bundles = {a}
    Packages <- MCPackages
    Desired <- MCDesired
    Orgs <- MCOrgs
    ListingsFail = TRUE
    MaxFaults = 2
    MaxEdits = 1
    a = a
    b = b
    old = old
    new = new
PROPERTY EveryDeploymentEnds
CHECK_DEADLOCK FALSE
