SPECIFICATION Spec
CONSTANTS
    Deployments = {d1}
    Keys = {a, b}
    Contents = {old, new}
    Absent = Absent
    NoRow = NoRow
    Bundles = {a}
    Packages <- MCPackages
    Desired <- MCDesired
    Orgs <- MCOrgs
    ListingsFail = FALSE
    MaxFaults = 1
    MaxEdits = 0
    a = a
    b = b
    old = old
    new = new
PROPERTY RollbackDeletesOnlyAdded
CHECK_DEADLOCK FALSE
