SPECIFICATION Spec
CONSTANTS
    Comparisons = {c1, c2}
    Sources = {org, repo}
    Orgs = {org}
    Keys = {a, p}
    Binary = {}
    Text = {a}
    Profiles = {p}
    Paired = {a}
    Dateless = {}
    Bodies = {b1}
    Rests = {"r1"}
    Levels = {"read"}
    Absent = Absent
    Nothing = Nothing
    Possible <- WithGrants
    MaxEdits = 1
    MaxFaults = 0
    MaxCaptures = 0
INVARIANTS TypeOK StoreNeverLies VerdictsAreTrue
SYMMETRY Interchangeable
CHECK_DEADLOCK FALSE
