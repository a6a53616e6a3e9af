SPECIFICATION Spec
CONSTANTS
    Comparisons = {c1}
    Sources = {org, repo}
    Orgs = {org}
    Keys = {b, d}
    Binary = {b}
    Text = {}
    Profiles = {}
    Paired = {}
    Dateless = {d}
    Bodies = {b1, b2}
    Rests = {"r1"}
    Levels = {}
    Absent = Absent
    Nothing = Nothing
    Possible <- TwoBodies
    MaxEdits = 1
    MaxFaults = 1
    MaxCaptures = 1
INVARIANTS IdenticalBinariesWereRead RowFollowsJob VerdictsAreTrue
SYMMETRY Interchangeable
CHECK_DEADLOCK FALSE
