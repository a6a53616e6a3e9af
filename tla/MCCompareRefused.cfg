SPECIFICATION Spec
CONSTANTS
    Comparisons = {c1}
    Sources = {org, repo}
    Orgs = {org}
    Keys = {x}
    Binary = {}
    Text = {}
    Profiles = {}
    Paired = {}
    Dateless = {x}
    Bodies = {b1, b2}
    Rests = {"r1"}
    Levels = {}
    Absent = Absent
    Nothing = Nothing
    Possible <- TwoBodies
    MaxEdits = 0
    MaxFaults = 0
    MaxCaptures = 0
INVARIANT FailsOnlyWhenASourceDid
CHECK_DEADLOCK FALSE
