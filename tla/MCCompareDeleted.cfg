SPECIFICATION Spec
CONSTANTS
    Comparisons = {c1}
    Sources = {org, repo}
    Orgs = {org}
    Keys = {x}
    Binary = {}
    Text = {}
    Profiles = {}
    Paired = {}
    Dateless = {}
    Bodies = {b1, b2}
    Rests = {"r1"}
    Levels = {}
    Absent = Absent
    Nothing = Nothing
    Possible <- TwoBodies
    MaxEdits = 0
    MaxFaults = 1
    MaxCaptures = 0
INVARIANT DeletedMeansNotThere
CHECK_DEADLOCK FALSE
