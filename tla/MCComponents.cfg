SPECIFICATION FairSpec
CONSTANTS
    Absent = Absent
    None = None
    Nil = Nil
    Blank = ""
    Full = Full
    NoBase = NoBase
    Unknown = Unknown
    Missing = Missing
    Unset = Unset
    DocumentPairs <- TheDocumentPairs
    Merges <- TheMerges
    Grants <- TheGrants
    Selections <- TheSelections
    Contexts <- TheContexts
    Walks <- TheWalks
    Listings <- TheListings
    Nothing = Nothing
    Request <- TheRequest
    ProfileLike = {"profile"}
    Paired = {"class", "object"}
    Bundles = {"bundle"}
    MaxFiles = 12
    MaxKilobytes = 32
    MinIsolatedFailures = 1
    FailurePercent = 30
    RetrieveConcurrency = 2
    MaxFaults = 1
    MaxFailures = 1
    MaxAiling = 2
    Paths = {"cls", "meta"}
    Contents = {"a", "b"}
    NoFile = NoFile
    Kinds = {"sfdx-project", "git-ref"}
    Bodies = {{"cls"}, {"cls", "meta"}}
    EditsPerSecond = 1
    MaxEdits = 2
    Conns = {x1, x2}
    Runs = {n1, n2}
    Pages = {1, 2}
    MaxChanges = 1
    Deployments = {d1}
    FlowDeployments = {d1, d2}
    MaxLoads = 2
    MaxTroubles = 2
    d1 = d1
    c1 = c1
    c2 = c2
    k1 = k1
    k2 = k2
    Comparisons = {c1, c2}
    DiffResults <- Found
    ResultsPageSize = 2
INVARIANTS
    EveryKeyIsAnswered
    AFewFailuresAreTolerated
    ManyFailuresAreLoud
    DatesIdentifyContentInPeace
    GraphIsOneSync
    NothingEndsBeforeItEnds
    ShownResultsAreOwn
    SelectionIsOfOneComparison
    FlowIsOneFlow
    HashAndDiffAgree
    MergeKeepsEdits
    UnreadPermissionsSurvive
    PackageIsWhatWasChecked
    ErrorsNeedEvidence
    ImpactIsReachability
    SidesListTheSame
PROPERTIES
    MaterializeEnds
    EndsAreShown
CHECK_DEADLOCK FALSE
