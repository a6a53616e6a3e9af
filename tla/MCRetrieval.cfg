SPECIFICATION RSpec
CONSTANTS
    Request <- TheRequest
    ProfileLike = {"profile"}
    Paired = {"class", "object"}
    Bundles = {"bundle"}
    MaxFiles = 12
    MaxKilobytes = 32
    MinIsolatedFailures = 1
    FailurePercent = 30
    RetrieveConcurrency = 2
    MaxFaults = 0
    MaxAiling = 1
INVARIANT CoverageIsWhatWasRetrieved
CHECK_DEADLOCK FALSE
