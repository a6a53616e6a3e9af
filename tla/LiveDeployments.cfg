SPECIFICATION DSpec
CONSTANTS
    Deployments = {d}
    Nothing = Nothing
    MaxTroubles = 0
INVARIANT OverlayStepsAside
CHECK_DEADLOCK FALSE
