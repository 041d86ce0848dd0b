SPECIFICATION FairSpec
CONSTANTS
    MaxRuns = 2
    Stall = 2
    MaxAsset = 2
    MaxRedirects = 2
    Cosign = {TRUE, FALSE}
CHECK_DEADLOCK FALSE
INVARIANTS ArtifactIsVerified NothingLeftBehind
PROPERTIES StallIsTrue FetchEnds
