SPECIFICATION FairSpec
CONSTANTS
    Keys = {k1, k2, k3, k4}
    Challenges = {c1, c2}
    Absent = Absent
    Lifetime = 6
    RenewBefore = 3
    CheckInterval = 2
    RetryInterval = 1
    Hour = 4
    Allowance = 4
    Faults = {"save", "register", "order", "accept", "reach", "poll", "ready", "finalize", "location", "fetch", "writeKey", "writeCert", "reload", "restart", "reboot"}
INVARIANTS MismatchIsNoticed OneSubscriber TokensAreForgotten FailuresAreSpaced
PROPERTIES TrustIsReached RenewedInTime
