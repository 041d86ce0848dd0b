SPECIFICATION Spec
CONSTANTS
    Keys = {k1, k2, k3, k4}
    Challenges = {c1, c2}
    Absent = Absent
    Lifetime = 6
    RenewBefore = 3
    CheckInterval = 2
    RetryInterval = 1
    Hour = 0
    Allowance = 0
    Faults = {"reload"}
INVARIANTS ServedNeverExpires
