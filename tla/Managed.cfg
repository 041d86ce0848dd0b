CONSTANTS
    Emails = {owen, ivy}
    Passwords = {pw, guess}
    Tokens = {t1, t2}
    Setups = {s1}
    SignIns = {n1}
    SignOuts = {}
    Reports = {}
    Issuers = {i1}
    Removals = {c1, c2}
    MaxId = 2
    TokenTTL = 1
    SessionLifetime = 1
    MaxClock = 1
    Modes = {"published", "ip"}
    NoToken = NoToken
    NoPassword = NoPassword
SPECIFICATION MCManagedSpec
SYMMETRY ManagedSymmetry
CHECK_DEADLOCK FALSE
INVARIANTS SessionsAreNotInherited
PROPERTIES TrailIsImmutable ManagedClaimIsKept
