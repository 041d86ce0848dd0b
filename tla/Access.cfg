CONSTANTS
    Emails = {owen, ivy}
    Passwords = {pw}
    Tokens = {t1, t2}
    Setups = {s1, s2}
    SignIns = {n1}
    SignOuts = {o1, o2}
    Reports = {p1}
    Issuers = {i1, i2}
    MaxId = 2
    TokenTTL = 1
    SessionLifetime = 1
    MaxClock = 1
    Modes = {"ip"}
    NoToken = NoToken
    NoPassword = NoPassword
SPECIFICATION MCSpec
SYMMETRY Symmetry
CHECK_DEADLOCK FALSE
INVARIANTS TokenOnlyWhileUnowned AnswersAreOnTheTrail SignedOutIsOver SignedInMeansSetUp
PROPERTIES ClaimIsKept
