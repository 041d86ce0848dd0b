SPECIFICATION FairSpec
CONSTANTS
    Nothing = Nothing
    Partial = Partial
    Releases = {1, 2}
    Sound = {0, 1}
    Copies = {1}
    Updates = {u1, u2}
    Faults = {"resolve", "fetch", "remove", "link", "rename", "restart", "silent", "reset", "probe", "slow", "die"}
CHECK_DEADLOCK FALSE
INVARIANTS BinaryIsWhole WayBackIsKept
PROPERTIES ExitCodesAreTrue NoPersonNeeded EveryUpdateEnds
