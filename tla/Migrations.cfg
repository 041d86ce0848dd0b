SPECIFICATION FairSpec
CONSTANTS
    Openers = {serve, cli1, cli2}
    Service = serve
    Latest = 2
    Burst = 3
CHECK_DEADLOCK FALSE
INVARIANTS SchemaIsWhole OpenedIsMigrated HandedOverIsUsable
PROPERTIES ServiceOpens
