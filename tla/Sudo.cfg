SPECIFICATION FairSpec
CONSTANTS
    MaxLines = 1
    PipeSize = 1
    Kinds = {"logs"}
    Hops = {TRUE}
CHECK_DEADLOCK FALSE
PROPERTIES AbandonedStreamIsKilled
