SPECIFICATION FairSpec
CONSTANTS
    MaxLines = 3
    PipeSize = 2
    Kinds = {"report", "logs", "fake", "fakeFollow"}
    Hops = {TRUE, FALSE}
CHECK_DEADLOCK FALSE
INVARIANTS AnswerIsTrue NothingOutlives
PROPERTIES ContractIsKept InvocationEnds
