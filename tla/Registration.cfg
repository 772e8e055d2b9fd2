CONSTANTS
    Proc = {"p1", "p2", "p3"}
    Token = {"a", "b"}
    MsgCount = ".MSG_COUNT"
    Job <- MCJob
    Seed <- MCSeed
    Word = 4
    Retries = 2
    NearLimit = FALSE
SPECIFICATION FairSpec
INVARIANTS
    NoDirtyRead
    NotStale
PROPERTIES
    RegistersSerially
    EveryoneEnds
CHECK_DEADLOCK FALSE
