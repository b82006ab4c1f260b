CONSTANTS
    c1 = c1
    c2 = c2
    s1 = s1
    s2 = s2
    None = None
    Calls <- TwoCalls
    Sends <- OneSend
    Parent <- SentByFirst
    SendRetries = 2
    Workers = 1
    Orders <- AnyOrder
    TimeLimited = FALSE
    ParentsWait = TRUE
SPECIFICATION FairSpec
CHECK_DEADLOCK FALSE
INVARIANT NoSendLeft
PROPERTY DrainCompletes
