CONSTANTS
    c1 = c1
    c2 = c2
    s1 = s1
    s2 = s2
    None = None
    Calls <- OneCall
    Sends <- NoSend
    Parent <- SentByNone
    SendRetries = 0
    Workers = 1
    Orders <- Key
    TimeLimited = FALSE
    ParentsWait = TRUE
SPECIFICATION Spec
CHECK_DEADLOCK FALSE
INVARIANTS NeverInNoOnesHands
