CONSTANTS
    c1 = c1
    c2 = c2
    n1 = n1
    n2 = n2
    n3 = n3
    o = o
    None = None
    Origin = o
    Sharing <- Nowhere
    Calls <- OneCall
    Targets <- SelfAndTwo
    ForwardRetries = 2
    Faults <- SendFaults
SPECIFICATION Spec
PROPERTY AnswerStands
