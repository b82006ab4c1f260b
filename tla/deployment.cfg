CONSTANTS
    t1 = t1
    t2 = t2
    None = None
    Terminals <- TwoTerminals
    MaxCommands = 2
    MaxFaults = 1
SPECIFICATION FairSpec
CHECK_DEADLOCK FALSE
INVARIANTS DeploymentInv
PROPERTIES RecordsSurvive DeploySettles CommandEnds
