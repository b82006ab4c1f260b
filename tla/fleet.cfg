CONSTANTS
    m1 = m1
    m2 = m2
    r1 = r1
    r2 = r2
    None = None
    Machines <- TwoMachines
    Replicas <- TwoIds
    MaxPool = 1
    MaxDesired = 1
    MaxFaults = 2
    MaxChanges = 1
SPECIFICATION FairSpec
CHECK_DEADLOCK FALSE
INVARIANTS FleetInv AtMostDesired
PROPERTIES DrainedFirst Converges
