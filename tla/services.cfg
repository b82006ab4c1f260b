CONSTANTS
    q1 = q1
    q2 = q2
    h1 = h1
    Parts <- AllParts
    Questions <- TwoQuestions
    Faults <- AnyFault
    Hosts <- OneHost
    MaxVersion = 3
    Broken <- SecondBroken
    MaxPrompts = 2
    MaxGatewayRestarts = 3
    MaxRestarts = 2
    MaxFaults = 1
SPECIFICATION ServicesSpec
CHECK_DEADLOCK FALSE
INVARIANT ServicesInv
PROPERTIES EndReleasesAskers EditsApply GatewayReturns
