CONSTANTS
    Parts <- AllParts
    AgentCount = 2
    Paths <- SomePaths
    Root = "top"
    Modules <- SomeModules
    Reserved <- Requirements
    CoreNames <- Future
    GrpcNames <- Protos
    GatewayFiles <- Gateway
    Withheld <- Environment
    Names <- TwoNames
    c1 = c1
    c2 = c2
    s1 = s1
    None = None
    Calls <- TwoCalls
    Sends <- OneSend
    Parent <- SentByFirst
    SendRetries = 1
    Workers = 2
    Orders <- AnyOrder
    TimeLimited = TRUE
    ParentsWait = FALSE
SPECIFICATION ReplicaSpec
CHECK_DEADLOCK FALSE
INVARIANTS
    ImageSound ContractSound DrainSound
PROPERTY SendsStayCounted
