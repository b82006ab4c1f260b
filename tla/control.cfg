CONSTANTS
    d1 = d1
    d2 = d2
    a1 = a1
    a2 = a2
    r1 = r1
    r2 = r2
    c1 = c1
    c2 = c2
    p1 = p1
    p2 = p2
    dir = dir
    sub = sub
    doc = doc
    yours = yours
    e1 = e1
    e2 = e2
    t1 = t1
    t2 = t2
    m1 = m1
    Parts <- AllParts
    Launches <- TwoRuns
    LastPort = 4
    MaxTries = 2
    Window = 2
    MinReplicas = 1
    MaxReplicas = 2
    Configured = 3
    MaxDesired = 4
    MaxReloads = 1
    MaxFailures = 1
    FileRules <- RulesOfOne
    Edits <- TwoEdits
    Target <- OneEach
    Needs <- FirstNeeds
    SaveAttempts = 2
    MaxSeeds = 1
    MaxFlips = 1
    Rows <- ThreeRows
    Signals <- TwoSignals
    Signal <- MetricApart
    Forms <- SomeBroken
    Dests <- TwoDests
    Deaf <- OneDeaf
    Batch = 2
    MaxAttempts = 2
    Deploys <- TwoDeploys
    Agents <- TwoAgents
    Wanted <- OneRemoved
    MaxLive = 2
    Revisions <- TwoRevisions
    First = 1
    MaxCount = 2
    MaxEdits = 1
    MaxScales = 1
    Members <- OneAgent
    MaxChanges = 2
    Opens <- TwoDeploys
    Ports <- TwoPorts
    Yours = yours
    MaxAgents = 2
    Runs <- TwoRuns
    MaxSaves = 3
    Commanders <- TwoCommands
    Projects <- TwoProjects
    Nobody = Nobody
    MaxHomeFaults = 2
    Paths <- FileInDirectory
    Parent <- InDirectory
    None = None
    MaxFileEdits = 2
    MaxContainers = 2
    MaxFaults = 1
SPECIFICATION ControlSpec
SYMMETRY RunSymmetry
CHECK_DEADLOCK FALSE
INVARIANTS ControlInv RedisGoesLast NoneOutlives OneBatchAfterOff NothingForgotten
PROPERTIES CoolsDown RulesApply SentIsDelivered DeployedIsApplied UpdateKeepsServing OtherAgentsStay HandedStackStays
