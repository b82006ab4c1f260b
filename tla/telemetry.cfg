CONSTANTS
    h1 = h1
    h2 = h2
    f1 = f1
    f2 = f2
    Hosts <- TwoHosts
    Home = h1
    Futures <- TwoFutures
    Root = f1
    Place <- Apart
    MayFail <- OnlySecond
    Polled <- TwoHosts
    MaxFaults = 1
SPECIFICATION TelemetrySpec
CHECK_DEADLOCK FALSE
PROPERTIES KeptBeforeExpiry RowsKeepTheirEnd Drained
