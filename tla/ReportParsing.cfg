SPECIFICATION Spec
CONSTANTS
    alpha = alpha
    beta = beta
    gamma = gamma
    None = None
    Addresses = {alpha, beta, gamma}
    Ptr <- MCPtr
    Base <- MCBase
    AsDomain <- MCAsDomain
    RemoteMap <- MCRemoteMap
    TornMap <- MCTornMap
    LocalMap <- MCLocalMap
    Configs <- MCConfigs
    Retries = 1
    MaxFaults = 3
    Day = 4
    Items <- AllItems
    Limit = 2
    Threshold = 4
    KeepAliveEvery = 1
    MaxItems = 2
CHECK_DEADLOCK FALSE
INVARIANTS
    RowsComplete
    RightReport
PROPERTY
    Recovers
