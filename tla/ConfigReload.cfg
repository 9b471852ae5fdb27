SPECIFICATION FairSpec
CONSTANTS
    both = both
    elastic = elastic
    stopped = stopped
    refused = refused
    Configs = {both, elastic, stopped, refused}
    Outputs <- MCOutputs
    Watches <- MCWatches
    Rejected = {refused}
    MaxRetries = 1
    MaxSignals = 2
INVARIANTS
    OneConfiguration
    NoClientLeak
    ClientsStayOpen
    ExitClosesClients
PROPERTIES
    SighupServed
    ShutdownEnds
