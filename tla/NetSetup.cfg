SPECIFICATION SetupSpec
CONSTANTS
    Addr <- Addresses
    Losses = {none, some}
    NoLoss = none
    MaxQueue = 1
    MaxReplicas = 3
    MaxClients = 2
INVARIANTS
    ReplyChannelFound
    RepliesComeHome
    WiredByIndex
    LossAsConfigured
PROPERTIES
    ChannelsStable
