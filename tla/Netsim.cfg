SPECIFICATION FairSpec
CONSTANTS
    Sender = {s1, s2}
    Receiver = {r1, r2}
    LinkDelay = 5
    SendDelay = 1
    ReceiveDelay = 1
    Lossy = TRUE
    MaxSent = 2
INVARIANTS
    TypeOK
    NoLostWakeup
    ArrivalOrder
    Prompt
PROPERTIES
    ImplementsLink
    ReceiverServed
