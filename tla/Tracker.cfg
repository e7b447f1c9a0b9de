SPECIFICATION MCSpec
CONSTANTS
    Junk = Junk
    Octet = 2
    Limit <- MCLimit
    Hash = {0, 1}
    PeerId = {0, 1, 2}
    DefaultNumwant = 2
    Connection = {c1, c2}
    ConnectionIP = {0, 5}
    Query <- MCQuery
    MaxParams = 3
    MaxParts = 5
SYMMETRY Symmetry
INVARIANTS
    TypeOK
    RegisteredAsAnnounced
    TorrentsKeptForEver
    AnswerIsPrefix
    ReadsLastGoodValue
    AddressRoundTrip
PROPERTIES
    OnlyAcceptedChange
