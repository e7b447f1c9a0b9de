SPECIFICATION Spec
CONSTANTS
    EmptyValue = EmptyValue
    NoKey = NoKey
    MaxRecentRemoves = 0
    Client = {c1, c2}
    Group = {g1}
    Replica = {r0, r1}
    Leader = r0
    Nonce = {x}
    MaxLen = 2
    Lossy = TRUE
    MaxSerial = 1
    MaxTries = 1
SYMMETRY Symmetry
INVARIANTS
    LockHasOwner
PROPERTIES
    ThrowsOnlyOnContention
