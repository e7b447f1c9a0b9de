SPECIFICATION Spec
CONSTANTS
    EmptyValue = EmptyValue
    NoKey = NoKey
    MaxRecentRemoves = 0
    Client = {c1}
    Group = {g1}
    Replica = {r0}
    Leader = r0
    Nonce = {x}
    MaxLen = 1
    Lossy = TRUE
    MaxSerial = 1
    MaxTries = 1
PROPERTIES
    UnlockAnswers
