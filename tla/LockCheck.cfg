SPECIFICATION MCSpec
CONSTANTS
    Group = {g1, g2}
    Value = {a, b}
    LockLike = {a, b, w}
    EmptyValue = EmptyValue
    MaxLen = 4
    NoKey = NoKey
    NoValue = EmptyValue
    Other = {z}
    MaxKeys = 4
SYMMETRY Symmetry
INVARIANTS
    WellFormed
    CheckIsLooseGrammar
