SPECIFICATION MCSpec
CONSTANTS
    EmptyValue = EmptyValue
    MaxRecentRemoves = 2
    Key = {k1, k2}
    Value = {v1}
    MaxVersion = 3
CHECK_DEADLOCK FALSE
INVARIANTS
    GetMissingNotFound
