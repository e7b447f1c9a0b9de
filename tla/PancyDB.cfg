SPECIFICATION MCSpec
CONSTANTS
    EmptyValue = EmptyValue
    MaxRecentRemoves = 2
    Key = {k1, k2}
    Value = {v1}
    MaxVersion = 7
SYMMETRY Symmetry
CHECK_DEADLOCK FALSE
INVARIANTS
    TypeOK
    VersionsUnique
    LogSound
    RetryRejected
    AnswerNamesCurrentVersion
    NoFalseAlarm
    ZeroSkewIsEquality
    ReportedKeysDiffer
    OldDivergenceReported
PROPERTIES
    FreshVersions
