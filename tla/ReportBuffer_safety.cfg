SPECIFICATION Spec
CONSTANTS
    Size = 9
    ChangeSizes <- MCChangeSizes
    FullSize = 5
    MaxReports = 6
CHECK_DEADLOCK FALSE
INVARIANTS
    TypeOK
    EntriesApart
    NextIsListed
PROPERTIES
    NoSilentGap
    KeepsQueue
