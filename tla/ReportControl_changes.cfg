SPECIFICATION FairSpec
CONSTANTS
    a = a
    b = b
    Element <- MCElement
    MaxChanges = 3
    MaxEnables = 3
    MaxGI = 1
CHECK_DEADLOCK FALSE
INVARIANTS
    TypeOK
    ChangeKept
    PendingFirst
    NothingSkipped
PROPERTY LastValueArrives
