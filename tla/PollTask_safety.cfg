SPECIFICATION Spec
CONSTANTS
    MaxSizeBlok = 3
    NumbVLSOut = 5
    NumbUstavki = 8
    OperCmds = {5}
    IP_ready = FALSE
    RevOk = TRUE
    SntpSettings = {FALSE, TRUE}
    MaxOper = 1
    MaxSets = 1
    MaxChanges = 1
    MaxDays = 1
    Fails = TRUE
INVARIANTS
    TypeOK
    PieceInBlock
    ChangesTracked
    ExecutedOnce
PROPERTIES
    StartsConfigured
