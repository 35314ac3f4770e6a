SPECIFICATION FairSpec
CONSTANTS
    MaxSizeBlok = 3
    NumbVLSOut = 5
    NumbUstavki = 8
    OperCmds = {}
    IP_ready = FALSE
    RevOk = TRUE
    SntpSettings = {FALSE}
    MaxOper = 0
    MaxSets = 1
    MaxChanges = 1
    MaxDays = 0
    Fails = TRUE
PROPERTIES
    ServerStarts
    ChangesRead
    AnalogPolled
