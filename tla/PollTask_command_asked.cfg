SPECIFICATION Spec
CONSTANTS
    MaxSizeBlok = 3
    NumbVLSOut = 5
    NumbUstavki = 8
    OperCmds = {1}
    IP_ready = FALSE
    RevOk = TRUE
    SntpSettings = {FALSE}
    MaxOper = 1
    MaxSets = 0
    MaxChanges = 1
    MaxDays = 0
    Fails = FALSE
PROPERTIES
    CommandAsked
