SPECIFICATION Spec
CONSTANTS
    Secunda = 5
    Width = 32
    Period = 6
    SNTP_Period = 1
    Errs <- MCErrs
    MaxRequests = 1
    MaxTravel = 2
    MaxLag = 1
    MaxNet = 2
    MaxSets = 1
PROPERTIES
    ForwardWhenBehind
