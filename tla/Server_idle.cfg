SPECIFICATION Spec
CONSTANTS
    s1 = s1
    s2 = s2
    s3 = s3
    NULL = NULL
    Socket <- MCSocket
    Control = {1}
    MaxClients = 2
    MaxBacklog = 1
PROPERTY IdleKept
