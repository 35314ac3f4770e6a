SPECIFICATION FairSpec
CONSTANTS
    b1 = b1
    b2 = b2
    Blocks = {b1}
    Words <- MCWords
    Write = Write
    NoReq = NoReq
    Bad = Bad
    T35 = 1
    TxTime = 1
    Respond = 5
    Period = 12
    ReplyMax = 1
    MaxLag = 1
    MaxSets = 1
    Relays = {{"ok"}, {"exception", "silent"}}
INVARIANTS
    NoStuckTransmitter
PROPERTIES
    AsksForever
    DeadRelayReported
    LiveRelayRead
    TimeCommandEnds
