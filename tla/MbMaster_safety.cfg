SPECIFICATION Spec
CONSTANTS
    b1 = b1
    b2 = b2
    Blocks = {b1, b2}
    Words <- MCWords
    Write = Write
    NoReq = NoReq
    Bad = Bad
    T35 = 1
    TxTime = 1
    Respond = 2
    Period = 6
    ReplyMax = 3
    MaxLag = 1
    MaxSets = 0
    Relays = {{"ok", "exception", "noise", "silent"}}
INVARIANTS
    TypeOK
    NoStuckTransmitter
    ExecuteOnReply
PROPERTIES
    OwnReplyOnly
    NoCollision
    GoodMeansFresh
SYMMETRY BlockSymmetry
