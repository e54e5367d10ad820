SPECIFICATION FairSpec
CONSTANTS
    Conns = {c1, c2}
    Uploads = {c2}
    Incoming = {c2}
    Written = {c1}
    Limit = 1
    MaxLen = 2
    MaxCalls = 1
INVARIANTS
    TypeOK
    OneGateClosed
    SocketOutlivesOwner
    DataWillBeSent
PROPERTIES
    LivesInOrder
    GateOpens
    ThreadEnds
    AllDieOut
CHECK_DEADLOCK FALSE
