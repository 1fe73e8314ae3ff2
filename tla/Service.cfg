SPECIFICATION Spec
CONSTANTS
    MaxQueue = 2
    MaxDatagrams = 4
    MaxFaults = 2
    Requests = {r1, r2}
    r1 = r1
    r2 = r2
    Ttl <- TtlOf
    MaxFeedTime = 2
    Selections = {s1, s2}
    s1 = s1
    s2 = s2
    MaxLoads = 3
    MaxTicks = 3
INVARIANTS
    UdpTypeOK
    EveryDatagramAccounted
    HandledInOrder
    SavesBeforeClose
    ReadingTypeOK
    ReplyIsHonest
    ChartSettled
PROPERTIES
    ListenerReturns
    QueueMoves
    ShutdownEnds
    ChartNeverOlder
    ReadersServed
CHECK_DEADLOCK FALSE
