SPECIFICATION TimedSpec
CONSTANTS
    c1 = c1
    c2 = c2
    c3 = c3
    r1 = r1
    r2 = r2
    r3 = r3
    p1 = p1
    p2 = p2
    None = None
    Calls <- OneCall
    Requests <- ThreeRequests
    Peers <- OnePeer
    CmdCap = 1
    EvCap = 1
    Handlers = 1
INVARIANTS
    RequestsInOnePlace
PROPERTIES
    WedgedForEver
    EveryCallReturns
CHECK_DEADLOCK FALSE
