SPECIFICATION Spec
CONSTANTS
    c1 = c1
    c2 = c2
    c3 = c3
    r1 = r1
    r2 = r2
    r3 = r3
    p1 = p1
    p2 = p2
    None = None
    Calls <- ThreeCalls
    Requests <- OneRequest
    Peers <- TwoPeers
    CmdCap = 2
    EvCap = 1
    Handlers = 1
SYMMETRY Symmetry
PROPERTIES
    NoAnswerLost
    ImplementsCalls
INVARIANTS
    TypeOK
    Untouched
    PendingMatchesWork
    SendersOfWaiters
    ExpectsNeverFail
    OnlyAbandonedLookupsRunOn
CHECK_DEADLOCK FALSE
