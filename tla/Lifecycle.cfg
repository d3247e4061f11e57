SPECIFICATION Spec
CONSTANTS
    p1 = p1
    p2 = p2
    n1 = n1
    n2 = n2
    i1 = i1
    i2 = i2
    a1 = a1
    a2 = a2
    None = None
    Procs <- TwoProcs
    Names <- TwoNames
    Ids <- TwoIds
    Addresses <- TwoAddresses
SYMMETRY Symmetry
INVARIANTS
    TypeOK
    OneServer
    IdentityIsStable
    NoOrphanedWiki
    RegisteredPeersStay
    GarbledOnlyByMishap
PROPERTIES
    BrokenForGood
