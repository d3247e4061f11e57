SPECIFICATION Spec
CONSTANTS
    k1 = k1
    k2 = k2
    k3 = k3
    h1 = h1
    h2 = h2
    p1 = p1
    None = None
    NotText = NotText
    Keys <- ThreeKeys
    Hosts <- TwoHosts
    Peers <- OnePeer
INVARIANTS
    DecodeIsNeverReached
