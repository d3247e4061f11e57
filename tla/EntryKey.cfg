SPECIFICATION Spec
CONSTANTS
    Bytes <- TwoBytes
    IndexSize = 6
    HeaderLen = 2
    MaxLen = 6
INVARIANTS
    FaithfulUpToLimit
    KeysAreDistinct
CHECK_DEADLOCK FALSE
