SPECIFICATION FairSpec
CONSTANTS
    c1 = c1
    c2 = c2
    Clients = {c1, c2}
    Value <- MCValue
    Endian <- MCEndian
    HostEndian = "little"
    ByteBase = 2
    k_backlog = 0
    Nobody = Nobody
INVARIANT RightInteger EndExplained
PROPERTY ServerEnds SentIsReceived
CHECK_DEADLOCK FALSE
