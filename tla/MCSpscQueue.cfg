SPECIFICATION FairSpec
CONSTANTS
    m1 = m1
    m2 = m2
    none = none
    Msg <- MCMsg
    NoMsg = none
    BufferSize = 2
    Modulus = 8
INVARIANT IInv
INVARIANT SlotRaceFree
PROPERTY PushPromiseKept
PROPERTY PopPromiseKept
PROPERTY ImplementsFifo
PROPERTY EveryMessagePopped
