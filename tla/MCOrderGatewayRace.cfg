SPECIFICATION Spec
CONSTANTS
    u0 = u0
    u1 = u1
    aapl = aapl
    msft = msft
    Users = {u0, u1}
    DefaultUser = u0
    Symbols = {aapl, msft}
    Invalid = Invalid
    SymbolOf <- TwoSymbols
    Ingress = Ingress
    Responder = Responder
    BufferSize = 2
    SymbolSize = 1
    ResponseSize = 1
    Modulus = 4
    MaxOrders = 2
    MayQuit = FALSE
INVARIANT AcknowledgedIsQueued
CHECK_DEADLOCK FALSE
