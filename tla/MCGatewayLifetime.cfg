SPECIFICATION LifetimeFairSpec
CONSTANTS
    u0 = u0
    u1 = u1
    aapl = aapl
    Users = {u0, u1}
    DefaultUser = u0
    Symbols = {aapl}
    Invalid = Invalid
    SymbolOf <- OneSymbol
    Ingress = Ingress
    Responder = Responder
    BufferSize = 2
    SymbolSize = 1
    ResponseSize = 1
    Modulus = 4
    StartOrder <- MCStartOrder
    MaxOrders = 1
    MayQuit = TRUE
INVARIANT ReturnsAfterQuit
PROPERTY DestructionReturns EarlyOrderSettled
CHECK_DEADLOCK FALSE
