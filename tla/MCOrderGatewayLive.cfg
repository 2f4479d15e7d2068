SPECIFICATION FairSpec
CONSTANTS
    u0 = u0
    u1 = u1
    aapl = aapl
    msft = msft
    Users = {u0, u1}
    DefaultUser = u0
    Symbols = {aapl}
    Invalid = Invalid
    SymbolOf <- OneSymbol
    Ingress = Ingress
    Responder = Responder
    BufferSize = 4
    SymbolSize = 1
    ResponseSize = 1
    Modulus = 8
    MaxOrders = 2
    MayQuit = FALSE
PROPERTY EveryOrderSettled ImplementsContract
CHECK_DEADLOCK FALSE
