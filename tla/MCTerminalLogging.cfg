SPECIFICATION Spec
CONSTANTS
    ingress = ingress
    IngressName = IngressName
    Nobody = Nobody
    Users = {u0, u1}
    Workers = {ingress}
    NameOf <- MCNameOf
    IdModulus = 2
    BufferSize = 1
    MaxMessages = 2
INVARIANT BufferOwned LinesWhole InstaFlush
CHECK_DEADLOCK FALSE
