SPECIFICATION SequentialSpec
CONSTANTS
    a = a
    b = b
    auto0 = auto0
    auto1 = auto1
    width = width
    Modulus = 256
    MaxRing = 16
    MaxUsize = 15
    MaxRank = 3
    Objects = {a, b}
    Shapes <- MCShapes
    NameLists <- MCNameLists
    AutoName <- MCAutoName
    NameHash <- MCNameHash
    MaxSize = 15
    Absent = Absent
    ByteBase = 4
    HostEndian = "little"
    Hosts = {h1, h2}
    Ports = {6, 9}
    Scopes = {0, 1}
    MaxFound = 2
INVARIANT MaskIsRemainder PowersNeeded SizeExact PrintsAll DimOfName LookupsAgree StorageMatches AddressKept
CHECK_DEADLOCK FALSE
