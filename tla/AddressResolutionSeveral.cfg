SPECIFICATION AddressSpec
CONSTANTS
    ByteBase = 4
    Hosts = {h1, h2}
    Ports = {6, 9}
    Scopes = {0, 1}
    HostEndian = "little"
    MaxFound = 2
INVARIANT SingleAddress
CHECK_DEADLOCK FALSE
