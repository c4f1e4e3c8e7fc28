SPECIFICATION RegistrySpec
CONSTANTS
    None = None
    Targets = {t1, t2}
    Owners = {o1, o2}
    CommandNames = {pause_child}
    Paths <- MCPaths
    AllowedPaths <- MCAllowedPaths
    KeyOf <- MCKeyOf
    Requests <- SocketRequests
    MaxLease = 1
    MaxClock = 1
    Generations = {0}
    EventSequences = {}
INVARIANTS
    RegistryTypeOK
    SocketsDisjoint
PROPERTY
    OwnershipStable
