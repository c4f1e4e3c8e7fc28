SPECIFICATION RegistrySpec
CONSTANTS
    None = None
    Targets = {t1}
    Owners = {o1, o2}
    CommandNames = {pause_child}
    Paths <- MCPaths
    AllowedPaths <- MCAllowedPaths
    KeyOf <- MCKeyOf
    Requests <- LeaseRequests
    MaxLease = 2
    MaxClock = 4
    Generations = {0}
    EventSequences = {7}
INVARIANTS
    LeaseHonoured
    ConnectionHistory
