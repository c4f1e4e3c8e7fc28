SPECIFICATION Spec
CONSTANTS
    None = None
    Targets = {t1, t2}
    Owners = {o1}
    Sessions = {s1}
    CommandNames = {"restart_child"}
    DangerousCommands = {"restart_child"}
    Paths <- MCPaths
    AllowedPaths <- MCPaths
    KeyOf <- MCKeyOf
    Requests <- CompetingRequests
    ClientCommands <- AnyTargetCommands
    ReplyTargets = {t2, None}
    MaxReceived = 1
    MaxLease = 1
    MaxClock = 1
    Generations = {0}
    EventSequences = {}
INVARIANTS
    StateReadsAreCurrent
    ForwardingAudited
    DashboardOrder
    AckTruthful
PROPERTIES
    OutdatedByOthersOnly
    ImplementsContract
