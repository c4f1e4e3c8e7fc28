SPECIFICATION StreamSpec
CONSTANTS
    None = None
    Targets = {t1, t2}
    Owners = {o1}
    Dashboards = {d1}
    CommandNames = {pause_child}
    Paths <- MCPaths
    AllowedPaths <- MCPaths
    KeyOf <- MCKeyOf
    Requests <- OwnSocketRequests
    MaxLease = 1
    MaxClock = 1
    Generations = {0}
    EventSequences = {0, 1, 3}
    MaxSequence = 3
    MaxMessages = 6
INVARIANTS
    LossesAccounted
    EventsInOrder
    StreamFollowsState
    ControlNeedsIdentity
PROPERTY
    OutdatedByOthersOnly
VIEW StreamView
