SPECIFICATION Spec
CONSTANTS
    None = None
    Targets = {t1}
    Owners = {o1}
    Sessions = {s1}
    CommandNames = {"restart_child"}
    DangerousCommands = {"restart_child"}
    Paths <- MCPaths
    AllowedPaths <- MCPaths
    KeyOf <- MCKeyOf
    Requests <- MovingRequests
    ClientCommands <- OneTargetCommands
    ReplyTargets = {}
    MaxReceived = 1
    MaxLease = 1
    MaxClock = 1
    Generations = {0}
    EventSequences = {}
PROPERTY RegisteredIsActive
