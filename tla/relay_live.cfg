SPECIFICATION AnsweringSpec
CONSTANTS
    None = None
    Targets = {t1}
    Owners = {o1}
    Sessions = {s1, s2}
    CommandNames = {"restart_child"}
    DangerousCommands = {"restart_child"}
    Paths <- MCPaths
    AllowedPaths <- MCPaths
    KeyOf <- MCKeyOf
    Requests <- PlainRequests
    ClientCommands <- OneCommand
    ReplyTargets = {}
    MaxReceived = 1
    MaxLease = 1
    MaxClock = 0
    Generations = {0}
    EventSequences = {}
PROPERTIES
    RegistrantServed
    DashboardServed
