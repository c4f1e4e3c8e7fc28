SPECIFICATION StartupSpec
CONSTANTS
    None = None
    Relays = {r1, r2}
    Links = {c1, c2}
    SocketPaths = {"registration"}
    Addresses = {"port"}
    Launches <- MCLaunches
    Clients <- MCClients
    ConfigFiles <- MCConfigFiles
    CertificateFiles = {"relay.crt"}
    KeyFiles = {"relay.key"}
    Authorities <- MCAuthorities
INVARIANTS
    StartupTypeOK
    VouchedFor
PROPERTIES
    CheckDisturbsNothing
    RestartServes
    OneOfThemServes
    ConnectionsTaken
CHECK_DEADLOCK FALSE
