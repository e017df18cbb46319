SPECIFICATION Spec
CONSTANTS
    Hosts = {"a", "b"}
    Fqdn = "here"
    Logins <- MCLogins
    NoLogin <- MCNoLogin
    Malformed <- MCMalformed
    Given <- MCGiven
    Users = {"", "ann"}
    Passwords = {""}
    Certs = {"file"}
    Timeouts = {1000}
    Backends = {"cimxml", "wsman"}
CHECK_DEADLOCK FALSE
INVARIANTS
    TypeOK
    FlagTells
    WorksLinked
    WsmanCanAsk
PROPERTIES
    NewLinkFollows
    TemporaryLikeLast
    ImplementsSession
