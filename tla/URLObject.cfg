SPECIFICATION Spec
CONSTANTS
    Hosts = {"a", "b"}
    Fqdn = "here"
    Logins = {"u:p", "v:q"}
    NoLogin = "none"
    Malformed = "bad"
    Given <- MCGiven
INVARIANTS
    TypeOK
    RoundTrip
    InvalidStays
    StandsForLast
