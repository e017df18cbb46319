---------------------------- MODULE MCConnection ----------------------------
(* Two remote hosts, one of them named with a login and for WS-Management,   *)
(* a local URL, and a URL that is refused for its port after its host and    *)
(* its login were taken over.                                                *)
EXTENDS Connection

MCNoLogin == [user |-> "", password |-> ""]
MCMalformed == [user |-> "no colon", password |-> ""]
MCLogin == [user |-> "url", password |-> "url"]

MCOther == [user |-> "other", password |-> "other"]

MCLogins == {MCLogin, MCOther}

MCUrl(scheme, auth, host, port, path) ==
    [scheme |-> scheme, login |-> auth, host |-> host, port |-> port, path |-> path]

MCBadUrl == MCUrl("https", MCOther, "b", BadPort, NoPath)

MCGiven ==
    {MCUrl("https", MCNoLogin, "a", NoPort, NoPath),
     MCUrl("http", MCLogin, "b", 5990, "/wsman"),
     MCBadUrl, LocalUrl}

=============================================================================
