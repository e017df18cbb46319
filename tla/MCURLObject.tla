---------------------------- MODULE MCURLObject ----------------------------
(* URLs of every kind: with and without login, port and path; refused for   *)
(* their scheme, their port and their empty host; local.                    *)
EXTENDS URLObject

MCUrl(scheme, login, host, port, path) ==
    [scheme |-> scheme, login |-> login, host |-> host, port |-> port, path |-> path]

MCGiven ==
    [scheme : {"http", "https"}, login : {"u:p", "v:q", "none", "bad"}, host : {"a", "b"},
     port : {NoPort, 443}, path : Paths]
    \cup {LocalUrl,
          MCUrl("other", "none", "a", NoPort, NoPath),
          MCUrl("https", "u:p", "b", BadPort, "/cimom"),
          MCUrl("http", "none", NoHost, 80, NoPath)}

=============================================================================
