------------------------------ MODULE URLInfo ------------------------------
(***************************************************************************)
(* URLInfo (src/src/lmiwbem_urlinfo.cpp): what a URL says about a CIMOM.   *)
(* An object is parsed into again and again during its life, and a parse   *)
(* leaves alone the members it finds nothing for.                          *)
(*                                                                         *)
(* A URL is a record of its parts.  Its scheme is "local" for file:// and  *)
(* the names of this machine, "other" for every scheme but http and https. *)
(* The user information is a member of Logins ("user:password"), NoLogin   *)
(* when there is no @, or Malformed when no colon precedes the @.  A port  *)
(* that is not a number of at most five digits below 65536 is BadPort.     *)
(***************************************************************************)
EXTENDS Integers

CONSTANTS
    Hosts,       \* host names in URLs
    Fqdn,        \* the name of this machine
    Logins,      \* user:password pairs in URLs
    NoLogin,     \* no user information
    Malformed    \* user information without a colon

NoHost == ""
Unknown == "unknown"
NoPath == ""

NoPort == -1
BadPort == -2

ASSUME URLAssumption ==
    /\ NoHost \notin Hosts
    /\ Fqdn # NoHost
    /\ NoLogin \notin Logins
    /\ Malformed \notin Logins \cup {NoLogin}

Paths == {NoPath, "/wsman", "/WSMAN", "/cimom"}

Names == Hosts \cup {NoHost, Unknown, Fqdn}

Ports == 0..65535

Urls == [scheme : {"local", "http", "https", "other"},
         login  : Logins \cup {NoLogin, Malformed},
         host   : Names,
         port   : Ports \cup {NoPort, BadPort},
         path   : Paths]

\* The one connectLocally() sets: "localhost".
LocalUrl == [scheme |-> "local", login |-> NoLogin, host |-> NoHost,
             port |-> NoPort, path |-> NoPath]

\* The port of an object that has none.  The code's is ~0 as a 32-bit number,
\* which TLC cannot read; what counts is that it has more than five digits.
PortNotSet == 999999

Infos == [host  : Names,
          https : BOOLEAN,
          port  : Ports \cup {PortNotSet},
          path  : Paths,
          local : BOOLEAN,
          valid : BOOLEAN,
          login : Logins \cup {NoLogin},   \* m_username and m_password
          loginValid : BOOLEAN]            \* m_is_creds_valid

\* A new object.
Fresh == [host |-> Unknown, https |-> TRUE, port |-> PortNotSet, path |-> NoPath,
          local |-> FALSE, valid |-> FALSE, login |-> NoLogin, loginValid |-> FALSE]

\* The path alone decides; here the comparison ignores case.
IsWSMAN(info) == info.path \in {"/wsman", "/WSMAN"}

\* Here it does not.
DefaultPort(https, path) ==
    IF path = "/wsman"
      THEN IF https THEN 5986 ELSE 5985
      ELSE IF https THEN 5989 ELSE 5988

\* A local URL: what was parsed before stays in the path and the login.
SetLocal(info) ==
    [info EXCEPT !.host = Fqdn, !.https = FALSE, !.port = 0,
                 !.local = TRUE, !.valid = TRUE]

\* Mutant: user information without a colon is kept.
SetAnyAuthority(info, u) ==
    [info EXCEPT !.host = u.host,
                 !.https = (u.scheme = "https"),
                 !.port = PortNotSet,
                 !.login = IF u.login # NoLogin THEN u.login ELSE @,
                 !.loginValid = IF u.login = NoLogin THEN @ ELSE u.login # Malformed]

\* Scheme, login and host, which are kept even when the port is refused.
SetAuthority(info, u) ==
    [info EXCEPT !.host = u.host,
                 !.https = (u.scheme = "https"),
                 !.port = PortNotSet,
                 !.login = IF u.login \in Logins THEN u.login ELSE @,
                 !.loginValid = IF u.login = NoLogin THEN @ ELSE u.login # Malformed]

\* Where the host ends the URL, the search for the path fails and the path of
\* the last URL stays; after a port, the rest is the path even when empty.
SetPath(info, u) ==
    IF u.port = NoPort /\ u.path = NoPath THEN info.path ELSE u.path

\* Mutant: the default port stands in for every port.
SetNoPort(info, u) == DefaultPort(u.scheme = "https", SetPath(info, u))

\* Without a port in the URL, the scheme and the path choose it.
SetPort(info, u) ==
    IF u.port = NoPort THEN DefaultPort(u.scheme = "https", SetPath(info, u)) ELSE u.port

SetRemote(info, u) ==
    [SetAuthority(info, u) EXCEPT !.path = SetPath(info, u),
                                  !.port = SetPort(info, u),
                                  !.valid = (u.host # NoHost)]

\* set(url)
Set(info, u) ==
    CASE u.scheme = "local" -> SetLocal(info)
      [] u.scheme = "other" -> [info EXCEPT !.port = PortNotSet, !.valid = FALSE]
      [] u.scheme \in {"http", "https"} /\ u.port = BadPort ->
             [SetAuthority(info, u) EXCEPT !.valid = FALSE]
      [] OTHER -> SetRemote(info, u)

\* Mutant: url() leaves the port out.
UrlNoPort(info) ==
    [scheme |-> IF info.https THEN "https" ELSE "http",
     login  |-> NoLogin,
     host   |-> info.host,
     port   |-> NoPort,
     path   |-> info.path]

\* Mutant: url() leaves the port of an invalid object out.
UrlUnsetPort(info) ==
    [scheme |-> IF info.https THEN "https" ELSE "http",
     login  |-> NoLogin,
     host   |-> info.host,
     port   |-> IF info.port = PortNotSet THEN NoPort ELSE info.port,
     path   |-> info.path]

\* url(): the URL an object stands for.  It always has a port, never a login,
\* and PortNotSet has too many digits to be parsed again.
Url(info) ==
    [scheme |-> IF info.https THEN "https" ELSE "http",
     login  |-> NoLogin,
     host   |-> info.host,
     port   |-> IF info.port = PortNotSet THEN BadPort ELSE info.port,
     path   |-> info.path]

\* URLInfo(url)
New(u) == Set(Fresh, u)

=============================================================================
