----------------------------- MODULE Connection -----------------------------
(***************************************************************************)
(* WBEMConnection (src/src/obj/lmiwbem_connection.cpp) over one of its two *)
(* clients, CIMXMLClient (src/src/lmiwbem_client_cimxml.cpp) and           *)
(* WSMANClient (src/src/lmiwbem_client_wsman.cpp).  The constructor        *)
(* chooses the client; connect(), connectLocally() and disconnect() change *)
(* the link, and every CIM operation runs in a transaction that opens a    *)
(* temporary link when the client is not connected.                        *)
(*                                                                         *)
(* No method gives up the interpreter lock, so no other Python thread runs *)
(* between the steps of one; the steps are kept apart because each may     *)
(* fail and is undone on its own.  Every optional argument is a set: empty *)
(* for None, otherwise with the value as its one element.                  *)
(***************************************************************************)
EXTENDS URLInfo

CONSTANTS
    Given,      \* the URLs programs pass
    Users,      \* user names and passwords programs pass
    Passwords,
    Certs,      \* certificate and key files programs pass
    Timeouts,   \* timeouts programs set
    Backends    \* the clients the constructor may choose: a part of Clients

Clients == {"cimxml", "wsman"}

NoText == ""
NoCert == ""

ASSUME ConnectionAssumption ==
    /\ Given \subseteq Urls
    /\ Backends \subseteq Clients
    /\ NoLogin = [user |-> NoText, password |-> NoText]
    /\ Timeouts \subseteq Nat

VARIABLES
    client,     \* m_type: the client behind the connection
    locally,    \* m_connect_locally
    login,      \* m_username and m_password
    cert,       \* m_cert_file and m_key_file
    timeout,    \* the timeout of the client
    info,       \* the client's m_url_info
    connected,  \* the client's m_is_connected
    link,       \* the client's link: what Pegasus or openwsman is connected to
    locked,     \* is the client's m_mutex held?
    temporary,  \* will the operation under way disconnect at its end?
    pc,         \* "idle", a step of an operation, or "gone"
    outcome,    \* how the last method ended
    named,      \* the last URL given, if any (history)
    wasLocal,   \* was anything local ever asked for? (history)
    logins,     \* the logins given in URLs so far (history)
    made        \* the link of the last connect(), Down when it failed or what
                \* it was made from has been changed since (history)

settings == <<client, locally, login, cert, timeout>>
history == <<named, wasLocal, logins, made>>
vars == <<settings, info, connected, link, locked, temporary, pc, outcome, history>>

Optional(S) == {{}} \cup {{x} : x \in S}

\* An optional argument, or what stands when it is None.
Or(argument, default) ==
    IF argument = {} THEN default ELSE CHOOSE x \in argument : TRUE

Link(host, auth, file) == [up |-> TRUE, host |-> host, login |-> auth, cert |-> file]

Down == [up |-> FALSE, host |-> NoHost, login |-> NoLogin, cert |-> NoCert]

LocalLink == Link(Fqdn, NoLogin, NoCert)

\* The timeout Pegasus starts with; the constructor sets one minute.
PegasusTimeout == 20000
OneMinute == 60000

-----------------------------------------------------------------------------
(* The constructor.                                                        *)

\* With connect_locally every other argument is disregarded, and the timeout
\* is left alone.
ConstructLocal ==
    /\ client = "cimxml"
    /\ locally = TRUE
    /\ login = NoLogin
    /\ cert = NoCert
    /\ timeout = PegasusTimeout
    /\ info = Fresh
    /\ named = {}
    /\ wasLocal = TRUE

\* An invalid URL raises: there is no object then.
Construct ==
    \E url \in Optional(Given), user \in Users, password \in Passwords, file \in Optional(Certs) :
        /\ url # {} => New(Or(url, LocalUrl)).valid
        /\ info = IF url = {} THEN Fresh ELSE New(Or(url, LocalUrl))
        /\ client = IF IsWSMAN(info) THEN "wsman" ELSE "cimxml"
        /\ locally = FALSE
        /\ login = [user |-> user, password |-> password]
        /\ cert = Or(file, NoCert)
        /\ timeout = IF client = "wsman" THEN 0 ELSE OneMinute
        /\ named = url
        /\ wasLocal = info.local

Init ==
    /\ ConstructLocal \/ Construct
    /\ client \in Backends
    /\ connected = FALSE
    /\ link = Down
    /\ locked = FALSE
    /\ temporary = FALSE
    /\ pc = "idle"
    /\ outcome = "none"
    /\ logins = {u.login : u \in named} \cap Logins
    /\ made = Down

-----------------------------------------------------------------------------
(* The clients.                                                            *)

\* A client that could not do what it was asked raises; what it changed
\* before stays changed.
Fails(error) ==
    /\ outcome' = error
    /\ UNCHANGED <<connected, link>>

\* CIMXMLClient::connectLocally(), from the object URL information "parsed".
\* Pegasus refuses while it has a link, and it may find no CIMOM.
CimxmlConnectLocally(parsed) ==
    \/ /\ link = Down
       /\ link' = LocalLink
       /\ connected' = TRUE
       /\ info' = Set(parsed, LocalUrl)
       /\ outcome' = "ok"
    \/ info' = parsed /\ Fails("ConnectionError")

\* CIMXMLClient::connect(): the URL is taken over before it is looked at.  A
\* login that came with a URL is preferred to the arguments.
CimxmlConnect(url, auth, file) ==
    LET parsed == Set(info, url)
    IN  \/ ~parsed.valid /\ info' = parsed /\ Fails("ConnectionError")
        \/ parsed.valid /\ parsed.local /\ CimxmlConnectLocally(parsed)
        \/ /\ parsed.valid
           /\ ~parsed.local
           /\ info' = parsed
           /\ \/ /\ link = Down
                 /\ link' = Link(parsed.host,
                                 IF parsed.loginValid THEN parsed.login ELSE auth,
                                 IF parsed.https THEN file ELSE NoCert)
                 /\ connected' = TRUE
                 /\ outcome' = "ok"
              \/ Fails("ConnectionError")

\* WSMANClient::connect() makes a new handle from the URL alone, whatever it
\* is; nothing is sent yet, nothing fails and nothing is noted.
WsmanConnect(url, auth, file) ==
    /\ link' = Link(New(url).host, auth, file)
    /\ outcome' = "ok"
    /\ UNCHANGED <<info, connected>>

ClientConnect(url, auth, file) ==
    \/ client = "cimxml" /\ CimxmlConnect(url, auth, file)
    \/ client = "wsman" /\ WsmanConnect(url, auth, file)

\* WSMANClient::connectLocally() always raises.
ClientConnectLocally ==
    \/ client = "cimxml" /\ CimxmlConnectLocally(info)
    \/ client = "wsman" /\ UNCHANGED info /\ Fails("CIMError")

\* Mutant: the flag is left when the link ends.
ClientDisconnectKeepsFlag ==
    /\ link' = Down
    /\ UNCHANGED connected

\* CIMXMLClient::disconnect() and WSMANClient::disconnect(), of which only the
\* first keeps m_is_connected; in the second it is never set.
ClientDisconnect ==
    /\ link' = Down
    /\ connected' = FALSE

-----------------------------------------------------------------------------
(* The methods of WBEMConnection.                                          *)

Idle == pc = "idle"

\* connect() of a connection that is local, and connectLocally(): the flag is
\* set only when the client is connected.
ConnectLocally ==
    /\ Idle
    /\ ClientConnectLocally
    /\ locally' = (locally \/ outcome' = "ok")
    /\ wasLocal' = TRUE
    /\ made' = IF outcome' = "ok" THEN link' ELSE Down
    /\ UNCHANGED <<client, login, cert, timeout, locked, temporary, pc, named, logins>>

\* Mutant: the user name and the password serve this connection only.
ConnectForgetsLogin(url, user, password, file) ==
    /\ Idle
    /\ ~locally
    /\ ClientConnect(Or(url, Url(info)),
                     [user |-> Or(user, login.user), password |-> Or(password, login.password)],
                     Or(file, cert))
    /\ named' = IF url = {} THEN named ELSE url
    /\ wasLocal' = (wasLocal \/ \E u \in url : u.scheme = "local")
    /\ logins' = logins \cup ({u.login : u \in url} \cap Logins)
    /\ made' = IF outcome' = "ok" THEN link' ELSE Down
    /\ UNCHANGED <<client, locally, login, cert, timeout, locked, temporary, pc>>

\* The user name and the password stay when the connection fails; the
\* certificate is used for this connection only.  Without a URL the client's
\* own is parsed again.
Connect(url, user, password, file) ==
    /\ Idle
    /\ ~locally
    /\ login' = [user |-> Or(user, login.user), password |-> Or(password, login.password)]
    /\ ClientConnect(Or(url, Url(info)), login', Or(file, cert))
    /\ named' = IF url = {} THEN named ELSE url
    /\ wasLocal' = (wasLocal \/ \E u \in url : u.scheme = "local")
    /\ logins' = logins \cup ({u.login : u \in url} \cap Logins)
    /\ made' = IF outcome' = "ok" THEN link' ELSE Down
    /\ UNCHANGED <<client, locally, cert, timeout, locked, temporary, pc>>

\* connect(""): the user name and the password are taken over before.
ConnectNowhere(user, password) ==
    /\ Idle
    /\ ~locally
    /\ login' = [user |-> Or(user, login.user), password |-> Or(password, login.password)]
    /\ outcome' = "url missing"
    /\ made' = Down
    /\ UNCHANGED <<client, locally, cert, timeout, info, connected, link, locked, temporary,
                   pc, named, wasLocal, logins>>

Disconnect ==
    /\ Idle
    /\ ClientDisconnect
    /\ outcome' = "ok"
    /\ UNCHANGED <<settings, info, locked, temporary, pc, history>>

\* Mutant: a WS-Management connection may be local.
SetAnyLocally(flag) ==
    /\ Idle
    /\ locally' = flag
    /\ wasLocal' = (wasLocal \/ locally')
    /\ made' = Down
    /\ UNCHANGED <<client, login, cert, timeout, info, connected, link, locked, temporary,
                   pc, outcome, named, logins>>

\* The connect_locally property; a WS-Management connection cannot be local.
SetConnectLocally(flag) ==
    /\ Idle
    /\ locally' = (flag /\ client # "wsman")
    /\ wasLocal' = (wasLocal \/ locally')
    /\ made' = Down
    /\ UNCHANGED <<client, login, cert, timeout, info, connected, link, locked, temporary,
                   pc, outcome, named, logins>>

\* The creds property.
SetCredentials(user, password) ==
    /\ Idle
    /\ login' = [user |-> user, password |-> password]
    /\ made' = Down
    /\ UNCHANGED <<client, locally, cert, timeout, info, connected, link, locked, temporary,
                   pc, outcome, named, wasLocal, logins>>

\* Mutant: the default is taken off the timeout.
SetTimeoutBeyond(milliseconds) ==
    /\ Idle
    /\ timeout' = IF client = "wsman" THEN 0 ELSE milliseconds - OneMinute
    /\ UNCHANGED <<client, locally, login, cert, info, connected, link, locked, temporary,
                   pc, outcome, history>>

\* The timeout property, which WSMANClient ignores.
SetTimeout(milliseconds) ==
    /\ Idle
    /\ timeout' = IF client = "wsman" THEN 0 ELSE milliseconds
    /\ UNCHANGED <<client, locally, login, cert, info, connected, link, locked, temporary,
                   pc, outcome, history>>

\* ScopedTransaction, then the start of ScopedConnection.
BeginTransaction ==
    /\ Idle
    /\ ~locked
    /\ locked' = TRUE
    /\ temporary' = ~connected
    /\ pc' = IF connected THEN "working" ELSE "opening"
    /\ UNCHANGED <<settings, info, connected, link, outcome, history>>

\* Mutant: the temporary link is made without the login.
OpeningNoLogin ==
    \/ locally /\ ClientConnectLocally
    \/ ~locally /\ info.valid /\ ClientConnect(Url(info), NoLogin, cert)
    \/ ~locally /\ ~info.valid /\ UNCHANGED info /\ Fails("url invalid")

\* The rest of ScopedConnection: the temporary link.  The constructor's
\* certificate is used for it.
Opening ==
    \/ locally /\ ClientConnectLocally
    \/ ~locally /\ info.valid /\ ClientConnect(Url(info), login, cert)
    \/ ~locally /\ ~info.valid /\ UNCHANGED info /\ Fails("url invalid")

\* Mutant: the lock is kept when the temporary link cannot be made.
OpenKeepsLock ==
    /\ pc = "opening"
    /\ Opening
    /\ IF outcome' = "ok"
         THEN pc' = "working" /\ UNCHANGED <<locked, temporary>>
         ELSE pc' = "idle" /\ temporary' = FALSE /\ UNCHANGED locked
    /\ UNCHANGED <<settings, history>>

\* When it raises there is no ScopedConnection to destroy, only the lock is
\* given back.
OpenTemporary ==
    /\ pc = "opening"
    /\ Opening
    /\ IF outcome' = "ok"
         THEN pc' = "working" /\ UNCHANGED <<locked, temporary>>
         ELSE pc' = "idle" /\ locked' = FALSE /\ temporary' = FALSE
    /\ UNCHANGED <<settings, history>>

\* The CIM operation, which the CIMOM may answer with an error.
Work ==
    /\ pc = "working"
    /\ outcome' \in {"ok", "CIMError", "ConnectionError"}
    /\ pc' = "closing"
    /\ UNCHANGED <<settings, info, connected, link, locked, temporary, history>>

\* Mutant: every link is ended, not the temporary one only.
EndAnyLink ==
    /\ pc = "closing"
    /\ ClientDisconnect
    /\ temporary' = FALSE
    /\ locked' = FALSE
    /\ pc' = "idle"
    /\ UNCHANGED <<settings, info, outcome, history>>

\* Both scopes end, whether the operation raised or not.
EndTransaction ==
    /\ pc = "closing"
    /\ IF temporary THEN ClientDisconnect ELSE UNCHANGED <<link, connected>>
    /\ temporary' = FALSE
    /\ locked' = FALSE
    /\ pc' = "idle"
    /\ UNCHANGED <<settings, info, outcome, history>>

\* The destructor.
Destroy ==
    /\ Idle
    /\ ClientDisconnect
    /\ pc' = "gone"
    /\ UNCHANGED <<settings, info, locked, temporary, outcome, history>>

Operation == BeginTransaction \/ OpenTemporary \/ Work \/ EndTransaction

Configure ==
    \/ \E flag \in BOOLEAN : SetConnectLocally(flag)
    \/ \E user \in Users, password \in Passwords : SetCredentials(user, password)
    \/ \E milliseconds \in Timeouts : SetTimeout(milliseconds)

Next ==
    \/ \E url \in Optional(Given), user \in Optional(Users), password \in Optional(Passwords),
          file \in Optional(Certs) : Connect(url, user, password, file)
    \/ \E user \in Optional(Users), password \in Optional(Passwords) :
          ConnectNowhere(user, password)
    \/ ConnectLocally
    \/ Disconnect
    \/ Configure
    \/ Operation
    \/ Destroy

Spec == Init /\ [][Next]_vars

-----------------------------------------------------------------------------
(* Properties                                                              *)

LoginPairs == [user : Users \cup {NoText}, password : Passwords \cup {NoText}]

Links == [up : {TRUE}, host : Names, login : LoginPairs \cup Logins, cert : Certs \cup {NoCert}]

Outcomes == {"none", "ok", "url missing", "url invalid", "ConnectionError", "CIMError"}

\* Every variable has its type.
TypeOK ==
    /\ client \in Clients
    /\ locally \in BOOLEAN
    /\ login \in LoginPairs
    /\ cert \in Certs \cup {NoCert}
    /\ timeout \in Nat
    /\ info \in Infos
    /\ connected \in BOOLEAN
    /\ link \in Links \cup {Down}
    /\ locked \in BOOLEAN
    /\ temporary \in BOOLEAN
    /\ pc \in {"idle", "opening", "working", "closing", "gone"}
    /\ outcome \in Outcomes
    /\ named \in Optional(Given)
    /\ wasLocal \in BOOLEAN
    /\ logins \subseteq Logins
    /\ made \in Links \cup {Down}

\* is_connected of a CIM-XML connection is the truth about the link, whatever
\* failed and wherever it failed (lmiwbem_client_cimxml.cpp:41-101); of a
\* WS-Management connection it never is: it says no, link or not.
FlagTells ==
    /\ client = "cimxml" => connected = link.up
    /\ client = "wsman" => ~connected

\* A CIMOM is asked only through a link and under the client's lock, and the
\* lock is free whenever no operation is under way: the lock is not recursive,
\* one that is left held stops every later operation
\* (obj/lmiwbem_connection.cpp:89-151, lmiwbem_client.cpp:24-34).
WorksLinked ==
    /\ pc = "working" => link.up /\ locked
    /\ pc \in {"idle", "gone"} => ~locked /\ ~temporary

\* A new CIM-XML link, temporary or not, of a program that never asked for
\* anything local goes to the host of the last URL given, with the login of that
\* URL if it has one.  It never has a login but the one set and those of URLs:
\* none that was set before and replaced.  Which of these two counts when the last
\* URL has no login is not said, and once something was local only the second half
\* is (ConnectReachesUrl); WSMANClient is left out, because it does not look at
\* the URL of connect() again
\* (obj/lmiwbem_connection.cpp:96-113, 426-470, lmiwbem_client_cimxml.cpp:49-86).
NewLinkFollows ==
    [][ client = "cimxml" /\ ~link.up /\ link'.up =>
          /\ ~wasLocal' => \E u \in named' :
                link'.host = u.host /\ (u.login \in Logins => link'.login = u.login)
          /\ ~info'.local => link'.login \in logins' \cup {login'} ]_vars

\* A temporary CIM-XML link is the link that the last connect() made, as long as
\* the settings have not been touched: same host, same login
\* (obj/lmiwbem_connection.cpp:98-113, 430-459).
TemporaryLikeLast ==
    [][ client = "cimxml" /\ pc = "opening" /\ link'.up /\ made.up =>
          link'.host = made.host /\ link'.login = made.login ]_vars

Stage == CASE pc \in {"idle", "gone"} -> "idle"
           [] pc = "opening" -> "opening"
           [] pc \in {"working", "closing"} -> "working"

Session == INSTANCE ConnectionSession WITH stage <- Stage

\* A CIM-XML connection is a session: an operation leaves an explicit link alone
\* and ends the link it made, on every way out
\* (obj/lmiwbem_connection.cpp:89-144, lmiwbem_client_cimxml.cpp:41-101).
\* A WS-Management connection is none: its operations replace the link that
\* connect() made and end it (lmiwbem_client_wsman.cpp:122-152).
ImplementsSession ==
    /\ client = "cimxml" => Session!Init
    /\ [][client = "cimxml" => [Session!Next]_(Session!vars)]_vars

\* A transaction of a WS-Management connection always finds a valid URL to make
\* its handle from: connectLocally() is refused and leaves nothing behind, the
\* property connect_locally cannot be set, and no URL that was refused gets into
\* the object.  (Whose URL it is, is another question: connect(url) is not heeded.)
\* (obj/lmiwbem_connection.cpp:474-485, 519-528, lmiwbem_client_wsman.cpp:122-152)
WsmanCanAsk == client = "wsman" => info.valid /\ ~locally /\ outcome # "url invalid"

\* "url (str): URL of CIMOM instance" (lmiwbem_connection.pydoc:46): a
\* connection that is not local is made to the host of the URL it was given.
ConnectReachesUrl ==
    [][ ~link.up /\ link'.up /\ ~locally' =>
          \A u \in named' : u.scheme # "local" => link'.host = u.host ]_vars

-----------------------------------------------------------------------------
(* Invariants for the proofs (see ConnectionProofs).                       *)

\* What each step of an operation finds: the lock, and a link to make or to use.
StepInv ==
    /\ pc \in {"opening", "working", "closing"} => locked
    /\ pc \in {"idle", "gone"} => ~locked /\ ~temporary
    /\ pc = "opening" => temporary /\ ~connected
    /\ pc \in {"working", "closing"} => link.up /\ (client = "wsman" => temporary)

\* The inductive invariant.
ConnectionInv == TypeOK /\ FlagTells /\ StepInv /\ WsmanCanAsk

\* What the URL information of a CIM-XML client has to do with the URLs, the
\* logins and the local requests there were.
UrlInv ==
    /\ info.valid <=> info.port # PortNotSet /\ info.host # NoHost
    /\ info.local \/ locally => wasLocal
    /\ ~wasLocal /\ info.valid => \E u \in named :
          u.host = info.host /\ (u.login \in Logins => info.loginValid /\ info.login = u.login)
    /\ info.loginValid => info.login \in logins

\* What the last link was made of, as long as it can be made again.
MadeInv ==
    made.up =>
        IF locally \/ (info.valid /\ info.local)
          THEN made.host = Fqdn /\ made.login = NoLogin
          ELSE /\ info.valid
               /\ made.host = info.host
               /\ made.login = IF info.loginValid THEN info.login ELSE login

LinkInv == client = "cimxml" => UrlInv /\ MadeInv

=============================================================================
