-------------------------- MODULE ConnectionProofs --------------------------
(***************************************************************************)
(* Theorems about Connection, for every set of URLs, logins and settings.  *)
(***************************************************************************)
EXTENDS Connection, URLInfoProofs

-----------------------------------------------------------------------------
(* Types                                                                   *)

\* An optional argument or its default.
LEMMA OrType ==
    ASSUME NEW S, NEW d, NEW a \in Optional(S)
    PROVE  /\ Or(a, d) \in S \cup {d}
           /\ a # {} => Or(a, d) \in S
  BY DEF Or, Optional

\* A new object is an object.
LEMMA NewType == ASSUME NEW u \in Urls PROVE New(u) \in Infos
  BY FreshType, SetType DEF New

\* What a link is made of makes a link, and it is up.
LEMMA LinkType ==
    ASSUME NEW h \in Names, NEW l \in LoginPairs \cup Logins, NEW c \in Certs \cup {NoCert}
    PROVE  Link(h, l, c) \in Links /\ Link(h, l, c).up = TRUE /\ Link(h, l, c) # Down
  BY DEF Link, Links, Down

\* The local link is a link.
LEMMA LocalLinkType == LocalLink \in Links /\ LocalLink.up = TRUE /\ LocalLink # Down
  <1>1. Fqdn \in Names
    BY DEF Names
  <1>2. NoLogin \in LoginPairs
    BY ConnectionAssumption DEF LoginPairs
  <1>3. QED
    BY <1>1, <1>2, LinkType DEF LocalLink

\* A link that is up is a link, and the other way round.
LEMMA UpMeans ==
    ASSUME NEW k \in Links \cup {Down}
    PROVE  k.up \in BOOLEAN /\ (k.up <=> k # Down)
  <1>1. Down.up = FALSE
    BY DEF Down
  <1>2. \A j \in Links : j.up = TRUE
    BY DEF Links
  <1>3. CASE k = Down
    BY <1>1, <1>3
  <1>4. CASE k \in Links
    BY <1>1, <1>2, <1>4
  <1>5. QED
    BY <1>3, <1>4

-----------------------------------------------------------------------------
(* The clients                                                             *)

\* What the client keeps about its link.
ClientOK ==
    /\ info \in Infos
    /\ link \in Links \cup {Down}
    /\ connected \in BOOLEAN
    /\ client \in Clients
    /\ FlagTells

\* What connect() and connectLocally() of a client do to that: whatever fails,
\* and wherever, flag and link agree, and only success makes a new link.
ClientStep ==
    /\ info' \in Infos
    /\ link' \in Links \cup {Down}
    /\ connected' \in BOOLEAN
    /\ outcome' \in {"ok", "ConnectionError", "CIMError"}
    /\ outcome' = "ok" => link' \in Links
    /\ outcome' # "ok" => link' = link
    /\ client = "cimxml" => connected' = link'.up
    /\ client = "wsman" => ~connected' /\ info' = info

\* A call that raises leaves link and flag alone.
LEMMA FailsStep ==
    ASSUME ClientOK, info' \in Infos, client = "wsman" => info' = info,
           NEW e \in {"ConnectionError", "CIMError"}, Fails(e)
    PROVE  ClientStep
  BY DEF ClientOK, FlagTells, Fails, ClientStep

\* CIMXMLClient::connectLocally()
LEMMA CimxmlLocalStep ==
    ASSUME ClientOK, client = "cimxml", NEW i \in Infos, CimxmlConnectLocally(i)
    PROVE  ClientStep
  <1>1. CASE info' = i /\ Fails("ConnectionError")
    BY <1>1, FailsStep
  <1>2. CASE link' = LocalLink /\ connected' = TRUE /\ info' = Set(i, LocalUrl) /\ outcome' = "ok"
    <2>1. info' \in Infos
      BY <1>2, SetType, LocalUrlType
    <2>2. QED
      BY <1>2, <2>1, LocalLinkType DEF ClientStep
  <1>3. QED
    BY <1>1, <1>2 DEF CimxmlConnectLocally

\* CIMXMLClient::connect()
LEMMA CimxmlStep ==
    ASSUME ClientOK, client = "cimxml", NEW u \in Urls, NEW l \in LoginPairs,
           NEW c \in Certs \cup {NoCert}, CimxmlConnect(u, l, c)
    PROVE  ClientStep
  <1> DEFINE i == Set(info, u)
  <1>1. i \in Infos
    BY SetType DEF ClientOK
  <1>2. i.host \in Names /\ i.login \in Logins \cup {NoLogin}
    BY <1>1 DEF Infos
  <1>3. NoLogin \in LoginPairs
    BY ConnectionAssumption DEF LoginPairs
  <1> DEFINE k == Link(i.host, IF i.loginValid THEN i.login ELSE l, IF i.https THEN c ELSE NoCert)
  <1>4. k \in Links /\ k.up = TRUE
    <2>1. (IF i.loginValid THEN i.login ELSE l) \in LoginPairs \cup Logins
      BY <1>2, <1>3
    <2>2. (IF i.https THEN c ELSE NoCert) \in Certs \cup {NoCert}
      OBVIOUS
    <2>3. QED
      BY <1>2, <2>1, <2>2, LinkType
  <1> HIDE DEF k
  <1>5. \/ info' = i /\ Fails("ConnectionError")
        \/ CimxmlConnectLocally(i)
        \/ info' = i /\ link' = k /\ connected' = TRUE /\ outcome' = "ok"
    BY DEF CimxmlConnect, k
  <1> HIDE DEF i
  <1>6. CASE info' = i /\ Fails("ConnectionError")
    BY <1>1, <1>6, FailsStep
  <1>7. CASE CimxmlConnectLocally(i)
    BY <1>1, <1>7, CimxmlLocalStep
  <1>8. CASE info' = i /\ link' = k /\ connected' = TRUE /\ outcome' = "ok"
    BY <1>1, <1>4, <1>8 DEF ClientStep
  <1>9. QED
    BY <1>5, <1>6, <1>7, <1>8

\* connect() of either client
LEMMA ConnectStep ==
    ASSUME ClientOK, NEW u \in Urls, NEW l \in LoginPairs, NEW c \in Certs \cup {NoCert},
           ClientConnect(u, l, c)
    PROVE  ClientStep /\ (client = "wsman" => outcome' = "ok")
  <1>1. CASE client = "cimxml" /\ CimxmlConnect(u, l, c)
    BY <1>1, CimxmlStep
  <1>2. CASE client = "wsman" /\ WsmanConnect(u, l, c)
    <2>1. New(u).host \in Names
      BY NewType DEF Infos
    <2>2. link' \in Links
      BY <1>2, <2>1, LinkType DEF WsmanConnect
    <2>3. QED
      BY <1>2, <2>2 DEF WsmanConnect, ClientStep, ClientOK, FlagTells
  <1>3. QED
    BY <1>1, <1>2 DEF ClientConnect

\* connectLocally() of either client
LEMMA ConnectLocallyStep ==
    ASSUME ClientOK, ClientConnectLocally
    PROVE  ClientStep /\ (client = "wsman" => outcome' = "CIMError")
  <1>1. CASE client = "cimxml" /\ CimxmlConnectLocally(info)
    BY <1>1, CimxmlLocalStep DEF ClientOK
  <1>2. CASE client = "wsman" /\ UNCHANGED info /\ Fails("CIMError")
    <2>1. ClientStep
      BY <1>2, FailsStep DEF ClientOK
    <2>2. QED
      BY <1>2, <2>1 DEF Fails
  <1>3. QED
    BY <1>1, <1>2 DEF ClientConnectLocally

\* disconnect() of either client
LEMMA DisconnectStep ==
    ASSUME ClientOK, ClientDisconnect, client' = client
    PROVE  link' = Down /\ connected' = FALSE /\ FlagTells'
  BY DEF ClientDisconnect, Down, FlagTells

-----------------------------------------------------------------------------
(* The invariant                                                           *)

\* The constructor makes a client that has never had a link.
LEMMA InitInv == Init => ConnectionInv
  <1> SUFFICES ASSUME Init PROVE ConnectionInv
    OBVIOUS
  <1>1. NoLogin \in LoginPairs /\ NoCert \in Certs \cup {NoCert}
    BY ConnectionAssumption DEF LoginPairs
  <1>2. /\ client \in Clients /\ locally \in BOOLEAN /\ login \in LoginPairs
        /\ cert \in Certs \cup {NoCert} /\ timeout \in Nat /\ info \in Infos
        /\ named \in Optional(Given) /\ wasLocal \in BOOLEAN
        /\ client = "wsman" => ~locally /\ info.valid
    <2>1. CASE ConstructLocal
      BY <1>1, <2>1, FreshType
         DEF ConstructLocal, Clients, Optional, PegasusTimeout
    <2>2. CASE Construct
      <3>1. PICK url \in Optional(Given), user \in Users, password \in Passwords,
                 file \in Optional(Certs) :
               /\ url # {} => New(Or(url, LocalUrl)).valid
               /\ info = IF url = {} THEN Fresh ELSE New(Or(url, LocalUrl))
               /\ client = IF IsWSMAN(info) THEN "wsman" ELSE "cimxml"
               /\ locally = FALSE
               /\ login = [user |-> user, password |-> password]
               /\ cert = Or(file, NoCert)
               /\ timeout = IF client = "wsman" THEN 0 ELSE OneMinute
               /\ named = url
               /\ wasLocal = info.local
        BY <2>2 DEF Construct
      <3>2. info \in Infos
        <4>1. CASE url = {}
          BY <3>1, <4>1, FreshType
        <4>2. CASE url # {}
          BY <3>1, <4>2, OrType, NewType, ConnectionAssumption
        <4>3. QED
          BY <4>1, <4>2
      <3>3. cert \in Certs \cup {NoCert}
        BY <3>1, OrType
      <3>4. client = "wsman" => info.valid
        <4>1. ~IsWSMAN(Fresh)
          BY DEF IsWSMAN, Fresh, NoPath
        <4>2. CASE url = {}
          BY <3>1, <4>1, <4>2
        <4>3. CASE url # {}
          BY <3>1, <4>3 DEF Or
        <4>4. QED
          BY <4>2, <4>3
      <3>5. client \in Clients /\ timeout \in Nat /\ login \in LoginPairs
        BY <3>1 DEF Clients, OneMinute, LoginPairs
      <3>6. wasLocal \in BOOLEAN
        BY <3>1, <3>2 DEF Infos
      <3>7. QED
        BY <3>1, <3>2, <3>3, <3>4, <3>5, <3>6
    <2>3. QED
      BY <2>1, <2>2 DEF Init
  <1>3. TypeOK
    BY <1>2 DEF Init, TypeOK, Outcomes
  <1>4. FlagTells /\ StepInv /\ WsmanCanAsk
    BY <1>2 DEF Init, FlagTells, StepInv, WsmanCanAsk, Down
  <1>5. QED
    BY <1>3, <1>4 DEF ConnectionInv

\* What every step keeps of the settings and histories that is not about links.
SettingsOK ==
    /\ client \in Clients
    /\ locally \in BOOLEAN
    /\ login \in LoginPairs
    /\ cert \in Certs \cup {NoCert}
    /\ timeout \in Nat
    /\ named \in Optional(Given)
    /\ wasLocal \in BOOLEAN
    /\ logins \subseteq Logins

\* connect(), with or without its arguments.
LEMMA ConnectInv ==
    ASSUME ConnectionInv, NEW url \in Optional(Given), NEW user \in Optional(Users),
           NEW password \in Optional(Passwords), NEW file \in Optional(Certs),
           Connect(url, user, password, file)
    PROVE  ConnectionInv'
  <1> USE DEF ConnectionInv
  <1>1. ClientOK
    BY DEF ClientOK, TypeOK
  <1>2. login' \in LoginPairs
    <2>1. login.user \in Users \cup {NoText} /\ login.password \in Passwords \cup {NoText}
      BY DEF TypeOK, LoginPairs
    <2>2. Or(user, login.user) \in Users \cup {NoText}
      BY <2>1, OrType
    <2>3. Or(password, login.password) \in Passwords \cup {NoText}
      BY <2>1, OrType
    <2>4. QED
      BY <2>2, <2>3 DEF Connect, LoginPairs
  <1>3. Or(url, Url(info)) \in Urls
    BY OrType, UrlType, ConnectionAssumption DEF TypeOK
  <1>4. Or(file, cert) \in Certs \cup {NoCert}
    BY OrType DEF TypeOK
  <1>5. ClientStep /\ (client = "wsman" => outcome' = "ok")
    BY <1>1, <1>2, <1>3, <1>4, ConnectStep DEF Connect
  <1>6. SettingsOK'
    BY <1>2 DEF Connect, SettingsOK, TypeOK
  <1>7. made' \in Links \cup {Down}
    BY <1>5 DEF Connect, ClientStep
  <1>8. TypeOK'
    BY <1>5, <1>6, <1>7 DEF Connect, TypeOK, SettingsOK, ClientStep, Outcomes
  <1>9. FlagTells' /\ StepInv' /\ WsmanCanAsk'
    BY <1>5 DEF Connect, Idle, ClientStep, FlagTells, StepInv, WsmanCanAsk
  <1>10. QED
    BY <1>8, <1>9

\* connectLocally()
LEMMA ConnectLocallyInv == ASSUME ConnectionInv, ConnectLocally PROVE ConnectionInv'
  <1> USE DEF ConnectionInv
  <1>1. ClientOK
    BY DEF ClientOK, TypeOK
  <1>2. ClientStep /\ (client = "wsman" => outcome' = "CIMError")
    BY <1>1, ConnectLocallyStep DEF ConnectLocally
  <1>3. locally' \in BOOLEAN /\ (client = "wsman" => ~locally')
    BY <1>2 DEF ConnectLocally, TypeOK, WsmanCanAsk
  <1>4. made' \in Links \cup {Down}
    BY <1>2 DEF ConnectLocally, ClientStep
  <1>5. TypeOK'
    BY <1>2, <1>3, <1>4 DEF ConnectLocally, TypeOK, ClientStep, Outcomes
  <1>6. FlagTells' /\ StepInv' /\ WsmanCanAsk'
    BY <1>2, <1>3
       DEF ConnectLocally, Idle, ClientStep, FlagTells, StepInv, WsmanCanAsk
  <1>7. QED
    BY <1>5, <1>6

\* The methods that change settings or end the link.
LEMMA SettingsInv ==
    ASSUME ConnectionInv,
           \/ \E user \in Optional(Users), password \in Optional(Passwords) :
                 ConnectNowhere(user, password)
           \/ Disconnect
           \/ Configure
           \/ Destroy
    PROVE  ConnectionInv'
  <1> USE DEF ConnectionInv
  <1>1. ASSUME NEW user \in Optional(Users), NEW password \in Optional(Passwords),
               ConnectNowhere(user, password)
        PROVE  ConnectionInv'
    <2>1. login.user \in Users \cup {NoText} /\ login.password \in Passwords \cup {NoText}
      BY DEF TypeOK, LoginPairs
    <2>2. Or(user, login.user) \in Users \cup {NoText}
      BY <2>1, OrType
    <2>3. Or(password, login.password) \in Passwords \cup {NoText}
      BY <2>1, OrType
    <2>4. login' \in LoginPairs
      BY <1>1, <2>2, <2>3 DEF ConnectNowhere, LoginPairs
    <2>5. TypeOK'
      BY <1>1, <2>4 DEF ConnectNowhere, TypeOK, Outcomes
    <2>6. QED
      BY <1>1, <2>5 DEF ConnectNowhere, FlagTells, StepInv, WsmanCanAsk
  <1>2. CASE Disconnect \/ Destroy
    <2>1. ClientDisconnect /\ client' = client
      BY <1>2 DEF Disconnect, Destroy, settings
    <2>2. link' = Down /\ connected' = FALSE /\ FlagTells'
      BY <2>1, DisconnectStep DEF ClientOK, TypeOK
    <2>3. TypeOK'
      BY <1>2, <2>2 DEF Disconnect, Destroy, settings, history, TypeOK, Outcomes
    <2>4. StepInv'
      BY <1>2, <2>2 DEF Disconnect, Destroy, Idle, settings, StepInv
    <2>5. WsmanCanAsk'
      BY <1>2 DEF Disconnect, Destroy, settings, history, WsmanCanAsk
    <2>6. QED
      BY <2>2, <2>3, <2>4, <2>5
  <1>3. ASSUME NEW flag \in BOOLEAN, SetConnectLocally(flag) PROVE ConnectionInv'
    <2>1. locally' \in BOOLEAN /\ wasLocal' \in BOOLEAN /\ (client = "wsman" => ~locally')
      BY <1>3 DEF SetConnectLocally, TypeOK
    <2>2. TypeOK'
      BY <1>3, <2>1 DEF SetConnectLocally, TypeOK
    <2>3. QED
      BY <1>3, <2>1, <2>2 DEF SetConnectLocally, FlagTells, StepInv, WsmanCanAsk
  <1>4. ASSUME NEW user \in Users, NEW password \in Passwords, SetCredentials(user, password)
        PROVE  ConnectionInv'
    <2>1. login' \in LoginPairs
      BY <1>4 DEF SetCredentials, LoginPairs
    <2>2. TypeOK'
      BY <1>4, <2>1 DEF SetCredentials, TypeOK
    <2>3. QED
      BY <1>4, <2>2 DEF SetCredentials, FlagTells, StepInv, WsmanCanAsk
  <1>5. ASSUME NEW m \in Timeouts, SetTimeout(m) PROVE ConnectionInv'
    <2>1. timeout' \in Nat
      BY <1>5, ConnectionAssumption DEF SetTimeout
    <2>2. TypeOK'
      BY <1>5, <2>1 DEF SetTimeout, history, TypeOK
    <2>3. QED
      BY <1>5, <2>2 DEF SetTimeout, history, FlagTells, StepInv, WsmanCanAsk
  <1>6. QED
    BY <1>1, <1>2, <1>3, <1>4, <1>5 DEF Configure

\* The temporary link, whether it can be made or not.
LEMMA OpeningStep ==
    ASSUME ConnectionInv, Opening
    PROVE  /\ info' \in Infos /\ link' \in Links \cup {Down} /\ connected' \in BOOLEAN
           /\ outcome' \in Outcomes
           /\ outcome' = "ok" => link' \in Links
           /\ outcome' # "ok" => link' = link
           /\ client = "cimxml" => connected' = link'.up
           /\ client = "wsman" => ~connected' /\ info' = info /\ outcome' # "url invalid"
  <1> USE DEF ConnectionInv
  <1>1. ClientOK
    BY DEF ClientOK, TypeOK
  <1>2. CASE ~locally /\ info.valid /\ ClientConnect(Url(info), login, cert)
    <2>1. Url(info) \in Urls /\ login \in LoginPairs /\ cert \in Certs \cup {NoCert}
      BY UrlType DEF TypeOK
    <2>2. ClientStep
      BY <1>1, <1>2, <2>1, ConnectStep
    <2>3. QED
      BY <2>2 DEF ClientStep, Outcomes
  <1>3. CASE locally /\ ClientConnectLocally
    <2>1. ClientStep
      BY <1>1, <1>3, ConnectLocallyStep
    <2>2. QED
      BY <2>1 DEF ClientStep, Outcomes
  <1>4. CASE ~locally /\ ~info.valid /\ UNCHANGED info /\ Fails("url invalid")
    BY <1>4 DEF Fails, WsmanCanAsk, TypeOK, FlagTells, Outcomes
  <1>5. QED
    BY <1>2, <1>3, <1>4 DEF Opening

\* The steps of an operation.
LEMMA OperationInv == ASSUME ConnectionInv, Operation PROVE ConnectionInv'
  <1> USE DEF ConnectionInv
  <1>1. CASE BeginTransaction
    <2>1. temporary' \in BOOLEAN /\ pc' \in {"opening", "working"}
      BY <1>1 DEF BeginTransaction, TypeOK
    <2>2. TypeOK'
      BY <1>1, <2>1 DEF BeginTransaction, settings, history, TypeOK
    <2>3. connected => link.up
      BY DEF FlagTells, TypeOK, Clients
    <2>4. StepInv'
      BY <1>1, <2>3 DEF BeginTransaction, settings, FlagTells, StepInv, TypeOK
    <2>5. QED
      BY <1>1, <2>2, <2>4 DEF BeginTransaction, settings, history, FlagTells, WsmanCanAsk
  <1>2. CASE OpenTemporary
    <2>1. /\ info' \in Infos /\ link' \in Links \cup {Down} /\ connected' \in BOOLEAN
          /\ outcome' \in Outcomes
          /\ outcome' = "ok" => link' \in Links
          /\ outcome' # "ok" => link' = link
          /\ client = "cimxml" => connected' = link'.up
          /\ client = "wsman" => ~connected' /\ info' = info /\ outcome' # "url invalid"
      BY <1>2, OpeningStep DEF OpenTemporary
    <2>2. outcome' = "ok" => link'.up
      BY <2>1 DEF Links
    <2>3. TypeOK'
      BY <1>2, <2>1 DEF OpenTemporary, settings, history, TypeOK
    <2>4. FlagTells' /\ StepInv' /\ WsmanCanAsk'
      BY <1>2, <2>1, <2>2
         DEF OpenTemporary, settings, history, FlagTells, StepInv, WsmanCanAsk
    <2>5. QED
      BY <2>3, <2>4
  <1>3. CASE Work
    <2>1. TypeOK'
      BY <1>3 DEF Work, settings, history, TypeOK, Outcomes
    <2>2. QED
      BY <1>3, <2>1 DEF Work, settings, history, FlagTells, StepInv, WsmanCanAsk
  <1>4. CASE EndTransaction
    <2>1. link' \in Links \cup {Down} /\ connected' \in BOOLEAN /\ FlagTells'
      <3>1. CASE temporary
        BY <1>4, <3>1, DisconnectStep DEF EndTransaction, settings, ClientOK, TypeOK
      <3>2. CASE ~temporary
        BY <1>4, <3>2 DEF EndTransaction, settings, TypeOK, FlagTells
      <3>3. QED
        BY <3>1, <3>2
    <2>2. TypeOK'
      BY <1>4, <2>1 DEF EndTransaction, settings, history, TypeOK
    <2>3. QED
      BY <1>4, <2>1, <2>2 DEF EndTransaction, settings, history, StepInv, WsmanCanAsk
  <1>5. QED
    BY <1>1, <1>2, <1>3, <1>4 DEF Operation

\* The invariant is inductive.
LEMMA StepPreserves == ConnectionInv /\ [Next]_vars => ConnectionInv'
  <1> SUFFICES ASSUME ConnectionInv, [Next]_vars PROVE ConnectionInv'
    OBVIOUS
  <1>1. CASE UNCHANGED vars
    BY ZenonT(60), <1>1 DEF vars, settings, history, ConnectionInv, TypeOK, FlagTells, StepInv,
       WsmanCanAsk
  <1>2. CASE Next
    BY <1>2, ConnectInv, ConnectLocallyInv, SettingsInv, OperationInv DEF Next
  <1>3. QED
    BY <1>1, <1>2

\* The invariant holds throughout.
LEMMA Invariance == Spec => []ConnectionInv
  BY InitInv, StepPreserves, PTL DEF Spec

-----------------------------------------------------------------------------
(* Theorems                                                                *)

\* Every variable of the connection keeps its type.
THEOREM TypeCorrect == Spec => []TypeOK
  <1>1. ConnectionInv => TypeOK
    BY DEF ConnectionInv
  <1>2. QED
    BY <1>1, Invariance, PTL

\* Whatever fails, is_connected of a CIM-XML connection tells whether there is
\* a link (lmiwbem_client_cimxml.cpp:41-101).
THEOREM FlagCorrect == Spec => []FlagTells
  <1>1. ConnectionInv => FlagTells
    BY DEF ConnectionInv, FlagTells
  <1>2. QED
    BY <1>1, Invariance, PTL

\* Operations have a link and the lock, and give the lock back
\* (obj/lmiwbem_connection.cpp:89-151).
THEOREM OperationsSafe == Spec => []WorksLinked
  <1>1. ConnectionInv => WorksLinked
    BY DEF ConnectionInv, StepInv, WorksLinked
  <1>2. QED
    BY <1>1, Invariance, PTL

\* A WS-Management connection always has a valid URL to make a handle from
\* (obj/lmiwbem_connection.cpp:474-485, 519-528, lmiwbem_client_wsman.cpp:122-152).
THEOREM WsmanAsks == Spec => []WsmanCanAsk
  <1>1. ConnectionInv => WsmanCanAsk
    BY DEF ConnectionInv
  <1>2. QED
    BY <1>1, Invariance, PTL

-----------------------------------------------------------------------------
(* Refinement                                                              *)

\* An idle connection's methods make, keep or end the explicit link.
LEMMA IdleRefines ==
    ASSUME Idle, pc' \in {"idle", "gone"}, temporary' = temporary,
           link' \in Links \cup {Down}
    PROVE  Session!Next
  BY DEF Idle, Session!Next, Session!Reconnect, Stage

\* Every step of a CIM-XML connection is a step of the session or leaves it alone.
LEMMA StepRefines ==
    ASSUME ConnectionInv, ConnectionInv', [Next]_vars, client = "cimxml"
    PROVE  [Session!Next]_(Session!vars)
  <1> USE DEF ConnectionInv
  <1>1. link' \in Links \cup {Down}
    BY DEF TypeOK
  <1>2. CASE UNCHANGED vars
    BY <1>2 DEF vars, Session!vars, Stage
  <1>3. ASSUME NEW url \in Optional(Given), NEW user \in Optional(Users),
               NEW password \in Optional(Passwords), NEW file \in Optional(Certs),
               Connect(url, user, password, file)
        PROVE  Session!Next
    BY <1>1, <1>3, IdleRefines DEF Connect, Idle
  <1>4. ASSUME NEW user \in Optional(Users), NEW password \in Optional(Passwords),
               ConnectNowhere(user, password)
        PROVE  Session!Next
    BY <1>1, <1>4, IdleRefines DEF ConnectNowhere, Idle
  <1>5. CASE ConnectLocally
    BY <1>1, <1>5, IdleRefines DEF ConnectLocally, Idle
  <1>6. CASE Disconnect \/ Destroy
    BY <1>1, <1>6, IdleRefines DEF Disconnect, Destroy, settings, Idle
  <1>7. CASE Configure
    BY <1>1, <1>7, IdleRefines
       DEF Configure, SetConnectLocally, SetCredentials, SetTimeout, Idle
  <1>8. CASE BeginTransaction
    <2>1. CASE connected
      <3>1. link # Down
        BY <2>1, UpMeans DEF FlagTells, TypeOK
      <3>2. temporary' = FALSE /\ pc' = "working" /\ link' = link
        BY <1>8, <2>1 DEF BeginTransaction, TypeOK
      <3>3. QED
        BY <1>8, <3>1, <3>2 DEF BeginTransaction, Idle, Session!Next, Session!Begin, Stage
    <2>2. CASE ~connected
      <3>1. link = Down
        BY <2>2, UpMeans DEF FlagTells, TypeOK
      <3>2. temporary' = TRUE /\ pc' = "opening" /\ link' = link
        BY <1>8, <2>2 DEF BeginTransaction, TypeOK
      <3>3. QED
        BY <1>8, <3>1, <3>2 DEF BeginTransaction, Idle, Session!Next, Session!Begin, Stage
    <2>3. QED
      BY <2>1, <2>2
  <1>9. CASE OpenTemporary
    <2>1. /\ outcome' = "ok" => link' \in Links
          /\ outcome' # "ok" => link' = link
      BY <1>9, OpeningStep DEF OpenTemporary
    <2>2. CASE outcome' = "ok"
      BY <1>9, <2>1, <2>2 DEF OpenTemporary, Session!Next, Session!Open, Stage
    <2>3. CASE outcome' # "ok"
      BY <1>9, <2>1, <2>3 DEF OpenTemporary, Session!Next, Session!GiveUp, Stage
    <2>4. QED
      BY <2>2, <2>3
  <1>10. CASE Work
    BY <1>10 DEF Work, Session!vars, Stage
  <1>11. CASE EndTransaction
    BY <1>11 DEF EndTransaction, ClientDisconnect, Session!Next, Session!End, Stage
  <1>12. QED
    BY <1>2, <1>3, <1>4, <1>5, <1>6, <1>7, <1>8, <1>9, <1>10, <1>11 DEF Next, Operation

\* Operations of a CIM-XML connection leave an explicit link alone and end their own
\* (obj/lmiwbem_connection.cpp:89-144).
THEOREM Implementation == Spec => ImplementsSession
  <1>1. Init => Session!Init
    BY DEF Init, Session!Init, Stage
  <1>2. ConnectionInv /\ ConnectionInv' /\ [Next]_vars =>
          (client = "cimxml" => [Session!Next]_(Session!vars))
    BY StepRefines
  <1>3. QED
    BY <1>1, <1>2, Invariance, PTL DEF Spec, ImplementsSession

-----------------------------------------------------------------------------
(* Where links go: the CIM-XML client                                      *)

\* The three ways in which CIMXMLClient::connect() ends.
LEMMA ConnectEnds ==
    ASSUME NEW u, NEW l, NEW c, CimxmlConnect(u, l, c)
    PROVE  LET i == Set(info, u)
           IN  \/ info' = i /\ link' = link /\ outcome' = "ConnectionError"
               \/ /\ i.valid /\ i.local
                  /\ info' = Set(i, LocalUrl) /\ link' = LocalLink /\ outcome' = "ok"
               \/ /\ i.valid /\ ~i.local
                  /\ info' = i /\ outcome' = "ok"
                  /\ link'.host = i.host
                  /\ link'.login = IF i.loginValid THEN i.login ELSE l
  BY DEF CimxmlConnect, CimxmlConnectLocally, Fails, Link

\* A local link has no login.
LEMMA LocalLinkMeans == LocalLink.host = Fqdn /\ LocalLink.login = NoLogin
  BY DEF LocalLink, Link

\* UrlInv, of a URL information and what it is related to.
Tells(i, local, was, names, given) ==
    /\ i.valid <=> i.port # PortNotSet /\ i.host # NoHost
    /\ i.local \/ local => was
    /\ ~was /\ i.valid => \E u \in names :
          u.host = i.host /\ (u.login \in Logins => i.loginValid /\ i.login = u.login)
    /\ i.loginValid => i.login \in given

\* A local URL tells nothing that was not there.
LEMMA LocalTells ==
    ASSUME NEW i \in Infos, NEW local, NEW names, NEW given, i.loginValid => i.login \in given
    PROVE  Tells(Set(i, LocalUrl), local, TRUE, names, given)
  BY SetLocalUrl DEF Tells

\* A URL that the program gives.
LEMMA GivenTells ==
    ASSUME NEW i \in Infos, NEW names, NEW given, NEW was \in BOOLEAN, NEW v \in Urls,
           Tells(i, FALSE, was, names, given)
    PROVE  Tells(Set(i, v), FALSE, was \/ v.scheme = "local", {v}, given \cup ({v.login} \cap Logins))
  <1> DEFINE s == Set(i, v)
  <1>1. /\ s.valid <=> s.port # PortNotSet /\ s.host # NoHost
        /\ s.valid /\ v.scheme # "local" => s.host = v.host
        /\ s.local => i.local \/ v.scheme = "local"
    BY SetMeans
  <1>2. /\ s.loginValid => \/ i.loginValid /\ s.login = i.login
                           \/ s.login = v.login /\ v.login \in Logins
        /\ s.valid /\ v.scheme # "local" /\ v.login \in Logins =>
              s.loginValid /\ s.login = v.login
    BY SetLogin
  <1> HIDE DEF s
  <1>3. s.loginValid => s.login \in given \cup ({v.login} \cap Logins)
    BY <1>2 DEF Tells
  <1>4. QED
    BY <1>1, <1>2, <1>3 DEF Tells, s

\* The client's own URL.
LEMMA OwnTells ==
    ASSUME NEW i \in Infos, NEW names, NEW given, NEW was \in BOOLEAN, NEW local,
           Tells(i, local, was, names, given)
    PROVE  /\ Tells(Set(i, Url(i)), local, was, names, given)
           /\ Set(i, Url(i)).valid => Set(i, Url(i)) = i
  <1> DEFINE s == Set(i, Url(i))
  <1>1. Url(i) \in Urls
    BY UrlType
  <1>2. s.valid => s = i
    BY SetBack DEF Tells
  <1>3. s.local => i.local
    BY SetBack DEF Tells
  <1>4. s.valid <=> s.port # PortNotSet /\ s.host # NoHost
    BY <1>1, SetMeans
  <1>5. s.loginValid => i.loginValid /\ s.login = i.login
    BY <1>1, SetLogin, UrlPlain
  <1> HIDE DEF s
  <1>6. Tells(s, local, was, names, given)
    BY <1>2, <1>3, <1>4, <1>5 DEF Tells
  <1>7. QED
    BY <1>2, <1>6 DEF s

-----------------------------------------------------------------------------
(* Where links go: the invariant                                           *)

\* The constructor makes no link and tells what it was given.
LEMMA InitLink == Init => LinkInv
  <1> SUFFICES ASSUME Init, client = "cimxml" PROVE UrlInv /\ MadeInv
    BY DEF LinkInv
  <1>1. MadeInv
    BY DEF Init, MadeInv, Down
  <1>2. SUFFICES UrlInv
    BY <1>1
  <1>3. Fresh.port = PortNotSet /\ ~Fresh.valid /\ ~Fresh.local /\ ~Fresh.loginValid
    BY DEF Fresh
  <1>4. CASE ConstructLocal
    <2>1. info = Fresh /\ wasLocal
      BY <1>4 DEF ConstructLocal
    <2>2. QED
      BY <1>3, <2>1 DEF UrlInv
  <1>5. CASE Construct
    <2>1. PICK url \in Optional(Given) :
             /\ info = IF url = {} THEN Fresh ELSE New(Or(url, LocalUrl))
             /\ ~locally /\ named = url /\ (info.local => wasLocal)
      BY <1>5 DEF Construct
    <2>2. logins = {u.login : u \in url} \cap Logins
      BY <2>1 DEF Init
    <2>3. CASE url = {}
      BY <1>3, <2>1, <2>2, <2>3 DEF UrlInv
    <2>4. CASE url # {}
      <3>1. PICK v \in Given : url = {v} /\ Or(url, LocalUrl) = v
        BY <2>4 DEF Optional, Or
      <3>2. v \in Urls
        BY ConnectionAssumption
      <3>3. info = Set(Fresh, v) /\ info \in Infos /\ info.local \in BOOLEAN
        BY <2>1, <2>4, <3>1, <3>2, SetType, FreshType DEF New, Infos
      <3>4. /\ info.valid <=> info.port # PortNotSet /\ info.host # NoHost
            /\ v.scheme = "local" => info.local
            /\ info.valid /\ v.scheme # "local" => info.host = v.host
        BY <3>2, <3>3, SetMeans, FreshType
      <3>5. /\ info.loginValid => info.login = v.login /\ v.login \in Logins
            /\ info.valid /\ v.scheme # "local" /\ v.login \in Logins =>
                  info.loginValid /\ info.login = v.login
        BY <1>3, <3>2, <3>3, SetLogin, FreshType
      <3>6. QED
        BY <2>1, <2>2, <3>1, <3>3, <3>4, <3>5 DEF UrlInv
    <2>5. QED
      BY <2>3, <2>4
  <1>6. QED
    BY <1>4, <1>5 DEF Init

\* What Connect() finds: its URL, and the histories that follow from it.
LEMMA ConnectTells ==
    ASSUME ConnectionInv, LinkInv, client = "cimxml", NEW url \in Optional(Given),
           NEW user \in Optional(Users), NEW password \in Optional(Passwords),
           NEW file \in Optional(Certs), Connect(url, user, password, file)
    PROVE  Tells(Set(info, Or(url, Url(info))), FALSE, wasLocal', named', logins')
  <1>1. info \in Infos /\ wasLocal \in BOOLEAN /\ ~locally
    BY DEF ConnectionInv, TypeOK, Connect
  <1>2. Tells(info, FALSE, wasLocal, named, logins)
    BY <1>1 DEF LinkInv, UrlInv, Tells
  <1>3. CASE url = {}
    <2>1. /\ Or(url, Url(info)) = Url(info) /\ named' = named
          /\ wasLocal' = wasLocal /\ logins' = logins
      BY <1>1, <1>3 DEF Connect, Or
    <2>2. QED
      BY <1>1, <1>2, <2>1, OwnTells
  <1>4. CASE url # {}
    <2>1. PICK v \in Given : url = {v}
      BY <1>4 DEF Optional
    <2>2. /\ Or(url, Url(info)) = v /\ named' = {v}
          /\ wasLocal' = (wasLocal \/ v.scheme = "local")
          /\ logins' = logins \cup ({v.login} \cap Logins)
      BY <2>1 DEF Connect, Or
    <2>3. Tells(Set(info, v), FALSE, wasLocal \/ v.scheme = "local", {v},
                logins \cup ({v.login} \cap Logins))
      BY <1>1, <1>2, ConnectionAssumption, GivenTells
    <2>4. QED
      BY <2>2, <2>3
  <1>5. QED
    BY <1>3, <1>4

\* connect()
LEMMA ConnectLink ==
    ASSUME ConnectionInv, LinkInv, NEW url \in Optional(Given), NEW user \in Optional(Users),
           NEW password \in Optional(Passwords), NEW file \in Optional(Certs),
           Connect(url, user, password, file)
    PROVE  LinkInv'
  <1> SUFFICES ASSUME client = "cimxml" PROVE UrlInv' /\ MadeInv'
    BY DEF LinkInv, Connect
  <1> DEFINE u == Or(url, Url(info))
             i == Set(info, u)
  <1>1. CimxmlConnect(u, login', Or(file, cert))
    BY DEF Connect, ClientConnect
  <1>2. info \in Infos /\ u \in Urls
    BY OrType, UrlType, ConnectionAssumption DEF ConnectionInv, TypeOK
  <1>3. Tells(i, FALSE, wasLocal', named', logins')
    BY ConnectTells
  <1>4. i \in Infos
    BY <1>2, SetType
  <1> HIDE DEF u
  <1>5. \/ info' = i /\ link' = link /\ outcome' = "ConnectionError"
        \/ /\ i.valid /\ i.local
           /\ info' = Set(i, LocalUrl) /\ link' = LocalLink /\ outcome' = "ok"
        \/ /\ i.valid /\ ~i.local
           /\ info' = i /\ outcome' = "ok"
           /\ link'.host = i.host
           /\ link'.login = IF i.loginValid THEN i.login ELSE login'
    BY <1>1, ConnectEnds
  <1> HIDE DEF i
  <1>6. ~locally' /\ made' = IF outcome' = "ok" THEN link' ELSE Down
    BY DEF Connect
  <1>7. Down.up = FALSE
    BY DEF Down
  <1>8. CASE info' = i /\ link' = link /\ outcome' = "ConnectionError"
    BY <1>3, <1>6, <1>7, <1>8 DEF Tells, UrlInv, MadeInv
  <1>9. CASE i.local /\ info' = Set(i, LocalUrl) /\ link' = LocalLink /\ outcome' = "ok"
    <2>1. wasLocal' /\ (i.loginValid => i.login \in logins')
      BY <1>3, <1>9 DEF Tells
    <2>2. info'.valid /\ info'.local
      BY <1>4, <1>9, SetLocalUrl
    <2>3. /\ info'.port # PortNotSet /\ info'.host # NoHost
          /\ info'.loginValid = i.loginValid /\ info'.login = i.login
      BY <1>4, <1>9, SetLocalUrl
    <2>4. UrlInv'
      BY <2>1, <2>2, <2>3 DEF UrlInv
    <2>5. MadeInv'
      BY <1>6, <1>9, <2>2, LocalLinkMeans DEF MadeInv
    <2>6. QED
      BY <2>4, <2>5
  <1>10. CASE /\ i.valid /\ ~i.local
              /\ info' = i /\ outcome' = "ok"
              /\ link'.host = i.host
              /\ link'.login = IF i.loginValid THEN i.login ELSE login'
    BY <1>3, <1>6, <1>10 DEF Tells, UrlInv, MadeInv
  <1>11. QED
    BY <1>5, <1>8, <1>9, <1>10

\* connectLocally()
LEMMA ConnectLocallyLink ==
    ASSUME ConnectionInv, LinkInv, ConnectLocally PROVE LinkInv'
  <1> SUFFICES ASSUME client = "cimxml" PROVE UrlInv' /\ MadeInv'
    BY DEF LinkInv, ConnectLocally
  <1>1. info \in Infos
    BY DEF ConnectionInv, TypeOK
  <1>2. /\ wasLocal' = TRUE /\ named' = named /\ logins' = logins
        /\ locally' = (locally \/ outcome' = "ok")
        /\ made' = IF outcome' = "ok" THEN link' ELSE Down
    BY DEF ConnectLocally
  <1>3. \/ info' = Set(info, LocalUrl) /\ link' = LocalLink /\ outcome' = "ok"
        \/ info' = info /\ outcome' = "ConnectionError"
    BY DEF ConnectLocally, ClientConnectLocally, CimxmlConnectLocally, Fails
  <1>4. CASE info' = Set(info, LocalUrl) /\ link' = LocalLink /\ outcome' = "ok"
    <2>1. /\ info'.valid /\ info'.port # PortNotSet /\ info'.host # NoHost
          /\ info'.loginValid = info.loginValid /\ info'.login = info.login
      BY <1>1, <1>4, SetLocalUrl
    <2>2. QED
      BY <1>2, <1>4, <2>1, LocalLinkMeans DEF LinkInv, UrlInv, MadeInv
  <1>5. CASE info' = info /\ outcome' = "ConnectionError"
    BY <1>2, <1>5 DEF LinkInv, UrlInv, MadeInv, Down
  <1>6. QED
    BY <1>3, <1>4, <1>5

\* The temporary link of an operation, when it is made, is the last one again.
LEMMA OpeningLink ==
    ASSUME ConnectionInv, LinkInv, client = "cimxml", OpenTemporary
    PROVE  /\ UrlInv' /\ MadeInv'
           /\ link'.up => (\/ info'.local /\ wasLocal /\ link' = LocalLink
                           \/ /\ ~locally /\ info'.valid /\ ~info'.local
                              /\ link'.host = info'.host
                              /\ link'.login = IF info'.loginValid THEN info'.login ELSE login)
           /\ link'.up /\ made.up => link'.host = made.host /\ link'.login = made.login
  <1>1. info \in Infos /\ wasLocal \in BOOLEAN
    BY DEF ConnectionInv, TypeOK
  <1>2. ~link.up
    BY DEF OpenTemporary, ConnectionInv, StepInv, FlagTells
  <1>3. /\ locally' = locally /\ login' = login /\ named' = named /\ wasLocal' = wasLocal
        /\ logins' = logins /\ made' = made /\ client' = client
    BY DEF OpenTemporary, settings, history
  <1>4. UrlInv /\ MadeInv
    BY DEF LinkInv
  <1>5. /\ Set(info, LocalUrl).valid /\ Set(info, LocalUrl).local
        /\ Set(info, LocalUrl).port # PortNotSet /\ Set(info, LocalUrl).host # NoHost
        /\ Set(info, LocalUrl).loginValid = info.loginValid
        /\ Set(info, LocalUrl).login = info.login
    BY <1>1, SetLocalUrl
  <1>6. \/ info' = info /\ link' = link
        \/ /\ locally \/ (info.valid /\ info.local)
           /\ info' = Set(info, LocalUrl) /\ link' = LocalLink
        \/ /\ ~locally /\ info.valid /\ ~info.local
           /\ info' = info
           /\ link'.host = info.host
           /\ link'.login = IF info.loginValid THEN info.login ELSE login
    <2>1. CASE locally /\ ClientConnectLocally
      <3>1. CimxmlConnectLocally(info)
        BY <2>1 DEF ClientConnectLocally
      <3>2. \/ info' = Set(info, LocalUrl) /\ link' = LocalLink
            \/ info' = info /\ link' = link
        BY <3>1 DEF CimxmlConnectLocally, Fails
      <3>3. QED
        BY <2>1, <3>2
    <2>2. CASE ~locally /\ info.valid /\ ClientConnect(Url(info), login, cert)
      <3>1. CimxmlConnect(Url(info), login, cert)
        BY <2>2 DEF ClientConnect
      <3>2. Set(info, Url(info)) = info
        BY <1>1, <1>4, <2>2, SetBack DEF UrlInv
      <3>3. QED
        BY <2>2, <3>1, <3>2, ConnectEnds
    <2>3. CASE ~locally /\ ~info.valid /\ UNCHANGED info /\ Fails("url invalid")
      BY <2>3 DEF Fails
    <2>4. QED
      BY <2>1, <2>2, <2>3 DEF OpenTemporary, Opening
  <1>7. CASE info' = info /\ link' = link
    <2>1. UrlInv' /\ MadeInv'
      BY <1>3, <1>4, <1>7 DEF UrlInv, MadeInv
    <2>2. QED
      BY <1>2, <1>7, <2>1
  <1>8. CASE /\ locally \/ (info.valid /\ info.local)
             /\ info' = Set(info, LocalUrl) /\ link' = LocalLink
    <2>1. wasLocal
      BY <1>4, <1>8 DEF UrlInv
    <2>2. UrlInv'
      BY <1>3, <1>4, <1>5, <1>8, <2>1 DEF UrlInv
    <2>3. made.up => made.host = Fqdn /\ made.login = NoLogin
      BY <1>4, <1>8 DEF MadeInv
    <2>4. MadeInv'
      BY <1>3, <1>5, <1>8, <2>3 DEF MadeInv
    <2>5. QED
      BY <1>5, <1>8, <2>1, <2>2, <2>3, <2>4, LocalLinkMeans
  <1>9. CASE /\ ~locally /\ info.valid /\ ~info.local
             /\ info' = info
             /\ link'.host = info.host
             /\ link'.login = IF info.loginValid THEN info.login ELSE login
    <2>1. UrlInv' /\ MadeInv'
      BY <1>3, <1>4, <1>9 DEF UrlInv, MadeInv
    <2>2. made.up => link'.host = made.host /\ link'.login = made.login
      BY <1>4, <1>9 DEF MadeInv
    <2>3. QED
      BY <1>9, <2>1, <2>2
  <1>10. QED
    BY <1>6, <1>7, <1>8, <1>9

\* What is left alone by the other methods.
LEMMA OthersLink ==
    ASSUME LinkInv,
           \/ \E user \in Optional(Users), password \in Optional(Passwords) :
                 ConnectNowhere(user, password)
           \/ Disconnect \/ Configure \/ Destroy
           \/ BeginTransaction \/ Work \/ EndTransaction
           \/ UNCHANGED vars
    PROVE  LinkInv' /\ (client = "cimxml" /\ ~link.up => ~link'.up)
  <1>1. Down.up = FALSE
    BY DEF Down
  <1>2. ASSUME NEW user \in Optional(Users), NEW password \in Optional(Passwords),
               ConnectNowhere(user, password)
        PROVE  LinkInv' /\ link' = link
    BY <1>1, <1>2 DEF ConnectNowhere, LinkInv, UrlInv, MadeInv
  <1>3. CASE Disconnect \/ Destroy
    <2>1. link' = Down
      BY <1>3 DEF Disconnect, Destroy, ClientDisconnect
    <2>2. LinkInv'
      BY <1>3 DEF Disconnect, Destroy, settings, history, LinkInv, UrlInv, MadeInv
    <2>3. QED
      BY <1>1, <2>1, <2>2
  <1>4. ASSUME NEW flag \in BOOLEAN, SetConnectLocally(flag) PROVE LinkInv' /\ link' = link
    BY <1>1, <1>4 DEF SetConnectLocally, LinkInv, UrlInv, MadeInv
  <1>5. ASSUME NEW user \in Users, NEW password \in Passwords, SetCredentials(user, password)
        PROVE  LinkInv' /\ link' = link
    BY <1>1, <1>5 DEF SetCredentials, LinkInv, UrlInv, MadeInv
  <1>6. ASSUME NEW m \in Timeouts, SetTimeout(m) PROVE LinkInv' /\ link' = link
    BY <1>6 DEF SetTimeout, history, LinkInv, UrlInv, MadeInv
  <1>7. CASE BeginTransaction \/ Work
    BY <1>7 DEF BeginTransaction, Work, settings, history, LinkInv, UrlInv, MadeInv
  <1>8. CASE EndTransaction
    <2>1. link' \in {link, Down}
      BY <1>8 DEF EndTransaction, ClientDisconnect
    <2>2. LinkInv'
      BY <1>8 DEF EndTransaction, settings, history, LinkInv, UrlInv, MadeInv
    <2>3. QED
      BY <1>1, <2>1, <2>2
  <1>9. CASE UNCHANGED vars
    BY <1>9 DEF vars, settings, history, LinkInv, UrlInv, MadeInv
  <1>10. QED
    BY <1>2, <1>3, <1>4, <1>5, <1>6, <1>7, <1>8, <1>9 DEF Configure

\* The invariant is inductive.
LEMMA LinkPreserved == ASSUME ConnectionInv, LinkInv, [Next]_vars PROVE LinkInv'
  <1>1. CASE OpenTemporary
    BY <1>1, OpeningLink DEF LinkInv, OpenTemporary, settings
  <1>2. CASE ConnectLocally
    BY <1>2, ConnectLocallyLink
  <1>3. ASSUME NEW url \in Optional(Given), NEW user \in Optional(Users),
               NEW password \in Optional(Passwords), NEW file \in Optional(Certs),
               Connect(url, user, password, file)
        PROVE  LinkInv'
    BY <1>3, ConnectLink
  <1>4. QED
    BY <1>1, <1>2, <1>3, OthersLink DEF Next, Operation

\* Both invariants hold throughout.
LEMMA LinkInvariance == Spec => [](ConnectionInv /\ LinkInv)
  <1>1. Init => ConnectionInv /\ LinkInv
    BY InitInv, InitLink
  <1>2. ConnectionInv /\ LinkInv /\ [Next]_vars => (ConnectionInv /\ LinkInv)'
    BY StepPreserves, LinkPreserved
  <1>3. QED
    BY <1>1, <1>2, PTL DEF Spec

-----------------------------------------------------------------------------
(* Where links go: the theorems                                            *)

\* Of CIM-XML connections only: as long as nothing was ever local, a new link goes
\* to the host of the last URL given, with the login of that URL if it has one.  A
\* link that is not made for a local URL has a login of some URL or the one set, and
\* none that was replaced; which of these, when the last URL has none, is left open
\* (obj/lmiwbem_connection.cpp:96-113, 426-470, lmiwbem_client_cimxml.cpp:49-86).
THEOREM LinksFollow == Spec => NewLinkFollows
  <1> DEFINE Follows ==
        client = "cimxml" /\ ~link.up /\ link'.up =>
          /\ ~wasLocal' => \E u \in named' :
                link'.host = u.host /\ (u.login \in Logins => link'.login = u.login)
          /\ ~info'.local => link'.login \in logins' \cup {login'}
  <1>1. ASSUME ConnectionInv, LinkInv, [Next]_vars PROVE Follows
    <2> SUFFICES ASSUME client = "cimxml", ~link.up, link'.up
                 PROVE  /\ ~wasLocal' => \E u \in named' :
                              link'.host = u.host /\ (u.login \in Logins => link'.login = u.login)
                        /\ ~info'.local => link'.login \in logins' \cup {login'}
      OBVIOUS
    <2>1. CASE OpenTemporary
      <3>1. /\ UrlInv'
            /\ \/ info'.local /\ wasLocal
               \/ /\ info'.valid /\ ~info'.local
                  /\ link'.host = info'.host
                  /\ link'.login = IF info'.loginValid THEN info'.login ELSE login
        BY <1>1, <2>1, OpeningLink
      <3>2. wasLocal' = wasLocal /\ login' = login
        BY <2>1 DEF OpenTemporary, settings, history
      <3>3. QED
        BY <3>1, <3>2 DEF UrlInv
    <2>2. CASE ConnectLocally
      <3>1. wasLocal' = TRUE
        BY <2>2 DEF ConnectLocally
      <3>2. info' = Set(info, LocalUrl) \/ link' = link
        BY <2>2 DEF ConnectLocally, ClientConnectLocally, CimxmlConnectLocally, Fails
      <3>3. info \in Infos
        BY <1>1 DEF ConnectionInv, TypeOK
      <3>4. QED
        BY <3>1, <3>2, <3>3, SetLocalUrl
    <2>3. ASSUME NEW url \in Optional(Given), NEW user \in Optional(Users),
                 NEW password \in Optional(Passwords), NEW file \in Optional(Certs),
                 Connect(url, user, password, file)
          PROVE  /\ ~wasLocal' => \E u \in named' :
                       link'.host = u.host /\ (u.login \in Logins => link'.login = u.login)
                 /\ ~info'.local => link'.login \in logins' \cup {login'}
      <3> DEFINE u == Or(url, Url(info))
                 i == Set(info, u)
      <3>1. CimxmlConnect(u, login', Or(file, cert))
        BY <2>3 DEF Connect, ClientConnect
      <3>2. i \in Infos
        BY <1>1, OrType, UrlType, SetType, ConnectionAssumption DEF ConnectionInv, TypeOK
      <3>3. Tells(i, FALSE, wasLocal', named', logins')
        BY <1>1, <2>3, ConnectTells
      <3>4. \/ link' = link
            \/ i.local /\ info' = Set(i, LocalUrl)
            \/ /\ i.valid /\ ~i.local
               /\ link'.host = i.host
               /\ link'.login = IF i.loginValid THEN i.login ELSE login'
        BY <3>1, ConnectEnds
      <3> HIDE DEF u, i
      <3>5. CASE i.local /\ info' = Set(i, LocalUrl)
        BY <3>2, <3>3, <3>5, SetLocalUrl DEF Tells
      <3>6. CASE /\ i.valid /\ ~i.local
                 /\ link'.host = i.host
                 /\ link'.login = IF i.loginValid THEN i.login ELSE login'
        BY <3>3, <3>6 DEF Tells
      <3>7. QED
        BY <3>4, <3>5, <3>6
    <2>4. QED
      BY <1>1, <2>1, <2>2, <2>3, OthersLink DEF Next, Operation
  <1>2. QED
    BY <1>1, LinkInvariance, PTL DEF Spec, NewLinkFollows

\* A temporary CIM-XML link goes where the last connect() went, with the same login
\* (obj/lmiwbem_connection.cpp:98-113, 430-459).
THEOREM TemporaryLinks == Spec => TemporaryLikeLast
  <1> DEFINE Like ==
        client = "cimxml" /\ pc = "opening" /\ link'.up /\ made.up =>
          link'.host = made.host /\ link'.login = made.login
  <1>1. ASSUME ConnectionInv, LinkInv, [Next]_vars PROVE Like
    <2> SUFFICES ASSUME client = "cimxml", pc = "opening", link'.up, made.up
                 PROVE  link'.host = made.host /\ link'.login = made.login
      OBVIOUS
    <2>1. ~link.up
      BY <1>1 DEF ConnectionInv, StepInv, FlagTells
    <2>2. OpenTemporary
      BY <1>1, <2>1 DEF Next, Operation, Configure, Connect, ConnectNowhere, ConnectLocally,
         Disconnect, SetConnectLocally, SetCredentials, SetTimeout, BeginTransaction, Work,
         EndTransaction, Destroy, Idle, vars
    <2>3. QED
      BY <1>1, <2>2, OpeningLink
  <1>2. QED
    BY <1>1, LinkInvariance, PTL DEF Spec, TemporaryLikeLast

=============================================================================
