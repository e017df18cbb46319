--------------------------- MODULE URLInfoProofs ---------------------------
(***************************************************************************)
(* Lemmas about parsing (URLInfo), for the proofs about the modules that   *)
(* keep a URLInfo object.                                                  *)
(***************************************************************************)
EXTENDS URLInfo, TLAPS

-----------------------------------------------------------------------------
\* The marks for "no port" and "a bad port" are no ports.
LEMMA PortNumbers == NoPort \notin Ports /\ BadPort \notin Ports
  <1>1. Ports \subseteq Nat
    BY DEF Ports
  <1>2. NoPort \notin Nat /\ BadPort \notin Nat
    BY DEF NoPort, BadPort
  <1>3. QED
    BY <1>1, <1>2

\* The members a parse of url() touches get their old values back.
LEMMA FieldsBack ==
  ASSUME NEW i \in Infos, NEW j, i.valid,
         j = [i EXCEPT !.host = i.host, !.https = i.https, !.port = PortNotSet,
                       !.login = i.login, !.loginValid = i.loginValid]
  PROVE  [j EXCEPT !.path = i.path, !.port = i.port, !.valid = TRUE] = i
    BY DEF Infos

\* A URL that repeats what a valid object holds, without a login, changes
\* nothing.
LEMMA SetSame ==
  ASSUME NEW i \in Infos, NEW u \in Urls, i.valid, i.port # PortNotSet, i.host # NoHost,
         u.scheme = (IF i.https THEN "https" ELSE "http"),
         u.login = NoLogin, u.host = i.host, u.port = i.port, u.path = i.path
  PROVE Set(i, u) = i
  <1>1. u.port \in Ports
    BY DEF Infos
  <1>2. u.port # NoPort /\ u.port # BadPort
    BY <1>1, PortNumbers
  <1>3. SetPort(i, u) = i.port
    BY <1>2 DEF SetPort
  <1>4. u.scheme # "local" /\ u.scheme # "other" /\ u.scheme \in {"http", "https"}
    OBVIOUS
  <1>5. Set(i, u) = SetRemote(i, u)
    BY <1>2, <1>4 DEF Set
  <1>6. (u.scheme = "https") = i.https /\ (u.host # NoHost) = i.valid
    BY DEF Infos
  <1>7. SetPath(i, u) = i.path
    BY <1>2 DEF SetPath
  <1>8. u.login \notin Logins
    BY URLAssumption
  <1>9. SetAuthority(i, u) =
          [i EXCEPT !.host = i.host, !.https = i.https, !.port = PortNotSet,
                    !.login = i.login, !.loginValid = i.loginValid]
    BY <1>6, <1>8 DEF SetAuthority
  <1>10. SetRemote(i, u) =
          [SetAuthority(i, u) EXCEPT !.path = i.path, !.port = i.port, !.valid = TRUE]
    <2>1. (u.host # NoHost) = TRUE
      OBVIOUS
    <2>2. SetRemote(i, u) =
            [SetAuthority(i, u) EXCEPT !.path = SetPath(i, u), !.port = SetPort(i, u),
                                       !.valid = (u.host # NoHost)]
      BY DEF SetRemote
    <2>3. QED
      BY <1>3, <1>7, <2>1, <2>2
  <1>11. SetRemote(i, u) = i
    BY <1>9, <1>10, FieldsBack
  <1>12. QED
    BY <1>5, <1>11

\* A parse returns an object.
LEMMA SetType ==
  ASSUME NEW i \in Infos, NEW u \in Urls
  PROVE  Set(i, u) \in Infos
  <1>1. SetAuthority(i, u) \in Infos
    <2>1. u.host \in Names /\ PortNotSet \in Ports \cup {PortNotSet}
      BY DEF Urls
    <2>2. (IF u.login \in Logins THEN u.login ELSE i.login) \in Logins \cup {NoLogin}
      BY DEF Infos
    <2>3. (IF u.login = NoLogin THEN i.loginValid ELSE u.login # Malformed) \in BOOLEAN
      BY DEF Infos
    <2>4. (u.scheme = "https") \in BOOLEAN
      OBVIOUS
    <2>5. QED
      BY ZenonT(60), <2>1, <2>2, <2>3, <2>4 DEF SetAuthority, Infos
  <1>2. CASE u.scheme = "local"
    <2>1. Fqdn \in Names /\ 0 \in Ports \cup {PortNotSet}
      BY DEF Names, Ports
    <2>2. Set(i, u) = SetLocal(i)
      BY <1>2 DEF Set
    <2>3. QED
      BY <2>1, <2>2 DEF SetLocal, Infos
  <1>3. CASE u.scheme = "other"
    BY <1>3 DEF Set, Infos
  <1>4. CASE u.scheme \in {"http", "https"} /\ u.port = BadPort
    <2>1. Set(i, u) = [SetAuthority(i, u) EXCEPT !.valid = FALSE]
      BY <1>4 DEF Set
    <2>2. QED
      BY <1>1, <2>1 DEF Infos
  <1>5. CASE u.scheme \in {"http", "https"} /\ u.port # BadPort
    <2>1. Set(i, u) = SetRemote(i, u)
      BY <1>5 DEF Set
    <2>2. SetPath(i, u) \in Paths
      BY DEF SetPath, Infos, Urls
    <2>3. \A h \in BOOLEAN, p \in Paths : DefaultPort(h, p) \in Ports
      BY DEF DefaultPort, Ports
    <2>4. SetPort(i, u) \in Ports \cup {PortNotSet}
      BY <1>5, <2>2, <2>3 DEF SetPort, Urls
    <2>5. (u.host # NoHost) \in BOOLEAN
      OBVIOUS
    <2>6. QED
      BY <1>1, <2>1, <2>2, <2>4, <2>5 DEF SetRemote, Infos
  <1>6. QED
    BY <1>2, <1>3, <1>4, <1>5 DEF Urls

\* What url() returns is a URL.
LEMMA UrlType ==
  ASSUME NEW i \in Infos
  PROVE  Url(i) \in Urls
  <1>1. NoLogin \in Logins \cup {NoLogin, Malformed}
    OBVIOUS
  <1>2. (IF i.port = PortNotSet THEN BadPort ELSE i.port) \in Ports \cup {NoPort, BadPort}
    BY DEF Infos
  <1>3. (IF i.https THEN "https" ELSE "http") \in {"local", "http", "https", "other"}
    OBVIOUS
  <1>4. i.host \in Names /\ i.path \in Paths
    BY DEF Infos
  <1>5. QED
    BY <1>1, <1>2, <1>3, <1>4 DEF Url, Urls

\* What a parse returns is valid exactly when it has a port and a host, and it
\* stands for the URL that was parsed.
LEMMA SetMeans ==
  ASSUME NEW i \in Infos, NEW u \in Urls
  PROVE  LET s == Set(i, u)
         IN  /\ s.valid <=> s.port # PortNotSet /\ s.host # NoHost
             /\ u.scheme = "local" => s.local /\ s.host = Fqdn
             /\ s.valid /\ u.scheme # "local" =>
                   /\ s.host = u.host
                   /\ s.https = (u.scheme = "https")
                   /\ u.port >= 0 => s.port = u.port
             /\ s.local => i.local \/ u.scheme = "local"
  <1> DEFINE s == Set(i, u)
  <1>1. PortNotSet \notin Ports
    BY DEF PortNotSet, Ports
  <1>2. CASE u.scheme = "local"
    <2>1. s = SetLocal(i)
      BY <1>2 DEF Set
    <2>2. /\ s.valid /\ s.port = 0 /\ s.host = Fqdn /\ s.local
      BY <2>1 DEF SetLocal, Infos
    <2>3. 0 # PortNotSet
      BY DEF PortNotSet
    <2>4. QED
      BY <1>2, <2>2, <2>3, URLAssumption
  <1>3. CASE u.scheme = "other"
    <2>1. s = [i EXCEPT !.port = PortNotSet, !.valid = FALSE]
      BY <1>3 DEF Set
    <2>2. ~s.valid /\ s.port = PortNotSet /\ s.local = i.local
      BY <2>1 DEF Infos
    <2>3. QED
      BY <1>3, <2>2
  <1>4. CASE u.scheme \in {"http", "https"} /\ u.port = BadPort
    <2>1. s = [SetAuthority(i, u) EXCEPT !.valid = FALSE]
      BY <1>4 DEF Set
    <2>2. ~s.valid /\ s.port = PortNotSet /\ s.local = i.local
      BY <2>1 DEF SetAuthority, Infos
    <2>3. QED
      BY <1>4, <2>2
  <1>5. CASE u.scheme \in {"http", "https"} /\ u.port # BadPort
    <2>1. s = SetRemote(i, u)
      BY <1>5 DEF Set
    <2>2. /\ s.host = u.host /\ s.https = (u.scheme = "https") /\ s.port = SetPort(i, u)
          /\ s.valid = (u.host # NoHost) /\ s.local = i.local
      BY <2>1 DEF SetRemote, SetAuthority, Infos
    <2>3. \A h \in BOOLEAN, p \in Paths : DefaultPort(h, p) \in Ports
      BY DEF DefaultPort, Ports
    <2>4. SetPath(i, u) \in Paths
      BY DEF SetPath, Infos, Urls
    <2>5. SetPort(i, u) \in Ports
      BY <1>5, <2>3, <2>4 DEF SetPort, Urls
    <2>6. u.port >= 0 => SetPort(i, u) = u.port
      BY DEF SetPort, NoPort
    <2>7. SetPort(i, u) # PortNotSet
      BY <1>1, <2>5
    <2>8. s.valid <=> s.host # NoHost
      BY <2>2
    <2>9. QED
      BY <1>5, <2>2, <2>6, <2>7, <2>8
  <1>6. QED
    BY <1>2, <1>3, <1>4, <1>5 DEF Urls

\* An object may be parsed from its own url().
LEMMA SetBack ==
  ASSUME NEW i \in Infos, i.valid <=> i.port # PortNotSet /\ i.host # NoHost
  PROVE  /\ i.valid => Set(i, Url(i)) = i
         /\ ~i.valid => ~Set(i, Url(i)).valid
         /\ Set(i, Url(i)).local => i.local
  <1> DEFINE u == Url(i)
  <1>1. /\ u.scheme = (IF i.https THEN "https" ELSE "http")
        /\ u.login = NoLogin /\ u.host = i.host /\ u.path = i.path
        /\ u.port = IF i.port = PortNotSet THEN BadPort ELSE i.port
    BY DEF Url
  <1>2. u \in Urls
    BY UrlType
  <1>3. u.scheme # "local" /\ u.scheme \in {"http", "https"}
    BY <1>1
  <1> HIDE DEF u
  <1>4. ASSUME i.valid PROVE Set(i, u) = i
    BY <1>1, <1>2, <1>4, SetSame
  <1>5. ASSUME ~i.valid PROVE ~Set(i, u).valid
    <2>1. CASE u.port = BadPort
      <3>1. Set(i, u) = [SetAuthority(i, u) EXCEPT !.valid = FALSE]
        BY <1>3, <2>1 DEF Set
      <3>2. QED
        BY <3>1 DEF SetAuthority
    <2>2. CASE u.port # BadPort
      <3>1. i.host = NoHost
        BY <1>1, <1>5, <2>2
      <3>2. QED
        BY <1>1, <1>2, <1>3, <3>1, SetMeans
    <2>3. QED
      BY <2>1, <2>2
  <1>6. Set(i, u).local => i.local
    BY <1>2, <1>3, SetMeans
  <1>7. QED
    BY <1>4, <1>5, <1>6 DEF u

\* A URL may end with its host.
LEMMA NoPathIsPath == NoPath \in Paths
  BY DEF Paths

\* A fresh object is an object.
LEMMA FreshType == Fresh \in Infos
  <1>1. Unknown \in Names /\ PortNotSet \in Ports \cup {PortNotSet}
    BY DEF Names
  <1>2. QED
    BY <1>1, NoPathIsPath DEF Fresh, Infos

\* The local URL is a URL.
LEMMA LocalUrlType == LocalUrl \in Urls
  BY NoPathIsPath DEF LocalUrl, Urls, Names

\* A good login is the one that was there or the one that the URL brought, and an
\* accepted URL that brings one is heeded.
LEMMA SetLogin ==
    ASSUME NEW i \in Infos, NEW u \in Urls
    PROVE  LET s == Set(i, u)
           IN  /\ s.loginValid => \/ i.loginValid /\ s.login = i.login
                                  \/ s.login = u.login /\ u.login \in Logins
               /\ s.valid /\ u.scheme # "local" /\ u.login \in Logins =>
                     s.loginValid /\ s.login = u.login
  <1> DEFINE a == SetAuthority(i, u)
             s == Set(i, u)
  <1>1. u.login \in Logins \cup {NoLogin, Malformed}
    BY DEF Urls
  <1>2. /\ a.loginValid => \/ i.loginValid /\ a.login = i.login
                           \/ a.login = u.login /\ u.login \in Logins
        /\ u.login \in Logins => a.loginValid /\ a.login = u.login
    BY <1>1, URLAssumption DEF SetAuthority, Infos
  <1>3. CASE u.scheme = "local"
    BY <1>3 DEF Set, SetLocal, Infos
  <1>4. CASE u.scheme = "other"
    BY <1>4 DEF Set, Infos
  <1>5. CASE u.scheme \in {"http", "https"}
    <2>1. \/ s = [a EXCEPT !.valid = FALSE]
          \/ s = SetRemote(i, u)
      BY <1>5 DEF Set
    <2>2. s.loginValid = a.loginValid /\ s.login = a.login
      BY <2>1 DEF SetRemote, SetAuthority, Infos
    <2>3. QED
      BY <1>2, <2>2
  <1>6. QED
    BY <1>3, <1>4, <1>5 DEF Urls

\* The URL of connectLocally().
LEMMA SetLocalUrl ==
    ASSUME NEW i \in Infos
    PROVE  LET s == Set(i, LocalUrl)
           IN  /\ s.valid /\ s.local
               /\ s.port # PortNotSet /\ s.host = Fqdn /\ s.host # NoHost
               /\ s.loginValid = i.loginValid /\ s.login = i.login
  <1>1. Set(i, LocalUrl) = SetLocal(i)
    BY DEF Set, LocalUrl
  <1>2. 0 # PortNotSet
    BY DEF PortNotSet
  <1>3. QED
    BY <1>1, <1>2, URLAssumption DEF SetLocal, Infos

\* url() has no login and is not for this machine.
LEMMA UrlPlain == ASSUME NEW i PROVE Url(i).login \notin Logins /\ Url(i).scheme # "local"
  BY URLAssumption DEF Url

=============================================================================
