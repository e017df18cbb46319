----------------------------- MODULE URLObject -----------------------------
(***************************************************************************)
(* The life of the one URLInfo object a CIMClient keeps                    *)
(* (src/src/lmiwbem_client.h:303): it is assigned once by the constructor  *)
(* of WBEMConnection, then set() again by every connect(), by every        *)
(* connectLocally() and by every temporary connection, the last with the   *)
(* object's own url().                                                     *)
(***************************************************************************)
EXTENDS URLInfo

CONSTANT Given  \* the URLs programs pass

ASSUME GivenAssumption == Given \subseteq Urls

VARIABLES
    info,    \* m_url_info
    last     \* the last URL given (history)

vars == <<info, last>>

Init ==
    \E u \in Given :
        /\ New(u).valid
        /\ info = New(u)
        /\ last = u

\* connect(url)
Override(u) ==
    /\ info' = Set(info, u)
    /\ last' = u

\* connect() without a URL, and a temporary connection.
Reparse ==
    /\ info' = Set(info, Url(info))
    /\ UNCHANGED last

Next == (\E u \in Given \cup {LocalUrl} : Override(u)) \/ Reparse

Spec == Init /\ [][Next]_vars

-----------------------------------------------------------------------------
(* Properties                                                              *)

\* The object has its type, and so has the history.
TypeOK ==
    /\ info \in Infos
    /\ last \in Urls

\* A temporary connection may parse url() in place of the URL it came from:
\* though url() has lost the login and the word for this machine, the object
\* says the same before and after (ScopedConnection::connect,
\* obj/lmiwbem_connection.cpp:105-113, with lmiwbem_urlinfo.cpp:130-229).
RoundTrip == info.valid => Set(info, Url(info)) = info

\* An object that was made invalid stays so until a good URL is given: its own
\* url() is refused as well (lmiwbem_urlinfo.cpp:183-191, 214, 326-330).
InvalidStays == ~info.valid => ~Set(info, Url(info)).valid

\* A valid object stands for the host, the scheme and the port of the URL given
\* last, whatever was given before it (lmiwbem_urlinfo.cpp:145-214).  This does not
\* say that the object is local for a local URL only: it stays local for ever, see
\* ConnectReachesUrl in Connection.
StandsForLast ==
    info.valid =>
        IF last.scheme = "local"
          THEN info.local /\ info.host = Fqdn
          ELSE /\ info.host = last.host
               /\ info.https = (last.scheme = "https")
               /\ last.port >= 0 => info.port = last.port

\* What validity is made of (lmiwbem_urlinfo.cpp:145, 185-192, 207-214).
ValidMeans == info.valid <=> info.port # PortNotSet /\ info.host # NoHost

\* The inductive invariant.
URLInv == TypeOK /\ ValidMeans /\ RoundTrip /\ InvalidStays /\ StandsForLast

=============================================================================
