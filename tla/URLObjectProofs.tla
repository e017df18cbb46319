-------------------------- MODULE URLObjectProofs --------------------------
(***************************************************************************)
(* Theorems about URLInfo and URLObject, for every set of URLs.  Validity  *)
(* is the key: once it is known to mean "has a host and a port", what a    *)
(* parse of url() returns can be computed.                                 *)
(***************************************************************************)
EXTENDS URLObject, URLInfoProofs

\* The invariant holds at first.
LEMMA InitURL == Init => URLInv
  <1> SUFFICES ASSUME NEW u \in Given, New(u).valid, info = New(u), last = u
               PROVE  URLInv
    BY DEF Init
  <1>1. u \in Urls
    BY GivenAssumption
  <1>2. info = Set(Fresh, u)
    BY DEF New
  <1>3. TypeOK
    BY <1>1, <1>2, FreshType, SetType DEF TypeOK, Urls
  <1>4. ValidMeans /\ StandsForLast
    BY <1>1, <1>2, FreshType, SetMeans DEF ValidMeans, StandsForLast
  <1>5. RoundTrip /\ InvalidStays
    BY <1>3, <1>4, SetBack DEF TypeOK, ValidMeans, RoundTrip, InvalidStays
  <1>6. QED
    BY <1>3, <1>4, <1>5 DEF URLInv

\* Every parse preserves it.
LEMMA StepURL == ASSUME URLInv, [Next]_vars PROVE URLInv'
  <1> USE DEF URLInv
  <1>1. info \in Infos /\ last \in Urls /\ ValidMeans
    BY DEF TypeOK
  <1>2. ASSUME NEW u \in Given \cup {LocalUrl}, Override(u) PROVE URLInv'
    <2>1. LocalUrl \in Urls
      BY LocalUrlType
    <2>2. u \in Urls
      BY <2>1, GivenAssumption
    <2>3. info' = Set(info, u) /\ last' = u
      BY <1>2 DEF Override
    <2>4. TypeOK'
      BY <1>1, <2>2, <2>3, SetType DEF TypeOK, Urls
    <2>5. ValidMeans' /\ StandsForLast'
      BY <1>1, <2>2, <2>3, SetMeans DEF ValidMeans, StandsForLast
    <2>6. RoundTrip' /\ InvalidStays'
      BY <2>4, <2>5, SetBack DEF TypeOK, ValidMeans, RoundTrip, InvalidStays
    <2>7. QED
      BY <2>4, <2>5, <2>6
  <1>3. CASE Reparse
    <2>1. Url(info) \in Urls
      BY <1>1, UrlType
    <2>2. info' = Set(info, Url(info)) /\ last' = last
      BY <1>3 DEF Reparse
    <2>3. TypeOK'
      BY <1>1, <2>1, <2>2, SetType DEF TypeOK
    <2>4. ValidMeans'
      BY <1>1, <2>1, <2>2, SetMeans DEF ValidMeans
    <2>5. (info.valid => info' = info) /\ (~info.valid => ~info'.valid)
      BY <2>2 DEF RoundTrip, InvalidStays
    <2>6. StandsForLast'
      BY <2>2, <2>5 DEF StandsForLast
    <2>7. RoundTrip' /\ InvalidStays'
      BY <2>3, <2>4, SetBack DEF TypeOK, ValidMeans, RoundTrip, InvalidStays
    <2>8. QED
      BY <2>3, <2>4, <2>6, <2>7
  <1>4. CASE UNCHANGED vars
    BY <1>4 DEF vars, TypeOK, ValidMeans, RoundTrip, InvalidStays, StandsForLast
  <1>5. QED
    BY <1>2, <1>3, <1>4 DEF Next

\* The invariant holds throughout.
LEMMA URLInvariance == Spec => []URLInv
  BY InitURL, StepURL, PTL DEF Spec

\* Every variable has its type.
THEOREM URLTypeCorrect == Spec => []TypeOK
  <1>1. URLInv => TypeOK
    BY DEF URLInv
  <1>2. QED
    BY <1>1, URLInvariance, PTL

\* A temporary connection may parse the object's own url(): what is valid comes
\* back as it was.
THEOREM OwnUrlComesBack == Spec => []RoundTrip
  <1>1. URLInv => RoundTrip
    BY DEF URLInv
  <1>2. QED
    BY <1>1, URLInvariance, PTL

\* What is not valid stays refused.
THEOREM InvalidStaysInvalid == Spec => []InvalidStays
  <1>1. URLInv => InvalidStays
    BY DEF URLInv
  <1>2. QED
    BY <1>1, URLInvariance, PTL

\* Whatever was parsed before, a valid object has the host, the scheme and the
\* port of the last URL.
THEOREM LastUrlCounts == Spec => []StandsForLast
  <1>1. URLInv => StandsForLast
    BY DEF URLInv
  <1>2. QED
    BY <1>1, URLInvariance, PTL

=============================================================================
