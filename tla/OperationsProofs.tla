-------------------------- MODULE OperationsProofs --------------------------
(***************************************************************************)
(* Theorems about Operations, for all namespaces, hosts and objects.       *)
(***************************************************************************)
EXTENDS Operations, TLAPS

-----------------------------------------------------------------------------
(* Paths                                                                   *)

\* A path is what it names.
LEMMA PathType ==
    ASSUME NEW n \in Namespaces \cup {NoName}, NEW h \in Hosts \cup {NoName}
    PROVE  /\ Path(n, h) \in Paths
           /\ Path(n, h).namespace = n /\ Path(n, h).host = h
           /\ Path(n, h) # None
  BY ClientOperationsAssumption DEF Path, Paths

\* A place is a path that leaves nothing out.
LEMMA PlaceType ==
    ASSUME NEW n \in Namespaces, NEW h \in Hosts
    PROVE  Path(n, h) \in Places /\ Path(n, h) \in Paths /\ Path(n, h) # None
  <1>1. Path(n, h) \in Places
    BY DEF Path, Places
  <1>2. QED
    BY <1>1, PathType

\* What a CIMOM left out of a path is filled in.
LEMMA Completed ==
    ASSUME NEW n \in Namespaces, NEW h \in Hosts, NEW p \in Partly(Path(n, h))
    PROVE  /\ NameOf(p, n, h) = Path(n, h)
           /\ InstanceOf(p, n, h) = Path(n, h)
  <1>1. PICK m \in {NoName, n}, g \in {NoName, h} : p = Path(m, g)
    BY PathType DEF Partly
  <1>2. p # None /\ p.namespace = m /\ p.host = g
    BY <1>1, PathType
  <1>3. NoName # n /\ NoName # h
    BY ClientOperationsAssumption
  <1>4. WithNamespace(p, n) = Path(n, g)
    BY <1>1, <1>2, <1>3 DEF WithNamespace, Path
  <1>5. Path(n, g).host = g /\ Path(n, g) # None
    BY <1>1, PathType
  <1>6. WithHostname(Path(n, g), h) = Path(n, h)
    BY <1>1, <1>3, <1>5 DEF WithHostname, Path
  <1>7. QED
    BY <1>2, <1>4, <1>5, <1>6 DEF NameOf, InstanceOf, InstanceInNamespace, InstanceOnHost

\* A path that is complete stays as it is, whatever it is completed with.
LEMMA CompleteStays ==
    ASSUME NEW n \in Namespaces, NEW h \in Hosts, NEW m, NEW g
    PROVE  /\ NameOf(Path(n, h), m, g) = Path(n, h)
           /\ InstanceOf(Path(n, h), m, g) = Path(n, h)
  <1>1. Path(n, h) # None /\ Path(n, h).namespace = n /\ Path(n, h).host = h
    BY PathType
  <1>2. NoName # n /\ NoName # h
    BY ClientOperationsAssumption
  <1>3. WithNamespace(Path(n, h), m) = Path(n, h) /\ WithHostname(Path(n, h), g) = Path(n, h)
    BY <1>1, <1>2 DEF WithNamespace, WithHostname
  <1>4. QED
    BY <1>1, <1>3 DEF NameOf, InstanceOf, InstanceInNamespace, InstanceOnHost

\* A path without a class name is None in the end.
LEMMA NoneStays == ASSUME NEW m, NEW g PROVE InstanceOf(None, m, g) = None
  BY DEF InstanceOf, InstanceInNamespace, InstanceOnHost

-----------------------------------------------------------------------------
(* Answers                                                                 *)

\* An answer that names its object in full.
Full(answer, h) == \E n \in Namespaces : answer = Answer(Path(n, h), Path(n, h))

\* One that names it in part, or not at all.
InPart(answer, n, h) == \E p \in Partly(Path(n, h)) : answer = Answer(p, Path(n, h))

Unnamed(answer, n, h) == answer = Answer(None, Path(n, h))

\* Every answer names its object in full, or names an object of the namespace asked
\* in part; only a query and what is pulled without paths may leave out the name.
LEMMA AnswersAre ==
    ASSUME NEW client \in Clients, NEW call, NEW n \in Namespaces, NEW h \in Hosts,
           NEW answer \in Answers(client, call, n, h)
    PROVE  \/ Full(answer, h)
           \/ /\ call \notin (CimxmlOpen \cup CimxmlPull) \ {"openQueryInstances", "pullInstances"}
              /\ InPart(answer, n, h)
           \/ /\ call \in {"openQueryInstances", "pullInstances", "execQuery"}
              /\ Unnamed(answer, n, h)
  <1>1. CASE client = "wsman"
    <2>1. answer \in {Answer(p, Path(n, h)) : p \in {Path(n, h)}}
      BY <1>1 DEF Answers, WsmanAnswers, WsmanAssociated, WsmanReferred, WsmanQueried,
                  WsmanEnumerated, WsmanListed, EprPath
    <2>2. QED
      BY <2>1 DEF Full
  <1>2. CASE client = "cimxml"
    <2> DEFINE spaces == IF call \in Elsewhere THEN Namespaces ELSE {n}
               inFull == {Answer(Path(m, h), Path(m, h)) : m \in spaces}
               partly == {Answer(p, Path(n, h)) : p \in Partly(Path(n, h))}
    <2>1. spaces \subseteq Namespaces
      OBVIOUS
    <2>2. answer \in IF call \in {"openQueryInstances", "pullInstances", "execQuery"}
                       THEN partly \cup {Answer(None, Path(n, h))}
                       ELSE IF call \in CimxmlOpen \cup CimxmlPull THEN inFull
                       ELSE inFull \cup partly
      BY <1>2 DEF Answers, CimxmlAnswers
    <2>3. answer \in inFull => Full(answer, h)
      BY <2>1 DEF Full
    <2>4. answer \in partly => InPart(answer, n, h)
      BY DEF InPart
    <2>5. "execQuery" \notin CimxmlOpen \cup CimxmlPull
      BY DEF CimxmlOpen, CimxmlPull
    <2> HIDE DEF spaces, inFull, partly
    <2>6. CASE call \in {"openQueryInstances", "pullInstances", "execQuery"}
      BY <2>2, <2>4, <2>5, <2>6 DEF Unnamed
    <2>7. CASE call \notin {"openQueryInstances", "pullInstances", "execQuery"}
      BY <2>2, <2>3, <2>4, <2>7
    <2>8. QED
      BY <2>6, <2>7
  <1>3. QED
    BY <1>1, <1>2 DEF Clients

-----------------------------------------------------------------------------
(* What comes into the program's hand                                      *)

Hands == [path : Paths \cup {None}, place : Places \cup {None}, by : Origins]

\* An object has a place, and the path of one that was listed is its place.
Good(h) ==
    /\ h.by # "typed" => h.place # None
    /\ h.by = "listed" => h.path = None \/ h.path = h.place

GoodHands == {h \in Hands : Good(h)}

\* Making up a hand.
LEMMA HandType ==
    ASSUME NEW p \in Paths \cup {None}, NEW q \in Places \cup {None}, NEW t \in Origins
    PROVE  /\ Hand(p, q, t) \in Hands
           /\ Hand(p, q, t).path = p /\ Hand(p, q, t).place = q /\ Hand(p, q, t).by = t
  BY DEF Hand, Hands

\* An object that was read with the path of its place, or without one.
LEMMA ReadGood ==
    ASSUME NEW n \in Namespaces, NEW h \in Hosts, NEW p \in {Path(n, h), None}
    PROVE  Read(p, Path(n, h)) \in GoodHands
  <1>1. p \in Paths \cup {None} /\ Path(n, h) \in Places /\ Path(n, h) # None
    BY PlaceType
  <1>2. /\ Hand(p, Path(n, h), "listed") \in Hands
        /\ Hand(p, Path(n, h), "listed").path = p
        /\ Hand(p, Path(n, h), "listed").place = Path(n, h)
    BY <1>1 DEF Hand, Hands, Origins
  <1>3. Good(Hand(p, Path(n, h), "listed"))
    BY <1>1, <1>2 DEF Good
  <1>4. QED
    BY <1>2, <1>3 DEF Read, GoodHands

\* A path of the program's own.
LEMMA TypedGood == ASSUME NEW p \in Paths \cup {None} PROVE Typed(p) \in GoodHands
  <1>1. /\ Hand(p, None, "typed") \in Hands
        /\ Hand(p, None, "typed").by = "typed"
    BY HandType DEF Origins
  <1>2. QED
    BY <1>1 DEF Typed, GoodHands, Good

\* The parts of an answer.
LEMMA AnswerParts ==
    ASSUME NEW p, NEW q PROVE Answer(p, q).path = p /\ Answer(p, q).place = q
  BY DEF Answer

\* Instances and names that are completed where they were asked for are good.
LEMMA CompletedGood ==
    ASSUME NEW client \in Clients, NEW call, NEW n \in Namespaces, NEW h \in Hosts,
           NEW answer \in Answers(client, call, n, h)
    PROVE  /\ Read(InstanceOf(answer.path, n, h), answer.place) \in GoodHands
           /\ Read(NameOf(answer.path, n, h), answer.place) \in GoodHands
  <1>1. CASE Full(answer, h)
    <2>1. PICK m \in Namespaces : answer = Answer(Path(m, h), Path(m, h))
      BY <1>1 DEF Full
    <2>2. QED
      BY <2>1, AnswerParts, CompleteStays, ReadGood
  <1>2. CASE InPart(answer, n, h)
    <2>1. PICK p \in Partly(Path(n, h)) : answer = Answer(p, Path(n, h))
      BY <1>2 DEF InPart
    <2>2. QED
      BY <2>1, AnswerParts, Completed, ReadGood
  <1>3. CASE Unnamed(answer, n, h)
    <2>1. NameOf(None, n, h) = None
      BY DEF NameOf
    <2>2. QED
      BY <1>3, <2>1, AnswerParts, NoneStays, ReadGood DEF Unnamed
  <1>4. QED
    BY <1>1, <1>2, <1>3, AnswersAre, Zenon

\* Objects that are named in full are good as they are, and whatever they are
\* completed with.
LEMMA NamedGood ==
    ASSUME NEW client \in Clients, NEW n \in Namespaces, NEW h \in Hosts, NEW m,
           NEW call \in (CimxmlOpen \cup CimxmlPull) \ {"openQueryInstances", "pullInstances"},
           NEW answer \in Answers(client, call, n, h)
    PROVE  /\ Read(answer.path, answer.place) \in GoodHands
           /\ Read(InstanceOf(answer.path, m, h), answer.place) \in GoodHands
  <1>1. Full(answer, h)
    <2>1. "execQuery" \notin CimxmlOpen \cup CimxmlPull
      BY DEF CimxmlOpen, CimxmlPull
    <2>2. call \notin {"openQueryInstances", "pullInstances", "execQuery"}
      BY <2>1
    <2>3. QED
      BY <2>2, AnswersAre, Zenon
  <1>2. PICK k \in Namespaces : answer = Answer(Path(k, h), Path(k, h))
    BY <1>1 DEF Full
  <1>3. QED
    BY <1>2, AnswerParts, CompleteStays, ReadGood

\* An object whose path may be another one than that of its place.
LEMMA HandGood ==
    ASSUME NEW p \in Paths \cup {None}, NEW q \in Places
    PROVE  Hand(p, q, "loose") \in GoodHands
  <1>1. None \notin Places
    BY ClientOperationsAssumption DEF Places, Paths
  <1>2. /\ Hand(p, q, "loose") \in Hands
        /\ Hand(p, q, "loose").place = q
        /\ Hand(p, q, "loose").by = "loose"
    BY HandType DEF Origins
  <1>3. QED
    BY <1>1, <1>2 DEF GoodHands, Good

\* What a method returns.
LEMMA ReturnedGood ==
    ASSUME NEW client \in Clients, NEW call, NEW n \in Namespaces, NEW h \in Hosts,
           NEW answer \in Answers(client, call, n, h)
    PROVE  Hand(answer.path, answer.place, "loose") \in GoodHands
  <1>1. answer.path \in Paths \cup {None} /\ answer.place \in Places
    <2>1. CASE Full(answer, h)
      BY <2>1, PlaceType, AnswerParts DEF Full
    <2>2. CASE InPart(answer, n, h)
      <3>1. PICK p \in Partly(Path(n, h)) : answer = Answer(p, Path(n, h))
        BY <2>2 DEF InPart
      <3>2. p \in Paths
        BY PathType DEF Partly
      <3>3. QED
        BY <3>1, <3>2, PlaceType, AnswerParts
    <2>3. CASE Unnamed(answer, n, h)
      BY <2>3, PlaceType, AnswerParts DEF Unnamed
    <2>4. QED
      BY <2>1, <2>2, <2>3, AnswersAre, Zenon
  <1>2. QED
    BY <1>1, HandGood

-----------------------------------------------------------------------------
(* The invariant                                                           *)

\* The context remembers whether its objects come with paths, and a query's
\* namespace, for as long as the CIMOM has something left.
ContextInv ==
    /\ context # None => (context.withPaths <=> context.kind # "query")
    /\ context # None /\ enumeration # None =>
        /\ enumeration.kind = context.kind
        /\ context.kind = "query" => context.namespace = enumeration.namespace

\* An enumeration that is open has something left, and one that has something
\* left is open or broken, and has a context.
StageInv ==
    /\ enumeration = None => stage # "open"
    /\ enumeration # None => stage \in {"open", "broken"} /\ context # None

IInv == TypeOK /\ hand \in GoodHands /\ AsksWhereMeant /\ PullFits /\ ContextInv /\ StageInv

-----------------------------------------------------------------------------
(* Namespaces                                                              *)

\* An argument that is given is one namespace.
LEMMA OrIs ==
    ASSUME NEW argument \in Optional(Namespaces), NEW default
    PROVE  \/ argument = {} /\ Or(argument, default) = default
           \/ /\ argument # {} /\ Or(argument, default) \in Namespaces
              /\ Or(argument, default) = Or(argument, None)
  <1>1. CASE argument = {}
    BY <1>1 DEF Or
  <1>2. CASE argument # {}
    <2>1. PICK n \in Namespaces : argument = {n}
      BY <1>2 DEF Optional
    <2>2. Or(argument, default) = n /\ Or(argument, None) = n
      BY <2>1 DEF Or
    <2>3. QED
      BY <1>2, <2>2
  <1>3. QED
    BY <1>1, <1>2

\* Where a request may go.
Lands(call, space, meant) ==
    /\ space \in Namespaces \cup {NoName}
    /\ meant.namespace \in Namespaces
    /\ Topic(call, meant) = "plain" => space \in {meant.namespace, NoName}

\* The parts of what is meant.
LEMMA MeaningParts ==
    ASSUME NEW n, NEW by PROVE Meaning(n, by).namespace = n /\ Meaning(n, by).by = by
  BY DEF Meaning

\* What is meant about a result of GetInstance or InvokeMethod is left open.
LEMMA LooseLands ==
    ASSUME NEW call, NEW meant, meant.by = "loose", meant.namespace \in Namespaces,
           NEW space \in Namespaces \cup {NoName}
    PROVE  Lands(call, space, meant)
  BY DEF Lands, Topic

\* The namespace of the path in hand, or the default one, is what is meant, unless
\* the path is loose.
LEMMA OwnSpaceIs ==
    ASSUME TypeOK, hand \in GoodHands, hand.path # None
    PROVE  /\ OwnSpace \in Namespaces /\ Meant({}).namespace \in Namespaces
           /\ Meant({}).by = "loose" \/ Meant({}).namespace = OwnSpace
           /\ hand.path.namespace \in {OwnSpace, NoName}
  <1>1. hand.path \in Paths /\ defaultSpace \in Namespaces
    BY DEF TypeOK
  <1>2. hand.path.namespace \in Namespaces \cup {NoName}
    BY <1>1 DEF Paths
  <1>3. OwnSpace \in Namespaces /\ hand.path.namespace \in {OwnSpace, NoName}
    BY <1>1, <1>2 DEF OwnSpace
  <1>4. CASE hand.by # "typed"
    <2>1. Meant({}) = Meaning(hand.place.namespace, hand.by)
      BY <1>4 DEF Meant
    <2>2. hand.place \in Places
      BY <1>4 DEF GoodHands, Good, TypeOK
    <2>3. hand.place.namespace \in Namespaces
      BY <2>2 DEF Places
    <2>4. CASE hand.by = "listed"
      <3>1. hand.place = hand.path
        BY <2>4 DEF GoodHands, Good
      <3>2. OwnSpace = hand.place.namespace
        BY <2>3, <3>1, ClientOperationsAssumption DEF OwnSpace
      <3>3. QED
        BY <1>3, <2>1, <2>3, <3>2, MeaningParts
    <2>5. CASE hand.by = "loose"
      BY <1>3, <2>1, <2>3, <2>5, MeaningParts
    <2>6. hand.by \in {"listed", "loose"}
      BY <1>4 DEF TypeOK, Origins
    <2>7. QED
      BY <2>4, <2>5, <2>6
  <1>5. CASE hand.by = "typed"
    <2>1. Meant({}) = IF hand.path.namespace # NoName
                        THEN Meaning(hand.path.namespace, "typed")
                        ELSE Meaning(defaultSpace, "default")
      BY <1>5 DEF Meant, MeantGiven, Default
    <2>2. Meant({}).namespace = OwnSpace
      BY <2>1, MeaningParts DEF OwnSpace
    <2>3. QED
      BY <1>3, <2>2
  <1>6. QED
    BY <1>4, <1>5

\* A request goes to the namespace of the path, or to none.
LEMMA OwnLands ==
    ASSUME TypeOK, hand \in GoodHands, hand.path # None, NEW call,
           NEW space \in {OwnSpace, NoName}
    PROVE  Lands(call, space, Meant({}))
  <1>1. CASE Meant({}).by = "loose"
    BY <1>1, OwnSpaceIs, LooseLands
  <1>2. CASE Meant({}).namespace = OwnSpace
    BY <1>2, OwnSpaceIs DEF Lands
  <1>3. QED
    BY <1>1, <1>2, OwnSpaceIs

\* An argument that is given is what is meant.
LEMMA ArgumentIs ==
    ASSUME NEW argument \in Optional(Namespaces), argument # {}
    PROVE  /\ Or(argument, None) \in Namespaces
           /\ Meant(argument) = Meaning(Or(argument, None), "argument")
           /\ MeantGiven(argument) = Meaning(Or(argument, None), "argument")
  BY OrIs DEF Meant, MeantGiven

\* It comes before the namespace of the path.
LEMMA GivenSpaceIs ==
    ASSUME TypeOK, hand \in GoodHands, hand.path # None, NEW argument \in Optional(Namespaces)
    PROVE  /\ Or(argument, OwnSpace) \in Namespaces
           /\ \A call : Lands(call, Or(argument, OwnSpace), Meant(argument))
  <1>1. CASE argument = {}
    BY <1>1, OwnSpaceIs, OwnLands, OrIs
  <1>2. CASE argument # {}
    <2>1. Or(argument, OwnSpace) \in Namespaces /\ Or(argument, OwnSpace) = Or(argument, None)
      BY <1>2, OrIs
    <2>2. Meant(argument).namespace = Or(argument, OwnSpace)
      BY <1>2, <2>1, ArgumentIs, MeaningParts
    <2>3. QED
      BY <2>1, <2>2 DEF Lands
  <1>3. QED
    BY <1>1, <1>2

\* And before the default one.
LEMMA DefaultSpaceIs ==
    ASSUME TypeOK, NEW argument \in Optional(Namespaces)
    PROVE  /\ Or(argument, defaultSpace) \in Namespaces
           /\ MeantGiven(argument).namespace = Or(argument, defaultSpace)
           /\ \A call : Lands(call, Or(argument, defaultSpace), MeantGiven(argument))
  <1>1. Or(argument, defaultSpace) \in Namespaces
    BY OrIs DEF TypeOK
  <1>2. MeantGiven(argument).namespace = Or(argument, defaultSpace)
    <2>1. CASE argument = {}
      BY <2>1, OrIs, MeaningParts DEF MeantGiven, Default
    <2>2. CASE argument # {}
      BY <2>2, OrIs, ArgumentIs, MeaningParts
    <2>3. QED
      BY <2>1, <2>2
  <1>3. QED
    BY <1>1, <1>2 DEF Lands

-----------------------------------------------------------------------------
(* The steps                                                               *)

\* A path in hand that is a good one has its type.
LEMMA HandIs == ASSUME NEW h \in GoodHands PROVE h \in Hands /\ (h.by # "typed" => h.place # None)
  BY DEF GoodHands, Good

\* The part of the invariant that is about the enumeration.
PullInv ==
    /\ context \in Contexts \cup {None}
    /\ enumeration \in Enumerations \cup {None}
    /\ given \subseteq Items
    /\ stage \in {"none", "open", "ended", "broken", "closed"}
    /\ ContextInv
    /\ StageInv

LEMMA PullInvStays == ASSUME PullInv, UNCHANGED pulling PROVE PullInv'
  BY DEF PullInv, pulling, ContextInv, StageInv

\* The parts of the invariant.
LEMMA IInvIs ==
    IInv <=> /\ backend \in Backends /\ host \in Hosts /\ defaultSpace \in Namespaces
             /\ hand \in GoodHands
             /\ asked \in Requests \cup PullRequests \cup {None}
             /\ AsksWhereMeant
             /\ PullFits
             /\ PullInv
  BY HandIs DEF IInv, TypeOK, PullInv, Hands

LEMMA IInvAfter ==
    ASSUME (/\ backend \in Backends /\ host \in Hosts /\ defaultSpace \in Namespaces
            /\ hand \in GoodHands
            /\ asked \in Requests \cup PullRequests \cup {None}
            /\ AsksWhereMeant
            /\ PullFits
            /\ PullInv)'
    PROVE  IInv'
  BY HandIs DEF IInv, TypeOK, PullInv, Hands

\* What was asked, when it was a request in a namespace.
LEMMA RequestIs ==
    ASSUME NEW call, NEW space, NEW meant, Lands(call, space, meant),
           asked' = Request(call, space, meant)
    PROVE  (asked \in Requests /\ AsksWhereMeant /\ PullFits)'
  <1>1. asked' \in Requests
    BY DEF Request, Requests, Lands, Topic, Topics
  <1>2. asked' \notin PullRequests
    BY DEF Request, PullRequests
  <1>3. /\ asked'.namespace = space /\ asked'.meant = meant.namespace
        /\ asked'.about = "plain" => asked'.namespace \in {asked'.meant, NoName}
    BY DEF Request, Lands
  <1>4. QED
    BY <1>1, <1>2, <1>3 DEF AsksWhereMeant, PullFits

\* And when it was not.
LEMMA NothingAsked ==
    ASSUME asked' = None PROVE (asked \in {None} /\ AsksWhereMeant /\ PullFits)'
  BY NoneAssumption DEF AsksWhereMeant, PullFits

\* An operation that asks where it means to, and whose results are good.
LEMMA OperationKeeps ==
    ASSUME IInv, NEW call, NEW namespace, NEW meant, NEW results,
           Operation(call, namespace, meant, results),
           Lands(call, Asked(backend, call, namespace, hand.path), meant),
           Asked(backend, call, namespace, hand.path) # NoName => results \subseteq GoodHands
    PROVE  IInv'
  <1>1. (asked \in Requests /\ AsksWhereMeant /\ PullFits)'
    BY RequestIs DEF Operation
  <1>2. hand' \in GoodHands
    BY DEF Operation, IInv
  <1>3. PullInv'
    BY IInvIs, PullInvStays DEF Operation
  <1>4. (backend \in Backends /\ host \in Hosts /\ defaultSpace \in Namespaces)'
    BY IInvIs DEF Operation, settings
  <1>5. QED
    BY <1>1, <1>2, <1>3, <1>4, IInvAfter

\* Operations whose results are completed where they asked.
LEMMA ResultsGood ==
    ASSUME IInv, NEW call, NEW namespace \in Namespaces
    PROVE  /\ Instances(call, namespace) \subseteq GoodHands
           /\ Names(call, namespace) \subseteq GoodHands
  <1>1. backend \in Clients /\ host \in Hosts
    BY IInvIs, OperationsAssumption
  <1>2. QED
    BY <1>1, CompletedGood DEF Instances, Names

\* Whose results are taken as they come.
LEMMA AsGivenGood ==
    ASSUME IInv, NEW namespace \in Namespaces, NEW call \in CimxmlOpen \ {"openQueryInstances"}
    PROVE  AsGiven(call, namespace) \subseteq GoodHands
  <1>1. backend \in Clients /\ host \in Hosts
    BY IInvIs, OperationsAssumption
  <1>2. call \in (CimxmlOpen \cup CimxmlPull) \ {"openQueryInstances", "pullInstances"}
    BY DEF CimxmlOpen
  <1>3. QED
    BY <1>1, <1>2, NamedGood DEF AsGiven

\* Only a method goes anywhere else than to the namespace it is given.
LEMMA AskedIs ==
    ASSUME NEW call, call # "invokeMethod", NEW client, NEW n, NEW p
    PROVE  Asked(client, call, n, p) = n
  BY DEF Asked

\* An operation in the default namespace, or in the one it is given.
LEMMA NamedKeeps ==
    ASSUME IInv, NEW argument \in Optional(Namespaces),
           \/ EnumerateInstances(argument) \/ EnumerateInstanceNames(argument)
           \/ EnumerateClasses(argument) \/ EnumerateClassNames(argument)
           \/ ExecQuery(argument) \/ GetClass(argument)
    PROVE  IInv'
  <1> DEFINE space == Or(argument, defaultSpace)
  <1>1. space \in Namespaces /\ \A call : Lands(call, space, MeantGiven(argument))
    BY DefaultSpaceIs DEF IInv
  <1>2. /\ Instances("enumerateInstances", space) \subseteq GoodHands
        /\ Names("enumerateInstanceNames", space) \subseteq GoodHands
        /\ Instances("execQuery", space) \subseteq GoodHands
        /\ {hand} \subseteq GoodHands
    BY <1>1, ResultsGood DEF IInv
  <1> HIDE DEF space
  <1>3. ASSUME NEW call, call # "invokeMethod", NEW results, results \subseteq GoodHands,
               Operation(call, space, MeantGiven(argument), results)
        PROVE  IInv'
    <2>1. Asked(backend, call, space, hand.path) = space
      BY <1>3, AskedIs
    <2>2. QED
      BY <1>1, <1>3, <2>1, OperationKeeps
  <1>4. CASE EnumerateInstances(argument)
    BY <1>2, <1>3, <1>4 DEF EnumerateInstances, space
  <1>5. CASE EnumerateInstanceNames(argument)
    BY <1>2, <1>3, <1>5 DEF EnumerateInstanceNames, space
  <1>6. CASE EnumerateClasses(argument)
    BY <1>2, <1>3, <1>6 DEF EnumerateClasses, space
  <1>7. CASE EnumerateClassNames(argument)
    BY <1>2, <1>3, <1>7 DEF EnumerateClassNames, space
  <1>8. CASE ExecQuery(argument)
    BY <1>2, <1>3, <1>8 DEF ExecQuery, space
  <1>9. CASE GetClass(argument)
    BY <1>2, <1>3, <1>9 DEF GetClass, space
  <1>10. QED
    BY <1>4, <1>5, <1>6, <1>7, <1>8, <1>9

\* The four operations that follow associations from the path in hand.
LEMMA NavigationKeeps ==
    ASSUME IInv, NEW argument \in Optional(Namespaces),
           \/ GetAssociators(argument) \/ GetAssociatorNames(argument)
           \/ GetReferences(argument) \/ GetReferenceNames(argument)
    PROVE  IInv'
  <1> DEFINE space == Or(argument, OwnSpace)
  <1>1. hand.path # None
    BY DEF GetAssociators, GetAssociatorNames, GetReferences, GetReferenceNames
  <1>2. space \in Namespaces /\ \A call : Lands(call, space, Meant(argument))
    BY <1>1, GivenSpaceIs DEF IInv
  <1>3. /\ Instances("associators", space) \subseteq GoodHands
        /\ Names("associatorNames", space) \subseteq GoodHands
        /\ Instances("references", space) \subseteq GoodHands
        /\ Names("referenceNames", space) \subseteq GoodHands
    BY <1>2, ResultsGood
  <1> HIDE DEF space
  <1>4. ASSUME NEW call, call # "invokeMethod", NEW results, results \subseteq GoodHands,
               Operation(call, space, Meant(argument), results)
        PROVE  IInv'
    <2>1. Asked(backend, call, space, hand.path) = space
      BY <1>4, AskedIs
    <2>2. QED
      BY <1>2, <1>4, <2>1, OperationKeeps
  <1>5. CASE GetAssociators(argument)
    BY <1>3, <1>4, <1>5 DEF GetAssociators, space
  <1>6. CASE GetAssociatorNames(argument)
    BY <1>3, <1>4, <1>6 DEF GetAssociatorNames, space
  <1>7. CASE GetReferences(argument)
    BY <1>3, <1>4, <1>7 DEF GetReferences, space
  <1>8. CASE GetReferenceNames(argument)
    BY <1>3, <1>4, <1>8 DEF GetReferenceNames, space
  <1>9. QED
    BY <1>5, <1>6, <1>7, <1>8

\* The new instance is where it was asked to be.
LEMMA CreateKeeps ==
    ASSUME IInv, NEW argument \in Optional(Namespaces), CreateInstance(argument) PROVE IInv'
  <1> DEFINE own == IF hand.path = None THEN defaultSpace ELSE hand.path.namespace
             space == Or(argument, own)
  <1>1. TypeOK /\ hand \in GoodHands /\ host \in Hosts
    BY DEF IInv, TypeOK
  <1>2. Lands("createInstance", space, Meant(argument))
    <2>1. CASE argument # {}
      <3>1. Meant(argument).namespace = space /\ space \in Namespaces
        BY <2>1, OrIs, ArgumentIs, MeaningParts
      <3>2. QED
        BY <3>1 DEF Lands
    <2>2. CASE argument = {} /\ hand.path # None
      <3>1. space = hand.path.namespace /\ hand.path.namespace \in {OwnSpace, NoName}
        BY <1>1, <2>2, OrIs, OwnSpaceIs
      <3>2. QED
        BY <1>1, <2>2, <3>1, OwnLands
    <2>3. CASE argument = {} /\ hand.path = None
      <3>1. Meant(argument) = MeantGiven(argument) /\ space = Or(argument, defaultSpace)
        BY <2>3 DEF Meant
      <3>2. QED
        BY <1>1, <3>1, DefaultSpaceIs
    <2>4. QED
      BY <2>1, <2>2, <2>3
  <1>3. Asked(backend, "createInstance", space, hand.path) = space
    BY DEF Asked
  <1>4. space # NoName => {Read(Path(space, host), Path(space, host))} \subseteq GoodHands
    BY <1>1, <1>2, ReadGood DEF Lands
  <1>5. Operation("createInstance", space, Meant(argument),
                  {Read(Path(space, host), Path(space, host))})
    BY DEF CreateInstance
  <1> HIDE DEF space
  <1>6. QED
    BY <1>2, <1>3, <1>4, <1>5, OperationKeeps

\* GetInstance's result has the path that was asked for.
LEMMA GetKeeps ==
    ASSUME IInv, NEW argument \in Optional(Namespaces), GetInstance(argument) PROVE IInv'
  <1> DEFINE space == Or(argument, OwnSpace)
             place == Path(space, host)
  <1>1. hand.path # None
    BY DEF GetInstance
  <1>2. space \in Namespaces /\ Lands("getInstance", space, Meant(argument))
    BY <1>1, GivenSpaceIs DEF IInv
  <1>3. place \in Places /\ hand.path \in Paths \cup {None}
    BY <1>2, PlaceType DEF IInv, TypeOK
  <1>4. {Hand(hand.path, place, "loose")} \subseteq GoodHands
    <2> HIDE DEF place
    <2>1. Hand(hand.path, place, "loose") \in GoodHands
      BY <1>3, HandGood, Zenon
    <2>2. QED
      BY <2>1, Zenon
  <1>5. Operation("getInstance", space, Meant(argument), {Hand(hand.path, place, "loose")})
    BY DEF GetInstance
  <1>6. Asked(backend, "getInstance", space, hand.path) = space
    BY DEF Asked
  <1> HIDE DEF space, place
  <1>7. QED
    BY <1>2, <1>4, <1>5, <1>6, OperationKeeps

\* The operations on the object in hand.
LEMMA OfObjectKeeps ==
    ASSUME IInv, DeleteInstance \/ ModifyInstance \/ InvokeMethod PROVE IInv'
  <1>1. hand.path # None /\ TypeOK /\ hand \in GoodHands /\ {hand} \subseteq GoodHands
    BY DEF DeleteInstance, ModifyInstance, InvokeMethod, IInv
  <1>2. /\ OwnSpace \in Namespaces /\ hand.path.namespace \in {OwnSpace, NoName}
        /\ \A call : \A space \in {OwnSpace, NoName} : Lands(call, space, Meant({}))
    BY <1>1, OwnSpaceIs, OwnLands
  <1>3. CASE DeleteInstance
    <2>1. Asked(backend, "deleteInstance", OwnSpace, hand.path) = OwnSpace
      BY DEF Asked
    <2>2. QED
      BY <1>1, <1>2, <1>3, <2>1, OperationKeeps DEF DeleteInstance
  <1>4. CASE ModifyInstance
    <2>1. Asked(backend, "modifyInstance", hand.path.namespace, hand.path) = hand.path.namespace
      BY DEF Asked
    <2>2. QED
      BY <1>1, <1>2, <1>4, <2>1, OperationKeeps DEF ModifyInstance
  <1>5. CASE InvokeMethod
    <2> DEFINE returned == {Hand(answer.path, answer.place, "loose") :
                              answer \in Answers(backend, "invokeMethod", OwnSpace, host)}
    <2>1. backend \in Clients /\ host \in Hosts
      BY <1>1, OperationsAssumption DEF TypeOK
    <2>2. returned \subseteq GoodHands
      BY <1>2, <2>1, ReturnedGood
    <2>3. Operation("invokeMethod", OwnSpace, Meant({}), {hand} \cup returned)
      BY <1>5 DEF InvokeMethod
    <2>4. Asked(backend, "invokeMethod", OwnSpace, hand.path) \in {OwnSpace, hand.path.namespace}
      BY DEF Asked, WsmanInvoked
    <2> HIDE DEF returned
    <2>5. {hand} \cup returned \subseteq GoodHands
      BY <1>1, <2>2
    <2>6. Lands("invokeMethod", Asked(backend, "invokeMethod", OwnSpace, hand.path), Meant({}))
      BY <1>2, <2>4
    <2>7. QED
      BY <1>2, <2>3, <2>5, <2>6, OperationKeeps
  <1>6. QED
    BY <1>3, <1>4, <1>5

-----------------------------------------------------------------------------
(* Enumerations                                                            *)

\* A context that fits what it was opened for.
Fitting(opened, namespace) ==
    /\ opened \in Contexts
    /\ opened.withPaths <=> opened.kind # "query"
    /\ opened.kind = "query" => opened.namespace = namespace

LEMMA ContextFits ==
    ASSUME NEW namespace \in Namespaces, host \in Hosts
    PROVE  /\ Fitting(Context("instances", TRUE, NoName), namespace)
           /\ Fitting(Context("paths", TRUE, NoName), namespace)
           /\ Fitting(Context("query", FALSE, namespace), namespace)
  BY DEF Fitting, Context, Contexts, Kinds

\* What the CIMOM keeps of a new enumeration.
LEMMA OpenedIs ==
    ASSUME IInv, NEW namespace \in Namespaces, NEW opened, Fitting(opened, namespace),
           NEW all \in SUBSET Items, NEW part \in SUBSET all,
           enumeration' = Enumerates(opened.kind, namespace, all, part)
    PROVE  /\ enumeration' \in Enumerations \cup {None}
           /\ enumeration' = None <=> part = all
           /\ enumeration' # None =>
                /\ enumeration'.kind = opened.kind /\ enumeration'.namespace = namespace
                /\ enumeration'.rest = all \ part
  <1>1. opened \in Contexts /\ opened.kind \in Kinds /\ host \in Hosts
    BY IInvIs DEF Fitting, Contexts
  <1>2. CASE part = all
    BY <1>2 DEF Enumerates
  <1>3. CASE part # all
    <2>1. all \ part \in (SUBSET Items) \ {{}}
      BY <1>3
    <2>2. enumeration' =
            [at |-> host, kind |-> opened.kind, namespace |-> namespace, rest |-> all \ part]
      BY <1>3 DEF Enumerates
    <2>3. enumeration' \in Enumerations
      BY <1>1, <2>1, <2>2 DEF Enumerations
    <2>4. QED
      BY <1>3, <2>2, <2>3, NoneAssumption
  <1>4. QED
    BY <1>2, <1>3

\* An operation that opens an enumeration.
LEMMA OpenKeeps ==
    ASSUME IInv, NEW call, NEW namespace \in Namespaces, NEW meant, Lands(call, namespace, meant),
           NEW opened, Fitting(opened, namespace),
           NEW results, results \subseteq GoodHands, Open(call, namespace, meant, opened, results)
    PROVE  IInv'
  <1>1. (asked \in Requests /\ AsksWhereMeant /\ PullFits)'
    BY RequestIs DEF Open
  <1>2. hand' \in GoodHands
    BY DEF Open, IInv
  <1>3. (backend \in Backends /\ host \in Hosts /\ defaultSpace \in Namespaces)'
    BY IInvIs DEF Open, settings
  <1>4. PullInv'
    <2>1. CASE UNCHANGED pulling
      BY <2>1, IInvIs, PullInvStays
    <2>2. CASE ~UNCHANGED pulling
      <3>1. context' = opened
        BY <2>2 DEF Open
      <3>2. PICK all \in SUBSET Items : \E part \in SUBSET all :
                /\ enumeration' = Enumerates(opened.kind, namespace, all, part)
                /\ given' = part
                /\ stage' = IF part = all THEN "ended" ELSE "open"
        BY <2>2 DEF Open
      <3>3. PICK part \in SUBSET all :
                /\ enumeration' = Enumerates(opened.kind, namespace, all, part)
                /\ given' = part
                /\ stage' = IF part = all THEN "ended" ELSE "open"
        BY <3>2
      <3>4. opened \in Contexts /\ opened.kind \in Kinds /\ host \in Hosts
        BY IInvIs DEF Fitting, Contexts
      <3>5. /\ enumeration' \in Enumerations \cup {None}
            /\ enumeration' = None <=> part = all
            /\ enumeration' # None =>
                 enumeration'.kind = opened.kind /\ enumeration'.namespace = namespace
        BY <3>3, OpenedIs
      <3>6. context' # None
        BY <3>1, <3>4, NoneAssumption
      <3>7. ContextInv'
        BY <3>1, <3>5 DEF ContextInv, Fitting
      <3>8. StageInv'
        BY <3>3, <3>5, <3>6 DEF StageInv
      <3>9. (context \in Contexts /\ given \subseteq Items)'
        BY <3>1, <3>3, <3>4
      <3>10. QED
        BY <3>3, <3>5, <3>7, <3>8, <3>9 DEF PullInv
    <2>3. QED
      BY <2>1, <2>2
  <1>5. QED
    BY <1>1, <1>2, <1>3, <1>4, IInvAfter

\* The operations that open an enumeration in the default namespace, or in one
\* they are given.
LEMMA OpenNamedKeeps ==
    ASSUME IInv, NEW argument \in Optional(Namespaces),
           \/ OpenEnumerateInstances(argument) \/ OpenEnumerateInstanceNames(argument)
           \/ OpenExecQuery(argument)
    PROVE  IInv'
  <1> DEFINE space == Or(argument, defaultSpace)
  <1>1. /\ space \in Namespaces /\ host \in Hosts
        /\ \A call : Lands(call, space, MeantGiven(argument))
    BY DefaultSpaceIs DEF IInv, TypeOK
  <1>2. Instances("openQueryInstances", space) \subseteq GoodHands
    BY <1>1, ResultsGood
  <1>3. /\ AsGiven("openEnumerateInstances", space) \subseteq GoodHands
        /\ AsGiven("openEnumerateInstancePaths", space) \subseteq GoodHands
    BY <1>1, AsGivenGood DEF CimxmlOpen
  <1>4. /\ Fitting(Context("instances", TRUE, NoName), space)
        /\ Fitting(Context("paths", TRUE, NoName), space)
        /\ Fitting(Context("query", FALSE, space), space)
    BY <1>1, ContextFits
  <1> HIDE DEF space
  <1>5. CASE OpenEnumerateInstances(argument)
    BY <1>1, <1>3, <1>4, <1>5, OpenKeeps DEF OpenEnumerateInstances, space
  <1>6. CASE OpenEnumerateInstanceNames(argument)
    BY <1>1, <1>3, <1>4, <1>6, OpenKeeps DEF OpenEnumerateInstanceNames, space
  <1>7. CASE OpenExecQuery(argument)
    BY <1>1, <1>2, <1>4, <1>7, OpenKeeps DEF OpenExecQuery, space
  <1>8. QED
    BY <1>5, <1>6, <1>7

\* And in the namespace of the path in hand, whatever they are given: a request
\* that was given a namespace is about nothing plain.
LEMMA DisregardLands ==
    ASSUME TypeOK, hand \in GoodHands, hand.path # None, NEW call \in OpensFromPath,
           NEW argument \in Optional(Namespaces)
    PROVE  Lands(call, OwnSpace, Meant(argument))
  <1>1. OwnSpace \in Namespaces
    BY OwnSpaceIs
  <1>2. CASE argument = {}
    BY <1>1, <1>2, OwnLands
  <1>3. CASE argument # {}
    <2>1. Meant(argument).by = "argument" /\ Meant(argument).namespace \in Namespaces
      BY <1>3, ArgumentIs, MeaningParts
    <2>2. Topic(call, Meant(argument)) = "disregarded"
      BY <2>1 DEF Topic
    <2>3. QED
      BY <1>1, <2>1, <2>2 DEF Lands
  <1>4. QED
    BY <1>2, <1>3

LEMMA OpenOfPathKeeps ==
    ASSUME IInv, NEW argument \in Optional(Namespaces),
           \/ OpenAssociators(argument) \/ OpenAssociatorNames(argument)
           \/ OpenReferences(argument) \/ OpenReferenceNames(argument)
    PROVE  IInv'
  <1>1. hand.path # None /\ host \in Hosts
    BY DEF OpenAssociators, OpenAssociatorNames, OpenReferences, OpenReferenceNames, IInv, TypeOK
  <1>2. /\ OwnSpace \in Namespaces
        /\ \A call \in OpensFromPath : Lands(call, OwnSpace, Meant(argument))
        /\ {"openAssociatorInstances", "openAssociatorInstancePaths",
            "openReferenceInstances", "openReferenceInstancePaths"} \subseteq OpensFromPath
    BY <1>1, OwnSpaceIs, DisregardLands DEF IInv, OpensFromPath
  <1>3. /\ AsGiven("openAssociatorInstances", OwnSpace) \subseteq GoodHands
        /\ AsGiven("openAssociatorInstancePaths", OwnSpace) \subseteq GoodHands
        /\ AsGiven("openReferenceInstances", OwnSpace) \subseteq GoodHands
        /\ AsGiven("openReferenceInstancePaths", OwnSpace) \subseteq GoodHands
    BY <1>2, AsGivenGood DEF CimxmlOpen
  <1>4. /\ Fitting(Context("instances", TRUE, NoName), OwnSpace)
        /\ Fitting(Context("paths", TRUE, NoName), OwnSpace)
    BY <1>1, <1>2, ContextFits
  <1>5. CASE OpenAssociators(argument)
    BY <1>2, <1>3, <1>4, <1>5, OpenKeeps DEF OpenAssociators
  <1>6. CASE OpenAssociatorNames(argument)
    BY <1>2, <1>3, <1>4, <1>6, OpenKeeps DEF OpenAssociatorNames
  <1>7. CASE OpenReferences(argument)
    BY <1>2, <1>3, <1>4, <1>7, OpenKeeps DEF OpenReferences
  <1>8. CASE OpenReferenceNames(argument)
    BY <1>2, <1>3, <1>4, <1>8, OpenKeeps DEF OpenReferenceNames
  <1>9. QED
    BY <1>5, <1>6, <1>7, <1>8

\* What a pull that is answered does to the enumeration.
LEMMA PullStep ==
    ASSUME PullInv, enumeration # None, NEW part \in SUBSET enumeration.rest,
           enumeration' = IF part = enumeration.rest THEN None
                          ELSE [enumeration EXCEPT !.rest = @ \ part]
    PROVE  /\ part \subseteq Items
           /\ enumeration' \in Enumerations \cup {None}
           /\ enumeration' = None <=> part = enumeration.rest
           /\ enumeration' # None =>
                /\ enumeration'.kind = enumeration.kind
                /\ enumeration'.namespace = enumeration.namespace
                /\ enumeration'.rest = enumeration.rest \ part
  <1>1. enumeration \in Enumerations
    BY DEF PullInv
  <1>2. part \subseteq Items
    BY <1>1 DEF Enumerations
  <1>3. CASE part = enumeration.rest
    BY <1>2, <1>3
  <1>4. CASE part # enumeration.rest
    <2>1. enumeration' = [enumeration EXCEPT !.rest = @ \ part]
      BY <1>4
    <2>2. enumeration.rest \ part \in (SUBSET Items) \ {{}}
      BY <1>1, <1>4 DEF Enumerations
    <2>3. enumeration' \in Enumerations
      BY <1>1, <2>1, <2>2 DEF Enumerations
    <2>4. /\ enumeration'.kind = enumeration.kind
          /\ enumeration'.namespace = enumeration.namespace
          /\ enumeration'.rest = enumeration.rest \ part
      BY <1>1, <2>1 DEF Enumerations
    <2>5. QED
      BY <1>2, <1>4, <2>3, <2>4, NoneAssumption
  <1>5. QED
    BY <1>3, <1>4

\* An operation that pulls.
LEMMA PullKeeps ==
    ASSUME IInv, context # None, NEW call \in CimxmlPull, NEW results,
           Answerable(call) => results \subseteq GoodHands,
           call \in {"pullInstances", "pullInstancesWithPath"} =>
             context.kind = "paths" \/ Fits(call, context.kind),
           Pull(call, results)
    PROVE  IInv'
  <1>1. PullInv
    BY IInvIs
  <1>2. (asked \in PullRequests /\ AsksWhereMeant /\ PullFits)'
    <2>1. asked' = PullRequest(call, context.kind)
      BY DEF Pull
    <2>2. context.kind \in Kinds
      BY <1>1 DEF PullInv, Contexts
    <2>3. asked' \in PullRequests /\ asked' \notin Requests
      BY <2>1, <2>2 DEF PullRequest, PullRequests, Requests
    <2>4. asked'.call = call /\ asked'.kind = context.kind
      BY <2>1 DEF PullRequest
    <2>5. QED
      BY <2>3, <2>4 DEF AsksWhereMeant, PullFits
  <1>3. hand' \in GoodHands
    BY DEF Pull, IInv
  <1>4. (backend \in Backends /\ host \in Hosts /\ defaultSpace \in Namespaces)'
    BY IInvIs DEF Pull, settings
  <1>5. PullInv'
    <2>1. CASE UNCHANGED pulling
      BY <1>1, <2>1, PullInvStays
    <2>2. CASE ~UNCHANGED pulling
      <3>1. context' = context /\ enumeration # None
        BY <2>2 DEF Pull, Answerable
      <3>2. PICK part \in SUBSET enumeration.rest :
              /\ enumeration' = IF part = enumeration.rest THEN None
                                ELSE [enumeration EXCEPT !.rest = @ \ part]
              /\ \/ stage' = "broken" /\ given' = given
                 \/ /\ given' = given \cup part
                    /\ stage' = IF stage = "broken" THEN "broken"
                                ELSE IF enumeration' = None THEN "ended" ELSE "open"
        BY <2>2 DEF Pull
      <3>3. /\ part \subseteq Items
            /\ enumeration' \in Enumerations \cup {None}
            /\ enumeration' # None =>
                 /\ enumeration'.kind = enumeration.kind
                 /\ enumeration'.namespace = enumeration.namespace
        BY <1>1, <3>1, <3>2, PullStep
      <3>4. ContextInv'
        BY <1>1, <3>1, <3>3 DEF PullInv, ContextInv
      <3>5. StageInv'
        BY <1>1, <3>1, <3>2 DEF PullInv, StageInv
      <3>6. given' \subseteq Items
        BY <1>1, <3>2, <3>3 DEF PullInv
      <3>7. stage' \in {"none", "open", "ended", "broken", "closed"}
        BY <3>2
      <3>8. QED
        BY <1>1, <3>1, <3>3, <3>4, <3>5, <3>6, <3>7 DEF PullInv
    <2>3. QED
      BY <2>1, <2>2
  <1>6. QED
    BY <1>2, <1>3, <1>4, <1>5, IInvAfter

\* What the pull operations bring.
LEMMA PulledGood ==
    ASSUME IInv, context # None, NEW call \in {"pullInstances", "pullInstancesWithPath"},
           Answerable(call)
    PROVE  PulledInstances(call) \subseteq GoodHands
  <1> DEFINE space == enumeration.namespace
  <1>1. backend \in Clients /\ PullInv
    BY IInvIs, OperationsAssumption
  <1>2. enumeration \in Enumerations /\ host \in Hosts /\ enumeration.at = host
    BY <1>1, IInvIs DEF PullInv, Answerable
  <1>3. space \in Namespaces
    BY <1>2 DEF Enumerations
  <1> HIDE DEF space
  <1>4. CASE call = "pullInstances"
    <2>1. enumeration.kind = "query"
      BY <1>4 DEF Answerable, Fits
    <2>2. context.namespace = space
      BY <1>1, <1>2, <2>1 DEF PullInv, ContextInv, space, Answerable
    <2>3. QED
      BY <1>1, <1>2, <1>3, <2>2, CompletedGood DEF PulledInstances, space
  <1>5. CASE call = "pullInstancesWithPath"
    <2>1. call \in (CimxmlOpen \cup CimxmlPull) \ {"openQueryInstances", "pullInstances"}
      BY <1>5 DEF CimxmlPull
    <2>2. ASSUME NEW answer \in Answers(backend, call, space, host)
          PROVE  Read(InstanceOf(answer.path, context.namespace, host), answer.place) \in GoodHands
      BY <1>1, <1>2, <1>3, <2>1, NamedGood
    <2>3. QED
      BY <1>2, <2>2 DEF PulledInstances, space
  <1>6. QED
    BY <1>4, <1>5

LEMMA PulledNamesGood ==
    ASSUME IInv, Answerable("pullInstancePaths") PROVE PulledNames \subseteq GoodHands
  <1>1. backend \in Clients /\ PullInv
    BY IInvIs, OperationsAssumption
  <1>2. enumeration \in Enumerations
    BY <1>1 DEF PullInv, Answerable
  <1>3. enumeration.namespace \in Namespaces /\ enumeration.at \in Hosts
    BY <1>2 DEF Enumerations
  <1>4. "pullInstancePaths" \in (CimxmlOpen \cup CimxmlPull) \ {"openQueryInstances", "pullInstances"}
    BY DEF CimxmlPull
  <1>5. QED
    BY <1>1, <1>3, <1>4, NamedGood DEF PulledNames

LEMMA PullInstancesKeeps == ASSUME IInv, PullInstances PROVE IInv'
  <1> DEFINE call == IF context.withPaths THEN "pullInstancesWithPath" ELSE "pullInstances"
  <1>1. context # None /\ Pull(call, PulledInstances(call))
    BY DEF PullInstances
  <1>2. call \in {"pullInstances", "pullInstancesWithPath"} /\ call \in CimxmlPull
    BY DEF CimxmlPull
  <1>3. context.kind = "paths" \/ Fits(call, context.kind)
    BY <1>1, IInvIs DEF PullInv, ContextInv, Contexts, Kinds, Fits
  <1>4. Answerable(call) => PulledInstances(call) \subseteq GoodHands
    BY <1>1, <1>2, PulledGood
  <1> HIDE DEF call
  <1>5. QED
    BY <1>1, <1>2, <1>3, <1>4, PullKeeps

LEMMA PullInstanceNamesKeeps == ASSUME IInv, PullInstanceNames PROVE IInv'
  <1>1. context # None /\ Pull("pullInstancePaths", PulledNames)
    BY DEF PullInstanceNames
  <1>2. "pullInstancePaths" \in CimxmlPull
    BY DEF CimxmlPull
  <1>3. QED
    BY <1>1, <1>2, PulledNamesGood, PullKeeps

\* Closing: the enumeration is there or not, the context stays.
LEMMA CloseKeeps == ASSUME IInv, CloseEnumeration PROVE IInv'
  <1>1. PullInv /\ context # None
    BY IInvIs DEF CloseEnumeration
  <1>2. (asked \in PullRequests /\ AsksWhereMeant /\ PullFits)'
    <2>1. asked' = PullRequest("closeEnumeration", context.kind)
      BY DEF CloseEnumeration
    <2>2. context.kind \in Kinds
      BY <1>1 DEF PullInv, Contexts
    <2>3. asked' \in PullRequests /\ asked' \notin Requests
      BY <2>1, <2>2 DEF PullRequest, PullRequests, Requests, CimxmlPull
    <2>4. asked'.call = "closeEnumeration"
      BY <2>1 DEF PullRequest
    <2>5. QED
      BY <2>3, <2>4 DEF AsksWhereMeant, PullFits
  <1>3. PullInv'
    <2>1. context' = context /\ given' = given
      BY DEF CloseEnumeration
    <2>2. CASE UNCHANGED <<enumeration, stage>>
      BY <1>1, <2>1, <2>2, PullInvStays DEF pulling
    <2>3. CASE enumeration' = None /\ stage' \in {"closed", "broken"}
      BY <1>1, <2>1, <2>3 DEF PullInv, ContextInv, StageInv
    <2>4. QED
      BY <2>2, <2>3 DEF CloseEnumeration
  <1>4. (hand \in GoodHands /\ backend \in Backends /\ host \in Hosts /\ defaultSpace \in Namespaces)'
    BY IInvIs DEF CloseEnumeration, settings
  <1>5. QED
    BY <1>2, <1>3, <1>4, IInvAfter

\* The context is cleared, or the CIMOM gives its enumeration up.
LEMMA LostKeeps == ASSUME IInv, ClearContext \/ Expire PROVE IInv'
  <1>1. PullInv /\ hand \in GoodHands
    BY IInvIs
  <1>2. (/\ asked \in Requests \cup PullRequests \cup {None}
         /\ AsksWhereMeant /\ PullFits /\ hand \in GoodHands
         /\ backend \in Backends /\ host \in Hosts /\ defaultSpace \in Namespaces)'
    BY IInvIs DEF ClearContext, Expire, settings, AsksWhereMeant, PullFits
  <1>3. PullInv'
    <2>1. CASE ClearContext
      <3>1. context \in Contexts
        BY <1>1, <2>1 DEF ClearContext, PullInv
      <3>2. /\ context' \in Contexts /\ context' # None
            /\ context'.kind = context.kind /\ context'.withPaths = context.withPaths
            /\ context'.namespace = context.namespace
        BY <2>1, <3>1, NoneAssumption DEF ClearContext, Contexts
      <3>3. enumeration' = enumeration /\ given' = given
        BY <2>1 DEF ClearContext
      <3>4. ContextInv'
        BY <1>1, <2>1, <3>2, <3>3 DEF PullInv, ContextInv, ClearContext
      <3>5. StageInv' /\ stage' \in {"none", "open", "ended", "broken", "closed"}
        BY <1>1, <2>1, <3>2, <3>3 DEF PullInv, StageInv, ClearContext
      <3>6. QED
        BY <1>1, <3>2, <3>3, <3>4, <3>5 DEF PullInv
    <2>2. CASE Expire
      BY <1>1, <2>2 DEF Expire, PullInv, ContextInv, StageInv
    <2>3. QED
      BY <2>1, <2>2
  <1>4. QED
    BY <1>2, <1>3, IInvAfter

\* What the program does without a request.
LEMMA SettingsKeep ==
    ASSUME IInv,
           \/ \E namespace \in Namespaces \cup {NoName} : MakePath(Path(namespace, NoName))
           \/ MakePath(None)
           \/ \E namespace \in Namespaces : SetDefaultNamespace(namespace)
           \/ \E another \in Hosts : Reconnect(another)
    PROVE  IInv'
  <1>1. asked' = None /\ UNCHANGED pulling
    BY DEF MakePath, SetDefaultNamespace, Reconnect
  <1>2. PullInv'
    BY <1>1, IInvIs, PullInvStays
  <1>3. (asked \in {None} /\ AsksWhereMeant /\ PullFits)'
    BY <1>1, NothingAsked
  <1>4. (backend \in Backends /\ host \in Hosts /\ defaultSpace \in Namespaces)'
    BY IInvIs DEF MakePath, SetDefaultNamespace, Reconnect, settings
  <1>5. hand' \in GoodHands
    <2>1. CASE \E namespace \in Namespaces \cup {NoName} : MakePath(Path(namespace, NoName))
      BY <2>1, PathType, TypedGood DEF MakePath
    <2>2. CASE MakePath(None)
      BY <2>2, TypedGood DEF MakePath
    <2>3. CASE UNCHANGED hand
      BY <2>3, IInvIs
    <2>4. QED
      BY <2>1, <2>2, <2>3 DEF SetDefaultNamespace, Reconnect
  <1>6. QED
    BY <1>2, <1>3, <1>4, <1>5, IInvAfter

-----------------------------------------------------------------------------
(* The theorems                                                            *)

LEMMA InitHolds == ASSUME Init PROVE IInv
  <1>1. hand \in GoodHands
    BY TypedGood DEF Init
  <1>2. PullInv
    BY DEF Init, PullInv, ContextInv, StageInv
  <1>3. asked = None /\ AsksWhereMeant /\ PullFits
    BY NoneAssumption DEF Init, AsksWhereMeant, PullFits
  <1>4. QED
    BY <1>1, <1>2, <1>3, IInvIs DEF Init

LEMMA StepKeeps == ASSUME IInv, [Next]_vars PROVE IInv'
  <1>1. CASE Named
    BY <1>1, CreateKeeps, NamedKeeps, GetKeeps, NavigationKeeps, OpenNamedKeeps,
       OpenOfPathKeeps
       DEF Named
  <1>2. CASE OfPath
    BY <1>2, OfObjectKeeps DEF OfPath
  <1>3. CASE OfContext
    BY <1>3, PullInstancesKeeps, PullInstanceNamesKeeps, CloseKeeps, LostKeeps DEF OfContext
  <1>4. CASE Environment
    BY <1>4, SettingsKeep, LostKeeps DEF Environment
  <1>5. CASE UNCHANGED vars
    <2>1. PullInv'
      BY <1>5, IInvIs, PullInvStays DEF vars
    <2>2. QED
      BY <1>5, <2>1, IInvIs, IInvAfter DEF vars, settings, AsksWhereMeant, PullFits
  <1>6. QED
    BY <1>1, <1>2, <1>3, <1>4, <1>5 DEF Next

\* The invariant.
LEMMA Invariant == Spec => []IInv
  BY InitHolds, StepKeeps, PTL DEF Spec

\* Every variable has its type.
THEOREM OperationsTypeCorrect == Spec => []TypeOK
  <1>1. IInv => TypeOK
    BY DEF IInv
  <1>2. QED
    BY <1>1, Invariant, PTL

\* The path of an object that was created, enumerated, queried, found over an
\* association or pulled is the place the object was read from, for both clients,
\* whatever namespaces there are and however the connection was changed in between.
\* What GetInstance and InvokeMethod return is not covered.
THEOREM PathsTellPlaces == Spec => []PathTellsPlace
  <1>1. IInv => PathTellsPlace
    BY DEF IInv, GoodHands, Good, PathTellsPlace
  <1>2. QED
    BY <1>1, Invariant, PTL

\* A request goes to the namespace that was meant, or to none, but for the four opens
\* from a path that are given a namespace, and for requests about what GetInstance
\* and InvokeMethod returned.
THEOREM AskedWhereMeant == Spec => []AsksWhereMeant
  <1>1. IInv => AsksWhereMeant
    BY DEF IInv
  <1>2. QED
    BY <1>1, Invariant, PTL

\* Instances are pulled with the operation their enumeration was opened for.
THEOREM PullsFit == Spec => []PullFits
  <1>1. IInv => PullFits
    BY DEF IInv
  <1>2. QED
    BY <1>1, Invariant, PTL

-----------------------------------------------------------------------------
(* The enumeration                                                         *)

wholeVars == <<Rest, given, stage>>

\* Steps that leave the enumeration alone.
LEMMA OperationStutters ==
    ASSUME NEW call, NEW namespace, NEW meant, NEW results,
           Operation(call, namespace, meant, results)
    PROVE  UNCHANGED wholeVars
  BY DEF Operation, pulling, wholeVars, Rest

LEMMA OpenOpens ==
    ASSUME IInv, NEW call, NEW namespace \in Namespaces, NEW meant, NEW opened,
           Fitting(opened, namespace), NEW results, Open(call, namespace, meant, opened, results)
    PROVE  Whole!Open \/ UNCHANGED wholeVars
  <1>1. CASE UNCHANGED pulling
    BY <1>1 DEF pulling, wholeVars, Rest
  <1>2. CASE ~UNCHANGED pulling
    <2>1. PICK all \in SUBSET Items : \E part \in SUBSET all :
            /\ enumeration' = Enumerates(opened.kind, namespace, all, part)
            /\ given' = part
            /\ stage' = IF part = all THEN "ended" ELSE "open"
      BY <1>2 DEF Open
    <2>2. PICK part \in SUBSET all :
            /\ enumeration' = Enumerates(opened.kind, namespace, all, part)
            /\ given' = part
            /\ stage' = IF part = all THEN "ended" ELSE "open"
      BY <2>1
    <2>3. /\ enumeration' = None <=> part = all
          /\ enumeration' # None => enumeration'.rest = all \ part
      BY <2>2, OpenedIs
    <2>4. Rest' = all \ part
      BY <2>3 DEF Rest
    <2>5. part = all <=> Rest' = {}
      BY <2>4
    <2>6. given' \in SUBSET all /\ Rest' = all \ given'
      BY <2>2, <2>4
    <2>7. stage' = IF Rest' = {} THEN "ended" ELSE "open"
      BY <2>2, <2>5
    <2>8. QED
      BY <2>6, <2>7 DEF Whole!Open
  <1>3. QED
    BY <1>1, <1>2

\* A pull is a pull of an open enumeration, the loss of one, or one of what is
\* left of a broken one.
LEMMA PullPulls ==
    ASSUME IInv, NEW call, NEW results, Pull(call, results)
    PROVE  Whole!Pull \/ Whole!Break \/ Whole!PullBroken \/ UNCHANGED wholeVars
  <1>1. CASE UNCHANGED pulling
    BY <1>1 DEF pulling, wholeVars, Rest
  <1>2. CASE ~UNCHANGED pulling
    <2>1. PullInv /\ enumeration # None
      BY <1>2, IInvIs DEF Pull, Answerable
    <2>2. PICK part \in SUBSET enumeration.rest :
            /\ enumeration' = IF part = enumeration.rest THEN None
                              ELSE [enumeration EXCEPT !.rest = @ \ part]
            /\ \/ stage' = "broken" /\ given' = given
               \/ /\ given' = given \cup part
                  /\ stage' = IF stage = "broken" THEN "broken"
                              ELSE IF enumeration' = None THEN "ended" ELSE "open"
      BY <1>2 DEF Pull
    <2>3. /\ enumeration' = None <=> part = enumeration.rest
          /\ enumeration' # None => enumeration'.rest = enumeration.rest \ part
      BY <2>1, <2>2, PullStep
    <2>4. Rest = enumeration.rest /\ Rest' = Rest \ part /\ part \subseteq Rest
      BY <2>1, <2>2, <2>3 DEF Rest
    <2>5. Rest' \in SUBSET Rest /\ Rest \ Rest' = part
      BY <2>4
    <2>6. enumeration' = None <=> Rest' = {}
      BY <2>3, <2>4
    <2>7. stage \in {"open", "broken"}
      BY <2>1 DEF PullInv, StageInv
    <2>8. CASE stage' = "broken" /\ given' = given
      BY <2>5, <2>7, <2>8 DEF Whole!Break, Whole!PullBroken
    <2>9. CASE /\ given' = given \cup part
               /\ stage' = IF stage = "broken" THEN "broken"
                           ELSE IF enumeration' = None THEN "ended" ELSE "open"
      <3>1. CASE stage = "open"
        <4>1. stage' = IF Rest' = {} THEN "ended" ELSE "open"
          BY <2>6, <2>9, <3>1
        <4>2. QED
          BY <2>5, <2>9, <3>1, <4>1 DEF Whole!Pull
      <3>2. CASE stage = "broken"
        BY <2>5, <2>9, <3>2 DEF Whole!PullBroken
      <3>3. QED
        BY <2>7, <3>1, <3>2
    <2>10. QED
      BY <2>2, <2>8, <2>9
  <1>3. QED
    BY <1>1, <1>2

LEMMA CloseCloses ==
    ASSUME IInv, CloseEnumeration PROVE Whole!Close \/ UNCHANGED wholeVars
  <1>1. StageInv /\ given' = given
    BY IInvIs DEF PullInv, CloseEnumeration
  <1>2. CASE UNCHANGED <<enumeration, stage>>
    BY <1>1, <1>2 DEF wholeVars, Rest
  <1>3. CASE enumeration # None /\ enumeration' = None /\ stage' \in {"closed", "broken"}
    BY <1>1, <1>3 DEF Whole!Close, StageInv, Rest
  <1>4. QED
    BY <1>2, <1>3 DEF CloseEnumeration

LEMMA LostBreaks ==
    ASSUME IInv, ClearContext \/ Expire
    PROVE  Whole!Break \/ Whole!PullBroken \/ UNCHANGED wholeVars
  <1>1. StageInv /\ PullInv
    BY IInvIs DEF PullInv
  <1>2. given' = given /\ stage' = IF stage = "open" THEN "broken" ELSE stage
    BY DEF ClearContext, Expire
  <1>3. CASE ClearContext
    <2>1. Rest' = Rest
      BY <1>3 DEF ClearContext, Rest
    <2>2. QED
      BY <1>2, <2>1 DEF Whole!Break, wholeVars
  <1>4. CASE Expire
    <2>1. Rest' = {} /\ stage \in {"open", "broken"}
      BY <1>1, <1>4 DEF Expire, Rest, StageInv
    <2>2. QED
      BY <1>2, <2>1 DEF Whole!Break, Whole!PullBroken
  <1>5. QED
    BY <1>3, <1>4

LEMMA OpenStepOpens ==
    ASSUME IInv,
           \/ \E argument \in Optional(Namespaces) :
                \/ OpenEnumerateInstances(argument) \/ OpenEnumerateInstanceNames(argument)
                \/ OpenExecQuery(argument)
                \/ OpenAssociators(argument) \/ OpenAssociatorNames(argument)
                \/ OpenReferences(argument) \/ OpenReferenceNames(argument)
    PROVE  Whole!Open \/ UNCHANGED wholeVars
  <1>1. host \in Hosts
    BY IInvIs
  <1>2. ASSUME NEW argument \in Optional(Namespaces),
               \/ OpenAssociators(argument) \/ OpenAssociatorNames(argument)
               \/ OpenReferences(argument) \/ OpenReferenceNames(argument)
        PROVE  Whole!Open \/ UNCHANGED wholeVars
    <2>1. hand.path # None
      BY <1>2 DEF OpenAssociators, OpenAssociatorNames, OpenReferences, OpenReferenceNames
    <2>2. OwnSpace \in Namespaces
      BY <2>1, OwnSpaceIs DEF IInv
    <2>3. /\ Fitting(Context("instances", TRUE, NoName), OwnSpace)
          /\ Fitting(Context("paths", TRUE, NoName), OwnSpace)
      BY <1>1, <2>2, ContextFits
    <2>4. CASE OpenAssociators(argument)
      BY <2>2, <2>3, <2>4, OpenOpens DEF OpenAssociators
    <2>5. CASE OpenAssociatorNames(argument)
      BY <2>2, <2>3, <2>5, OpenOpens DEF OpenAssociatorNames
    <2>6. CASE OpenReferences(argument)
      BY <2>2, <2>3, <2>6, OpenOpens DEF OpenReferences
    <2>7. CASE OpenReferenceNames(argument)
      BY <2>2, <2>3, <2>7, OpenOpens DEF OpenReferenceNames
    <2>8. QED
      BY <1>2, <2>4, <2>5, <2>6, <2>7
  <1>3. ASSUME NEW argument \in Optional(Namespaces),
               \/ OpenEnumerateInstances(argument) \/ OpenEnumerateInstanceNames(argument)
               \/ OpenExecQuery(argument)
        PROVE  Whole!Open \/ UNCHANGED wholeVars
    <2> DEFINE space == Or(argument, defaultSpace)
    <2>1. space \in Namespaces
      BY DefaultSpaceIs DEF IInv
    <2>2. /\ Fitting(Context("instances", TRUE, NoName), space)
          /\ Fitting(Context("paths", TRUE, NoName), space)
          /\ Fitting(Context("query", FALSE, space), space)
      BY <1>1, <2>1, ContextFits
    <2> HIDE DEF space
    <2>3. CASE OpenEnumerateInstances(argument)
      BY <2>1, <2>2, <2>3, OpenOpens DEF OpenEnumerateInstances, space
    <2>4. CASE OpenEnumerateInstanceNames(argument)
      BY <2>1, <2>2, <2>4, OpenOpens DEF OpenEnumerateInstanceNames, space
    <2>5. CASE OpenExecQuery(argument)
      BY <2>1, <2>2, <2>5, OpenOpens DEF OpenExecQuery, space
    <2>6. QED
      BY <1>3, <2>3, <2>4, <2>5
  <1>4. QED
    BY <1>2, <1>3

\* The other operations of a connection.
LEMMA OthersStutter ==
    ASSUME \/ \E argument \in Optional(Namespaces) :
                \/ CreateInstance(argument) \/ EnumerateInstances(argument)
                \/ EnumerateInstanceNames(argument) \/ GetInstance(argument)
                \/ EnumerateClasses(argument) \/ EnumerateClassNames(argument)
                \/ ExecQuery(argument) \/ GetClass(argument)
                \/ GetAssociators(argument) \/ GetAssociatorNames(argument)
                \/ GetReferences(argument) \/ GetReferenceNames(argument)
           \/ DeleteInstance \/ ModifyInstance \/ InvokeMethod
    PROVE  UNCHANGED wholeVars
  BY OperationStutters
     DEF CreateInstance, EnumerateInstances, EnumerateInstanceNames, GetInstance,
         EnumerateClasses, EnumerateClassNames, ExecQuery, GetClass, GetAssociators,
         GetAssociatorNames, GetReferences, GetReferenceNames, DeleteInstance,
         ModifyInstance, InvokeMethod

LEMMA StepIsWhole == ASSUME IInv, [Next]_vars PROVE Whole!Next \/ UNCHANGED wholeVars
  <1>1. CASE Named
    BY <1>1, OthersStutter, OpenStepOpens DEF Named, Whole!Next
  <1>2. CASE OfPath
    BY <1>2, OthersStutter DEF OfPath
  <1>3. CASE OfContext
    BY <1>3, PullPulls, CloseCloses, LostBreaks
       DEF OfContext, PullInstances, PullInstanceNames, Whole!Next
  <1>4. CASE Environment
    <2>1. CASE Expire
      BY <2>1, LostBreaks DEF Whole!Next
    <2>2. CASE UNCHANGED pulling
      BY <2>2 DEF pulling, wholeVars, Rest
    <2>3. QED
      BY <1>4, <2>1, <2>2 DEF Environment, MakePath, SetDefaultNamespace, Reconnect
  <1>5. CASE UNCHANGED vars
    BY <1>5 DEF vars, pulling, wholeVars, Rest
  <1>6. QED
    BY <1>1, <1>2, <1>3, <1>4, <1>5 DEF Next

\* Nothing is handed out twice, and the end of the sequence is told when all of it
\* has been handed out, however many objects an enumeration has.
THEOREM OperationsImplementEnumeration == Spec => ImplementsEnumeration
  <1>1. Init => Whole!Init
    BY DEF Init, Whole!Init, Rest
  <1>2. IInv /\ [Next]_vars => [Whole!Next]_(Whole!vars)
    BY StepIsWhole DEF Whole!vars, wholeVars
  <1>3. QED
    BY <1>1, <1>2, Invariant, PTL DEF Spec, ImplementsEnumeration, Whole!Spec

=============================================================================
