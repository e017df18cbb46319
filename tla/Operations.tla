----------------------------- MODULE Operations -----------------------------
(***************************************************************************)
(* The CIM operations of WBEMConnection                                    *)
(* (src/src/obj/lmiwbem_connection.cpp, lmiwbem_connection_pull.cpp): in   *)
(* which namespace each one asks, how the paths of its results are         *)
(* completed, and the enumerations that are pulled in parts.  What a       *)
(* client makes of a request is in ClientOperations, the transaction that  *)
(* every operation runs in, and its link, in Connection.                   *)
(*                                                                         *)
(* No operation gives up the interpreter lock: one operation is one step.  *)
(* It raises, with or without the CIMOM having done what it was asked, or  *)
(* it returns.  The program has one object path in its hand, that of the   *)
(* last result or one of its own, and one enumeration context.  An         *)
(* optional argument is a set: empty for None.                             *)
(***************************************************************************)
EXTENDS ClientOperations

CONSTANTS
    Items,      \* the objects of an enumeration
    Backends    \* the clients the connection may have

ASSUME OperationsAssumption == Backends \subseteq Clients

VARIABLES
    backend,        \* the client
    host,           \* the host of the client's URL
    defaultSpace,   \* m_default_namespace
    hand,           \* the path in the program's hand and, as history, how it got
                    \* there and, where it is known, the place of the object
    context,        \* the CIMEnumerationContext, or None
    enumeration,    \* the CIMOM's side of it, or None
    asked,          \* the last request (history), or None
    given,          \* what the enumeration gave to the program (history)
    stage           \* what the program knows of the enumeration (history)

settings == <<backend, host, defaultSpace>>
pulling == <<context, enumeration, given, stage>>
vars == <<settings, hand, pulling, asked>>

Optional(S) == {{}} \cup {{x} : x \in S}

Or(argument, default) ==
    IF argument = {} THEN default ELSE CHOOSE x \in argument : TRUE

\* A path is the program's own ("typed"), that of an object which was created,
\* enumerated, queried, found over an association or pulled ("listed"), or one that
\* came from GetInstance or InvokeMethod ("loose").
Hand(path, place, by) == [path |-> path, place |-> place, by |-> by]

Typed(path) == Hand(path, None, "typed")

Read(path, place) == Hand(path, place, "listed")

Init ==
    /\ backend \in Backends
    /\ host \in Hosts
    /\ defaultSpace \in Namespaces
    /\ hand = Typed(None)
    /\ context = None
    /\ enumeration = None
    /\ asked = None
    /\ given = {}
    /\ stage = "none"

-----------------------------------------------------------------------------
(* One request.                                                            *)

\* The namespace the caller means, and what says so: the argument, the object in
\* hand ("listed", "loose"), the path in hand ("typed") or nothing
\* but the default namespace.
Meaning(namespace, by) == [namespace |-> namespace, by |-> by]

Default == Meaning(defaultSpace, "default")

\* An operation that has nothing but the argument to go by.
MeantGiven(argument) ==
    IF argument # {} THEN Meaning(Or(argument, None), "argument") ELSE Default

\* Without an argument, an object is meant to be where it came from, a path of the
\* program's own where it says.
Meant(argument) ==
    IF argument # {} \/ hand.path = None THEN MeantGiven(argument)
    ELSE IF hand.by # "typed" THEN Meaning(hand.place.namespace, hand.by)
    ELSE IF hand.path.namespace # NoName THEN Meaning(hand.path.namespace, "typed")
    ELSE Default

\* The namespace of the path in hand, or else the default one.
OwnSpace == IF hand.path.namespace = NoName THEN defaultSpace ELSE hand.path.namespace

\* The operations that disregard a namespace argument.
OpensFromPath ==
    {"openAssociatorInstances", "openAssociatorInstancePaths", "openReferenceInstances",
     "openReferenceInstancePaths"}

\* What a request is about: a namespace argument that is disregarded, a result of
\* GetInstance or InvokeMethod ("loose"), or anything else ("plain").
Topic(call, meant) ==
    IF call \in OpensFromPath /\ meant.by = "argument" THEN "disregarded"
    ELSE IF meant.by = "loose" THEN "loose"
    ELSE "plain"

Request(call, namespace, meant) ==
    [namespace |-> namespace, meant |-> meant.namespace, about |-> Topic(call, meant)]

\* A request about an enumeration tells no namespace.
PullRequest(call, kind) == [call |-> call, kind |-> kind]

\* Mutant: a request without a namespace is sent, and answered.
AnyOperation(call, namespace, meant, results) ==
    LET space == Asked(backend, call, namespace, hand.path)
    IN  /\ asked' = Request(call, space, meant)
        /\ \/ UNCHANGED hand
           \/ Supports(backend, call) /\ hand' \in results
        /\ UNCHANGED <<settings, pulling>>

\* The operation raises, or it is answered and leaves one of "results" in the
\* program's hand.  No CIMOM answers a request without a namespace.
Operation(call, namespace, meant, results) ==
    LET space == Asked(backend, call, namespace, hand.path)
    IN  /\ asked' = Request(call, space, meant)
        /\ \/ UNCHANGED hand
           \/ /\ Supports(backend, call)
              /\ space # NoName
              /\ hand' \in results
        /\ UNCHANGED <<settings, pulling>>

\* The results of an operation that answers with instances or with their names.
Instances(call, namespace) ==
    {Read(InstanceOf(answer.path, namespace, host), answer.place) :
        answer \in Answers(backend, call, namespace, host)}

Names(call, namespace) ==
    {Read(NameOf(answer.path, namespace, host), answer.place) :
        answer \in Answers(backend, call, namespace, host)}

-----------------------------------------------------------------------------
(* The operations.                                                         *)

\* The namespace of the path counts even when it is empty.  The path of the new
\* instance is completed here.
CreateInstance(argument) ==
    LET namespace == Or(argument, IF hand.path = None THEN defaultSpace ELSE hand.path.namespace)
    IN  Operation("createInstance", namespace, Meant(argument),
                  {Read(Path(namespace, host), Path(namespace, host))})

DeleteInstance ==
    /\ hand.path # None
    /\ Operation("deleteInstance", OwnSpace, Meant({}), {hand})

\* The default namespace is not used.
ModifyInstance ==
    /\ hand.path # None
    /\ Operation("modifyInstance", hand.path.namespace, Meant({}), {hand})

EnumerateInstances(argument) ==
    LET namespace == Or(argument, defaultSpace)
    IN  Operation("enumerateInstances", namespace, MeantGiven(argument),
                  Instances("enumerateInstances", namespace))

EnumerateInstanceNames(argument) ==
    LET namespace == Or(argument, defaultSpace)
    IN  Operation("enumerateInstanceNames", namespace, MeantGiven(argument),
                  Names("enumerateInstanceNames", namespace))

\* A name among what the method returns is not completed.
InvokeMethod ==
    /\ hand.path # None
    /\ Operation("invokeMethod", OwnSpace, Meant({}),
                 {hand} \cup {Hand(answer.path, answer.place, "loose") :
                                answer \in Answers(backend, "invokeMethod", OwnSpace, host)})

\* The path of the result is the one given, whatever the instance was read from.
GetInstance(argument) ==
    LET namespace == Or(argument, OwnSpace)
        place == Path(namespace, host)
    IN  /\ hand.path # None
        /\ Operation("getInstance", namespace, Meant(argument),
                     {Hand(hand.path, place, "loose")})

EnumerateClasses(argument) ==
    LET namespace == Or(argument, defaultSpace)
    IN  Operation("enumerateClasses", namespace, MeantGiven(argument), {hand})

EnumerateClassNames(argument) ==
    LET namespace == Or(argument, defaultSpace)
    IN  Operation("enumerateClassNames", namespace, MeantGiven(argument), {hand})

ExecQuery(argument) ==
    LET namespace == Or(argument, defaultSpace)
    IN  Operation("execQuery", namespace, MeantGiven(argument), Instances("execQuery", namespace))

GetClass(argument) ==
    LET namespace == Or(argument, defaultSpace)
    IN  Operation("getClass", namespace, MeantGiven(argument), {hand})

\* Mutant: the default namespace comes before that of the path.
AssociatorsInDefault(argument) ==
    LET namespace == Or(argument, defaultSpace)
    IN  /\ hand.path # None
        /\ Operation("associators", namespace, Meant(argument), Instances("associators", namespace))

GetAssociators(argument) ==
    LET namespace == Or(argument, OwnSpace)
    IN  /\ hand.path # None
        /\ Operation("associators", namespace, Meant(argument), Instances("associators", namespace))

GetAssociatorNames(argument) ==
    LET namespace == Or(argument, OwnSpace)
    IN  /\ hand.path # None
        /\ Operation("associatorNames", namespace, Meant(argument),
                     Names("associatorNames", namespace))

GetReferences(argument) ==
    LET namespace == Or(argument, OwnSpace)
    IN  /\ hand.path # None
        /\ Operation("references", namespace, Meant(argument), Instances("references", namespace))

GetReferenceNames(argument) ==
    LET namespace == Or(argument, OwnSpace)
    IN  /\ hand.path # None
        /\ Operation("referenceNames", namespace, Meant(argument),
                     Names("referenceNames", namespace))

-----------------------------------------------------------------------------
(* Enumerations that are pulled.                                           *)

\* CIMEnumerationContext::create(); "kind" is the operation that opened the
\* enumeration (history).
Context(kind, withPaths, namespace) ==
    [at |-> host, kind |-> kind, withPaths |-> withPaths, namespace |-> namespace]

\* The CIMOM's side: it hands out a part of "all" and keeps the rest, if any.
Enumerates(kind, namespace, all, part) ==
    IF part = all
      THEN None
      ELSE [at |-> host, kind |-> kind, namespace |-> namespace, rest |-> all \ part]

\* Which pull operation a CIMOM answers for which enumeration.
Fits(call, kind) ==
    \/ call = "pullInstancesWithPath" /\ kind = "instances"
    \/ call = "pullInstances" /\ kind = "query"
    \/ call = "pullInstancePaths" /\ kind = "paths"

\* The program has the objects, or it has an exception and no context.  Only the
\* newest enumeration is followed.
Open(call, namespace, meant, opened, results) ==
    /\ asked' = Request(call, namespace, meant)
    /\ \/ UNCHANGED <<hand, pulling>>
       \/ /\ Supports(backend, call)
          /\ context' = opened
          /\ \E all \in SUBSET Items : \E part \in SUBSET all :
                /\ enumeration' = Enumerates(opened.kind, namespace, all, part)
                /\ given' = part
                /\ stage' = IF part = all THEN "ended" ELSE "open"
                /\ IF part = {} THEN UNCHANGED hand ELSE hand' \in results
    /\ UNCHANGED settings

\* The paths are taken as the CIMOM gives them.
AsGiven(call, namespace) ==
    {Read(answer.path, answer.place) : answer \in Answers(backend, call, namespace, host)}

OpenEnumerateInstances(argument) ==
    LET namespace == Or(argument, defaultSpace)
    IN  Open("openEnumerateInstances", namespace, MeantGiven(argument), Context("instances", TRUE, NoName),
             AsGiven("openEnumerateInstances", namespace))

OpenEnumerateInstanceNames(argument) ==
    LET namespace == Or(argument, defaultSpace)
    IN  Open("openEnumerateInstancePaths", namespace, MeantGiven(argument), Context("paths", TRUE, NoName),
             AsGiven("openEnumerateInstancePaths", namespace))

\* The four opens from a path take a namespace and disregard it: they ask in that of
\* the path, or in the default one.
OpenAssociators(argument) ==
    /\ hand.path # None
    /\ Open("openAssociatorInstances", OwnSpace, Meant(argument), Context("instances", TRUE, NoName),
            AsGiven("openAssociatorInstances", OwnSpace))

OpenAssociatorNames(argument) ==
    /\ hand.path # None
    /\ Open("openAssociatorInstancePaths", OwnSpace, Meant(argument), Context("paths", TRUE, NoName),
            AsGiven("openAssociatorInstancePaths", OwnSpace))

OpenReferences(argument) ==
    /\ hand.path # None
    /\ Open("openReferenceInstances", OwnSpace, Meant(argument), Context("instances", TRUE, NoName),
            AsGiven("openReferenceInstances", OwnSpace))

OpenReferenceNames(argument) ==
    /\ hand.path # None
    /\ Open("openReferenceInstancePaths", OwnSpace, Meant(argument), Context("paths", TRUE, NoName),
            AsGiven("openReferenceInstancePaths", OwnSpace))

\* Mutant: the context of a query does not keep the namespace.
OpenQueryForgets(argument) ==
    LET namespace == Or(argument, defaultSpace)
    IN  Open("openQueryInstances", namespace, MeantGiven(argument), Context("query", FALSE, NoName),
             Instances("openQueryInstances", namespace))

\* A query answers without paths: the context keeps the namespace for the pulls.
OpenExecQuery(argument) ==
    LET namespace == Or(argument, defaultSpace)
    IN  Open("openQueryInstances", namespace, MeantGiven(argument), Context("query", FALSE, namespace),
             Instances("openQueryInstances", namespace))

\* Does the CIMOM at the other end know the context, and is the call the right one?
Answerable(call) ==
    /\ Supports(backend, call)
    /\ enumeration # None
    /\ context.at = host
    /\ enumeration.at = host
    /\ Fits(call, enumeration.kind)

\* What pulled objects bring into the program's hand: instances are completed
\* with the namespace of the context and the host of the client, names are not.
PulledInstances(call) ==
    {Read(InstanceOf(answer.path, context.namespace, host), answer.place) :
        answer \in Answers(backend, call, enumeration.namespace, enumeration.at)}

PulledNames ==
    {Read(answer.path, answer.place) :
        answer \in Answers(backend, "pullInstancePaths", enumeration.namespace, enumeration.at)}

\* A pull raises without having reached the enumeration, its answer is lost, or
\* it returns a part of what is left, and the end-of-sequence flag.
Pull(call, results) ==
    /\ asked' = PullRequest(call, context.kind)
    /\ \/ UNCHANGED <<hand, pulling>>
       \/ /\ Answerable(call)
          /\ \E part \in SUBSET enumeration.rest :
                /\ enumeration' = IF part = enumeration.rest THEN None
                                  ELSE [enumeration EXCEPT !.rest = @ \ part]
                /\ \/ /\ stage' = "broken"
                      /\ UNCHANGED <<hand, given>>
                   \/ /\ given' = given \cup part
                      /\ stage' = IF stage = "broken" THEN "broken"
                                  ELSE IF enumeration' = None THEN "ended" ELSE "open"
                      /\ IF part = {} THEN UNCHANGED hand ELSE hand' \in results
          /\ UNCHANGED context
    /\ UNCHANGED settings

\* Mutant: the pull operation without paths is always used.
PullWithoutPaths ==
    /\ context # None
    /\ Pull("pullInstances", PulledInstances("pullInstances"))

PullInstances ==
    /\ context # None
    /\ LET call == IF context.withPaths THEN "pullInstancesWithPath" ELSE "pullInstances"
       IN  Pull(call, PulledInstances(call))

PullInstanceNames ==
    /\ context # None
    /\ Pull("pullInstancePaths", PulledNames)

\* Mutant: only the library forgets the enumeration.
CloseHere ==
    /\ context # None
    /\ asked' = PullRequest("closeEnumeration", context.kind)
    /\ stage' = "closed"
    /\ UNCHANGED <<settings, hand, context, enumeration, given>>

\* The context is left as it is.
CloseEnumeration ==
    /\ context # None
    /\ asked' = PullRequest("closeEnumeration", context.kind)
    /\ \/ UNCHANGED <<enumeration, stage>>
       \/ /\ Supports(backend, "closeEnumeration")
          /\ enumeration # None
          /\ context.at = host
          /\ enumeration' = None
          /\ stage' \in {"closed", "broken"}
    /\ UNCHANGED <<settings, hand, context, given>>

\* CIMEnumerationContext::clear()
ClearContext ==
    /\ context # None
    /\ context' = [context EXCEPT !.at = NoName]
    /\ stage' = IF stage = "open" THEN "broken" ELSE stage
    /\ UNCHANGED <<settings, hand, enumeration, given, asked>>

-----------------------------------------------------------------------------
(* The program and the CIMOM.                                              *)

\* A CIMInstanceName, or an instance, of the program's own; no request is made to
\* the host of a path.
MakePath(path) ==
    /\ hand' = Typed(path)
    /\ asked' = None
    /\ UNCHANGED <<settings, pulling>>

SetDefaultNamespace(namespace) ==
    /\ defaultSpace' = namespace
    /\ asked' = None
    /\ UNCHANGED <<backend, host, hand, pulling>>

\* connect() with the URL of another CIMOM; a WS-Management client keeps its own.
Reconnect(another) ==
    /\ backend = "cimxml"
    /\ host' = another
    /\ asked' = None
    /\ UNCHANGED <<backend, defaultSpace, hand, pulling>>

\* The CIMOM gives up an enumeration that nobody pulled for too long.
Expire ==
    /\ enumeration # None
    /\ enumeration' = None
    /\ stage' = IF stage = "open" THEN "broken" ELSE stage
    /\ UNCHANGED <<settings, hand, context, given, asked>>

Named ==
    \E argument \in Optional(Namespaces) :
        \/ CreateInstance(argument)
        \/ EnumerateInstances(argument)
        \/ EnumerateInstanceNames(argument)
        \/ GetInstance(argument)
        \/ EnumerateClasses(argument)
        \/ EnumerateClassNames(argument)
        \/ ExecQuery(argument)
        \/ GetClass(argument)
        \/ GetAssociators(argument)
        \/ GetAssociatorNames(argument)
        \/ GetReferences(argument)
        \/ GetReferenceNames(argument)
        \/ OpenEnumerateInstances(argument)
        \/ OpenEnumerateInstanceNames(argument)
        \/ OpenAssociators(argument)
        \/ OpenAssociatorNames(argument)
        \/ OpenReferences(argument)
        \/ OpenReferenceNames(argument)
        \/ OpenExecQuery(argument)

OfPath ==
    \/ DeleteInstance
    \/ ModifyInstance
    \/ InvokeMethod

OfContext ==
    \/ PullInstances
    \/ PullInstanceNames
    \/ CloseEnumeration
    \/ ClearContext

Environment ==
    \/ \E namespace \in Namespaces \cup {NoName} : MakePath(Path(namespace, NoName))
    \/ MakePath(None)
    \/ \E namespace \in Namespaces : SetDefaultNamespace(namespace)
    \/ \E another \in Hosts : Reconnect(another)
    \/ Expire

Next == Named \/ OfPath \/ OfContext \/ Environment

Spec == Init /\ [][Next]_vars

-----------------------------------------------------------------------------
(* Properties                                                              *)

Kinds == {"instances", "paths", "query"}

Origins == {"typed", "listed", "loose"}

Topics == {"plain", "disregarded", "loose"}

Requests == [namespace : Namespaces \cup {NoName}, meant : Namespaces, about : Topics]

PullRequests == [call : CimxmlPull, kind : Kinds]

Contexts ==
    [at : Hosts \cup {NoName}, kind : Kinds, withPaths : BOOLEAN,
     namespace : Namespaces \cup {NoName}]

Enumerations ==
    [at : Hosts, kind : Kinds, namespace : Namespaces, rest : (SUBSET Items) \ {{}}]

ASSUME NoneAssumption == None \notin Requests \cup PullRequests \cup Contexts \cup Enumerations

\* Every variable has its type.
TypeOK ==
    /\ backend \in Backends
    /\ host \in Hosts
    /\ defaultSpace \in Namespaces
    /\ hand \in [path : Paths \cup {None}, place : Places \cup {None}, by : Origins]
    /\ hand.by # "typed" => hand.place # None
    /\ context \in Contexts \cup {None}
    /\ enumeration \in Enumerations \cup {None}
    /\ asked \in Requests \cup PullRequests \cup {None}
    /\ given \subseteq Items
    /\ stage \in {"none", "open", "ended", "broken", "closed"}

\* The path of an object that was created, enumerated, queried, found over an
\* association or pulled, when it has one, is the place the object was read from: the
\* namespace that was asked, on the host that answered, even when it was pulled after
\* the default namespace or the host of the connection had changed.  Two operations are
\* not among them, because it is not so for their results: GetInstance, which
\* returns the path it was given whichever namespace it read from, and
\* InvokeMethod, which completes no path
\* (obj/lmiwbem_connection.cpp:631-636, 838-852, 905-907,
\* obj/lmiwbem_connection_pull.cpp:772-781, util/lmiwbem_convert.cpp:183-214).
PathTellsPlace == hand.by = "listed" /\ hand.path # None => hand.path = hand.place

\* An operation asks in the namespace given; without one, about a listed object in
\* the namespace it was read from, about a path of the program's own in the one it
\* names, and otherwise in the default one; or it asks without a namespace, which no
\* CIMOM answers.  Two kinds of request are excepted, because it is not so for
\* them: those of the four opens from a path that are given a namespace, which they
\* disregard against their documentation (obj/lmiwbem_connection_pull.cpp:309-677),
\* and those about what GetInstance and InvokeMethod returned, see PathTellsPlace
\* (obj/lmiwbem_connection.cpp:607-615, 655-658, 685-687, 886-890, 1122-1126).
AsksWhereMeant ==
    asked \in Requests /\ asked.about = "plain" => asked.namespace \in {asked.meant, NoName}

\* The instances of an enumeration that was opened for instances are pulled with
\* the operation that the CIMOM answers for it, with paths or without: the context
\* remembers which (obj/lmiwbem_connection_pull.cpp:761-770).
PullFits ==
    asked \in PullRequests /\ asked.call \in {"pullInstances", "pullInstancesWithPath"}
        => asked.kind = "paths" \/ Fits(asked.call, asked.kind)

Rest == IF enumeration = None THEN {} ELSE enumeration.rest

Whole == INSTANCE Enumeration WITH rest <- Rest

\* Nothing is handed out twice or left out before the end-of-sequence flag, over
\* all pulls, lost answers, changes of the host, expired, closed and cleared
\* contexts (obj/lmiwbem_connection_pull.cpp:148-833).
ImplementsEnumeration == Whole!Spec

=============================================================================
