-------------------------- MODULE ClientOperations --------------------------
(***************************************************************************)
(* What the two clients of a WBEMConnection make of a CIM operation:       *)
(* CIMXMLClient (src/src/lmiwbem_client_cimxml.cpp) hands it to Pegasus,   *)
(* WSMANClient (src/src/lmiwbem_client_wsman.cpp) turns it into requests   *)
(* of openwsman, or refuses it.  With them: how an object path that a      *)
(* CIMOM gave becomes a CIMInstanceName or the path of a CIMInstance.      *)
(*                                                                         *)
(* An object path is the place it names: a namespace of a host, either of  *)
(* which it may leave out.  Its class name and keybindings go through      *)
(* unchanged.                                                              *)
(***************************************************************************)
CONSTANTS
    Namespaces, \* the namespaces of the CIMOMs
    Hosts,      \* the hosts the CIMOMs run on
    NoName,     \* the empty namespace, the empty host name
    None        \* Python's None; an object path without a class name

Paths == [namespace : Namespaces \cup {NoName}, host : Hosts \cup {NoName}]

Places == [namespace : Namespaces, host : Hosts]

Path(namespace, host) == [namespace |-> namespace, host |-> host]

ASSUME ClientOperationsAssumption ==
    /\ NoName \notin Namespaces \cup Hosts
    /\ None \notin Paths \cup Namespaces \cup Hosts \cup {NoName}

Clients == {"cimxml", "wsman"}

-----------------------------------------------------------------------------
(* The path of a result.                                                   *)

\* CIMInstanceName::updatePegasusCIMObjectPathNamespace()
WithNamespace(path, namespace) ==
    IF path.namespace = NoName THEN [path EXCEPT !.namespace = namespace] ELSE path

\* CIMInstanceName::updatePegasusCIMObjectPathHostname()
WithHostname(path, host) ==
    IF path.host = NoName THEN [path EXCEPT !.host = host] ELSE path

\* CIMInstanceName::create()
NameOf(path, namespace, host) ==
    IF path = None THEN None ELSE WithHostname(WithNamespace(path, namespace), host)

\* CIMInstance::updatePegasusCIMInstanceNamespace(): a path without a class
\* name stays one, and is None in the end.
InstanceInNamespace(path, namespace) ==
    IF path = None THEN None ELSE WithNamespace(path, namespace)

\* CIMInstance::updatePegasusCIMInstanceHostname()
InstanceOnHost(path, host) == IF path = None THEN None ELSE WithHostname(path, host)

\* ListConv::PyFunctorCIMInstance
InstanceOf(path, namespace, host) == InstanceOnHost(InstanceInNamespace(path, namespace), host)

-----------------------------------------------------------------------------
(* CIMXMLClient: what it hands to Pegasus, in the namespace it is given.   *)

CimxmlIntrinsic ==
    {"createInstance", "deleteInstance", "modifyInstance", "enumerateClasses",
     "enumerateClassNames", "enumerateInstances", "enumerateInstanceNames", "execQuery",
     "getClass", "getInstance", "invokeMethod"}

CimxmlAssociation == {"associators", "associatorNames", "references", "referenceNames"}

CimxmlOpen ==
    {"openEnumerateInstances", "openEnumerateInstancePaths", "openReferenceInstances",
     "openReferenceInstancePaths", "openAssociatorInstances", "openAssociatorInstancePaths",
     "openQueryInstances"}

CimxmlPull == {"pullInstancesWithPath", "pullInstancePaths", "pullInstances", "closeEnumeration"}

Calls == CimxmlIntrinsic \cup CimxmlAssociation \cup CimxmlOpen \cup CimxmlPull

-----------------------------------------------------------------------------
(* WSMANClient.                                                            *)

\* The operations that raise CIM_ERR_NOT_SUPPORTED.
WsmanNoIntrinsic ==
    {"createInstance", "deleteInstance", "modifyInstance", "enumerateClasses",
     "enumerateClassNames"}

WsmanNoInstanceOpens ==
    {"openEnumerateInstances", "openEnumerateInstancePaths", "openReferenceInstances",
     "openReferenceInstancePaths"}

WsmanNoOtherOpens ==
    {"openAssociatorInstances", "openAssociatorInstancePaths", "openQueryInstances"}

WsmanNoPulls == {"pullInstancesWithPath", "pullInstancePaths", "pullInstances", "closeEnumeration"}

Unsupported == WsmanNoIntrinsic \cup WsmanNoInstanceOpens \cup WsmanNoOtherOpens \cup WsmanNoPulls

Supports(client, call) == client = "wsman" => call \notin Unsupported

\* ObjectFactory::makeCIMInstanceName(): an end point reference tells the class
\* and the keys; the place is that of the request.
EprPath(namespace, host) == Path(namespace, host)

\* The enumeration behind every WS-Management operation that returns a list;
\* the request has the host of the client.
WsmanListed(namespace, host) == {EprPath(namespace, host)}

\* enumerateInstances() and enumerateInstanceNames()
WsmanEnumerated(namespace, host) == WsmanListed(namespace, host)

\* execQuery(), when the class can be told from the query.
WsmanQueried(namespace, host) == WsmanListed(namespace, host)

\* associators() and associatorNames()
WsmanAssociated(namespace, host) == WsmanListed(namespace, host)

\* references() and referenceNames()
WsmanReferred(namespace, host) == WsmanListed(namespace, host)

\* invokeMethod() goes to the namespace of the path, whatever it is given.
WsmanInvoked(namespace, path) == path.namespace

\* The namespace in which a client asks.
Asked(client, call, namespace, path) ==
    IF client = "wsman" /\ call = "invokeMethod" THEN WsmanInvoked(namespace, path) ELSE namespace

-----------------------------------------------------------------------------
(* What comes back.                                                        *)

\* The paths by which a CIMOM may call an object in a place: all of it, or less.
Partly(place) ==
    {Path(namespace, host) : namespace \in {NoName, place.namespace}, host \in {NoName, place.host}}

Answer(path, place) == [path |-> path, place |-> place]

\* The operations that follow associations, which may lead to another namespace.
Elsewhere ==
    CimxmlAssociation \cup
        {"openReferenceInstances", "openReferenceInstancePaths", "openAssociatorInstances",
         "openAssociatorInstancePaths", "pullInstancesWithPath", "pullInstancePaths"}

\* Pegasus and the CIMOM: the open and pull operations name their objects in full,
\* so do those that lead elsewhere; the others name them as they like, and a query
\* need not name them at all.
CimxmlAnswers(call, namespace, host) ==
    LET here == Path(namespace, host)
        spaces == IF call \in Elsewhere THEN Namespaces ELSE {namespace}
        inFull == {Answer(Path(n, host), Path(n, host)) : n \in spaces}
        partly == {Answer(p, here) : p \in Partly(here)}
    IN  IF call \in {"openQueryInstances", "pullInstances", "execQuery"}
          THEN partly \cup {Answer(None, here)}
          ELSE IF call \in CimxmlOpen \cup CimxmlPull THEN inFull ELSE inFull \cup partly

WsmanAnswers(call, namespace, host) ==
    LET found == IF call \in {"associators", "associatorNames"} THEN WsmanAssociated(namespace, host)
                 ELSE IF call \in {"references", "referenceNames"} THEN WsmanReferred(namespace, host)
                 ELSE IF call = "execQuery" THEN WsmanQueried(namespace, host)
                 ELSE WsmanEnumerated(namespace, host)
    IN  {Answer(p, Path(namespace, host)) : p \in found}

Answers(client, call, namespace, host) ==
    IF client = "cimxml" THEN CimxmlAnswers(call, namespace, host)
                         ELSE WsmanAnswers(call, namespace, host)

=============================================================================
