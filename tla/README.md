# python-lmiwbem in TLA+

python-lmiwbem is a WBEM client for Python, written in C++ over OpenPegasus
(CIM-XML) and openwsman (WS-Management). This directory holds TLA+ models of its
stateful parts, TLC runs that check them on small instances, and TLAPS proofs of
their most important properties for all instances. Paths below are relative to
the repository, which is mounted as `src/`; its C++ code is in `src/src/`.

`PROJECT.json` lists the components, the runs with their properties, a mutant of
the code for every property, the source lines of every definition, the hazards,
the findings and the theorems.

## 1. The system

| component | state | operations | what is hard |
|---|---|---|---|
| Indication listener, `obj/lmiwbem_listener.cpp` | `m_listener`, `m_terminating`, `m_handlers`, `m_port`, `m_mutex` | `start`, `stop`, `is_alive`, `uses_ssl`, `add_handler`, `remove_handler`; `consumeIndication` in foreign threads | two locks, callbacks during `stop()`, handlers that call back into the object, port retries |
| Interpreter lock scopes, mutex, `lmiwbem_gil.cpp`, `lmiwbem_mutex.cpp` | the locks | scoped acquire and release | order of acquisition |
| Connection, `obj/lmiwbem_connection.cpp` | user name, password, certificate, namespace, `m_connect_locally`, client type | constructor, `connect`, `connectLocally`, `disconnect`, properties, 15 CIM operations | temporary links, partial failure, settings that outlive calls |
| Clients, `lmiwbem_client*.cpp` | URL object, `m_is_connected`, the library's handle, `m_mutex` | `connect`, `connectLocally`, `disconnect`, operations | two clients with different notions of "connected" |
| URL information, `lmiwbem_urlinfo.cpp` | host, port, path, scheme, login, flags | `set`, `url` | an object is parsed into many times and keeps what it finds nothing for |
| Pull operations, `obj/lmiwbem_connection_pull.cpp`, `obj/cim/lmiwbem_enum_ctx.cpp` | enumeration contexts | 7 opens, 2 pulls, close | contexts outlive links, default namespaces and hosts; lost answers |
| CIM objects, `obj/cim/*.cpp`, `lmiwbem_refcountedptr.h` | members, each waiting in a `RefCountedPtr` or read into a Python object | getters, setters, `copy`, conversion, comparison | order of reading, reads that raise half-way, what two objects share |
| NocaseDict, `obj/lmiwbem_nocasedict.cpp` | an ordered map | dictionary methods, iterators | iterators under change, spelling, comparison |
| SLP, `obj/lmiwbem_slp.cpp` | none beyond a call | `discover`, `discoverAttrs` | errors in callbacks |
| Configuration, conversions, exceptions | process-wide settings | | none |

How they interact. Python code calls a `WBEMConnection`, which owns one client;
the client owns one URL object and one handle of its library. Every CIM operation
takes the client's lock, opens a temporary link unless the client says that it
is connected, asks the CIMOM, and undoes both. None of these methods gives up the
interpreter lock, so to other Python threads each of them is one step. The listener
is different: OpenPegasus calls `consumeIndication` from threads of its own,
which take `m_mutex`, test `m_terminating`, take the interpreter lock and run
Python handlers, which may switch to other Python threads and call any method.
`stop()` gives up the interpreter lock to let them finish.

What makes each part correct:

* listener: handlers run one at a time; after `stop()` none runs; `stop()` returns;
  no circle of threads waits for itself; nothing freed is used; a running
  listener does not drop indications;
* port retry: the listener ends on the first free port of its range, `port` says
  which, and it gives up only when all were refused;
* URL object: it stands for the URL given last, and survives being printed and
  parsed again;
* connection: an operation over CIM-XML leaves the link as it found it, whatever fails;
  new links go where the settings say; `is_connected` tells the truth about a
  CIM-XML link; an operation over WS-Management always has a valid URL to ask;
* operations: a request goes to the namespace that was meant (the one given, the one the
  object came from, or the default); a result says where it came from, also when the
  default namespace or the host has changed since (with the exceptions of section 6);
* enumerations: over any number of pulls, lost answers and closed contexts every
  object is handed out once, and the end of the sequence is reported when all were;
* CIM objects: a caller cannot tell that members are read late, but for a value that is
  lost in a copy and a reference that follows the path; a setter is not undone by a later
  read; two objects have no dictionary in common but one the program gave to both;
* NocaseDict: keys keep their first spelling; an iterator hands out what was there when
  it was made.

## 2. Modules

| module | models | used by |
|---|---|---|
| `Listener` | the listener, its locks and threads | `MCListener`, `ListenerProofs` |
| `ListenerService` | what the listener promises, without locks | `Listener` (`Service`, refinement) |
| `PortRetry` | the loop of `start()` over port numbers | `MCPortRetry`, `PortRetryProofs` |
| `URLInfo` | `set()`, `url()` and the rest of the URL class, as operators | `URLObject`, `Connection` |
| `URLObject` | the life of one URL object | `MCURLObject`, `URLObjectProofs` |
| `Connection` | `WBEMConnection` over either client; uses `URLInfo` for the client's URL | `MCConnection`, `ConnectionProofs` |
| `ConnectionSession` | what a connection promises about its link | `Connection` (`Session`, refinement) |
| `ClientOperations` | which operations each client makes, where it sends them, how their answers name objects | `Operations` |
| `Operations` | the CIM operations of `WBEMConnection`, with the enumerations that are pulled | `MCOperations`, `OperationsProofs` |
| `Enumeration` | what an enumeration promises | `Operations` (`Whole`, refinement) |
| `NocaseDict` | the dictionary, its iterator and its comparisons, as operators | `CIMClasses` |
| `CIMClasses` | what distinguishes the classes of CIM objects: tables of members | `Objects`, `EagerObjects` |
| `Objects` | the life of one CIM object of any class, and of a second one | `MCObjects`, `ObjectsProofs`, `EagerProofs` |
| `EagerObjects` | objects that have all their members from the beginning | `Objects` (`Eager`, refinement) |
| `URLInfoProofs` | lemmas about parsing | `URLObjectProofs`, `ConnectionProofs` |
| `ListenerProofs`, `PortRetryProofs`, `URLObjectProofs`, `ConnectionProofs`, `OperationsProofs`, `ObjectsProofs` | the theorems about the module of that name, section 5 | |
| `EagerProofs` | that `Objects` implements `EagerObjects`, and what setters leave; builds on `ObjectsProofs` | |

### Listener

A thread's `pc` names the statement it executes next. Callers are Python
threads; dispatchers are threads of OpenPegasus, which are `"idle"` outside
`consumeIndication`. `MayCall` says which methods the Python code of a thread
calls; for a dispatcher that code is the handlers, so a handler that calls the
listener is a dispatcher with methods. `gil` and `mutex` are the two locks.

| variable | code |
|---|---|
| `gil` | the interpreter lock, `lmiwbem_gil.cpp` |
| `mutex` | `m_mutex`, `lmiwbem_listener.h:128` |
| `terminating` | `m_terminating` |
| `listener` | `m_listener`: null, or the state of its object |
| `handlers` | `m_handlers`, as the number of handlers of each name |
| `iter` | the iterator of `call()`, 366-368, with a flag for a freed list |
| `tries` | binds that `start()` has left |
| `late` | callbacks a listener that is stopping may still begin |
| `fault` | the first use of freed or null memory; the model stops there |

| actions | code (`lmiwbem_listener.cpp`) |
|---|---|
| `Start`, `CreateListener`, `Bind`, `BindFails`, `BindFreed` | `start`, 187-248 |
| `Stop`, `StopFlag`, `StopListener`, `StopNull`, `StopWait`, `StopReset`, `StopReturn` | `stop`, 250-268 |
| `IsAlive`, `IsAliveFollow`, `IsAliveNull` | `is_alive`, `uses_ssl`, 270-282 |
| `AddHandler`, `RemoveHandler` | 304-346 |
| `Deliver` | OpenPegasus's dispatcher (external) |
| `Enter`, `CheckTerminating`, `AcquireGil`, `CallHandler`, `HandlerReturns`, `CallFreed`, `CallDone`, `Unlock` | `consumeIndication` and `call`, 55-107, 357-369 |
| `TakeGil`, `YieldGil` | CPython (external) |

OpenPegasus is known only from its use: `CIMListener::stop()` returns when no
callback is in flight, and may begin callbacks until then (the comment in `stop()`,
255-261, relies on both).

### PortRetry

`start()` keeps the interpreter lock throughout, so its loop is sequential; what
changes under it is the set of ports that other programs hold (`OthersBind`). In
`Listener` the same loop is abstracted to the binds that are left and a free
choice between success and failure.

### URLInfo and URLObject

A URL is a record of scheme, login, host, port and path, each with the kinds the
parser tells apart: a scheme that is local, accepted or refused; user information
that is absent, complete or without a colon; a port that is absent, good or bad.
`Set` is the parser with its early returns in their order: a refused port leaves
the new host and login behind, a URL that ends with its host leaves the old
path. `Url` prints an object. `PortNotSet` stands for `~0` as a 32-bit number, of
which only the number of digits counts. `URLObject` applies `Set` again and again,
with URLs from the program and with the object's own `Url`, as temporary connections
do (`obj/lmiwbem_connection.cpp:105-113`).

### Connection

| variable | code |
|---|---|
| `client` | `m_type` |
| `locally`, `login`, `cert` | `m_connect_locally`; `m_username` and `m_password`; `m_cert_file` and `m_key_file` |
| `timeout`, `info`, `connected`, `locked` | the client's timeout, `m_url_info`, `m_is_connected`, `m_mutex` |
| `link` | what the library's handle is connected to |
| `temporary`, `pc` | `m_conn_orig_state` (negated) and the step of an operation |
| `outcome` | how the last method ended |
| `named`, `wasLocal`, `logins`, `made` | history, for the properties only |

An optional argument is a set with at most one element. Each method of the class is
one action (`Connect`, `ConnectNowhere`, `ConnectLocally`, `Disconnect`,
`SetConnectLocally`, `SetCredentials`, `SetTimeout`, `Destroy`). A CIM operation
is four: `BeginTransaction`, `OpenTemporary`, `Work`, `EndTransaction`; the macros
of `obj/lmiwbem_connection.h:64-72` put all of them, 601-1356 and the pull
operations, into this frame. `CimxmlConnect` and `WsmanConnect` are the two clients.
Every step that talks to a CIMOM may fail, with the state the code leaves then.

What a connection promises about its link, `ConnectionSession`, is a promise of CIM-XML
connections. A WS-Management connection makes a link in `connect()`, never notes it, and
lets the next operation replace and end it: `ImplementsSession` is stated without it, and
`FlagTells` says of it that the flag is never set. What it does promise is `WsmanCanAsk`.

### ClientOperations and Operations

`Connection` models the frame of an operation, `Operations` what is in it. No operation
gives up the interpreter lock, so each is one action that raises or returns.
An object path is the place it names, a namespace of a host, either of which may be missing; the
class name and the key bindings pass through unchanged. Every object also has the place
it really is at, so that a path can be compared with the truth.

| variable | code |
|---|---|
| `backend`, `host`, `defaultSpace` | `m_type`, the host of the client's URL, `m_default_namespace` |
| `hand` | the path (or the path of the instance) that the program holds; with it, as history, how it got there (`by`: `"typed"`, `"listed"`, `"loose"`) and, where it is known, the place of the object |
| `context` | `CIMEnumerationContext`: its Pegasus context (the host, or cleared), `m_with_paths`, `m_namespace`; the kind is history |
| `enumeration` | the CIMOM's side of it: what it still has to hand out (external) |
| `asked`, `given`, `stage` | history: the last request, where it was meant to go and whether a property excepts it (`Topic`), what the enumeration handed out, what the program knows of it |

| actions | code |
|---|---|
| `CreateInstance`, `DeleteInstance`, `ModifyInstance`, `GetInstance`, `InvokeMethod`, `Enumerate...`, `ExecQuery`, `GetClass`, `GetAssociators`, ... | the operations of `obj/lmiwbem_connection.cpp`, 601-1356 |
| `OpenEnumerateInstances`, ..., `OpenExecQuery` | the seven opens of `obj/lmiwbem_connection_pull.cpp` |
| `PullInstances`, `PullInstanceNames`, `CloseEnumeration`, `ClearContext` | pulls and the end of contexts, 737-833; `clear()` |
| `SetDefaultNamespace`, `Reconnect`, `MakePath` | the property, `connect()` with another URL, paths that the program makes |
| `Expire` | the CIMOM gives an enumeration up (external) |

`AsGiven`, `Names`, `Instances`, `PulledInstances` and `PulledNames` are the five ways in which paths of results are
completed or left as they are. A pull may fail before it reaches the CIMOM or after:
in the second case a part of the enumeration is lost, and the program knows it from the
exception. Every optional namespace of the documentation is an argument of its action, also
where the code does not look at it (the four opens from a path). What an operation is meant
to ask about (`Meant`) is said without looking at what the code does; where the code
differs, the property names the exception and section 6 lists it.

### NocaseDict, CIMClasses and Objects

A key of a `NocaseDict` is a name (the key in lower case) and a spelling. `CIMClasses`
holds one row per class: the members `create()` leaves waiting (`Lazy`), those that a constructor
keeps as they are given (`Keeps`), what a getter reads (`Reads`), what a
setter takes (`Takes`), what `copy()` and the conversions read, in order (`Copies`, `Converts`), and what the
comparisons look at in Python 2 (`Compares`) and in Python 3 (`Operators`). `Objects` is the same machine for all of them.

| variable | code |
|---|---|
| `kind`, `touched`, `sent` | the class; the members this program changes; what the CIMOM sent |
| `cached` | the members whose `RefCountedPtr` is not empty |
| `held`, `cell` | the `bp::object` of each member, as the number of the cell it refers to, and what is in the cells: 0 is the default argument of the constructor, 1 and 2 serve the two objects |
| `shared` | history: the members the program gave the one object of the other |
| `changed` | a `CIMProperty` of the CIMOM's was changed in place |
| `iterator`, `history` | a `NocaseDictIterator`; what the dictionary was, and the names handed out |

| actions | code |
|---|---|
| `GetMember`, `Convert`, `Compare` | getters, `asPegasus...()` and `tomof()`, rich comparison: they read members up to the first that raises |
| `SetMember`, `ShareMember`, `PutItem`, `RemoveItem`, `ClearItems`, `UpdateItems`, `PutValue`, `PutHost` | setters, and changes through what getters return |
| `Copy`, `Construct` | `copy()`, and a constructor called with nothing, a `dict`, a `NocaseDict`, or members of the first object |
| `Iterate`, `NextItem`, `IterateAgain` | `NocaseDictIterator` |

Reading the properties of an instance with a reference property reads its path, gives the
reference the path's host and raises when there is no path; a read that raises leaves
a part of the properties and the list of the CIMOM, which is read again. In `EagerObjects`
nothing waits and a copy has all the contents. The two places where the code differs from
that are not in it, but named beside it in `ImplementsEager`: `LostValue`, a value that was not read
when it was copied, and `LateReference`, a reference among properties that wait takes the
host of a path that is set meanwhile.

The setters and constructors keep what they are given, so a program can make two objects share a
dictionary or a path, as in `b.path = a.path` or `CIMClass(.., a.properties)`. `SetMember`
is given what no object has, `ShareMember` what the getter of the other object returns, and
`Construct` any of the touched members of the first object. `shared` names what the program
has shared, and is what `Apart` excepts.

## 3. Runs

| run | states | bounds | shows |
|---|---|---|---|
| `Listener` | 8,856 | 2 callers, 2 dispatchers, 2 names, 2 handlers each, 2 retries, 2 late callbacks | all properties of a program that keeps the rules below |
| `ListenerAny` | 14,004 | the same, 1 name, every thread calls everything except `stop()` in handlers | what holds without the rules |
| `PortRetry` | 2,048 | ports below 5, first port 2, 3 or 5, arguments -1 to 3 | the walk over ports, at the limit too |
| `URLObject` | 1,108 | 2 hosts, 2 logins, every form of path, port and user information, refused URLs of each kind | what of earlier URLs stays |
| `Connection` | 64,664 | both clients, 4 URLs (plain, with login and for WS-Management, local, refused), 2 logins in URLs, 2 users, 1 certificate | link, flag, lock and settings under every failure |
| `Operations` | 91,040 | both clients, 2 namespaces, 2 hosts, 2 objects per enumeration, symmetric | where requests go and results come from, and what enumerations hand out |
| `Objects` | 59,701 | all classes, 2 names, 2 spellings, 2 hosts; a program changes one member | where late reading shows and where not; copies, members given away, setters; iterators |
| `StopInHandler`, `TwoStoppers`, `LiveRemoval` | | 1 dispatcher, exactly one rule broken | findings, section 6 |
| `ConnectReachesUrl` | | CIM-XML | finding, section 6 |
| `CopyIsWhole` | | as `Objects` | finding, section 6 |

Why the bounds are enough. Two dispatchers are needed for one to wait while the
other handles; two callers for one to start while the other stops, and a second name
so that a removal misses the list in use. Two handlers per name give `call()` a
next element to go to. The proofs remove these bounds for the safety properties.
In `PortRetry` the range crosses the last port from below, at it and above. In
`URLObject` the second URL is what matters, as a parse depends only on the object and
its argument. `Connection` needs a link, a failure and a later operation, for which
two hosts and two users suffice to tell "old" from "new". In `Operations` a request or a path goes
wrong by naming one place for another, for which two of each suffice; two objects let an
enumeration end at once, later, or in the middle, and with one of them lost. In `Objects` members only
meet where one is read to read another, which is the path for the properties: a program that changes
either one, and reads both, is enough to see it (`MaxTouched` bounds the programs; the proofs do not).
Two names order a dictionary and give an iterator a next key, two spellings let an assignment change one.

`MCObjects` also has assumptions, which TLC evaluates first: they compare the operators of
`NocaseDict` and the comparisons of all classes with reference definitions, on all
dictionaries over two names and on objects that differ in up to two fields. Iteration is in the order of the names,
`update()` is a sequence of assignments, the orders of dictionaries are orders (Python 3) and equality is
what it should be, and where both Pythons can compare objects that differ in strings, flags and numbers, they
agree (`ComparisonsAgree`; an instance has another class's operators in Python 3 and is left out); `ComparedDicts` and `GreaterAndSmaller` state two things that are not
as a caller may expect, see section 6.

`CHECK_DEADLOCK FALSE` stands where a run may stop: `Connection` ends with the
destructor, `ListenerAny` and the violation runs with a memory error or (`StopInHandler`)
a deadlock. The run `Listener` checks deadlock.

**Fairness.** `Listener`: strong fairness for threads in `stop()` and in
`consumeIndication`, as they contend for locks that CPython and pthreads hand on
and may be passed by now and then; handlers return; whoever runs Python code gives
the interpreter lock up on request (CPython's switch interval). No fairness for calling a
method or for indications to arrive. `PortRetry`: weak fairness of the loop's
step, which waits for nothing. The other specifications have no fairness, and no liveness
is claimed of them: the timeout of a WS-Management client has no effect
(`lmiwbem_client_wsman.cpp:157-168`), so its operations need not end. Starting and stopping
for ever, and programs that never call anything again, are allowed.

## 4. Rules the listener needs

`Discipline` in `Listener` collects what a program must do for the class to be
correct; the documentation states none of it, and each of the first, second and
fourth is shown to be needed by a violation run:

1. one thread only calls `stop()` (`OneStopper`, run `TwoStoppers`);
2. handlers do not call `stop()` (`HandlersDoNotStop`, run `StopInHandler`);
3. no other caller thread asks `is_alive` or `uses_ssl` (`OnlyTheStopperAsks`); a handler
   may, because `stop()` waits for it;
4. handlers are removed only while there is no listener (`~LiveRemoval`, run
   `LiveRemoval`).

## 5. Proofs

| module | theorem | property | from |
|---|---|---|---|
| `ListenerProofs` | `TypeCorrect`, `Serialised`, `FlagDrains` | `TypeOK`, `HandlersSerialised`, `TerminatingIsQuiet` | every program |
| | `DeadlockFree` | `NoCircularWait` | `HandlersDoNotStop` |
| | `MemorySafe`, `StopDrains`, `Handles`, `Implementation` | `NoMemoryError`, `StoppedIsQuiet`, `RunningHandles`, `ImplementsService` | `Discipline` |
| `PortRetryProofs` | `WalkTypeCorrect`, `WalkFindsFirst`, `WalkTriesAll` | `TypeOK`, `RunsOnFirstFree`, `GivesUpAfterAll` | |
| `URLObjectProofs` | `URLTypeCorrect`, `OwnUrlComesBack`, `InvalidStaysInvalid`, `LastUrlCounts` | `TypeOK`, `RoundTrip`, `InvalidStays`, `StandsForLast` | |
| `ConnectionProofs` | `TypeCorrect`, `FlagCorrect`, `OperationsSafe`, `WsmanAsks`, `Implementation`, `LinksFollow`, `TemporaryLinks` | `TypeOK`, `FlagTells`, `WorksLinked`, `WsmanCanAsk`, `ImplementsSession`, `NewLinkFollows`, `TemporaryLikeLast` | |
| `OperationsProofs` | `OperationsTypeCorrect`, `PathsTellPlaces`, `AskedWhereMeant`, `PullsFit`, `OperationsImplementEnumeration` | `TypeOK`, `PathTellsPlace`, `AsksWhereMeant`, `PullFits`, `ImplementsEnumeration` | |
| `ObjectsProofs` | `ObjectsTypeCorrect`, `CopiesApart`, `KeysStaySpelled`, `IteratorsKeep` | `TypeOK`, `Apart`, `SpellingKept`, `IteratesSnapshot` | |
| | `OrderedOnce`, `DictionariesOrdered`, `ComparedByValues` | (operators, for all dictionaries) | |
| `EagerProofs` | `LateIsEarly`, `SettersAre` | `ImplementsEager`, `SettersHold` | |

All rest on the named assumptions on the constants, which TLC evaluates in the
runs, and on nothing else.

*Listener.* `LocksInv` is inductive for every program: a lock is held exactly where
the code holds it, and no dispatcher is past the test while the flag is set. The
first half makes handlers exclusive; for the second, `StopFlag` needs `m_mutex`
free, which by the first half means that nobody handles. `NoCircularWait` adds that a
dispatcher is never inside `stop()`; then the ranks of the waiting places decrease along
every wait. `IInv` is inductive for disciplined programs. Its core, `ListenerInv`,
says at each statement which state of `m_listener` it finds, and conversely that an object
that is being created or stopped has a thread that does it: with the rules,
that thread is unique, so nobody else can free the object. The refinement follows action by action:
`StopFlag` begins to close, `StopReset` closes, `CheckTerminating` begins to handle and
`CallDone` ends.

*PortRetry.* `WalkInv` says that inside the loop exactly the ports before the current
one were refused and nothing has moved.

*URL object.* `URLInv` adds `ValidMeans`, what validity is made of: an object with a
host and a port prints a URL that is accepted again. The lemmas on `Set` are in
`URLInfoProofs`.

*Connection.* `ConnectionInv` relates the step of an operation to the lock, the link
and the flag (`StepInv`): every operation of a WS-Management connection makes its own link, and
one of a CIM-XML connection exactly when the flag, and so the link, was down. So the link that
the end of the operation ends is one that the operation made. `WsmanCanAsk` is part of the
invariant, because `Opening` needs a URL that is valid.

*Operations.* A hand remembers, as `by`, how the path got there: from the program, with an object that
was listed, or loose from `GetInstance` or `InvokeMethod`. `GoodHands` are the hands in which
the path of a listed object is the object's place. Every way of completing a path yields one, given that the
CIMOM names its objects by their places or by parts of them; for pulled instances of a query this needs
`ContextInv`, that an enumeration for a query is pulled with the namespace it was opened
in, from the host it was opened on. `AsksWhereMeant` follows, because an object's own path
is what the operations take a namespace from (`OwnLands`, `GivenSpaceIs`); the requests it excepts are
told by `Topic` from the operation, the argument and the hand alone (`LooseLands`, `DisregardLands`). `StageInv` relates what the program knows to what the CIMOM still
has: with it every open, pull, close and failure is a step of `Enumeration`.

*Links.* `LinkInv` is what `NewLinkFollows` and `TemporaryLikeLast` need beyond the
type. `UrlInv`: the client's URL is valid exactly when it has a host and a port, it is local only
after the program asked for this machine, and until then its host is that of a URL that was given.
`MadeInv`: the last link is what the URL object makes again. A temporary link parses the object's
own URL, which the lemmas of `URLInfoProofs` show to change nothing, so it goes to the same host
with the same login.

*Objects.* `ObjectsInv` adds three parts to the type. `WaitInv`: the second object has nothing
that waits, and a member of the first that waits refers to nothing but what a read that
raised has left. `Apart`: where the two objects refer to one cell, it is the default argument or the
program has shared the member, and nobody else refers to the cell that a member which waits is read into. `DictInv`: a
`NocaseDict` of the program is always a dictionary. `Apart` is inductive with the other
two: a setter that is given something new, a copy and a constructor write to a cell that the other object does not refer
to (`Free`), a getter to the cell of its own object, and what is shared by `ShareMember` or `Construct` is in `shared`
until a setter or another second object replaces it. The tables of `CIMClasses` are
checked row by row (`RowOK`, `ReadsOK`, `CopiesOK`); beyond that, the proof does not depend on the class.
For `SpellingKept` the operators of `NocaseDict` are shown to keep the spelling of every key that stays.

*Iterators.* `IterInv` says that what an iterator has handed out are as many names as are gone from
its rest, each in its place of the order, and that every name in the rest is above them. The
order of the names needs no induction: the place of a name is how many names are below it
(`Below`, `Nth`), and a set of names, being finite, has a least one (`LeastIs`) and a name in every
place (`OrderedType`). So `NocaseDictAssumption` asks for finitely many names.

*Comparisons.* The same lemmas give the operators of `NocaseDict` their meaning for all
dictionaries: the first place in which two differ decides (`SmallerAt`), and in one place exactly one of "same",
"smaller" and "greater" holds (`OneOfThree`). These theorems state for every dictionary what the assumptions of
`MCObjects` evaluate on small ones.

*Late is early.* `HeldSoFar` and `CellSoFar` show every member that waits as what its getter would return. For
this to be a state of `EagerObjects` more is needed than `ObjectsInv`: `ContentInv` says that what an object
refers to is there (a cell never is empty behind a reference), that an object refers to nothing only for a path or
a value, that the default arguments of constructors are there from the beginning, and that nobody refers to a value
that waits. With it, the proof goes along what the operations are made of. A read of members, complete or up to
the first that raises, shows nothing (`ReadSeen`), because what a getter puts into a cell is what was seen in it before. Putting
something into a member is seen as putting it there, whether the member waited or not (`PutSeen`), and sharing a member as
sharing it (`ShareSeen`); only when the member is the path of an instance whose properties wait with a reference, that reference is
seen to move as well: then the step is `LateReference` (`Late`). A setter or a change in place is a read followed
by one of these (`AlterRefines`, `SetMemberRefines`, `ShareMemberRefines`); `Copy` and `Construct` fill the cells of the second
object with what is seen of the first (`CopyRefines`, `ConstructRefines`), and a copy while the value waits is
`LostValue`. The tables of the classes are those of `EagerObjects` (`SameTables`), and what the proof needs of
them is again checked row by row (`RowGives`, `RowTakes`, `RowNoValue`). `SettersAre` follows from the same lemmas: what a
setter leaves is what is seen after it. The assumptions on the constants say that `None` and the plain dict
`Raw` are no dictionaries, values or cells, as in the program.

Only model-checked: the liveness properties `StopReturns`, `IndicationsComplete` and
`StartReturns`, which need fairness and are beyond the prover; and of the assumptions of
`MCObjects` `UpdateAssumption` and `FirstSpellingLastValue`, because `update()` with a
plain dict goes through its items and would need an induction over them, `ComparisonsAgree` and
`GreaterAndSmaller`, which follow from the definitions, and `PopAssumption`, which restates one.

## 6. Findings

Shown by a run that TLC ends with a counterexample, see `PROJECT.json`:

* `StopInHandler`: a handler that calls `stop()` deadlocks on `m_mutex`.
* `TwoStoppers`: two threads in `stop()` follow a null or freed `m_listener`.
* `LiveRemoval`: `remove_handler()` frees the list that `call()` walks.
* `ConnectReachesUrl`: once local, always local: `connect(url)` goes to this machine.
* `CopyIsWhole`: `copy()` of a `CIMProperty` whose value was not read has no value
  (`obj/cim/lmiwbem_property.cpp:331`), although the documentation promises a copy of the
  object (`lmiwbem_property.pydoc:52`); `LostValue` is the same step in `ImplementsEager`.

Stated by a property of a passing run, which names the exception:

* `is_connected` of a WS-Management connection is never true, link or not (second half of
  `FlagTells`; `lmiwbem_client_wsman.cpp:122-142`, connection pydoc 84).
* A WS-Management connection goes to the URL of its constructor in every operation, whatever
  URL `connect()` was given, and replaces and ends the link that `connect()` made
  (`NewLinkFollows` and `ImplementsSession` are about CIM-XML only; `lmiwbem_client_wsman.cpp:130-139`,
  connection pydoc 46). A login in the URL is ignored (`NEWS:17`).
* `OpenAssociators`, `OpenAssociatorNames`, `OpenReferences` and `OpenReferenceNames` take a
  namespace and disregard it (`"disregarded"` in `AsksWhereMeant`;
  `obj/lmiwbem_connection_pull.cpp:309-677`, connection pydoc 587, 630, 671, 712).
* `GetInstance` in another namespace returns an instance with the path of its argument, so
  `ModifyInstance` of the result writes elsewhere, and references among the values that
  `InvokeMethod` returns are not completed with host and namespace (`"loose"` in `PathTellsPlace` and
  `AsksWhereMeant`; `obj/lmiwbem_connection.cpp:838-852, 905-907`, connection pydoc 237).
* A setter keeps what it is given, so `b.path = a.path` lets two instances share a path, and
  `CIMClass`, `CIMParameter` and `CIMProperty` constructed without a dictionary share one default
  `NocaseDict` (`obj/cim/lmiwbem_instance.cpp:537-561`, `lmiwbem_class.cpp:84-86`, `lmiwbem_parameter.cpp:88`,
  `lmiwbem_property.cpp:122`): the exceptions in `Apart`.

Other disagreements between code and documentation met while modelling, for which
there is no run. Some are visible in the models as behaviour of the code.

* `is_alive` of another thread during `stop()` follows a pointer that is being reset
  (`obj/lmiwbem_listener.cpp:270-273`, pydoc 119-122); rule 3 above excludes it.
* `start(0)` returns without a listener and without an error (pydoc 45-54).
* The example of `start(10)` on port 12345 says the range is <12345-12355>, the code
  ends at 12354 (pydoc 56-61). A first port above 65535 is tried once although "TCP
  port is out of range" (234-235).
* `connect(url)` keeps path and login of earlier URLs where the new one has
  none, and a login from a URL beats the user name of every later `connect()`
  (`lmiwbem_client_cimxml.cpp:50, 59-85`, connection pydoc 46-48).
* After a failed `connect()`, `hostname` is that of the URL that failed
  (`lmiwbem_client_cimxml.cpp:51`), and later operations report "constructed with invalid url" for it.
* `no_verification` of `connect()` is `False` when left out, not `None` as documented
  (`obj/lmiwbem_connection.cpp:268`, pydoc 40-41), so it resets what the constructor was given.
* The timeout of a connection constructed with `connect_locally` is not the documented
  60000 ms (`obj/lmiwbem_connection.cpp:174-177`, pydoc 96).
* `ModifyInstance` never uses the default namespace.
* For WS-Management, results are named with the namespace of the request, and a method is invoked
  without one.
* `CIMInstance.copy()` shares the `CIMProperty` objects of the two dictionaries, and raises for an instance
  without a path.
* The properties of an instance without a path, as queries return them, cannot be read when one is a
  reference; with a path, the first read overwrites the host of every reference.
* `CIMProperty::getType()` returns the name (`obj/cim/lmiwbem_property.cpp:342-345`). In Python 3, the
  comparisons of `CIMInstance` are bound to those of `CIMInstanceName`
  (`lmiwbem_instance.cpp:115-119`). The keywords of `CIMClassName` come in another order than
  the constructor's parameters, so host and namespace change places (`lmiwbem_class_name.cpp:39-66`).
* In Python 3, `>` and `<` of CIM objects are no orders: both can hold between two objects
  (`GreaterAndSmaller`). Dictionaries that differ in the spelling of a key are equal for the one Python and not for
  the other (`ComparedDicts`).
* Qualifiers of a property are read, but not sent (`CIMProperty::asPegasusCIMProperty`).

## 7. Not modelled

* TLS: the verification flag, certificate checking, the `SSLContext` of the listener.
* Bracketed IPv6 hosts in URLs, and `errno` left over from other calls (`lmiwbem_urlinfo.cpp:190`).
* Accepted languages and process-wide configuration.
* A C++ exception in `consumeIndication`, and the destructor of a listener that was not stopped.
* The text of `repr()` and `tomof()`; members of CIM objects that are plain strings and numbers; `CIMValue`,
  `CIMTypes` and the constants, which convert one value without keeping state.
* `property_list` of `CIMInstance`, which its getter and setter read and replace together with the
  properties (`obj/cim/lmiwbem_instance.cpp:521-571`); one dictionary as two members of the same object;
  comparisons of fields other than strings, flags, numbers and dictionaries.
* The translation of openwsman's XML (most of
  `lmiwbem_client_wsman_builder.cpp`), except what its results leave out.
* SLP discovery: one blocking call whose callbacks fill a list; `matchPattern` of the certificate check.
* Two Python threads in one connection are one after the other, because no operation gives up the
  interpreter lock; that this lets them wait for the listener's handlers is a hazard without a
  property yet (`Process` in the plan).
* Generated wrappers, documentation, build files, examples.

## 8. Plan

Done: `Listener` with its service, `PortRetry`, `URLInfo` and `URLObject`, `Connection` with
its session, `Operations` with the abstract enumeration, and `NocaseDict`, `CIMClasses` and `Objects`
with the eager objects, each with proofs; every invariant, action property and refinement that a
passing run checks is a theorem. Left, in this order:

1. `Process`: listener and connection over one interpreter lock, for operations that wait for
   the CIMOM while it delivers indications; the destructor of a listener that runs.
2. Pure algorithms as operators against a reference: `matchPattern`, the integer bounds of
   `lmiwbem_convert.cpp`.

Runs that only repeat a settled finding give way to new ones, to keep the whole set fast to check.
