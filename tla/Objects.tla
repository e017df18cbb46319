------------------------------ MODULE Objects ------------------------------
(***************************************************************************)
(* A CIM object of any of the classes of CIMClasses, in the hands of a     *)
(* Python program, and a second one: its copy, or one the program makes.   *)
(* What the CIMOM sent waits in RefCountedPtrs until it is read.           *)
(*                                                                         *)
(* A dictionary, a path or a value is in a cell: cell 0 of a member is the *)
(* default argument of the constructor, the others are for what the two    *)
(* objects refer to.                                                       *)
(***************************************************************************)
EXTENDS CIMClasses

CONSTANT MaxTouched     \* bound: the members that the program changes

VARIABLES
    kind,       \* the class of the objects
    touched,    \* the members that the program changes
    sent,       \* what the CIMOM sent: the path, and whether there is a reference
    objects,    \* the objects that there are
    cached,     \* for every object, the members that wait in a RefCountedPtr
    held,       \* for every object and member, the cell it refers to
    cell,       \* for every member, what is in the cells
    shared,     \* the members that the program has given the one object of the other
    changed,    \* was the value of the CIMOM's own property changed in place?
    iterator,   \* of the first object's dictionary, or None
    history     \* what the dictionary was then, and the names handed out (history)

facts == <<kind, touched, sent>>
links == <<cached, held, cell>>
iteration == <<iterator, history>>
vars == <<facts, objects, links, shared, changed, iteration>>

Cells == {0, 1, 2}

ASSUME ObjectsAssumption ==
    None \notin Cells \cup WaitingDicts /\ Raw \notin WaitingDicts

Other(o) == 3 - o

\* Dictionaries of the program's own that it updates another one with.
Updates == {FromProgram} \cup {[n \in Names |-> [spelling |-> s, value |-> Made]] : s \in Spellings}

-----------------------------------------------------------------------------
(* The members of the objects.                                             *)

\* RefCountedPtr::empty(), release()
Waits(o, m) == m \in cached[o]

Released(o, members) == [cached EXCEPT ![o] = @ \ members]

Path(o) ==
    IF Waits(o, "path") THEN sent.path
    ELSE IF held[o]["path"] = None THEN None ELSE cell["path"][held[o]["path"]]

\* evalProperties() of an instance with a reference asks for the path.
AsksPath(o, members) ==
    kind = "instance" /\ sent.reference /\ Waits(o, "properties") /\ "properties" \in members

\* What reading the member yields, and when it raises.
Given(o, m) ==
    Reads(IF kind = "instance" THEN Path(o) ELSE None, sent.reference)[kind][m]

Fails(o, m) == m = "properties" /\ AsksPath(o, {m}) /\ Path(o) = None

Evaluated(o, members) ==
    {m \in cached[o] : \/ m \in members /\ ~Fails(o, m)
                       \/ m = "path" /\ AsksPath(o, members)}

\* The links after the getters of "members".  A read that raises leaves a part of
\* the properties behind, and the list of the CIMOM, which is read again.
CachedAfter(o, members) == Released(o, Evaluated(o, members))

HeldAfter(o, members) ==
    [held EXCEPT ![o] =
        [m \in Members[kind] |->
            IF m \in Evaluated(o, members) THEN IF Given(o, m) = None THEN None ELSE o
            ELSE IF m \in members /\ Fails(o, m) THEN o
            ELSE @[m]]]

CellAfter(o, members) ==
    [m \in Members[kind] |->
        IF m \in Evaluated(o, members) /\ Given(o, m) # None
          THEN [cell[m] EXCEPT ![o] = Given(o, m)]
        ELSE IF m \in members /\ Fails(o, m) THEN [cell[m] EXCEPT ![o] = FromCIMOM]
        ELSE cell[m]]

Read(o, members) ==
    /\ cached' = CachedAfter(o, members)
    /\ held' = HeldAfter(o, members)
    /\ cell' = CellAfter(o, members)

\* What the getter returns, when it returns.
Content(o, m) ==
    IF Waits(o, m) THEN Given(o, m)
    ELSE IF held[o][m] = None THEN None ELSE cell[m][held[o][m]]

IsDict(o, m) == ~Fails(o, m) /\ Content(o, m) \notin {Raw, None}

\* A cell that the other object does not refer to.
Free(o, m) == IF held[Other(o)][m] = o THEN Other(o) ELSE o

\* Getters one after the other, up to the first that raises or returns what the
\* caller cannot use.
Reached(order, useless) ==
    {order[i] : i \in {k \in DOMAIN order : \A j \in 1..(k - 1) : order[j] \notin useless}}

-----------------------------------------------------------------------------
(* Reading.                                                                *)

Touches(o, m) == o \in objects /\ m \in touched

\* A getter; repr(), len(), keys() and the other readers of one member.
GetMember(o, m) ==
    /\ o \in objects
    /\ Read(o, {m})
    /\ UNCHANGED <<facts, objects, shared, changed, iteration>>

\* Is converted or copied up to a member that is not what it has to be.
Convert(o) ==
    LET order == Converts[kind]
        useless == {m \in Members[kind] \ {"path", "value"} : ~IsDict(o, m)}
    IN  /\ o \in objects
        /\ Read(o, Reached(order, useless))
        /\ UNCHANGED <<facts, objects, shared, changed, iteration>>

\* The second object has nothing left to read.  The first difference may end it.
Compare ==
    LET failing == {m \in Members[kind] : Fails(1, m)}
        Parts(order) ==
            {Reached(SubSeq(order, 1, i), failing) \cap Members[kind] : i \in 0..Len(order)}
    IN  /\ \E members \in Parts(Compares[kind]) \cup Parts(Operators[kind]) : Read(1, members)
        /\ UNCHANGED <<facts, objects, shared, changed, iteration>>

-----------------------------------------------------------------------------
(* Changes.                                                                *)

\* Mutant: the setter keeps what the CIMOM sent.
SetMemberKeeps(o, m, new) ==
    /\ Touches(o, m)
    /\ new \in Takes[kind][m]
    /\ cached' = cached
    /\ held' = [held EXCEPT ![o][m] = Free(o, m)]
    /\ cell' = [cell EXCEPT ![m][Free(o, m)] = new]
    /\ shared' = shared \ {m}
    /\ UNCHANGED <<facts, objects, changed, iteration>>

\* Properties are read before they are replaced, which may raise.
ReadsFirst(m) == IF kind = "instance" /\ m = "properties" THEN {m} ELSE {}

SetterRaises(o, m) == \E r \in ReadsFirst(m) : Fails(o, r)

\* The setter is given what no object has.
SetMember(o, m, new) ==
    LET read == ReadsFirst(m)
    IN  /\ Touches(o, m)
        /\ new \in Takes[kind][m]
        /\ IF SetterRaises(o, m)
             THEN Read(o, read) /\ UNCHANGED shared
             ELSE /\ cached' = [CachedAfter(o, read) EXCEPT ![o] = @ \ {m}]
                  /\ held' = [HeldAfter(o, read) EXCEPT ![o][m] = Free(o, m)]
                  /\ cell' = [CellAfter(o, read) EXCEPT ![m][Free(o, m)] = new]
                  /\ shared' = shared \ {m}
        /\ UNCHANGED <<facts, objects, changed, iteration>>

\* The setter is given what the getter of the other object returns, and keeps it.
\* Only the first object can have something to read; a path of None is refused.
ShareMember(o, m) ==
    LET read == IF o = 2 THEN {m} ELSE ReadsFirst(m)
        after == HeldAfter(1, read)
    IN  /\ objects = {1, 2}
        /\ Touches(o, m)
        /\ Takes[kind][m] # {}
        /\ IF (\E r \in read : Fails(1, r)) \/ (m = "path" /\ Content(Other(o), m) = None)
             THEN Read(1, read) /\ UNCHANGED shared
             ELSE /\ cached' = [CachedAfter(1, read) EXCEPT ![o] = @ \ {m}]
                  /\ held' = [after EXCEPT ![o][m] = after[Other(o)][m]]
                  /\ cell' = CellAfter(1, read)
                  /\ shared' = shared \cup {m}
        /\ UNCHANGED <<facts, objects, changed, iteration>>

\* The dictionary that the getter returns is changed, or the path.
Alter(o, m, new) ==
    /\ cached' = CachedAfter(o, {m})
    /\ held' = HeldAfter(o, {m})
    /\ cell' = [CellAfter(o, {m}) EXCEPT ![m][HeldAfter(o, {m})[o][m]] = new]
    /\ UNCHANGED <<facts, objects, shared, changed, iteration>>

\* The keys that the program uses.
KeysOf(m) == IF m = "items" THEN Keys ELSE {[name |-> PlainName, spelling |-> 0]}

\* Mutant: the item is removed before it is set.
PutItemAnew(o, m, key) ==
    /\ Touches(o, m)
    /\ IsDict(o, m)
    /\ Alter(o, m, SetItem(DelItem(Content(o, m), key), key, Made))

PutItem(o, m, key) ==
    /\ Touches(o, m)
    /\ IsDict(o, m)
    /\ Alter(o, m, SetItem(Content(o, m), key, Made))

\* __delitem__() or pop()
RemoveItem(o, m, key) ==
    /\ Touches(o, m)
    /\ IsDict(o, m)
    /\ HasKey(Content(o, m), key)
    /\ Alter(o, m, DelItem(Content(o, m), key))

ClearItems(o, m) ==
    /\ Touches(o, m)
    /\ IsDict(o, m)
    /\ Alter(o, m, Empty)

UpdateItems(o, m, other) ==
    /\ Touches(o, m)
    /\ m = "items"
    /\ Alter(o, m, Update(Content(o, m), other))

\* CIMInstance::__setitem__: the CIMProperty that is there is changed in place.
PutValue(o) ==
    LET key == [name |-> PlainName, spelling |-> 0]
    IN  /\ kind = "instance" /\ Touches(o, "properties")
        /\ IsDict(o, "properties")
        /\ HasKey(Content(o, "properties"), key)
        /\ GetItem(Content(o, "properties"), key) = Own
        /\ Read(o, {"properties"})
        /\ changed' = TRUE
        /\ UNCHANGED <<facts, objects, shared, iteration>>

\* o.path.host = host
PutHost(o, host) ==
    /\ kind = "instance" /\ Touches(o, "path")
    /\ Content(o, "path") # None
    /\ Alter(o, "path", host)

-----------------------------------------------------------------------------
(* A second object.                                                        *)

\* Mutant: dictionaries are shared like values.
CopyShares ==
    LET order == Copies[kind]
        read == Reached(order, {})
    IN  /\ \A m \in read : Content(1, m) # None /\ IsDict(1, m)
        /\ objects' = {1, 2}
        /\ cached' = CachedAfter(1, read)
        /\ held' = [HeldAfter(1, read) EXCEPT ![2] =
                        [m \in Members[kind] |-> HeldAfter(1, read)[1][m]]]
        /\ cell' = CellAfter(1, read)
        /\ shared' = {}
        /\ UNCHANGED <<facts, changed, iteration>>

\* Mutant: what waits to be read is copied as it is.
CopyBypasses ==
    /\ objects' = {1, 2}
    /\ held' = [held EXCEPT ![2] =
            [m \in Members[kind] |-> IF held[1][m] = None THEN None ELSE Free(2, m)]]
    /\ cell' = [m \in Members[kind] |->
            IF held[1][m] = None THEN cell[m]
            ELSE [cell[m] EXCEPT ![Free(2, m)] = cell[m][held[1][m]]]]
    /\ shared' = {}
    /\ UNCHANGED <<facts, cached, changed, iteration>>

\* What copy() copies, up to the first member that has no copy(), which raises.
CopyUseless == {m \in Members[kind] \ {"value"} : ~IsDict(1, m)}

CopyRaises == Reached(Copies[kind], CopyUseless) \cap CopyUseless # {}

\* copy(): every dictionary is copied, and the path; a value is not.
Copy ==
    LET read == Reached(Copies[kind], CopyUseless)
    IN  /\ IF CopyRaises
             THEN Read(1, read) /\ UNCHANGED <<objects, shared>>
             ELSE /\ objects' = {1, 2}
                  /\ shared' = {}
                  /\ cached' = CachedAfter(1, read)
                  /\ held' = [HeldAfter(1, read) EXCEPT ![2] =
                        [m \in Members[kind] |-> IF m \in read THEN Free(2, m) ELSE held[1][m]]]
                  /\ cell' = [m \in Members[kind] |->
                        IF m \in read
                          THEN [CellAfter(1, read)[m] EXCEPT ![Free(2, m)] = Content(1, m)]
                          ELSE cell[m]]
        /\ UNCHANGED <<facts, changed, iteration>>

\* What the constructor makes of an argument that is left out, of a NocaseDict
\* and of a dict; and of a path, which is that of an instance.
Constructed(m, argument, host) ==
    IF m = "path" THEN IF argument = "none" THEN None ELSE host
    ELSE IF m = "value" THEN Made
    ELSE IF m \in Keeps[kind] /\ argument = "dict" THEN Raw
    ELSE IF argument = "none" THEN Empty ELSE FromProgram

Defaulted(m, argument) == m \in Keeps[kind] /\ argument = "none"

\* A dictionary or a path that is kept is the argument itself, and so is a value.
KeptBy(passed) == passed \cap (Keeps[kind] \cup {"path", "value"})

\* The members "passed" of the first object are arguments; the others are left out
\* or given what no object has.
Construct(argument, host, passed) ==
    LET Default(m) == m \notin passed /\ Defaulted(m, argument)
        New(m) ==
            IF m \notin passed THEN Constructed(m, argument, host)
            ELSE IF Content(1, m) = Raw THEN FromProgram ELSE Content(1, m)
        after == HeldAfter(1, passed)
    IN  /\ IF \E m \in passed : Fails(1, m)
             THEN Read(1, passed) /\ UNCHANGED <<objects, shared>>
             ELSE /\ objects' = {1, 2}
                  /\ cached' = CachedAfter(1, passed)
                  /\ held' = [after EXCEPT ![2] =
                        [m \in Members[kind] |->
                            IF m \in KeptBy(passed) THEN after[1][m]
                            ELSE IF Default(m) THEN 0
                            ELSE IF New(m) = None THEN None ELSE Free(2, m)]]
                  /\ cell' = [m \in Members[kind] |->
                        IF m \in KeptBy(passed) \/ Default(m) \/ New(m) = None
                          THEN CellAfter(1, passed)[m]
                          ELSE [CellAfter(1, passed)[m] EXCEPT ![Free(2, m)] = New(m)]]
                  /\ shared' = KeptBy(passed)
        /\ UNCHANGED <<facts, changed, iteration>>

-----------------------------------------------------------------------------
(* Iterators of the first object's dictionary.                             *)

\* Those of an instance are those of its properties.
Iterated == [name |-> "keybindings", dict |-> "items"]

\* iterkeys(), itervalues(), iteritems()
Iterate ==
    /\ kind \in DOMAIN Iterated
    /\ Touches(1, Iterated[kind])
    /\ IsDict(1, Iterated[kind])
    /\ Read(1, {Iterated[kind]})
    /\ LET dict == Content(1, Iterated[kind])
       IN  /\ iterator' = Iterator(dict)
           /\ history' = [dict |-> dict, names |-> <<>>]
    /\ UNCHANGED <<facts, objects, shared, changed>>

\* Mutant: the iterator has no copy of the dictionary.
NextItemLive ==
    /\ iterator # None
    /\ IsDict(1, Iterated[kind])
    /\ iterator.rest \cap DOMAIN Content(1, Iterated[kind]) # {}
    /\ LET live == [dict |-> Content(1, Iterated[kind]),
                    rest |-> iterator.rest \cap DOMAIN Content(1, Iterated[kind])]
       IN  /\ iterator' = Advanced(live)
           /\ history' = [history EXCEPT !.names = Append(@, NextName(live))]
    /\ UNCHANGED <<facts, objects, links, shared, changed>>

\* next(), which raises StopIteration when there is nothing left.
NextItem ==
    /\ iterator # None
    /\ iterator.rest # {}
    /\ iterator' = Advanced(iterator)
    /\ history' = [history EXCEPT !.names = Append(@, NextName(iterator))]
    /\ UNCHANGED <<facts, objects, links, shared, changed>>

\* iter() of an iterator: another one, from the beginning.
IterateAgain ==
    /\ iterator # None
    /\ iterator' = Iterator(iterator.dict)
    /\ history' = [history EXCEPT !.names = <<>>]
    /\ UNCHANGED <<facts, objects, links, shared, changed>>

-----------------------------------------------------------------------------

\* A program changes few members; it reads them all.
Programs == {members \in SUBSET Members[kind] : Cardinality(members) <= MaxTouched}

\* The first object is the CIMOM's, or one that the program made without arguments.
Init ==
    /\ kind \in Kinds
    /\ touched \in Programs
    /\ sent \in [path : Hosts \cup {None}, reference : BOOLEAN]
    /\ kind # "instance" => sent = [path |-> None, reference |-> FALSE]
    /\ objects = {1}
    /\ shared = {}
    /\ changed = FALSE
    /\ iterator = None
    /\ history = None
    /\ \/ /\ cached = [o \in {1, 2} |-> IF o = 1 THEN Lazy[kind] ELSE {}]
          /\ held = [o \in {1, 2} |->
                [m \in Members[kind] |-> IF o = 1 /\ m \notin Lazy[kind] THEN 1 ELSE None]]
          /\ cell = [m \in Members[kind] |->
                [c \in Cells |->
                    IF c = 1 /\ m \notin Lazy[kind] THEN Reads(None, FALSE)[kind][m]
                    ELSE IF c = 0 /\ m \in Keeps[kind] THEN Empty ELSE None]]
       \/ /\ Keeps[kind] # {}
          /\ cached = [o \in {1, 2} |-> {}]
          /\ held = [o \in {1, 2} |->
                [m \in Members[kind] |->
                    IF o = 2 THEN None ELSE IF m \in Keeps[kind] THEN 0 ELSE 1]]
          /\ cell = [m \in Members[kind] |->
                [c \in Cells |->
                    IF c = 0 /\ m \in Keeps[kind] THEN Empty
                    ELSE IF c = 1 /\ m \notin Keeps[kind] THEN Made ELSE None]]

Changes(o) ==
    \E m \in touched :
        \/ \E new \in Takes[kind][m] : SetMember(o, m, new)
        \/ ShareMember(o, m)
        \/ /\ m \notin {"path", "value"}
           /\ \/ \E key \in KeysOf(m) : PutItem(o, m, key) \/ RemoveItem(o, m, key)
              \/ ClearItems(o, m)
              \/ \E other \in Updates \cup {Content(p, m) : p \in objects} :
                    UpdateItems(o, m, other)

Next ==
    \/ \E o \in objects :
        \/ \E m \in Members[kind] : GetMember(o, m)
        \/ Convert(o)
        \/ Changes(o)
        \/ PutValue(o)
        \/ \E host \in Hosts : PutHost(o, host)
    \/ Compare
    \/ Copy
    \/ \E argument \in {"none", "dict", "nocasedict"},
          host \in IF kind = "instance" THEN Hosts ELSE {None},
          passed \in SUBSET touched : Construct(argument, host, passed)
    \/ Iterate \/ NextItem \/ IterateAgain

Spec == Init /\ [][Next]_vars

-----------------------------------------------------------------------------
(* Properties                                                              *)

\* Every variable has its type.
TypeOK ==
    /\ kind \in Kinds
    /\ touched \subseteq Members[kind]
    /\ sent \in [path : Hosts \cup {None}, reference : BOOLEAN]
    /\ objects \in {{1}, {1, 2}}
    /\ cached \in [{1, 2} -> SUBSET Lazy[kind]]
    /\ held \in [{1, 2} -> [Members[kind] -> Cells \cup {None}]]
    /\ cell = [m \in Members[kind] |-> cell[m]]
    /\ \A m \in Members[kind] : cell[m] \in [Cells -> ContentsOf(m)]
    /\ shared \subseteq Members[kind]
    /\ changed \in BOOLEAN

\* No dictionary and no path belongs to two objects unless the program gave a setter
\* or a constructor the other object's, or it is the default argument of the
\* constructor: copies have none in common, and reading late and failing to read do
\* not join any; and no object refers to what a member that waits is read into
\* (obj/cim/lmiwbem_class.cpp:265-280 and the other copies, 66-68, 84-86, 370-392).
Apart ==
    \A m \in Members[kind] \ {"value"} :
        /\ held[1][m] = held[2][m] => held[1][m] \in {0, None} \/ m \in shared
        /\ Waits(1, m) => held[2][m] # 1

\* The keys of a NocaseDict stay spelled the way they were first, over every
\* sequence of assignments and updates (obj/lmiwbem_nocasedict.cpp:143-147, 237-265).
SpellingKept ==
    [][kind = "dict" =>
        LET dict == Content(1, "items")
        IN  \A n \in DOMAIN dict \cap DOMAIN dict' : dict'[n].spelling = dict[n].spelling]_vars

\* An iterator hands out every key of the dictionary once, in their order, as they
\* were when it was made: changes, reads and a new dictionary do not disturb it
\* (obj/lmiwbem_nocasedict.cpp:211-224, 369-454).
IteratesSnapshot ==
    iterator # None =>
        /\ iterator.dict = history.dict
        /\ history.names = SubSeq(Ordered(history.dict), 1, Len(history.names))
        /\ iterator.rest = {} <=> Len(history.names) = Cardinality(DOMAIN history.dict)

\* A setter that does not raise makes the one member what it was given, and leaves
\* every other member of both objects what a getter would have returned, whether
\* they wait to be read or not.  A reference among properties that wait follows the
\* path (obj/cim/lmiwbem_instance.cpp:537-561 and the setters of the other classes).
SettersHold ==
    [][\A o \in objects, m \in touched : \A new \in Takes[kind][m] :
        SetMember(o, m, new) /\ ~SetterRaises(o, m) =>
            /\ Content(o, m)' = new
            /\ \A p \in {1, 2}, k \in Members[kind] :
                <<p, k>> # <<o, m>> /\ <<m, k>> # <<"path", "properties">> =>
                    Content(p, k)' = Content(p, k)]_vars

\* A copy has the contents of the object that was copied
\* (obj/cim/lmiwbem_property.pydoc:48-53: "copy of the object itself").
CopyIsWhole ==
    [][Copy /\ ~CopyRaises =>
        \A m \in Members[kind] : Content(2, m)' = Content(1, m)]_vars

\* What an object is for a caller, whether it waits to be read or not: a member that
\* waits is what the getter would return.
HeldSoFar ==
    [o \in {1, 2} |-> [m \in Members[kind] |->
        IF ~Waits(o, m) THEN held[o][m] ELSE IF Given(o, m) = None THEN None ELSE o]]

CellSoFar ==
    [m \in Members[kind] |->
        IF ~Waits(1, m) \/ Given(1, m) = None THEN cell[m]
        ELSE [cell[m] EXCEPT ![1] = Given(1, m)]]

Eager == INSTANCE EagerObjects WITH held <- HeldSoFar, cell <- CellSoFar

\* copy() while a value waits: the copy has none (obj/cim/lmiwbem_property.cpp:331).
LostValue == Waits(1, "value") /\ Eager!CopyBut({"value"})

\* The path of an instance changes while its properties wait: the reference among
\* them takes the host of the new one (obj/cim/lmiwbem_instance.cpp:585-595).
LateReference ==
    /\ kind = "instance" /\ sent.reference
    /\ Waits(1, "properties") /\ Waits(1, "properties")'
    /\ Path(1)' # Path(1)
    /\ HeldSoFar' = [HeldSoFar EXCEPT ![1]["path"] = HeldSoFar'[1]["path"]]
    /\ CellSoFar' = [CellSoFar EXCEPT !["path"] = CellSoFar'["path"],
                                      !["properties"][1] = Given(1, "properties")']
    /\ UNCHANGED <<kind, objects, changed>>

\* With these two exceptions a caller cannot tell that members wait to be read: every
\* call changes what the objects of EagerObjects change, or nothing, as a read does
\* that raises (obj/cim/lmiwbem_instance.cpp:491-606, the getters and copy()s of
\* the other classes).
ImplementsEager == Eager!Init /\ [][LostValue \/ LateReference \/ Eager!Next]_(Eager!vars)

-----------------------------------------------------------------------------
(* Invariant for the proofs (see ObjectsProofs).                           *)

\* The second object has nothing that waits; a member of the first that waits may
\* refer to what a failed read has left, and to nothing else.
WaitInv ==
    /\ cached[2] = {}
    /\ \A m \in Members[kind] : Waits(1, m) => held[1][m] \in {1, None}

\* A NocaseDict of the program is always a dictionary, the first one in its cell.
DictInv ==
    kind = "dict" =>
        /\ held[1]["items"] = 1
        /\ \A o \in objects :
            held[o]["items"] # None /\ cell["items"][held[o]["items"]] \in Dicts
        /\ shared = {}

\* The inductive invariant of the objects.
ObjectsInv == TypeOK /\ WaitInv /\ Apart /\ DictInv

\* What an object refers to is there, and so is the default argument of a constructor;
\* it refers to nothing only for a path or a value; nobody refers to a value that waits.
ContentInv ==
    /\ \A o \in {1, 2}, m \in Members[kind] : held[o][m] # None => cell[m][held[o][m]] # None
    /\ \A m \in Members[kind] \ {"path", "value"} :
        /\ Waits(1, m) \/ held[1][m] # None
        /\ objects = {1, 2} => held[2][m] # None
    /\ \A m \in Keeps[kind] : cell[m][0] # None
    /\ Waits(1, "value") => held[1]["value"] = None /\ held[2]["value"] # 1

\* An iterator has handed out what it has not got left, which comes before the rest,
\* in order.
IterInv ==
    iterator # None =>
        /\ history \in [dict : Dicts, names : Seq(Names)]
        /\ iterator \in [dict : Dicts, rest : SUBSET Names]
        /\ iterator.dict = history.dict
        /\ iterator.rest \subseteq DOMAIN history.dict
        /\ LET gone == DOMAIN history.dict \ iterator.rest
           IN  /\ \A n \in gone, k \in iterator.rest : n < k
               /\ Len(history.names) = Cardinality(gone)
        /\ \A i \in 1..Len(history.names) : history.names[i] = Ordered(history.dict)[i]

=============================================================================
