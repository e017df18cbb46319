----------------------------- MODULE CIMClasses -----------------------------
(***************************************************************************)
(* The Python classes that stand for CIM objects                           *)
(* (src/src/obj/cim/lmiwbem_*.cpp), one by one: the members that refer to  *)
(* other Python objects, which of them wait in a RefCountedPtr until they  *)
(* are read first, what the constructor and the setters store, what copy() *)
(* and the conversion to Pegasus read, and what comparisons look at.       *)
(* Members that are strings, numbers and flags are copied on every way and *)
(* show in the comparisons only.                                           *)
(*                                                                         *)
(* "name" is CIMInstanceName, "dict" is a NocaseDict of the program.       *)
(***************************************************************************)
EXTENDS NocaseDict

CONSTANTS
    Hosts,          \* the hosts a path may name
    PlainName,      \* the element every dictionary of the CIMOM has
    ReferenceName,  \* the reference property an instance may have
    Own,            \* an element or a value as the CIMOM sent it
    Made,           \* an element or a value of the program's own
    Raw,            \* the contents of a plain Python dict
    None

ASSUME CIMClassesAssumption ==
    /\ PlainName \in Names /\ ReferenceName \in Names
    /\ PlainName # ReferenceName
    /\ 0 \in Spellings
    /\ Hosts \cap {Own, Made, Raw, None} = {}
    /\ Own \notin {Made, Raw, None}
    /\ Made \notin {Raw, None}
    /\ Raw # None

Kinds ==
    {"instance", "class", "method", "parameter", "property", "qualifier", "name", "dict"}

Elements == Hosts \cup {Own, Made}

Dicts == DictsOf(Elements)

\* Those that wait, where a reference may have no host yet.
WaitingDicts == DictsOf(Elements \cup {None})

ContentsOf(m) ==
    IF m = "path" THEN Hosts \cup {None}
    ELSE IF m = "value" THEN {Own, Made, None} ELSE Dicts \cup {Raw, None}

Entry(name, value) == [n \in {name} |-> [spelling |-> 0, value |-> value]]

FromCIMOM == Entry(PlainName, Own)

FromProgram == Entry(PlainName, Made)

-----------------------------------------------------------------------------
(* create() from a Pegasus object: the members that wait to be read.       *)

InstanceLazy == {"path", "properties", "qualifiers"}
ClassLazy == {"properties", "qualifiers", "methods"}
MethodLazy == {"parameters", "qualifiers"}
ParameterLazy == {"qualifiers"}
PropertyLazy == {"value", "qualifiers"}
QualifierLazy == {}
NameLazy == {}

Lazy ==
    [instance |-> InstanceLazy, class |-> ClassLazy, method |-> MethodLazy,
     parameter |-> ParameterLazy, property |-> PropertyLazy, qualifier |-> QualifierLazy,
     name |-> NameLazy, dict |-> {}]

\* All the members.
Members ==
    [Lazy EXCEPT !.qualifier = {"value"}, !.name = {"keybindings"}, !.dict = {"items"}]

-----------------------------------------------------------------------------
(* The constructors: the members that keep their argument as it is, a      *)
(* plain dict or the one NocaseDict that is the default of every call.     *)
(* The others take the entries into a NocaseDict of their own.             *)

InstanceKeeps == {}
ClassKeeps == {"properties", "qualifiers", "methods"}
MethodKeeps == {}
ParameterKeeps == {"qualifiers"}
PropertyKeeps == {"qualifiers"}
NameKeeps == {}

Keeps ==
    [instance |-> InstanceKeeps, class |-> ClassKeeps, method |-> MethodKeeps,
     parameter |-> ParameterKeeps, property |-> PropertyKeeps, qualifier |-> {},
     name |-> NameKeeps, dict |-> {}]

-----------------------------------------------------------------------------
(* The getters: what a member that waited is read into.                    *)

\* The properties of an instance: a reference names the host of its path.
PropertiesOf(reference, host) ==
    IF reference
      THEN [n \in {PlainName, ReferenceName} |->
                [spelling |-> 0, value |-> IF n = PlainName THEN Own ELSE host]]
      ELSE FromCIMOM

\* CIMInstanceName::create(): None for a path without a class name.
InstanceReads(path, reference) ==
    [path |-> path, properties |-> PropertiesOf(reference, path), qualifiers |-> FromCIMOM]
ClassReads == [properties |-> FromCIMOM, qualifiers |-> FromCIMOM, methods |-> FromCIMOM]
MethodReads == [parameters |-> FromCIMOM, qualifiers |-> FromCIMOM]
ParameterReads == [qualifiers |-> FromCIMOM]
PropertyReads == [value |-> Own, qualifiers |-> FromCIMOM]
QualifierReads == [value |-> Own]
NameReads == [keybindings |-> FromCIMOM]

Reads(path, reference) ==
    [instance |-> InstanceReads(path, reference), class |-> ClassReads, method |-> MethodReads,
     parameter |-> ParameterReads, property |-> PropertyReads, qualifier |-> QualifierReads,
     name |-> NameReads, dict |-> [items |-> FromCIMOM]]

-----------------------------------------------------------------------------
(* The setters: what they store.  A NocaseDict and a dict are both kept.   *)

AnyDict == {FromProgram, Raw}

\* Mutant: the type of the argument is not looked at.
InstanceTakesAny ==
    [path |-> Hosts \cup AnyDict, properties |-> AnyDict, qualifiers |-> AnyDict]

InstanceTakes == [path |-> Hosts, properties |-> AnyDict, qualifiers |-> AnyDict]
ClassTakes == [properties |-> AnyDict, qualifiers |-> AnyDict, methods |-> AnyDict]
MethodTakes == [parameters |-> AnyDict, qualifiers |-> AnyDict]
ParameterTakes == [qualifiers |-> AnyDict]
PropertyTakes == [value |-> {Made}, qualifiers |-> AnyDict]
QualifierTakes == [value |-> {Made}]
NameTakes == [keybindings |-> AnyDict]

Takes ==
    [instance |-> InstanceTakes, class |-> ClassTakes, method |-> MethodTakes,
     parameter |-> ParameterTakes, property |-> PropertyTakes, qualifier |-> QualifierTakes,
     name |-> NameTakes, dict |-> [items |-> {}]]

-----------------------------------------------------------------------------
(* copy(): the members it copies, in order, and those it takes as they are *)
(* without reading them.                                                   *)

InstanceCopies == <<"path", "properties", "qualifiers">>
ClassCopies == <<"properties", "qualifiers", "methods">>
MethodCopies == <<"parameters", "qualifiers">>
ParameterCopies == <<"qualifiers">>
PropertyCopies == <<"qualifiers">>
QualifierCopies == <<>>
NameCopies == <<"keybindings">>
DictCopies == <<"items">>

Copies ==
    [instance |-> InstanceCopies, class |-> ClassCopies, method |-> MethodCopies,
     parameter |-> ParameterCopies, property |-> PropertyCopies, qualifier |-> QualifierCopies,
     name |-> NameCopies, dict |-> DictCopies]

-----------------------------------------------------------------------------
(* asPegasus...() and tomof(): the members they read, in order.  Every one *)
(* but the path and the value must be a NocaseDict.                        *)

InstanceConverts == <<"path", "properties", "qualifiers">>
ClassConverts == <<"properties", "qualifiers", "methods">>
MethodConverts == <<"parameters", "qualifiers">>
ParameterConverts == <<"qualifiers">>
PropertyConverts == <<"value">>
QualifierConverts == <<"value">>
NameConverts == <<"keybindings">>

Converts ==
    [instance |-> InstanceConverts, class |-> ClassConverts, method |-> MethodConverts,
     parameter |-> ParameterConverts, property |-> PropertyConverts,
     qualifier |-> QualifierConverts, name |-> NameConverts, dict |-> <<>>]

-----------------------------------------------------------------------------
(* Comparisons: what they look at, in order.  Python 2 asks for the first   *)
(* difference, Python 3 for one operator at a time.                         *)

InstanceCompares == <<"classname", "path", "properties", "qualifiers">>
ClassCompares == <<"classname", "superclass", "properties", "qualifiers", "methods">>
MethodCompares ==
    <<"name", "return_type", "class_origin", "propagated", "parameters", "qualifiers">>
ParameterCompares ==
    <<"name", "type", "reference_class", "is_array", "array_size", "qualifiers">>
PropertyCompares ==
    <<"name", "type", "class_origin", "reference_class", "is_array", "propagated",
      "array_size", "value", "qualifiers">>
QualifierCompares ==
    <<"name", "type", "value", "propagated", "overridable", "tosubclass", "toinstance",
      "translatable">>
QualifierOperators ==
    <<"name", "type", "propagated", "overridable", "tosubclass", "toinstance",
      "translatable", "value">>
NameCompares == <<"classname", "namespace", "host", "keybindings">>
ClassNameCompares == <<"classname", "namespace", "host">>

Compares ==
    [instance |-> InstanceCompares, class |-> ClassCompares, method |-> MethodCompares,
     parameter |-> ParameterCompares, property |-> PropertyCompares,
     qualifier |-> QualifierCompares, name |-> NameCompares, dict |-> <<"items">>]

\* In Python 3 an instance has the operators of another class, which raise.
InstanceOperators == <<>>

Operators ==
    [Compares EXCEPT !.instance = InstanceOperators, !.qualifier = QualifierOperators]

\* Python 3, on objects as functions of the fields to strings, flags and numbers.
Equal(order, a, b) == \A i \in DOMAIN order : a[order[i]] = b[order[i]]

Greater(order, a, b) == \E i \in DOMAIN order : a[order[i]] > b[order[i]]

Smaller(order, a, b) == \E i \in DOMAIN order : a[order[i]] < b[order[i]]

\* Python 2: the first field that differs.
Compared(order, a, b) ==
    LET differing == {i \in DOMAIN order : a[order[i]] # b[order[i]]}
        field == order[Least(differing)]
    IN  IF differing = {} THEN 0 ELSE IF a[field] < b[field] THEN -1 ELSE 1

=============================================================================
