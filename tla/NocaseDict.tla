----------------------------- MODULE NocaseDict -----------------------------
(***************************************************************************)
(* NocaseDict (src/src/obj/lmiwbem_nocasedict.cpp): a Python dictionary    *)
(* whose keys are told apart without regard to case, on a std::map ordered *)
(* by the lower-cased key.                                                 *)
(*                                                                         *)
(* A key is a name, which is what is left of it in lower case, and the way *)
(* it is spelled; both are numbers, in the order of the strings.  A        *)
(* dictionary maps names to the spelling and the value they were given.    *)
(***************************************************************************)
EXTENDS Integers, Sequences, FiniteSets

CONSTANTS
    Names,      \* the keys, in lower case
    Spellings   \* the ways to spell a key

ASSUME NocaseDictAssumption ==
    Names \subseteq Nat /\ IsFiniteSet(Names) /\ Spellings \subseteq Nat

Keys == [name : Names, spelling : Spellings]

DictsOf(Values) ==
    UNION {[names -> [spelling : Spellings, value : Values]] : names \in SUBSET Names}

Empty == [n \in {} |-> 0]

HasKey(dict, key) == key.name \in DOMAIN dict

GetItem(dict, key) == dict[key.name].value

Get(dict, key, default) == IF HasKey(dict, key) THEN GetItem(dict, key) ELSE default

\* std::map::operator[]: a key that is there stays spelled as it is.
SetItem(dict, key, value) ==
    [n \in DOMAIN dict \cup {key.name} |->
        IF n # key.name THEN dict[n]
        ELSE IF HasKey(dict, key) THEN [dict[n] EXCEPT !.value = value]
        ELSE [spelling |-> key.spelling, value |-> value]]

DelItem(dict, key) == [n \in DOMAIN dict \ {key.name} |-> dict[n]]

Pop(dict, key, default) ==
    [value |-> Get(dict, key, default),
     dict  |-> IF HasKey(dict, key) THEN DelItem(dict, key) ELSE dict]

\* std::map::insert(), or a new value for the key that is there.
Update(dict, other) ==
    [n \in DOMAIN dict \cup DOMAIN other |->
        IF n \notin DOMAIN other THEN dict[n]
        ELSE IF n \in DOMAIN dict THEN [dict[n] EXCEPT !.value = other[n].value]
        ELSE other[n]]

\* "items" is a Python dictionary: its keys, spelled, and values, in its order.
UpdateFromDict(dict, items) ==
    LET updated[i \in 0..Len(items)] ==
            IF i = 0 THEN dict ELSE SetItem(updated[i - 1], items[i].key, items[i].value)
    IN  updated[Len(items)]

-----------------------------------------------------------------------------
(* Iteration.                                                              *)

Least(names) == CHOOSE n \in names : \A k \in names : n <= k

Below(names, n) == {k \in names : k < n}

Nth(names, i) == CHOOSE n \in names : Cardinality(Below(names, n)) = i - 1

\* keys(), values() and items() go through the names in order.
Ordered(dict) == [i \in 1..Cardinality(DOMAIN dict) |-> Nth(DOMAIN dict, i)]

\* NocaseDictIterator: a copy of the dictionary and a position in it.
Iterator(dict) == [dict |-> dict, rest |-> DOMAIN dict]

\* next(), unless it raises StopIteration, and the iterator after it.
NextName(iterator) == Least(iterator.rest)

Advanced(iterator) == [iterator EXCEPT !.rest = @ \ {NextName(iterator)}]

-----------------------------------------------------------------------------
(* Comparison.                                                             *)

\* Keys compare as they are spelled, here all in capitals or all in small letters,
\* of which the capitals come first.
KeyBefore(n, a, k, b) ==
    a.spelling < b.spelling \/ (a.spelling = b.spelling /\ n < k)

\* std::equal over the entries, spelling included.
EqualDicts(dict, other) == dict = other

\* std::map::operator<: the first entry that differs decides.
DictBefore(dict, other) ==
    LET d == Ordered(dict)
        e == Ordered(other)
        Same(i) == i <= Len(e) /\ d[i] = e[i] /\ dict[d[i]] = other[e[i]]
    IN  \E i \in 1..Len(e) :
            /\ \A j \in 1..(i - 1) : j <= Len(d) /\ Same(j)
            /\ \/ i > Len(d)
               \/ KeyBefore(d[i], dict[d[i]], e[i], other[e[i]])
               \/ /\ d[i] = e[i]
                  /\ dict[d[i]].spelling = other[e[i]].spelling
                  /\ dict[d[i]].value < other[e[i]].value

\* Python 2: the first of the own names that is missing or has another value.
CompareDicts(dict, other) ==
    LET differing == {n \in DOMAIN dict :
                        n \notin DOMAIN other \/ dict[n].value # other[n].value}
        first == Least(differing)
    IN  IF differing = {} THEN Cardinality(DOMAIN dict) - Cardinality(DOMAIN other)
        ELSE IF first \notin DOMAIN other THEN -1
        ELSE IF dict[first].value < other[first].value THEN -1 ELSE 1

=============================================================================
