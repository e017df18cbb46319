----------------------------- MODULE MCObjects -----------------------------
(* Two names, two ways to spell them and two hosts; the dictionaries and  *)
(* the objects of the assumptions have numbers for values.                  *)
EXTENDS Objects

Numbered == DictsOf({0, 1})

Small == {dict \in Numbered : Cardinality(DOMAIN dict) <= 2}

\* The keys of a dictionary are gone through once each, in order.
ASSUME OrderedAssumption ==
    \A dict \in Numbered :
        /\ {Ordered(dict)[i] : i \in DOMAIN Ordered(dict)} = DOMAIN dict
        /\ \A i, j \in DOMAIN Ordered(dict) : i < j => Ordered(dict)[i] < Ordered(dict)[j]

\* Updating a dictionary is setting its items one after the other.
ASSUME UpdateAssumption ==
    \A dict, other \in Small :
        Update(dict, other) =
            UpdateFromDict(dict,
                [i \in 1..Len(Ordered(other)) |->
                    LET n == Ordered(other)[i]
                    IN  [key |-> [name |-> n, spelling |-> other[n].spelling],
                         value |-> other[n].value]])

\* A plain dict with two keys that differ in case: the first spelling and the last
\* value stay.
ASSUME FirstSpellingLastValue ==
    \A n \in Names : \A s, t \in Spellings : \A v, w \in {0, 1} :
        UpdateFromDict(Empty, <<[key |-> [name |-> n, spelling |-> s], value |-> v],
                                [key |-> [name |-> n, spelling |-> t], value |-> w]>>)
            = [k \in {n} |-> [spelling |-> s, value |-> w]]

\* pop() takes away what get() returns.
ASSUME PopAssumption ==
    \A dict \in Small, key \in Keys :
        /\ Pop(dict, key, 2).value = Get(dict, key, 2)
        /\ ~HasKey(Pop(dict, key, 2).dict, key)
        /\ ~HasKey(dict, key) => Pop(dict, key, 2).dict = dict

\* In Python 3 dictionaries are ordered.
ASSUME DictsAreOrdered ==
    \A dict, other \in Small :
        /\ ~(DictBefore(dict, other) /\ DictBefore(other, dict))
        /\ EqualDicts(dict, other) <=> ~DictBefore(dict, other) /\ ~DictBefore(other, dict)

\* In Python 2 equal ones compare equal, and so do those that differ in spelling:
\* __cmp__ looks keys up without regard to case, and __eq__ does not.
ASSUME ComparedDicts ==
    \A dict, other \in Small :
        CompareDicts(dict, other) = 0 <=>
            [n \in DOMAIN dict |-> dict[n].value] = [n \in DOMAIN other |-> other[n].value]

-----------------------------------------------------------------------------
(* The comparisons of all classes.                                         *)

\* Objects that differ in two fields at most.
Objects2(order) ==
    {[f \in {order[k] : k \in DOMAIN order} |-> IF f = order[i] THEN v ELSE IF f = order[j] THEN w ELSE 1] :
        i \in DOMAIN order, j \in DOMAIN order, v \in 0..2, w \in 0..2}

\* What Python 2 and Python 3 look at, of the classes that both can compare.
Orders ==
    {[two |-> Compares[k], three |-> Operators[k]] : k \in Kinds \ {"instance"}}
        \cup {[two |-> ClassNameCompares, three |-> ClassNameCompares]}

\* Of objects that differ in strings, flags and numbers only, equal ones compare
\* equal in both Pythons; what is greater in Python 2 is greater in Python 3; and
\* greater is the converse of smaller.
ASSUME ComparisonsAgree ==
    \A order \in Orders : \A a, b \in Objects2(order.two) :
        /\ Equal(order.three, a, b) <=> Compared(order.two, a, b) = 0
        /\ Compared(order.two, a, b) = 1 => Greater(order.three, a, b)
        /\ Compared(order.two, a, b) = -1 => Smaller(order.three, a, b)
        /\ Greater(order.three, a, b) <=> Smaller(order.three, b, a)

\* In Python 3 an object with several fields may be both greater and smaller than
\* another one: the comparisons are no order to sort by.
ASSUME GreaterAndSmaller ==
    \A order \in {o.three : o \in {p \in Orders : Len(p.three) > 1}} :
        \E a, b \in Objects2(order) : Greater(order, a, b) /\ Smaller(order, a, b)

=============================================================================
