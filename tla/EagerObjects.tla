---------------------------- MODULE EagerObjects ----------------------------
(***************************************************************************)
(* What a caller may expect of the objects of Objects: they hold all their *)
(* members from the beginning, reading one changes nothing, every change   *)
(* is of one member of one object, a setter and a constructor may keep     *)
(* what another object holds, and a copy has dictionaries of its own and   *)
(* the contents of what was copied.                                        *)
(***************************************************************************)
EXTENDS CIMClasses

VARIABLES kind, objects, held, cell, changed

vars == <<kind, objects, held, cell, changed>>

Content(o, m) == IF held[o][m] = None THEN None ELSE cell[m][held[o][m]]

\* A cell that the other object does not refer to.
Free(o, m) == IF held[3 - o][m] = o THEN 3 - o ELSE o

Init ==
    /\ kind \in Kinds
    /\ objects = {1}
    /\ \A m \in Members[kind] : held[2][m] = None
    /\ \A m \in Members[kind] : held[1][m] # None \/ m = "path"
    /\ changed = FALSE

Assign(o, m) ==
    /\ held' = [held EXCEPT ![o][m] = Free(o, m)]
    /\ \E new \in Takes[kind][m] : cell' = [cell EXCEPT ![m][Free(o, m)] = new]
    /\ UNCHANGED <<kind, objects, changed>>

\* The object refers to what the other one does; what it referred to may be gone.
Share(o, m) ==
    /\ objects = {1, 2}
    /\ held' = [held EXCEPT ![o][m] = held[3 - o][m]]
    /\ cell' = [cell EXCEPT ![m][Free(o, m)] = cell'[m][Free(o, m)]]
    /\ UNCHANGED <<kind, objects, changed>>

\* What one call makes of a dictionary, or of a path.
Results(m, content) ==
    IF m = "path" THEN Hosts
    ELSE {SetItem(content, key, Made) : key \in Keys}
         \cup {DelItem(content, key) : key \in Keys}
         \cup {Empty}

Merged(content) ==
    {Update(content, other) : other \in {Content(o, "items") : o \in objects}
        \cup {FromProgram} \cup {[n \in Names |-> [spelling |-> s, value |-> Made]] : s \in Spellings}}

Change(o, m) ==
    LET content == Content(o, m)
    IN  /\ m # "value"
        /\ content \notin {None, Raw}
        /\ \E new \in Results(m, content) \cup IF m = "items" THEN Merged(content) ELSE {} :
                cell' = [cell EXCEPT ![m][held[o][m]] = new]
        /\ UNCHANGED <<kind, objects, held, changed>>

\* The value of a property in a dictionary of the CIMOM's.
ChangeInPlace ==
    /\ kind = "instance"
    /\ changed' = TRUE
    /\ UNCHANGED <<kind, objects, held, cell>>

Copied == {m \in Members[kind] : \E i \in DOMAIN Copies[kind] : Copies[kind][i] = m}

\* Dictionaries and paths are copied, values are shared; but "lost" are left out.
CopyBut(lost) ==
    /\ \A m \in Copied : Content(1, m) \notin {None, Raw}
    /\ objects' = {1, 2}
    /\ held' = [held EXCEPT ![2] =
            [m \in Members[kind] |->
                IF m \in lost THEN None
                ELSE IF m \in Copied THEN Free(2, m) ELSE held[1][m]]]
    /\ cell' = [m \in Members[kind] |->
            IF m \in Copied THEN [cell[m] EXCEPT ![Free(2, m)] = Content(1, m)] ELSE cell[m]]
    /\ UNCHANGED <<kind, changed>>

Copy == CopyBut({})

\* What a constructor makes of its argument, which may be the first object's member.
Fresh(m) == {Empty, FromProgram, Raw, Made, Content(1, m)} \cup Hosts

\* Another object of the program's takes the place of the second one: an argument is
\* kept, or left out for the default or for no path, or taken into what is new.
Make ==
    /\ objects' = {1, 2}
    /\ held'[1] = held[1]
    /\ held' = [held EXCEPT ![2] = held'[2]]
    /\ \A m \in Members[kind] :
        \/ /\ \/ m \in Keeps[kind] \cup {"path", "value"} /\ held'[2][m] = held[1][m]
              \/ m \in Keeps[kind] /\ held'[2][m] = 0
              \/ m = "path" /\ held'[2][m] = None
           /\ cell'[m] = cell[m]
        \/ /\ held'[2][m] = Free(2, m)
           /\ \E new \in Fresh(m) : cell'[m] = [cell[m] EXCEPT ![Free(2, m)] = new]
    /\ UNCHANGED <<kind, changed>>

Next ==
    \/ \E o \in objects, m \in Members[kind] : Assign(o, m) \/ Share(o, m) \/ Change(o, m)
    \/ ChangeInPlace
    \/ Copy
    \/ Make

Spec == Init /\ [][Next]_vars

=============================================================================
