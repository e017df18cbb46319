---------------------------- MODULE EagerProofs ----------------------------
(***************************************************************************)
(* Objects implements EagerObjects, for all names, spellings and hosts:    *)
(* but for two exceptions, which ImplementsEager names, a caller does not  *)
(* see that the members of an object are read late.  That a setter is not  *)
(* undone by a later read follows from the same lemmas.                    *)
(***************************************************************************)
EXTENDS ObjectsProofs

-----------------------------------------------------------------------------
(* The classes as EagerObjects sees them                                   *)

\* The tables of the classes are the same.
LEMMA SameTables ==
    /\ Eager!Kinds = Kinds /\ Eager!Members = Members /\ Eager!Takes = Takes
    /\ Eager!Copies = Copies /\ Eager!Keeps = Keeps
  <1>1. Eager!Kinds = Kinds
    BY DEF Kinds, Eager!Kinds
  <1>2. Eager!Members = Members
    BY DEF Members, Eager!Members, Lazy, Eager!Lazy, InstanceLazy, Eager!InstanceLazy,
           ClassLazy, Eager!ClassLazy, MethodLazy, Eager!MethodLazy, ParameterLazy,
           Eager!ParameterLazy, PropertyLazy, Eager!PropertyLazy, QualifierLazy,
           Eager!QualifierLazy, NameLazy, Eager!NameLazy
  <1>3. Eager!Takes = Takes
    BY DEF Takes, Eager!Takes, AnyDict, Eager!AnyDict, FromProgram, Eager!FromProgram,
           Entry, Eager!Entry, InstanceTakes, Eager!InstanceTakes, ClassTakes,
           Eager!ClassTakes, MethodTakes, Eager!MethodTakes, ParameterTakes,
           Eager!ParameterTakes, PropertyTakes, Eager!PropertyTakes, QualifierTakes,
           Eager!QualifierTakes, NameTakes, Eager!NameTakes
  <1>4. Eager!Copies = Copies
    BY DEF Copies, Eager!Copies, InstanceCopies, Eager!InstanceCopies, ClassCopies,
           Eager!ClassCopies, MethodCopies, Eager!MethodCopies, ParameterCopies,
           Eager!ParameterCopies, PropertyCopies, Eager!PropertyCopies, QualifierCopies,
           Eager!QualifierCopies, NameCopies, Eager!NameCopies, DictCopies, Eager!DictCopies
  <1>5. Eager!Keeps = Keeps
    BY DEF Keeps, Eager!Keeps, InstanceKeeps, Eager!InstanceKeeps, ClassKeeps,
           Eager!ClassKeeps, MethodKeeps, Eager!MethodKeeps, ParameterKeeps,
           Eager!ParameterKeeps, PropertyKeeps, Eager!PropertyKeeps, NameKeeps,
           Eager!NameKeeps
  <1>6. QED
    BY <1>1, <1>2, <1>3, <1>4, <1>5

\* So are the methods of a NocaseDict.
LEMMA SameMethods ==
    /\ Eager!Keys = Keys /\ Eager!Empty = Empty /\ Eager!FromProgram = FromProgram
    /\ \A d, k, v : Eager!SetItem(d, k, v) = SetItem(d, k, v)
    /\ \A d, k : Eager!DelItem(d, k) = DelItem(d, k)
    /\ \A d, e : Eager!Update(d, e) = Update(d, e)
  <1>1. Eager!Keys = Keys /\ Eager!Empty = Empty /\ Eager!FromProgram = FromProgram
    BY DEF Keys, Eager!Keys, Empty, Eager!Empty, FromProgram, Eager!FromProgram, Entry,
           Eager!Entry
  <1>2. \A d, k, v : Eager!SetItem(d, k, v) = SetItem(d, k, v)
    BY DEF SetItem, Eager!SetItem, HasKey, Eager!HasKey
  <1>3. \A d, k : Eager!DelItem(d, k) = DelItem(d, k)
    BY DEF DelItem, Eager!DelItem
  <1>4. \A d, e : Eager!Update(d, e) = Update(d, e)
    BY DEF Update, Eager!Update
  <1>5. QED
    BY <1>1, <1>2, <1>3, <1>4

-----------------------------------------------------------------------------
(* What an object refers to                                                *)

\* The properties of an instance are a dictionary, if not yet one of the program's.
LEMMA PropertiesWait ==
    ASSUME NEW r \in BOOLEAN, NEW p \in Hosts \cup {None}
    PROVE  PropertiesOf(r, p) \in WaitingDicts
  <1> DEFINE V == [spelling : Spellings, value : Elements \cup {None}]
  <1>1. \A names \in SUBSET Names : [names -> V] \subseteq WaitingDicts
    BY DEF WaitingDicts, DictsOf
  <1>2. /\ [spelling |-> 0, value |-> Own] \in V /\ [spelling |-> 0, value |-> p] \in V
        /\ {PlainName} \in SUBSET Names /\ {PlainName, ReferenceName} \in SUBSET Names
    BY CIMClassesAssumption DEF Elements
  <1> HIDE DEF V
  <1>3. FromCIMOM \in [{PlainName} -> V]
    BY <1>2 DEF FromCIMOM, Entry
  <1>4. PropertiesOf(TRUE, p) \in [{PlainName, ReferenceName} -> V]
    BY <1>2 DEF PropertiesOf
  <1>5. PropertiesOf(FALSE, p) = FromCIMOM
    BY DEF PropertiesOf
  <1>6. QED
    BY <1>1, <1>2, <1>3, <1>4, <1>5

\* Only a path is read into nothing.
GivesOK(k) ==
    \A r \in BOOLEAN, p \in Hosts \cup {None}, m \in Members[k] \ {"path"} :
        Reads(p, r)[k][m] # None

LEMMA RowGives == \A k \in Kinds : GivesOK(k)
  <1>1. \A r \in BOOLEAN, p \in Hosts \cup {None} : PropertiesOf(r, p) # None
    BY PropertiesWait, ObjectsAssumption
  <1> USE <1>1, GivenDicts, NoneApart, CIMClassesAssumption DEF GivesOK, Lazy, Members, Reads
  <1>2. GivesOK("instance")
    BY DEF InstanceLazy, InstanceReads
  <1>3. GivesOK("class")
    BY DEF ClassLazy, ClassReads
  <1>4. GivesOK("method")
    BY DEF MethodLazy, MethodReads
  <1>5. GivesOK("parameter")
    BY DEF ParameterLazy, ParameterReads
  <1>6. GivesOK("property")
    BY DEF PropertyLazy, PropertyReads
  <1>7. GivesOK("qualifier")
    BY DEF QualifierReads
  <1>8. GivesOK("name")
    BY DEF NameReads
  <1>9. GivesOK("dict")
    OBVIOUS
  <1> HIDE DEF GivesOK
  <1>10. QED
    BY <1>2, <1>3, <1>4, <1>5, <1>6, <1>7, <1>8, <1>9 DEF Kinds

LEMMA GivenNotNone ==
    ASSUME ObjectsInv, NEW m \in Members[kind] \ {"path"}
    PROVE  Given(1, m) # None
  <1> DEFINE p == IF kind = "instance" THEN Path(1) ELSE None
  <1>1. p \in Hosts \cup {None}
    BY PathType
  <1>2. sent.reference \in BOOLEAN /\ GivesOK(kind)
    BY RowGives DEF ObjectsInv, TypeOK
  <1> HIDE DEF p
  <1>3. Reads(p, sent.reference)[kind][m] # None
    BY <1>1, <1>2 DEF GivesOK
  <1>4. QED
    BY <1>3 DEF Given, p

\* What reading does to one member of the first object.
LEMMA ReadMember ==
    ASSUME ObjectsInv, NEW members, NEW m \in Members[kind]
    PROVE  /\ m \in CachedAfter(1, members)[1] <=> m \in cached[1] \ Evaluated(1, members)
           /\ HeldAfter(1, members)[1][m] =
                IF m \in Evaluated(1, members) THEN IF Given(1, m) = None THEN None ELSE 1
                ELSE IF m \in members /\ Fails(1, m) THEN 1
                ELSE held[1][m]
           /\ CellAfter(1, members)[m] =
                IF m \in Evaluated(1, members) /\ Given(1, m) # None
                  THEN [cell[m] EXCEPT ![1] = Given(1, m)]
                ELSE IF m \in members /\ Fails(1, m) THEN [cell[m] EXCEPT ![1] = FromCIMOM]
                ELSE cell[m]
           /\ HeldAfter(1, members)[2] = held[2]
           /\ CachedAfter(1, members)[2] = {}
  <1>1. /\ cached \in [{1, 2} -> SUBSET Lazy[kind]]
        /\ held \in [{1, 2} -> [Members[kind] -> Cells \cup {None}]]
    BY DEF ObjectsInv, TypeOK
  <1>2. m \in CachedAfter(1, members)[1] <=> m \in cached[1] \ Evaluated(1, members)
    BY <1>1 DEF CachedAfter, Released
  <1>3. HeldAfter(1, members)[1] =
            [k \in Members[kind] |->
                IF k \in Evaluated(1, members) THEN IF Given(1, k) = None THEN None ELSE 1
                ELSE IF k \in members /\ Fails(1, k) THEN 1
                ELSE held[1][k]]
    BY <1>1 DEF HeldAfter
  <1>4. QED
    BY <1>2, <1>3, FirstReads DEF CellAfter

\* ContentInv, of any links.
HoldsOK(wait, hold, content, there) ==
    /\ \A o \in {1, 2}, m \in Members[kind] : hold[o][m] # None => content[m][hold[o][m]] # None
    /\ \A m \in Members[kind] \ {"path", "value"} :
        /\ m \in wait[1] \/ hold[1][m] # None
        /\ there = {1, 2} => hold[2][m] # None
    /\ \A m \in Keeps[kind] : content[m][0] # None
    /\ "value" \in wait[1] => hold[1]["value"] = None /\ hold[2]["value"] # 1

LEMMA ContentMeans == ContentInv <=> HoldsOK(cached, held, cell, objects)
  BY DEF ContentInv, HoldsOK, Waits

\* Reading keeps it.
LEMMA ReadHolds ==
    ASSUME ObjectsInv, ContentInv, NEW o \in {1, 2}, NEW members
    PROVE  HoldsOK(CachedAfter(o, members), HeldAfter(o, members), CellAfter(o, members), objects)
  <1>1. CASE o = 2
    BY <1>1, SecondStays, ContentMeans
  <1>2. CASE o = 1
    <2> DEFINE w == CachedAfter(1, members)
               h == HeldAfter(1, members)
               c == CellAfter(1, members)
    <2>1. \A m : Fails(1, m) => m = "properties" /\ Waits(1, m)
      BY DEF Fails, AsksPath
    <2>2. ASSUME NEW m \in Members[kind]
          PROVE  /\ h[1][m] # None => c[m][h[1][m]] # None
                 /\ h[2][m] # None => c[m][h[2][m]] # None
                 /\ m = "value" /\ m \in w[1] => h[1][m] = None /\ h[2][m] # 1
      <3>1. /\ held[1][m] # None => cell[m][held[1][m]] # None
            /\ held[2][m] # None => cell[m][held[2][m]] # None
            /\ m = "value" /\ m \in cached[1] => held[1][m] = None /\ held[2][m] # 1
        BY DEF ContentInv, Waits
      <3>2. cell[m] \in [Cells -> ContentsOf(m)] /\ held[2][m] \in Cells \cup {None}
        BY DEF ObjectsInv, TypeOK
      <3>3. m \in cached[1] => held[2][m] # 1
        BY <3>1 DEF ObjectsInv, Apart, Waits
      <3>4. Evaluated(1, members) \subseteq cached[1] /\ FromCIMOM # None /\ 1 # None
        BY GivenDicts, NoneApart DEF Evaluated, Cells
      <3>5. /\ m \in w[1] <=> m \in cached[1] \ Evaluated(1, members)
            /\ h[1][m] =
                  IF m \in Evaluated(1, members) THEN IF Given(1, m) = None THEN None ELSE 1
                  ELSE IF m \in members /\ Fails(1, m) THEN 1
                  ELSE held[1][m]
            /\ c[m] =
                  IF m \in Evaluated(1, members) /\ Given(1, m) # None
                    THEN [cell[m] EXCEPT ![1] = Given(1, m)]
                  ELSE IF m \in members /\ Fails(1, m) THEN [cell[m] EXCEPT ![1] = FromCIMOM]
                  ELSE cell[m]
            /\ h[2] = held[2]
        BY ReadMember
      <3> HIDE DEF w, h, c
      <3>6. CASE m \in Evaluated(1, members) /\ Given(1, m) # None
        <4>1. c[m][1] # None /\ (held[2][m] # None => c[m][held[2][m]] = cell[m][held[2][m]])
          BY <3>2, <3>3, <3>4, <3>5, <3>6 DEF Cells
        <4>2. QED
          BY <3>1, <3>5, <3>6, <4>1
      <3>7. CASE m \notin Evaluated(1, members) /\ m \in members /\ Fails(1, m)
        <4>1. c[m][1] # None /\ (held[2][m] # None => c[m][held[2][m]] = cell[m][held[2][m]])
          BY <2>1, <3>2, <3>3, <3>4, <3>5, <3>7 DEF Cells, Waits
        <4>2. QED
          BY <2>1, <3>1, <3>5, <3>7, <4>1
      <3>8. CASE /\ ~(m \in Evaluated(1, members) /\ Given(1, m) # None)
                 /\ ~(m \notin Evaluated(1, members) /\ m \in members /\ Fails(1, m))
        <4>1. c[m] = cell[m] \/ m \in Evaluated(1, members)
          BY <3>5, <3>8
        <4>2. CASE m \in Evaluated(1, members)
          <5>1. ~Fails(1, m)
            BY <2>1, <4>2 DEF Evaluated, Fails, AsksPath
          <5>2. c[m] = cell[m]
            BY <3>5, <3>8, <4>2, <5>1
          <5>3. QED
            BY <3>1, <3>5, <3>8, <4>2, <5>2
        <4>3. QED
          BY <3>1, <3>5, <3>8, <4>1, <4>2
      <3>9. QED
        BY <3>6, <3>7, <3>8
    <2>3. w[1] \subseteq Members[kind]
      BY FirstReads, InvFacts
    <2>4. ASSUME NEW m \in Keeps[kind] PROVE c[m][0] # None
      <3>1. m \in Members[kind] /\ cell[m] \in [Cells -> ContentsOf(m)] /\ cell[m][0] # None
        BY InvFacts DEF RowOK, ObjectsInv, TypeOK, ContentInv
      <3>2. \A new : [cell[m] EXCEPT ![1] = new][0] = cell[m][0]
        BY <3>1 DEF Cells
      <3>3. c[m] = cell[m] \/ \E new : c[m] = [cell[m] EXCEPT ![1] = new]
        BY <3>1 DEF CellAfter
      <3>4. QED
        BY <3>1, <3>2, <3>3
    <2>5. ASSUME NEW m \in Members[kind] \ {"path", "value"}
          PROVE  /\ m \in w[1] \/ h[1][m] # None
                 /\ objects = {1, 2} => h[2][m] # None
      <3>1. /\ m \in w[1] <=> m \in cached[1] \ Evaluated(1, members)
            /\ h[1][m] =
                  IF m \in Evaluated(1, members) THEN IF Given(1, m) = None THEN None ELSE 1
                  ELSE IF m \in members /\ Fails(1, m) THEN 1
                  ELSE held[1][m]
            /\ h[2] = held[2]
        BY ReadMember
      <3>2. Given(1, m) # None /\ 1 # None
        BY GivenNotNone, NoneApart DEF Cells
      <3>3. /\ m \in cached[1] \/ held[1][m] # None
            /\ objects = {1, 2} => held[2][m] # None
        BY DEF ContentInv, Waits
      <3> HIDE DEF w, h, c
      <3>4. QED
        BY <3>1, <3>2, <3>3
    <2> HIDE DEF w, h, c
    <2>6. HoldsOK(w, h, c, objects)
      BY <2>2, <2>3, <2>4, <2>5 DEF HoldsOK
    <2>7. QED
      BY <1>2, <2>6 DEF w, h, c
  <1>3. QED
    BY <1>1, <1>2

\* Something new that an object refers to keeps it.
LEMMA PutHolds ==
    ASSUME NEW w, NEW h, NEW c, NEW common, NEW there,
           LinksOK(w, h, c, common), HoldsOK(w, h, c, there),
           NEW o \in {1, 2}, NEW m \in Members[kind], NEW f \in Cells, f # None,
           NEW new, new # None, m = "value" /\ o = 2 /\ m \in w[1] => f # 1,
           NEW w2, w2[1] = (IF o = 1 THEN w[1] \ {m} ELSE w[1]),
           Keeps[kind] \subseteq Members[kind]
    PROVE  HoldsOK(w2, [h EXCEPT ![o][m] = f], [c EXCEPT ![m][f] = new], there)
  <1> DEFINE h2 == [h EXCEPT ![o][m] = f]
             c2 == [c EXCEPT ![m][f] = new]
  <1>1. /\ h \in [{1, 2} -> [Members[kind] -> Cells \cup {None}]]
        /\ c = [k \in Members[kind] |-> c[k]]
        /\ c[m] \in [Cells -> ContentsOf(m)]
    BY DEF LinksOK
  <1>2. /\ h2[o][m] = f
        /\ \A p \in {1, 2}, k \in Members[kind] : p # o \/ k # m => h2[p][k] = h[p][k]
    BY <1>1
  <1>3. \A k \in Members[kind] : c2[k] = IF k = m THEN [c[m] EXCEPT ![f] = new] ELSE c[k]
    BY <1>1
  <1>4. \A i \in Cells : [c[m] EXCEPT ![f] = new][i] = IF i = f THEN new ELSE c[m][i]
    BY <1>1
  <1>5. h2[1] = (IF o = 1 THEN [h[1] EXCEPT ![m] = f] ELSE h[1])
        /\ h2[2] = (IF o = 2 THEN [h[2] EXCEPT ![m] = f] ELSE h[2])
    BY <1>1
  <1> HIDE DEF h2, c2
  <1>6. ASSUME NEW p \in {1, 2}, NEW k \in Members[kind], h2[p][k] # None
        PROVE  c2[k][h2[p][k]] # None
    <2>1. CASE p = o /\ k = m
      <3>1. h2[p][k] = f /\ c2[k] = [c[m] EXCEPT ![f] = new]
        BY <1>2, <1>3, <2>1
      <3>2. [c[m] EXCEPT ![f] = new][f] = new
        BY <1>4
      <3>3. QED
        BY <3>1, <3>2
    <2>2. CASE ~(p = o /\ k = m)
      <3>1. h2[p][k] = h[p][k] /\ h[p][k] \in Cells \cup {None}
        BY <1>1, <1>2, <2>2
      <3>2. h[p][k] \in Cells /\ c[k][h[p][k]] # None
        BY <1>6, <3>1 DEF HoldsOK
      <3>3. QED
        BY <1>3, <1>4, <3>1, <3>2
    <2>3. QED
      BY <2>1, <2>2
  <1>7. ASSUME "value" \in w2[1] PROVE h2[1]["value"] = None /\ h2[2]["value"] # 1
    <2>1. "value" \in w[1] /\ h[1]["value"] = None /\ h[2]["value"] # 1
      BY <1>7 DEF HoldsOK
    <2>2. "value" \in Members[kind] \/ m # "value"
      OBVIOUS
    <2>3. CASE m = "value"
      BY <1>1, <1>7, <2>1, <1>5, <2>3
    <2>4. CASE m # "value"
      <3>1. \A q : q # m => [h[1] EXCEPT ![m] = f][q] = h[1][q]
        BY <1>1, <2>4
      <3>2. QED
        BY <1>1, <1>5, <2>1, <2>4
    <2>5. QED
      BY <2>3, <2>4
  <1>8. ASSUME NEW k \in Keeps[kind] PROVE c2[k][0] # None
    <2>1. c[k][0] # None /\ 0 \in Cells
      BY DEF HoldsOK, Cells
    <2>2. QED
      BY <1>3, <1>4, <1>8, <2>1
  <1>9. ASSUME NEW k \in Members[kind] \ {"path", "value"}
        PROVE  /\ k \in w2[1] \/ h2[1][k] # None
               /\ there = {1, 2} => h2[2][k] # None
    <2>1. /\ k \in w[1] \/ h[1][k] # None
          /\ there = {1, 2} => h[2][k] # None
      BY DEF HoldsOK
    <2>2. QED
      BY <1>2, <2>1
  <1>10. QED
    BY <1>6, <1>7, <1>8, <1>9 DEF HoldsOK, h2, c2

\* What the other object refers to keeps it.
LEMMA ShareHolds ==
    ASSUME NEW w, NEW h, NEW c, NEW common, LinksOK(w, h, c, common), HoldsOK(w, h, c, {1, 2}),
           NEW o \in {1, 2}, NEW m \in Members[kind], o = 2 => m \notin w[1],
           NEW w2, w2[1] = (IF o = 1 THEN w[1] \ {m} ELSE w[1]),
           Lazy[kind] \subseteq Members[kind]
    PROVE  HoldsOK(w2, [h EXCEPT ![o][m] = h[Other(o)][m]], c, {1, 2})
  <1> DEFINE h2 == [h EXCEPT ![o][m] = h[Other(o)][m]]
  <1>1. /\ h \in [{1, 2} -> [Members[kind] -> Cells \cup {None}]]
        /\ Other(o) \in {1, 2} /\ (o = 2 => Other(o) = 1) /\ (o = 1 => Other(o) = 2)
    BY DEF LinksOK, Other
  <1>2. /\ h2[o][m] = h[Other(o)][m]
        /\ \A p \in {1, 2}, k \in Members[kind] : p # o \/ k # m => h2[p][k] = h[p][k]
    BY <1>1
  <1>3. m \notin w2[1] /\ w2[1] \subseteq w[1]
    OBVIOUS
  <1> HIDE DEF h2
  <1>4. \A p \in {1, 2}, k \in Members[kind] : h2[p][k] # None => c[k][h2[p][k]] # None
    BY <1>1, <1>2 DEF HoldsOK
  <1>5. ASSUME NEW k \in Members[kind] \ {"path", "value"}
        PROVE  (k \in w2[1] \/ h2[1][k] # None) /\ h2[2][k] # None
    <2>1. (k \in w[1] \/ h[1][k] # None) /\ h[2][k] # None
      BY DEF HoldsOK
    <2>2. QED
      BY <1>1, <1>2, <2>1
  <1>6. ASSUME "value" \in w2[1] PROVE h2[1]["value"] = None /\ h2[2]["value"] # 1
    <2>1. "value" # m /\ "value" \in w[1] /\ "value" \in Members[kind]
      BY <1>3, <1>6 DEF LinksOK
    <2>2. QED
      BY <1>2, <2>1 DEF HoldsOK
  <1>7. QED
    BY <1>4, <1>5, <1>6 DEF HoldsOK, h2

LEMMA HoldsAfter == HoldsOK(cached, held, cell, objects)' => ContentInv'
  BY DEF ContentInv, HoldsOK, Waits

\* At the beginning.
LEMMA InitContent == Init => ContentInv
  <1> SUFFICES ASSUME Init PROVE ContentInv
    OBVIOUS
  <1>1. RowOK(kind) /\ GivesOK(kind) /\ None \notin {0, 1, 2} /\ 1 # None
    BY Rows, RowGives, NoneApart DEF Init, Cells
  <1>2. Empty # None /\ Made # None
    BY GivenDicts, NoneApart, CIMClassesAssumption
  <1>3. CASE /\ cached = [o \in {1, 2} |-> IF o = 1 THEN Lazy[kind] ELSE {}]
             /\ held = [o \in {1, 2} |->
                   [m \in Members[kind] |-> IF o = 1 /\ m \notin Lazy[kind] THEN 1 ELSE None]]
             /\ cell = [m \in Members[kind] |->
                   [c \in Cells |->
                       IF c = 1 /\ m \notin Lazy[kind] THEN Reads(None, FALSE)[kind][m]
                       ELSE IF c = 0 /\ m \in Keeps[kind] THEN Empty ELSE None]]
    <2>1. \A m \in Members[kind] \ Lazy[kind] : m # "path"
      BY <1>1 DEF RowOK, Init, Kinds, Lazy, InstanceLazy
    <2>2. \A m \in Members[kind] \ Lazy[kind] : Reads(None, FALSE)[kind][m] # None
      BY <1>1, <2>1 DEF GivesOK
    <2>3. ASSUME NEW m \in Members[kind]
          PROVE  /\ held[1][m] = (IF m \notin Lazy[kind] THEN 1 ELSE None)
                 /\ held[2][m] = None
      BY <1>3
    <2>4. ASSUME NEW m \in Members[kind] \ Lazy[kind] PROVE cell[m][1] # None
      <3>1. cell[m][1] = Reads(None, FALSE)[kind][m]
        BY <1>3, <2>4 DEF Cells
      <3>2. QED
        BY <2>2, <3>1
    <2>5. ASSUME NEW m \in Keeps[kind] PROVE cell[m][0] # None
      <3>1. m \in Members[kind]
        BY <1>1 DEF RowOK
      <3>2. cell[m][0] = Empty
        BY <1>3, <2>5, <3>1 DEF Cells
      <3>3. QED
        BY <1>2, <3>2
    <2>6. cached[1] = Lazy[kind] /\ Lazy[kind] \subseteq Members[kind]
      BY <1>1, <1>3 DEF RowOK
    <2>7. \A o \in {1, 2}, m \in Members[kind] :
            held[o][m] # None => cell[m][held[o][m]] # None
      BY <2>3, <2>4
    <2>8. "value" \in Lazy[kind] => held[1]["value"] = None /\ held[2]["value"] # 1
      BY <1>1, <2>3, <2>6
    <2>9. objects # {1, 2} /\ \A m \in Members[kind] : m \in cached[1] \/ held[1][m] # None
      BY <1>1, <2>3, <2>6 DEF Init
    <2>10. QED
      BY <2>5, <2>6, <2>7, <2>8, <2>9 DEF ContentInv, Waits
  <1>4. CASE /\ cached = [o \in {1, 2} |-> {}]
             /\ held = [o \in {1, 2} |->
                   [m \in Members[kind] |->
                       IF o = 2 THEN None ELSE IF m \in Keeps[kind] THEN 0 ELSE 1]]
             /\ cell = [m \in Members[kind] |->
                   [c \in Cells |->
                       IF c = 0 /\ m \in Keeps[kind] THEN Empty
                       ELSE IF c = 1 /\ m \notin Keeps[kind] THEN Made ELSE None]]
    <2>1. \A m \in Members[kind] :
            /\ held[1][m] = (IF m \in Keeps[kind] THEN 0 ELSE 1) /\ held[2][m] = None
            /\ m \notin Keeps[kind] => cell[m][1] = Made
            /\ m \in Keeps[kind] => cell[m][0] = Empty
      BY <1>4 DEF Cells
    <2>2. cached[1] = {}
      BY <1>4
    <2>3. objects # {1, 2} /\ \A m \in Members[kind] : held[1][m] # None
      BY <1>1, <2>1 DEF Init
    <2>4. QED
      BY <1>1, <1>2, <2>1, <2>2, <2>3 DEF ContentInv, Waits, RowOK
  <1>5. QED
    BY <1>3, <1>4 DEF Init

\* A getter, and everything that reads several members.
LEMMA ReadContent ==
    ASSUME ObjectsInv, ContentInv, NEW o \in {1, 2}, NEW members, Read(o, members),
           UNCHANGED <<facts, objects>>
    PROVE  ContentInv'
  <1>1. HoldsOK(CachedAfter(o, members), HeldAfter(o, members), CellAfter(o, members), objects)
    BY ReadHolds
  <1>2. HoldsOK(cached, held, cell, objects)'
    BY <1>1 DEF HoldsOK, Read, facts
  <1>3. QED
    BY <1>2, HoldsAfter

\* The getter returns what the object refers to afterwards, unless that is nothing.
LEMMA AlterMeans ==
    ASSUME ObjectsInv, NEW o \in {1, 2}, NEW m \in Members[kind], ~Fails(o, m),
           Content(o, m) # None
    PROVE  /\ m \notin CachedAfter(o, {m})[o]
           /\ HeldAfter(o, {m})[o][m] \in Cells /\ HeldAfter(o, {m})[o][m] # None
           /\ Waits(o, m) => HeldAfter(o, {m})[o][m] = 1
           /\ ~Waits(o, m) => HeldAfter(o, {m})[o][m] = held[o][m]
  <1>1. held \in [{1, 2} -> [Members[kind] -> Cells \cup {None}]] /\ cached[2] = {}
    BY DEF ObjectsInv, TypeOK, WaitInv
  <1>2. 1 # None /\ 1 \in Cells
    BY NoneApart DEF Cells
  <1>3. CASE o = 2
    BY <1>1, <1>3, SecondStays DEF Content, Waits
  <1>4. CASE o = 1
    <2>1. Waits(1, m) => m \in Evaluated(1, {m}) /\ Given(1, m) # None
      BY <1>4 DEF Evaluated, Content, Waits
    <2>2. ~Waits(1, m) => m \notin Evaluated(1, {m}) /\ held[1][m] # None
      BY <1>4 DEF Evaluated, Content, Waits
    <2>3. /\ m \in CachedAfter(1, {m})[1] <=> m \in cached[1] \ Evaluated(1, {m})
          /\ HeldAfter(1, {m})[1][m] =
                IF m \in Evaluated(1, {m}) THEN IF Given(1, m) = None THEN None ELSE 1
                ELSE IF m \in {m} /\ Fails(1, m) THEN 1
                ELSE held[1][m]
      BY ZenonT(60), ReadMember
    <2>4. held[1][m] \in Cells \cup {None}
      BY <1>1
    <2>5. QED
      BY <1>2, <1>4, <2>1, <2>2, <2>3, <2>4 DEF Waits
  <1>5. QED
    BY <1>3, <1>4

\* A change of what a getter returns.
LEMMA AlterContent ==
    ASSUME ObjectsInv, ContentInv, NEW o \in {1, 2}, NEW m \in Members[kind], ~Fails(o, m),
           Content(o, m) # None, NEW new, new # None, Alter(o, m, new), m # "value"
    PROVE  ContentInv'
  <1> DEFINE w == CachedAfter(o, {m})
             h == HeldAfter(o, {m})
             c == CellAfter(o, {m})
             f == h[o][m]
  <1>1. LinksOK(w, h, c, shared) /\ HoldsOK(w, h, c, objects)
    BY ReadLinks, ReadHolds
  <1>2. m \notin w[o] /\ f \in Cells
    BY AlterMeans
  <1>3. /\ cached' = w /\ held' = h /\ cell' = [c EXCEPT ![m][f] = new] /\ kind' = kind
        /\ objects' = objects /\ f # None
    BY AlterMeans DEF Alter, facts
  <1> HIDE DEF w, h, c
  <1>4. held' = [h EXCEPT ![o][m] = f]
    BY <1>1, <1>3 DEF LinksOK
  <1> HIDE DEF f
  <1>5. HoldsOK(cached', held', cell', objects)
    <2>1. cached'[1] = IF o = 1 THEN w[1] \ {m} ELSE w[1]
      BY <1>2, <1>3
    <2>2. HoldsOK(cached', [h EXCEPT ![o][m] = f], [c EXCEPT ![m][f] = new], objects)
      BY <1>1, <1>2, <1>3, <2>1, PutHolds, InvFacts DEF RowOK
    <2>3. QED
      BY <1>3, <1>4, <2>2
  <1>6. HoldsOK(cached, held, cell, objects)'
    BY <1>3, <1>5 DEF HoldsOK
  <1>7. QED
    BY <1>6, HoldsAfter

\* What a setter takes is something.
TakesOK(k) == \A m \in Members[k] : None \notin Takes[k][m]

LEMMA RowTakes == \A k \in Kinds : TakesOK(k)
  <1>1. None \notin AnyDict /\ None \notin Hosts /\ None # Made
    BY GivenDicts, NoneApart, CIMClassesAssumption DEF AnyDict
  <1> HIDE DEF AnyDict
  <1> USE <1>1 DEF TakesOK, Lazy, Members, Takes
  <1>2. TakesOK("instance")
    BY DEF InstanceLazy, InstanceTakes
  <1>3. TakesOK("class")
    BY DEF ClassLazy, ClassTakes
  <1>4. TakesOK("method")
    BY DEF MethodLazy, MethodTakes
  <1>5. TakesOK("parameter")
    BY DEF ParameterLazy, ParameterTakes
  <1>6. TakesOK("property")
    BY DEF PropertyLazy, PropertyTakes
  <1>7. TakesOK("qualifier")
    BY DEF QualifierTakes
  <1>8. TakesOK("name")
    BY DEF NameTakes
  <1>9. TakesOK("dict")
    OBVIOUS
  <1> HIDE DEF TakesOK
  <1>10. QED
    BY <1>2, <1>3, <1>4, <1>5, <1>6, <1>7, <1>8, <1>9 DEF Kinds

\* What a member has that was read first.
LEMMA WhatIsRead ==
    ASSUME ObjectsInv, NEW members, NEW m \in members, ~Fails(1, m)
    PROVE  m \notin CachedAfter(1, members)[1]
  <1>1. cached \in [{1, 2} -> SUBSET Lazy[kind]]
    BY DEF ObjectsInv, TypeOK
  <1>2. QED
    BY <1>1 DEF CachedAfter, Released, Evaluated

\* A setter.
LEMMA SetMemberContent ==
    ASSUME ObjectsInv, ContentInv, NEW o \in {1, 2}, NEW m \in Members[kind],
           NEW new \in Takes[kind][m], SetMember(o, m, new)
    PROVE  ContentInv'
  <1> DEFINE w == CachedAfter(o, ReadsFirst(m))
             h == HeldAfter(o, ReadsFirst(m))
             c == CellAfter(o, ReadsFirst(m))
  <1>1. new # None /\ kind' = kind /\ UNCHANGED <<facts, objects>>
    BY RowTakes, InvFacts DEF TakesOK, SetMember, facts
  <1>2. CASE Read(o, ReadsFirst(m))
    BY <1>1, <1>2, ReadContent
  <1>3. CASE /\ cached' = [w EXCEPT ![o] = @ \ {m}]
             /\ held' = [h EXCEPT ![o][m] = Free(o, m)]
             /\ cell' = [c EXCEPT ![m][Free(o, m)] = new]
    <2>1. LinksOK(w, h, c, shared) /\ HoldsOK(w, h, c, objects)
      BY ReadLinks, ReadHolds
    <2>2. Free(o, m) \in Cells /\ Free(o, m) # None
      BY FreeMeans DEF Cells
    <2>3. w[1] \subseteq cached[1]
      BY SecondStays, FirstReads
    <2>4. m = "value" /\ o = 2 /\ m \in w[1] => Free(o, m) # 1
      BY <2>3, FreeMeans DEF Waits
    <2> HIDE DEF w, h, c
    <2>5. cached'[1] = IF o = 1 THEN w[1] \ {m} ELSE w[1]
      BY <1>3, <2>1 DEF LinksOK
    <2>6. HoldsOK(cached', held', cell', objects)
      BY <1>1, <1>3, <2>1, <2>2, <2>4, <2>5, PutHolds, InvFacts DEF RowOK
    <2>7. HoldsOK(cached, held, cell, objects)'
      BY <1>1, <2>6 DEF HoldsOK
    <2>8. QED
      BY <2>7, HoldsAfter
  <1>4. QED
    BY <1>2, <1>3 DEF SetMember

\* A setter that is given the other object's member.
LEMMA ShareMemberContent ==
    ASSUME ObjectsInv, ContentInv, NEW o \in {1, 2}, NEW m \in Members[kind], ShareMember(o, m)
    PROVE  ContentInv'
  <1> DEFINE read == IF o = 2 THEN {m} ELSE ReadsFirst(m)
             w == CachedAfter(1, read)
             h == HeldAfter(1, read)
             c == CellAfter(1, read)
  <1>1. kind' = kind /\ objects = {1, 2} /\ UNCHANGED <<facts, objects>>
    BY DEF ShareMember, facts
  <1>2. CASE Read(1, read)
    BY <1>1, <1>2, ReadContent
  <1>3. CASE /\ ~\E r \in read : Fails(1, r)
             /\ cached' = [w EXCEPT ![o] = @ \ {m}]
             /\ held' = [h EXCEPT ![o][m] = h[Other(o)][m]]
             /\ cell' = c
    <2>1. LinksOK(w, h, c, shared) /\ HoldsOK(w, h, c, {1, 2})
      BY <1>1, ReadLinks, ReadHolds
    <2>2. o = 2 => m \notin w[1]
      BY <1>3, WhatIsRead
    <2> HIDE DEF w, h, c, read
    <2>3. cached'[1] = IF o = 1 THEN w[1] \ {m} ELSE w[1]
      BY <1>3, <2>1 DEF LinksOK
    <2>4. HoldsOK(cached', held', cell', {1, 2})
      BY <1>3, <2>1, <2>2, <2>3, ShareHolds, InvFacts DEF RowOK
    <2>5. HoldsOK(cached, held, cell, objects)'
      BY <1>1, <2>4 DEF HoldsOK
    <2>6. QED
      BY <2>5, HoldsAfter
  <1>4. QED
    BY <1>2, <1>3, Zenon DEF ShareMember

\* copy() does not copy a value.
NoValueOK(k) == \A i \in DOMAIN Copies[k] : Copies[k][i] # "value"

LEMMA RowNoValue == \A k \in Kinds : NoValueOK(k)
  <1> USE DEF NoValueOK, Copies
  <1>1. NoValueOK("instance")
    BY DEF InstanceCopies
  <1>2. NoValueOK("class")
    BY DEF ClassCopies
  <1>3. NoValueOK("method")
    BY DEF MethodCopies
  <1>4. NoValueOK("parameter")
    BY DEF ParameterCopies
  <1>5. NoValueOK("property")
    BY DEF PropertyCopies
  <1>6. NoValueOK("qualifier")
    BY DEF QualifierCopies
  <1>7. NoValueOK("name")
    BY DEF NameCopies
  <1>8. NoValueOK("dict")
    BY DEF DictCopies
  <1> HIDE DEF NoValueOK
  <1>9. QED
    BY <1>1, <1>2, <1>3, <1>4, <1>5, <1>6, <1>7, <1>8 DEF Kinds

\* What a copy that succeeds has read: everything but a value, and it could use it.
CopyRead == Reached(Copies[kind], CopyUseless)

LEMMA CopyMeans ==
    ASSUME ObjectsInv, ~CopyRaises
    PROVE  /\ CopyRead = Members[kind] \ {"value"}
           /\ \A m \in CopyRead : ~Fails(1, m) /\ Content(1, m) \notin {Raw, None}
  <1>1. Members[kind] \ {"value"} \subseteq CopyRead /\ CopyRead \subseteq Members[kind]
    BY ReachedAll DEF CopyRaises, CopyUseless, CopyRead
  <1>2. "value" \notin CopyRead
    BY RowNoValue, InvFacts DEF CopyRead, Reached, NoValueOK
  <1>3. QED
    BY <1>1, <1>2 DEF CopyUseless, IsDict, CopyRaises, CopyRead

\* copy()
LEMMA CopyContent == ASSUME ObjectsInv, ContentInv, Copy PROVE ContentInv'
  <1> DEFINE w == CachedAfter(1, CopyRead)
             h == HeldAfter(1, CopyRead)
             c == CellAfter(1, CopyRead)
             second == [m \in Members[kind] |->
                            IF m \in CopyRead THEN Free(2, m) ELSE held[1][m]]
  <1>1. kind' = kind /\ UNCHANGED facts
    BY DEF Copy, facts
  <1>2. CASE CopyRaises
    <2>1. Read(1, CopyRead) /\ objects' = objects
      BY <1>2 DEF Copy, CopyRead
    <2>2. QED
      BY <1>1, <2>1, ReadContent
  <1>3. CASE ~CopyRaises
    <2>1. /\ objects' = {1, 2} /\ cached' = w /\ held' = [h EXCEPT ![2] = second]
          /\ cell' = [m \in Members[kind] |->
                IF m \in CopyRead THEN [c[m] EXCEPT ![Free(2, m)] = Content(1, m)] ELSE cell[m]]
      BY <1>3 DEF Copy, CopyRead
    <2>2. LinksOK(w, h, c, shared) /\ HoldsOK(w, h, c, objects)
      BY ReadLinks, ReadHolds
    <2>3. HoldsOK(cached, held, cell, objects) /\ LinksOK(cached, held, cell, shared)
      BY ContentMeans, InvLinks
    <2>4. /\ CopyRead = Members[kind] \ {"value"}
          /\ \A m \in CopyRead : Content(1, m) # None
      BY <1>3, CopyMeans
    <2>5. \A m \in Members[kind] : Free(2, m) \in Cells /\ Free(2, m) # None
      BY FreeMeans DEF Cells
    <2>6. "value" \in Members[kind] =>
            /\ "value" \in w[1] => "value" \in cached[1]
            /\ h[1]["value"] = held[1]["value"] /\ c["value"] = cell["value"]
      <3>1. ASSUME "value" \in Members[kind]
            PROVE  /\ "value" \notin Evaluated(1, CopyRead) /\ "value" \notin CopyRead
        BY <2>4 DEF Evaluated
      <3>2. ASSUME "value" \in Members[kind]
            PROVE  /\ "value" \in w[1] => "value" \in cached[1]
                   /\ h[1]["value"] =
                        IF "value" \in Evaluated(1, CopyRead)
                          THEN IF Given(1, "value") = None THEN None ELSE 1
                        ELSE IF "value" \in CopyRead /\ Fails(1, "value") THEN 1
                        ELSE held[1]["value"]
                   /\ c["value"] = cell["value"]
        BY ZenonT(60), <3>1, <3>2, ReadMember DEF CellAfter
      <3>3. QED
        BY <3>1, <3>2
    <2> HIDE DEF w, h, c
    <2>7. held'[1] = h[1] /\ held'[2] = second
      BY <2>1, <2>2 DEF LinksOK
    <2>8. ASSUME NEW m \in Members[kind]
          PROVE  /\ held'[1][m] # None => cell'[m][held'[1][m]] # None
                 /\ held'[2][m] # None => cell'[m][held'[2][m]] # None
      <3>1. CASE m \in CopyRead
        <4>1. cell'[m] = [c[m] EXCEPT ![Free(2, m)] = Content(1, m)] /\ held'[2][m] = Free(2, m)
          BY <2>1, <2>7, <3>1
        <4>2. c[m] \in [Cells -> ContentsOf(m)] /\ h[1][m] \in Cells \cup {None}
          BY <2>2 DEF LinksOK
        <4>3. h[1][m] # None => c[m][h[1][m]] # None
          BY <2>2 DEF HoldsOK
        <4>4. \A i \in Cells : cell'[m][i] = IF i = Free(2, m) THEN Content(1, m) ELSE c[m][i]
          BY <4>1, <4>2
        <4>5. QED
          BY <2>4, <2>5, <2>7, <3>1, <4>1, <4>2, <4>3, <4>4
      <3>2. CASE m \notin CopyRead
        <4>1. m = "value" /\ cell'[m] = cell[m] /\ held'[2][m] = held[1][m]
          BY <2>1, <2>4, <2>7, <3>2
        <4>2. QED
          BY <2>3, <2>6, <2>7, <4>1 DEF HoldsOK
      <3>3. QED
        BY <3>1, <3>2
    <2>9. ASSUME "value" \in cached'[1] PROVE held'[1]["value"] = None /\ held'[2]["value"] # 1
      <3>1. "value" \in Members[kind] /\ "value" \notin CopyRead
        BY <2>1, <2>2, <2>4, <2>9, InvFacts DEF LinksOK, RowOK
      <3>2. "value" \in cached[1] /\ held[1]["value"] = None /\ 1 # None
        BY <2>1, <2>3, <2>6, <2>9, <3>1, NoneApart DEF HoldsOK, Cells
      <3>3. held'[2]["value"] = held[1]["value"]
        BY <2>7, <3>1
      <3>4. QED
        BY <2>6, <2>7, <3>1, <3>2, <3>3
    <2>10. ASSUME NEW m \in Keeps[kind] PROVE cell'[m][0] # None
      <3>1. m \in Members[kind] /\ m \in CopyRead
        BY <2>4, InvFacts DEF RowOK
      <3>2. c[m] \in [Cells -> ContentsOf(m)] /\ c[m][0] # None /\ 0 \in Cells
        BY <2>2, <3>1 DEF LinksOK, HoldsOK, Cells
      <3>3. cell'[m] = [c[m] EXCEPT ![Free(2, m)] = Content(1, m)]
        BY <2>1, <3>1
      <3>4. QED
        BY <2>4, <3>1, <3>2, <3>3
    <2>11. ASSUME NEW m \in Members[kind] \ {"path", "value"}
           PROVE  (m \in w[1] \/ h[1][m] # None) /\ second[m] # None
      BY <2>2, <2>4, <2>5 DEF HoldsOK, second
    <2>12. HoldsOK(cached, held, cell, objects)'
      BY ZenonT(60), <1>1, <2>1, <2>7, <2>8, <2>9, <2>10, <2>11 DEF HoldsOK
    <2>13. QED
      BY <2>12, HoldsAfter
  <1>4. QED
    BY <1>2, <1>3

\* What the constructor makes of a member that is not an argument, and of one that is.
MadeOf(m, passed, argument, host) ==
    IF m \notin passed THEN Constructed(m, argument, host)
    ELSE IF Content(1, m) = Raw THEN FromProgram ELSE Content(1, m)

LEMMA MadeMeans ==
    ASSUME ObjectsInv, ContentInv, NEW passed, NEW argument, NEW host,
           NEW m \in Members[kind] \ {"path", "value"}, m \in passed => ~Fails(1, m)
    PROVE  MadeOf(m, passed, argument, host) # None
  <1>1. Empty # None /\ FromProgram # None /\ Raw # None /\ 1 # None
    BY GivenDicts, NoneApart, CIMClassesAssumption DEF Cells
  <1>2. Given(1, m) # None /\ (Waits(1, m) \/ held[1][m] # None)
    BY GivenNotNone DEF ContentInv
  <1>3. Content(1, m) # None
    BY <1>2 DEF Content, ContentInv
  <1>4. QED
    BY <1>1, <1>3 DEF MadeOf, Constructed

\* Another object of the program's.
LEMMA ConstructContent ==
    ASSUME ObjectsInv, ContentInv, NEW argument, NEW host, NEW passed \in SUBSET touched,
           Construct(argument, host, passed)
    PROVE  ContentInv'
  <1> DEFINE Default(m) == m \notin passed /\ Defaulted(m, argument)
             New(m) == MadeOf(m, passed, argument, host)
             w == CachedAfter(1, passed)
             h == HeldAfter(1, passed)
             c == CellAfter(1, passed)
             second == [m \in Members[kind] |->
                            IF m \in KeptBy(passed) THEN h[1][m]
                            ELSE IF Default(m) THEN 0
                            ELSE IF New(m) = None THEN None ELSE Free(2, m)]
  <1>1. CASE \E m \in passed : Fails(1, m)
    <2>1. Read(1, passed) /\ UNCHANGED <<facts, objects>>
      BY <1>1 DEF Construct
    <2>2. QED
      BY <2>1, ReadContent
  <1>2. CASE ~\E m \in passed : Fails(1, m)
    <2>1. /\ objects' = {1, 2} /\ cached' = w /\ held' = [h EXCEPT ![2] = second]
          /\ cell' = [m \in Members[kind] |->
                IF m \in KeptBy(passed) \/ Default(m) \/ New(m) = None THEN c[m]
                ELSE [c[m] EXCEPT ![Free(2, m)] = New(m)]]
          /\ kind' = kind
      BY <1>2 DEF Construct, MadeOf, facts
    <2>2. LinksOK(w, h, c, shared) /\ HoldsOK(w, h, c, objects) /\ w[1] \subseteq cached[1]
      BY ReadLinks, ReadHolds, FirstReads
    <2>3. passed \subseteq Members[kind] /\ KeptBy(passed) \subseteq passed
      BY DEF ObjectsInv, TypeOK, KeptBy
    <2>4. \A m \in passed : m \notin w[1]
      BY <1>2, WhatIsRead
    <2>5. \A m \in Members[kind] :
            Free(2, m) \in Cells /\ Free(2, m) # None /\ (Waits(1, m) => Free(2, m) = 2)
      BY FreeMeans DEF Cells
    <2>6. \A m \in Members[kind] \ {"path", "value"} : New(m) # None
      BY <1>2, MadeMeans
    <2> HIDE DEF New, w, h, c
    <2>7. held'[1] = h[1] /\ held'[2] = second
      BY <2>1, <2>2 DEF LinksOK
    <2>8. \A m \in Members[kind] : c[m] \in [Cells -> ContentsOf(m)]
                                   /\ h[1][m] \in Cells \cup {None}
      BY <2>2 DEF LinksOK
    <2>9. \A m \in Members[kind] : Default(m) => c[m][0] # None
      BY <2>2 DEF HoldsOK, Defaulted
    <2> HIDE DEF Default
    <2>10. ASSUME NEW m \in Members[kind]
           PROVE  /\ \A i \in Cells : c[m][i] # None => cell'[m][i] # None
                  /\ second[m] # None => cell'[m][second[m]] # None
      <3>1. CASE m \in KeptBy(passed)
        <4>1. cell'[m] = c[m] /\ second[m] = h[1][m]
          BY <2>1, <3>1
        <4>2. QED
          BY <2>2, <4>1 DEF HoldsOK
      <3>2. CASE m \notin KeptBy(passed) /\ Default(m)
        <4>1. cell'[m] = c[m] /\ second[m] = 0
          BY <2>1, <3>2
        <4>2. QED
          BY <2>9, <3>2, <4>1
      <3>3. CASE m \notin KeptBy(passed) /\ ~Default(m) /\ New(m) = None
        <4>1. cell'[m] = c[m] /\ second[m] = None
          BY <2>1, <3>3
        <4>2. QED
          BY <4>1
      <3>4. CASE m \notin KeptBy(passed) /\ ~Default(m) /\ New(m) # None
        <4>1. cell'[m] = [c[m] EXCEPT ![Free(2, m)] = New(m)] /\ second[m] = Free(2, m)
          BY <2>1, <3>4
        <4>2. \A i \in Cells : cell'[m][i] = IF i = Free(2, m) THEN New(m) ELSE c[m][i]
          BY <2>5, <2>8, <4>1
        <4>3. QED
          BY <2>5, <3>4, <4>1, <4>2
      <3>5. QED
        BY <3>1, <3>2, <3>3, <3>4
    <2>11. ASSUME NEW m \in Members[kind] \ {"path", "value"}
           PROVE  (m \in w[1] \/ h[1][m] # None) /\ second[m] # None
      <3>1. m \in w[1] \/ h[1][m] # None
        BY <2>2 DEF HoldsOK
      <3>2. 0 # None
        BY NoneApart DEF Cells
      <3>3. QED
        BY <2>3, <2>4, <2>5, <2>6, <3>1, <3>2
    <2>12. ASSUME "value" \in w[1] PROVE h[1]["value"] = None /\ second["value"] # 1
      <3>1. /\ "value" \in Members[kind] /\ Waits(1, "value") /\ h[1]["value"] = None
            /\ "value" \notin passed
        BY <2>2, <2>4, <2>12, InvFacts DEF LinksOK, RowOK, HoldsOK, Waits
      <3>2. second["value"] \in {0, None, 2} /\ None # 1
        BY <2>3, <2>5, <3>1, NoneApart DEF Cells
      <3>3. QED
        BY <3>1, <3>2
    <2>13. \A m \in Keeps[kind] : cell'[m][0] # None
      BY <2>2, <2>10, InvFacts DEF HoldsOK, RowOK, Cells
    <2>14. \A m \in Members[kind] : h[1][m] # None => cell'[m][h[1][m]] # None
      BY <2>2, <2>8, <2>10 DEF HoldsOK
    <2> HIDE DEF second
    <2>15. HoldsOK(cached, held, cell, objects)'
      BY ZenonT(60), <2>1, <2>7, <2>10, <2>11, <2>12, <2>13, <2>14 DEF HoldsOK
    <2>16. QED
      BY <2>15, HoldsAfter
  <1>3. QED
    BY <1>1, <1>2

\* The methods of a dictionary.
LEMMA ChangeContent ==
    ASSUME ObjectsInv, ContentInv, NEW o \in objects, Changes(o) PROVE ContentInv'
  <1>1. PICK m \in touched :
            \/ \E new \in Takes[kind][m] : SetMember(o, m, new)
            \/ ShareMember(o, m)
            \/ /\ m \notin {"path", "value"}
               /\ \/ \E key \in KeysOf(m) : PutItem(o, m, key) \/ RemoveItem(o, m, key)
                  \/ ClearItems(o, m)
                  \/ \E other \in Updates \cup {Content(p, m) : p \in objects} :
                        UpdateItems(o, m, other)
    BY DEF Changes
  <1>2. m \in Members[kind] /\ o \in {1, 2} /\ RowOK(kind)
    BY ObjectsMean, InvFacts DEF ObjectsInv, TypeOK
  <1>3. ASSUME NEW new \in Takes[kind][m], SetMember(o, m, new) PROVE ContentInv'
    BY <1>2, <1>3, SetMemberContent
  <1>4. ASSUME m \notin {"path", "value"}, NEW new, Alter(o, m, new),
               IsDict(o, m), Content(o, m) \in Dicts => new \in Dicts
        PROVE  ContentInv'
    <2>1. ~Fails(o, m) /\ Content(o, m) # None /\ Content(o, m) \in Dicts
      BY <1>2, <1>4, ContentType, ContentsMeans DEF IsDict
    <2>2. new # None
      BY <1>4, <2>1, NoneApart
    <2>3. QED
      BY <1>2, <1>4, <2>1, <2>2, AlterContent
  <1>5. \A key \in KeysOf(m) : key \in Keys
    BY CIMClassesAssumption DEF KeysOf, Keys
  <1>6. ASSUME m \notin {"path", "value"}, NEW key \in KeysOf(m), PutItem(o, m, key)
        PROVE  ContentInv'
    BY <1>4, <1>5, <1>6, SetItemKeeps, ElementsType DEF PutItem
  <1>7. ASSUME m \notin {"path", "value"}, NEW key \in KeysOf(m), RemoveItem(o, m, key)
        PROVE  ContentInv'
    BY <1>4, <1>7, DelItemKeeps DEF RemoveItem
  <1>8. ASSUME m \notin {"path", "value"}, ClearItems(o, m) PROVE ContentInv'
    BY <1>4, <1>8, GivenDicts DEF ClearItems
  <1>9. ASSUME NEW other \in Updates \cup {Content(p, m) : p \in objects}, UpdateItems(o, m, other)
        PROVE  ContentInv'
    <2>1. m = "items" /\ kind = "dict" /\ Alter(o, m, Update(Content(o, m), other))
      BY <1>2, <1>9 DEF UpdateItems, RowOK
    <2>2. \A p \in objects : Content(p, m) \in Dicts /\ ~Fails(p, m)
      BY <2>1, DictStays, ObjectsMean DEF ObjectsInv, DictInv
    <2>3. Update(Content(o, m), other) \in Dicts
      BY <2>2, UpdatesType, UpdateKeeps
    <2>4. Content(o, m) # None /\ Update(Content(o, m), other) # None
      BY <2>2, <2>3, NoneApart
    <2>5. QED
      BY <1>2, <2>1, <2>2, <2>4, AlterContent
  <1>10. CASE ShareMember(o, m)
    BY <1>2, <1>10, ShareMemberContent
  <1>11. QED
    BY <1>1, <1>3, <1>6, <1>7, <1>8, <1>9, <1>10

\* Every step.
LEMMA ContentPreserved == ASSUME ObjectsInv, ContentInv, [Next]_vars PROVE ContentInv'
  <1>1. objects \subseteq {1, 2} /\ 1 \in {1, 2}
    BY ObjectsMean
  <1>2. ASSUME NEW o \in objects, Convert(o) \/ PutValue(o)
                                  \/ \E m \in Members[kind] : GetMember(o, m)
        PROVE  ContentInv'
    <2>1. UNCHANGED <<facts, objects>> /\ \E members : Read(o, members)
      BY <1>2 DEF GetMember, Convert, PutValue, Iterate
    <2>2. QED
      BY <1>1, <2>1, ReadContent
  <1>3. ASSUME NEW o \in objects, Changes(o) PROVE ContentInv'
    BY <1>3, ChangeContent
  <1>4. ASSUME NEW o \in objects, NEW host \in Hosts, PutHost(o, host) PROVE ContentInv'
    <2>1. /\ "path" \in Members[kind] /\ Content(o, "path") # None /\ Alter(o, "path", host)
          /\ ~Fails(o, "path") /\ host # None
      BY <1>4, CIMClassesAssumption DEF PutHost, Touches, ObjectsInv, TypeOK, Fails
    <2>2. QED
      BY <1>1, <2>1, AlterContent
  <1>5. CASE Compare \/ Iterate
    <2>1. UNCHANGED <<facts, objects>> /\ \E members : Read(1, members)
      BY <1>5 DEF Compare, Iterate
    <2>2. QED
      BY <1>1, <2>1, ReadContent
  <1>6. CASE Copy
    BY <1>6, CopyContent
  <1>7. ASSUME NEW argument \in {"none", "dict", "nocasedict"},
               NEW host \in IF kind = "instance" THEN Hosts ELSE {None},
               NEW passed \in SUBSET touched, Construct(argument, host, passed)
        PROVE  ContentInv'
    BY <1>7, ConstructContent
  <1>8. CASE NextItem \/ IterateAgain \/ UNCHANGED vars
    <2>1. UNCHANGED <<facts, objects, links>>
      BY <1>8 DEF NextItem, IterateAgain, vars
    <2>2. QED
      BY <2>1 DEF ContentInv, Waits, facts, links
  <1>9. QED
    BY <1>2, <1>3, <1>4, <1>5, <1>6, <1>7, <1>8 DEF Next

-----------------------------------------------------------------------------
(* What the caller sees                                                    *)

\* What a member that waits is read into when the path is p.
GivenFor(p, m) ==
    IF m = "path" THEN sent.path
    ELSE Reads(IF kind = "instance" THEN p ELSE None, sent.reference)[kind][m]

\* The path of the first object, and the links of objects that do not wait, made of
\* those of objects that may.
PathOf(wait, hold, content) ==
    IF "path" \in wait[1] THEN sent.path
    ELSE IF hold[1]["path"] = None THEN None ELSE content["path"][hold[1]["path"]]

HeldOf(wait, hold, p) ==
    [o \in {1, 2} |-> [m \in Members[kind] |->
        IF m \notin wait[o] THEN hold[o][m] ELSE IF GivenFor(p, m) = None THEN None ELSE o]]

CellOf(wait, content, p) ==
    [m \in Members[kind] |->
        IF m \notin wait[1] \/ GivenFor(p, m) = None THEN content[m]
        ELSE [content[m] EXCEPT ![1] = GivenFor(p, m)]]

LEMMA GivenIs ==
    ASSUME ObjectsInv, NEW m \in cached[1]
    PROVE  Given(1, m) = GivenFor(Path(1), m)
  <1>1. CASE m = "path"
    <2>1. kind = "instance"
      BY <1>1, InvFacts DEF ObjectsInv, TypeOK, RowOK
    <2>2. QED
      BY <1>1, <2>1 DEF Given, GivenFor, Path, Waits, Reads, InstanceReads
  <1>2. CASE m # "path"
    BY <1>2 DEF Given, GivenFor
  <1>3. QED
    BY <1>1, <1>2

\* They are those of the refinement.
LEMMA SoFar ==
    ASSUME ObjectsInv
    PROVE  /\ HeldSoFar = HeldOf(cached, held, Path(1))
           /\ CellSoFar = CellOf(cached, cell, Path(1))
           /\ Path(1) = PathOf(cached, held, cell)
  <1>1. cached[2] = {}
    BY DEF ObjectsInv, WaitInv
  <1>2. ASSUME NEW m \in Members[kind]
        PROVE  /\ (IF m \notin cached[1] THEN held[1][m] ELSE IF Given(1, m) = None THEN None ELSE 1)
                    = (IF m \notin cached[1] THEN held[1][m]
                       ELSE IF GivenFor(Path(1), m) = None THEN None ELSE 1)
               /\ (IF m \in cached[1] /\ Given(1, m) # None
                     THEN [cell[m] EXCEPT ![1] = Given(1, m)] ELSE cell[m])
                    = (IF m \notin cached[1] \/ GivenFor(Path(1), m) = None THEN cell[m]
                       ELSE [cell[m] EXCEPT ![1] = GivenFor(Path(1), m)])
    BY GivenIs
  <1>3. HeldSoFar = HeldOf(cached, held, Path(1))
    <2>1. ASSUME NEW o \in {1, 2}, NEW m \in Members[kind]
          PROVE  (IF ~Waits(o, m) THEN held[o][m] ELSE IF Given(o, m) = None THEN None ELSE o)
                    = (IF m \notin cached[o] THEN held[o][m]
                       ELSE IF GivenFor(Path(1), m) = None THEN None ELSE o)
      BY <1>1, <1>2 DEF Waits
    <2>2. QED
      BY <2>1 DEF HeldSoFar, HeldOf
  <1>4. CellSoFar = CellOf(cached, cell, Path(1))
    BY <1>2 DEF CellSoFar, CellOf, Waits
  <1>5. QED
    BY <1>3, <1>4 DEF Path, PathOf, Waits

\* What is seen of one member.
LEMMA Seen ==
    ASSUME ObjectsInv
    PROVE  /\ HeldSoFar \in [{1, 2} -> [Members[kind] -> Cells \cup {None}]]
           /\ HeldSoFar[2] = held[2]
           /\ CellSoFar = [m \in Members[kind] |-> CellSoFar[m]]
           /\ \A m \in Members[kind] :
                /\ DOMAIN CellSoFar[m] = Cells
                /\ HeldSoFar[1][m] =
                        IF m \notin cached[1] THEN held[1][m]
                        ELSE IF Given(1, m) = None THEN None ELSE 1
                /\ CellSoFar[m] =
                        IF m \notin cached[1] \/ Given(1, m) = None THEN cell[m]
                        ELSE [cell[m] EXCEPT ![1] = Given(1, m)]
  <1>1. /\ held \in [{1, 2} -> [Members[kind] -> Cells \cup {None}]] /\ cached[2] = {}
        /\ \A m \in Members[kind] : DOMAIN cell[m] = Cells
    BY DEF ObjectsInv, TypeOK, WaitInv
  <1>2. 1 \in Cells
    BY DEF Cells
  <1>3. HeldSoFar[2] = [m \in Members[kind] |-> held[2][m]]
    BY <1>1 DEF HeldSoFar, Waits
  <1>4. HeldSoFar[2] = held[2]
    BY <1>1, <1>3
  <1>5. \A m \in Members[kind] :
            /\ HeldSoFar[1][m] =
                    IF m \notin cached[1] THEN held[1][m]
                    ELSE IF Given(1, m) = None THEN None ELSE 1
            /\ CellSoFar[m] =
                    IF m \notin cached[1] \/ Given(1, m) = None THEN cell[m]
                    ELSE [cell[m] EXCEPT ![1] = Given(1, m)]
    BY DEF HeldSoFar, CellSoFar, Waits
  <1>6. HeldSoFar \in [{1, 2} -> [Members[kind] -> Cells \cup {None}]]
    <2>1. HeldSoFar = [o \in {1, 2} |-> [m \in Members[kind] |-> HeldSoFar[o][m]]]
      BY DEF HeldSoFar
    <2>2. \A m \in Members[kind] :
            HeldSoFar[1][m] \in Cells \cup {None} /\ HeldSoFar[2][m] \in Cells \cup {None}
      BY <1>1, <1>2, <1>4, <1>5
    <2>3. QED
      BY <2>1, <2>2
  <1>7. CellSoFar = [m \in Members[kind] |-> CellSoFar[m]]
    BY DEF CellSoFar
  <1>8. \A m \in Members[kind] : DOMAIN CellSoFar[m] = Cells
    BY <1>1, <1>5
  <1>9. QED
    BY <1>4, <1>5, <1>6, <1>7, <1>8

\* Nobody refers to what a member that waits is read into.
LEMMA NoneRefers ==
    ASSUME ObjectsInv, ContentInv, NEW m \in cached[1]
    PROVE  m \in Members[kind] /\ held[2][m] # 1
  BY InvFacts DEF ObjectsInv, TypeOK, Apart, ContentInv, RowOK, Waits

\* What the caller sees of a member is what the getter returns.
LEMMA SeenContent ==
    ASSUME ObjectsInv, ContentInv, NEW m \in Members[kind]
    PROVE  Eager!Content(1, m) = Content(1, m) /\ Eager!Content(2, m) = Content(2, m)
  <1>1. /\ held \in [{1, 2} -> [Members[kind] -> Cells \cup {None}]] /\ cached[2] = {}
        /\ cell[m] \in [Cells -> ContentsOf(m)]
        /\ m \in cached[1] => held[2][m] # 1
    BY NoneRefers DEF ObjectsInv, TypeOK, WaitInv
  <1>2. /\ HeldSoFar[2] = held[2]
        /\ HeldSoFar[1][m] =
                IF m \notin cached[1] THEN held[1][m]
                ELSE IF Given(1, m) = None THEN None ELSE 1
        /\ CellSoFar[m] =
                IF m \notin cached[1] \/ Given(1, m) = None THEN cell[m]
                ELSE [cell[m] EXCEPT ![1] = Given(1, m)]
    BY Seen
  <1>3. 1 # None /\ 1 \in Cells
    BY NoneApart DEF Cells
  <1>4. \A new : /\ [cell[m] EXCEPT ![1] = new][1] = new
                 /\ \A i \in Cells \ {1} : [cell[m] EXCEPT ![1] = new][i] = cell[m][i]
    BY <1>1, <1>3
  <1>5. Eager!Content(2, m) = Content(2, m)
    <2>1. Content(2, m) = IF held[2][m] = None THEN None ELSE cell[m][held[2][m]]
      BY <1>1 DEF Content, Waits
    <2>2. held[2][m] # None => CellSoFar[m][held[2][m]] = cell[m][held[2][m]]
      <3>1. held[2][m] \in Cells \cup {None}
        BY <1>1
      <3>2. QED
        BY <1>1, <1>2, <1>4, <3>1
    <2>3. QED
      BY <1>2, <2>1, <2>2 DEF Eager!Content
  <1>6. CASE m \notin cached[1]
    BY <1>2, <1>5, <1>6 DEF Eager!Content, Content, Waits
  <1>7. CASE m \in cached[1]
    BY <1>2, <1>3, <1>4, <1>5, <1>7 DEF Eager!Content, Content, Waits
  <1>8. QED
    BY <1>6, <1>7

\* A cell that is free is free for the caller.
LEMMA SeenFree ==
    ASSUME ObjectsInv, NEW o \in {1, 2}, NEW m \in Members[kind]
    PROVE  Eager!Free(o, m) = Free(o, m)
  <1>1. CASE o = 1
    BY <1>1, Seen DEF Free, Other, Eager!Free
  <1>2. CASE o = 2
    <2>1. HeldSoFar[1][m] = 2 <=> held[1][m] = 2
      <3>1. Waits(1, m) => held[1][m] \in {1, None} /\ None # 2
        BY NoneApart DEF ObjectsInv, WaitInv, Cells
      <3>2. QED
        BY <3>1, Seen DEF Waits
    <2>2. QED
      BY <1>2, <2>1 DEF Free, Other, Eager!Free
  <1>3. QED
    BY <1>1, <1>2

\* Reading shows nothing to the caller.
LEMMA ReadSeen ==
    ASSUME ObjectsInv, NEW o \in {1, 2}, NEW members
    PROVE  /\ kind = "instance" =>
                PathOf(CachedAfter(o, members), HeldAfter(o, members), CellAfter(o, members)) = Path(1)
           /\ HeldOf(CachedAfter(o, members), HeldAfter(o, members), Path(1)) = HeldSoFar
           /\ CellOf(CachedAfter(o, members), CellAfter(o, members), Path(1)) = CellSoFar
  <1>1. CASE o = 2
    BY <1>1, SoFar, SecondStays
  <1>2. CASE o = 1
    <2> DEFINE w == CachedAfter(1, members)
               h == HeldAfter(1, members)
               c == CellAfter(1, members)
               E == Evaluated(1, members)
               p == Path(1)
    <2>1. /\ held \in [{1, 2} -> [Members[kind] -> Cells \cup {None}]]
          /\ \A m \in Members[kind] : cell[m] \in [Cells -> ContentsOf(m)]
          /\ 1 \in Cells /\ 1 # None
      BY NoneApart DEF ObjectsInv, TypeOK, Cells
    <2>2. E \subseteq cached[1] /\ \A m : (Fails(1, m) => m \in cached[1] /\ m = "properties")
                                          /\ (m \in E => ~Fails(1, m))
      BY DEF Evaluated, Fails, AsksPath, Waits
    <2>3. ASSUME NEW m \in Members[kind]
          PROVE  /\ m \in w[1] <=> m \in cached[1] \ E
                 /\ h[1][m] =
                      IF m \in E THEN IF Given(1, m) = None THEN None ELSE 1
                      ELSE IF m \in members /\ Fails(1, m) THEN 1
                      ELSE held[1][m]
                 /\ c[m] =
                      IF m \in E /\ Given(1, m) # None THEN [cell[m] EXCEPT ![1] = Given(1, m)]
                      ELSE IF m \in members /\ Fails(1, m) THEN [cell[m] EXCEPT ![1] = FromCIMOM]
                      ELSE cell[m]
                 /\ h[2] = held[2] /\ w[2] = {}
                 /\ m \in cached[1] => Given(1, m) = GivenFor(p, m)
      BY ReadMember, GivenIs
    <2>4. ASSUME kind = "instance" PROVE PathOf(w, h, c) = p
      <3>1. "path" \in Members[kind]
        BY <2>4 DEF Members, Lazy, InstanceLazy
      <3>2. /\ "path" \in w[1] <=> "path" \in cached[1] \ E
            /\ h[1]["path"] = IF "path" \in E THEN IF Given(1, "path") = None THEN None ELSE 1
                              ELSE held[1]["path"]
            /\ c["path"] = IF "path" \in E /\ Given(1, "path") # None
                             THEN [cell["path"] EXCEPT ![1] = Given(1, "path")]
                           ELSE cell["path"]
        BY <2>2, <2>3, <3>1
      <3>3. "path" \in cached[1] => Given(1, "path") = sent.path
        BY <2>3, <3>1 DEF GivenFor
      <3>4. [cell["path"] EXCEPT ![1] = Given(1, "path")][1] = Given(1, "path")
        BY <2>1, <3>1
      <3> HIDE DEF w, h, c, E
      <3>5. QED
        BY <2>1, <2>2, <3>2, <3>3, <3>4 DEF PathOf, Path, Waits
    <2>5. ASSUME NEW m \in Members[kind]
          PROVE  /\ HeldOf(w, h, p)[1][m] = HeldSoFar[1][m]
                 /\ HeldOf(w, h, p)[2][m] = HeldSoFar[2][m]
                 /\ CellOf(w, c, p)[m] = CellSoFar[m]
      <3>1. /\ HeldOf(w, h, p)[1][m] =
                    IF m \notin w[1] THEN h[1][m] ELSE IF GivenFor(p, m) = None THEN None ELSE 1
            /\ HeldOf(w, h, p)[2][m] =
                    IF m \notin w[2] THEN h[2][m] ELSE IF GivenFor(p, m) = None THEN None ELSE 2
            /\ CellOf(w, c, p)[m] =
                    IF m \notin w[1] \/ GivenFor(p, m) = None THEN c[m]
                    ELSE [c[m] EXCEPT ![1] = GivenFor(p, m)]
        BY DEF HeldOf, CellOf
      <3>2. /\ HeldSoFar[2] = held[2]
            /\ HeldSoFar[1][m] =
                    IF m \notin cached[1] THEN held[1][m]
                    ELSE IF Given(1, m) = None THEN None ELSE 1
            /\ CellSoFar[m] =
                    IF m \notin cached[1] \/ Given(1, m) = None THEN cell[m]
                    ELSE [cell[m] EXCEPT ![1] = Given(1, m)]
        BY Seen
      <3>3. \A x, y : [[cell[m] EXCEPT ![1] = x] EXCEPT ![1] = y] = [cell[m] EXCEPT ![1] = y]
        BY <2>1
      <3>4. m # "path" => Given(1, m) # None
        BY GivenNotNone
      <3> HIDE DEF w, h, c, E, p
      <3>5. CASE m \in E
        BY <2>2, <2>3, <3>1, <3>2, <3>5
      <3>6. CASE m \in cached[1] /\ m \notin E
        <4>1. m \in w[1] /\ Given(1, m) = GivenFor(p, m) /\ h[2] = held[2] /\ w[2] = {}
          BY <2>3, <3>6
        <4>2. CASE Fails(1, m)
          <5>1. Given(1, m) # None /\ (c[m] = [cell[m] EXCEPT ![1] = FromCIMOM] \/ c[m] = cell[m])
            BY <2>2, <2>3, <3>4, <3>6, <4>2
          <5>2. QED
            BY <3>1, <3>2, <3>3, <3>6, <4>1, <5>1
        <4>3. CASE ~Fails(1, m)
          <5>1. c[m] = cell[m]
            BY <2>3, <3>6, <4>3
          <5>2. QED
            BY <3>1, <3>2, <3>6, <4>1, <5>1
        <4>4. QED
          BY <4>2, <4>3
      <3>7. CASE m \notin cached[1]
        <4>1. h[1][m] = held[1][m] /\ c[m] = cell[m] /\ m \notin w[1] /\ h[2] = held[2] /\ w[2] = {}
          BY <2>2, <2>3, <3>7
        <4>2. QED
          BY <3>1, <3>2, <3>7, <4>1
      <3>8. QED
        BY <3>5, <3>6, <3>7
    <2> HIDE DEF w, h, c, p
    <2>6. HeldOf(w, h, p) = HeldSoFar
      <3>1. HeldOf(w, h, p) = [q \in {1, 2} |-> [m \in Members[kind] |-> HeldOf(w, h, p)[q][m]]]
        BY DEF HeldOf
      <3>2. HeldSoFar = [q \in {1, 2} |-> [m \in Members[kind] |-> HeldSoFar[q][m]]]
        BY DEF HeldSoFar
      <3>3. \A q \in {1, 2} : [m \in Members[kind] |-> HeldOf(w, h, p)[q][m]]
                              = [m \in Members[kind] |-> HeldSoFar[q][m]]
        BY <2>5
      <3>4. QED
        BY <3>1, <3>2, <3>3
    <2>7. CellOf(w, c, p) = CellSoFar
      <3>1. CellOf(w, c, p) = [m \in Members[kind] |-> CellOf(w, c, p)[m]]
        BY DEF CellOf
      <3>2. QED
        BY <2>5, <3>1, Seen
    <2>8. QED
      BY <1>2, <2>4, <2>6, <2>7 DEF w, h, c, p
  <1>3. QED
    BY <1>1, <1>2

\* Of what waits, the path tells only the references of an instance.
LEMMA GivenMoves ==
    ASSUME ObjectsInv, NEW p, NEW q, kind = "instance" => {p, q} \subseteq Hosts \cup {None},
           NEW m \in Members[kind]
    PROVE  /\ GivenFor(p, m) = None <=> GivenFor(q, m) = None
           /\ GivenFor(p, m) # GivenFor(q, m) =>
                kind = "instance" /\ sent.reference /\ m = "properties" /\ p # q
  <1>1. CASE kind # "instance" \/ m = "path"
    BY <1>1 DEF GivenFor
  <1>2. CASE kind = "instance" /\ m = "qualifiers"
    BY <1>2 DEF GivenFor, Reads, InstanceReads
  <1>3. CASE kind = "instance" /\ m = "properties"
    <2>1. GivenFor(p, m) = PropertiesOf(sent.reference, p)
          /\ GivenFor(q, m) = PropertiesOf(sent.reference, q)
      BY <1>3 DEF GivenFor, Reads, InstanceReads
    <2>2. sent.reference \in BOOLEAN /\ p \in Hosts \cup {None} /\ q \in Hosts \cup {None}
      BY <1>3 DEF ObjectsInv, TypeOK
    <2>3. GivenFor(p, m) # None /\ GivenFor(q, m) # None
      BY <2>1, <2>2, PropertiesWait, ObjectsAssumption
    <2>4. ~sent.reference => GivenFor(p, m) = GivenFor(q, m)
      BY <2>1 DEF PropertiesOf
    <2>5. QED
      BY <1>3, <2>3, <2>4
  <1>4. kind = "instance" => m \in {"path", "properties", "qualifiers"}
    BY DEF Members, Lazy, InstanceLazy
  <1>5. QED
    BY <1>1, <1>2, <1>3, <1>4

\* What the caller sees after a step: what it would see if the path had stayed, but
\* for references that wait when it did not.
LEMMA SoFarMeans ==
    ObjectsInv => /\ HeldSoFar = HeldOf(cached, held, Path(1))
                  /\ CellSoFar = CellOf(cached, cell, Path(1))
                  /\ kind = "instance" => Path(1) \in Hosts \cup {None}
  <1> SUFFICES ASSUME ObjectsInv
               PROVE  /\ HeldSoFar = HeldOf(cached, held, Path(1))
                      /\ CellSoFar = CellOf(cached, cell, Path(1))
                      /\ kind = "instance" => Path(1) \in Hosts \cup {None}
    OBVIOUS
  <1>1. kind = "instance" => Path(1) \in Hosts \cup {None}
    BY PathType
  <1>2. QED
    BY <1>1, SoFar

MovesLate ==
    /\ kind = "instance" /\ sent.reference
    /\ "properties" \in cached'[1]
    /\ Path(1)' # Path(1)
    /\ CellSoFar' = [CellOf(cached', cell', Path(1)) EXCEPT
                        !["properties"][1] = Given(1, "properties")']

LEMMA AfterStep ==
    ASSUME ObjectsInv, ObjectsInv', UNCHANGED facts
    PROVE  /\ HeldSoFar' = HeldOf(cached', held', Path(1))
           /\ CellSoFar' = CellOf(cached', cell', Path(1)) \/ MovesLate
           /\ Path(1)' = PathOf(cached', held', cell')
  <1> DEFINE p == Path(1)
             q == Path(1)'
  <1>1. /\ (HeldSoFar = HeldOf(cached, held, Path(1)))'
        /\ (CellSoFar = CellOf(cached, cell, Path(1)))'
        /\ (kind = "instance" => Path(1) \in Hosts \cup {None})'
    BY SoFarMeans, PTL
  <1>2. /\ HeldSoFar' = HeldOf(cached', held', q)
        /\ CellSoFar' = CellOf(cached', cell', q)
        /\ kind = "instance" => {p, q} \subseteq Hosts \cup {None}
    <2>1. UNCHANGED <<kind, sent>>
      BY DEF facts
    <2>2. HeldSoFar' = HeldOf(cached', held', q)
      BY <1>1, <2>1 DEF HeldOf, GivenFor
    <2>3. CellSoFar' = CellOf(cached', cell', q)
      BY <1>1, <2>1 DEF CellOf, GivenFor
    <2>4. kind = "instance" => {p, q} \subseteq Hosts \cup {None}
      BY <1>1, <2>1, PathType
    <2>5. QED
      BY <2>2, <2>3, <2>4
  <1>3. kind = "instance" => Given(1, "properties")' = GivenFor(q, "properties")
    BY DEF Given, GivenFor, facts
  <1>4. Path(1)' = PathOf(cached', held', cell')
    BY DEF Path, PathOf, Waits, facts
  <1> HIDE DEF p, q
  <1>5. \A m \in Members[kind] :
            /\ GivenFor(p, m) = None <=> GivenFor(q, m) = None
            /\ GivenFor(p, m) # GivenFor(q, m) =>
                 kind = "instance" /\ sent.reference /\ m = "properties" /\ p # q
    BY <1>2, GivenMoves
  <1>6. HeldOf(cached', held', q) = HeldOf(cached', held', p)
    BY <1>5 DEF HeldOf
  <1>7. CASE \A m \in Members[kind] \cap cached'[1] : GivenFor(p, m) = GivenFor(q, m)
    <2>1. CellOf(cached', cell', q) = CellOf(cached', cell', p)
      BY <1>7 DEF CellOf
    <2>2. QED
      BY <1>2, <1>4, <1>6, <2>1 DEF p
  <1>8. CASE \E m \in Members[kind] \cap cached'[1] : GivenFor(p, m) # GivenFor(q, m)
    <2>1. /\ kind = "instance" /\ sent.reference /\ p # q
          /\ "properties" \in Members[kind] \cap cached'[1]
          /\ GivenFor(q, "properties") # None /\ GivenFor(p, "properties") # None
      BY <1>5, <1>8
    <2> DEFINE C == CellOf(cached', cell', p)
               g == GivenFor(q, "properties")
               Moved == [C EXCEPT !["properties"][1] = g]
    <2>2. C["properties"] = [cell'["properties"] EXCEPT ![1] = GivenFor(p, "properties")]
      BY <2>1 DEF CellOf
    <2>3. CellOf(cached', cell', q)["properties"] = [cell'["properties"] EXCEPT ![1] = g]
      BY <2>1 DEF CellOf
    <2>4. \A m \in Members[kind] : m # "properties" => CellOf(cached', cell', q)[m] = C[m]
      BY <1>5 DEF CellOf
    <2>5. /\ C = [m \in Members[kind] |-> C[m]]
          /\ CellOf(cached', cell', q) = [m \in Members[kind] |-> CellOf(cached', cell', q)[m]]
      BY DEF CellOf
    <2> HIDE DEF C, g
    <2>6. Moved = [m \in Members[kind] |-> Moved[m]]
          /\ Moved["properties"] = [C["properties"] EXCEPT ![1] = g]
          /\ \A m \in Members[kind] : m # "properties" => Moved[m] = C[m]
      BY <2>1, <2>5
    <2>7. [C["properties"] EXCEPT ![1] = g] = [cell'["properties"] EXCEPT ![1] = g]
      BY <2>2
    <2>8. \A m \in Members[kind] : Moved[m] = CellOf(cached', cell', q)[m]
      BY <2>3, <2>4, <2>6, <2>7
    <2> HIDE DEF Moved
    <2>9. CellOf(cached', cell', q) = Moved
      BY <2>5, <2>6, <2>8
    <2>10. MovesLate
      BY <1>2, <1>3, <2>1, <2>9 DEF MovesLate, Moved, C, g, p, q
    <2>11. QED
      BY <1>2, <1>4, <1>6, <2>10 DEF p
  <1>9. QED
    BY <1>7, <1>8

\* Something new in links.
LessWaits(w, o, m) == [w EXCEPT ![o] = @ \ {m}]
HeldPut(h, o, m, f) == [h EXCEPT ![o][m] = f]
CellPut(c, m, f, new) == [c EXCEPT ![m][f] = new]

\* A member that takes something new, read before or not, takes it for the caller.
LEMMA PutSeen ==
    ASSUME NEW w, NEW h, NEW c, LinksOK(w, h, c, shared), NEW p,
           NEW o \in {1, 2}, NEW m \in Members[kind], NEW f \in Cells, NEW new,
           m \in w[1] => IF o = 1 THEN f = 1 ELSE f # 1
    PROVE  /\ HeldOf(LessWaits(w, o, m), HeldPut(h, o, m, f), p)
                = HeldPut(HeldOf(w, h, p), o, m, f)
           /\ CellOf(LessWaits(w, o, m), CellPut(c, m, f, new), p)
                = CellPut(CellOf(w, c, p), m, f, new)
  <1> DEFINE w2 == [w EXCEPT ![o] = @ \ {m}]
             h2 == [h EXCEPT ![o][m] = f]
             c2 == [c EXCEPT ![m][f] = new]
             h3 == [HeldOf(w, h, p) EXCEPT ![o][m] = f]
             c3 == [CellOf(w, c, p) EXCEPT ![m][f] = new]
  <1>1. /\ w2[1] = (IF o = 1 THEN w[1] \ {m} ELSE w[1]) /\ w2[2] = {} /\ w[2] = {}
    BY DEF LinksOK
  <1>2. /\ h2[o][m] = f
        /\ \A q \in {1, 2}, k \in Members[kind] : q # o \/ k # m => h2[q][k] = h[q][k]
    BY DEF LinksOK
  <1>3. /\ c2[m] = [c[m] EXCEPT ![f] = new]
        /\ \A k \in Members[kind] \ {m} : c2[k] = c[k]
    BY DEF LinksOK
  <1>4. /\ HeldOf(w, h, p) = [q \in {1, 2} |-> [k \in Members[kind] |-> HeldOf(w, h, p)[q][k]]]
        /\ CellOf(w, c, p) = [k \in Members[kind] |-> CellOf(w, c, p)[k]]
    BY DEF HeldOf, CellOf
  <1>5. /\ h3 = [q \in {1, 2} |-> [k \in Members[kind] |-> h3[q][k]]]
        /\ h3[o][m] = f
        /\ \A q \in {1, 2}, k \in Members[kind] : q # o \/ k # m => h3[q][k] = HeldOf(w, h, p)[q][k]
    BY <1>4
  <1>6. /\ c3 = [k \in Members[kind] |-> c3[k]]
        /\ c3[m] = [CellOf(w, c, p)[m] EXCEPT ![f] = new]
        /\ \A k \in Members[kind] \ {m} : c3[k] = CellOf(w, c, p)[k]
    BY <1>4
  <1> HIDE DEF w2, h2, c2, h3, c3
  <1>7. ASSUME NEW q \in {1, 2}, NEW k \in Members[kind]
        PROVE  HeldOf(w2, h2, p)[q][k] = h3[q][k]
    <2>1. /\ HeldOf(w2, h2, p)[q][k] =
                IF k \notin w2[q] THEN h2[q][k] ELSE IF GivenFor(p, k) = None THEN None ELSE q
          /\ HeldOf(w, h, p)[q][k] =
                IF k \notin w[q] THEN h[q][k] ELSE IF GivenFor(p, k) = None THEN None ELSE q
      BY DEF HeldOf
    <2>2. k # m \/ q # o => (k \in w2[q] <=> k \in w[q])
      BY <1>1
    <2>3. m \notin w2[o]
      BY <1>1
    <2>4. QED
      BY ZenonT(60), <1>2, <1>5, <2>1, <2>2, <2>3
  <1>8. ASSUME NEW k \in Members[kind]
        PROVE  CellOf(w2, c2, p)[k] = c3[k]
    <2> DEFINE g == GivenFor(p, k)
    <2>1. /\ CellOf(w2, c2, p)[k] =
                IF k \notin w2[1] \/ g = None THEN c2[k] ELSE [c2[k] EXCEPT ![1] = g]
          /\ CellOf(w, c, p)[k] =
                IF k \notin w[1] \/ g = None THEN c[k] ELSE [c[k] EXCEPT ![1] = g]
      BY DEF CellOf
    <2> HIDE DEF g
    <2>2. CASE k # m
      BY <1>1, <1>3, <1>6, <2>1, <2>2
    <2>3. CASE k = m /\ (m \notin w[1] \/ g = None)
      BY <1>1, <1>3, <1>6, <2>1, <2>3
    <2>4. CASE k = m /\ m \in w[1] /\ g # None /\ o = 1
      <3>1. [[c[m] EXCEPT ![1] = g] EXCEPT ![1] = new] = [c[m] EXCEPT ![1] = new]
        OBVIOUS
      <3>2. QED
        BY <1>1, <1>3, <1>6, <2>1, <2>4, <3>1
    <2>5. CASE k = m /\ m \in w[1] /\ g # None /\ o = 2
      <3>1. f # 1 /\ [[c[m] EXCEPT ![1] = g] EXCEPT ![f] = new]
                        = [[c[m] EXCEPT ![f] = new] EXCEPT ![1] = g]
        BY <2>5
      <3>2. QED
        BY <1>1, <1>3, <1>6, <2>1, <2>5, <3>1
    <2>6. QED
      BY <2>2, <2>3, <2>4, <2>5
  <1>9. HeldOf(w2, h2, p) = h3
    <2>1. HeldOf(w2, h2, p) = [q \in {1, 2} |-> [k \in Members[kind] |-> HeldOf(w2, h2, p)[q][k]]]
      BY DEF HeldOf
    <2>2. \A q \in {1, 2} : [k \in Members[kind] |-> HeldOf(w2, h2, p)[q][k]]
                            = [k \in Members[kind] |-> h3[q][k]]
      BY <1>7
    <2>3. QED
      BY <1>5, <2>1, <2>2
  <1>10. CellOf(w2, c2, p) = c3
    <2>1. CellOf(w2, c2, p) = [k \in Members[kind] |-> CellOf(w2, c2, p)[k]]
      BY DEF CellOf
    <2>2. QED
      BY <1>6, <1>8, <2>1
  <1>11. QED
    BY <1>9, <1>10 DEF w2, h2, c2, h3, c3, LessWaits, HeldPut, CellPut

\* So does one that is given the other object's.
LEMMA ShareSeen ==
    ASSUME NEW w, NEW h, NEW c, LinksOK(w, h, c, shared), NEW p,
           NEW o \in {1, 2}, NEW m \in Members[kind], NEW f \in Cells,
           o = 2 => m \notin w[1], m \in w[1] => f = 1
    PROVE  /\ HeldOf(LessWaits(w, o, m), HeldPut(h, o, m, h[Other(o)][m]), p)
                = HeldPut(HeldOf(w, h, p), o, m, HeldOf(w, h, p)[3 - o][m])
           /\ CellOf(LessWaits(w, o, m), c, p)
                = CellPut(CellOf(w, c, p), m, f, CellOf(LessWaits(w, o, m), c, p)[m][f])
  <1> DEFINE w2 == [w EXCEPT ![o] = @ \ {m}]
             h2 == [h EXCEPT ![o][m] = h[Other(o)][m]]
             H == HeldOf(w, h, p)
             C == CellOf(w, c, p)
             H2 == HeldOf(w2, h2, p)
             C2 == CellOf(w2, c, p)
             h3 == [H EXCEPT ![o][m] = H[3 - o][m]]
             c3 == [C EXCEPT ![m][f] = C2[m][f]]
  <1>1. /\ w2[1] = (IF o = 1 THEN w[1] \ {m} ELSE w[1]) /\ w2[2] = {} /\ w[2] = {}
        /\ Other(o) \in {1, 2} /\ Other(o) = 3 - o /\ Other(o) # o
        /\ m \notin w[Other(o)]
    <2>1. w \in [{1, 2} -> SUBSET Lazy[kind]] /\ w[2] = {}
      BY DEF LinksOK
    <2>2. CASE o = 1
      BY <2>1, <2>2 DEF Other
    <2>3. CASE o = 2
      BY <2>1, <2>3 DEF Other
    <2>4. QED
      BY <2>2, <2>3
  <1>2. /\ h2[o][m] = h[Other(o)][m]
        /\ \A q \in {1, 2}, k \in Members[kind] : q # o \/ k # m => h2[q][k] = h[q][k]
    BY DEF LinksOK
  <1>3. /\ H = [q \in {1, 2} |-> [k \in Members[kind] |-> H[q][k]]]
        /\ C = [k \in Members[kind] |-> C[k]]
        /\ H2 = [q \in {1, 2} |-> [k \in Members[kind] |-> H2[q][k]]]
        /\ C2 = [k \in Members[kind] |-> C2[k]]
    BY DEF HeldOf, CellOf
  <1>4. \A q \in {1, 2}, k \in Members[kind] :
            /\ H[q][k] =
                IF k \notin w[q] THEN h[q][k] ELSE IF GivenFor(p, k) = None THEN None ELSE q
            /\ H2[q][k] =
                IF k \notin w2[q] THEN h2[q][k] ELSE IF GivenFor(p, k) = None THEN None ELSE q
    BY DEF HeldOf
  <1>5. \A k \in Members[kind] :
            /\ C[k] = IF k \notin w[1] \/ GivenFor(p, k) = None THEN c[k]
                      ELSE [c[k] EXCEPT ![1] = GivenFor(p, k)]
            /\ C2[k] = IF k \notin w2[1] \/ GivenFor(p, k) = None THEN c[k]
                       ELSE [c[k] EXCEPT ![1] = GivenFor(p, k)]
    BY DEF CellOf
  <1>6. c[m] \in [Cells -> ContentsOf(m)] /\ 1 \in Cells
    BY DEF LinksOK, Cells
  <1> HIDE DEF w2, h2, H, C, H2, C2
  <1>7. /\ h3 = [q \in {1, 2} |-> [k \in Members[kind] |-> h3[q][k]]]
        /\ h3[o][m] = H[3 - o][m]
        /\ \A q \in {1, 2}, k \in Members[kind] : q # o \/ k # m => h3[q][k] = H[q][k]
    BY ZenonT(60), <1>3
  <1>8. /\ c3 = [k \in Members[kind] |-> c3[k]]
        /\ c3[m] = [C[m] EXCEPT ![f] = C2[m][f]]
        /\ \A k \in Members[kind] \ {m} : c3[k] = C[k]
    BY <1>3
  <1> HIDE DEF h3, c3
  <1>9. ASSUME NEW q \in {1, 2}, NEW k \in Members[kind] PROVE H2[q][k] = h3[q][k]
    <2>1. k # m \/ q # o => (k \in w2[q] <=> k \in w[q])
      BY <1>1 DEF w2, LinksOK
    <2>2. m \notin w2[o]
      BY <1>1
    <2>3. H[3 - o][m] = h[Other(o)][m]
      BY <1>1, <1>4
    <2>4. CASE q = o /\ k = m
      <3>1. H2[o][m] = h2[o][m]
        BY <1>4, <2>2
      <3>2. QED
        BY <1>2, <1>7, <2>3, <2>4, <3>1
    <2>5. CASE k # m \/ q # o
      <3>1. H2[q][k] = H[q][k]
        BY <1>2, <1>4, <2>1, <2>5
      <3>2. QED
        BY <1>7, <2>5, <3>1
    <2>6. QED
      BY <2>4, <2>5
  <1>10. ASSUME NEW k \in Members[kind] PROVE C2[k] = c3[k]
    <2>1. CASE k # m
      BY ZenonT(60), <1>1, <1>5, <1>8, <2>1
    <2>2. CASE k = m /\ m \notin w[1]
      <3>1. C2[k] = c[m] /\ C[m] = c[m]
        BY <1>1, <1>5, <2>2
      <3>2. [c[m] EXCEPT ![f] = c[m][f]] = c[m]
        BY <1>6
      <3>3. QED
        BY <1>8, <2>2, <3>1, <3>2
    <2>3. CASE k = m /\ m \in w[1]
      <3>1. o = 1 /\ f = 1 /\ C2[m] = c[m]
        BY <1>1, <1>5, <2>3
      <3>2. C[m] = c[m] \/ C[m] = [c[m] EXCEPT ![1] = GivenFor(p, m)]
        BY <1>5
      <3>3. \A x : [[c[m] EXCEPT ![1] = x] EXCEPT ![1] = c[m][1]] = c[m]
        BY <1>6
      <3>4. [c[m] EXCEPT ![1] = c[m][1]] = c[m]
        BY <1>6
      <3>5. QED
        BY <1>8, <2>3, <3>1, <3>2, <3>3, <3>4
    <2>4. QED
      BY <2>1, <2>2, <2>3
  <1>11. H2 = h3
    <2>1. \A q \in {1, 2} : [k \in Members[kind] |-> H2[q][k]] = [k \in Members[kind] |-> h3[q][k]]
      BY <1>9
    <2>2. QED
      BY <1>3, <1>7, <2>1
  <1>12. C2 = c3
    BY <1>3, <1>8, <1>10
  <1>13. QED
    BY <1>11, <1>12 DEF H2, C2, h3, c3, H, C, w2, h2, LessWaits, HeldPut, CellPut


-----------------------------------------------------------------------------
(* The steps                                                               *)

Refines == [LostValue \/ LateReference \/ Eager!Next]_(Eager!vars)

\* A member takes something new, after others were read.
LEMMA ReadPut ==
    ASSUME ObjectsInv, ObjectsInv', UNCHANGED facts, NEW o \in {1, 2}, NEW members,
           NEW m \in Members[kind], NEW f \in Cells, NEW new,
           Waits(1, m) => IF o = 1 THEN f = 1 ELSE f # 1,
           cached' = LessWaits(CachedAfter(o, members), o, m),
           held' = HeldPut(HeldAfter(o, members), o, m, f),
           cell' = CellPut(CellAfter(o, members), m, f, new)
    PROVE  /\ HeldSoFar' = HeldPut(HeldSoFar, o, m, f)
           /\ CellOf(cached', cell', Path(1)) = CellPut(CellSoFar, m, f, new)
           /\ \/ CellSoFar' = CellPut(CellSoFar, m, f, new)
              \/ MovesLate
           /\ Path(1)' = PathOf(cached', held', cell')
           /\ cached'[1] \subseteq cached[1]
  <1> DEFINE w == CachedAfter(o, members)
             h == HeldAfter(o, members)
             c == CellAfter(o, members)
             p == Path(1)
  <1>1. LinksOK(w, h, c, shared) /\ w[1] \subseteq cached[1]
    BY ReadLinks, FirstReads, SecondStays
  <1>2. HeldOf(w, h, p) = HeldSoFar /\ CellOf(w, c, p) = CellSoFar
    BY ReadSeen
  <1>3. cached' = LessWaits(w, o, m) /\ held' = HeldPut(h, o, m, f)
        /\ cell' = CellPut(c, m, f, new)
    OBVIOUS
  <1>4. m \in w[1] => IF o = 1 THEN f = 1 ELSE f # 1
    BY <1>1 DEF Waits
  <1> HIDE DEF w, h, c
  <1>5. /\ HeldOf(cached', held', p) = HeldPut(HeldOf(w, h, p), o, m, f)
        /\ CellOf(cached', cell', p) = CellPut(CellOf(w, c, p), m, f, new)
    BY <1>1, <1>3, <1>4, PutSeen
  <1>6. /\ HeldSoFar' = HeldOf(cached', held', p)
        /\ CellSoFar' = CellOf(cached', cell', p) \/ MovesLate
        /\ Path(1)' = PathOf(cached', held', cell')
    BY AfterStep
  <1>7. cached'[1] \subseteq cached[1]
    BY <1>1, <1>3 DEF LinksOK, LessWaits
  <1>8. QED
    BY <1>2, <1>5, <1>6, <1>7 DEF p

\* Then the path stays unless it is what changes.
LEMMA PathStays ==
    ASSUME ObjectsInv, UNCHANGED facts, kind = "instance", NEW o \in {1, 2}, NEW members,
           NEW m \in Members[kind], NEW f \in Cells, NEW new,
           m # "path" \/ (o = 2 /\ HeldAfter(o, members)[1]["path"] # f)
    PROVE  PathOf(LessWaits(CachedAfter(o, members), o, m),
                  HeldPut(HeldAfter(o, members), o, m, f),
                  CellPut(CellAfter(o, members), m, f, new)) = Path(1)
  <1> DEFINE w == CachedAfter(o, members)
             h == HeldAfter(o, members)
             c == CellAfter(o, members)
             w2 == LessWaits(w, o, m)
             h2 == HeldPut(h, o, m, f)
             c2 == CellPut(c, m, f, new)
  <1>1. LinksOK(w, h, c, shared) /\ "path" \in Members[kind]
    BY ReadLinks DEF Members, Lazy, InstanceLazy
  <1>2. PathOf(w, h, c) = Path(1)
    BY ReadSeen
  <1>3. m # "path" \/ (o = 2 /\ h[1]["path"] # f)
    OBVIOUS
  <1> HIDE DEF w, h, c
  <1>4. "path" \in w2[1] <=> "path" \in w[1]
    BY <1>1, <1>3 DEF LinksOK, LessWaits
  <1>5. h2[1]["path"] = h[1]["path"] /\ h[1]["path"] \in Cells \cup {None}
    BY <1>1, <1>3 DEF LinksOK, HeldPut
  <1>6. h[1]["path"] # None => c2["path"][h[1]["path"]] = c["path"][h[1]["path"]]
    <2>1. c2["path"] = c["path"] \/ (m = "path" /\ c2["path"] = [c["path"] EXCEPT ![f] = new])
      BY <1>1 DEF LinksOK, CellPut
    <2>2. c["path"] \in [Cells -> ContentsOf("path")]
      BY <1>1 DEF LinksOK
    <2>3. QED
      BY <1>3, <1>5, <2>1, <2>2
  <1> HIDE DEF w2, h2, c2
  <1>7. PathOf(w2, h2, c2) = PathOf(w, h, c)
    BY <1>4, <1>5, <1>6 DEF PathOf
  <1>8. QED
    BY <1>2, <1>7 DEF w2, h2, c2, w, h, c

\* A path that changes while properties wait.
LEMMA Late ==
    ASSUME ObjectsInv, MovesLate, cached'[1] \subseteq cached[1],
           UNCHANGED <<facts, objects, changed>>,
           NEW x, CellOf(cached', cell', Path(1)) = [CellSoFar EXCEPT !["path"] = x],
           NEW f, HeldSoFar' = [HeldSoFar EXCEPT ![1]["path"] = f]
    PROVE  LateReference
  <1> DEFINE g == Given(1, "properties")'
  <1>1. /\ kind = "instance" /\ sent.reference /\ "properties" \in cached'[1]
        /\ Path(1)' # Path(1)
        /\ CellSoFar' = [[CellSoFar EXCEPT !["path"] = x] EXCEPT !["properties"][1] = g]
    BY DEF MovesLate
  <1>2. "path" \in Members[kind] /\ "properties" \in Members[kind]
    BY <1>1 DEF Members, Lazy, InstanceLazy
  <1>3. /\ HeldSoFar \in [{1, 2} -> [Members[kind] -> Cells \cup {None}]]
        /\ CellSoFar = [m \in Members[kind] |-> CellSoFar[m]]
    BY Seen
  <1> HIDE DEF g
  <1>4. CellSoFar'["path"] = x
    BY <1>1, <1>2, <1>3
  <1>5. HeldSoFar'[1]["path"] = f
    BY <1>2, <1>3
  <1>6. Waits(1, "properties") /\ Waits(1, "properties")'
    BY <1>1 DEF Waits
  <1>7. CellSoFar' = [CellSoFar EXCEPT !["path"] = CellSoFar'["path"], !["properties"][1] = g]
    BY <1>1, <1>4
  <1>8. HeldSoFar' = [HeldSoFar EXCEPT ![1]["path"] = HeldSoFar'[1]["path"]]
    BY <1>5
  <1>9. QED
    BY <1>1, <1>6, <1>7, <1>8 DEF LateReference, facts, g

\* A getter, and everything that reads several members, shows nothing.
LEMMA ReadShows ==
    ASSUME ObjectsInv, ObjectsInv', NEW o \in {1, 2}, NEW members, Read(o, members),
           UNCHANGED facts
    PROVE  HeldSoFar' = HeldSoFar /\ CellSoFar' = CellSoFar
  <1>1. /\ HeldSoFar' = HeldOf(cached', held', Path(1))
        /\ CellSoFar' = CellOf(cached', cell', Path(1)) \/ MovesLate
        /\ Path(1)' = PathOf(cached', held', cell')
    BY AfterStep
  <1>2. /\ kind = "instance" => PathOf(cached', held', cell') = Path(1)
        /\ HeldOf(cached', held', Path(1)) = HeldSoFar
        /\ CellOf(cached', cell', Path(1)) = CellSoFar
    BY ReadSeen DEF Read
  <1>3. ~MovesLate
    BY <1>1, <1>2 DEF MovesLate
  <1>4. QED
    BY <1>1, <1>2, <1>3

LEMMA ReadRefines ==
    ASSUME ObjectsInv, ObjectsInv', NEW o \in {1, 2}, NEW members, Read(o, members),
           UNCHANGED <<facts, objects, changed>>
    PROVE  Refines
  <1>1. HeldSoFar' = HeldSoFar /\ CellSoFar' = CellSoFar
    BY ReadShows
  <1>2. QED
    BY <1>1 DEF Refines, Eager!vars, facts

\* A step that leaves the objects alone.
LEMMA SameRefines ==
    ASSUME UNCHANGED <<facts, objects, links, changed>> PROVE Refines
  <1>1. UNCHANGED <<kind, sent, cached, held, cell>>
    BY DEF facts, links
  <1>2. \A o : Path(o)' = Path(o)
    BY <1>1 DEF Path, Waits
  <1>3. \A o, m : Given(o, m)' = Given(o, m)
    BY <1>1, <1>2 DEF Given
  <1>4. HeldSoFar' = HeldSoFar /\ CellSoFar' = CellSoFar
    BY <1>1, <1>3 DEF HeldSoFar, CellSoFar, Waits
  <1>5. QED
    BY <1>4 DEF Refines, Eager!vars, facts

\* The caller changes what the getter returns.
LEMMA AlterRefines ==
    ASSUME ObjectsInv, ContentInv, ObjectsInv', NEW o \in objects,
           NEW m \in Members[kind] \ {"value"},
           ~Fails(o, m), Content(o, m) \notin {None, Raw},
           NEW new \in Eager!Results(m, Content(o, m))
                        \cup IF m = "items" THEN Eager!Merged(Content(o, m)) ELSE {},
           Alter(o, m, new)
    PROVE  Refines
  <1> DEFINE f == HeldAfter(o, {m})[o][m]
  <1>1. o \in {1, 2}
    BY ObjectsMean
  <1>2. /\ m \notin CachedAfter(o, {m})[o]
        /\ f \in Cells /\ f # None
        /\ Waits(o, m) => f = 1
        /\ ~Waits(o, m) => f = held[o][m]
    BY <1>1, AlterMeans
  <1>3. LinksOK(CachedAfter(o, {m}), HeldAfter(o, {m}), CellAfter(o, {m}), shared)
    BY <1>1, ReadLinks
  <1>4. /\ cached' = LessWaits(CachedAfter(o, {m}), o, m)
        /\ held' = HeldPut(HeldAfter(o, {m}), o, m, f)
        /\ cell' = CellPut(CellAfter(o, {m}), m, f, new)
    <2>1. LessWaits(CachedAfter(o, {m}), o, m) = CachedAfter(o, {m})
      <3>1. CachedAfter(o, {m})[o] \ {m} = CachedAfter(o, {m})[o]
        BY <1>2
      <3>2. QED
        BY <1>3, <3>1 DEF LinksOK, LessWaits
    <2>2. HeldPut(HeldAfter(o, {m}), o, m, f) = HeldAfter(o, {m})
      BY <1>1, <1>3 DEF LinksOK, HeldPut
    <2>3. QED
      BY <2>1, <2>2 DEF Alter, CellPut
  <1>5. UNCHANGED <<facts, objects, changed>> /\ UNCHANGED facts
    BY DEF Alter
  <1>6. f = HeldSoFar[o][m]
    <2>1. CASE o = 2
      BY <1>2, <2>1, Seen DEF Waits, ObjectsInv, WaitInv
    <2>2. CASE o = 1 /\ Waits(1, m)
      <3>1. Given(1, m) # None
        BY <2>2 DEF Content
      <3>2. QED
        BY <1>2, <2>2, <3>1, Seen DEF Waits
    <2>3. CASE o = 1 /\ ~Waits(1, m)
      BY <1>2, <2>3, Seen DEF Waits
    <2>4. QED
      BY <1>1, <2>1, <2>2, <2>3
  <1>7. Waits(1, m) => IF o = 1 THEN f = 1 ELSE f # 1
    <2>1. o = 2 => ~Waits(o, m)
      BY DEF Waits, ObjectsInv, WaitInv
    <2>2. QED
      BY <1>1, <1>2, <2>1 DEF ObjectsInv, Apart
  <1>8. HeldAfter(2, {m}) = held
    BY SecondStays
  <1> HIDE DEF f
  <1>9. /\ HeldSoFar' = HeldPut(HeldSoFar, o, m, f)
        /\ CellOf(cached', cell', Path(1)) = CellPut(CellSoFar, m, f, new)
        /\ CellSoFar' = CellPut(CellSoFar, m, f, new) \/ MovesLate
        /\ Path(1)' = PathOf(cached', held', cell')
        /\ cached'[1] \subseteq cached[1]
    BY SMTT(60), <1>1, <1>2, <1>4, <1>5, <1>7, ReadPut
  <1>10. HeldPut(HeldSoFar, o, m, f) = HeldSoFar
    BY <1>1, <1>6, Seen DEF HeldPut
  <1>11. CASE MovesLate
    <2>1. kind = "instance" /\ Path(1)' # Path(1)
      BY <1>11 DEF MovesLate
    <2>2. m = "path"
      <3>1. ASSUME m # "path" PROVE Path(1)' = Path(1)
        BY <1>1, <1>2, <1>4, <1>5, <1>9, <2>1, <3>1, PathStays
      <3>2. QED
        BY <2>1, <3>1
    <2>3. CellPut(CellSoFar, m, f, new)
            = [CellSoFar EXCEPT !["path"] = [CellSoFar["path"] EXCEPT ![f] = new]]
      BY <2>2 DEF CellPut
    <2>4. HeldSoFar' = [HeldSoFar EXCEPT ![1]["path"] = HeldSoFar[1]["path"]]
      BY <1>9, <1>10, Seen
    <2>5. LateReference
      BY <1>5, <1>9, <1>11, <2>3, <2>4, Late
    <2>6. QED
      BY <2>5 DEF Refines
  <1>12. CASE CellSoFar' = CellPut(CellSoFar, m, f, new)
    <2>1. Eager!Content(o, m) = Content(o, m)
      BY <1>1, SeenContent
    <2>2. Eager!Change(o, m)
      BY <1>5, <1>6, <1>9, <1>10, <1>12, <2>1 DEF Eager!Change, CellPut, facts
    <2>3. m \in Eager!Members[kind]
      BY SameTables
    <2>4. QED
      BY <2>2, <2>3 DEF Refines, Eager!Next
  <1>13. QED
    BY <1>9, <1>11, <1>12

\* A setter.
LEMMA SetMemberRefines ==
    ASSUME ObjectsInv, ContentInv, ObjectsInv', NEW o \in objects, NEW m \in Members[kind],
           NEW new \in Takes[kind][m], SetMember(o, m, new)
    PROVE  Refines
  <1> DEFINE read == ReadsFirst(m)
             f == Free(o, m)
  <1>1. o \in {1, 2}
    BY ObjectsMean
  <1>2. UNCHANGED <<facts, objects, changed>> /\ UNCHANGED facts
    BY DEF SetMember
  <1>3. CASE Read(o, read)
    BY <1>1, <1>2, <1>3, ReadRefines
  <1>4. CASE /\ cached' = LessWaits(CachedAfter(o, read), o, m)
             /\ held' = HeldPut(HeldAfter(o, read), o, m, f)
             /\ cell' = CellPut(CellAfter(o, read), m, f, new)
    <2>1. f \in Cells /\ f # held[Other(o)][m]
      BY <1>1, FreeMeans DEF Cells
    <2>2. ASSUME Waits(1, m) PROVE IF o = 1 THEN f = 1 ELSE f # 1
      <3>1. CASE o = 2
        BY <2>2, <3>1, FreeMeans
      <3>2. CASE o = 1
        <4>1. held[2][m] # 1
          BY <2>2, NoneRefers DEF Waits
        <4>2. QED
          BY <3>2, <4>1 DEF Free, Other
      <3>3. QED
        BY <1>1, <3>1, <3>2
    <2>3. f = Eager!Free(o, m)
      BY <1>1, SeenFree
    <2>4. HeldAfter(2, read) = held
      BY SecondStays
    <2> HIDE DEF f, read
    <2>5. /\ HeldSoFar' = HeldPut(HeldSoFar, o, m, f)
          /\ CellOf(cached', cell', Path(1)) = CellPut(CellSoFar, m, f, new)
          /\ CellSoFar' = CellPut(CellSoFar, m, f, new) \/ MovesLate
          /\ Path(1)' = PathOf(cached', held', cell')
          /\ cached'[1] \subseteq cached[1]
      BY <1>1, <1>2, <1>4, <2>1, <2>2, ReadPut
    <2>6. CASE MovesLate
      <3>1. kind = "instance" /\ Path(1)' # Path(1)
        BY <2>6 DEF MovesLate
      <3>2. m = "path" /\ o = 1
        <4>1. ASSUME m # "path" \/ o = 2 PROVE Path(1)' = Path(1)
          <5>1. m # "path" \/ (o = 2 /\ HeldAfter(o, read)[1]["path"] # f)
            BY <2>1, <2>4, <4>1 DEF Other
          <5>2. QED
            BY <1>1, <1>2, <1>4, <2>1, <2>5, <3>1, <5>1, PathStays
        <4>2. QED
          BY <1>1, <3>1, <4>1
      <3>3. CellPut(CellSoFar, m, f, new)
              = [CellSoFar EXCEPT !["path"] = [CellSoFar["path"] EXCEPT ![f] = new]]
        BY <3>2 DEF CellPut
      <3>4. HeldSoFar' = [HeldSoFar EXCEPT ![1]["path"] = f]
        BY <2>5, <3>2 DEF HeldPut
      <3>5. LateReference
        BY <1>2, <2>5, <2>6, <3>3, <3>4, Late
      <3>6. QED
        BY <3>5 DEF Refines
    <2>7. CASE CellSoFar' = CellPut(CellSoFar, m, f, new)
      <3>1. Eager!Assign(o, m)
        BY <1>2, <2>3, <2>5, <2>7, SameTables DEF Eager!Assign, HeldPut, CellPut, facts
      <3>2. m \in Eager!Members[kind]
        BY SameTables
      <3>3. QED
        BY <3>1, <3>2 DEF Refines, Eager!Next
    <2>8. QED
      BY <2>5, <2>6, <2>7
  <1>5. QED
    BY <1>3, <1>4 DEF SetMember, LessWaits, HeldPut, CellPut

\* A setter that is given the other object's member.
LEMMA ShareMemberRefines ==
    ASSUME ObjectsInv, ContentInv, ObjectsInv', NEW o \in {1, 2}, NEW m \in Members[kind],
           ShareMember(o, m)
    PROVE  Refines
  <1> DEFINE read == IF o = 2 THEN {m} ELSE ReadsFirst(m)
             w == CachedAfter(1, read)
             h == HeldAfter(1, read)
             c == CellAfter(1, read)
             f == Free(o, m)
             p == Path(1)
  <1>1. objects = {1, 2} /\ UNCHANGED <<facts, objects, changed>> /\ UNCHANGED facts
    BY DEF ShareMember
  <1>2. CASE Read(1, read)
    BY <1>1, <1>2, ReadRefines
  <1>3. CASE /\ ~\E r \in read : Fails(1, r)
             /\ cached' = LessWaits(w, o, m)
             /\ held' = HeldPut(h, o, m, h[Other(o)][m])
             /\ cell' = c
    <2>1. LinksOK(w, h, c, shared) /\ w[1] \subseteq cached[1]
      BY ReadLinks, FirstReads
    <2>2. o = 2 => m \notin w[1]
      BY <1>3, WhatIsRead
    <2>3. f \in Cells /\ (m \in w[1] => f = 1)
      <3>1. f \in Cells
        BY FreeMeans DEF Cells
      <3>2. m \in w[1] => o = 1 /\ held[2][m] # 1
        BY <2>1, <2>2, NoneRefers
      <3>3. QED
        BY <3>1, <3>2 DEF Free, Other
    <2>4. HeldOf(w, h, p) = HeldSoFar /\ CellOf(w, c, p) = CellSoFar
          /\ (kind = "instance" => PathOf(w, h, c) = p)
      BY ReadSeen
    <2> HIDE DEF w, h, c, f, read
    <2> DEFINE x == CellOf(LessWaits(w, o, m), c, p)[m][f]
    <2>5. /\ HeldOf(cached', held', p) = HeldPut(HeldSoFar, o, m, HeldSoFar[3 - o][m])
          /\ CellOf(cached', cell', p) = CellPut(CellSoFar, m, f, x)
      BY <1>3, <2>1, <2>2, <2>3, <2>4, ShareSeen
    <2>6. /\ HeldSoFar' = HeldOf(cached', held', p)
          /\ CellSoFar' = CellOf(cached', cell', p) \/ MovesLate
          /\ Path(1)' = PathOf(cached', held', cell')
      BY <1>1, AfterStep
    <2> HIDE DEF x
    <2>7. cached'[1] \subseteq cached[1]
      BY <1>3, <2>1 DEF LinksOK, LessWaits
    <2>8. CASE MovesLate
      <3>1. kind = "instance" /\ Path(1)' # Path(1)
        BY <2>8 DEF MovesLate
      <3>2. m = "path" /\ o = 1
        <4>1. ASSUME m # "path" \/ o = 2 PROVE PathOf(cached', held', cell') = PathOf(w, h, c)
          <5>1. "path" \in Members[kind]
            BY <3>1 DEF Members, Lazy, InstanceLazy
          <5>2. "path" \in cached'[1] <=> "path" \in w[1]
            BY <1>3, <2>1, <4>1 DEF LinksOK, LessWaits
          <5>3. held'[1]["path"] = h[1]["path"]
            BY <1>3, <2>1, <4>1, <5>1 DEF LinksOK, HeldPut
          <5>4. QED
            BY <1>3, <5>2, <5>3 DEF PathOf
        <4>2. QED
          BY <2>4, <2>6, <3>1, <4>1 DEF p
      <3>3. CellPut(CellSoFar, m, f, x)
              = [CellSoFar EXCEPT !["path"] = [CellSoFar["path"] EXCEPT ![f] = x]]
        BY <3>2 DEF CellPut
      <3>4. HeldSoFar' = [HeldSoFar EXCEPT ![1]["path"] = HeldSoFar[3 - o][m]]
        BY <2>5, <2>6, <3>2 DEF HeldPut
      <3>5. LateReference
        BY <1>1, <2>5, <2>7, <2>8, <3>3, <3>4, Late DEF p
      <3>6. QED
        BY <3>5 DEF Refines
    <2>9. CASE CellSoFar' = CellOf(cached', cell', p)
      <3>1. /\ HeldSoFar' = [HeldSoFar EXCEPT ![o][m] = HeldSoFar[3 - o][m]]
            /\ CellSoFar' = [CellSoFar EXCEPT ![m][f] = x]
        BY <2>5, <2>6, <2>9 DEF HeldPut, CellPut
      <3>2. CellSoFar'[m][f] = x
        <4>1. CellSoFar = [k \in Members[kind] |-> CellSoFar[k]] /\ DOMAIN CellSoFar[m] = Cells
          BY Seen
        <4>2. QED
          BY <2>3, <3>1, <4>1
      <3>3. f = Eager!Free(o, m) /\ m \in Eager!Members[kind]
        BY SeenFree, SameTables DEF f
      <3>4. Eager!Share(o, m)
        BY <1>1, <3>1, <3>2, <3>3 DEF Eager!Share, facts
      <3>5. QED
        BY <1>1, <3>3, <3>4 DEF Refines, Eager!Next
    <2>10. QED
      BY <2>6, <2>8, <2>9
  <1>4. QED
    BY <1>2, <1>3, Zenon DEF ShareMember, LessWaits, HeldPut

\* The methods of a dictionary.
LEMMA ChangeRefines ==
    ASSUME ObjectsInv, ContentInv, ObjectsInv', NEW o \in objects, Changes(o) PROVE Refines
  <1>1. PICK m \in touched :
            \/ \E new \in Takes[kind][m] : SetMember(o, m, new)
            \/ ShareMember(o, m)
            \/ /\ m \notin {"path", "value"}
               /\ \/ \E key \in KeysOf(m) : PutItem(o, m, key) \/ RemoveItem(o, m, key)
                  \/ ClearItems(o, m)
                  \/ \E other \in Updates \cup {Content(p, m) : p \in objects} :
                        UpdateItems(o, m, other)
    BY DEF Changes
  <1>2. m \in Members[kind] /\ o \in {1, 2} /\ RowOK(kind)
    BY ObjectsMean, InvFacts DEF ObjectsInv, TypeOK
  <1>3. ASSUME NEW new \in Takes[kind][m], SetMember(o, m, new) PROVE Refines
    BY <1>2, <1>3, SetMemberRefines
  <1>4. ASSUME m \notin {"path", "value"}, IsDict(o, m),
               NEW new \in Eager!Results(m, Content(o, m)), Alter(o, m, new)
        PROVE  Refines
    BY <1>2, <1>4, AlterRefines DEF IsDict
  <1>5. ASSUME m \notin {"path", "value"}, NEW key \in KeysOf(m)
        PROVE  /\ SetItem(Content(o, m), key, Made) \in Eager!Results(m, Content(o, m))
               /\ DelItem(Content(o, m), key) \in Eager!Results(m, Content(o, m))
    <2>1. key \in Keys
      BY CIMClassesAssumption DEF KeysOf, Keys
    <2>2. QED
      BY <1>5, <2>1, SameMethods DEF Eager!Results
  <1>6. ASSUME m \notin {"path", "value"}, NEW key \in KeysOf(m),
               PutItem(o, m, key) \/ RemoveItem(o, m, key)
        PROVE  Refines
    BY <1>4, <1>5, <1>6 DEF PutItem, RemoveItem
  <1>7. ASSUME m \notin {"path", "value"}, ClearItems(o, m) PROVE Refines
    <2>1. Empty \in Eager!Results(m, Content(o, m))
      BY <1>7, SameMethods DEF Eager!Results
    <2>2. QED
      BY <1>4, <1>7, <2>1 DEF ClearItems
  <1>8. ASSUME m \notin {"path", "value"},
               NEW other \in Updates \cup {Content(p, m) : p \in objects}, UpdateItems(o, m, other)
        PROVE  Refines
    <2>1. m = "items" /\ kind = "dict" /\ Alter(o, m, Update(Content(o, m), other))
      BY <1>2, <1>8 DEF UpdateItems, RowOK
    <2>2. \A p \in objects : Eager!Content(p, "items") = Content(p, "items")
      BY <1>2, <2>1, ObjectsMean, SeenContent
    <2>3. other \in {Eager!Content(p, "items") : p \in objects} \cup {Eager!FromProgram}
                \cup {[n \in Names |-> [spelling |-> s, value |-> Made]] : s \in Spellings}
      BY <1>8, <2>1, <2>2, SameMethods DEF Updates
    <2>4. Update(Content(o, m), other) \in Eager!Merged(Content(o, m))
      BY <2>3, SameMethods DEF Eager!Merged
    <2>5. ~Fails(o, m) /\ Content(o, m) \notin {None, Raw}
      BY <1>2, <2>1, DictStays, NoneApart DEF ObjectsInv, DictInv
    <2>6. QED
      BY <1>2, <1>8, <2>1, <2>4, <2>5, AlterRefines
  <1>9. CASE ShareMember(o, m)
    BY <1>2, <1>9, ShareMemberRefines
  <1>10. QED
    BY <1>1, <1>3, <1>6, <1>7, <1>8, <1>9

\* o.path.host = host
LEMMA PutHostRefines ==
    ASSUME ObjectsInv, ContentInv, ObjectsInv', NEW o \in objects, NEW host \in Hosts,
           PutHost(o, host)
    PROVE  Refines
  <1>1. /\ "path" \in Members[kind] /\ Content(o, "path") # None /\ Alter(o, "path", host)
        /\ ~Fails(o, "path")
    BY DEF PutHost, Touches, ObjectsInv, TypeOK, Fails
  <1>2. Content(o, "path") # Raw
    <2>1. Content(o, "path") \in ContentsOf("path")
      BY <1>1, ObjectsMean, ContentType
    <2>2. QED
      BY <2>1, CIMClassesAssumption DEF ContentsOf
  <1>3. host \in Eager!Results("path", Content(o, "path"))
    BY DEF Eager!Results
  <1>4. QED
    BY <1>1, <1>2, <1>3, AlterRefines

\* A property is changed in place.
LEMMA PutValueRefines ==
    ASSUME ObjectsInv, ObjectsInv', NEW o \in objects, PutValue(o) PROVE Refines
  <1>1. o \in {1, 2}
    BY ObjectsMean
  <1>2. /\ kind = "instance" /\ Read(o, {"properties"}) /\ changed' = TRUE
        /\ UNCHANGED <<facts, objects>> /\ UNCHANGED facts
    BY DEF PutValue
  <1>3. HeldSoFar' = HeldSoFar /\ CellSoFar' = CellSoFar
    BY <1>1, <1>2, ReadShows
  <1>4. Eager!ChangeInPlace
    BY <1>2, <1>3 DEF Eager!ChangeInPlace, facts
  <1>5. QED
    BY <1>4 DEF Refines, Eager!Next

\* What is read of the first object is not where the second one has something new.
LEMMA FreeStays ==
    ASSUME ObjectsInv, NEW members, NEW m \in Members[kind]
    PROVE  /\ Free(2, m) \in Cells /\ Free(2, m) # None
           /\ HeldAfter(1, members)[1][m] # Free(2, m)
           /\ m \in cached[1] => Free(2, m) # 1
  <1>1. /\ Free(2, m) \in {1, 2} /\ Free(2, m) # None /\ Free(2, m) # held[1][m]
        /\ Waits(1, m) => Free(2, m) = 2
    BY FreeMeans DEF Other
  <1>2. IF Waits(1, m) THEN HeldAfter(1, members)[1][m] \in {1, None}
                       ELSE HeldAfter(1, members)[1][m] = held[1][m]
    BY FirstReads
  <1>3. QED
    BY <1>1, <1>2 DEF Cells, Waits

\* Another object of the program's.
LEMMA ConstructRefines ==
    ASSUME ObjectsInv, ContentInv, ObjectsInv', NEW argument,
           NEW host \in IF kind = "instance" THEN Hosts ELSE {None},
           NEW passed \in SUBSET touched, Construct(argument, host, passed)
    PROVE  Refines
  <1> DEFINE Default(m) == m \notin passed /\ Defaulted(m, argument)
             New(m) == MadeOf(m, passed, argument, host)
             w == CachedAfter(1, passed)
             h == HeldAfter(1, passed)
             c == CellAfter(1, passed)
             p == Path(1)
             second == [m \in Members[kind] |->
                            IF m \in KeptBy(passed) THEN h[1][m]
                            ELSE IF Default(m) THEN 0
                            ELSE IF New(m) = None THEN None ELSE Free(2, m)]
  <1>1. UNCHANGED facts /\ UNCHANGED <<facts, changed>>
    BY DEF Construct
  <1>2. CASE \E m \in passed : Fails(1, m)
    <2>1. Read(1, passed) /\ UNCHANGED <<facts, objects, changed>>
      BY <1>2 DEF Construct
    <2>2. QED
      BY <2>1, ReadRefines
  <1>3. CASE ~\E m \in passed : Fails(1, m)
    <2>1. /\ objects' = {1, 2} /\ cached' = w /\ held' = [h EXCEPT ![2] = second]
          /\ cell' = [m \in Members[kind] |->
                IF m \in KeptBy(passed) \/ Default(m) \/ New(m) = None THEN c[m]
                ELSE [c[m] EXCEPT ![Free(2, m)] = New(m)]]
      BY <1>3 DEF Construct, MadeOf
    <2>2. LinksOK(w, h, c, shared) /\ w[1] \subseteq cached[1]
      BY ReadLinks, FirstReads
    <2>3. passed \subseteq Members[kind] /\ KeptBy(passed) \subseteq passed
      BY DEF ObjectsInv, TypeOK, KeptBy
    <2>4. \A m \in passed : m \notin w[1]
      BY <1>3, WhatIsRead
    <2>5. ASSUME NEW m \in Members[kind]
          PROVE  /\ Free(2, m) \in Cells /\ Free(2, m) # None
                 /\ h[1][m] # Free(2, m) /\ (m \in cached[1] => Free(2, m) # 1)
      BY FreeStays
    <2>6. \A m \in Members[kind] \ {"path", "value"} : New(m) # None
      BY <1>3, MadeMeans
    <2>7. HeldOf(w, h, p) = HeldSoFar /\ CellOf(w, c, p) = CellSoFar
          /\ (kind = "instance" => PathOf(w, h, c) = p)
      BY ReadSeen
    <2>8. ASSUME NEW m \in Members[kind], New(m) # None, m \notin KeptBy(passed)
          PROVE  New(m) \in Eager!Fresh(m)
      <3>1. Content(1, m) = Eager!Content(1, m)
        BY SeenContent
      <3>2. m = "path" => kind = "instance"
        BY InvFacts DEF RowOK
      <3>3. QED
        BY <2>8, <3>1, <3>2, SameMethods DEF MadeOf, Constructed, Eager!Fresh
    <2>9. New("value") # None \/ "value" \in KeptBy(passed)
      BY CIMClassesAssumption DEF MadeOf, Constructed, KeptBy
    <2>10. \A m : Default(m) => m \in Keeps[kind]
      BY DEF Defaulted
    <2> HIDE DEF New, w, h, c, p, Default
    <2>11. held'[1] = h[1] /\ held'[2] = second /\ w[2] = {}
      BY <2>1, <2>2 DEF LinksOK
    <2>12. /\ HeldSoFar' = HeldOf(w, held', p)
           /\ CellSoFar' = CellOf(w, cell', p) \/ MovesLate
           /\ Path(1)' = PathOf(w, held', cell')
      BY <1>1, <2>1, AfterStep DEF p
    <2>13. ~MovesLate
      <3>1. ASSUME kind = "instance" PROVE PathOf(w, held', cell') = PathOf(w, h, c)
        <4>1. "path" \in Members[kind]
          BY <3>1 DEF Members, Lazy, InstanceLazy
        <4>2. h[1]["path"] \in Cells \cup {None} /\ c["path"] \in [Cells -> ContentsOf("path")]
          BY <2>2, <4>1 DEF LinksOK
        <4>3. cell'["path"] = c["path"]
              \/ cell'["path"] = [c["path"] EXCEPT ![Free(2, "path")] = New("path")]
          BY <2>1, <4>1
        <4>4. h[1]["path"] # None => cell'["path"][h[1]["path"]] = c["path"][h[1]["path"]]
          BY <2>5, <4>1, <4>2, <4>3
        <4>5. QED
          BY <2>11, <4>4 DEF PathOf
      <3>2. QED
        BY <2>7, <2>12, <3>1 DEF MovesLate, p
    <2>14. /\ HeldSoFar'[1] = HeldSoFar[1]
           /\ HeldSoFar'[2] = second
           /\ HeldSoFar' = [HeldSoFar EXCEPT ![2] = HeldSoFar'[2]]
      <3>1. HeldOf(w, held', p)[1] = HeldOf(w, h, p)[1]
        BY <2>11 DEF HeldOf
      <3>2. HeldOf(w, held', p)[2] = [m \in Members[kind] |-> second[m]]
        BY <2>11 DEF HeldOf
      <3>3. HeldSoFar' = [o \in {1, 2} |-> HeldSoFar'[o]]
        BY <2>12 DEF HeldOf
      <3>4. second = [m \in Members[kind] |-> second[m]]
        OBVIOUS
      <3> HIDE DEF second
      <3>5. HeldSoFar'[1] = HeldSoFar[1] /\ HeldSoFar'[2] = second
        BY <2>7, <2>12, <3>1, <3>2, <3>4
      <3>6. QED
        BY <3>3, <3>5, Seen
    <2>15. ASSUME NEW m \in Members[kind]
           PROVE  \/ /\ \/ m \in Keeps[kind] \cup {"path", "value"} /\ second[m] = HeldSoFar[1][m]
                        \/ m \in Keeps[kind] /\ second[m] = 0
                        \/ m = "path" /\ second[m] = None
                     /\ CellSoFar'[m] = CellSoFar[m]
                  \/ /\ second[m] = Free(2, m)
                     /\ \E new \in Eager!Fresh(m) :
                            CellSoFar'[m] = [CellSoFar[m] EXCEPT ![Free(2, m)] = new]
      <3> DEFINE g == GivenFor(p, m)
      <3>1. /\ CellSoFar'[m] = IF m \notin w[1] \/ g = None THEN cell'[m]
                               ELSE [cell'[m] EXCEPT ![1] = g]
            /\ CellSoFar[m] = IF m \notin w[1] \/ g = None THEN c[m]
                              ELSE [c[m] EXCEPT ![1] = g]
            /\ HeldSoFar[1][m] = IF m \notin w[1] THEN h[1][m]
                                 ELSE IF g = None THEN None ELSE 1
        BY <2>7, <2>12, <2>13 DEF CellOf, HeldOf
      <3> HIDE DEF g
      <3>2. CASE m \in KeptBy(passed)
        <4>1. second[m] = h[1][m] /\ cell'[m] = c[m] /\ m \notin w[1]
          BY <2>1, <2>3, <2>4, <3>2
        <4>2. m \in Keeps[kind] \cup {"path", "value"}
          BY <3>2 DEF KeptBy
        <4>3. QED
          BY <3>1, <4>1, <4>2
      <3>3. CASE m \notin KeptBy(passed) /\ Default(m)
        <4>1. second[m] = 0 /\ cell'[m] = c[m] /\ m \in Keeps[kind]
          BY <2>1, <2>10, <3>3
        <4>2. QED
          BY <3>1, <4>1
      <3>4. CASE m \notin KeptBy(passed) /\ ~Default(m) /\ New(m) = None
        <4>1. second[m] = None /\ cell'[m] = c[m] /\ m = "path"
          BY <2>1, <2>6, <2>9, <3>4
        <4>2. QED
          BY <3>1, <4>1
      <3>5. CASE m \notin KeptBy(passed) /\ ~Default(m) /\ New(m) # None
        <4>1. second[m] = Free(2, m) /\ cell'[m] = [c[m] EXCEPT ![Free(2, m)] = New(m)]
          BY <2>1, <3>5
        <4>2. m \in w[1] => Free(2, m) # 1
          BY <2>2, <2>5
        <4>3. Free(2, m) # 1 => [[c[m] EXCEPT ![Free(2, m)] = New(m)] EXCEPT ![1] = g]
                                    = [[c[m] EXCEPT ![1] = g] EXCEPT ![Free(2, m)] = New(m)]
          OBVIOUS
        <4>4. CellSoFar'[m] = [CellSoFar[m] EXCEPT ![Free(2, m)] = New(m)]
          BY <3>1, <4>1, <4>2, <4>3
        <4>5. QED
          BY <2>8, <3>5, <4>1, <4>4
      <3>6. QED
        BY <3>2, <3>3, <3>4, <3>5
    <2> HIDE DEF second
    <2>16. \A m \in Members[kind] : Eager!Free(2, m) = Free(2, m)
      BY SeenFree
    <2>17. Eager!Make
      BY <1>1, <2>1, <2>14, <2>15, <2>16, SameTables DEF Eager!Make, facts
    <2>18. QED
      BY <2>17 DEF Refines, Eager!Next
  <1>4. QED
    BY <1>2, <1>3

\* copy()
LEMMA CopyRefines == ASSUME ObjectsInv, ContentInv, ObjectsInv', Copy PROVE Refines
  <1> DEFINE w == CachedAfter(1, CopyRead)
             h == HeldAfter(1, CopyRead)
             c == CellAfter(1, CopyRead)
             p == Path(1)
             second == [m \in Members[kind] |->
                            IF m \in CopyRead THEN Free(2, m) ELSE held[1][m]]
             lost == IF Waits(1, "value") THEN {"value"} ELSE {}
  <1>1. UNCHANGED facts /\ UNCHANGED <<facts, changed>>
    BY DEF Copy
  <1>2. CASE CopyRaises
    <2>1. Read(1, CopyRead) /\ UNCHANGED <<facts, objects, changed>>
      BY <1>2 DEF Copy, CopyRead
    <2>2. QED
      BY <2>1, ReadRefines
  <1>3. CASE ~CopyRaises
    <2>1. /\ objects' = {1, 2} /\ cached' = w /\ held' = [h EXCEPT ![2] = second]
          /\ cell' = [m \in Members[kind] |->
                IF m \in CopyRead THEN [c[m] EXCEPT ![Free(2, m)] = Content(1, m)] ELSE cell[m]]
      BY <1>3 DEF Copy, CopyRead
    <2>2. /\ CopyRead = Members[kind] \ {"value"}
          /\ \A m \in CopyRead : ~Fails(1, m) /\ Content(1, m) \notin {Raw, None}
      BY <1>3, CopyMeans
    <2>3. Eager!Copied = CopyRead
      <3>1. \A m \in Members[kind] \ {"value"} : \E i \in DOMAIN Copies[kind] : Copies[kind][i] = m
        BY InvFacts DEF CopiesOK
      <3>2. \A i \in DOMAIN Copies[kind] : Copies[kind][i] # "value"
        BY InvFacts, RowNoValue DEF NoValueOK
      <3>3. QED
        BY <2>2, <3>1, <3>2, SameTables DEF Eager!Copied
    <2>4. LinksOK(w, h, c, shared) /\ w[1] \subseteq cached[1]
      BY ReadLinks, FirstReads
    <2>5. \A m \in CopyRead : m \notin w[1]
      BY <2>2, WhatIsRead
    <2>6. "value" \in Members[kind] =>
            /\ "value" \in w[1] <=> Waits(1, "value")
            /\ c["value"] = cell["value"] /\ h[1]["value"] = held[1]["value"]
      <3>1. "value" \notin Evaluated(1, CopyRead) /\ "value" \notin CopyRead
        BY <2>2 DEF Evaluated
      <3>2. ASSUME "value" \in Members[kind]
            PROVE  /\ "value" \in w[1] <=> "value" \in cached[1] \ Evaluated(1, CopyRead)
                   /\ h[1]["value"] =
                        IF "value" \in Evaluated(1, CopyRead)
                          THEN IF Given(1, "value") = None THEN None ELSE 1
                        ELSE IF "value" \in CopyRead /\ Fails(1, "value") THEN 1
                        ELSE held[1]["value"]
                   /\ c["value"] = cell["value"]
        BY ZenonT(60), <3>1, <3>2, ReadMember DEF CellAfter
      <3>3. QED
        BY <3>1, <3>2 DEF Waits
    <2>7. HeldOf(w, h, p) = HeldSoFar /\ CellOf(w, c, p) = CellSoFar
      BY ReadSeen
    <2>8. \A m \in Members[kind] : Eager!Content(1, m) = Content(1, m)
                                   /\ Eager!Free(2, m) = Free(2, m)
      BY SeenContent, SeenFree
    <2> HIDE DEF w, h, c, p
    <2>9. held'[1] = h[1] /\ held'[2] = second /\ w[2] = {}
      BY <2>1, <2>4 DEF LinksOK
    <2>10. /\ HeldSoFar' = HeldOf(w, held', p)
           /\ CellSoFar' = CellOf(w, cell', p) \/ MovesLate
      BY <1>1, <2>1, AfterStep DEF p
    <2>11. ~MovesLate
      <3>1. kind = "instance" => "properties" \in CopyRead
        BY <2>2 DEF Members, Lazy, InstanceLazy
      <3>2. QED
        BY <2>1, <2>5, <3>1 DEF MovesLate
    <2>12. ASSUME NEW m \in Members[kind]
           PROVE  second[m] = IF m \in lost THEN None
                              ELSE IF m \in CopyRead THEN Free(2, m) ELSE HeldSoFar[1][m]
      <3>1. CASE m \in CopyRead
        BY <2>2, <3>1
      <3>2. CASE m \notin CopyRead /\ Waits(1, "value")
        <4>1. m = "value" /\ held[1][m] = None
          BY <2>2, <3>2 DEF ContentInv
        <4>2. QED
          BY <3>2, <4>1
      <3>3. CASE m \notin CopyRead /\ ~Waits(1, "value")
        <4>1. m = "value" /\ HeldSoFar[1][m] = held[1][m]
          BY <2>2, <3>3, Seen DEF Waits
        <4>2. QED
          BY <3>3, <4>1
      <3>4. QED
        BY <3>1, <3>2, <3>3
    <2>13. HeldSoFar' = [HeldSoFar EXCEPT ![2] =
                [m \in Members[kind] |->
                    IF m \in lost THEN None
                    ELSE IF m \in CopyRead THEN Free(2, m) ELSE HeldSoFar[1][m]]]
      <3>1. HeldSoFar'[1] = HeldSoFar[1]
        <4>1. HeldOf(w, held', p)[1] = HeldOf(w, h, p)[1]
          BY <2>9 DEF HeldOf
        <4>2. QED
          BY <2>7, <2>10, <4>1
      <3>2. HeldSoFar'[2] = [m \in Members[kind] |-> second[m]]
        BY <2>9, <2>10 DEF HeldOf
      <3>3. HeldSoFar' = [o \in {1, 2} |-> HeldSoFar'[o]]
        BY <2>10 DEF HeldOf
      <3>4. [m \in Members[kind] |-> second[m]] =
                [m \in Members[kind] |->
                    IF m \in lost THEN None
                    ELSE IF m \in CopyRead THEN Free(2, m) ELSE HeldSoFar[1][m]]
        BY <2>12
      <3> HIDE DEF second, lost
      <3>5. QED
        BY <3>1, <3>2, <3>3, <3>4, Seen
    <2>14. CellSoFar' = [m \in Members[kind] |->
                IF m \in CopyRead THEN [CellSoFar[m] EXCEPT ![Free(2, m)] = Content(1, m)]
                ELSE CellSoFar[m]]
      <3>1. CellSoFar' = [m \in Members[kind] |-> CellSoFar'[m]]
        BY <2>10, <2>11 DEF CellOf
      <3>2. ASSUME NEW m \in Members[kind]
            PROVE  CellSoFar'[m] =
                    IF m \in CopyRead THEN [CellSoFar[m] EXCEPT ![Free(2, m)] = Content(1, m)]
                    ELSE CellSoFar[m]
        <4>1. /\ CellSoFar'[m] =
                    IF m \notin w[1] \/ GivenFor(p, m) = None THEN cell'[m]
                    ELSE [cell'[m] EXCEPT ![1] = GivenFor(p, m)]
              /\ CellSoFar[m] =
                    IF m \notin w[1] \/ GivenFor(p, m) = None THEN c[m]
                    ELSE [c[m] EXCEPT ![1] = GivenFor(p, m)]
          BY <2>7, <2>10, <2>11 DEF CellOf
        <4>2. CASE m \in CopyRead
          <5>1. /\ CellSoFar[m] = c[m]
                /\ CellSoFar'[m] = [c[m] EXCEPT ![Free(2, m)] = Content(1, m)]
            BY <2>1, <2>5, <4>1, <4>2
          <5>2. QED
            BY <4>2, <5>1
        <4>3. CASE m \notin CopyRead
          <5>1. cell'[m] = c[m]
            BY <2>1, <2>2, <2>6, <4>3
          <5>2. QED
            BY <4>1, <4>3, <5>1
        <4>4. QED
          BY <4>2, <4>3
      <3>3. QED
        BY <3>1, <3>2
    <2> HIDE DEF second, lost
    <2>15. Eager!CopyBut(lost)
      <3>1. HeldSoFar' = [HeldSoFar EXCEPT ![2] =
                [m \in Members[kind] |->
                    IF m \in lost THEN None
                    ELSE IF m \in CopyRead THEN Eager!Free(2, m) ELSE HeldSoFar[1][m]]]
        BY <2>8, <2>13
      <3>2. CellSoFar' = [m \in Members[kind] |->
                IF m \in CopyRead
                  THEN [CellSoFar[m] EXCEPT ![Eager!Free(2, m)] = Eager!Content(1, m)]
                  ELSE CellSoFar[m]]
        BY <2>8, <2>14
      <3>3. \A m \in CopyRead : Eager!Content(1, m) \notin {None, Raw}
        BY <2>2, <2>8
      <3>4. QED
        BY <1>1, <2>1, <2>3, <3>1, <3>2, <3>3, SameTables DEF Eager!CopyBut, facts
    <2>16. CASE Waits(1, "value")
      <3>1. LostValue
        BY <2>15, <2>16 DEF LostValue, lost
      <3>2. QED
        BY <3>1 DEF Refines
    <2>17. CASE ~Waits(1, "value")
      <3>1. Eager!Copy
        BY <2>15, <2>17 DEF Eager!Copy, lost
      <3>2. QED
        BY <3>1 DEF Refines, Eager!Next
    <2>18. QED
      BY <2>16, <2>17
  <1>4. QED
    BY <1>2, <1>3

\* Every step.
LEMMA StepRefines ==
    ASSUME ObjectsInv, ContentInv, ObjectsInv', [Next]_vars PROVE Refines
  <1>1. objects \subseteq {1, 2} /\ 1 \in {1, 2}
    BY ObjectsMean
  <1>2. ASSUME NEW o \in objects, Convert(o) \/ \E m \in Members[kind] : GetMember(o, m)
        PROVE  Refines
    <2>1. UNCHANGED <<facts, objects, changed>> /\ \E members : Read(o, members)
      BY <1>2 DEF GetMember, Convert
    <2>2. QED
      BY <1>1, <2>1, ReadRefines
  <1>3. ASSUME NEW o \in objects, Changes(o) PROVE Refines
    BY <1>3, ChangeRefines
  <1>4. ASSUME NEW o \in objects, PutValue(o) PROVE Refines
    BY <1>4, PutValueRefines
  <1>5. ASSUME NEW o \in objects, NEW host \in Hosts, PutHost(o, host) PROVE Refines
    BY <1>5, PutHostRefines
  <1>6. CASE Compare \/ Iterate
    <2>1. UNCHANGED <<facts, objects, changed>> /\ \E members : Read(1, members)
      BY <1>6 DEF Compare, Iterate
    <2>2. QED
      BY <1>1, <2>1, ReadRefines
  <1>7. CASE Copy
    BY <1>7, CopyRefines
  <1>8. ASSUME NEW argument \in {"none", "dict", "nocasedict"},
               NEW host \in IF kind = "instance" THEN Hosts ELSE {None},
               NEW passed \in SUBSET touched, Construct(argument, host, passed)
        PROVE  Refines
    BY <1>8, ConstructRefines
  <1>9. CASE NextItem \/ IterateAgain \/ UNCHANGED vars
    BY <1>9, SameRefines DEF NextItem, IterateAgain, vars
  <1>10. QED
    BY <1>2, <1>3, <1>4, <1>5, <1>6, <1>7, <1>8, <1>9 DEF Next

\* The beginning: of each member, the first object holds something or waits to
\* read it, and there is no second object.
LEMMA Begins ==
    ASSUME Init
    PROVE  /\ cached[2] = {}
           /\ \A m \in Members[kind] :
                held[2][m] = None /\ (m \in cached[1] \/ held[1][m] \in {0, 1})
  <1>1. CASE /\ cached = [o \in {1, 2} |-> IF o = 1 THEN Lazy[kind] ELSE {}]
             /\ held = [o \in {1, 2} |->
                   [m \in Members[kind] |-> IF o = 1 /\ m \notin Lazy[kind] THEN 1 ELSE None]]
    <2>1. cached[1] = Lazy[kind] /\ cached[2] = {}
      BY <1>1
    <2>2. ASSUME NEW m \in Members[kind]
          PROVE  /\ held[1][m] = (IF m \notin Lazy[kind] THEN 1 ELSE None)
                 /\ held[2][m] = None
      BY <1>1
    <2>3. QED
      BY <2>1, <2>2
  <1>2. CASE /\ cached = [o \in {1, 2} |-> {}]
             /\ held = [o \in {1, 2} |->
                   [m \in Members[kind] |->
                       IF o = 2 THEN None ELSE IF m \in Keeps[kind] THEN 0 ELSE 1]]
    <2>1. cached[2] = {}
      BY <1>2
    <2>2. ASSUME NEW m \in Members[kind]
          PROVE  /\ held[1][m] = (IF m \in Keeps[kind] THEN 0 ELSE 1)
                 /\ held[2][m] = None
      BY <1>2
    <2>3. QED
      BY <2>1, <2>2
  <1>3. QED
    BY <1>1, <1>2 DEF Init

LEMMA InitRefines == Init => Eager!Init
  <1> SUFFICES ASSUME Init PROVE Eager!Init
    OBVIOUS
  <1>1. ObjectsInv /\ ContentInv
    BY InitInv, InitContent
  <1>2. kind \in Kinds /\ objects = {1} /\ changed = FALSE
    BY DEF Init
  <1>3. \A m \in Members[kind] : HeldSoFar[2][m] = None
    BY <1>1, Begins, Seen
  <1>4. ASSUME NEW m \in Members[kind], m # "path" PROVE HeldSoFar[1][m] # None
    <2>1. 1 # None /\ Given(1, m) # None
      BY <1>1, <1>4, NoneApart, GivenNotNone DEF Cells
    <2>2. m \in cached[1] \/ (held[1][m] \in {0, 1} /\ 0 # None)
      BY Begins, NoneApart DEF Cells
    <2>3. HeldSoFar[1][m] = IF m \notin cached[1] THEN held[1][m]
                            ELSE IF Given(1, m) = None THEN None ELSE 1
      BY <1>1, Seen
    <2>4. QED
      BY <2>1, <2>2, <2>3
  <1>5. QED
    BY <1>2, <1>3, <1>4, SameTables DEF Eager!Init

-----------------------------------------------------------------------------
(* The theorem                                                             *)

\* What the objects refer to is there.
LEMMA ContentHolds == Spec => []ContentInv
  <1>1. ObjectsInv /\ ContentInv /\ [Next]_vars => ContentInv'
    BY ContentPreserved
  <1>2. QED
    BY <1>1, InitContent, Invariance, PTL DEF Spec

\* A caller sees of objects that read late what it would see of objects that hold all
\* their members from the beginning, whatever it reads, converts, compares, changes,
\* shares, copies and constructs, in every order, with two exceptions: a copy made
\* while a value waits has no value, and the references among properties that wait
\* follow the path (obj/cim/lmiwbem_instance.cpp:491-606, the getters and copy()s of
\* the other classes; LostValue and LateReference in Objects).
THEOREM LateIsEarly == Spec => ImplementsEager
  <1>1. ObjectsInv /\ ContentInv /\ ObjectsInv' /\ [Next]_vars
            => [LostValue \/ LateReference \/ Eager!Next]_(Eager!vars)
    BY StepRefines DEF Refines
  <1>2. QED
    BY <1>1, InitRefines, Invariance, ContentHolds, PTL DEF Spec, ImplementsEager

-----------------------------------------------------------------------------
(* Setters                                                                 *)

LEMMA ContentSeen ==
    ObjectsInv /\ ContentInv =>
        \A p \in {1, 2}, k \in Members[kind] :
            Content(p, k) = IF HeldSoFar[p][k] = None THEN None ELSE CellSoFar[k][HeldSoFar[p][k]]
  BY SeenContent DEF Eager!Content

SetterHolds(o, m, new) ==
    /\ Content(o, m)' = new
    /\ \A p \in {1, 2}, k \in Members[kind] :
        <<p, k>> # <<o, m>> /\ <<m, k>> # <<"path", "properties">> =>
            Content(p, k)' = Content(p, k)

LEMMA SetterStep ==
    ASSUME ObjectsInv, ContentInv, ObjectsInv', ContentInv', NEW o \in objects,
           NEW m \in Members[kind], NEW new \in Takes[kind][m], SetMember(o, m, new),
           ~SetterRaises(o, m)
    PROVE  SetterHolds(o, m, new)
  <1> DEFINE read == ReadsFirst(m)
             f == Free(o, m)
             H == HeldSoFar
             C == CellSoFar
             H2 == HeldSoFar'
             C2 == CellSoFar'
  <1>1. o \in {1, 2}
    BY ObjectsMean
  <1>2. /\ UNCHANGED facts
        /\ cached' = LessWaits(CachedAfter(o, read), o, m)
        /\ held' = HeldPut(HeldAfter(o, read), o, m, f)
        /\ cell' = CellPut(CellAfter(o, read), m, f, new)
    BY DEF SetMember, LessWaits, HeldPut, CellPut
  <1>3. f \in Cells /\ f # None /\ f # held[Other(o)][m]
    BY <1>1, FreeMeans DEF Cells
  <1>4. ASSUME Waits(1, m) PROVE IF o = 1 THEN f = 1 ELSE f # 1
    <2>1. CASE o = 2
      BY <1>4, <2>1, FreeMeans
    <2>2. CASE o = 1
      <3>1. held[2][m] # 1
        BY <1>4, NoneRefers DEF Waits
      <3>2. QED
        BY <2>2, <3>1 DEF Free, Other
    <2>3. QED
      BY <1>1, <2>1, <2>2
  <1>5. H[3 - o][m] # f
    <2>1. f = IF H[3 - o][m] = o THEN 3 - o ELSE o
      BY <1>1, SeenFree DEF Eager!Free
    <2>2. QED
      BY <1>1, <2>1
  <1>6. HeldAfter(2, read) = held
    BY SecondStays
  <1> HIDE DEF f, read
  <1>7. /\ HeldSoFar' = HeldPut(HeldSoFar, o, m, f)
        /\ CellOf(cached', cell', Path(1)) = CellPut(CellSoFar, m, f, new)
        /\ CellSoFar' = CellPut(CellSoFar, m, f, new) \/ MovesLate
        /\ Path(1)' = PathOf(cached', held', cell')
    BY <1>1, <1>2, <1>3, <1>4, ReadPut
  <1>8. /\ H \in [{1, 2} -> [Members[kind] -> Cells \cup {None}]]
        /\ C = [k \in Members[kind] |-> C[k]] /\ \A k \in Members[kind] : DOMAIN C[k] = Cells
    BY Seen
  <1>9. MovesLate => m = "path"
    <2>1. ASSUME MovesLate, m # "path" PROVE FALSE
      <3>1. kind = "instance" /\ Path(1)' # Path(1)
        BY <2>1 DEF MovesLate
      <3>2. Path(1)' = Path(1)
        BY <1>1, <1>2, <1>3, <1>7, <2>1, <3>1, PathStays
      <3>3. QED
        BY <3>1, <3>2
    <2>2. QED
      BY <2>1
  <1>10. ASSUME NEW k \in Members[kind], <<m, k>> # <<"path", "properties">>
         PROVE  C2[k] = CellPut(C, m, f, new)[k]
    <2>1. CASE C2 = CellPut(C, m, f, new)
      BY <2>1
    <2>2. CASE MovesLate
      <3>1. C2 = [CellPut(C, m, f, new) EXCEPT !["properties"][1] = Given(1, "properties")']
            /\ k # "properties"
        BY <1>7, <1>9, <1>10, <2>2 DEF MovesLate
      <3>2. CellPut(C, m, f, new) = [q \in Members[kind] |-> CellPut(C, m, f, new)[q]]
        BY <1>8 DEF CellPut
      <3> HIDE DEF C, C2
      <3>3. QED
        BY <3>1, <3>2
    <2>3. QED
      BY <1>7, <2>1, <2>2
  <1>11. UNCHANGED kind
    BY <1>2 DEF facts
  <1>12. \A p \in {1, 2}, k \in Members[kind] :
            /\ Content(p, k) = IF H[p][k] = None THEN None ELSE C[k][H[p][k]]
            /\ Content(p, k)' = IF H2[p][k] = None THEN None ELSE C2[k][H2[p][k]]
    <2>1. \A p \in {1, 2}, k \in Members[kind] :
            Content(p, k) = IF H[p][k] = None THEN None ELSE C[k][H[p][k]]
      BY ContentSeen
    <2>2. (\A p \in {1, 2}, k \in Members[kind] :
            Content(p, k) = IF HeldSoFar[p][k] = None THEN None
                            ELSE CellSoFar[k][HeldSoFar[p][k]])'
      BY ContentSeen, PTL
    <2>3. QED
      BY <1>11, <2>1, <2>2
  <1> HIDE DEF H, C, H2, C2
  <1>13. H2[o][m] = f /\ \A p \in {1, 2}, k \in Members[kind] : p # o \/ k # m => H2[p][k] = H[p][k]
    BY <1>1, <1>7, <1>8 DEF HeldPut, H, H2
  <1>14. /\ CellPut(C, m, f, new)[m] = [C[m] EXCEPT ![f] = new]
         /\ \A k \in Members[kind] \ {m} : CellPut(C, m, f, new)[k] = C[k]
    BY <1>8 DEF CellPut
  <1>15. Content(o, m)' = new
    <2>1. C2[m] = [C[m] EXCEPT ![f] = new]
      BY <1>10, <1>14
    <2>2. C2[m][f] = new
      BY <1>3, <1>8, <2>1
    <2>3. QED
      BY <1>1, <1>3, <1>12, <1>13, <2>2
  <1>16. ASSUME NEW p \in {1, 2}, NEW k \in Members[kind], <<p, k>> # <<o, m>>,
                <<m, k>> # <<"path", "properties">>
         PROVE  Content(p, k)' = Content(p, k)
    <2>1. H2[p][k] = H[p][k] /\ H[p][k] \in Cells \cup {None}
      BY <1>8, <1>13, <1>16
    <2>2. CASE k # m
      <3>1. C2[k] = C[k]
        BY <1>10, <1>14, <1>16, <2>2
      <3>2. QED
        BY <1>12, <2>1, <3>1
    <2>3. CASE k = m
      <3>1. p = 3 - o
        BY <1>1, <1>16, <2>3
      <3>2. C2[m] = [C[m] EXCEPT ![f] = new]
        BY <1>10, <1>14
      <3>3. H[p][m] # None => C2[m][H[p][m]] = C[m][H[p][m]]
        BY <1>5, <1>8, <2>1, <2>3, <3>1, <3>2
      <3>4. QED
        BY <1>12, <2>1, <2>3, <3>3
    <2>4. QED
      BY <2>2, <2>3
  <1>17. QED
    BY <1>15, <1>16 DEF SetterHolds

\* A setter makes the one member of the one object what it was given, and no other
\* member of any object changes for a caller, read or not, but for the references that
\* follow a path (obj/cim/lmiwbem_instance.cpp:537-561 and the setters of the other
\* classes).
THEOREM SettersAre == Spec => SettersHold
  <1>1. ASSUME ObjectsInv, ContentInv, ObjectsInv', ContentInv', NEW o \in objects,
               NEW m \in touched, NEW new \in Takes[kind][m],
               SetMember(o, m, new) /\ ~SetterRaises(o, m)
        PROVE  /\ Content(o, m)' = new
               /\ \A p \in {1, 2}, k \in Members[kind] :
                    <<p, k>> # <<o, m>> /\ <<m, k>> # <<"path", "properties">> =>
                        Content(p, k)' = Content(p, k)
    <2>1. m \in Members[kind]
      BY <1>1 DEF ObjectsInv, TypeOK
    <2>2. QED
      BY <1>1, <2>1, SetterStep DEF SetterHolds
  <1>2. ObjectsInv /\ ContentInv /\ ObjectsInv' /\ ContentInv' /\ [Next]_vars =>
            [\A o \in objects, m \in touched : \A new \in Takes[kind][m] :
                SetMember(o, m, new) /\ ~SetterRaises(o, m) =>
                    /\ Content(o, m)' = new
                    /\ \A p \in {1, 2}, k \in Members[kind] :
                        <<p, k>> # <<o, m>> /\ <<m, k>> # <<"path", "properties">> =>
                            Content(p, k)' = Content(p, k)]_vars
    BY <1>1
  <1>3. QED
    BY <1>2, Invariance, ContentHolds, PTL DEF Spec, SettersHold

=============================================================================
