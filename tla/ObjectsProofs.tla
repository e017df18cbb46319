--------------------------- MODULE ObjectsProofs ---------------------------
(***************************************************************************)
(* Theorems about Objects, for all names, spellings and hosts: what two    *)
(* objects have in common, how dictionaries spell their keys, what their   *)
(* iterators hand out, and how dictionaries compare.                       *)
(***************************************************************************)
EXTENDS Objects, FiniteSetTheorems, TLAPS

-----------------------------------------------------------------------------
(* Dictionaries                                                            *)

Values == [spelling : Spellings, value : Elements]

\* What makes a dictionary.
LEMMA DictMeans ==
    ASSUME NEW d
    PROVE  d \in Dicts <=> \E names \in SUBSET Names : d \in [names -> Values]
  BY DEF Dicts, DictsOf, Values

\* The values of the program and of the CIMOM are values.
LEMMA ElementsType == Own \in Elements /\ Made \in Elements /\ Hosts \subseteq Elements
  BY DEF Elements

\* The dictionaries that are there from the beginning.
LEMMA GivenDicts ==
    Empty \in Dicts /\ FromCIMOM \in Dicts /\ FromProgram \in Dicts
  <1>1. Empty \in [{} -> Values]
    BY DEF Empty
  <1>2. \A v \in Elements : Entry(PlainName, v) \in [{PlainName} -> Values]
    BY CIMClassesAssumption DEF Entry, Values
  <1>3. {} \in SUBSET Names /\ {PlainName} \in SUBSET Names
    BY CIMClassesAssumption
  <1>4. QED
    BY <1>1, <1>2, <1>3, DictMeans, ElementsType DEF FromCIMOM, FromProgram

\* Nothing is taken for None, or for a plain dict, that is not.
LEMMA NoneApart == None \notin Cells \cup Dicts /\ Raw \notin Dicts
  <1>1. Dicts \subseteq WaitingDicts
    <2>1. ASSUME NEW names \in SUBSET Names, NEW d \in [names -> Values]
          PROVE  d \in [names -> [spelling : Spellings, value : Elements \cup {None}]]
      BY DEF Values
    <2>2. QED
      BY <2>1, DictMeans DEF WaitingDicts, DictsOf
  <1>2. QED
    BY <1>1, ObjectsAssumption

\* What the methods of a NocaseDict make of one is one, and the keys that stay keep
\* their spelling.
LEMMA SetItemKeeps ==
    ASSUME NEW d \in Dicts, NEW key \in Keys, NEW v \in Elements
    PROVE  /\ SetItem(d, key, v) \in Dicts
           /\ \A n \in DOMAIN d : SetItem(d, key, v)[n].spelling = d[n].spelling
  <1>1. PICK names \in SUBSET Names : d \in [names -> Values]
    BY DictMeans
  <1>2. key.name \in Names /\ key.spelling \in Spellings
    BY DEF Keys
  <1>3. \A n \in names : [d[n] EXCEPT !.value = v] \in Values
                         /\ [d[n] EXCEPT !.value = v].spelling = d[n].spelling
    BY <1>1 DEF Values
  <1>4. [spelling |-> key.spelling, value |-> v] \in Values
    BY <1>2 DEF Values
  <1>5. SetItem(d, key, v) \in [names \cup {key.name} -> Values]
    BY <1>1, <1>3, <1>4 DEF SetItem, HasKey
  <1>6. names \cup {key.name} \in SUBSET Names
    BY <1>2
  <1>7. \A n \in DOMAIN d : SetItem(d, key, v)[n].spelling = d[n].spelling
    BY <1>1, <1>3 DEF SetItem, HasKey
  <1>8. QED
    BY <1>5, <1>6, <1>7, DictMeans

\* The other methods.
LEMMA DelItemKeeps ==
    ASSUME NEW d \in Dicts, NEW key
    PROVE  /\ DelItem(d, key) \in Dicts
           /\ \A n \in DOMAIN DelItem(d, key) : DelItem(d, key)[n] = d[n]
  <1>1. PICK names \in SUBSET Names : d \in [names -> Values]
    BY DictMeans
  <1>2. DelItem(d, key) \in [names \ {key.name} -> Values]
    BY <1>1 DEF DelItem
  <1>3. names \ {key.name} \in SUBSET Names
    OBVIOUS
  <1>4. QED
    BY <1>2, <1>3, DictMeans DEF DelItem

\* update()
LEMMA UpdateKeeps ==
    ASSUME NEW d \in Dicts, NEW e \in Dicts
    PROVE  /\ Update(d, e) \in Dicts
           /\ \A n \in DOMAIN d : Update(d, e)[n].spelling = d[n].spelling
  <1>1. PICK names \in SUBSET Names : d \in [names -> Values]
    BY DictMeans
  <1>2. PICK others \in SUBSET Names : e \in [others -> Values]
    BY DictMeans
  <1>3. \A n \in names : \A v \in Elements :
            /\ [d[n] EXCEPT !.value = v] \in Values
            /\ [d[n] EXCEPT !.value = v].spelling = d[n].spelling
    BY <1>1 DEF Values
  <1>4. \A n \in others : e[n] \in Values /\ e[n].value \in Elements
    BY <1>2 DEF Values
  <1>5. Update(d, e) \in [names \cup others -> Values]
    BY <1>1, <1>2, <1>3, <1>4 DEF Update
  <1>6. names \cup others \in SUBSET Names
    OBVIOUS
  <1>7. \A n \in DOMAIN d : Update(d, e)[n].spelling = d[n].spelling
    BY <1>1, <1>2, <1>3, <1>4 DEF Update
  <1>8. QED
    BY <1>5, <1>6, <1>7, DictMeans

\* The dictionaries that a program updates another one with.
LEMMA UpdatesType == Updates \subseteq Dicts
  <1>1. \A s \in Spellings : [n \in Names |-> [spelling |-> s, value |-> Made]] \in [Names -> Values]
    BY ElementsType DEF Values
  <1>2. QED
    BY <1>1, DictMeans, GivenDicts DEF Updates

-----------------------------------------------------------------------------
(* The order of names                                                      *)

\* What goes before one name goes before a later one, and the first goes too.
LEMMA BelowGrows ==
    ASSUME NEW S, S \subseteq Nat, NEW n \in S, NEW k \in S, n < k
    PROVE  /\ Below(S, n) \subseteq Below(S, k) /\ n \in Below(S, k) /\ n \notin Below(S, n)
           /\ Below(S, k) \subseteq S /\ k \notin Below(S, k)
  <1>1. n \in Nat /\ k \in Nat /\ ~(n < n) /\ ~(k < k)
    OBVIOUS
  <1>2. \A j \in S : j < n => j < k
    OBVIOUS
  <1>3. QED
    BY <1>1, <1>2 DEF Below

\* Finitely many names have a least one.
LEMMA LeastIs ==
    ASSUME NEW S, S \subseteq Nat, IsFiniteSet(S), S # {}
    PROVE  Least(S) \in S /\ \A k \in S : Least(S) <= k
  <1> DEFINE T == {Below(S, n) : n \in S}
             R == StrictSubsetOrdering(S)
  <1>1. IsWellFoundedOn(R, SUBSET S)
    BY FS_StrictSubsetOrderingWellFounded, FS_FiniteSubsetsOfFinite
  <1>2. T \subseteq SUBSET S /\ T # {}
    BY DEF Below
  <1> HIDE DEF R
  <1>3. PICK x \in T : \A y \in T : <<y, x>> \notin R
    <2> HIDE DEF T
    <2>1. QED
      BY <1>1, <1>2, WFMin
  <1>4. PICK n \in S : x = Below(S, n)
    BY <1>3
  <1>5. ASSUME NEW k \in S, k < n PROVE FALSE
    <2>1. Below(S, k) \subseteq Below(S, n) /\ k \in Below(S, n) /\ k \notin Below(S, k)
      BY <1>5, BelowGrows
    <2>2. Below(S, k) # Below(S, n)
      BY <2>1
    <2>3. Below(S, k) \in SUBSET S /\ Below(S, n) \in SUBSET S
      BY DEF Below
    <2>4. <<Below(S, k), Below(S, n)>> \in R
      BY <2>1, <2>2, <2>3 DEF R, StrictSubsetOrdering
    <2>5. QED
      BY <1>3, <1>4, <2>4
  <1>6. \A k \in S : n <= k
    BY <1>5
  <1>7. QED
    BY <1>6 DEF Least

\* More names go before a later one.
LEMMA RanksDiffer ==
    ASSUME NEW S, S \subseteq Nat, IsFiniteSet(S), NEW n \in S, NEW k \in S, n < k
    PROVE  /\ Cardinality(Below(S, n)) \in Nat
           /\ Cardinality(Below(S, k)) \in Nat
           /\ Cardinality(Below(S, n)) < Cardinality(Below(S, k))
           /\ Cardinality(Below(S, k)) < Cardinality(S)
  <1>1. /\ Below(S, n) \subseteq Below(S, k) /\ n \in Below(S, k) /\ n \notin Below(S, n)
        /\ Below(S, k) \subseteq S /\ k \notin Below(S, k)
    BY BelowGrows
  <1>2. IsFiniteSet(Below(S, k)) /\ IsFiniteSet(Below(S, n))
    BY <1>1, FS_Subset
  <1>3. Cardinality(Below(S, n)) \in Nat /\ Cardinality(Below(S, k)) \in Nat /\ Cardinality(S) \in Nat
    BY <1>2, FS_CardinalityType
  <1>4. Cardinality(Below(S, k)) <= Cardinality(S) /\ Cardinality(Below(S, k)) # Cardinality(S)
    BY <1>1, FS_Subset
  <1>5. Cardinality(Below(S, n)) <= Cardinality(Below(S, k))
        /\ Cardinality(Below(S, n)) # Cardinality(Below(S, k))
    BY <1>1, <1>2, FS_Subset
  <1>6. QED
    BY <1>3, <1>4, <1>5

\* What is chosen is what was to be found.
LEMMA NthIs ==
    ASSUME NEW S, NEW i, \E n \in S : Cardinality(Below(S, n)) = i - 1
    PROVE  Nth(S, i) \in S /\ Cardinality(Below(S, Nth(S, i))) = i - 1
  BY Zenon DEF Nth

\* A name of a dictionary comes after as many as are below it.
LEMMA OrderedAt ==
    ASSUME NEW dict, DOMAIN dict \subseteq Nat, IsFiniteSet(DOMAIN dict), NEW n \in DOMAIN dict
    PROVE  LET rank == Cardinality(Below(DOMAIN dict, n))
           IN  rank + 1 \in 1..Cardinality(DOMAIN dict) /\ Ordered(dict)[rank + 1] = n
  <1> DEFINE D == DOMAIN dict
             rank == Cardinality(Below(D, n))
  <1>1. Below(D, n) \subseteq D /\ n \notin Below(D, n)
    BY DEF Below
  <1>2. rank \in Nat /\ Cardinality(D) \in Nat /\ rank < Cardinality(D)
    BY <1>1, FS_Subset, FS_CardinalityType
  <1>3. \A k \in D : Cardinality(Below(D, k)) = rank => k = n
    BY RanksDiffer
  <1> HIDE DEF rank
  <1>4. rank + 1 \in 1..Cardinality(D) /\ (rank + 1) - 1 = rank
    BY <1>2
  <1>5. Nth(D, rank + 1) = n
    <2>1. \E k \in D : Cardinality(Below(D, k)) = (rank + 1) - 1
      <3>1. Cardinality(Below(D, n)) = (rank + 1) - 1
        BY <1>2 DEF rank
      <3>2. QED
        BY <3>1
    <2>2. Nth(D, rank + 1) \in D /\ Cardinality(Below(D, Nth(D, rank + 1))) = (rank + 1) - 1
      BY <2>1, NthIs
    <2>3. QED
      <3>1. Cardinality(Below(D, Nth(D, rank + 1))) = rank
        BY <1>4, <2>2
      <3>2. QED
        BY <1>3, <2>2, <3>1
  <1>6. Ordered(dict)[rank + 1] = n
    BY <1>4, <1>5 DEF Ordered
  <1>7. QED
    BY <1>4, <1>6 DEF rank

\* As many names as there are numbers: every place is taken.
LEMMA OrderedType ==
    ASSUME NEW dict, DOMAIN dict \subseteq Nat, IsFiniteSet(DOMAIN dict)
    PROVE  /\ Cardinality(DOMAIN dict) \in Nat
           /\ Ordered(dict) \in [1..Cardinality(DOMAIN dict) -> DOMAIN dict]
           /\ \A i \in 1..Cardinality(DOMAIN dict) :
                Cardinality(Below(DOMAIN dict, Ordered(dict)[i])) = i - 1
  <1> DEFINE D == DOMAIN dict
             Place == [n \in D |-> Cardinality(Below(D, n)) + 1]
  <1>1. Cardinality(D) \in Nat
    BY FS_CardinalityType
  <1>2. Place \in [D -> 1..Cardinality(D)]
    BY OrderedAt
  <1>3. \A n, k \in D : Place[n] = Place[k] => n = k
    BY OrderedAt
  <1>4. Cardinality(1..Cardinality(D)) = Cardinality(D) /\ IsFiniteSet(1..Cardinality(D))
    BY <1>1, FS_Interval
  <1>5. Place \in Injection(D, 1..Cardinality(D))
    BY <1>2, <1>3 DEF Injection, IsInjective
  <1>6. Place \in Surjection(D, 1..Cardinality(D))
    BY <1>4, <1>5, FS_Injection
  <1>7. \A i \in 1..Cardinality(D) : \E n \in D : Place[n] = i
    BY <1>6 DEF Surjection
  <1>8. ASSUME NEW i \in 1..Cardinality(D)
        PROVE  Ordered(dict)[i] \in D /\ Cardinality(Below(D, Ordered(dict)[i])) = i - 1
    <2>1. PICK n \in D : Place[n] = i
      BY <1>7
    <2>2. Cardinality(Below(D, n)) \in Nat /\ Ordered(dict)[Cardinality(Below(D, n)) + 1] = n
      <3>1. IsFiniteSet(Below(D, n))
        BY FS_Subset DEF Below
      <3>2. QED
        BY <3>1, OrderedAt, FS_CardinalityType
    <2>3. QED
      BY <2>1, <2>2
  <1>9. QED
    BY <1>1, <1>8 DEF Ordered

\* A dictionary has finitely many names.
LEMMA DictNames ==
    ASSUME NEW d \in Dicts
    PROVE  DOMAIN d \subseteq Names /\ DOMAIN d \subseteq Nat /\ IsFiniteSet(DOMAIN d)
  <1>1. PICK names \in SUBSET Names : d \in [names -> Values]
    BY DictMeans
  <1>2. DOMAIN d = names
    BY <1>1
  <1>3. QED
    BY <1>2, NocaseDictAssumption, FS_Subset

-----------------------------------------------------------------------------
(* The classes                                                             *)

\* A member of the kinds that hold a dictionary.
LEMMA ContentsMeans ==
    ASSUME NEW m
    PROVE  /\ None \in ContentsOf(m)
           /\ m = "path" => Hosts \subseteq ContentsOf(m)
           /\ m = "value" => {Own, Made} \subseteq ContentsOf(m)
           /\ m \notin {"path", "value"} => ContentsOf(m) = Dicts \cup {Raw, None}
  BY DEF ContentsOf

\* The properties of an instance.
LEMMA PropertiesType ==
    ASSUME NEW r \in BOOLEAN, NEW p \in Hosts \cup {None}, r => p # None
    PROVE  PropertiesOf(r, p) \in Dicts
  <1>1. CASE r
    <2>1. \A n \in {PlainName, ReferenceName} :
            [spelling |-> 0, value |-> IF n = PlainName THEN Own ELSE p] \in Values
      BY <1>1, CIMClassesAssumption, ElementsType DEF Values
    <2>2. PropertiesOf(r, p) \in [{PlainName, ReferenceName} -> Values]
      BY <1>1, <2>1 DEF PropertiesOf
    <2>3. QED
      BY <2>2, DictMeans, CIMClassesAssumption
  <1>2. CASE ~r
    BY <1>2, GivenDicts DEF PropertiesOf
  <1>3. QED
    BY <1>1, <1>2

\* What the tables say of every class.
RowOK(k) ==
    /\ Lazy[k] \subseteq Members[k]
    /\ Keeps[k] \subseteq Members[k] \ {"path", "value"}
    /\ \A m \in Members[k] : Takes[k][m] \subseteq ContentsOf(m)
    /\ k # "instance" => "path" \notin Members[k]
    /\ k # "dict" => "items" \notin Members[k]
    /\ k = "dict" => Members[k] = {"items"} /\ Takes[k]["items"] = {} /\ Lazy[k] = {} /\ Keeps[k] = {}

ReadsOK(k) ==
    \A r \in BOOLEAN, p \in Hosts \cup {None}, m \in Members[k] :
        (k = "instance" /\ m = "properties" /\ r => p # None)
            => Reads(p, r)[k][m] \in ContentsOf(m)

CopiesOK(k) ==
    /\ Copies[k] \in Seq(Members[k]) /\ Len(Copies[k]) \in 0..3
    /\ \A m \in Members[k] \ {"value"} : \E i \in 1..Len(Copies[k]) : Copies[k][i] = m

\* They hold of the classes one by one.
LEMMA Rows == \A k \in Kinds : RowOK(k)
  <1> USE ContentsMeans, GivenDicts DEF RowOK, Lazy, Members, Keeps, Takes, AnyDict
  <1>1. RowOK("instance")
    BY DEF InstanceLazy, InstanceKeeps, InstanceTakes
  <1>2. RowOK("class")
    BY DEF ClassLazy, ClassKeeps, ClassTakes
  <1>3. RowOK("method")
    BY DEF MethodLazy, MethodKeeps, MethodTakes
  <1>4. RowOK("parameter")
    BY DEF ParameterLazy, ParameterKeeps, ParameterTakes
  <1>5. RowOK("property")
    BY DEF PropertyLazy, PropertyKeeps, PropertyTakes
  <1>6. RowOK("qualifier")
    BY DEF QualifierLazy, QualifierTakes
  <1>7. RowOK("name")
    BY DEF NameLazy, NameKeeps, NameTakes
  <1>8. RowOK("dict")
    OBVIOUS
  <1> HIDE DEF RowOK
  <1>9. QED
    BY <1>1, <1>2, <1>3, <1>4, <1>5, <1>6, <1>7, <1>8 DEF Kinds

\* What the getters read.
LEMMA RowReads == \A k \in Kinds : ReadsOK(k)
  <1> USE ContentsMeans, GivenDicts, PropertiesType DEF ReadsOK, Lazy, Members, Reads
  <1>1. ReadsOK("instance")
    BY DEF InstanceLazy, InstanceReads
  <1>2. ReadsOK("class")
    BY DEF ClassLazy, ClassReads
  <1>3. ReadsOK("method")
    BY DEF MethodLazy, MethodReads
  <1>4. ReadsOK("parameter")
    BY DEF ParameterLazy, ParameterReads
  <1>5. ReadsOK("property")
    BY DEF PropertyLazy, PropertyReads
  <1>6. ReadsOK("qualifier")
    BY DEF QualifierReads
  <1>7. ReadsOK("name")
    BY DEF NameReads
  <1>8. ReadsOK("dict")
    OBVIOUS
  <1> HIDE DEF ReadsOK
  <1>9. QED
    BY <1>1, <1>2, <1>3, <1>4, <1>5, <1>6, <1>7, <1>8 DEF Kinds

\* copy() takes up everything but a value.
LEMMA RowCopies == \A k \in Kinds : CopiesOK(k)
  <1> USE DEF CopiesOK, Lazy, Members, Copies
  <1>1. CopiesOK("instance")
    BY DEF InstanceLazy, InstanceCopies
  <1>2. CopiesOK("class")
    BY DEF ClassLazy, ClassCopies
  <1>3. CopiesOK("method")
    BY DEF MethodLazy, MethodCopies
  <1>4. CopiesOK("parameter")
    BY DEF ParameterLazy, ParameterCopies
  <1>5. CopiesOK("property")
    BY DEF PropertyLazy, PropertyCopies
  <1>6. CopiesOK("qualifier")
    BY DEF QualifierCopies
  <1>7. CopiesOK("name")
    BY DEF NameCopies
  <1>8. CopiesOK("dict")
    BY DEF DictCopies
  <1> HIDE DEF CopiesOK
  <1>9. QED
    BY <1>1, <1>2, <1>3, <1>4, <1>5, <1>6, <1>7, <1>8 DEF Kinds

-----------------------------------------------------------------------------
(* Reading                                                                 *)

\* What the invariant says of the variables that reading needs.
LEMMA InvFacts ==
    ASSUME ObjectsInv
    PROVE  /\ kind \in Kinds /\ RowOK(kind) /\ ReadsOK(kind) /\ CopiesOK(kind)
           /\ \A o \in {1, 2} : cached[o] \subseteq Members[kind]
  BY Rows, RowReads, RowCopies DEF ObjectsInv, TypeOK, RowOK

\* The path of an instance.
LEMMA PathType ==
    ASSUME ObjectsInv, NEW o \in {1, 2}, kind = "instance"
    PROVE  Path(o) \in Hosts \cup {None}
  <1>1. "path" \in Members["instance"]
    BY DEF Members, Lazy, InstanceLazy
  <1>2. sent.path \in Hosts \cup {None}
    BY DEF ObjectsInv, TypeOK
  <1>3. cell["path"] \in [Cells -> ContentsOf("path")] /\ held[o]["path"] \in Cells \cup {None}
    BY ZenonT(60), <1>1 DEF ObjectsInv, TypeOK
  <1>4. ContentsOf("path") = Hosts \cup {None}
    BY DEF ContentsOf
  <1>5. QED
    BY <1>2, <1>3, <1>4 DEF Path

\* What a member is read into, unless that raises.
LEMMA GivenType ==
    ASSUME ObjectsInv, NEW o \in {1, 2}, NEW m \in cached[o], ~Fails(o, m)
    PROVE  Given(o, m) \in ContentsOf(m)
  <1> DEFINE p == IF kind = "instance" THEN Path(o) ELSE None
  <1>1. p \in Hosts \cup {None}
    BY PathType
  <1>2. m \in Members[kind] /\ sent.reference \in BOOLEAN /\ ReadsOK(kind)
    BY InvFacts DEF ObjectsInv, TypeOK
  <1>3. kind = "instance" /\ m = "properties" /\ sent.reference => p # None
    BY DEF Fails, AsksPath, Waits
  <1> HIDE DEF p
  <1>4. Reads(p, sent.reference)[kind][m] \in ContentsOf(m)
    BY <1>1, <1>2, <1>3 DEF ReadsOK
  <1>5. QED
    BY <1>4 DEF Given, p

\* What a getter returns, unless it raises.
LEMMA ContentType ==
    ASSUME ObjectsInv, NEW o \in {1, 2}, NEW m \in Members[kind], ~Fails(o, m)
    PROVE  Content(o, m) \in ContentsOf(m)
  <1>1. CASE Waits(o, m)
    BY <1>1, GivenType DEF Content, Waits
  <1>2. CASE ~Waits(o, m)
    <2>1. cell[m] \in [Cells -> ContentsOf(m)] /\ held[o][m] \in Cells \cup {None}
      BY DEF ObjectsInv, TypeOK
    <2>2. QED
      BY <1>2, <2>1, ContentsMeans DEF Content
  <1>3. QED
    BY <1>1, <1>2

\* An object that has nothing to read has nothing to read.
LEMMA NothingRead ==
    ASSUME ObjectsInv, NEW members, NEW o \in {1, 2}, cached[o] = {}
    PROVE  /\ Evaluated(o, members) = {}
           /\ \A m : ~Fails(o, m)
           /\ CachedAfter(o, members) = cached
           /\ HeldAfter(o, members) = held
           /\ CellAfter(o, members) = cell
  <1>1. cached \in [{1, 2} -> SUBSET Lazy[kind]]
    BY DEF ObjectsInv, TypeOK
  <1>2. /\ held \in [{1, 2} -> [Members[kind] -> Cells \cup {None}]]
        /\ cell = [m \in Members[kind] |-> cell[m]]
    BY DEF ObjectsInv, TypeOK
  <1>3. Evaluated(o, members) = {} /\ \A m : ~Fails(o, m)
    BY DEF Evaluated, Fails, AsksPath, Waits
  <1>4. CachedAfter(o, members) = cached
    BY <1>1, <1>3 DEF CachedAfter, Released
  <1>5. HeldAfter(o, members) = held
    BY <1>2, <1>3 DEF HeldAfter
  <1>6. CellAfter(o, members) = [m \in Members[kind] |-> cell[m]]
    BY <1>3 DEF CellAfter
  <1>7. QED
    BY <1>2, <1>3, <1>4, <1>5, <1>6

\* The second object has not.
LEMMA SecondStays ==
    ASSUME ObjectsInv, NEW members
    PROVE  /\ \A m : ~Fails(2, m)
           /\ CachedAfter(2, members) = cached
           /\ HeldAfter(2, members) = held
           /\ CellAfter(2, members) = cell
  <1>1. cached[2] = {}
    BY DEF ObjectsInv, WaitInv
  <1>2. QED
    BY <1>1, NothingRead

\* A NocaseDict of the program has not.
LEMMA DictStays ==
    ASSUME ObjectsInv, kind = "dict", NEW o \in {1, 2}, NEW members
    PROVE  /\ \A m : ~Fails(o, m)
           /\ CachedAfter(o, members) = cached
           /\ HeldAfter(o, members) = held
           /\ CellAfter(o, members) = cell
           /\ Content(o, "items") =
                IF held[o]["items"] = None THEN None ELSE cell["items"][held[o]["items"]]
  <1>1. cached[o] = {}
    BY InvFacts DEF ObjectsInv, TypeOK, RowOK
  <1>2. QED
    BY <1>1, NothingRead DEF Content, Waits

\* What reading leaves, for the first object.
LEMMA FirstReads ==
    ASSUME ObjectsInv, NEW members
    PROVE  /\ CachedAfter(1, members) \in [{1, 2} -> SUBSET Lazy[kind]]
           /\ CachedAfter(1, members)[1] \subseteq cached[1]
           /\ CachedAfter(1, members)[2] = {}
           /\ HeldAfter(1, members) \in [{1, 2} -> [Members[kind] -> Cells \cup {None}]]
           /\ HeldAfter(1, members)[2] = held[2]
           /\ \A m \in Members[kind] :
                IF Waits(1, m) THEN HeldAfter(1, members)[1][m] \in {1, None}
                               ELSE HeldAfter(1, members)[1][m] = held[1][m]
           /\ CellAfter(1, members) = [m \in Members[kind] |-> CellAfter(1, members)[m]]
           /\ \A m \in Members[kind] : CellAfter(1, members)[m] \in [Cells -> ContentsOf(m)]
           /\ \A m \in Members[kind] \ cached[1] : CellAfter(1, members)[m] = cell[m]
  <1> DEFINE E == Evaluated(1, members)
  <1>1. /\ cached \in [{1, 2} -> SUBSET Lazy[kind]] /\ cached[2] = {}
        /\ held \in [{1, 2} -> [Members[kind] -> Cells \cup {None}]]
        /\ cell = [m \in Members[kind] |-> cell[m]]
        /\ \A m \in Members[kind] : cell[m] \in [Cells -> ContentsOf(m)]
        /\ \A m \in Members[kind] : Waits(1, m) => held[1][m] \in {1, None}
    BY DEF ObjectsInv, TypeOK, WaitInv
  <1>2. E \subseteq cached[1]
    BY DEF Evaluated
  <1>3. \A m \in E : ~Fails(1, m)
    <2>1. ~Fails(1, "path")
      BY DEF Fails
    <2>2. QED
      BY <2>1 DEF Evaluated
  <1>4. \A m : Fails(1, m) => Waits(1, m) /\ m = "properties"
    BY DEF Fails, AsksPath
  <1>5. \A m \in E : Given(1, m) \in ContentsOf(m)
    BY <1>2, <1>3, GivenType
  <1>6. \A m \in Members[kind] : Fails(1, m) => FromCIMOM \in ContentsOf(m)
    BY <1>4, GivenDicts, ContentsMeans
  <1> HIDE DEF E
  <1>7. /\ CachedAfter(1, members) \in [{1, 2} -> SUBSET Lazy[kind]]
        /\ CachedAfter(1, members)[1] \subseteq cached[1]
        /\ CachedAfter(1, members)[2] = {}
    BY <1>1 DEF CachedAfter, Released
  <1> DEFINE After(m) == IF m \in E THEN IF Given(1, m) = None THEN None ELSE 1
                         ELSE IF m \in members /\ Fails(1, m) THEN 1 ELSE held[1][m]
  <1>8. HeldAfter(1, members) = [held EXCEPT ![1] = [m \in Members[kind] |-> After(m)]]
    BY <1>1 DEF HeldAfter, E
  <1>9. \A m \in Members[kind] : After(m) \in Cells \cup {None}
    BY <1>1 DEF Cells
  <1>10. \A m \in Members[kind] :
            IF Waits(1, m) THEN After(m) \in {1, None} ELSE After(m) = held[1][m]
    BY <1>1, <1>2, <1>4 DEF Waits
  <1> HIDE DEF After
  <1>11. /\ HeldAfter(1, members) \in [{1, 2} -> [Members[kind] -> Cells \cup {None}]]
         /\ HeldAfter(1, members)[2] = held[2]
         /\ \A m \in Members[kind] : HeldAfter(1, members)[1][m] = After(m)
    BY <1>1, <1>8, <1>9
  <1>12. CellAfter(1, members) = [m \in Members[kind] |-> CellAfter(1, members)[m]]
    BY DEF CellAfter
  <1>13. ASSUME NEW m \in Members[kind]
         PROVE  CellAfter(1, members)[m] \in [Cells -> ContentsOf(m)]
    <2>1. cell[m] \in [Cells -> ContentsOf(m)]
      BY <1>1
    <2>2. \A c \in ContentsOf(m) : [cell[m] EXCEPT ![1] = c] \in [Cells -> ContentsOf(m)]
      BY <2>1
    <2>3. CellAfter(1, members)[m] =
            IF m \in E /\ Given(1, m) # None THEN [cell[m] EXCEPT ![1] = Given(1, m)]
            ELSE IF m \in members /\ Fails(1, m) THEN [cell[m] EXCEPT ![1] = FromCIMOM]
            ELSE cell[m]
      BY DEF CellAfter, E
    <2>4. QED
      BY <1>5, <1>6, <2>1, <2>2, <2>3
  <1>14. \A m \in Members[kind] \ cached[1] : CellAfter(1, members)[m] = cell[m]
    BY <1>2, <1>4 DEF CellAfter, E, Waits
  <1>15. QED
    BY <1>7, <1>10, <1>11, <1>12, <1>13, <1>14

\* Either object: what reading keeps of the invariant.
LinksOK(wait, hold, content, common) ==
    /\ common \subseteq Members[kind]
    /\ wait \in [{1, 2} -> SUBSET Lazy[kind]]
    /\ wait[2] = {}
    /\ hold \in [{1, 2} -> [Members[kind] -> Cells \cup {None}]]
    /\ content = [m \in Members[kind] |-> content[m]]
    /\ \A m \in Members[kind] : content[m] \in [Cells -> ContentsOf(m)]
    /\ \A m \in Members[kind] : m \in wait[1] => hold[1][m] \in {1, None}
    /\ \A m \in Members[kind] \ {"value"} :
        /\ hold[1][m] = hold[2][m] => hold[1][m] \in {0, None} \/ m \in common
        /\ m \in wait[1] => hold[2][m] # 1

\* The links of the invariant.
LEMMA InvLinks == ASSUME ObjectsInv PROVE LinksOK(cached, held, cell, shared)
  BY DEF ObjectsInv, TypeOK, WaitInv, Apart, Waits, LinksOK

\* Reading keeps them.
LEMMA ReadLinks ==
    ASSUME ObjectsInv, NEW o \in {1, 2}, NEW members
    PROVE  LinksOK(CachedAfter(o, members), HeldAfter(o, members), CellAfter(o, members), shared)
  <1>1. CASE o = 2
    BY <1>1, SecondStays, InvLinks
  <1>2. CASE o = 1
    <2>1. /\ \A m \in Members[kind] \ {"value"} :
                /\ held[1][m] = held[2][m] => held[1][m] \in {0, None} \/ m \in shared
                /\ m \in cached[1] => held[2][m] # 1
          /\ shared \subseteq Members[kind]
      BY InvLinks DEF LinksOK
    <2>2. QED
      BY <1>2, <2>1, FirstReads DEF LinksOK, Waits
  <1>3. QED
    BY <1>1, <1>2

\* A cell that the other object does not refer to is one of the two.
LEMMA FreeMeans ==
    ASSUME ObjectsInv, NEW o \in {1, 2}, NEW m \in Members[kind]
    PROVE  /\ Free(o, m) \in {1, 2} /\ Free(o, m) # None /\ Free(o, m) # 0
           /\ Free(o, m) # held[Other(o)][m]
           /\ o = 2 /\ Waits(1, m) => Free(2, m) = 2
  <1>1. o = 2 /\ Waits(1, m) => held[1][m] # 2
    BY NoneApart DEF ObjectsInv, WaitInv, Cells
  <1>2. QED
    BY <1>1, NoneApart DEF Free, Other, Cells

-----------------------------------------------------------------------------
(* The invariant                                                           *)

\* The rest of TypeOK.
FactsOK ==
    /\ kind \in Kinds
    /\ touched \subseteq Members[kind]
    /\ sent \in [path : Hosts \cup {None}, reference : BOOLEAN]
    /\ objects \in {{1}, {1, 2}}
    /\ changed \in BOOLEAN

\* The parts make the invariant.
LEMMA InvParts == FactsOK /\ LinksOK(cached, held, cell, shared) /\ DictInv => ObjectsInv
  BY DEF FactsOK, LinksOK, ObjectsInv, TypeOK, WaitInv, Apart, Waits

\* A new object, or what create() leaves.
LEMMA InitInv == Init => ObjectsInv
  <1> SUFFICES ASSUME Init PROVE ObjectsInv
    OBVIOUS
  <1>1. kind \in Kinds /\ RowOK(kind) /\ ReadsOK(kind)
    BY Rows, RowReads DEF Init
  <1>2. FactsOK
    BY DEF Init, FactsOK, Programs
  <1>3. LinksOK(cached, held, cell, shared)
    <2>1. CASE /\ cached = [o \in {1, 2} |-> IF o = 1 THEN Lazy[kind] ELSE {}]
               /\ held = [o \in {1, 2} |->
                     [m \in Members[kind] |-> IF o = 1 /\ m \notin Lazy[kind] THEN 1 ELSE None]]
               /\ cell = [m \in Members[kind] |->
                     [c \in Cells |->
                         IF c = 1 /\ m \notin Lazy[kind] THEN Reads(None, FALSE)[kind][m]
                         ELSE IF c = 0 /\ m \in Keeps[kind] THEN Empty ELSE None]]
      <3>1. \A m \in Members[kind] : Reads(None, FALSE)[kind][m] \in ContentsOf(m)
        BY <1>1 DEF ReadsOK
      <3>2. \A m \in Keeps[kind] : Empty \in ContentsOf(m)
        BY <1>1, GivenDicts, ContentsMeans DEF RowOK
      <3>3. \A m \in Members[kind] : cell[m] \in [Cells -> ContentsOf(m)]
        BY <2>1, <3>1, <3>2, ContentsMeans
      <3>4. held \in [{1, 2} -> [Members[kind] -> Cells \cup {None}]]
        BY <2>1 DEF Cells
      <3>5. \A m \in Members[kind] : held[2][m] = None
        BY <2>1
      <3>6. \A m \in Members[kind] : m \in cached[1] => held[1][m] = None
        BY <2>1
      <3>7. cached \in [{1, 2} -> SUBSET Lazy[kind]] /\ cached[2] = {}
        BY <2>1
      <3>8. None # 1
        BY NoneApart DEF Cells
      <3>9. cell = [m \in Members[kind] |-> cell[m]]
        BY <2>1
      <3>10. shared = {}
        BY DEF Init
      <3>11. QED
        BY <3>3, <3>4, <3>5, <3>6, <3>7, <3>8, <3>9, <3>10 DEF LinksOK
    <2>2. CASE /\ Keeps[kind] # {}
               /\ cached = [o \in {1, 2} |-> {}]
               /\ held = [o \in {1, 2} |->
                     [m \in Members[kind] |->
                         IF o = 2 THEN None ELSE IF m \in Keeps[kind] THEN 0 ELSE 1]]
               /\ cell = [m \in Members[kind] |->
                     [c \in Cells |->
                         IF c = 0 /\ m \in Keeps[kind] THEN Empty
                         ELSE IF c = 1 /\ m \notin Keeps[kind] THEN Made ELSE None]]
      <3>1. \A m \in Members[kind] \ Keeps[kind] : Made \in ContentsOf(m)
        <4>1. \A m \in Members["class"] : m \in Keeps["class"]
          BY DEF Members, Lazy, ClassLazy, Keeps, ClassKeeps
        <4>2. \A m \in Members["parameter"] : m \in Keeps["parameter"]
          BY DEF Members, Lazy, ParameterLazy, Keeps, ParameterKeeps
        <4>3. \A m \in Members["property"] : m \in Keeps["property"] \/ m = "value"
          BY DEF Members, Lazy, PropertyLazy, Keeps, PropertyKeeps
        <4>4. /\ Keeps["instance"] = {} /\ Keeps["method"] = {} /\ Keeps["qualifier"] = {}
              /\ Keeps["name"] = {} /\ Keeps["dict"] = {}
          BY DEF Keeps, InstanceKeeps, MethodKeeps, NameKeeps
        <4>5. kind \in {"class", "parameter", "property"}
          BY <1>1, <2>2, <4>4 DEF Kinds
        <4>6. QED
          BY <4>1, <4>2, <4>3, <4>5, ContentsMeans
      <3>2. \A m \in Keeps[kind] : Empty \in ContentsOf(m)
        BY <1>1, GivenDicts, ContentsMeans DEF RowOK
      <3>3. \A m \in Members[kind] : cell[m] \in [Cells -> ContentsOf(m)]
        BY <2>2, <3>1, <3>2, ContentsMeans
      <3>4. held \in [{1, 2} -> [Members[kind] -> Cells \cup {None}]]
        BY <2>2 DEF Cells
      <3>5. \A m \in Members[kind] : held[2][m] = None /\ held[1][m] # None
        BY <2>2, NoneApart DEF Cells
      <3>6. cached \in [{1, 2} -> SUBSET Lazy[kind]] /\ cached[2] = {} /\ cached[1] = {}
        BY <2>2
      <3>7. cell = [m \in Members[kind] |-> cell[m]]
        BY <2>2
      <3>8. shared = {}
        BY DEF Init
      <3>9. QED
        BY <3>3, <3>4, <3>5, <3>6, <3>7, <3>8 DEF LinksOK
    <2>3. QED
      BY <2>1, <2>2 DEF Init
  <1>4. DictInv
    <2> SUFFICES ASSUME kind = "dict"
                 PROVE  /\ held[1]["items"] = 1
                        /\ \A o \in objects :
                            held[o]["items"] # None /\ cell["items"][held[o]["items"]] \in Dicts
                        /\ shared = {}
      BY DEF DictInv
    <2>1. Members["dict"] = {"items"} /\ Lazy["dict"] = {} /\ Keeps["dict"] = {}
      BY <1>1 DEF RowOK
    <2>2. /\ held = [o \in {1, 2} |->
                     [m \in Members[kind] |-> IF o = 1 /\ m \notin Lazy[kind] THEN 1 ELSE None]]
          /\ cell = [m \in Members[kind] |->
                     [c \in Cells |->
                         IF c = 1 /\ m \notin Lazy[kind] THEN Reads(None, FALSE)[kind][m]
                         ELSE IF c = 0 /\ m \in Keeps[kind] THEN Empty ELSE None]]
      BY <2>1 DEF Init
    <2>3. Reads(None, FALSE)["dict"]["items"] = FromCIMOM
      BY DEF Reads
    <2>4. held[1]["items"] = 1 /\ cell["items"][1] = FromCIMOM
      BY <2>1, <2>2, <2>3 DEF Cells
    <2>5. objects = {1} /\ shared = {}
      BY DEF Init
    <2>6. QED
      BY <2>4, <2>5, GivenDicts, NoneApart DEF Cells
  <1>5. QED
    BY <1>2, <1>3, <1>4, InvParts

-----------------------------------------------------------------------------
(* The steps                                                               *)

\* The keys of the first NocaseDict that stay keep their spelling.
KeepsSpelling ==
    kind = "dict" =>
        \A n \in DOMAIN cell["items"][1] \cap DOMAIN cell'["items"][1] :
            cell'["items"][1][n].spelling = cell["items"][1][n].spelling

\* What every step has to show.
StepOK == ObjectsInv' /\ KeepsSpelling

\* What the two objects of a program are.
LEMMA ObjectsMean == ASSUME ObjectsInv PROVE 1 \in objects /\ objects \subseteq {1, 2}
  BY DEF ObjectsInv, TypeOK

\* A getter, and everything that reads several members.
LEMMA ReadStep ==
    ASSUME ObjectsInv, NEW o \in {1, 2}, NEW members, Read(o, members),
           UNCHANGED <<facts, objects, shared>>, changed' \in BOOLEAN
    PROVE  StepOK
  <1>1. LinksOK(CachedAfter(o, members), HeldAfter(o, members), CellAfter(o, members), shared)
    BY ReadLinks
  <1>2. FactsOK' /\ kind' = kind
    BY DEF ObjectsInv, TypeOK, FactsOK, facts
  <1>3. LinksOK(cached, held, cell, shared)'
    BY <1>1, <1>2 DEF LinksOK, Read
  <1>4. kind = "dict" => held' = held /\ cell' = cell
    BY DictStays DEF Read
  <1>5. DictInv'
    BY <1>2, <1>4 DEF ObjectsInv, DictInv
  <1>6. KeepsSpelling
    BY <1>4 DEF KeepsSpelling
  <1>7. QED
    BY <1>2, <1>3, <1>5, <1>6, InvParts, PTL DEF StepOK

\* A step that leaves the objects alone.
LEMMA SameStep ==
    ASSUME ObjectsInv, UNCHANGED <<facts, objects, links, shared, changed>> PROVE StepOK
  BY DEF ObjectsInv, TypeOK, WaitInv, Waits, Apart, DictInv, facts, links, StepOK, KeepsSpelling

\* A change of what a getter returns.
LEMMA AlterStep ==
    ASSUME ObjectsInv, NEW o \in objects, NEW m \in Members[kind], NEW new \in ContentsOf(m),
           kind = "dict" =>
              /\ new \in Dicts
              /\ \A n \in DOMAIN Content(o, m) \cap DOMAIN new :
                    new[n].spelling = Content(o, m)[n].spelling,
           Alter(o, m, new)
    PROVE  StepOK
  <1> DEFINE w == CachedAfter(o, {m})
             h == HeldAfter(o, {m})
             c == CellAfter(o, {m})
             c2 == [c EXCEPT ![m][h[o][m]] = new]
  <1>0. o \in {1, 2}
    BY ObjectsMean
  <1>1. LinksOK(w, h, c, shared)
    BY <1>0, ReadLinks
  <1>2. FactsOK' /\ kind' = kind /\ objects' = objects /\ shared' = shared
    BY DEF ObjectsInv, TypeOK, FactsOK, facts, Alter
  <1>3. cached' = w /\ held' = h /\ cell' = c2
    BY DEF Alter
  <1>4. kind = "dict" => h = held /\ c = cell /\ m = "items"
    BY <1>0, DictStays, InvFacts DEF RowOK
  <1> HIDE DEF w, h, c
  <1>5. LinksOK(w, h, c2, shared)
    <2>1. c = [k \in Members[kind] |-> c[k]] /\ c2 = [k \in Members[kind] |-> c2[k]]
      BY <1>1 DEF LinksOK
    <2>2. \A k \in Members[kind] : c2[k] = IF k = m THEN [c[m] EXCEPT ![h[o][m]] = new] ELSE c[k]
      BY <2>1
    <2>3. \A k \in Members[kind] : c[k] \in [Cells -> ContentsOf(k)]
      BY <1>1 DEF LinksOK
    <2> HIDE DEF c2
    <2>4. \A k \in Members[kind] : c2[k] \in [Cells -> ContentsOf(k)]
      BY <2>2, <2>3
    <2>5. QED
      BY <1>1, <2>1, <2>4 DEF LinksOK
  <1>6. LinksOK(cached, held, cell, shared)'
    BY <1>2, <1>3, <1>5 DEF LinksOK
  <1>7. ASSUME kind = "dict" PROVE DictInv' /\ KeepsSpelling
    <2>1. /\ held[1]["items"] = 1
          /\ \A p \in objects :
                /\ held[p]["items"] # None
                /\ cell["items"][held[p]["items"]] \in Dicts
          /\ shared = {}
      BY <1>7 DEF ObjectsInv, DictInv
    <2>2. /\ held' = held
          /\ cell' = [cell EXCEPT !["items"][held[o]["items"]] = new]
      BY <1>3, <1>4, <1>7
    <2>3. /\ "items" \in Members[kind] /\ cell["items"] \in [Cells -> ContentsOf("items")]
          /\ cell = [k \in Members[kind] |-> cell[k]]
          /\ \A p \in {1, 2} : held[p]["items"] \in Cells \cup {None}
      BY <1>4, <1>7 DEF ObjectsInv, TypeOK
    <2>4. cell'["items"] = [cell["items"] EXCEPT ![held[o]["items"]] = new]
      BY <2>2, <2>3
    <2>5. \A p \in objects :
            cell'["items"][held[p]["items"]] =
                IF held[p]["items"] = held[o]["items"] THEN new
                ELSE cell["items"][held[p]["items"]]
      BY <2>1, <2>3, <2>4, ObjectsMean
    <2>6. DictInv'
      BY <1>2, <1>7, <2>1, <2>2, <2>5 DEF DictInv
    <2>7. CASE o = 1
      <3>1. Content(1, "items") = cell["items"][1] /\ cell'["items"][1] = new
        BY <1>0, <1>7, <2>1, <2>5, <2>7, DictStays, NoneApart, ObjectsMean DEF Cells
      <3>2. \A n \in DOMAIN Content(1, "items") \cap DOMAIN new :
                new[n].spelling = Content(1, "items")[n].spelling
        BY <1>4, <1>7, <2>7
      <3>3. QED
        BY <2>6, <3>1, <3>2 DEF KeepsSpelling
    <2>8. CASE o = 2
      <3>1. held[2]["items"] # 1
        BY <2>1, <2>3, NoneApart DEF ObjectsInv, Apart, Cells
      <3>2. cell'["items"][1] = cell["items"][1]
        BY <2>1, <2>5, <2>8, <3>1, ObjectsMean
      <3>3. QED
        BY <2>6, <3>2 DEF KeepsSpelling
    <2>9. QED
      BY <1>0, <2>7, <2>8
  <1>8. DictInv' /\ KeepsSpelling
    BY <1>2, <1>7 DEF DictInv, KeepsSpelling
  <1>9. QED
    BY <1>2, <1>6, <1>8, InvParts, PTL DEF StepOK

\* A setter, which may read the member before it replaces it.
LEMMA SetMemberStep ==
    ASSUME ObjectsInv, NEW o \in objects, NEW m \in touched, NEW new \in Takes[kind][m],
           SetMember(o, m, new)
    PROVE  StepOK
  <1> DEFINE read == ReadsFirst(m)
             w == CachedAfter(o, read)
             h == HeldAfter(o, read)
             c == CellAfter(o, read)
             f == Free(o, m)
  <1>0. o \in {1, 2} /\ m \in Members[kind] /\ new \in ContentsOf(m) /\ kind # "dict"
    BY ObjectsMean, InvFacts DEF ObjectsInv, TypeOK, RowOK
  <1>1. CASE Read(o, read) /\ shared' = shared
    BY <1>0, <1>1, ReadStep DEF SetMember, ObjectsInv, TypeOK
  <1>2. CASE /\ cached' = [w EXCEPT ![o] = @ \ {m}]
             /\ held' = [h EXCEPT ![o][m] = f]
             /\ cell' = [c EXCEPT ![m][f] = new]
             /\ shared' = shared \ {m}
    <2>1. LinksOK(w, h, c, shared)
      BY <1>0, ReadLinks
    <2>2. FactsOK' /\ kind' = kind
      BY DEF ObjectsInv, TypeOK, FactsOK, facts, SetMember
    <2>3. f \in {1, 2} /\ f # None /\ f # 0 /\ f # held[Other(o)][m]
          /\ (o = 2 /\ Waits(1, m) => f = 2)
      BY <1>0, FreeMeans
    <2>4. h[Other(o)] = held[Other(o)] /\ w[1] \subseteq cached[1]
      BY <1>0, SecondStays, FirstReads DEF Other
    <2> HIDE DEF w, h, c, f
    <2>5. f # h[Other(o)][m] /\ (o = 2 /\ m \in w[1] => f = 2)
      BY <2>3, <2>4 DEF Waits
    <2>6. /\ w \in [{1, 2} -> SUBSET Lazy[kind]] /\ w[2] = {}
          /\ h \in [{1, 2} -> [Members[kind] -> Cells \cup {None}]]
          /\ c = [k \in Members[kind] |-> c[k]]
          /\ \A k \in Members[kind] : c[k] \in [Cells -> ContentsOf(k)]
          /\ \A k \in Members[kind] : k \in w[1] => h[1][k] \in {1, None}
          /\ \A k \in Members[kind] \ {"value"} :
                /\ h[1][k] = h[2][k] => h[1][k] \in {0, None} \/ k \in shared
                /\ k \in w[1] => h[2][k] # 1
          /\ shared \subseteq Members[kind]
      BY <2>1 DEF LinksOK
    <2>7. /\ cached' \in [{1, 2} -> SUBSET Lazy[kind]] /\ cached'[2] = {}
          /\ cached'[1] = IF o = 1 THEN w[1] \ {m} ELSE w[1]
          /\ shared' = shared \ {m}
      BY <1>0, <1>2, <2>6
    <2>8. /\ held' \in [{1, 2} -> [Members[kind] -> Cells \cup {None}]]
          /\ held'[o][m] = f
          /\ \A p \in {1, 2}, k \in Members[kind] : p # o \/ k # m => held'[p][k] = h[p][k]
      <3>1. f \in Cells
        BY <2>3 DEF Cells
      <3>2. QED
        BY <1>0, <1>2, <2>6, <3>1
    <2>9. /\ cell' = [k \in Members[kind] |-> cell'[k]]
          /\ \A k \in Members[kind] : cell'[k] = IF k = m THEN [c[m] EXCEPT ![f] = new] ELSE c[k]
      BY <1>0, <1>2, <2>6
    <2>10. \A k \in Members[kind] : cell'[k] \in [Cells -> ContentsOf(k)]
      <3>1. c[m] \in [Cells -> ContentsOf(m)]
        BY <1>0, <2>6
      <3>2. [c[m] EXCEPT ![f] = new] \in [Cells -> ContentsOf(m)]
        BY <1>0, <3>1
      <3>3. QED
        BY <2>6, <2>9, <3>2
    <2>11. \A k \in Members[kind] : k \in cached'[1] => held'[1][k] \in {1, None}
      BY <1>0, <2>6, <2>7, <2>8
    <2>12. ASSUME NEW k \in Members[kind] \ {"value"}
           PROVE  /\ held'[1][k] = held'[2][k] => held'[1][k] \in {0, None} \/ k \in shared'
                  /\ k \in cached'[1] => held'[2][k] # 1
      <3>1. CASE k # m
        BY <1>0, <2>6, <2>7, <2>8, <3>1
      <3>2. CASE k = m /\ o = 1
        BY <2>5, <2>7, <2>8, <3>2 DEF Other
      <3>3. CASE k = m /\ o = 2
        BY <2>5, <2>7, <2>8, <3>3 DEF Other
      <3>4. QED
        BY <1>0, <3>1, <3>2, <3>3
    <2>13. LinksOK(cached, held, cell, shared)'
      BY <2>2, <2>6, <2>7, <2>8, <2>9, <2>10, <2>11, <2>12 DEF LinksOK
    <2>14. DictInv' /\ KeepsSpelling
      BY <1>0, <2>2 DEF DictInv, KeepsSpelling
    <2>15. QED
      BY <2>2, <2>13, <2>14, InvParts, PTL DEF StepOK
  <1>3. QED
    BY <1>1, <1>2 DEF SetMember

\* A setter that is given the other object's member.
LEMMA ShareMemberStep ==
    ASSUME ObjectsInv, NEW o \in objects, NEW m \in touched, ShareMember(o, m)
    PROVE  StepOK
  <1> DEFINE read == IF o = 2 THEN {m} ELSE ReadsFirst(m)
             w == CachedAfter(1, read)
             h == HeldAfter(1, read)
             c == CellAfter(1, read)
  <1>0. o \in {1, 2} /\ m \in Members[kind] /\ kind # "dict" /\ Other(o) \in {1, 2} /\ Other(o) # o
    BY ObjectsMean, InvFacts DEF ObjectsInv, TypeOK, RowOK, Other, ShareMember
  <1>1. CASE Read(1, read) /\ shared' = shared
    BY <1>1, ReadStep DEF ShareMember, ObjectsInv, TypeOK
  <1>2. CASE /\ ~\E r \in read : Fails(1, r)
             /\ cached' = [w EXCEPT ![o] = @ \ {m}]
             /\ held' = [h EXCEPT ![o][m] = h[Other(o)][m]]
             /\ cell' = c
             /\ shared' = shared \cup {m}
    <2>1. LinksOK(w, h, c, shared)
      BY ReadLinks
    <2>2. FactsOK' /\ kind' = kind
      BY DEF ObjectsInv, TypeOK, FactsOK, facts, ShareMember
    <2>3. o = 2 => m \notin w[1]
      <3>1. ASSUME o = 2, m \in cached[1] PROVE m \in Evaluated(1, read)
        BY <1>2, <3>1 DEF Evaluated
      <3>2. cached \in [{1, 2} -> SUBSET Lazy[kind]]
        BY DEF ObjectsInv, TypeOK
      <3>3. w[1] = cached[1] \ Evaluated(1, read)
        BY <3>2 DEF CachedAfter, Released
      <3>4. QED
        BY <3>1, <3>3
    <2> HIDE DEF w, h, c
    <2>4. /\ w \in [{1, 2} -> SUBSET Lazy[kind]] /\ w[2] = {}
          /\ h \in [{1, 2} -> [Members[kind] -> Cells \cup {None}]]
          /\ c = [k \in Members[kind] |-> c[k]]
          /\ \A k \in Members[kind] : c[k] \in [Cells -> ContentsOf(k)]
          /\ \A k \in Members[kind] : k \in w[1] => h[1][k] \in {1, None}
          /\ \A k \in Members[kind] \ {"value"} :
                /\ h[1][k] = h[2][k] => h[1][k] \in {0, None} \/ k \in shared
                /\ k \in w[1] => h[2][k] # 1
          /\ shared \subseteq Members[kind]
      BY <2>1 DEF LinksOK
    <2>5. /\ cached' \in [{1, 2} -> SUBSET Lazy[kind]] /\ cached'[2] = {}
          /\ cached'[1] = IF o = 1 THEN w[1] \ {m} ELSE w[1]
          /\ m \notin cached'[1]
      BY <1>0, <1>2, <2>3, <2>4
    <2>6. /\ held' \in [{1, 2} -> [Members[kind] -> Cells \cup {None}]]
          /\ \A p \in {1, 2}, k \in Members[kind] : k # m => held'[p][k] = h[p][k]
      <3>1. h[Other(o)][m] \in Cells \cup {None}
        BY <1>0, <2>4
      <3>2. QED
        BY <1>0, <1>2, <2>4, <3>1
    <2>7. \A k \in Members[kind] : k \in cached'[1] => held'[1][k] \in {1, None}
      BY <2>4, <2>5, <2>6
    <2>8. ASSUME NEW k \in Members[kind] \ {"value"}
          PROVE  /\ held'[1][k] = held'[2][k] => held'[1][k] \in {0, None} \/ k \in shared'
                 /\ k \in cached'[1] => held'[2][k] # 1
      BY <1>2, <2>4, <2>5, <2>6
    <2>9. LinksOK(cached, held, cell, shared)'
      BY <1>0, <1>2, <2>2, <2>4, <2>5, <2>6, <2>7, <2>8 DEF LinksOK
    <2>10. DictInv' /\ KeepsSpelling
      BY <1>0, <2>2 DEF DictInv, KeepsSpelling
    <2>11. QED
      BY <2>2, <2>9, <2>10, InvParts, PTL DEF StepOK
  <1>3. QED
    BY <1>1, <1>2, Zenon DEF ShareMember

\* The methods of a dictionary.
LEMMA ChangeStep ==
    ASSUME ObjectsInv, NEW o \in objects, Changes(o) PROVE StepOK
  <1>0. PICK m \in touched :
            \/ \E new \in Takes[kind][m] : SetMember(o, m, new)
            \/ ShareMember(o, m)
            \/ /\ m \notin {"path", "value"}
               /\ \/ \E key \in KeysOf(m) : PutItem(o, m, key) \/ RemoveItem(o, m, key)
                  \/ ClearItems(o, m)
                  \/ \E other \in Updates \cup {Content(p, m) : p \in objects} :
                        UpdateItems(o, m, other)
    BY DEF Changes
  <1>1. m \in Members[kind] /\ o \in {1, 2} /\ RowOK(kind)
    BY ObjectsMean, InvFacts DEF ObjectsInv, TypeOK
  <1>2. m \notin {"path", "value"} => Dicts \subseteq ContentsOf(m)
    BY ContentsMeans
  <1>3. m \notin {"path", "value"} /\ IsDict(o, m) => Content(o, m) \in Dicts
    BY <1>1, ContentType, ContentsMeans DEF IsDict
  <1>4. \A key \in KeysOf(m) : key \in Keys
    BY CIMClassesAssumption DEF KeysOf, Keys
  <1>5. ASSUME NEW new \in Takes[kind][m], SetMember(o, m, new) PROVE StepOK
    BY <1>5, SetMemberStep
  <1>6. ASSUME m \notin {"path", "value"}, NEW key \in KeysOf(m), PutItem(o, m, key) PROVE StepOK
    <2>1. Content(o, m) \in Dicts
      BY <1>3, <1>6 DEF PutItem
    <2>2. /\ SetItem(Content(o, m), key, Made) \in Dicts
          /\ \A n \in DOMAIN Content(o, m) :
                SetItem(Content(o, m), key, Made)[n].spelling = Content(o, m)[n].spelling
      BY <1>4, <2>1, SetItemKeeps, ElementsType
    <2>3. Alter(o, m, SetItem(Content(o, m), key, Made))
      BY <1>6 DEF PutItem
    <2>4. QED
      BY <1>1, <1>2, <1>6, <2>2, <2>3, AlterStep
  <1>7. ASSUME m \notin {"path", "value"}, NEW key \in KeysOf(m), RemoveItem(o, m, key)
        PROVE  StepOK
    <2>1. Content(o, m) \in Dicts
      BY <1>3, <1>7 DEF RemoveItem
    <2>2. /\ DelItem(Content(o, m), key) \in Dicts
          /\ \A n \in DOMAIN DelItem(Content(o, m), key) :
                DelItem(Content(o, m), key)[n] = Content(o, m)[n]
      BY <2>1, DelItemKeeps
    <2>3. Alter(o, m, DelItem(Content(o, m), key))
      BY <1>7 DEF RemoveItem
    <2>4. QED
      BY <1>1, <1>2, <1>7, <2>2, <2>3, AlterStep
  <1>8. ASSUME m \notin {"path", "value"}, ClearItems(o, m) PROVE StepOK
    <2>1. Alter(o, m, Empty) /\ DOMAIN Empty = {}
      BY <1>8 DEF ClearItems, Empty
    <2>2. QED
      BY <1>1, <1>2, <1>8, <2>1, GivenDicts, AlterStep
  <1>9. ASSUME NEW other \in Updates \cup {Content(p, m) : p \in objects}, UpdateItems(o, m, other)
        PROVE  StepOK
    <2>1. m = "items" /\ kind = "dict" /\ Alter(o, m, Update(Content(o, m), other))
      BY <1>1, <1>9 DEF UpdateItems, RowOK
    <2>2. \A p \in objects : Content(p, m) \in Dicts
      BY <2>1, DictStays, ObjectsMean DEF ObjectsInv, DictInv
    <2>3. other \in Dicts
      BY <2>2, UpdatesType
    <2>4. /\ Update(Content(o, m), other) \in Dicts
          /\ \A n \in DOMAIN Content(o, m) :
                Update(Content(o, m), other)[n].spelling = Content(o, m)[n].spelling
      BY <2>2, <2>3, UpdateKeeps
    <2>5. QED
      BY <1>1, <1>2, <2>1, <2>4, AlterStep
  <1>10. ASSUME ShareMember(o, m) PROVE StepOK
    BY <1>10, ShareMemberStep
  <1>11. QED
    BY <1>0, <1>5, <1>6, <1>7, <1>8, <1>9, <1>10

\* o.path.host = host
LEMMA PutHostStep ==
    ASSUME ObjectsInv, NEW o \in objects, NEW host \in Hosts, PutHost(o, host) PROVE StepOK
  <1>1. "path" \in Members[kind] /\ kind = "instance" /\ Alter(o, "path", host)
    BY DEF PutHost, Touches, ObjectsInv, TypeOK
  <1>2. host \in ContentsOf("path")
    BY ContentsMeans
  <1>3. QED
    BY <1>1, <1>2, AlterStep

\* A second object whose members refer to cells of its own, to the default, or to what
\* was given of the first object.
LEMMA SecondStep ==
    ASSUME ObjectsInv, NEW w, NEW h, NEW c, NEW second,
           LinksOK(w, h, c, shared), shared' \subseteq Members[kind],
           second \in [Members[kind] -> Cells \cup {None}],
           \A m \in Members[kind] \ {"value"} :
                \/ second[m] \in {0, None}
                \/ second[m] = 2 /\ h[1][m] # 2
                \/ second[m] = 1 /\ h[1][m] # 1 /\ m \notin w[1]
                \/ second[m] = h[1][m] /\ m \in shared' /\ m \notin w[1],
           cached' = w, held' = [h EXCEPT ![2] = second],
           cell' = [m \in Members[kind] |-> cell'[m]],
           \A m \in Members[kind] : cell'[m] \in [Cells -> ContentsOf(m)],
           UNCHANGED facts
    PROVE  LinksOK(cached, held, cell, shared)'
  <1>1. kind' = kind
    BY DEF facts
  <1>2. /\ w \in [{1, 2} -> SUBSET Lazy[kind]] /\ w[2] = {}
        /\ h \in [{1, 2} -> [Members[kind] -> Cells \cup {None}]]
        /\ \A m \in Members[kind] : m \in w[1] => h[1][m] \in {1, None}
    BY DEF LinksOK
  <1>3. held' \in [{1, 2} -> [Members[kind] -> Cells \cup {None}]]
        /\ held'[1] = h[1] /\ held'[2] = second
    BY <1>2
  <1>4. 0 # 1 /\ 0 # 2 /\ None # 1 /\ None # 2
    BY NoneApart DEF Cells
  <1>5. ASSUME NEW m \in Members[kind] \ {"value"}
        PROVE  /\ held'[1][m] = held'[2][m] => held'[1][m] \in {0, None} \/ m \in shared'
               /\ m \in cached'[1] => held'[2][m] # 1
    BY <1>3, <1>4
  <1>6. QED
    BY <1>1, <1>2, <1>3, <1>5 DEF LinksOK

\* copy() has taken up everything when nothing it took was useless.
LEMMA ReachedAll ==
    ASSUME ObjectsInv, NEW useless, Reached(Copies[kind], useless) \cap useless = {}
    PROVE  /\ Members[kind] \ {"value"} \subseteq Reached(Copies[kind], useless)
           /\ Reached(Copies[kind], useless) \subseteq Members[kind]
  <1> DEFINE order == Copies[kind]
             read == Reached(order, useless)
  <1>1. CopiesOK(kind)
    BY InvFacts
  <1>2. order \in Seq(Members[kind]) /\ Len(order) \in 0..3 /\ DOMAIN order = 1..Len(order)
    BY <1>1 DEF CopiesOK
  <1>3. \A i \in 1..Len(order) : order[i] \in Members[kind]
    BY <1>2
  <1>4. \A m \in Members[kind] \ {"value"} : \E i \in 1..Len(order) : order[i] = m
    BY <1>1 DEF CopiesOK
  <1> HIDE DEF order
  <1>5. \A i \in 1..Len(order) :
            (\A j \in 1..(i - 1) : order[j] \notin useless) => order[i] \in read
    BY <1>2 DEF Reached
  <1>6. read \subseteq {order[i] : i \in 1..Len(order)}
    BY <1>2 DEF Reached
  <1>7. read \cap useless = {}
    BY DEF order
  <1> HIDE DEF read
  <1>8. 1 \in 1..Len(order) => order[1] \in read
    BY <1>5
  <1>9. 2 \in 1..Len(order) => order[2] \in read
    <2>1. ASSUME 2 \in 1..Len(order) PROVE order[2] \in read
      <3>1. order[1] \notin useless
        BY <1>2, <1>7, <1>8, <2>1
      <3>2. \A j \in 1..(2 - 1) : j = 1
        OBVIOUS
      <3>3. QED
        BY <1>5, <2>1, <3>1, <3>2
    <2>2. QED
      BY <2>1
  <1>10. 3 \in 1..Len(order) => order[3] \in read
    <2>1. ASSUME 3 \in 1..Len(order) PROVE order[3] \in read
      <3>1. order[1] \notin useless /\ order[2] \notin useless
        BY <1>2, <1>7, <1>8, <1>9, <2>1
      <3>2. \A j \in 1..(3 - 1) : j \in {1, 2}
        OBVIOUS
      <3>3. QED
        BY <1>5, <2>1, <3>1, <3>2
    <2>2. QED
      BY <2>1
  <1>11. \A i \in 1..Len(order) : i \in {1, 2, 3}
    BY <1>2
  <1>12. \A i \in 1..Len(order) : order[i] \in read
    BY <1>8, <1>9, <1>10, <1>11
  <1>13. QED
    BY <1>3, <1>4, <1>6, <1>12 DEF read, order

\* copy()
LEMMA CopyStep == ASSUME ObjectsInv, Copy PROVE StepOK
  <1> DEFINE useless == CopyUseless
             read == Reached(Copies[kind], useless)
             w == CachedAfter(1, read)
             h == HeldAfter(1, read)
             c == CellAfter(1, read)
             second == [m \in Members[kind] |-> IF m \in read THEN Free(2, m) ELSE held[1][m]]
  <1>1. CASE read \cap useless # {}
    <2>1. Read(1, read) /\ UNCHANGED <<facts, objects, shared, changed>>
      BY <1>1 DEF Copy, CopyRaises
    <2>2. changed' \in BOOLEAN
      BY <2>1 DEF ObjectsInv, TypeOK
    <2> HIDE DEF read
    <2>3. QED
      BY <2>1, <2>2, ReadStep
  <1>2. CASE read \cap useless = {}
    <2>1. /\ objects' = {1, 2} /\ cached' = w /\ held' = [h EXCEPT ![2] = second]
          /\ cell' = [m \in Members[kind] |->
                IF m \in read THEN [c[m] EXCEPT ![Free(2, m)] = Content(1, m)] ELSE cell[m]]
          /\ shared' = {}
          /\ UNCHANGED <<facts, changed>>
      BY <1>2 DEF Copy, CopyRaises
    <2>2. Members[kind] \ {"value"} \subseteq read /\ read \subseteq Members[kind]
      BY <1>2, ReachedAll
    <2>3. \A m \in read : ~Fails(1, m)
      BY <1>2, <2>2 DEF CopyUseless, IsDict, Fails
    <2>4. \A m \in read : Content(1, m) \in ContentsOf(m)
      BY <2>2, <2>3, ContentType
    <2>5. \A m \in Members[kind] :
            /\ Free(2, m) \in {1, 2} /\ Free(2, m) # held[1][m]
            /\ Waits(1, m) => Free(2, m) = 2
      BY FreeMeans DEF Other
    <2> HIDE DEF useless, read
    <2>6. /\ LinksOK(w, h, c, shared) /\ w[1] \subseteq cached[1]
          /\ \A m \in Members[kind] :
                IF Waits(1, m) THEN h[1][m] \in {1, None} ELSE h[1][m] = held[1][m]
      BY ReadLinks, FirstReads
    <2>7. /\ h[1] \in [Members[kind] -> Cells \cup {None}]
          /\ held[1] \in [Members[kind] -> Cells \cup {None}]
          /\ \A m \in Members[kind] : c[m] \in [Cells -> ContentsOf(m)]
          /\ \A m \in Members[kind] : cell[m] \in [Cells -> ContentsOf(m)]
      BY <2>6 DEF LinksOK, ObjectsInv, TypeOK
    <2> HIDE DEF w, h, c
    <2>8. second \in [Members[kind] -> Cells \cup {None}]
      BY <2>5, <2>7 DEF Cells
    <2>9. 2 # None /\ 2 # 1
      BY NoneApart DEF Cells
    <2>10. ASSUME NEW m \in Members[kind] \ {"value"}
           PROVE  \/ second[m] = 2 /\ h[1][m] # 2
                  \/ second[m] = 1 /\ h[1][m] # 1 /\ m \notin w[1]
      <3>1. second[m] = Free(2, m)
        BY <2>2
      <3>2. CASE Waits(1, m)
        BY <2>5, <2>6, <2>9, <3>1, <3>2
      <3>3. CASE ~Waits(1, m)
        BY <2>5, <2>6, <3>1, <3>3 DEF Waits
      <3>4. QED
        BY <3>2, <3>3
    <2>11. \A m \in Members[kind] : cell'[m] \in [Cells -> ContentsOf(m)]
      <3>1. ASSUME NEW m \in read
            PROVE  [c[m] EXCEPT ![Free(2, m)] = Content(1, m)] \in [Cells -> ContentsOf(m)]
        <4>1. c[m] \in [Cells -> ContentsOf(m)]
          BY <2>2, <2>7
        <4>2. QED
          BY <2>4, <4>1
      <3>2. QED
        BY <2>1, <2>7, <3>1
    <2>12. cell' = [m \in Members[kind] |-> cell'[m]]
      BY <2>1
    <2>13. LinksOK(cached, held, cell, shared)'
      <3> HIDE DEF second
      <3>1. QED
        BY ZenonT(60), <2>1, <2>6, <2>8, <2>10, <2>11, <2>12, SecondStep
    <2>14. FactsOK' /\ kind' = kind
      BY <2>1 DEF ObjectsInv, TypeOK, FactsOK, facts
    <2>15. ASSUME kind = "dict" PROVE DictInv' /\ KeepsSpelling
      <3>1. h = held /\ c = cell /\ Content(1, "items") = cell["items"][1]
            /\ held[1]["items"] = 1 /\ cell["items"][1] \in Dicts
        BY <2>15, <2>9, DictStays, ObjectsMean, NoneApart
           DEF h, c, ObjectsInv, DictInv, Cells
      <3>2. "items" \in Members[kind] /\ "items" \in read
        BY <2>2, <2>15, InvFacts DEF RowOK
      <3>3. Free(2, "items") = 2
        BY <2>5, <3>1, <3>2
      <3>4. cell'["items"] = [cell["items"] EXCEPT ![2] = cell["items"][1]]
        BY <2>1, <3>1, <3>2, <3>3
      <3>5. cell["items"] \in [Cells -> ContentsOf("items")]
        BY <2>7, <3>2
      <3>6. cell'["items"][1] = cell["items"][1] /\ cell'["items"][2] = cell["items"][1]
        BY <3>4, <3>5 DEF Cells
      <3>7. held'[1]["items"] = 1 /\ held'[2]["items"] = 2
        <4>1. held \in [{1, 2} -> [Members[kind] -> Cells \cup {None}]]
          BY DEF ObjectsInv, TypeOK
        <4>2. QED
          BY <2>1, <3>1, <3>2, <3>3, <4>1
      <3>8. DictInv'
        BY <2>1, <2>9, <3>1, <3>6, <3>7, NoneApart DEF DictInv, Cells
      <3>9. QED
        BY <3>6, <3>8 DEF KeepsSpelling
    <2>16. DictInv' /\ KeepsSpelling
      BY <2>14, <2>15 DEF DictInv, KeepsSpelling
    <2>17. QED
      BY <2>13, <2>14, <2>16, InvParts, PTL DEF StepOK
  <1>3. QED
    BY <1>1, <1>2

\* Another object of the program's.
LEMMA ConstructStep ==
    ASSUME ObjectsInv, NEW argument \in {"none", "dict", "nocasedict"},
           NEW host \in IF kind = "instance" THEN Hosts ELSE {None},
           NEW passed \in SUBSET touched, Construct(argument, host, passed)
    PROVE  StepOK
  <1> DEFINE Default(m) == m \notin passed /\ Defaulted(m, argument)
             New(m) == IF m \notin passed THEN Constructed(m, argument, host)
                       ELSE IF Content(1, m) = Raw THEN FromProgram ELSE Content(1, m)
             w == CachedAfter(1, passed)
             h == HeldAfter(1, passed)
             c == CellAfter(1, passed)
             second == [m \in Members[kind] |->
                            IF m \in KeptBy(passed) THEN h[1][m]
                            ELSE IF Default(m) THEN 0
                            ELSE IF New(m) = None THEN None ELSE Free(2, m)]
  <1>1. CASE \E m \in passed : Fails(1, m)
    <2>1. Read(1, passed) /\ UNCHANGED <<facts, objects, shared, changed>>
      BY <1>1 DEF Construct
    <2>2. QED
      BY <2>1, ReadStep DEF ObjectsInv, TypeOK
  <1>2. CASE ~\E m \in passed : Fails(1, m)
    <2>1. /\ objects' = {1, 2} /\ cached' = w /\ held' = [h EXCEPT ![2] = second]
          /\ cell' = [m \in Members[kind] |->
                IF m \in KeptBy(passed) \/ Default(m) \/ New(m) = None THEN c[m]
                ELSE [c[m] EXCEPT ![Free(2, m)] = New(m)]]
          /\ shared' = KeptBy(passed)
          /\ UNCHANGED <<facts, changed>>
      BY <1>2 DEF Construct
    <2>2. passed \subseteq Members[kind]
      BY DEF ObjectsInv, TypeOK
    <2>3. \A m \in Members[kind] : New(m) \in ContentsOf(m)
      <3>1. \A m \in passed : Content(1, m) \in ContentsOf(m)
        BY <1>2, <2>2, ContentType
      <3>2. \A m \in passed : Content(1, m) = Raw /\ m \notin {"path", "value"}
                => FromProgram \in ContentsOf(m)
        BY ContentsMeans, GivenDicts
      <3>3. \A m \in Members[kind] : m = "path" => host \in ContentsOf(m)
        BY ContentsMeans, InvFacts DEF RowOK
      <3>4. Raw \notin ContentsOf("path") /\ Raw \notin ContentsOf("value")
        BY CIMClassesAssumption DEF ContentsOf
      <3>5. \A m \in Members[kind] : Constructed(m, argument, host) \in ContentsOf(m)
        BY <3>3, ContentsMeans, GivenDicts DEF Constructed
      <3>6. QED
        BY <3>1, <3>2, <3>4, <3>5
    <2>4. \A m \in Members[kind] :
            /\ Free(2, m) \in {1, 2} /\ Free(2, m) # held[1][m]
            /\ Waits(1, m) => Free(2, m) = 2
      BY FreeMeans DEF Other
    <2>5. \A m \in passed : m \notin w[1]
      <3>1. \A m \in passed : m \in cached[1] => m \in Evaluated(1, passed)
        BY <1>2 DEF Evaluated
      <3>2. cached \in [{1, 2} -> SUBSET Lazy[kind]]
        BY DEF ObjectsInv, TypeOK
      <3>3. w[1] = cached[1] \ Evaluated(1, passed)
        BY <3>2 DEF CachedAfter, Released
      <3>4. QED
        BY <3>1, <3>3
    <2>6. kind = "dict" => h = held /\ c = cell /\ Content(1, "items") = cell["items"][1]
      <3>1. 1 # None
        BY NoneApart DEF Cells
      <3>2. QED
        BY <3>1, DictStays DEF ObjectsInv, DictInv
    <2>7. /\ LinksOK(w, h, c, shared) /\ w[1] \subseteq cached[1]
          /\ \A m \in Members[kind] :
                IF Waits(1, m) THEN h[1][m] \in {1, None} ELSE h[1][m] = held[1][m]
      BY ReadLinks, FirstReads
    <2> HIDE DEF w, h, c
    <2>8. /\ h[1] \in [Members[kind] -> Cells \cup {None}]
          /\ \A m \in Members[kind] : c[m] \in [Cells -> ContentsOf(m)]
      BY <2>7 DEF LinksOK
    <2>9. second \in [Members[kind] -> Cells \cup {None}]
      BY <2>4, <2>8 DEF Cells
    <2>10. 2 # None /\ 2 # 1
      BY NoneApart DEF Cells
    <2>11. KeptBy(passed) \subseteq passed
      BY DEF KeptBy
    <2>12. ASSUME NEW m \in Members[kind]
           PROVE  \/ second[m] \in {0, None}
                  \/ second[m] = 2 /\ h[1][m] # 2
                  \/ second[m] = 1 /\ h[1][m] # 1 /\ m \notin w[1]
                  \/ second[m] = h[1][m] /\ m \in shared' /\ m \notin w[1]
      <3>1. CASE m \in KeptBy(passed)
        BY <2>1, <2>5, <2>11, <3>1
      <3>2. CASE m \notin KeptBy(passed)
        <4>1. second[m] \in {0, None} \/ second[m] = Free(2, m)
          BY <3>2
        <4> HIDE DEF second
        <4>2. CASE Waits(1, m)
          BY <2>4, <2>7, <2>10, <4>1, <4>2
        <4>3. CASE ~Waits(1, m)
          BY <2>4, <2>7, <4>1, <4>3 DEF Waits
        <4>4. QED
          BY <4>2, <4>3
      <3>3. QED
        BY <3>1, <3>2
    <2>13. \A m \in Members[kind] : cell'[m] \in [Cells -> ContentsOf(m)]
      <3> HIDE DEF New, Default
      <3>1. ASSUME NEW m \in Members[kind]
            PROVE  [c[m] EXCEPT ![Free(2, m)] = New(m)] \in [Cells -> ContentsOf(m)]
        BY <2>3, <2>8
      <3>2. QED
        BY <2>1, <2>8, <3>1
    <2>14. cell' = [m \in Members[kind] |-> cell'[m]]
      BY <2>1
    <2>15. LinksOK(cached, held, cell, shared)'
      <3> HIDE DEF second, New, Default
      <3>1. shared' \subseteq Members[kind] /\ UNCHANGED facts
        BY <2>1, <2>2, <2>11
      <3>2. QED
        BY <2>1, <2>7, <2>9, <2>12, <2>13, <2>14, <3>1, SecondStep
    <2>16. FactsOK' /\ kind' = kind
      BY <2>1 DEF ObjectsInv, TypeOK, FactsOK, facts
    <2>17. ASSUME kind = "dict" PROVE DictInv' /\ KeepsSpelling
      <3>1. "items" \in Members[kind] /\ Keeps[kind] = {} /\ Members[kind] = {"items"}
        BY <2>17, InvFacts DEF RowOK
      <3>2. KeptBy(passed) = {} /\ ~Default("items")
        BY <2>2, <3>1 DEF KeptBy, Defaulted
      <3>3. held[1]["items"] = 1 /\ cell["items"][1] \in Dicts
        BY <2>17, ObjectsMean DEF ObjectsInv, DictInv
      <3>4. New("items") \in Dicts /\ New("items") # None
        BY <2>6, <2>17, <3>1, <3>3, GivenDicts, NoneApart DEF Constructed
      <3>5. Free(2, "items") = 2
        BY <2>4, <3>1, <3>3
      <3>6. cell["items"] \in [Cells -> ContentsOf("items")] /\ c = cell /\ h = held
        BY <2>6, <2>17, <3>1 DEF ObjectsInv, TypeOK
      <3>7. second["items"] = 2
        BY <3>1, <3>2, <3>4, <3>5
      <3> HIDE DEF New, Default, second
      <3>8. cell'["items"] = [cell["items"] EXCEPT ![2] = New("items")]
        BY <2>1, <3>1, <3>2, <3>4, <3>5, <3>6
      <3>9. cell'["items"][1] = cell["items"][1] /\ cell'["items"][2] = New("items")
        BY <3>6, <3>8 DEF Cells
      <3>10. held'[1]["items"] = 1 /\ held'[2]["items"] = 2
        <4>1. held \in [{1, 2} -> [Members[kind] -> Cells \cup {None}]]
          BY DEF ObjectsInv, TypeOK
        <4>2. QED
          BY <2>1, <3>3, <3>6, <3>7, <4>1
      <3>11. 1 # None /\ 2 # None
        BY NoneApart DEF Cells
      <3>12. DictInv'
        BY <2>1, <3>2, <3>3, <3>4, <3>9, <3>10, <3>11 DEF DictInv
      <3>13. QED
        BY <3>9, <3>12 DEF KeepsSpelling
    <2>18. DictInv' /\ KeepsSpelling
      BY <2>16, <2>17 DEF DictInv, KeepsSpelling
    <2>19. QED
      BY <2>15, <2>16, <2>18, InvParts, PTL DEF StepOK
  <1>3. QED
    BY <1>1, <1>2

\* Every step.
LEMMA StepPreserves == ASSUME ObjectsInv, [Next]_vars PROVE StepOK
  <1>0. changed \in BOOLEAN /\ objects \subseteq {1, 2}
    BY ObjectsMean DEF ObjectsInv, TypeOK
  <1>1. ASSUME NEW o \in objects, NEW m \in Members[kind], GetMember(o, m) PROVE StepOK
    BY <1>0, <1>1, ReadStep DEF GetMember
  <1>2. ASSUME NEW o \in objects, Convert(o) PROVE StepOK
    BY <1>0, <1>2, ReadStep DEF Convert
  <1>3. ASSUME NEW o \in objects, Changes(o) PROVE StepOK
    BY <1>3, ChangeStep
  <1>4. ASSUME NEW o \in objects, PutValue(o) PROVE StepOK
    <2>1. /\ Read(o, {"properties"}) /\ changed' = TRUE
          /\ UNCHANGED <<facts, objects, shared, iteration>>
      BY <1>4 DEF PutValue
    <2>2. QED
      BY <1>0, <2>1, ReadStep
  <1>5. ASSUME NEW o \in objects, NEW host \in Hosts, PutHost(o, host) PROVE StepOK
    BY <1>5, PutHostStep
  <1>6. CASE Compare
    BY <1>0, <1>6, ReadStep DEF Compare
  <1>7. CASE Copy
    BY <1>7, CopyStep
  <1>8. ASSUME NEW argument \in {"none", "dict", "nocasedict"},
               NEW host \in IF kind = "instance" THEN Hosts ELSE {None},
               NEW passed \in SUBSET touched, Construct(argument, host, passed)
        PROVE  StepOK
    BY <1>8, ConstructStep
  <1>9. CASE Iterate
    BY <1>0, <1>9, ReadStep DEF Iterate
  <1>10. CASE NextItem \/ IterateAgain \/ UNCHANGED vars
    BY <1>10, SameStep DEF NextItem, IterateAgain, vars
  <1>11. QED
    BY <1>1, <1>2, <1>3, <1>4, <1>5, <1>6, <1>7, <1>8, <1>9, <1>10 DEF Next

\* No step changes what an object is.
LEMMA KindStays == ASSUME [Next]_vars PROVE kind' = kind
  <1>1. ASSUME NEW o \in objects, Changes(o) PROVE kind' = kind
    BY <1>1 DEF Changes, SetMember, ShareMember, PutItem, RemoveItem, ClearItems, UpdateItems, Alter, facts
  <1>2. ASSUME NEW o \in objects, PutValue(o) \/ \E host \in Hosts : PutHost(o, host)
        PROVE  kind' = kind
    BY <1>2 DEF PutValue, PutHost, Alter, facts
  <1>3. ASSUME NEW o \in objects, Convert(o) \/ \E m \in Members[kind] : GetMember(o, m)
        PROVE  kind' = kind
    BY <1>3 DEF Convert, GetMember, facts
  <1>4. CASE Compare
    BY <1>4 DEF Compare, facts
  <1>5. CASE Copy
    BY <1>5 DEF Copy, facts
  <1>6. ASSUME NEW argument, NEW host, NEW passed, Construct(argument, host, passed) PROVE kind' = kind
    BY <1>6 DEF Construct, facts
  <1>7. CASE Iterate
    BY <1>7 DEF Iterate, facts
  <1>8. CASE NextItem \/ IterateAgain \/ UNCHANGED vars
    BY <1>8 DEF NextItem, IterateAgain, facts, vars
  <1>9. QED
    BY <1>1, <1>2, <1>3, <1>4, <1>5, <1>6, <1>7, <1>8 DEF Next

\* What a NocaseDict of the program holds.
Holds == kind = "dict" => Content(1, "items") = cell["items"][1]

LEMMA DictHolds == ObjectsInv => Holds
  <1> SUFFICES ASSUME ObjectsInv, kind = "dict" PROVE Content(1, "items") = cell["items"][1]
    BY DEF Holds
  <1>1. held[1]["items"] = 1 /\ 1 # None
    BY NoneApart DEF ObjectsInv, DictInv, Cells
  <1>2. QED
    BY <1>1, DictStays

\* The invariant holds throughout.
LEMMA Invariance == Spec => []ObjectsInv
  <1>1. ObjectsInv /\ [Next]_vars => ObjectsInv'
    BY StepPreserves DEF StepOK
  <1>2. QED
    BY <1>1, InitInv, PTL DEF Spec

-----------------------------------------------------------------------------
(* Iterators                                                               *)

\* An iterator that begins.
LEMMA IterateStep ==
    ASSUME NEW d \in Dicts, iterator' = Iterator(d), history' = [dict |-> d, names |-> <<>>]
    PROVE  IterInv'
  <1>1. DOMAIN d \subseteq Names
    BY DictNames
  <1>2. Cardinality({}) = 0 /\ DOMAIN d \ DOMAIN d = {}
    BY FS_EmptySet
  <1>3. /\ iterator' \in [dict : Dicts, rest : SUBSET Names]
        /\ iterator'.dict = d /\ iterator'.rest = DOMAIN d
    BY <1>1 DEF Iterator
  <1>4. <<>> \in Seq(Names) /\ Len(<<>>) = 0
    OBVIOUS
  <1>5. /\ history' \in [dict : Dicts, names : Seq(Names)]
        /\ history'.dict = d /\ history'.names = <<>>
    BY <1>4
  <1>6. \A i \in 1..Len(history'.names) : history'.names[i] = Ordered(d)[i]
    BY <1>4, <1>5
  <1>7. QED
    BY <1>2, <1>3, <1>4, <1>5, <1>6 DEF IterInv

\* An iterator that goes on: what it hands out next comes after what is gone.
LEMMA NextItemStep == ASSUME IterInv, NextItem PROVE IterInv'
  <1> DEFINE d == history.dict
             gone == DOMAIN d \ iterator.rest
             next == Least(iterator.rest)
  <1>1. /\ history \in [dict : Dicts, names : Seq(Names)]
        /\ iterator \in [dict : Dicts, rest : SUBSET Names]
        /\ iterator.dict = d
        /\ iterator.rest \subseteq DOMAIN d /\ iterator.rest # {}
        /\ \A n \in gone, k \in iterator.rest : n < k
        /\ Len(history.names) = Cardinality(gone)
        /\ \A i \in 1..Len(history.names) : history.names[i] = Ordered(d)[i]
    BY DEF IterInv, NextItem
  <1>2. iterator' = [iterator EXCEPT !.rest = @ \ {next}]
        /\ history' = [history EXCEPT !.names = Append(@, next)]
    BY DEF NextItem, Advanced, NextName
  <1>3. DOMAIN d \subseteq Names /\ DOMAIN d \subseteq Nat /\ IsFiniteSet(DOMAIN d)
    BY <1>1, DictNames
  <1>4. next \in iterator.rest /\ \A k \in iterator.rest : next <= k
    BY <1>1, <1>3, FS_Subset, LeastIs
  <1> HIDE DEF next
  <1>5. Below(DOMAIN d, next) = gone
    <2>1. \A n \in gone : n < next
      BY <1>1, <1>4
    <2>2. \A k \in iterator.rest : ~(k < next)
      BY <1>1, <1>3, <1>4
    <2>3. QED
      BY <1>1, <2>1, <2>2 DEF Below
  <1>6. Ordered(d)[Cardinality(gone) + 1] = next
    <2>1. next \in DOMAIN d
      BY <1>1, <1>4
    <2> HIDE DEF gone, d
    <2>2. Ordered(d)[Cardinality(Below(DOMAIN d, next)) + 1] = next
      BY <1>3, <2>1, OrderedAt
    <2>3. QED
      BY <1>5, <2>2
  <1>7. /\ DOMAIN d \ (iterator.rest \ {next}) = gone \cup {next}
        /\ next \notin gone
    BY <1>1, <1>4
  <1>8. Cardinality(gone \cup {next}) = Cardinality(gone) + 1
    BY <1>3, <1>7, FS_Difference, FS_AddElement
  <1>9. /\ iterator' \in [dict : Dicts, rest : SUBSET Names]
        /\ iterator'.dict = d /\ iterator'.rest = iterator.rest \ {next}
    BY <1>1, <1>2
  <1>10. next \in Names
    BY <1>1, <1>3, <1>4
  <1>11. /\ history' \in [dict : Dicts, names : Seq(Names)]
         /\ history'.dict = d /\ history'.names = Append(history.names, next)
    <2>1. Append(history.names, next) \in Seq(Names)
      BY <1>1, <1>10
    <2>2. QED
      BY <1>1, <1>2, <2>1
  <1>12. Len(history'.names) = Cardinality(gone) + 1
    BY <1>1, <1>11
  <1>13. \A n \in gone \cup {next}, k \in iterator.rest \ {next} : n < k
    BY <1>1, <1>3, <1>4
  <1> HIDE DEF gone, d
  <1>14. \A i \in 1..(Cardinality(gone) + 1) : history'.names[i] = Ordered(d)[i]
    BY <1>1, <1>6, <1>10, <1>11
  <1>15. QED
    BY <1>1, <1>7, <1>8, <1>9, <1>11, <1>12, <1>13, <1>14 DEF IterInv, d

\* IterInv says what a caller may expect.
LEMMA IterInvMeans == IterInv => IteratesSnapshot
  <1> DEFINE d == history.dict
             gone == DOMAIN d \ iterator.rest
             len == Len(history.names)
  <1> SUFFICES ASSUME IterInv, iterator # None
               PROVE  /\ iterator.dict = d
                      /\ history.names = SubSeq(Ordered(d), 1, len)
                      /\ iterator.rest = {} <=> len = Cardinality(DOMAIN d)
    BY DEF IteratesSnapshot
  <1>1. /\ history \in [dict : Dicts, names : Seq(Names)]
        /\ iterator.dict = d /\ iterator.rest \subseteq DOMAIN d
        /\ len = Cardinality(gone)
        /\ \A i \in 1..len : history.names[i] = Ordered(d)[i]
    BY DEF IterInv
  <1>2. DOMAIN d \subseteq Names /\ DOMAIN d \subseteq Nat /\ IsFiniteSet(DOMAIN d)
    BY <1>1, DictNames
  <1>3. Ordered(d) \in [1..Cardinality(DOMAIN d) -> DOMAIN d] /\ Cardinality(DOMAIN d) \in Nat
    BY <1>2, OrderedType
  <1>4. len \in Nat /\ len <= Cardinality(DOMAIN d) /\ (len = Cardinality(DOMAIN d) <=> gone = DOMAIN d)
    BY <1>1, <1>2, FS_Subset, FS_CardinalityType
  <1>5. iterator.rest = {} <=> gone = DOMAIN d
    BY <1>1
  <1> HIDE DEF gone, d
  <1>6. history.names = SubSeq(Ordered(d), 1, len)
    <2> DEFINE names == history.names
    <2>1. names \in Seq(Names) /\ Len(names) = len
      BY <1>1
    <2>2. \A i \in 1..len : names[i] = Ordered(d)[i]
      BY <1>1
    <2> HIDE DEF names, len
    <2>3. Ordered(d) \in Seq(Names) /\ Len(Ordered(d)) = Cardinality(DOMAIN d)
      BY <1>2, <1>3
    <2>4. QED
      BY <2>1, <2>2, <2>3, <1>3, <1>4 DEF names
  <1>7. QED
    BY <1>1, <1>4, <1>5, <1>6

\* Only the iterator's own methods move it.
LEMMA IterationStays ==
    ASSUME [Next]_vars
    PROVE  Iterate \/ NextItem \/ IterateAgain \/ UNCHANGED iteration
  <1>1. ASSUME NEW o \in objects, Changes(o) PROVE UNCHANGED iteration
    BY <1>1 DEF Changes, SetMember, ShareMember, PutItem, RemoveItem, ClearItems, UpdateItems, Alter, iteration
  <1>2. ASSUME NEW o \in objects, PutValue(o) \/ \E host \in Hosts : PutHost(o, host)
        PROVE  UNCHANGED iteration
    BY <1>2 DEF PutValue, PutHost, Alter, iteration
  <1>3. ASSUME NEW o \in objects, Convert(o) \/ \E m \in Members[kind] : GetMember(o, m)
        PROVE  UNCHANGED iteration
    BY <1>3 DEF Convert, GetMember, iteration
  <1>4. CASE Compare
    BY <1>4 DEF Compare, iteration
  <1>5. CASE Copy
    BY <1>5 DEF Copy, iteration
  <1>6. ASSUME NEW argument, NEW host, NEW passed, Construct(argument, host, passed) PROVE UNCHANGED iteration
    BY <1>6 DEF Construct, iteration
  <1>7. CASE UNCHANGED vars
    BY <1>7 DEF iteration, vars
  <1>8. QED
    BY <1>1, <1>2, <1>3, <1>4, <1>5, <1>6, <1>7 DEF Next

\* Every step.
LEMMA IterPreserved == ASSUME ObjectsInv, IterInv, [Next]_vars PROVE IterInv'
  <1>1. CASE Iterate
    <2> DEFINE m == Iterated[kind]
    <2>1. m \in Members[kind] /\ ~Fails(1, m) /\ Content(1, m) \notin {Raw, None}
      BY <1>1, InvFacts DEF Iterate, Touches, IsDict, ObjectsInv, TypeOK
    <2>2. m \notin {"path", "value"}
      BY <1>1 DEF Iterate, Iterated
    <2>3. Content(1, m) \in ContentsOf(m)
      BY <2>1, ContentType
    <2>4. Content(1, m) \in Dicts
      BY <2>1, <2>2, <2>3, ContentsMeans
    <2>5. QED
      BY <1>1, <2>4, IterateStep DEF Iterate
  <1>2. CASE IterateAgain
    <2>1. /\ history \in [dict : Dicts, names : Seq(Names)]
          /\ iterator.dict = history.dict
      BY <1>2 DEF IterateAgain, IterInv
    <2>2. history' = [dict |-> history.dict, names |-> <<>>]
      BY <1>2, <2>1 DEF IterateAgain
    <2>3. iterator' = Iterator(history.dict) /\ history.dict \in Dicts
      BY <1>2, <2>1 DEF IterateAgain
    <2>4. QED
      BY <2>2, <2>3, IterateStep
  <1>3. CASE UNCHANGED iteration
    BY <1>3 DEF iteration, IterInv
  <1>4. QED
    BY <1>1, <1>2, <1>3, NextItemStep, IterationStays

-----------------------------------------------------------------------------
(* The dictionary for itself                                               *)

\* Dictionaries whose values are numbers, which can be compared.
LEMMA NumberedMeans ==
    ASSUME NEW d \in DictsOf(Int)
    PROVE  /\ DOMAIN d \subseteq Names /\ DOMAIN d \subseteq Nat /\ IsFiniteSet(DOMAIN d)
           /\ d = [n \in DOMAIN d |-> d[n]]
           /\ \A n \in DOMAIN d : d[n] \in [spelling : Spellings, value : Int]
  <1>1. PICK names \in SUBSET Names : d \in [names -> [spelling : Spellings, value : Int]]
    BY DEF DictsOf
  <1>2. DOMAIN d = names
    BY <1>1
  <1>3. QED
    BY <1>1, <1>2, NocaseDictAssumption, FS_Subset

\* keys(), values() and items() go through every name of a dictionary once, in the
\* order of the lower-cased keys, however many there are
\* (obj/lmiwbem_nocasedict.cpp:179-209).
THEOREM OrderedOnce ==
    ASSUME NEW dict, DOMAIN dict \subseteq Nat, IsFiniteSet(DOMAIN dict)
    PROVE  /\ {Ordered(dict)[i] : i \in DOMAIN Ordered(dict)} = DOMAIN dict
           /\ \A i, j \in DOMAIN Ordered(dict) : i < j => Ordered(dict)[i] < Ordered(dict)[j]
  <1> DEFINE D == DOMAIN dict
             d == Ordered(dict)
  <1>1. /\ d \in [1..Cardinality(D) -> D]
        /\ \A i \in 1..Cardinality(D) : Cardinality(Below(D, d[i])) = i - 1
    BY OrderedType
  <1>2. \A n \in D : \E i \in 1..Cardinality(D) : d[i] = n
    BY OrderedAt
  <1> HIDE DEF d
  <1>3. ASSUME NEW i \in DOMAIN d, NEW j \in DOMAIN d, i < j PROVE d[i] < d[j]
    <2>1. /\ d[i] \in D /\ d[j] \in D /\ d[i] \in Nat /\ d[j] \in Nat /\ i \in Int /\ j \in Int
          /\ Cardinality(Below(D, d[i])) = i - 1 /\ Cardinality(Below(D, d[j])) = j - 1
      BY <1>1
    <2>2. d[i] # d[j]
      BY <1>3, <2>1
    <2>3. ~(d[j] < d[i])
      <3>1. d[j] < d[i] => Cardinality(Below(D, d[j])) < Cardinality(Below(D, d[i]))
        BY <2>1, RanksDiffer
      <3>2. QED
        BY <1>3, <2>1, <3>1
    <2>4. QED
      BY <2>1, <2>2, <2>3
  <1>4. {d[i] : i \in DOMAIN d} = D
    BY <1>1, <1>2
  <1>5. QED
    BY <1>3, <1>4 DEF d

\* Two dictionaries in one place of their order: the same, or the first smaller.
SameAt(d, e, i) ==
    /\ i \in 1..Cardinality(DOMAIN d) /\ i \in 1..Cardinality(DOMAIN e)
    /\ Ordered(d)[i] = Ordered(e)[i] /\ d[Ordered(d)[i]] = e[Ordered(e)[i]]

SmallerAt(d, e, i) ==
    /\ i \in 1..Cardinality(DOMAIN e)
    /\ \/ i > Cardinality(DOMAIN d)
       \/ LET n == Ordered(d)[i]
              k == Ordered(e)[i]
          IN  \/ KeyBefore(n, d[n], k, e[k])
              \/ n = k /\ d[n].spelling = e[k].spelling /\ d[n].value < e[k].value

\* The first place in which two dictionaries differ decides.
LEMMA BeforeMeans ==
    ASSUME NEW d \in DictsOf(Int), NEW e \in DictsOf(Int)
    PROVE  DictBefore(d, e) <=>
                \E i \in 1..Cardinality(DOMAIN e) :
                    SmallerAt(d, e, i) /\ \A j \in 1..(i - 1) : SameAt(d, e, j)
  <1>1. /\ Cardinality(DOMAIN d) \in Nat /\ Cardinality(DOMAIN e) \in Nat
        /\ Ordered(d) \in [1..Cardinality(DOMAIN d) -> DOMAIN d]
        /\ Ordered(e) \in [1..Cardinality(DOMAIN e) -> DOMAIN e]
    BY NumberedMeans, OrderedType
  <1>2. Len(Ordered(d)) = Cardinality(DOMAIN d) /\ Len(Ordered(e)) = Cardinality(DOMAIN e)
    BY <1>1
  <1> DEFINE m == Cardinality(DOMAIN d)
             k == Cardinality(DOMAIN e)
  <1> HIDE DEF m, k
  <1>3. \A i \in 1..k : \A j \in 1..(i - 1) :
            SameAt(d, e, j) <=>
                /\ j <= m /\ j <= k /\ Ordered(d)[j] = Ordered(e)[j]
                /\ d[Ordered(d)[j]] = e[Ordered(e)[j]]
    BY <1>1 DEF SameAt, m, k
  <1>4. DictBefore(d, e) <=>
            \E i \in 1..k :
                /\ \A j \in 1..(i - 1) :
                        /\ j <= m /\ j <= k /\ Ordered(d)[j] = Ordered(e)[j]
                        /\ d[Ordered(d)[j]] = e[Ordered(e)[j]]
                /\ SmallerAt(d, e, i)
    BY <1>2, Zenon DEF DictBefore, SmallerAt, m, k
  <1>5. QED
    BY <1>3, <1>4 DEF m, k

\* In one place one of three holds.
LEMMA OneOfThree ==
    ASSUME NEW d \in DictsOf(Int), NEW e \in DictsOf(Int),
           NEW i \in 1..Cardinality(DOMAIN d) \cup 1..Cardinality(DOMAIN e)
    PROVE  /\ SameAt(d, e, i) <=> SameAt(e, d, i)
           /\ SameAt(d, e, i) \/ SmallerAt(d, e, i) \/ SmallerAt(e, d, i)
           /\ SmallerAt(d, e, i) => ~SameAt(d, e, i) /\ ~SmallerAt(e, d, i)
  <1> DEFINE m == Cardinality(DOMAIN d)
             k == Cardinality(DOMAIN e)
             n == Ordered(d)[i]
             o == Ordered(e)[i]
  <1>1. /\ m \in Nat /\ k \in Nat
        /\ Ordered(d) \in [1..m -> DOMAIN d] /\ Ordered(e) \in [1..k -> DOMAIN e]
    BY NumberedMeans, OrderedType
  <1>2. i \in Nat /\ 1 <= i
    BY <1>1
  <1>3. CASE i \notin 1..m \/ i \notin 1..k
    BY <1>1, <1>2, <1>3 DEF SameAt, SmallerAt
  <1>4. CASE i \in 1..m /\ i \in 1..k
    <2>1. n \in DOMAIN d /\ o \in DOMAIN e
      BY <1>1, <1>4
    <2>2. /\ n \in Nat /\ o \in Nat
          /\ d[n] \in [spelling : Spellings, value : Int]
          /\ e[o] \in [spelling : Spellings, value : Int]
      BY <2>1, NumberedMeans
    <2>3. /\ d[n].spelling \in Nat /\ e[o].spelling \in Nat
          /\ d[n].value \in Int /\ e[o].value \in Int
          /\ (d[n] = e[o] <=> d[n].spelling = e[o].spelling /\ d[n].value = e[o].value)
      <3>1. /\ d[n].spelling \in Nat /\ e[o].spelling \in Nat
            /\ d[n].value \in Int /\ e[o].value \in Int
        BY <2>2, NocaseDictAssumption
      <3>2. /\ d[n] = [spelling |-> d[n].spelling, value |-> d[n].value]
            /\ e[o] = [spelling |-> e[o].spelling, value |-> e[o].value]
        BY <2>2
      <3>3. QED
        BY <3>1, <3>2
    <2>4. SameAt(d, e, i) <=> n = o /\ d[n] = e[o]
      BY <1>4 DEF SameAt
    <2>5. SameAt(e, d, i) <=> n = o /\ d[n] = e[o]
      BY <1>4 DEF SameAt
    <2>6. SmallerAt(d, e, i) <=>
            \/ d[n].spelling < e[o].spelling \/ (d[n].spelling = e[o].spelling /\ n < o)
            \/ n = o /\ d[n].spelling = e[o].spelling /\ d[n].value < e[o].value
      BY <1>1, <1>4 DEF SmallerAt, KeyBefore
    <2>7. SmallerAt(e, d, i) <=>
            \/ e[o].spelling < d[n].spelling \/ (e[o].spelling = d[n].spelling /\ o < n)
            \/ o = n /\ e[o].spelling = d[n].spelling /\ e[o].value < d[n].value
      BY <1>1, <1>4 DEF SmallerAt, KeyBefore
    <2> HIDE DEF n, o
    <2>8. QED
      BY <2>2, <2>3, <2>4, <2>5, <2>6, <2>7
  <1>5. QED
    BY <1>3, <1>4

\* Dictionaries that are the same in every place are the same.
LEMMA SameEverywhere ==
    ASSUME NEW d \in DictsOf(Int), NEW e \in DictsOf(Int),
           \A i \in 1..Cardinality(DOMAIN d) \cup 1..Cardinality(DOMAIN e) : SameAt(d, e, i)
    PROVE  d = e
  <1>1. Cardinality(DOMAIN d) \in Nat /\ Cardinality(DOMAIN e) \in Nat
    BY NumberedMeans, OrderedType
  <1>2. ASSUME NEW n \in DOMAIN d PROVE n \in DOMAIN e /\ d[n] = e[n]
    <2>1. PICK i \in 1..Cardinality(DOMAIN d) : Ordered(d)[i] = n
      BY NumberedMeans, OrderedAt
    <2>2. SameAt(d, e, i)
      BY <2>1
    <2>3. Ordered(e)[i] \in DOMAIN e
      BY <2>2, NumberedMeans, OrderedType DEF SameAt
    <2>4. QED
      BY <2>1, <2>2, <2>3 DEF SameAt
  <1>3. ASSUME NEW n \in DOMAIN e PROVE n \in DOMAIN d
    <2>1. PICK i \in 1..Cardinality(DOMAIN e) : Ordered(e)[i] = n
      BY NumberedMeans, OrderedAt
    <2>2. SameAt(d, e, i)
      BY <2>1
    <2>3. Ordered(d)[i] \in DOMAIN d
      BY <2>2, NumberedMeans, OrderedType DEF SameAt
    <2>4. QED
      BY <2>1, <2>2, <2>3 DEF SameAt
  <1>4. d = [n \in DOMAIN d |-> d[n]] /\ e = [n \in DOMAIN e |-> e[n]]
    BY NumberedMeans
  <1>5. DOMAIN d = DOMAIN e
    BY <1>2, <1>3
  <1>6. QED
    BY <1>2, <1>4, <1>5

\* In Python 3, of two dictionaries whose values can be compared, either one comes
\* before the other or they are equal, spelling included
\* (obj/lmiwbem_nocasedict.cpp, NocaseDict::eq, gt and lt).
THEOREM DictionariesOrdered ==
    ASSUME NEW dict \in DictsOf(Int), NEW other \in DictsOf(Int)
    PROVE  /\ ~(DictBefore(dict, other) /\ DictBefore(other, dict))
           /\ EqualDicts(dict, other) <=> ~DictBefore(dict, other) /\ ~DictBefore(other, dict)
  <1> DEFINE Places == 1..Cardinality(DOMAIN dict) \cup 1..Cardinality(DOMAIN other)
             Differ == {i \in Places : ~SameAt(dict, other, i)}
             first == Least(Differ)
  <1>1. /\ Cardinality(DOMAIN dict) \in Nat /\ Cardinality(DOMAIN other) \in Nat
        /\ Places \subseteq Nat
    BY NumberedMeans, OrderedType
  <1>2. IsFiniteSet(Places)
    <2>1. IsFiniteSet(1..Cardinality(DOMAIN dict)) /\ IsFiniteSet(1..Cardinality(DOMAIN other))
      BY <1>1, FS_Interval
    <2>2. QED
      BY <2>1, FS_Union
  <1>3. Differ \subseteq Nat /\ IsFiniteSet(Differ)
    BY <1>1, <1>2, FS_Subset
  <1>4. \A i \in Places :
            /\ SameAt(dict, other, i) <=> SameAt(other, dict, i)
            /\ SameAt(dict, other, i) \/ SmallerAt(dict, other, i) \/ SmallerAt(other, dict, i)
            /\ SmallerAt(dict, other, i) => ~SameAt(dict, other, i) /\ ~SmallerAt(other, dict, i)
            /\ SmallerAt(other, dict, i) => ~SameAt(other, dict, i)
    BY OneOfThree
  <1>5. ASSUME Differ = {}
        PROVE  dict = other /\ ~DictBefore(dict, other) /\ ~DictBefore(other, dict)
    <2>1. \A i \in Places : SameAt(dict, other, i)
      BY <1>5
    <2>2. dict = other
      BY <2>1, SameEverywhere
    <2>3. \A i \in 1..Cardinality(DOMAIN other) : ~SmallerAt(dict, other, i)
      BY <1>4, <2>1
    <2>4. \A i \in 1..Cardinality(DOMAIN dict) : ~SmallerAt(other, dict, i)
      BY <1>4, <2>1
    <2>5. QED
      BY <2>2, <2>3, <2>4, BeforeMeans
  <1>6. ASSUME Differ # {}
        PROVE  /\ first \in Places /\ ~SameAt(dict, other, first)
               /\ \A j \in 1..(first - 1) : SameAt(dict, other, j)
    <2>1. first \in Differ /\ \A i \in Differ : first <= i
      BY <1>3, <1>6, LeastIs
    <2> HIDE DEF first
    <2>2. \A j \in 1..(first - 1) : j \in Places /\ ~(first <= j)
      BY <1>1, <2>1
    <2>3. QED
      BY <2>1, <2>2
  <1> HIDE DEF first
  <1>7. ASSUME Differ # {}
        PROVE  /\ DictBefore(dict, other) <=> SmallerAt(dict, other, first)
               /\ DictBefore(other, dict) <=> SmallerAt(other, dict, first)
    <2>1. /\ \A i \in Places : (\A j \in 1..(i - 1) : SameAt(dict, other, j)) => i <= first
          /\ \A i \in Places : i < first => SameAt(dict, other, i)
      <3>1. first \in Places /\ first \in Nat /\ 1 <= first
        BY <1>1, <1>6, <1>7
      <3>2. \A i \in Places : first < i => first \in 1..(i - 1)
        BY <1>1, <3>1
      <3>3. \A i \in Places : i < first => i \in 1..(first - 1)
        BY <1>1, <3>1
      <3>4. QED
        BY <1>1, <1>6, <1>7, <3>1, <3>2, <3>3
    <2>2. \A i \in Places : i = first \/ i < first \/ first < i
      BY <1>1, <1>6, <1>7
    <2>3. \A i \in Places : SmallerAt(dict, other, i) \/ SmallerAt(other, dict, i) => ~SameAt(dict, other, i)
      BY <1>4
    <2>4. \A i \in Places :
            /\ SmallerAt(dict, other, i) \/ SmallerAt(other, dict, i)
            /\ \A j \in 1..(i - 1) : SameAt(dict, other, j)
            => i = first
      <3>1. \A i \in Places : i <= first => i = first \/ i < first
        BY <1>1, <1>6, <1>7
      <3>2. QED
        BY <2>1, <2>3, <3>1
    <2>5. DictBefore(dict, other) <=> SmallerAt(dict, other, first)
      <3>1. SmallerAt(dict, other, first) => first \in 1..Cardinality(DOMAIN other)
        BY DEF SmallerAt
      <3>2. QED
        BY <1>6, <1>7, <2>4, <3>1, BeforeMeans
    <2>6. DictBefore(other, dict) <=> SmallerAt(other, dict, first)
      <3>1. SmallerAt(other, dict, first) => first \in 1..Cardinality(DOMAIN dict)
        BY DEF SmallerAt
      <3>2. \A i \in Places : \A j \in 1..(i - 1) : SameAt(other, dict, j) <=> SameAt(dict, other, j)
        BY DEF SameAt
      <3>3. QED
        BY <1>6, <1>7, <2>4, <3>1, <3>2, BeforeMeans
    <2>7. QED
      BY <2>5, <2>6
  <1>8. ASSUME Differ # {}, dict = other PROVE FALSE
    <2>1. PICK i \in Places : ~SameAt(dict, other, i)
      BY <1>8
    <2>2. SameAt(dict, dict, i)
      BY <1>8, <2>1 DEF SameAt
    <2>3. QED
      BY <1>8, <2>1, <2>2
  <1>9. QED
    <2>1. CASE Differ = {}
      BY <1>5, <2>1 DEF EqualDicts
    <2>2. CASE Differ # {}
      <3>1. /\ SmallerAt(dict, other, first) \/ SmallerAt(other, dict, first)
            /\ ~(SmallerAt(dict, other, first) /\ SmallerAt(other, dict, first))
        BY <1>4, <1>6, <2>2
      <3>2. QED
        BY <1>7, <1>8, <2>2, <3>1 DEF EqualDicts
    <2>3. QED
      BY <2>1, <2>2

\* In Python 2 dictionaries compare equal exactly if they have the same values under
\* the same names, however the names are spelled
\* (obj/lmiwbem_nocasedict.cpp, NocaseDict::cmp).
THEOREM ComparedByValues ==
    ASSUME NEW dict \in DictsOf(Int), NEW other \in DictsOf(Int)
    PROVE  CompareDicts(dict, other) = 0 <=>
                [n \in DOMAIN dict |-> dict[n].value] = [n \in DOMAIN other |-> other[n].value]
  <1> DEFINE differing == {n \in DOMAIN dict :
                            n \notin DOMAIN other \/ dict[n].value # other[n].value}
             values == [n \in DOMAIN dict |-> dict[n].value]
             others == [n \in DOMAIN other |-> other[n].value]
  <1>1. IsFiniteSet(DOMAIN dict) /\ IsFiniteSet(DOMAIN other)
    BY NumberedMeans
  <1>2. Cardinality(DOMAIN dict) \in Nat /\ Cardinality(DOMAIN other) \in Nat
    BY <1>1, FS_CardinalityType
  <1>3. CASE differing = {}
    <2>1. CompareDicts(dict, other) = Cardinality(DOMAIN dict) - Cardinality(DOMAIN other)
      BY <1>3 DEF CompareDicts
    <2>2. DOMAIN dict \subseteq DOMAIN other /\ \A n \in DOMAIN dict : dict[n].value = other[n].value
      BY <1>3
    <2>3. Cardinality(DOMAIN dict) = Cardinality(DOMAIN other) => DOMAIN dict = DOMAIN other
      BY <1>1, <2>2, FS_Subset
    <2>4. CompareDicts(dict, other) = 0 <=> DOMAIN dict = DOMAIN other
      BY <1>2, <2>1, <2>3
    <2>5. DOMAIN dict = DOMAIN other => values = others
      BY <2>2
    <2>6. values = others => DOMAIN dict = DOMAIN other
      <3>1. DOMAIN values = DOMAIN dict /\ DOMAIN others = DOMAIN other
        OBVIOUS
      <3> HIDE DEF values, others
      <3>2. QED
        BY <3>1
    <2>7. QED
      BY <2>4, <2>5, <2>6
  <1>4. CASE differing # {}
    <2>1. CompareDicts(dict, other) \in {-1, 1}
      BY <1>4 DEF CompareDicts
    <2>2. PICK n \in DOMAIN dict : n \notin DOMAIN other \/ dict[n].value # other[n].value
      BY <1>4
    <2>3. values # others
      <3>1. /\ DOMAIN values = DOMAIN dict /\ DOMAIN others = DOMAIN other
            /\ values[n] = dict[n].value
            /\ n \in DOMAIN other => others[n] = other[n].value
        OBVIOUS
      <3> HIDE DEF values, others
      <3>2. QED
        BY <2>2, <3>1
    <2>4. QED
      BY <2>1, <2>3
  <1>5. QED
    BY <1>3, <1>4

-----------------------------------------------------------------------------
(* Theorems                                                                *)

\* The variables keep their types, whatever was read, and read in part.
THEOREM ObjectsTypeCorrect == Spec => []TypeOK
  <1>1. ObjectsInv => TypeOK
    BY DEF ObjectsInv
  <1>2. QED
    BY <1>1, Invariance, PTL

\* A copy has no dictionary and no path in common with its original, however the two
\* are read and changed, until a setter is given what the other object holds; an
\* object that is constructed shares what its constructor was given and keeps
\* (obj/cim/lmiwbem_class.cpp:265-280 and the other copies, 66-68, 84-86, 370-392).
THEOREM CopiesApart == Spec => []Apart
  <1>1. ObjectsInv => Apart
    BY DEF ObjectsInv
  <1>2. QED
    BY <1>1, Invariance, PTL

\* Keys stay spelled the way they were first
\* (obj/lmiwbem_nocasedict.cpp:143-147, 237-265).
THEOREM KeysStaySpelled == Spec => SpellingKept
  <1> DEFINE Kept ==
        kind = "dict" =>
            LET dict == Content(1, "items")
            IN  \A n \in DOMAIN dict \cap DOMAIN dict' : dict'[n].spelling = dict[n].spelling
  <1>1. ObjectsInv /\ [Next]_vars => Kept
    <2> SUFFICES ASSUME ObjectsInv, [Next]_vars, kind = "dict" PROVE Kept
      OBVIOUS
    <2>1. ObjectsInv' /\ KeepsSpelling
      BY StepPreserves DEF StepOK
    <2>2. Holds /\ Holds'
      BY <2>1, DictHolds, PTL
    <2>3. kind' = "dict"
      BY KindStays
    <2>4. QED
      BY <2>1, <2>2, <2>3 DEF KeepsSpelling, Holds
  <1>2. QED
    BY <1>1, Invariance, PTL DEF Spec, SpellingKept

\* Iterators hand out a dictionary as it was, whatever happens to it meanwhile
\* (obj/lmiwbem_nocasedict.cpp:211-224, 369-454).
THEOREM IteratorsKeep == Spec => []IteratesSnapshot
  <1>1. Init => IterInv
    BY DEF Init, IterInv
  <1>2. ObjectsInv /\ IterInv /\ [Next]_vars => IterInv'
    BY IterPreserved
  <1>3. QED
    BY <1>1, <1>2, Invariance, IterInvMeans, PTL DEF Spec

=============================================================================
