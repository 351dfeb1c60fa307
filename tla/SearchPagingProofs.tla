------------------------- MODULE SearchPagingProofs -------------------------
(* Theorems about SearchPaging for any collection, any sort with any number  *)
(* of keys, any page size and any number of writes by others.                *)
EXTENDS SearchPaging, FiniteSetTheorems, WellFoundedInduction, TLAPS

\* The sort keys are fields of the documents, with a value or without, and $project
\* keeps them: what a page in order needs of the request.
SortKeysKept ==
    \A i \in Entries :
        /\ SortObj[i].field \in Projected \union {Id}
        /\ \A c \in Contents : SortObj[i].field # Id => SortObj[i].field \in DOMAIN c.key

\* Every sort key has a value in every document, and none is a reference that is
\* looked up: what paging with `after` needs of the data, too.
KeysCompare ==
    \A i \in Entries :
        /\ SortObj[i].field \notin Populated
        /\ \A c \in Contents : SortObj[i].field # Id => c.key[SortObj[i].field] # Null

-----------------------------------------------------------------------------
(* The sort order is a strict total order *)

\* A non-empty set of the first N indices has a smallest one.
LEMMA SmallestIndex ==
  ASSUME NEW N \in Nat, NEW T, T \subseteq 1..N, T # {}
  PROVE  \E n \in T : \A m \in T : n <= m
<1>. DEFINE U == {1..n : n \in T}
<1>1. U \subseteq FiniteSubsetsOf(1..N) /\ U # {}
  <2>1. ASSUME NEW n \in T PROVE 1..n \in FiniteSubsetsOf(1..N)
    BY FS_Interval DEF FiniteSubsetsOf
  <2>. QED  BY <2>1
<1>. HIDE DEF U
<1>2. PICK u \in U : \A v \in U : <<v, u>> \notin StrictSubsetOrdering(1..N)
  BY <1>1, FS_StrictSubsetOrderingWellFounded, WFMin
<1>3. PICK n \in T : u = 1..n
  BY DEF U
<1>4. ASSUME NEW m \in T, m < n PROVE FALSE
  <2>1. 1..m \in U
    BY DEF U
  <2>2. 1..m \subseteq 1..n /\ 1..m # 1..n
    BY <1>4
  <2>3. <<1..m, u>> \in StrictSubsetOrdering(1..N)
    BY <1>3, <2>2 DEF StrictSubsetOrdering
  <2>. QED  BY <1>2, <2>1, <2>3
<1>. QED  BY <1>4

\* The sort object has one direction per entry, and _id is among its keys.
LEMMA SortObjType ==
  /\ SortObj \in Seq([field : Nat, dir : {1, -1}])
  /\ \E i \in Entries : SortObj[i].field = Id
<1>. DEFINE s == Parse(Sort)
             Key == [field : Nat, dir : {1, -1}]
<1>1. s \in Seq(Key)
  <2>1. [field |-> DefaultField, dir |-> -1] \in Key
    BY PagingAssumption
  <2>. HIDE DEF Key
  <2>2. <<[field |-> DefaultField, dir |-> -1]>> \in Seq(Key)
    BY <2>1
  <2>3. Sort \in Seq(Key)
    BY PagingAssumption DEF Key
  <2>. QED  BY <2>2, <2>3 DEF Parse
<1>2. CASE \E i \in DOMAIN s : s[i].field = Id
  <2>. DEFINE t == [i \in DOMAIN s |-> [s[i] EXCEPT !.dir = IF s[i].field = Id THEN 1 ELSE @]]
  <2>1. SortObj = t
    BY <1>2 DEF SortObj
  <2>. HIDE DEF s
  <2>2. DOMAIN s = 1..Len(s) /\ Len(s) \in Nat
    BY <1>1
  <2>3. ASSUME NEW i \in DOMAIN s PROVE t[i] \in Key /\ t[i].field = s[i].field
    <3>1. s[i] \in Key
      <4>. HIDE DEF Key
      <4>. QED  BY <1>1
    <3>. QED  BY <3>1
  <2>4. t \in Seq(Key)
    <3>1. t \in [1..Len(s) -> Key]
      <4>. HIDE DEF Key
      <4>. QED  BY <2>2, <2>3
    <3>. HIDE DEF Key, t
    <3>. QED  BY <2>2, <3>1
  <2>. QED  BY <1>2, <2>1, <2>3, <2>4 DEF Entries
<1>3. CASE ~ \E i \in DOMAIN s : s[i].field = Id
  <2>1. SortObj = Append(s, [field |-> Id, dir |-> 1])
    BY <1>3 DEF SortObj
  <2>. QED  BY <1>1, <2>1 DEF Entries, Id
<1>. QED  BY <1>2, <1>3

\* A sort key of a document is a number, and a positive one if it is not missing.
LEMMA ValueType ==
  ASSUME SortKeysKept, NEW x \in Received, NEW i \in Entries
  PROVE  ValueAt(x, i) \in Nat /\ (KeysCompare => ValueAt(x, i) # Null)
<1>1. CASE SortObj[i].field = Id
  BY <1>1, PagingAssumption DEF ValueAt, Received, Null
<1>2. CASE SortObj[i].field # Id
  <2>1. x.content \in Contents
    BY DEF Received
  <2>2. x.content.key \in Seq(Nat) /\ SortObj[i].field \in DOMAIN x.content.key
    BY <1>2, <2>1, PagingAssumption DEF SortKeysKept
  <2>3. x.content.key[SortObj[i].field] \in Nat
    BY <2>2
  <2>. QED  BY <1>2, <2>1, <2>3 DEF ValueAt, KeysCompare, Null
<1>. QED  BY <1>1, <1>2

\* The entries are the indices of a sequence.
LEMMA EntriesType == Len(SortObj) \in Nat /\ Entries = 1..Len(SortObj)
  BY SortObjType DEF Entries

\* $sort follows the order of the query.
LEMMA SortedIsBefore ==
  ASSUME SortKeysKept, NEW x, NEW y
  PROVE  SortedBefore(x, y) <=> Before(x, y)
<1>1. \A i \in Entries : SortValueAt(x, i) = ValueAt(x, i) /\ SortValueAt(y, i) = ValueAt(y, i)
  BY DEF SortKeysKept, SortValueAt
<1>2. \A i \in Entries : \A j \in 1..(i - 1) : j \in Entries
  BY EntriesType
<1>. QED  BY <1>1, <1>2 DEF SortedBefore, Before

\* No document comes before itself.
LEMMA BeforeIrreflexive ==
  ASSUME SortKeysKept, NEW x \in Received
  PROVE  ~Before(x, x)
  BY ValueType DEF Before, Precedes

\* The order is transitive: the smaller of the two deciding keys decides.
LEMMA BeforeTransitive ==
  ASSUME SortKeysKept,
         NEW x \in Received, NEW y \in Received, NEW z \in Received,
         Before(x, y), Before(y, z)
  PROVE  Before(x, z)
<1>1. PICK i \in Entries : /\ \A k \in 1..(i - 1) : ValueAt(x, k) = ValueAt(y, k)
                           /\ Precedes(ValueAt(x, i), ValueAt(y, i), i)
  BY DEF Before
<1>2. PICK j \in Entries : /\ \A k \in 1..(j - 1) : ValueAt(y, k) = ValueAt(z, k)
                           /\ Precedes(ValueAt(y, j), ValueAt(z, j), j)
  BY DEF Before
<1>3. i \in Int /\ j \in Int
  BY EntriesType
<1>4. CASE i < j
  <2>1. ValueAt(y, i) = ValueAt(z, i)
    BY <1>2, <1>3, <1>4, EntriesType
  <2>2. \A k \in 1..(i - 1) : ValueAt(x, k) = ValueAt(z, k)
    BY <1>1, <1>2, <1>3, <1>4
  <2>. QED  BY <1>1, <2>1, <2>2 DEF Before
<1>5. CASE j < i
  <2>1. ValueAt(x, j) = ValueAt(y, j)
    BY <1>1, <1>3, <1>5, EntriesType
  <2>2. \A k \in 1..(j - 1) : ValueAt(x, k) = ValueAt(z, k)
    BY <1>1, <1>2, <1>3, <1>5
  <2>. QED  BY <1>2, <2>1, <2>2 DEF Before
<1>6. CASE i = j
  <2>1. \A k \in 1..(i - 1) : ValueAt(x, k) = ValueAt(z, k)
    BY <1>1, <1>2, <1>6
  <2>2. ValueAt(x, i) \in Nat /\ ValueAt(y, i) \in Nat /\ ValueAt(z, i) \in Nat
    BY ValueType
  <2>3. Precedes(ValueAt(x, i), ValueAt(z, i), i)
    BY <1>1, <1>2, <1>6, <2>2 DEF Precedes
  <2>. QED  BY <2>1, <2>3 DEF Before
<1>. QED  BY <1>3, <1>4, <1>5, <1>6

\* Two documents are ordered one way or the other: _id is a sort key.
LEMMA BeforeTotal ==
  ASSUME SortKeysKept,
         NEW x \in Received, NEW y \in Received, x.id # y.id
  PROVE  Before(x, y) \/ Before(y, x)
<1>. DEFINE D == {i \in Entries : ValueAt(x, i) # ValueAt(y, i)}
<1>1. D # {} /\ D \subseteq 1..Len(SortObj)
  BY SortObjType, EntriesType DEF ValueAt
<1>2. PICK i \in D : \A j \in D : i <= j
  BY <1>1, EntriesType, SmallestIndex
<1>3. i \in Entries /\ i \in Int /\ \A j \in 1..(i - 1) : j \in Entries /\ j < i /\ j \in Int
  BY EntriesType
<1>4. \A j \in 1..(i - 1) : ValueAt(x, j) = ValueAt(y, j)
  BY <1>2, <1>3
<1>5. ValueAt(x, i) \in Nat /\ ValueAt(y, i) \in Nat /\ ValueAt(x, i) # ValueAt(y, i)
  BY <1>3, ValueType
<1>6. Precedes(ValueAt(x, i), ValueAt(y, i), i) \/ Precedes(ValueAt(y, i), ValueAt(x, i), i)
  <2>1. SortObj[i] \in [field : Nat, dir : {1, -1}]
    <3>. DEFINE Key == [field : Nat, dir : {1, -1}]
    <3>1. SortObj \in Seq(Key)
      BY SortObjType
    <3>. HIDE DEF Key
    <3>2. SortObj[i] \in Key
      BY <1>3, <3>1 DEF Entries
    <3>. QED  BY <3>2 DEF Key
  <2>. QED  BY <1>5, <2>1 DEF Precedes
<1>. QED  BY <1>3, <1>4, <1>6 DEF Before

\* The filter built for `after` lets through exactly what comes after the
\* cursor in the sort order.
THEOREM CursorFilterIsExact ==
  ASSUME SortKeysKept, KeysCompare, NEW x \in Received, NEW y \in Received
  PROVE  AfterMatches(x, y) <=> Before(x, y)
<1>1. \A i \in Entries : ValueAt(x, i) # Null /\ ValueAt(y, i) # Null
  BY ValueType DEF Null
<1>2. Clauses(x) = Entries
  BY <1>1 DEF Clauses
<1>3. \A i \in Entries :
         ClauseMatches(x, y, i) <=>
            /\ \A j \in 1..(i - 1) : ValueAt(x, j) = ValueAt(y, j)
            /\ Precedes(ValueAt(x, i), ValueAt(y, i), i)
  <2>1. \A i \in Entries : ~Replaced(x, i)
    BY DEF Replaced, KeysCompare
  <2>2. \A i \in Entries : \A j \in 1..(i - 1) : j \in Entries
    BY EntriesType
  <2>. QED  BY <1>1, <2>1, <2>2 DEF ClauseMatches, Equal
<1>. QED  BY <1>2, <1>3 DEF AfterMatches, Before

-----------------------------------------------------------------------------
(* Pages *)

Comes(d, e) == Before(Doc(d), Doc(e))
Ahead(S, d) == {e \in S : Comes(e, d)}
Behind(S, d) == {e \in S : Comes(d, e)}

\* The documents of the collection have the type of what a client receives.
LEMMA DocType ==
  ASSUME TypeOK, NEW d \in Present
  PROVE  Doc(d) \in Received /\ Doc(d).id = d /\ Doc(d).content = docs[d] /\ d \in Ids
  BY DEF TypeOK, Present, Doc, Received

\* The sort order on the documents of the collection.
LEMMA ComesOrder ==
  ASSUME SortKeysKept, TypeOK
  PROVE  /\ \A d \in Present : ~Comes(d, d)
         /\ \A c, d, e \in Present : Comes(c, d) /\ Comes(d, e) => Comes(c, e)
         /\ \A d, e \in Present : d # e => Comes(d, e) \/ Comes(e, d)
  BY DocType, BeforeIrreflexive, BeforeTransitive, BeforeTotal DEF Comes

\* A set of documents is finite.
LEMMA FiniteDocs ==
  ASSUME NEW S, S \subseteq Present
  PROVE  IsFiniteSet(S) /\ Cardinality(S) \in Nat /\ S \subseteq Ids
<1>1. S \subseteq Ids
  BY DEF Present
<1>. QED  BY <1>1, PagingAssumption, FS_Subset, FS_CardinalityType

\* A set of documents has a first and a last one.
LEMMA FirstAndLast ==
  ASSUME SortKeysKept, TypeOK, NEW S, S \subseteq Present, S # {}
  PROVE  /\ \E d \in S : Ahead(S, d) = {}
         /\ \E d \in S : \A e \in S \ {d} : Comes(e, d)
<1>1. IsWellFoundedOn(StrictSubsetOrdering(Ids), FiniteSubsetsOf(Ids))
  BY FS_StrictSubsetOrderingWellFounded
<1>2. \E d \in S : Ahead(S, d) = {}
  <2>. DEFINE U == {Ahead(S, d) : d \in S}
  <2>1. ASSUME NEW d \in S PROVE Ahead(S, d) \in FiniteSubsetsOf(Ids)
    <3>1. Ahead(S, d) \subseteq Present
      BY DEF Ahead
    <3>. QED  BY <3>1, FiniteDocs DEF FiniteSubsetsOf
  <2>2. U \subseteq FiniteSubsetsOf(Ids) /\ U # {}
    BY <2>1
  <2>3. PICK u \in U : \A v \in U : <<v, u>> \notin StrictSubsetOrdering(Ids)
    <3>. HIDE DEF U
    <3>. QED  BY <1>1, <2>2, WFMin
  <2>4. PICK d \in S : u = Ahead(S, d)
    OBVIOUS
  <2>5. ASSUME NEW e \in Ahead(S, d) PROVE FALSE
    <3>1. e \in S /\ Comes(e, d) /\ d \in Present /\ e \in Present
      BY DEF Ahead
    <3>2. Ahead(S, e) \subseteq Ahead(S, d)
      BY <3>1, ComesOrder DEF Ahead
    <3>3. e \notin Ahead(S, e)
      BY <3>1, ComesOrder DEF Ahead
    <3>4. Ahead(S, d) \subseteq Ids
      BY <3>1 DEF Ahead, Present
    <3>5. <<Ahead(S, e), u>> \in StrictSubsetOrdering(Ids)
      BY <2>4, <3>2, <3>3, <3>4 DEF StrictSubsetOrdering
    <3>. QED  BY <2>3, <3>1, <3>5
  <2>. QED  BY <2>5
<1>3. \E d \in S : \A e \in S \ {d} : Comes(e, d)
  <2>. DEFINE U == {Behind(S, d) : d \in S}
  <2>1. ASSUME NEW d \in S PROVE Behind(S, d) \in FiniteSubsetsOf(Ids)
    <3>1. Behind(S, d) \subseteq Present
      BY DEF Behind
    <3>. QED  BY <3>1, FiniteDocs DEF FiniteSubsetsOf
  <2>2. U \subseteq FiniteSubsetsOf(Ids) /\ U # {}
    BY <2>1
  <2>3. PICK u \in U : \A v \in U : <<v, u>> \notin StrictSubsetOrdering(Ids)
    <3>. HIDE DEF U
    <3>. QED  BY <1>1, <2>2, WFMin
  <2>4. PICK d \in S : u = Behind(S, d)
    OBVIOUS
  <2>5. ASSUME NEW e \in S \ {d}, ~Comes(e, d) PROVE FALSE
    <3>1. Comes(d, e) /\ d \in Present /\ e \in Present
      BY <2>5, ComesOrder
    <3>2. Behind(S, e) \subseteq Behind(S, d)
      BY <3>1, ComesOrder DEF Behind
    <3>3. e \in Behind(S, d) /\ e \notin Behind(S, e)
      BY <3>1, ComesOrder DEF Behind
    <3>4. Behind(S, d) \subseteq Ids
      BY <3>1 DEF Behind, Present
    <3>5. <<Behind(S, e), u>> \in StrictSubsetOrdering(Ids)
      BY <2>4, <3>2, <3>3, <3>4 DEF StrictSubsetOrdering
    <3>. QED  BY <2>3, <3>5
  <2>. QED  BY <2>4, <2>5
<1>. QED  BY <1>2, <1>3

\* The first documents of a set are a first part of it in the sort order, with
\* something in it if there is anything, and all of it if that fits.
LEMMA FirstOnes ==
  ASSUME SortKeysKept, TypeOK, NEW S, S \subseteq Present, Limit # 0,
         NEW P, P = {d \in S : Cardinality(Ahead(S, d)) < Limit}
  PROVE  /\ P \subseteq S
         /\ \A d \in P, e \in S : Comes(e, d) => e \in P
         /\ Cardinality(S) <= Limit => P = S
         /\ S # {} => P # {}
<1>1. Limit \in Nat
  BY PagingAssumption
<1>2. \A d \in S : Cardinality(Ahead(S, d)) \in Nat
  BY FiniteDocs DEF Ahead
<1>3. ASSUME NEW d \in P, NEW e \in S, Comes(e, d)
      PROVE  e \in P
  <2>1. d \in S /\ d \in Present /\ e \in Present
    OBVIOUS
  <2>2. Ahead(S, e) \subseteq Ahead(S, d)
    BY <1>3, <2>1, ComesOrder DEF Ahead
  <2>3. IsFiniteSet(Ahead(S, d))
    BY FiniteDocs DEF Ahead
  <2>4. Cardinality(Ahead(S, e)) <= Cardinality(Ahead(S, d))
    BY <2>2, <2>3, FS_Subset
  <2>. QED  BY <1>1, <1>2, <2>1, <2>4
<1>4. ASSUME Cardinality(S) <= Limit, NEW d \in S PROVE d \in P
  <2>1. Ahead(S, d) \subseteq S /\ d \notin Ahead(S, d)
    BY ComesOrder DEF Ahead
  <2>2. Cardinality(Ahead(S, d)) <= Cardinality(S) /\ Cardinality(Ahead(S, d)) # Cardinality(S)
    BY <2>1, FiniteDocs, FS_Subset
  <2>. QED  BY <1>1, <1>2, <1>4, <2>2, FiniteDocs
<1>5. ASSUME S # {} PROVE P # {}
  <2>1. PICK d \in S : Ahead(S, d) = {}
    BY <1>5, FirstAndLast
  <2>2. Cardinality(Ahead(S, d)) = 0
    BY <2>1, FS_EmptySet
  <2>. QED  BY <1>1, <2>2
<1>. QED  BY <1>3, <1>4, <1>5

\* So is a page that skips nothing.
LEMMA PageIsPrefix ==
  ASSUME SortKeysKept, TypeOK, NEW S, S \subseteq Present,
         after = None => page = 0
  PROVE  /\ PageOf(S) \subseteq S
         /\ \A d \in PageOf(S), e \in S : Comes(e, d) => e \in PageOf(S)
         /\ Cardinality(S) <= Limit => PageOf(S) = S
         /\ S # {} => PageOf(S) # {}
<1>1. Limit \in Nat /\ page \in Nat
  BY PagingAssumption DEF TypeOK
<1>2. CASE Limit = 0
  BY <1>2 DEF PageOf
<1>3. CASE Limit # 0
  <2>1. \A d \in S : Cardinality(Ahead(S, d)) \in Nat
    BY FiniteDocs DEF Ahead
  <2>2. Skip = 0
    BY <1>1 DEF Skip
  <2>3. PageOf(S) = {d \in S : /\ Cardinality(Ahead(S, d)) >= Skip
                               /\ Cardinality(Ahead(S, d)) < Skip + Limit}
    BY <1>3, SortedIsBefore DEF PageOf, Ahead, Comes
  <2>4. PageOf(S) = {d \in S : Cardinality(Ahead(S, d)) < Limit}
    BY <1>1, <2>1, <2>2, <2>3
  <2>. QED  BY <1>3, <2>4, FirstOnes
<1>. QED  BY <1>2, <1>3

-----------------------------------------------------------------------------
(* Types *)

\* The initial values have their types.
LEMMA InitType == Init => TypeOK
<1>1. Init => numbered \in BOOLEAN /\ vanished \in BOOLEAN
  BY Zenon DEF Init
<1>2. ASSUME Init
      PROVE  /\ docs \in [Ids -> Contents \union {None}]
             /\ writes \in 0..MaxWrites /\ page \in 0..MaxPage /\ total \in Nat
             /\ status \in {"idle", "asked", "aggregate", "next", "done"}
             /\ after \in Ids \union {None}
             /\ last \in Received \union {None} /\ cursor \in Received \union {None}
             /\ got \subseteq Ids /\ steady \subseteq Ids
             /\ seen \in [Ids -> 0..2]
  BY <1>2, PagingAssumption DEF Init
<1>. QED  BY <1>1, <1>2 DEF TypeOK

\* One step keeps every variable in its type; for the page received it needs
\* that a page of documents has a last one.
LEMMA StepType ==
  ASSUME SortKeysKept, TypeOK, [Next]_vars
  PROVE  TypeOK'
<1>. USE PagingAssumption
<1>1. CASE Search
  BY <1>1 DEF Search, TypeOK, Wanted, Present, requestVars, clientVars
<1>2. CASE SearchNext
  <2>1. after' \in Ids \union {None} /\ page' \in 0..MaxPage
    BY <1>2 DEF SearchNext, TypeOK, Received
  <2>2. numbered' \in BOOLEAN
    BY <1>2, Zenon DEF SearchNext, TypeOK
  <2>. QED  BY <1>2, <2>1, <2>2 DEF SearchNext, TypeOK, clientVars
<1>3. CASE FindLast
  <2>1. last' \in Received \union {None}
    BY <1>3 DEF FindLast, TypeOK, Doc, Received
  <2>2. vanished' \in BOOLEAN
    BY <1>3, Zenon DEF FindLast
  <2>. QED  BY <1>3, <2>1, <2>2 DEF FindLast, TypeOK, requestVars, clientVars
<1>4. CASE NoCursor
  BY <1>4 DEF NoCursor, TypeOK, requestVars, clientVars
<1>5. CASE Aggregate
  <2>. DEFINE S == Matching
              P == PageOf(S)
  <2>1. S \subseteq Present /\ P \subseteq S
    BY DEF Matching, Wanted, PageOf
  <2>2. P # {} => LastOf(P) \in P
    <3>. HIDE DEF P
    <3>1. ASSUME P # {} PROVE \E d \in P : \A e \in P \ {d} : Comes(e, d)
      BY <2>1, <3>1, FirstAndLast
    <3>. QED  BY <3>1, SortedIsBefore DEF LastOf, Comes
  <2>3. cursor' \in Received \union {None}
    BY <1>5, <2>1, <2>2, DocType DEF Aggregate
  <2>4. total' \in Nat
    <3>1. Cardinality(S) \in Nat
      BY <2>1, FiniteDocs
    <3>2. total' = (IF after = None THEN 0 ELSE Limit * page) + Cardinality(S)
      BY <1>5 DEF Aggregate, TotalOf
    <3>3. Limit * page \in Nat
      BY DEF TypeOK
    <3>. HIDE DEF S
    <3>. QED  BY <3>1, <3>2, <3>3
  <2>5. seen' \in [Ids -> 0..2]
    BY <1>5 DEF Aggregate, TypeOK
  <2>6. got' \subseteq Ids
    BY <1>5, <2>1 DEF Aggregate, Present
  <2>. QED  BY <1>5, <2>3, <2>4, <2>5, <2>6 DEF Aggregate, TypeOK, requestVars
<1>6. ASSUME NEW d \in Ids, NEW c \in Contents \union {None}, Write(d, c) PROVE TypeOK'
  BY <1>6 DEF Write, TypeOK, requestVars, clientVars
<1>7. CASE UNCHANGED vars
  BY <1>7 DEF vars, TypeOK, requestVars, clientVars
<1>. QED  BY <1>1, <1>2, <1>3, <1>4, <1>5, <1>6, <1>7 DEF Next

\* Every variable of SearchPaging has its type, whatever is written meanwhile.
THEOREM TypeCorrect ==
  ASSUME SortKeysKept
  PROVE  Spec => []TypeOK
<1>1. TypeOK /\ [Next]_vars => TypeOK'
  BY StepType
<1>. QED  BY <1>1, InitType, PTL DEF Spec

-----------------------------------------------------------------------------
(* The order *)

\* If $project keeps the sort keys, the first page and every page asked for with
\* `after` is in the order of the query, also of documents without some of them.
THEOREM PagesInOrder ==
  ASSUME SortKeysKept
  PROVE  Spec => PagesAreSorted
<1>. DEFINE InOrder == seen' # seen /\ (after # None \/ page = 0)
               => \A d \in got', e \in Matching \ got' : ~Before(Doc(e), Doc(d))
            S == Matching
<1>1. ASSUME TypeOK, [Next]_vars PROVE [InOrder]_vars
  <2>1. CASE Aggregate /\ (after = None => page = 0)
    <3>1. S \subseteq Present
      BY DEF Matching, Wanted
    <3>2. got' = PageOf(S)
      BY <2>1 DEF Aggregate
    <3>3. \A d \in PageOf(S), e \in S : Comes(e, d) => e \in PageOf(S)
      <4>. HIDE DEF S
      <4>. QED  BY <1>1, <2>1, <3>1, PageIsPrefix
    <3>. QED  BY <3>2, <3>3 DEF Comes
  <2>2. CASE Aggregate /\ after = None /\ page # 0
    BY <2>2
  <2>3. CASE ~Aggregate
    BY <1>1, <2>3 DEF Next, Search, SearchNext, FindLast, NoCursor, Write, clientVars, vars
  <2>. QED  BY <2>1, <2>2, <2>3
<1>. QED  BY <1>1, TypeCorrect, PTL DEF PagesAreSorted, Spec

-----------------------------------------------------------------------------
(* The total *)

\* Documents have every rank below their number: ranks are a bijection.
LEMMA EveryRank ==
  ASSUME SortKeysKept, TypeOK, NEW S, S \subseteq Present,
         NEW n \in Nat, n < Cardinality(S)
  PROVE  \E d \in S : Cardinality(Ahead(S, d)) = n
<1>. DEFINE c == Cardinality(S)
            rank == [d \in S |-> Cardinality(Ahead(S, d))]
            T == 0..(c - 1)
<1>1. IsFiniteSet(S) /\ c \in Nat
  BY FiniteDocs
<1>2. ASSUME NEW d \in S
      PROVE  Cardinality(Ahead(S, d)) \in Nat /\ Cardinality(Ahead(S, d)) < c
  <2>1. Ahead(S, d) \subseteq S /\ d \notin Ahead(S, d)
    BY ComesOrder DEF Ahead
  <2>2. Cardinality(Ahead(S, d)) \in Nat
    BY <2>1, FiniteDocs
  <2>3. Cardinality(Ahead(S, d)) <= c /\ Cardinality(Ahead(S, d)) # c
    BY <1>1, <2>1, FS_Subset
  <2>. QED  BY <1>1, <2>2, <2>3
<1>3. ASSUME NEW d \in S, NEW e \in S, Comes(d, e)
      PROVE  Cardinality(Ahead(S, d)) # Cardinality(Ahead(S, e))
  <2>1. Ahead(S, d) \subseteq Ahead(S, e) /\ d \in Ahead(S, e) /\ d \notin Ahead(S, d)
    BY <1>3, ComesOrder DEF Ahead
  <2>2. IsFiniteSet(Ahead(S, e))
    BY FiniteDocs DEF Ahead
  <2>. QED  BY <2>1, <2>2, FS_Subset
<1>4. rank \in [S -> T]
  BY <1>1, <1>2
<1>5. \A d, e \in S : rank[d] = rank[e] => d = e
  BY <1>3, ComesOrder
<1>6. rank \in Injection(S, T)
  BY <1>4, <1>5 DEF Injection, IsInjective
<1>7. IsFiniteSet(T) /\ Cardinality(T) = c
  <2>1. IsFiniteSet(T) /\ Cardinality(T) = IF 0 > c - 1 THEN 0 ELSE c - 1 - 0 + 1
    <3>1. 0 \in Int /\ c - 1 \in Int
      BY <1>1
    <3>. HIDE DEF c
    <3>. QED  BY <3>1, FS_Interval
  <2>. HIDE DEF c, T
  <2>. QED  BY <1>1, <2>1
<1>8. rank \in Surjection(S, T)
  <2>. HIDE DEF rank, T
  <2>. QED  BY <1>6, <1>7, FS_Injection
<1>9. n \in T
  BY <1>1
<1>10. PICK d \in S : rank[d] = n
  <2>. HIDE DEF rank, T
  <2>. QED  BY <1>8, <1>9 DEF Surjection
<1>. QED  BY <1>10

\* The last document of a full page: everything up to it, it included, is what
\* was skipped and the page.
LEMMA LastOfFullPage ==
  ASSUME SortKeysKept, TypeOK, NEW S, S \subseteq Present, Limit # 0,
         Skip + Limit < Cardinality(S)
  PROVE  /\ PageOf(S) # {} /\ LastOf(PageOf(S)) \in PageOf(S)
         /\ Cardinality({d \in S : ~Comes(LastOf(PageOf(S)), d)}) = Skip + Limit
<1>. DEFINE P == PageOf(S)
            l == LastOf(P)
            n == Skip + Limit - 1
<1>1. Limit \in Nat \ {0} /\ Skip \in Nat /\ n \in Nat /\ n < Cardinality(S)
  <2>1. Limit \in Nat \ {0} /\ page \in Nat
    BY PagingAssumption DEF TypeOK
  <2>2. Skip \in Nat
    BY <2>1 DEF Skip
  <2>3. Cardinality(S) \in Nat
    BY FiniteDocs
  <2>. QED  BY <2>1, <2>2, <2>3
<1>2. P = {d \in S : /\ Cardinality(Ahead(S, d)) >= Skip
                     /\ Cardinality(Ahead(S, d)) < Skip + Limit}
  BY SortedIsBefore DEF PageOf, Ahead, Comes
<1>3. \A d \in S : Cardinality(Ahead(S, d)) \in Nat /\ IsFiniteSet(Ahead(S, d))
  BY FiniteDocs DEF Ahead
<1>4. PICK d \in S : Cardinality(Ahead(S, d)) = n
  <2>. HIDE DEF n
  <2>. QED  BY <1>1, EveryRank
<1>5. d \in P
  BY <1>1, <1>2, <1>4
<1>. HIDE DEF P
<1>6. l \in P /\ \A e \in P \ {l} : Comes(e, l)
  <2>1. \E m \in P : \A e \in P \ {m} : Comes(e, m)
    <3>1. P \subseteq Present /\ P # {}
      BY <1>2, <1>5
    <3>. QED  BY <3>1, FirstAndLast
  <2>. QED  BY <2>1, SortedIsBefore DEF LastOf, Comes
<1>. HIDE DEF l
<1>7. Cardinality(Ahead(S, l)) = n
  <2>1. l \in S /\ l \in Present /\ d \in Present
    BY <1>2, <1>6
  <2>2. CASE d = l
    BY <1>4, <2>2
  <2>3. CASE d # l
    <3>1. Comes(d, l)
      BY <1>5, <1>6, <2>3
    <3>2. Ahead(S, d) \subseteq Ahead(S, l)
      BY <2>1, <3>1, ComesOrder DEF Ahead
    <3>3. Cardinality(Ahead(S, d)) <= Cardinality(Ahead(S, l))
      BY <1>3, <2>1, <3>2, FS_Subset
    <3>4. Cardinality(Ahead(S, l)) < Skip + Limit
      BY <1>2, <1>6
    <3>. QED  BY <1>1, <1>3, <1>4, <2>1, <3>3, <3>4
  <2>. QED  BY <2>2, <2>3
<1>8. {e \in S : ~Comes(l, e)} = Ahead(S, l) \union {l} /\ l \notin Ahead(S, l)
  <2>1. l \in S /\ \A e \in S : e \in Present
    BY <1>2, <1>6
  <2>. QED  BY <2>1, ComesOrder DEF Ahead
<1>9. Cardinality(Ahead(S, l) \union {l}) = n + 1
  BY <1>2, <1>3, <1>6, <1>7, <1>8, FS_AddElement
<1>10. n + 1 = Skip + Limit
  BY <1>1
<1>. QED  BY <1>5, <1>6, <1>8, <1>9, <1>10 DEF l, P

\* The client's filter is not an $or, pages have a limit, and the sort keys have
\* values; it may go by `after` or by page number.
Countable == ~OrFilter /\ Limit # 0 /\ SortKeysKept /\ KeysCompare

\* The wanted documents a cursor does not precede.
UpTo(x) == {d \in Wanted : ~Before(x, Doc(d))}

\* Without writes, the pages before the one asked for, with `after` or by number,
\* are full, and the cursor comes right after them.
CountInv ==
    /\ writes = 0 => /\ status = "idle" => after = None /\ cursor = None
                     /\ cursor # None => cursor.id \in Present /\ cursor = Doc(cursor.id)
                     /\ status \in {"asked", "aggregate"} =>
                           /\ after # None => cursor # None /\ after = cursor.id
                           /\ cursor # None => Cardinality(UpTo(cursor)) = Limit * page
                     /\ status = "aggregate" => last = IF after = None THEN None ELSE cursor
                     /\ status = "next" =>
                           /\ cursor # None
                           /\ Cardinality(UpTo(cursor)) = Limit * page + Limit
    /\ TotalIsCount

\* A page's total is the number of matching documents, and before a next page it
\* is full.
LEMMA AggregateCounts ==
  ASSUME Countable, TypeOK, CountInv, Aggregate PROVE CountInv'
<1>. USE PagingAssumption DEF Countable
<1>. DEFINE S == Matching
            P == PageOf(S)
            l == LastOf(P)
<1>1. /\ docs' = docs /\ writes' = writes /\ page' = page /\ status = "aggregate"
      /\ status' = IF NoNext(TotalOf(S)) THEN "done" ELSE "next"
      /\ cursor' = IF P = {} THEN None ELSE Doc(l)
      /\ total' = TotalOf(S)
  BY DEF Aggregate, requestVars
<1>. SUFFICES ASSUME writes = 0 PROVE CountInv'
  BY <1>1 DEF CountInv, TotalIsCount
<1>2. /\ last = IF after = None THEN None ELSE cursor
      /\ after # None => /\ cursor # None /\ cursor \in Received /\ last # None
                         /\ Cardinality(UpTo(cursor)) = Limit * page
  BY <1>1 DEF CountInv, TypeOK
<1>3. S = {d \in Wanted : after = None \/ Before(cursor, Doc(d))}
  <2>1. \A d \in Wanted : d \in Present /\ Doc(d) \in Received
    BY DocType DEF Wanted
  <2>. QED  BY <1>2, <2>1, CursorFilterIsExact DEF Matching
<1>4. Wanted \subseteq Present /\ S \subseteq Wanted /\ S \subseteq Present
  BY <1>3 DEF Wanted
<1>5. IsFiniteSet(Wanted) /\ Cardinality(Wanted) \in Nat /\ Cardinality(S) \in Nat
  BY <1>4, FiniteDocs
<1>6. page \in Nat /\ Limit \in Nat \ {0} /\ Limit * page \in Nat
      /\ (page + 1) * Limit = Limit * page + Limit
  BY DEF TypeOK
<1>. HIDE DEF S
<1>7. TotalOf(S) = Cardinality(Wanted)
  <2>1. CASE after = None
    <3>1. S = Wanted
      BY <1>3, <2>1
    <3>. QED  BY <1>5, <2>1, <3>1 DEF TotalOf
  <2>2. CASE after # None
    <3>1. UpTo(cursor) = Wanted \ S
      BY <1>3, <2>2 DEF UpTo
    <3>2. Wanted \intersect S = S
      BY <1>4
    <3>3. Cardinality(Wanted \ S) = Cardinality(Wanted) - Cardinality(S)
      BY <1>5, <3>2, FS_Difference
    <3>. QED  BY <1>2, <1>5, <1>6, <2>2, <3>1, <3>3 DEF TotalOf
  <2>. QED  BY <2>1, <2>2
<1>8. Wanted' = Wanted /\ Present' = Present /\ \A d \in Ids : Doc(d)' = Doc(d)
  BY <1>1 DEF Wanted, Present, Doc
<1>9. TotalIsCount'
  BY <1>1, <1>7, <1>8 DEF TotalIsCount
<1>10. ASSUME P # {}
       PROVE  l \in P /\ l \in Present /\ Doc(l) \in Received /\ Doc(l) # None /\ Doc(l).id = l
  <2>1. P \subseteq Present
    BY <1>4 DEF PageOf
  <2>. HIDE DEF P
  <2>2. \E d \in P : \A e \in P \ {d} : Comes(e, d)
    BY <1>10, <2>1, FirstAndLast
  <2>3. l \in P
    BY <2>2, SortedIsBefore DEF LastOf, Comes
  <2>4. Doc(l) \in Received /\ Doc(l).id = l
    BY <2>1, <2>3, DocType
  <2>. QED  BY <2>1, <2>3, <2>4 DEF Received
<1>11. (cursor # None => cursor.id \in Present /\ cursor = Doc(cursor.id))'
  <2>1. ASSUME cursor' # None PROVE P # {} /\ cursor' = Doc(l)
    BY <1>1, <2>1
  <2>. HIDE DEF P, l
  <2>2. ASSUME cursor' # None
        PROVE  cursor'.id = l /\ l \in Present /\ cursor' = [id |-> l, content |-> docs'[l]]
    BY <1>1, <1>10, <2>1, <2>2 DEF Doc
  <2>. QED  BY <1>8, <2>2 DEF Doc
<1>12. ASSUME status' = "next"
       PROVE  /\ cursor' # None
              /\ Cardinality(UpTo(cursor)') = Limit * page + Limit
  <2>1. Limit * page + Limit < TotalOf(S)
    BY <1>1, <1>5, <1>6, <1>7, <1>12 DEF NoNext
  <2>2. Skip + Limit < Cardinality(S)
    BY <1>5, <1>6, <2>1 DEF TotalOf, Skip
  <2>3. /\ P # {} /\ l \in P
        /\ Cardinality({d \in S : ~Comes(l, d)}) = Skip + Limit
    BY <1>4, <2>2, LastOfFullPage
  <2>. DEFINE U == {d \in S : ~Comes(l, d)}
  <2>4. l \in S
    BY <2>3 DEF PageOf
  <2>. HIDE DEF P, l
  <2>5. cursor' = Doc(l)
    BY <1>1, <2>3
  <2>6. UpTo(cursor)' = {d \in Wanted : ~Comes(l, d)}
    <3>1. \A d \in Wanted : Doc(d)' = Doc(d)
      BY <1>4, <1>8 DEF Present
    <3>. QED  BY <1>8, <2>5, <3>1 DEF UpTo, Comes
  <2>7. CASE after = None
    <3>1. UpTo(cursor)' = U /\ Skip = Limit * page
      BY <1>3, <1>6, <2>6, <2>7 DEF Skip
    <3>. QED  BY <1>10, <2>3, <2>5, <3>1
  <2>8. CASE after # None
    <3>1. UpTo(cursor)' = UpTo(cursor) \union U
      <4>1. ASSUME NEW d \in Wanted, ~Before(cursor, Doc(d)) PROVE ~Comes(l, d)
        <5>1. Doc(l) \in Received /\ Doc(d) \in Received
          BY <1>4, <2>4, DocType
        <5>2. Before(cursor, Doc(l))
          BY <1>3, <2>4, <2>8
        <5>. QED  BY <1>2, <2>8, <4>1, <5>1, <5>2, BeforeTransitive DEF Comes
      <4>. QED  BY <1>3, <2>6, <2>8, <4>1 DEF UpTo
    <3>2. UpTo(cursor) \intersect U = {}
      BY <1>3, <2>8 DEF UpTo
    <3>3. IsFiniteSet(UpTo(cursor)) /\ IsFiniteSet(U)
      BY <1>4, FiniteDocs DEF UpTo
    <3>4. Cardinality(UpTo(cursor) \union U)
             = Cardinality(UpTo(cursor)) + Cardinality(U) - Cardinality(UpTo(cursor) \intersect U)
      <4>. HIDE DEF U
      <4>. QED  BY <3>3, FS_Union
    <3>5. Cardinality(U) = Limit /\ Cardinality(UpTo(cursor) \intersect U) = 0
      <4>1. Skip = 0
        BY <2>8 DEF Skip
      <4>2. Cardinality(U) = Limit
        BY <1>6, <2>3, <4>1
      <4>. HIDE DEF U
      <4>. QED  BY <3>2, <4>2, FS_EmptySet
    <3>. HIDE DEF U
    <3>6. Cardinality(UpTo(cursor)') = Limit * page + Limit
      BY <1>2, <1>6, <2>8, <3>1, <3>4, <3>5
    <3>. QED  BY <1>10, <2>3, <2>5, <3>6 DEF P, l
  <2>. QED  BY <2>7, <2>8
<1>13. status' \in {"done", "next"}
  BY <1>1
<1>. HIDE DEF P, l
<1>. QED  BY <1>1, <1>9, <1>11, <1>12, <1>13 DEF CountInv

\* Every other step of the client or the server keeps the count.
LEMMA StepCounts == ASSUME Countable, TypeOK, CountInv, [Next]_vars PROVE CountInv'
<1>. USE DEF requestVars, clientVars
<1>1. CASE Search
  BY <1>1 DEF Search, CountInv, TotalIsCount, UpTo, Wanted, Present, Doc
<1>2. CASE SearchNext
  <2>1. page' = page + 1 /\ Limit * (page + 1) = Limit * page + Limit
    BY <1>2, PagingAssumption DEF SearchNext, TypeOK
  <2>. QED  BY <1>2, <2>1 DEF SearchNext, CountInv, TotalIsCount, UpTo, Wanted, Present, Doc
<1>3. CASE FindLast
  BY <1>3 DEF FindLast, CountInv, TotalIsCount, UpTo, Wanted, Present, Doc
<1>4. CASE NoCursor
  BY <1>4 DEF NoCursor, CountInv, TotalIsCount, UpTo, Wanted, Present, Doc
<1>5. CASE Aggregate
  BY <1>5, AggregateCounts
<1>6. ASSUME NEW d \in Ids, NEW c \in Contents \union {None}, Write(d, c) PROVE CountInv'
  <2>1. writes' # 0
    BY <1>6, PagingAssumption DEF Write, TypeOK
  <2>. QED  BY <2>1 DEF CountInv, TotalIsCount
<1>7. CASE UNCHANGED vars
  BY <1>7 DEF vars, CountInv, TotalIsCount, UpTo, Wanted, Present, Doc
<1>. QED  BY <1>1, <1>2, <1>3, <1>4, <1>5, <1>6, <1>7 DEF Next

\* Nothing was counted yet.
LEMMA InitCounts == Init => CountInv
  BY DEF Init, CountInv, TotalIsCount

\* Without writes, pagination.total is the number of matching documents on every
\* page, whether the client goes by `after` or by page number.
THEOREM TotalIsAlwaysCount ==
  ASSUME Countable
  PROVE  Spec => []TotalIsCount
<1>1. TypeOK /\ [Next]_vars => TypeOK'
  BY StepType DEF Countable
<1>2. TypeOK /\ CountInv /\ [Next]_vars => CountInv'
  BY StepCounts
<1>3. CountInv => TotalIsCount
  BY DEF CountInv
<1>. QED  BY <1>1, <1>2, <1>3, InitType, InitCounts, PTL DEF Spec

-----------------------------------------------------------------------------
(* Nothing is skipped or repeated *)

\* The client's filter is not an $or, nobody changes the document it received
\* last except to delete it, and the sort keys have values to compare.
Sound == ~OrFilter /\ CursorStays /\ SortKeysKept /\ KeysCompare

\* The request names the document received last, and findById returns it or finds
\* nothing, or it is for a page by its number.
CursorInv ==
    /\ status = "idle" => after = None /\ cursor = None /\ page = 0
    /\ status \in {"asked", "aggregate"} =>
          IF after = None THEN IF cursor = None THEN page = 0 ELSE numbered
          ELSE cursor # None /\ after = cursor.id
    /\ status = "aggregate" =>
          \/ last = IF after = None THEN None ELSE cursor
          \/ last = None /\ vanished
    /\ status = "next" => cursor # None
    /\ cursor # None /\ cursor.id \in Present => cursor = Doc(cursor.id)

\* Before the last page the untouched documents that the cursor does not precede
\* were received, and as long as the cursor was found no other ones.
ReceivedInv ==
    /\ steady \subseteq Wanted
    /\ status = "idle" => \A d \in Ids : seen[d] = 0
    /\ Undisturbed /\ status # "done" =>
          \A d \in steady : cursor # None /\ ~Before(cursor, Doc(d)) => seen[d] >= 1
    /\ Undisturbed /\ ~vanished /\ status # "done" =>
          \A d \in steady :
             seen[d] = IF cursor # None /\ ~Before(cursor, Doc(d)) THEN 1 ELSE 0
    /\ NothingSkipped /\ SteadySeenOnce

\* Both hold at the start.
LEMMA InitSound == Init => CursorInv /\ ReceivedInv
  BY DEF Init, CursorInv, ReceivedInv, NothingSkipped, SteadySeenOnce

\* A write leaves the other documents alone, and with them the cursor.
LEMMA WriteKeeps ==
  ASSUME Sound, TypeOK, CursorInv, ReceivedInv,
         NEW d \in Ids, NEW c \in Contents \union {None}, Write(d, c)
  PROVE  CursorInv' /\ ReceivedInv'
<1>1. /\ \A e \in Ids \ {d} : docs'[e] = docs[e]
      /\ \A e \in Ids \ {d} : Doc(e)' = Doc(e) /\ (e \in Present => e \in Present')
                                               /\ (e \in Wanted => e \in Wanted')
  BY DEF Write, TypeOK, Doc, Present, Wanted
<1>2. cursor # None => cursor.id \in Ids /\ (cursor.id # d \/ cursor.id \notin Present')
  BY DEF Write, Sound, TypeOK, Received, Present
<1>3. CursorInv'
  <2>1. (cursor # None /\ cursor.id \in Present => cursor = Doc(cursor.id))'
    <3>1. cursor # None /\ cursor.id # d /\ cursor.id \in Present' => cursor.id \in Present
      BY <1>1, <1>2 DEF Present
    <3>. QED  BY <1>1, <1>2, <3>1 DEF CursorInv, Write, clientVars
  <2>. QED  BY <2>1 DEF CursorInv, Write, requestVars, clientVars
<1>4. ReceivedInv'
  <2>1. /\ status' = status /\ cursor' = cursor /\ seen' = seen /\ steady' = steady \ {d}
        /\ status # "done" /\ vanished' = vanished
    BY DEF Write, clientVars
  <2>2. \A e \in steady' : e \in Ids \ {d} /\ e \in steady
    BY <2>1 DEF TypeOK
  <2>3. Undisturbed' => Undisturbed
    BY PagingAssumption DEF Write, TypeOK, Undisturbed, requestVars
  <2>. QED  BY <1>1, <2>1, <2>2, <2>3 DEF ReceivedInv, NothingSkipped, SteadySeenOnce
<1>. QED  BY <1>3, <1>4

\* What the client has not received yet, if nobody wrote.
Rest == {d \in Wanted : cursor = None \/ Before(cursor, Doc(d))}

\* A page by number, without writes, is the first part of what the client has not
\* received yet: the pages before were full.
LEMMA NumberedPage ==
  ASSUME Countable, TypeOK, after = None, cursor # None,
         Cardinality(UpTo(cursor)) = Limit * page
  PROVE  /\ PageOf(Wanted) = {d \in Rest : Cardinality(Ahead(Rest, d)) < Limit}
         /\ Cardinality(Wanted) = Limit * page + Cardinality(Rest)
<1>. DEFINE U == UpTo(cursor)
<1>1. /\ Limit \in Nat \ {0} /\ page \in Nat /\ Limit * page \in Nat
      /\ Skip = Limit * page /\ cursor \in Received /\ SortKeysKept
  BY PagingAssumption DEF TypeOK, Countable, Skip
<1>2. Wanted \subseteq Present /\ U \subseteq Present /\ Rest \subseteq Present
      /\ U = Wanted \ Rest /\ Wanted = U \union Rest /\ U \intersect Rest = {}
  BY DEF Wanted, UpTo, Rest
<1>3. \A d \in Wanted : Doc(d) \in Received
  BY <1>2, DocType
<1>4. ASSUME NEW d \in U PROVE Cardinality(Ahead(Wanted, d)) < Limit * page
  <2>1. Ahead(Wanted, d) \subseteq U
    <3>1. ASSUME NEW e \in Wanted, Comes(e, d), Before(cursor, Doc(e)) PROVE FALSE
      BY <1>1, <1>2, <1>3, <3>1, BeforeTransitive DEF Comes, UpTo
    <3>. QED  BY <3>1 DEF Ahead, UpTo
  <2>2. d \notin Ahead(Wanted, d)
    BY <1>1, <1>2, ComesOrder DEF Ahead
  <2>3. IsFiniteSet(U) /\ Cardinality(U) \in Nat /\ Cardinality(Ahead(Wanted, d)) \in Nat
    BY <1>2, <2>1, FiniteDocs
  <2>4. Cardinality(Ahead(Wanted, d)) <= Cardinality(U)
        /\ Cardinality(Ahead(Wanted, d)) # Cardinality(U)
    <3>. HIDE DEF U
    <3>. QED  BY <1>4, <2>1, <2>2, <2>3, FS_Subset
  <2>. QED  BY <1>1, <2>3, <2>4
<1>5. ASSUME NEW d \in Rest
      PROVE  Cardinality(Ahead(Wanted, d)) = Limit * page + Cardinality(Ahead(Rest, d))
  <2>1. U \subseteq Ahead(Wanted, d)
    <3>1. ASSUME NEW e \in U PROVE Comes(e, d)
      <4>1. d # e /\ d \in Present /\ e \in Present /\ d \in Wanted /\ e \in Wanted
        BY <1>2
      <4>2. ~Comes(d, e)
        BY <1>1, <1>3, <4>1, BeforeTransitive DEF Comes, Rest, UpTo
      <4>. QED  BY <1>1, <4>1, <4>2, ComesOrder
    <3>. QED  BY <1>2, <3>1 DEF Ahead
  <2>2. Ahead(Wanted, d) = U \union Ahead(Rest, d) /\ U \intersect Ahead(Rest, d) = {}
    BY <1>2, <2>1 DEF Ahead
  <2>3. IsFiniteSet(U) /\ IsFiniteSet(Ahead(Rest, d)) /\ Cardinality(U) \in Nat
        /\ Cardinality(Ahead(Rest, d)) \in Nat
    <3>1. Ahead(Rest, d) \subseteq Present
      BY <1>2 DEF Ahead
    <3>. QED  BY <1>2, <3>1, FiniteDocs
  <2>4. Cardinality(U \union Ahead(Rest, d)) = Cardinality(U) + Cardinality(Ahead(Rest, d))
    <3>. HIDE DEF U
    <3>. QED  BY <2>2, <2>3, FS_Union, FS_EmptySet
  <2>. QED  BY <2>2, <2>4
<1>6. \A d \in Rest : Cardinality(Ahead(Rest, d)) \in Nat
  <2>1. \A d \in Rest : Ahead(Rest, d) \subseteq Present
    BY <1>2 DEF Ahead
  <2>. QED  BY <2>1, FiniteDocs
<1>7. PageOf(Wanted) = {d \in Wanted : /\ Cardinality(Ahead(Wanted, d)) >= Limit * page
                                      /\ Cardinality(Ahead(Wanted, d)) < Limit * page + Limit}
  BY <1>1, SortedIsBefore DEF PageOf, Ahead, Comes
<1>8. \A d \in Wanted : Cardinality(Ahead(Wanted, d)) \in Nat
  BY <1>2, FiniteDocs DEF Ahead
<1>9. PageOf(Wanted) = {d \in Rest : Cardinality(Ahead(Rest, d)) < Limit}
  <2>1. ASSUME NEW d \in Wanted
        PROVE  d \in PageOf(Wanted) <=> d \in Rest /\ Cardinality(Ahead(Rest, d)) < Limit
    <3>1. CASE d \in U
      <4>1. d \notin Rest /\ Cardinality(Ahead(Wanted, d)) < Limit * page
        BY <1>2, <1>4, <3>1
      <4>2. ~(Cardinality(Ahead(Wanted, d)) >= Limit * page)
        BY <1>1, <1>8, <4>1
      <4>. QED  BY <1>7, <4>1, <4>2
    <3>2. CASE d \in Rest
      BY <1>1, <1>5, <1>6, <1>7, <3>2
    <3>. QED  BY <1>2, <3>1, <3>2
  <2>. QED  BY <1>2, <1>7, <2>1
<1>10. Cardinality(Wanted) = Limit * page + Cardinality(Rest)
  <2>1. IsFiniteSet(U) /\ IsFiniteSet(Rest) /\ Cardinality(U) \in Nat /\ Cardinality(Rest) \in Nat
    BY <1>2, FiniteDocs
  <2>2. Cardinality(U \union Rest) = Cardinality(U) + Cardinality(Rest)
    <3>. HIDE DEF U
    <3>. QED  BY <1>2, <2>1, FS_Union, FS_EmptySet
  <2>. QED  BY <1>2, <2>2
<1>. QED  BY <1>9, <1>10

\* What the page is taken from: the rest, or everything again if the document that
\* `after` names is gone.
Left == IF after # None /\ last = None THEN Wanted ELSE Rest

\* What a page holds of it, and what its total says of it.
LEMMA PageOfRest ==
  ASSUME Sound, TypeOK, CursorInv, Limit # 0 => CountInv, Undisturbed, status = "aggregate",
         NEW P, P = PageOf(Matching)
  PROVE  /\ P \subseteq Left /\ Left \subseteq Wanted /\ Left \subseteq Present
         /\ \A d \in P, e \in Left : Comes(e, d) => e \in P
         /\ Cardinality(Left) <= Limit => P = Left
         /\ Left # {} => P # {}
         /\ TotalOf(Matching) = Limit * page + Cardinality(Left)
<1>. USE PagingAssumption DEF Sound
<1>1. Left \subseteq Wanted /\ Rest \subseteq Present /\ Wanted \subseteq Present
  BY DEF Left, Rest, Wanted
<1>2. \A d \in Wanted : d \in Present /\ Doc(d) \in Received
  BY <1>1, DocType
<1>3. CASE after # None \/ cursor = None
  <2>1. Matching = Left
    <3>1. last = cursor \/ (after # None /\ last = None)
      BY <1>3 DEF CursorInv
    <3>2. cursor # None => cursor \in Received
      BY DEF TypeOK
    <3>3. CASE after # None /\ last = None
      BY <3>3 DEF Matching, Left
    <3>4. CASE last = cursor /\ ~(after # None /\ last = None)
      BY <1>2, <3>2, <3>4, CursorFilterIsExact DEF Matching, Left, Rest
    <3>. QED  BY <3>1, <3>3, <3>4
  <2>2. after = None => page = 0
    BY <1>3 DEF CursorInv
  <2>3. TotalOf(Matching) = Limit * page + Cardinality(Left)
    <3>1. Cardinality(Left) \in Nat /\ (after = None => Limit * page = 0)
      BY <1>1, <2>2, FiniteDocs
    <3>. QED  BY <2>1, <3>1 DEF TotalOf
  <2>. QED  BY <1>1, <2>1, <2>2, <2>3, PageIsPrefix
<1>4. CASE after = None /\ cursor # None
  <2>1. writes = 0 /\ Limit # 0 /\ Matching = Wanted /\ Left = Rest
    BY <1>4 DEF CursorInv, Undisturbed, Matching, Left
  <2>2. Cardinality(UpTo(cursor)) = Limit * page
    BY <1>4, <2>1 DEF CountInv
  <2>3. /\ P = {d \in Rest : Cardinality(Ahead(Rest, d)) < Limit}
        /\ Cardinality(Wanted) = Limit * page + Cardinality(Rest)
    BY <1>4, <2>1, <2>2, NumberedPage DEF Countable
  <2>4. TotalOf(Matching) = Limit * page + Cardinality(Rest)
    <3>1. Cardinality(Wanted) \in Nat
      BY <1>1, FiniteDocs
    <3>. QED  BY <1>4, <2>1, <2>3, <3>1 DEF TotalOf
  <2>. QED  BY <1>1, <2>1, <2>3, <2>4, FirstOnes
<1>. QED  BY <1>3, <1>4

\* A page that has a next one is not empty, with writes and without.
LEMMA NextNeedsPage ==
  ASSUME Sound, TypeOK, NEW S, S \subseteq Present, S # {} \/ Limit # 0,
         ~NoNext(TotalOf(S))
  PROVE  PageOf(S) # {}
<1>. USE PagingAssumption DEF Sound
<1>1. page \in Nat /\ Limit \in Nat /\ Limit * page \in Nat /\ Cardinality(S) \in Nat
      /\ (page + 1) * Limit = Limit * page + Limit
  BY FiniteDocs DEF TypeOK
<1>2. CASE after # None
  <2>1. Cardinality(S) > Limit
    BY <1>1, <1>2 DEF NoNext, TotalOf
  <2>2. S # {}
    <3>1. S = {} => Cardinality(S) = 0
      BY FS_EmptySet
    <3>. QED  BY <1>1, <2>1, <3>1
  <2>. QED  BY <1>2, <2>2, PageIsPrefix
<1>3. CASE after = None /\ Limit # 0
  <2>1. Skip + Limit < Cardinality(S)
    BY <1>1, <1>3 DEF NoNext, TotalOf, Skip
  <2>. QED  BY <1>3, <2>1, LastOfFullPage
<1>4. CASE after = None /\ Limit = 0
  BY <1>4 DEF PageOf
<1>. QED  BY <1>2, <1>3, <1>4

\* The cursor becomes the last document of the page, which nobody can have touched.
LEMMA CursorKeeps ==
  ASSUME Sound, TypeOK, CursorInv, Aggregate, NEW P, P = PageOf(Matching)
  PROVE  /\ CursorInv'
         /\ P \subseteq Present
         /\ P # {} => /\ LastOf(P) \in P /\ \A e \in P \ {LastOf(P)} : Comes(e, LastOf(P))
                      /\ cursor' = Doc(LastOf(P))
         /\ status' = "next" => P # {}
         /\ last # None => \A d \in P : Before(cursor, Doc(d))
<1>. USE PagingAssumption DEF Sound
<1>. DEFINE S == Matching
            l == LastOf(P)
<1>1. /\ status = "aggregate" /\ docs' = docs
      /\ status' = IF NoNext(TotalOf(S)) THEN "done" ELSE "next"
      /\ cursor' = IF P = {} THEN None ELSE Doc(l)
  BY DEF Aggregate
<1>2. S \subseteq Present /\ P \subseteq S
  BY DEF Matching, Wanted, PageOf
<1>3. P # {} => l \in P /\ \A e \in P \ {l} : Comes(e, l)
  <2>1. ASSUME P # {} PROVE \E d \in P : \A e \in P \ {d} : Comes(e, d)
    BY <1>2, <2>1, FirstAndLast
  <2>. QED  BY <2>1, SortedIsBefore DEF LastOf, Comes
<1>4. status' = "next" => P # {}
  <2>1. ASSUME ~NoNext(TotalOf(S)) PROVE S # {} \/ Limit # 0
    <3>1. CASE S = {} /\ Limit = 0
      <4>1. TotalOf(S) = 0 /\ page \in Nat
        BY <3>1, FS_EmptySet DEF TotalOf, TypeOK
      <4>. QED  BY <2>1, <3>1, <4>1 DEF NoNext
    <3>. QED  BY <3>1
  <2>. HIDE DEF S
  <2>. QED  BY <1>1, <1>2, <2>1, NextNeedsPage DEF S
<1>5. last # None => \A d \in P : Before(cursor, Doc(d))
  <2>. SUFFICES ASSUME last # None, NEW d \in P PROVE Before(cursor, Doc(d))
    OBVIOUS
  <2>1. last = cursor /\ cursor # None /\ cursor \in Received
    BY <1>1 DEF CursorInv, TypeOK
  <2>2. d \in Present /\ Doc(d) \in Received
    BY <1>2, DocType
  <2>. QED  BY <1>2, <2>1, <2>2, CursorFilterIsExact DEF Matching
<1>6. CursorInv'
  <2>1. P # {} => l \in Present /\ l \in Ids /\ Doc(l).id = l /\ Doc(l) # None
    BY <1>2, <1>3, DocType DEF Received
  <2>. HIDE DEF l
  <2>2. (cursor # None /\ cursor.id \in Present => cursor = Doc(cursor.id))'
    <3>1. ASSUME cursor' # None
          PROVE  cursor'.id = l /\ l \in Present /\ cursor' = [id |-> l, content |-> docs'[l]]
      BY <1>1, <2>1, <3>1 DEF Doc
    <3>2. Present' = Present
      BY <1>1 DEF Present
    <3>. QED  BY <3>1, <3>2 DEF Doc
  <2>3. status' = "done" \/ (status' = "next" /\ cursor' # None)
    BY <1>1, <1>4, <2>1
  <2>. QED  BY <2>2, <2>3 DEF CursorInv
<1>. QED  BY <1>1, <1>2, <1>3, <1>4, <1>5, <1>6

\* A page continues where the cursor is, and the last page leaves nothing out.
LEMMA AggregateKeeps ==
  ASSUME Sound, TypeOK, CursorInv, Limit # 0 => CountInv, ReceivedInv, Aggregate
  PROVE  ReceivedInv'
<1>. USE PagingAssumption DEF Sound
<1>. DEFINE P == PageOf(Matching)
            l == LastOf(P)
<1>1. /\ docs' = docs /\ steady' = steady /\ status = "aggregate"
      /\ UNCHANGED <<numbered, writes>>
      /\ status' = IF NoNext(TotalOf(Matching)) THEN "done" ELSE "next"
      /\ \A d \in Ids : seen'[d] = IF d \in P /\ seen[d] < 2 THEN seen[d] + 1 ELSE seen[d]
  BY DEF Aggregate, requestVars, TypeOK
<1>2. Wanted' = Wanted /\ \A d \in Ids : Doc(d)' = Doc(d)
  BY <1>1 DEF Present, Wanted, Doc
<1>3. steady \subseteq Wanted /\ steady \subseteq Present /\ steady \subseteq Ids
  BY DEF ReceivedInv, Wanted, TypeOK
<1>4. (Undisturbed <=> Undisturbed') /\ vanished' = vanished
  BY <1>1 DEF Undisturbed, Aggregate
<1>. SUFFICES ASSUME Undisturbed
              PROVE  \A d \in steady :
                        /\ status' = "done" => seen'[d] >= 1
                        /\ status' = "done" /\ ~vanished => seen'[d] = 1
                        /\ status' # "done" /\ cursor' # None /\ ~Before(cursor', Doc(d)')
                             => seen'[d] >= 1
                        /\ status' # "done" /\ ~vanished =>
                             seen'[d] = IF cursor' # None /\ ~Before(cursor', Doc(d)')
                                        THEN 1 ELSE 0
  BY <1>1, <1>2, <1>3, <1>4 DEF ReceivedInv, NothingSkipped, SteadySeenOnce
<1>5. /\ P \subseteq Left /\ Left \subseteq Wanted /\ Left \subseteq Present
      /\ \A d \in P, e \in Left : Comes(e, d) => e \in P
      /\ Cardinality(Left) <= Limit => P = Left
      /\ TotalOf(Matching) = Limit * page + Cardinality(Left)
  BY <1>1, PageOfRest
<1>6. /\ P # {} => l \in P /\ (\A e \in P \ {l} : Comes(e, l)) /\ cursor' = Doc(l)
      /\ status' = "next" => P # {}
  <2>. HIDE DEF P
  <2>. QED  BY CursorKeeps DEF P
<1>7. status' = "done" => P = Left
  <2>1. Cardinality(Left) \in Nat /\ page \in Nat /\ Limit \in Nat /\ Limit * page \in Nat
        /\ (page + 1) * Limit = Limit * page + Limit
    BY <1>5, FiniteDocs DEF TypeOK
  <2>. QED  BY <1>1, <1>5, <2>1 DEF NoNext
<1>8. \A d \in steady :
         /\ seen[d] \in 0..2
         /\ d \notin Left => cursor # None /\ ~Before(cursor, Doc(d)) /\ seen[d] >= 1
         /\ ~vanished => seen[d] = IF d \in Left THEN 0 ELSE 1
  <2>1. ~vanished => Left = Rest
    BY <1>1 DEF CursorInv, Left
  <2>2. \A d \in steady : d \notin Left => d \notin Rest
    BY <1>3 DEF Left
  <2>3. \A d \in steady : d \in Rest <=> ~(cursor # None /\ ~Before(cursor, Doc(d)))
    BY <1>3 DEF Rest
  <2>. QED  BY <1>1, <1>3, <2>1, <2>2, <2>3 DEF ReceivedInv, TypeOK
<1>. HIDE DEF P, l
<1>9. ASSUME NEW d \in steady
      PROVE  /\ d \in P \/ d \notin Left => seen'[d] >= 1
             /\ ~vanished => seen'[d] = IF d \in Left /\ d \notin P THEN 0 ELSE 1
  BY <1>1, <1>3, <1>5, <1>8
<1>10. ASSUME status' = "next", NEW d \in steady
       PROVE  (cursor' # None /\ ~Before(cursor', Doc(d)')) <=>
                 d \in P \/ (d \notin Left /\ ~Before(Doc(l), Doc(d)))
  <2>1. P # {} /\ l \in P /\ l \in Left /\ l \in Present /\ d \in Present /\ d \in Ids
    BY <1>3, <1>5, <1>6, <1>10
  <2>2. cursor' = Doc(l) /\ cursor' # None /\ Doc(d)' = Doc(d)
    BY <1>2, <1>6, <2>1, DocType DEF Received
  <2>3. CASE d \in P
    BY <1>6, <2>1, <2>2, <2>3, ComesOrder DEF Comes
  <2>4. CASE d \in Left /\ d \notin P
    <3>1. d # l /\ ~Comes(d, l)
      BY <1>5, <2>1, <2>4
    <3>. QED  BY <2>1, <2>2, <2>4, <3>1, ComesOrder DEF Comes
  <2>5. CASE d \notin Left
    BY <1>5, <2>2, <2>5
  <2>. QED  BY <2>3, <2>4, <2>5
<1>11. ASSUME status' = "next", ~vanished, NEW d \in steady, d \notin Left
       PROVE  ~Before(Doc(l), Doc(d))
  <2>1. l \in P /\ l \in Left /\ l \in Present /\ d \in Present
    BY <1>3, <1>5, <1>6, <1>11
  <2>2. Left = Rest
    BY <1>1, <1>11 DEF CursorInv, Left
  <2>3. cursor # None /\ ~Before(cursor, Doc(d)) /\ Before(cursor, Doc(l))
    BY <1>8, <1>11, <2>1, <2>2 DEF Rest
  <2>4. Doc(l) \in Received /\ Doc(d) \in Received /\ cursor \in Received
    BY <2>1, <2>3, DocType DEF TypeOK
  <2>. QED  BY <2>3, <2>4, BeforeTransitive
<1>12. status' \in {"done", "next"}
  BY <1>1
<1>13. ASSUME NEW d \in steady, status' = "done"
       PROVE  seen'[d] >= 1 /\ (~vanished => seen'[d] = 1)
  BY <1>7, <1>9, <1>13
<1>14. ASSUME NEW d \in steady, status' = "next"
       PROVE  /\ cursor' # None /\ ~Before(cursor', Doc(d)') => seen'[d] >= 1
              /\ ~vanished => seen'[d] = IF cursor' # None /\ ~Before(cursor', Doc(d)')
                                         THEN 1 ELSE 0
  <2>1. d \in P => d \in Left
    BY <1>5
  <2>. QED  BY <1>9, <1>10, <1>11, <1>14, <2>1
<1>. QED  BY <1>12, <1>13, <1>14

\* Every other step of the client or the server keeps both.
LEMMA StepSound ==
  ASSUME Sound, TypeOK, CursorInv, Limit # 0 => CountInv, ReceivedInv, [Next]_vars
  PROVE  CursorInv' /\ ReceivedInv'
<1>. USE DEF ReceivedInv, NothingSkipped, SteadySeenOnce, Undisturbed
<1>1. CASE Search
  <2>1. /\ docs' = docs /\ seen' = seen /\ cursor' = cursor /\ steady' = Wanted
        /\ after' = after /\ page' = page /\ status = "idle" /\ status' = "asked"
        /\ vanished' = vanished
    BY <1>1 DEF Search, requestVars, clientVars
  <2>2. CursorInv'
    BY <2>1 DEF CursorInv
  <2>3. Wanted' = Wanted /\ Wanted \subseteq Ids
    BY <2>1 DEF Wanted, Present
  <2>4. ReceivedInv'
    BY <2>1, <2>3 DEF CursorInv
  <2>. QED  BY <2>2, <2>4
<1>2. CASE SearchNext
  <2>1. /\ UNCHANGED <<docs, seen, cursor, steady, writes, vanished>>
        /\ status = "next" /\ status' = "asked" /\ (~numbered' => ~numbered)
        /\ \/ after' = cursor.id
           \/ after' = None /\ numbered'
        /\ cursor # None /\ cursor \in Received
    BY <1>2 DEF SearchNext, clientVars, CursorInv, TypeOK
  <2>2. cursor.id # None
    BY <2>1, PagingAssumption DEF Received
  <2>3. Wanted' = Wanted /\ \A d \in Ids : Doc(d)' = Doc(d) /\ Present' = Present
    BY <2>1 DEF Wanted, Present, Doc
  <2>4. CursorInv'
    BY <2>1, <2>2, <2>3 DEF CursorInv, Present, Doc
  <2>5. ReceivedInv'
    BY <2>1, <2>3 DEF TypeOK
  <2>. QED  BY <2>4, <2>5
<1>3. CASE FindLast
  <2>1. /\ UNCHANGED <<docs, seen, cursor, steady, writes, after, page, numbered>>
        /\ status = "asked" /\ status' = "aggregate" /\ after # None
        /\ last' = (IF docs[after] # None THEN Doc(after) ELSE None)
        /\ docs[after] = None => vanished'
        /\ ~vanished' => ~vanished
    BY <1>3 DEF FindLast, requestVars, clientVars
  <2>2. cursor # None /\ after = cursor.id /\ after \in Ids
    BY <2>1, PagingAssumption DEF CursorInv, TypeOK
  <2>3. Present' = Present /\ Wanted' = Wanted /\ \A d \in Ids : Doc(d)' = Doc(d)
    BY <2>1 DEF Present, Wanted, Doc
  <2>4. docs[after] # None => last' = cursor
    BY <2>1, <2>2 DEF CursorInv, Present
  <2>5. CursorInv'
    BY <2>1, <2>2, <2>3, <2>4 DEF CursorInv, Present
  <2>6. ReceivedInv'
    BY <2>1, <2>3 DEF Wanted, TypeOK
  <2>. QED  BY <2>5, <2>6
<1>4. CASE NoCursor
  BY <1>4 DEF NoCursor, CursorInv, requestVars, clientVars, Present, Wanted, Doc
<1>5. CASE Aggregate
  BY <1>5, AggregateKeeps, CursorKeeps
<1>6. ASSUME NEW d \in Ids, NEW c \in Contents \union {None}, Write(d, c)
      PROVE  CursorInv' /\ ReceivedInv'
  BY <1>6, WriteKeeps
<1>7. CASE UNCHANGED vars
  BY <1>7 DEF vars, CursorInv, requestVars, clientVars, Present, Wanted, Doc
<1>. QED  BY <1>1, <1>2, <1>3, <1>4, <1>5, <1>6, <1>7 DEF Next

\* What the theorems below rest on holds at the start and from step to step.
PagingInv == TypeOK /\ CursorInv /\ (Limit # 0 => CountInv) /\ ReceivedInv

\* No request was sent yet.
LEMMA InitPaging == Init => PagingInv
  BY InitType, InitSound, InitCounts DEF PagingInv

\* A step keeps all of it, the count only where pages have a limit.
LEMMA StepPaging == ASSUME Sound, PagingInv, [Next]_vars PROVE PagingInv'
<1>1. TypeOK'
  BY StepType DEF Sound, PagingInv
<1>2. CursorInv' /\ ReceivedInv'
  BY StepSound DEF PagingInv
<1>3. (Limit # 0 => CountInv)'
  BY StepCounts DEF Sound, PagingInv, Countable
<1>. QED  BY <1>1, <1>2, <1>3 DEF PagingInv

\* A client that reads to the end receives every matching document nobody touched,
\* for every sort whose keys have values, every page size and any writes to other
\* documents, also when the document it received last is deleted before it asks
\* for the next page; if it asks for pages by number, as long as nobody writes.
THEOREM NothingIsSkipped ==
  ASSUME Sound
  PROVE  Spec => []NothingSkipped
<1>1. PagingInv => NothingSkipped
  BY DEF PagingInv, ReceivedInv
<1>2. PagingInv /\ [Next]_vars => PagingInv'
  BY StepPaging
<1>. QED  BY <1>1, <1>2, InitPaging, PTL DEF Spec

\* As long as findById finds what `after` names it receives them exactly once.
THEOREM NothingIsSkippedOrRepeated ==
  ASSUME Sound
  PROVE  Spec => []SteadySeenOnce
<1>1. PagingInv => SteadySeenOnce
  BY DEF PagingInv, ReceivedInv
<1>2. PagingInv /\ [Next]_vars => PagingInv'
  BY StepPaging
<1>. QED  BY <1>1, <1>2, InitPaging, PTL DEF Spec

\* Under the same conditions a page asked for with `after` holds only documents
\* that come after the last one received, if findById found it.
THEOREM PagesFollowTheCursor ==
  ASSUME Sound
  PROVE  Spec => PageFollowsCursor
<1>. DEFINE Follows == last # None /\ seen' # seen
                          => \A d \in got' : Before(cursor, [id |-> d, content |-> docs[d]])
<1>1. PagingInv /\ [Next]_vars => [Follows]_vars
  <2>1. ASSUME PagingInv, Aggregate PROVE Follows
    <3>1. got' = PageOf(Matching)
      BY <2>1 DEF Aggregate
    <3>. QED  BY <2>1, <3>1, CursorKeeps DEF PagingInv, Doc
  <2>2. ASSUME [Next]_vars, ~Aggregate PROVE [Follows]_vars
    BY <2>2 DEF Next, Search, SearchNext, FindLast, NoCursor, Write, clientVars, vars
  <2>. QED  BY <2>1, <2>2
<1>2. PagingInv /\ [Next]_vars => PagingInv'
  BY StepPaging
<1>. QED  BY <1>1, <1>2, InitPaging, PTL DEF Spec, PageFollowsCursor
=============================================================================
