--------------------------- MODULE SearchPathsProofs ---------------------------
(***************************************************************************)
(* Theorems about SearchPaths, for any models, path options, filters and   *)
(* documents, and any number of requests.                                  *)
(***************************************************************************)
EXTENDS SearchPaths, SequenceTheorems, WellFoundedInduction, TLAPS

-----------------------------------------------------------------------------
(* Paths *)

\* A prefix has the same names at the same places.
LEMMA PrefixByNames ==
  ASSUME NEW s \in Seq(STRING), NEW t \in Seq(STRING)
  PROVE  IsPrefix(s, t) <=> Len(s) <= Len(t) /\ \A i \in 1..Len(s) : s[i] = t[i]
<1>1. Len(s) \in Nat /\ Len(t) \in Nat
  OBVIOUS
<1>2. CASE Len(s) <= Len(t)
  <2>1. \A i \in 1..Len(s) : s[i] \in STRING /\ t[i] \in STRING
    BY <1>1, <1>2
  <2>2. /\ SubSeq(s, 1, Len(s)) \in Seq(STRING) /\ SubSeq(t, 1, Len(s)) \in Seq(STRING)
        /\ Len(SubSeq(s, 1, Len(s))) = Len(s) /\ Len(SubSeq(t, 1, Len(s))) = Len(s)
        /\ \A i \in 1..Len(s) : SubSeq(s, 1, Len(s))[i] = s[i] /\ SubSeq(t, 1, Len(s))[i] = t[i]
    BY <1>1, <1>2, <2>1, SubSeqProperties
  <2>3. SubSeq(s, 1, Len(s)) = SubSeq(t, 1, Len(s)) <=> \A i \in 1..Len(s) : s[i] = t[i]
    BY <2>2, SeqEqual
  <2>. QED  BY <1>2, <2>3 DEF IsPrefix
<1>3. CASE ~(Len(s) <= Len(t))
  BY <1>3 DEF IsPrefix
<1>. QED  BY <1>2, <1>3

\* Prefixes are ordered, and those of one path by their length.
LEMMA PrefixOrder ==
  ASSUME NEW s \in Seq(STRING), NEW t \in Seq(STRING), NEW u \in Seq(STRING)
  PROVE  /\ IsPrefix(s, s) /\ IsPrefix(Root, s)
         /\ IsPrefix(s, t) /\ IsPrefix(t, u) => IsPrefix(s, u)
         /\ IsPrefix(s, u) /\ IsPrefix(t, u) /\ Len(s) <= Len(t) => IsPrefix(s, t)
<1>1. Root \in Seq(STRING) /\ Len(Root) = 0
  BY DEF Root
<1>2. Len(s) \in Nat /\ Len(t) \in Nat /\ Len(u) \in Nat
  OBVIOUS
<1>3. IsPrefix(s, s) /\ IsPrefix(Root, s)
  <2>1. IsPrefix(s, s)
    BY <1>2, PrefixByNames
  <2>2. Len(Root) <= Len(s) /\ \A i \in 1..Len(Root) : Root[i] = s[i]
    BY <1>1, <1>2
  <2>. QED  BY <1>1, <2>1, <2>2, PrefixByNames
<1>4. ASSUME IsPrefix(s, t), IsPrefix(t, u) PROVE IsPrefix(s, u)
  <2>1. Len(s) <= Len(u)
    BY <1>2, <1>4, PrefixByNames
  <2>2. \A i \in 1..Len(s) : s[i] = t[i] /\ t[i] = u[i]
    BY <1>2, <1>4, PrefixByNames
  <2>. QED  BY <2>1, <2>2, PrefixByNames
<1>5. ASSUME IsPrefix(s, u), IsPrefix(t, u), Len(s) <= Len(t) PROVE IsPrefix(s, t)
  <2>1. \A i \in 1..Len(s) : s[i] = u[i] /\ t[i] = u[i]
    BY <1>2, <1>5, PrefixByNames
  <2>. QED  BY <1>5, <2>1, PrefixByNames
<1>. QED  BY <1>3, <1>4, <1>5

\* The path of a key is a prefix of it, one name shorter.
LEMMA FrontOfKey ==
  ASSUME NEW k \in Seq(STRING), k # Root
  PROVE  /\ Front(k) \in Seq(STRING) /\ Len(Front(k)) = Len(k) - 1
         /\ IsPrefix(Front(k), k)
         /\ \A s \in Seq(STRING) : IsPrefix(s, k) /\ s # k => IsPrefix(s, Front(k))
<1>1. Len(k) \in Nat \ {0}
  BY EmptySeq DEF Root
<1>2. /\ Front(k) \in Seq(STRING) /\ Len(Front(k)) = Len(k) - 1
      /\ \A i \in 1..(Len(k) - 1) : Front(k)[i] = k[i]
  <2>1. PICK n \in Nat : n = Len(k) - 1
    BY <1>1
  <2>2. \A i \in 1..n : k[i] \in STRING
    BY <1>1, <2>1
  <2>3. /\ SubSeq(k, 1, n) \in Seq(STRING)
        /\ Len(SubSeq(k, 1, n)) = IF 1 <= n THEN n - 1 + 1 ELSE 0
        /\ \A i \in 1..(n - 1 + 1) : SubSeq(k, 1, n)[i] = k[1 + i - 1]
    BY <2>2, SubSeqProperties
  <2>4. Len(SubSeq(k, 1, n)) = n /\ \A i \in 1..n : SubSeq(k, 1, n)[i] = k[i]
    BY <2>3
  <2>. QED  BY <2>1, <2>3, <2>4 DEF Front
<1>3. IsPrefix(Front(k), k)
  BY <1>1, <1>2, PrefixByNames
<1>4. ASSUME NEW s \in Seq(STRING), IsPrefix(s, k), s # k PROVE IsPrefix(s, Front(k))
  <2>1. Len(s) \in Nat /\ Len(s) <= Len(k) /\ \A i \in 1..Len(s) : s[i] = k[i]
    BY <1>4, PrefixByNames
  <2>2. Len(s) # Len(k)
    BY <1>4, <2>1, SeqEqual
  <2>. QED  BY <1>1, <1>2, <2>1, <2>2, PrefixByNames
<1>. QED  BY <1>2, <1>3, <1>4

\* Paths are sequences of names, and $ROOT$ is none of the lookups.
LEMMA PathsAreSequences ==
  /\ Lookups \subseteq Seq(STRING) /\ Paths \subseteq Seq(STRING)
  /\ Root \in Paths /\ Lookups \subseteq Paths /\ Paths \ {Root} = Lookups
  /\ Lookups = {Order[i] : i \in DOMAIN Order}
<1>1. Lookups = {Order[i] : i \in DOMAIN Order}
  BY DEF Lookups, Range
<1>2. DOMAIN Order = 1..Len(Order) /\ \A i \in DOMAIN Order : Order[i] \in Seq(STRING)
  BY PathsAssumption
<1>3. Lookups \subseteq Seq(STRING)
  BY <1>1, <1>2
<1>4. Root \in Seq(STRING) /\ Root \notin Lookups
  BY PathsAssumption DEF Root
<1>. QED  BY <1>1, <1>3, <1>4 DEF Paths

\* The longest path that leads to p.
Innermost(p) ==
    LET prefixes == {l \in Lookups : IsPrefix(l, p)}
    IN  IF prefixes = {} THEN Root
        ELSE CHOOSE l \in prefixes : \A m \in prefixes : Len(m) <= Len(l)

\* All paths that lead to p lead to the longest one.
LEMMA InnermostIsLongest ==
  ASSUME NEW p \in Seq(STRING)
  PROVE  /\ Innermost(p) \in Paths /\ IsPrefix(Innermost(p), p)
         /\ \A q \in Paths : IsPrefix(q, p) => IsPrefix(q, Innermost(p))
<1>. DEFINE prefixes == {l \in Lookups : IsPrefix(l, p)}
<1>1. CASE prefixes = {}
  <2>1. Innermost(p) = Root
    BY <1>1 DEF Innermost
  <2>2. \A q \in Paths : IsPrefix(q, p) => q = Root
    BY <1>1, PathsAreSequences
  <2>. QED  BY <2>1, <2>2, PrefixOrder, PathsAreSequences
<1>2. CASE prefixes # {}
  <2>. DEFINE gaps == {Len(p) - Len(l) : l \in prefixes}
  <2>1. \A l \in prefixes : l \in Seq(STRING) /\ Len(l) \in Nat /\ Len(l) <= Len(p)
    BY PathsAreSequences, PrefixByNames
  <2>2. gaps \subseteq Nat /\ gaps # {}
    BY <1>2, <2>1
  <2>3. PICK g \in gaps : \A h \in gaps : <<h, g>> \notin OpToRel(<, Nat)
    <3>. HIDE DEF gaps
    <3>. QED  BY <2>2, NatLessThanWellFounded, WFMin
  <2>4. PICK l \in prefixes : g = Len(p) - Len(l)
    OBVIOUS
  <2>5. \A m \in prefixes : Len(m) <= Len(l)
    <3>. SUFFICES ASSUME NEW m \in prefixes, ~(Len(m) <= Len(l)) PROVE FALSE
      OBVIOUS
    <3>1. Len(p) - Len(m) \in gaps /\ Len(p) - Len(m) < g /\ g \in Nat
      BY <2>1, <2>2, <2>4
    <3>. QED  BY <2>2, <2>3, <3>1 DEF OpToRel
  <2>6. /\ Innermost(p) \in prefixes /\ \A m \in prefixes : Len(m) <= Len(Innermost(p))
    BY <1>2, <2>5 DEF Innermost
  <2>7. ASSUME NEW q \in Paths, IsPrefix(q, p) PROVE IsPrefix(q, Innermost(p))
    <3>1. CASE q = Root
      BY <2>1, <2>6, <3>1, PrefixOrder
    <3>2. CASE q # Root
      BY <2>1, <2>6, <2>7, <3>2, PrefixOrder, PathsAreSequences
    <3>. QED  BY <3>1, <3>2
  <2>. QED  BY <2>6, <2>7, PathsAreSequences
<1>. QED  BY <1>1, <1>2

\* What is left of a key below a path it leads through, put below it again.
LEMMA RestBelow ==
  ASSUME NEW k \in Seq(STRING), k # Root, NEW p \in Seq(STRING), IsPrefix(p, Front(k))
  PROVE  /\ Rest(k, p) \in Seq(STRING) /\ p \o Rest(k, p) = k
         /\ Rest(k, p) # <<>>
<1>1. Len(k) \in Nat \ {0} /\ Len(p) \in Nat
  BY EmptySeq DEF Root
<1>2. Len(p) <= Len(k) - 1 /\ \A i \in 1..Len(p) : p[i] = k[i]
  <2>1. IsPrefix(p, k)
    BY FrontOfKey, PrefixOrder
  <2>. QED  BY <1>1, <2>1, FrontOfKey, PrefixByNames
<1>3. \A i \in (Len(p) + 1)..Len(k) : k[i] \in STRING
  BY <1>1
<1>4. /\ Rest(k, p) \in Seq(STRING) /\ Len(Rest(k, p)) = Len(k) - Len(p)
      /\ \A i \in 1..(Len(k) - Len(p)) : Rest(k, p)[i] = k[Len(p) + i]
  <2>1. /\ SubSeq(k, Len(p) + 1, Len(k)) \in Seq(STRING)
        /\ Len(SubSeq(k, Len(p) + 1, Len(k)))
              = IF Len(p) + 1 <= Len(k) THEN Len(k) - (Len(p) + 1) + 1 ELSE 0
        /\ \A i \in 1..(Len(k) - (Len(p) + 1) + 1) :
              SubSeq(k, Len(p) + 1, Len(k))[i] = k[(Len(p) + 1) + i - 1]
    BY <1>1, <1>3, SubSeqProperties
  <2>. QED  BY <1>1, <1>2, <2>1 DEF Rest
<1>5. /\ p \o Rest(k, p) \in Seq(STRING) /\ Len(p \o Rest(k, p)) = Len(k)
      /\ \A i \in 1..Len(k) : (p \o Rest(k, p))[i] =
              IF i <= Len(p) THEN p[i] ELSE Rest(k, p)[i - Len(p)]
  BY <1>1, <1>2, <1>4, ConcatProperties
<1>6. \A i \in 1..Len(k) : (p \o Rest(k, p))[i] = k[i]
  <2>. SUFFICES ASSUME NEW i \in 1..Len(k) PROVE (p \o Rest(k, p))[i] = k[i]
    OBVIOUS
  <2>1. CASE i <= Len(p)
    BY <1>1, <1>2, <1>5, <2>1
  <2>2. CASE ~(i <= Len(p))
    <3>1. i - Len(p) \in 1..(Len(k) - Len(p)) /\ Len(p) + (i - Len(p)) = i
      BY <1>1, <1>2, <2>2
    <3>. QED  BY <1>4, <1>5, <2>2, <3>1
  <2>. QED  BY <2>1, <2>2
<1>7. p \o Rest(k, p) = k
  BY <1>5, <1>6, SeqEqual
<1>8. Rest(k, p) # <<>>
  BY <1>1, <1>2, <1>4
<1>. QED  BY <1>4, <1>7, <1>8

\* A key leads into the longest path that leads to it, and into no other.
LEMMA LeadsIntoInnermost ==
  ASSUME NEW k \in Seq(STRING), k # Root, NEW p \in Paths
  PROVE  LeadsInto(k, p) <=> Innermost(Front(k)) = p
<1>1. Front(k) \in Seq(STRING)
  BY FrontOfKey
<1>2. PICK f \in Seq(STRING) : f = Front(k)
  BY <1>1
<1>3. /\ Innermost(f) \in Paths /\ IsPrefix(Innermost(f), f)
      /\ \A q \in Paths : IsPrefix(q, f) => IsPrefix(q, Innermost(f))
  BY InnermostIsLongest
<1>4. PICK o \in Paths : o = Innermost(f)
  BY <1>3
<1>5. p \in Seq(STRING) /\ o \in Seq(STRING)
  BY PathsAreSequences
<1>6. ASSUME LeadsInto(k, p) PROVE o = p
  <2>1. IsPrefix(p, f) /\ \A m \in Lookups : IsPrefix(m, f) => IsPrefix(m, p)
    BY <1>2, <1>6 DEF LeadsInto
  <2>2. IsPrefix(p, o)
    BY <1>3, <1>4, <2>1
  <2>3. IsPrefix(o, p)
    BY <1>3, <1>4, <1>5, <2>1, PrefixOrder, PathsAreSequences
  <2>4. Len(o) = Len(p) /\ \A i \in 1..Len(o) : o[i] = p[i]
    <3>1. Len(o) \in Nat /\ Len(p) \in Nat
      BY <1>5
    <3>. QED  BY <1>5, <2>2, <2>3, <3>1, PrefixByNames
  <2>. QED  BY <1>5, <2>4, SeqEqual
<1>7. ASSUME o = p PROVE LeadsInto(k, p)
  BY <1>2, <1>3, <1>4, <1>7, PathsAreSequences DEF LeadsInto
<1>. QED  BY <1>2, <1>4, <1>6, <1>7

\* A sequence of one.
LEMMA OneName == ASSUME NEW S, NEW c \in S PROVE <<c>> \in Seq(S)
OBVIOUS

\* What is routed to a path is a key, and below that path it is the key it was,
\* unless the path ends within one of its names.
LEMMA KeyBelowIsKey ==
  ASSUME NEW k \in Seq(STRING), k # Root, NEW p \in Paths, Owns(p, Front(k))
  PROVE  /\ KeyBelow(k, p) \in Seq(STRING)
         /\ IsPrefix(p, Front(k)) => KeyBelow(k, p) = Rest(k, p) /\ p \o KeyBelow(k, p) = k
         /\ ~IsPrefix(p, Front(k)) => EndsWithin(p, Front(k))
<1>1. PICK f : f = Front(k)
  OBVIOUS
<1>2. f \in Seq(STRING) /\ Len(f) = Len(k) - 1 /\ Len(k) \in Nat \ {0} /\ p \in Seq(STRING)
  BY <1>1, FrontOfKey, EmptySeq, PathsAreSequences DEF Root
<1>3. CASE IsPrefix(p, f)
  <2>1. KeyBelow(k, p) = Rest(k, p)
    BY <1>1, <1>3 DEF KeyBelow
  <2>. QED  BY <1>1, <1>2, <1>3, <2>1, RestBelow
<1>4. CASE ~IsPrefix(p, f)
  <2>1. /\ EndsWithin(p, f) /\ p # Root /\ Len(p) <= Len(f)
        /\ <<Last(p), f[Len(p)]>> \in DOMAIN Cut
    BY <1>1, <1>4 DEF Owns, StartsWith, EndsWithin
  <2>2. Cut[<<Last(p), f[Len(p)]>>] \in STRING
    BY <2>1, PathsAssumption
  <2>3. PICK c \in STRING : c = Cut[<<Last(p), f[Len(p)]>>]
    BY <2>2
  <2>4. Rest(f, p) \in Seq(STRING)
    <3>1. Len(p) \in Nat /\ Len(f) \in Nat /\ \A i \in (Len(p) + 1)..Len(f) : f[i] \in STRING
      BY <1>2
    <3>2. SubSeq(f, Len(p) + 1, Len(f)) \in Seq(STRING)
      BY <3>1, SubSeqProperties
    <3>. QED  BY <3>2 DEF Rest
  <2>5. <<c>> \o Rest(f, p) \in Seq(STRING)
    <3>1. <<c>> \in Seq(STRING)
      BY OneName
    <3>. QED  BY <2>4, <3>1, ConcatProperties
  <2>6. CutOff(f, p) \in Seq(STRING)
    <3>1. CutOff(f, p) = IF <<c>> \o Rest(f, p) = <<"">> THEN <<>> ELSE <<c>> \o Rest(f, p)
      BY <2>3 DEF CutOff
    <3>2. <<>> \in Seq(STRING)
      BY EmptySeq
    <3>. QED  BY <2>5, <3>1, <3>2
  <2>7. Last(k) \in STRING
    BY <1>2 DEF Last
  <2>8. Append(CutOff(f, p), Last(k)) \in Seq(STRING)
    BY <2>6, <2>7, AppendProperties
  <2>9. KeyBelow(k, p) = Append(CutOff(f, p), Last(k))
    BY <1>1, <1>4 DEF KeyBelow
  <2>. QED  BY <1>1, <1>4, <2>1, <2>8, <2>9
<1>. QED  BY <1>1, <1>3, <1>4

\* If no lookup ends within a name of its path, a key is routed to the document
\* that it leads into.
LEMMA OwnsInnermost ==
  ASSUME NEW k \in Seq(STRING), k # Root, \A l \in Lookups : ~EndsWithin(l, Front(k)),
         NEW p \in Paths
  PROVE  Owns(p, Front(k)) <=> Innermost(Front(k)) = p
<1>1. PICK f \in Seq(STRING) : f = Front(k)
  BY FrontOfKey
<1>2. p \in Seq(STRING) /\ Lookups \subseteq Seq(STRING)
  BY PathsAreSequences
<1>3. \A l \in Paths : StartsWith(f, l) <=> IsPrefix(l, f)
  BY <1>1, PathsAreSequences DEF StartsWith, EndsWithin
<1>4. ASSUME IsPrefix(p, f), NEW m \in Lookups, IsPrefix(m, f)
      PROVE  StartsWith(p, m) <=> IsPrefix(m, p)
  <2>1. ASSUME EndsWithin(m, p) PROVE IsPrefix(m, p)
    <3>1. Len(m) <= Len(p)
      BY <2>1 DEF EndsWithin
    <3>. QED  BY <1>2, <1>4, <3>1, PrefixOrder
  <2>. QED  BY <2>1 DEF StartsWith
<1>5. Owns(p, f) <=> LeadsInto(k, p)
  BY <1>1, <1>3, <1>4, PathsAreSequences DEF Owns, LeadsInto
<1>. QED  BY <1>1, <1>5, LeadsIntoInnermost

\* The document above a lookup is the one its path leads into.
LEMMA ParentIsInnermost ==
  ASSUME NEW l \in Lookups
  PROVE  Parent(l) = Innermost(Front(l)) /\ Parent(l) \in Paths
<1>1. l \in Seq(STRING) /\ l # Root
  BY PathsAreSequences
<1>2. Front(l) \in Seq(STRING)
  BY <1>1, FrontOfKey
<1>3. PICK o \in Paths : o = Innermost(Front(l))
  BY <1>2, InnermostIsLongest
<1>4. \A p \in Paths : LeadsInto(l, p) <=> p = o
  BY <1>1, <1>3, LeadsIntoInnermost
<1>. QED  BY <1>3, <1>4 DEF Parent

-----------------------------------------------------------------------------
(* The parser *)

\* What a declared, filterable key stands for is allowed, and is a key.
LEMMA AllowedKeys ==
  /\ Filterable \subseteq Seq(STRING) \ {Root}
  /\ \A k \in Filterable : FullPath(k) \in Allowed
  /\ Allowed \subseteq Seq(STRING) \ {Root}
<1>1. Filterable \subseteq Seq(STRING) \ {Root}
  BY PathsAssumption DEF Filterable
<1>2. \A k \in Filterable : FullPath(k) \in Allowed /\ FullPath(k) \in Seq(STRING) \ {Root}
  <2>. SUFFICES ASSUME NEW k \in Filterable
                PROVE  FullPath(k) \in Allowed /\ FullPath(k) \in Seq(STRING) \ {Root}
    OBVIOUS
  <2>1. k \in Seq(STRING) /\ k # Root /\ Len(k) \in Nat \ {0}
    BY <1>1, EmptySeq DEF Root
  <2>2. k \in DOMAIN SearchKeys
    <3>1. SubSeq(k, 1, Len(k)) \in DOMAIN SearchKeys
      BY <2>1 DEF Filterable
    <3>2. SubSeq(k, 1, Len(k)) = k
      BY <2>1, SubSeqFull
    <3>. QED  BY <3>1, <3>2
  <2>3. SearchKeys[k].field \in STRING
    BY <2>2, PathsAssumption
  <2>4. FullPath(k) \in Seq(STRING) /\ FullPath(k) # << >>
    BY <2>1, <2>3, FrontOfKey, AppendProperties DEF FullPath
  <2>. QED  BY <2>4 DEF Allowed, Named, FullPath, Root
<1>. QED  BY <1>1, <1>2 DEF Allowed, Named, FullPath

\* The parser lets allowed keys through only.
LEMMA ParsedIsAllowed ==
  ASSUME NEW f \in Filters \union {{}}, Accepts(f)
  PROVE  /\ \A c \in Parsed(f) : c.keys \subseteq Allowed
         /\ KeysOf(Parsed(f)) \subseteq Allowed
<1>1. ASSUME NEW c \in Parsed(f) PROVE c.keys \subseteq Allowed
  <2>1. PICK d \in f : c = [d EXCEPT !.keys = {FullPath(k) : k \in @}]
    BY DEF Parsed
  <2>2. d \in Conditions /\ d.keys \subseteq Filterable
    BY PathsAssumption DEF Accepts
  <2>3. c.keys = {FullPath(k) : k \in d.keys}
    BY <2>1, <2>2 DEF Conditions
  <2>. QED  BY <2>2, <2>3, AllowedKeys
<1>. QED  BY <1>1 DEF KeysOf

\* Conditions about allowed keys or what was cut off them, besides the caller's.
OptionsFit(opts) ==
    \A p \in Paths : \A keys \in opts[p] : \A k \in keys :
        \/ k \in Access[p] \/ p \o k \in Allowed
        \/ \E j \in Allowed : EndsWithin(p, Front(j)) /\ k = KeyBelow(j, p)

OptionTypes == [Paths -> SUBSET SUBSET Seq(STRING)]

\* Below its path a condition is about the same key, or what was cut off it.
LEMMA RoutedFits ==
  ASSUME NEW f \in Filters \union {{}}, Accepts(f), NEW opts \in OptionTypes, OptionsFit(opts)
  PROVE  /\ Routed(Parsed(f), opts) \in OptionTypes
         /\ OptionsFit(Routed(Parsed(f), opts))
         /\ \A p \in Paths : opts[p] \subseteq Routed(Parsed(f), opts)[p]
<1>. DEFINE own(p) == RoutedTo(p, Parsed(f))
<1>1. Routed(Parsed(f), opts) = [p \in Paths |-> opts[p] \union own(p)]
  BY DEF Routed
<1>2. ASSUME NEW p \in Paths, NEW keys \in own(p), NEW r \in keys
      PROVE  /\ r \in Seq(STRING)
             /\ \/ p \o r \in Allowed
                \/ \E j \in Allowed : EndsWithin(p, Front(j)) /\ r = KeyBelow(j, p)
  <2>1. PICK k \in KeysOf(Parsed(f)) : Owns(p, Front(k)) /\ r = KeyBelow(k, p)
    BY <1>2 DEF RoutedTo
  <2>2. k \in Allowed /\ k \in Seq(STRING) /\ k # Root
    BY <2>1, ParsedIsAllowed, AllowedKeys
  <2>3. /\ KeyBelow(k, p) \in Seq(STRING)
        /\ IsPrefix(p, Front(k)) => p \o KeyBelow(k, p) = k
        /\ ~IsPrefix(p, Front(k)) => EndsWithin(p, Front(k))
    BY <2>1, <2>2, KeyBelowIsKey
  <2>. QED  BY <2>1, <2>2, <2>3
<1>3. \A p \in Paths : own(p) \in SUBSET SUBSET Seq(STRING)
  <2>. SUFFICES ASSUME NEW p \in Paths, NEW keys \in own(p) PROVE keys \in SUBSET Seq(STRING)
    OBVIOUS
  <2>. QED  BY <1>2
<1>. HIDE DEF own
<1>. QED  BY <1>1, <1>2, <1>3 DEF OptionsFit, OptionTypes

-----------------------------------------------------------------------------
(* The inductive invariant *)

\* What was asked passed the parser.
AskedFits == Accepts(asked) /\ OptionsFit(options)

\* The caller's accessibility is part of the path options, whatever was added.
AccessAsked == \A p \in Paths : \A k \in Access[p] : {k} \in options[p]

\* What is shown was looked up.
ShownInOrder == \A l \in Lookups : shown[l] # None => \E i \in 1..stage : Order[i] = l

\* It is accessible, with all that is above it.
ShownIsAccessible ==
    \A p, q \in Paths : shown[p] # None /\ IsPrefix(q, p) =>
        shown[q] # None /\ (q # Root => Accessible(q))

\* The base document is the one of the world, and accessible if it is kept.
RootIsAccessible ==
    /\ world[Root] # None
    /\ status = "root" => shown[Root] = world[Root]
    /\ status \in {"lookups", "answered"} => shown[Root] # None
    /\ status \in {"lookups", "answered"} /\ kept => Accessible(Root)

IInv ==
    /\ TypeOK /\ AskedFits /\ AccessAsked /\ ShownInOrder /\ ShownIsAccessible
    /\ RootIsAccessible

\* The invariant holds before any request.
LEMMA InitHolds == Init => IInv
<1>. SUFFICES ASSUME Init PROVE IInv
  OBVIOUS
<1>1. options \in OptionTypes /\ OptionsFit(options) /\ AccessAsked
  <2>1. options = [p \in Paths |-> {{k} : k \in Access[p]}]
    BY DEF Init
  <2>2. \A p \in Paths : Access[p] \in SUBSET Seq(STRING)
    BY PathsAssumption
  <2>. QED  BY <2>1, <2>2 DEF OptionTypes, OptionsFit, AccessAsked
<1>2. Accepts(asked) /\ Parsed(asked) = {}
  BY DEF Init, Accepts, Parsed
<1>3. world \in [Paths -> Documents \union {None}] /\ required \subseteq Lookups
  BY DEF Init
<1>4. shown \in [Paths -> Parts \union {None}] /\ stage \in 0..Len(Order)
      /\ requests \in 0..MaxRequests
  BY PathsAssumption DEF Init
<1>5. TypeOK
  BY <1>1, <1>2, <1>3, <1>4 DEF Init, TypeOK, OptionTypes
<1>6. ShownInOrder /\ ShownIsAccessible /\ RootIsAccessible
  BY PathsAreSequences DEF Init, ShownInOrder, ShownIsAccessible, RootIsAccessible
<1>. QED  BY <1>1, <1>2, <1>5, <1>6 DEF IInv, AskedFits

\* A request that is refused changes nothing.
LEMMA RefuseKeeps ==
  ASSUME IInv, NEW f \in Filters, Refuse(f)
  PROVE  IInv'
<1>1. requests' \in 0..MaxRequests
  BY PathsAssumption DEF Refuse, IInv, TypeOK
<1>2. UNCHANGED <<world, required, options, asked, filter, minified, status, stage,
                  postPaths, shown, kept, reused>>
  BY DEF Refuse
<1>. QED
  BY <1>1, <1>2 DEF IInv, TypeOK, AskedFits, AccessAsked, ShownInOrder, ShownIsAccessible,
                    RootIsAccessible, Accessible

\* A request puts only what passed the parser into the path options.
LEMMA RequestKeeps ==
  ASSUME IInv, NEW f \in Filters, NEW fresh \in BOOLEAN, NEW mini \in BOOLEAN,
         Request(f, fresh, mini)
  PROVE  IInv'
<1>. DEFINE opts == IF fresh THEN [p \in Paths |-> {{k} : k \in Access[p]}] ELSE options
<1>1. /\ Accepts(f) /\ asked' = f /\ filter' = Parsed(f) /\ minified' = mini
      /\ requests' = requests + 1 /\ requests < MaxRequests
      /\ reused' \in BOOLEAN
      /\ options' = Routed(Parsed(f), opts)
      /\ postPaths' = {c \in Parsed(f) : c.op = "or"}
      /\ shown' = [p \in Paths |-> IF p = Root THEN world[Root] ELSE None]
      /\ kept' = TRUE /\ stage' = 0 /\ status' = "root"
      /\ world' = world /\ required' = required
  BY DEF Request
<1>2. opts \in OptionTypes /\ OptionsFit(opts)
      /\ \A p \in Paths : \A k \in Access[p] : {k} \in opts[p]
  <2>1. CASE fresh
    <3>1. \A p \in Paths : Access[p] \in SUBSET Seq(STRING)
      BY PathsAssumption
    <3>. QED  BY <2>1, <3>1 DEF OptionTypes, OptionsFit
  <2>2. CASE ~fresh
    BY <2>2 DEF IInv, TypeOK, AskedFits, AccessAsked, OptionTypes
  <2>. QED  BY <2>1, <2>2
<1>. HIDE DEF opts
<1>3. options' \in OptionTypes /\ OptionsFit(options')
      /\ \A p \in Paths : opts[p] \subseteq options'[p]
  BY <1>1, <1>2, RoutedFits
<1>4. world[Root] \in Parts /\ world[Root] # None
  BY PathsAssumption, PathsAreSequences DEF IInv, TypeOK, RootIsAccessible
<1>5. shown' \in [Paths -> Parts \union {None}]
  BY <1>1, <1>4
<1>6. stage' \in 0..Len(Order) /\ requests' \in 0..MaxRequests
  BY <1>1, PathsAssumption DEF IInv, TypeOK
<1>7. TypeOK'
  BY <1>1, <1>3, <1>5, <1>6 DEF IInv, TypeOK, OptionTypes
<1>8. AskedFits' /\ AccessAsked'
  BY <1>1, <1>2, <1>3 DEF AskedFits, AccessAsked, Accepts, OptionsFit
<1>9. ShownInOrder' /\ RootIsAccessible'
  BY <1>1, <1>4, PathsAreSequences, PathsAssumption DEF ShownInOrder, RootIsAccessible
<1>10. ShownIsAccessible'
  <2>1. \A p \in Paths : shown'[p] # None => p = Root
    BY <1>1
  <2>2. \A q \in Paths : IsPrefix(q, Root) => q = Root
    <3>. SUFFICES ASSUME NEW q \in Paths, IsPrefix(q, Root) PROVE q = Root
      OBVIOUS
    <3>1. q \in Seq(STRING) /\ Root \in Seq(STRING) /\ Len(Root) = 0
      BY PathsAreSequences DEF Root
    <3>2. Len(q) <= 0
      BY <3>1, PrefixByNames
    <3>. QED  BY <3>1, <3>2, EmptySeq DEF Root
  <2>. QED  BY <2>1, <2>2 DEF ShownIsAccessible
<1>. QED  BY <1>7, <1>8, <1>9, <1>10 DEF IInv

\* A projection leaves a document.
LEMMA ProjectedIsPart ==
  ASSUME NEW d \in Parts \union {None}, NEW p \in Paths
  PROVE  Project(p, d) \in Parts \union {None} /\ (Project(p, d) = None <=> d = None)
<1>1. CASE d = None
  BY <1>1 DEF Project
<1>2. CASE d # None
  <2>1. Project(p, d) = [d EXCEPT !.meets = {k \in @ : Keeps(p, Head(k))}]
    BY <1>2 DEF Project
  <2>2. d.meets \subseteq Seq(STRING) /\ d.isDeleted \in BOOLEAN
    BY <1>2 DEF Parts
  <2>3. Project(p, d) \in Parts
    BY <1>2, <2>1, <2>2 DEF Parts
  <2>. QED  BY <1>2, <2>3, PathsAssumption
<1>. QED  BY <1>1, <1>2

\* The first $match keeps a base document only if it is accessible.
LEMMA MatchRootKeeps ==
  ASSUME IInv, MatchRoot
  PROVE  IInv'
<1>. DEFINE opts == options[Root] \union {c.keys : c \in Ready(0)}
<1>1. /\ status = "root" /\ status' = "lookups"
      /\ options' = IF options[Root] = {} /\ ~RootAccess THEN options
                    ELSE [options EXCEPT ![Root] = opts]
      /\ postPaths' = postPaths \ Ready(0)
      /\ kept' = Accepted(world[Root], opts)
      /\ shown' = [shown EXCEPT ![Root] = Project(Root, @)]
      /\ UNCHANGED <<world, required, asked, filter, minified, stage, requests, reused>>
  BY DEF MatchRoot
<1>2. Ready(0) \subseteq postPaths /\ postPaths \subseteq Parsed(asked)
  BY DEF Ready, IInv, TypeOK
<1>3. /\ \A c \in Parsed(asked) : c.keys \subseteq Allowed
      /\ Allowed \subseteq Seq(STRING)
  BY ParsedIsAllowed, AllowedKeys DEF IInv, TypeOK, AskedFits
<1>4. opts \in SUBSET SUBSET Seq(STRING)
  BY <1>2, <1>3, PathsAreSequences DEF IInv, TypeOK
<1>5. \A keys \in opts : \A k \in keys :
        \/ k \in Access[Root] \/ Root \o k \in Allowed
        \/ \E j \in Allowed : EndsWithin(Root, Front(j)) /\ k = KeyBelow(j, Root)
  <2>. SUFFICES ASSUME NEW c \in Ready(0), NEW k \in c.keys PROVE Root \o k \in Allowed
    BY PathsAreSequences DEF IInv, AskedFits, OptionsFit
  <2>1. k \in Allowed /\ k \in Seq(STRING)
    BY <1>2, <1>3
  <2>2. Root \o k = k
    BY <2>1, ConcatEmptySeq DEF Root
  <2>. QED  BY <2>1, <2>2
<1>6. Root \in Paths
  BY PathsAreSequences
<1>7. options' \in OptionTypes /\ OptionsFit(options')
      /\ \A p \in Paths : options[p] \subseteq options'[p]
  <2>. HIDE DEF opts
  <2>1. options \in OptionTypes /\ OptionsFit(options)
    BY DEF IInv, TypeOK, AskedFits, OptionTypes
  <2>2. options[Root] \subseteq opts
    BY DEF opts
  <2>3. CASE options[Root] = {} /\ ~RootAccess
    BY <1>1, <2>1, <2>3
  <2>4. CASE ~(options[Root] = {} /\ ~RootAccess)
    <3>1. options' = [options EXCEPT ![Root] = opts]
      BY <1>1, <2>4
    <3>2. \A p \in Paths : options'[p] = IF p = Root THEN opts ELSE options[p]
      BY <2>1, <3>1 DEF OptionTypes
    <3>3. options' \in OptionTypes
      BY <1>4, <2>1, <3>1 DEF OptionTypes
    <3>4. OptionsFit(options')
      BY <1>5, <2>1, <3>2 DEF OptionsFit
    <3>. QED  BY <2>2, <3>2, <3>3, <3>4
  <2>. QED  BY <2>3, <2>4
<1>8. /\ Project(Root, shown[Root]) \in Parts \union {None}
      /\ Project(Root, shown[Root]) # None
  BY <1>1, <1>6, ProjectedIsPart DEF IInv, TypeOK, RootIsAccessible
<1>9. /\ shown' \in [Paths -> Parts \union {None}]
      /\ \A p \in Paths : shown'[p] # None <=> shown[p] # None
  BY <1>1, <1>6, <1>8 DEF IInv, TypeOK, RootIsAccessible
<1>10. kept' \in BOOLEAN
  BY <1>1 DEF Accepted
<1>11. TypeOK'
  BY <1>1, <1>2, <1>7, <1>9, <1>10 DEF IInv, TypeOK, OptionTypes
<1>12. AskedFits' /\ AccessAsked'
  BY <1>1, <1>7 DEF IInv, AskedFits, AccessAsked, Accepts, OptionsFit
<1>13. ShownInOrder' /\ ShownIsAccessible'
  BY <1>1, <1>9, PathsAreSequences
     DEF IInv, ShownInOrder, ShownIsAccessible, Accessible
<1>14. ASSUME kept' PROVE Accessible(Root)'
  <2>1. \A k \in Access[Root] : {k} \in opts
    BY <1>6 DEF IInv, AccessAsked
  <2>2. \A k \in Access[Root] : Meets(world[Root], k)
    <3>. HIDE DEF opts
    <3>. QED  BY <1>1, <1>14, <2>1 DEF Accepted
  <2>. QED  BY <1>1, <2>2 DEF Accessible, Meets, IInv, RootIsAccessible
<1>15. RootIsAccessible'
  BY <1>1, <1>6, <1>9, <1>14 DEF IInv, RootIsAccessible
<1>. QED  BY <1>11, <1>12, <1>13, <1>15 DEF IInv

\* The keys of a request's filter are keys.
LEMMA FilterKeys ==
  ASSUME IInv
  PROVE  /\ \A c \in filter : c.keys \subseteq Seq(STRING) \ {Root}
         /\ KeysOf(filter) \subseteq Seq(STRING) \ {Root}
<1>1. filter = Parsed(asked) /\ asked \in Filters \union {{}} /\ Accepts(asked)
  BY DEF IInv, TypeOK, AskedFits
<1>. QED  BY <1>1, ParsedIsAllowed, AllowedKeys

\* A document with a reference replaced still is one, and the same one if no key
\* asked for is about the reference.
LEMMA OverwrittenIsPart ==
  ASSUME shown \in [Paths -> Parts \union {None}], NEW p \in Paths,
         NEW over \in SUBSET (Seq(STRING) \ {Root}), NEW met \in SUBSET over
  PROVE  /\ Overwritten(p, over, met) \in Parts \union {None}
         /\ Overwritten(p, over, met) = None <=> shown[p] = None
         /\ over = {} => Overwritten(p, over, met) = shown[p]
<1>1. CASE shown[p] = None
  BY <1>1 DEF Overwritten
<1>2. CASE shown[p] # None
  <2>. DEFINE new == {Rest(k, p) : k \in {j \in met : LeadsInto(j, p)}}
              meets == {k \in shown[p].meets : p \o k \notin over} \union new
  <2>1. shown[p] \in Parts
    BY <1>2
  <2>2. PICK d \in Parts : d = shown[p]
    BY <2>1
  <2>3. d.meets \subseteq Seq(STRING) /\ d.isDeleted \in BOOLEAN
    BY DEF Parts
  <2>4. new \subseteq Seq(STRING)
    BY RestBelow, PathsAreSequences DEF LeadsInto
  <2>5. Overwritten(p, over, met) = [d EXCEPT !.meets = meets]
    BY <1>2, <2>2 DEF Overwritten
  <2>6. meets \subseteq Seq(STRING)
    BY <2>2, <2>3, <2>4
  <2>7. [d EXCEPT !.meets = meets] \in Parts
    <3>. HIDE DEF meets
    <3>. QED  BY <2>3, <2>6 DEF Parts
  <2>8. over = {} => meets = d.meets
    BY <2>2
  <2>9. [d EXCEPT !.meets = d.meets] = d
    BY DEF Parts
  <2>. HIDE DEF meets
  <2>. QED  BY <1>2, <2>2, <2>5, <2>7, <2>8, <2>9, PathsAssumption
<1>. QED  BY <1>1, <1>2

\* A lookup puts its document in place, and leaves the others where they are.
LEMMA LookupShows ==
  ASSUME IInv, Lookup, NEW n, n = stage + 1, NEW l, l = Order[n]
  PROVE  /\ stage \in Nat /\ n \in Nat /\ n \in DOMAIN Order /\ n \in 0..Len(Order)
         /\ l \in Lookups /\ l \in Paths /\ l # Root /\ l \in Seq(STRING)
         /\ shown' \in [Paths -> Parts \union {None}]
         /\ shown'[l] = IF Found(l) THEN Project(l, world[l]) ELSE None
         /\ \A q \in Paths : q # l => (shown'[q] # None <=> shown[q] # None)
         /\ (\A c \in postPaths : \A k \in c.keys : ~IsPrefix(k, l))
               => \A q \in Paths : q # l => shown'[q] = shown[q]
<1>1. stage \in Nat /\ Len(Order) \in Nat /\ n \in DOMAIN Order /\ n \in 0..Len(Order)
  BY PathsAssumption DEF Lookup, IInv, TypeOK
<1>2. l \in Lookups /\ l \in Paths /\ l # Root /\ l \in Seq(STRING)
  BY <1>1, PathsAreSequences
<1>3. PICK over : over = {k \in UNION {c.keys : c \in postPaths} : IsPrefix(k, l)}
  OBVIOUS
<1>4. PICK met \in SUBSET over :
         shown' = [p \in Paths |->
                     IF p # l THEN Overwritten(p, over, met)
                     ELSE IF Found(l) THEN Project(l, world[l]) ELSE None]
  BY <1>3 DEF Lookup
<1>5. over \in SUBSET (Seq(STRING) \ {Root})
  <2>1. postPaths \subseteq filter
    BY DEF IInv, TypeOK
  <2>. QED  BY <1>3, <2>1, FilterKeys
<1>6. \A p \in Paths : /\ Overwritten(p, over, met) \in Parts \union {None}
                       /\ Overwritten(p, over, met) = None <=> shown[p] = None
                       /\ over = {} => Overwritten(p, over, met) = shown[p]
  <2>1. shown \in [Paths -> Parts \union {None}]
    BY DEF IInv, TypeOK
  <2>. QED  BY <1>5, <2>1, OverwrittenIsPart
<1>7. Project(l, world[l]) \in Parts \union {None}
  <2>1. world[l] \in Parts \union {None}
    BY <1>2, PathsAssumption DEF IInv, TypeOK
  <2>. QED  BY <1>2, <2>1, ProjectedIsPart
<1>8. shown' \in [Paths -> Parts \union {None}]
  BY <1>4, <1>6, <1>7
<1>9. shown'[l] = IF Found(l) THEN Project(l, world[l]) ELSE None
  BY <1>2, <1>4
<1>10. (\A c \in postPaths : \A k \in c.keys : ~IsPrefix(k, l)) => over = {}
  BY <1>3
<1>. QED  BY <1>1, <1>2, <1>4, <1>6, <1>8, <1>9, <1>10

\* A lookup shows an accessible document below one that is shown.
LEMMA LookupKeeps ==
  ASSUME IInv, Lookup
  PROVE  IInv'
<1>1. /\ status = "lookups" /\ stage < Len(Order) /\ stage' = stage + 1
      /\ postPaths' = postPaths \ Ready(stage + 1)
      /\ kept' \in BOOLEAN /\ (kept' => kept)
      /\ UNCHANGED <<world, required, options, asked, filter, minified, status, requests,
                     reused>>
  BY DEF Lookup, IInv, TypeOK
<1>2. /\ stage \in Nat /\ Len(Order) \in Nat /\ stage + 1 \in DOMAIN Order
      /\ stage' \in 0..Len(Order)
  BY <1>1, PathsAssumption DEF IInv, TypeOK
<1>3. PICK n : n = stage + 1
  OBVIOUS
<1>4. PICK p : p = Order[n]
  OBVIOUS
<1>5. /\ p \in Lookups /\ p \in Paths /\ p # Root /\ p \in Seq(STRING)
      /\ shown' \in [Paths -> Parts \union {None}]
      /\ shown'[p] = IF Found(p) THEN Project(p, world[p]) ELSE None
      /\ \A q \in Paths : q # p => (shown'[q] # None <=> shown[q] # None)
  BY <1>3, <1>4, LookupShows
<1>6. /\ Parent(p) \in Paths /\ Parent(p) # p
      /\ \A q \in Paths : IsPrefix(q, p) /\ q # p => IsPrefix(q, Parent(p))
  <2>1. /\ Front(p) \in Seq(STRING) /\ Len(Front(p)) = Len(p) - 1
        /\ \A q \in Paths : IsPrefix(q, p) /\ q # p => IsPrefix(q, Front(p))
    BY <1>5, FrontOfKey, PathsAreSequences
  <2>2. /\ Parent(p) \in Paths /\ IsPrefix(Parent(p), Front(p))
        /\ \A q \in Paths : IsPrefix(q, Front(p)) => IsPrefix(q, Parent(p))
    BY <1>5, <2>1, InnermostIsLongest, ParentIsInnermost
  <2>3. Len(p) \in Nat /\ Parent(p) \in Seq(STRING)
    BY <1>5, <2>2, PathsAreSequences
  <2>4. Len(Parent(p)) <= Len(p) - 1
    BY <2>1, <2>2, <2>3, PrefixByNames
  <2>. QED  BY <2>1, <2>2, <2>3, <2>4
<1>7. \A q \in Paths : q # p => (shown'[q] # None <=> shown[q] # None)
  BY <1>5
<1>8. shown'[p] # None => Found(p) /\ world[p] # None
  BY <1>5 DEF Found
<1>9. shown' \in [Paths -> Parts \union {None}]
  BY <1>5
<1>10. TypeOK'
  BY <1>1, <1>2, <1>9 DEF IInv, TypeOK
<1>11. AskedFits' /\ AccessAsked'
  BY <1>1 DEF IInv, AskedFits, AccessAsked, Accepts, OptionsFit
<1>12. ShownInOrder'
  <2>. SUFFICES ASSUME NEW q \in Lookups, shown'[q] # None
                PROVE  \E i \in 1..stage' : Order[i] = q
    BY DEF ShownInOrder
  <2>1. CASE q = p
    BY <1>1, <1>2, <1>3, <1>4, <2>1
  <2>2. CASE q # p
    BY <1>1, <1>2, <1>7, <2>2, PathsAreSequences DEF IInv, ShownInOrder
  <2>. QED  BY <2>1, <2>2
<1>13. ASSUME shown'[p] # None PROVE Accessible(p) /\ shown[Parent(p)] # None
  <2>1. Found(p) /\ world[p] # None
    BY <1>8, <1>13
  <2>2. /\ shown[Parent(p)] # None /\ Accepted(world[p], options[p])
        /\ p \in NonSoftDelete \/ ~world[p].isDeleted
    BY <2>1 DEF Found
  <2>3. \A k \in Access[p] : Meets(world[p], k)
    BY <1>5, <2>2 DEF Accepted, IInv, AccessAsked
  <2>. QED  BY <2>1, <2>2, <2>3 DEF Accessible
<1>14. \A q \in Paths : Accessible(q)' <=> Accessible(q)
  BY <1>1 DEF Accessible, Meets
<1>15. ShownIsAccessible'
  <2>. SUFFICES ASSUME NEW r \in Paths, NEW q \in Paths, shown'[r] # None, IsPrefix(q, r)
                PROVE  shown'[q] # None /\ (q # Root => Accessible(q))
    BY <1>14 DEF ShownIsAccessible
  <2>1. CASE r = p
    <3>1. CASE q = p
      BY <1>13, <2>1, <3>1
    <3>2. CASE q # p
      <4>1. shown[Parent(p)] # None /\ IsPrefix(q, Parent(p))
        BY <1>6, <1>13, <2>1, <3>2
      <4>. QED  BY <1>6, <1>7, <3>2, <4>1 DEF IInv, ShownIsAccessible
    <3>. QED  BY <3>1, <3>2
  <2>2. CASE r # p
    <3>1. shown[r] # None
      BY <1>7, <2>2
    <3>2. q # p
      <4>. SUFFICES ASSUME q = p PROVE FALSE
        OBVIOUS
      <4>1. r \in Lookups
        <5>1. r # Root
          <6>1. Len(p) \in Nat \ {0} /\ Len(Root) = 0 /\ Root \in Seq(STRING)
            BY <1>5, EmptySeq DEF Root
          <6>2. IsPrefix(p, Root) => Len(p) <= Len(Root)
            BY <1>5, <6>1, PrefixByNames
          <6>3. ~IsPrefix(p, Root)
            BY <6>1, <6>2
          <6>. QED  BY <6>3
        <5>. QED  BY <5>1, PathsAreSequences
      <4>2. PICK i \in 1..stage : Order[i] = r
        BY <3>1, <4>1 DEF IInv, ShownInOrder
      <4>3. i \in DOMAIN Order /\ n \in DOMAIN Order /\ IsPrefix(Order[n], Order[i])
        BY <1>1, <1>2, <1>3, <1>4, <4>2, PathsAssumption
      <4>4. n <= i
        BY <4>3, PathsAssumption
      <4>. QED  BY <1>2, <1>3, <4>2, <4>4
    <3>. QED  BY <1>7, <3>1, <3>2 DEF IInv, ShownIsAccessible
  <2>. QED  BY <2>1, <2>2
<1>16. RootIsAccessible'
  BY <1>1, <1>5, <1>7, <1>14, PathsAreSequences DEF IInv, RootIsAccessible
<1>. QED  BY <1>10, <1>11, <1>12, <1>15, <1>16 DEF IInv

\* A lookup left out shows nothing.
LEMMA LeaveOutKeeps ==
  ASSUME IInv, LeaveOut
  PROVE  IInv'
<1>1. /\ stage \in Nat /\ stage' = stage + 1 /\ stage' \in 0..Len(Order)
  BY PathsAssumption DEF LeaveOut, IInv, TypeOK
<1>2. UNCHANGED <<world, required, options, asked, filter, minified, status, postPaths,
                  shown, kept, requests, reused>>
  BY DEF LeaveOut
<1>3. ShownInOrder'
  BY <1>1, <1>2 DEF IInv, ShownInOrder
<1>. QED
  BY <1>1, <1>2, <1>3 DEF IInv, TypeOK, AskedFits, AccessAsked, ShownIsAccessible,
                         RootIsAccessible, Accessible

\* The last $match shows nothing more.
LEMMA AnswerKeeps ==
  ASSUME IInv, Answer
  PROVE  IInv'
<1>1. /\ status = "lookups" /\ status' = "answered" /\ postPaths' = {}
      /\ kept' \in BOOLEAN /\ (kept' => kept)
      /\ UNCHANGED <<world, required, options, asked, filter, minified, stage, shown,
                     requests, reused>>
  BY DEF Answer, IInv, TypeOK
<1>2. RootIsAccessible'
  BY <1>1 DEF IInv, RootIsAccessible, Accessible
<1>. QED
  BY <1>1, <1>2 DEF IInv, TypeOK, AskedFits, AccessAsked, ShownInOrder, ShownIsAccessible,
                   Accessible

\* Every reachable state satisfies the invariant.
LEMMA Inductive == Spec => []IInv
<1>1. IInv /\ [Next]_vars => IInv'
  <2>1. IInv /\ UNCHANGED vars => IInv'
    <3>. SUFFICES ASSUME IInv, UNCHANGED vars PROVE IInv'
      OBVIOUS
    <3>1. UNCHANGED <<world, required, options, asked, filter, minified, status, stage,
                      postPaths, shown, kept, requests, reused>>
      BY DEF vars
    <3>. QED
      BY <3>1 DEF IInv, TypeOK, AskedFits, AccessAsked, ShownInOrder, ShownIsAccessible,
                  RootIsAccessible, Accessible
  <2>. QED
    BY <2>1, RefuseKeeps, RequestKeeps, MatchRootKeeps, LookupKeeps, LeaveOutKeeps,
       AnswerKeeps DEF Next
<1>. QED  BY InitHolds, <1>1, PTL DEF Spec

-----------------------------------------------------------------------------
\* Every variable of a search along paths has its type.
THEOREM TypeCorrect == Spec => []TypeOK
<1>1. IInv => TypeOK
  BY DEF IInv
<1>. QED  BY Inductive, <1>1, PTL

\* No filter gets MongoDB to look at what is not declared filterable, not even
\* through path options that are used again.
THEOREM OnlyFilterableIsAsked == Spec => []OnlyFilterable
<1>1. IInv => OnlyFilterable
  <2>. SUFFICES ASSUME IInv PROVE OnlyFilterable
    OBVIOUS
  <2>1. postPaths \subseteq Parsed(asked) /\ asked \in Filters \union {{}} /\ Accepts(asked)
    BY DEF IInv, TypeOK, AskedFits
  <2>2. \A c \in Parsed(asked) : c.keys \subseteq Allowed
    BY <2>1, ParsedIsAllowed
  <2>. QED  BY <2>1, <2>2 DEF IInv, AskedFits, OptionsFit, OnlyFilterable
<1>. QED  BY Inductive, <1>1, PTL

\* What is shown is accessible, along the whole path.
THEOREM NothingHiddenIsEverShown == Spec => []NothingHiddenIsShown
<1>1. IInv => NothingHiddenIsShown
  <2>. SUFFICES ASSUME IInv, status = "answered", kept,
                       NEW p \in Paths, shown[p] # None, NEW q \in Paths, IsPrefix(q, p)
                PROVE  shown[q] # None /\ Accessible(q)
    BY DEF NothingHiddenIsShown
  <2>. QED  BY DEF IInv, ShownIsAccessible, RootIsAccessible
<1>. QED  BY Inductive, <1>1, PTL
-----------------------------------------------------------------------------
(* What is returned is meant *)

\* The document at p meets the filter's conditions on it.
OwnConditions(p) ==
    \A k \in KeysOf(filter) : Innermost(Front(k)) = p => Meets(world[p], Rest(k, p))

\* The conditions of the filter are in the path options, with those that
\* earlier requests left there.
FilterRouted ==
    \A p \in Paths : \A k \in KeysOf(filter) :
        Innermost(Front(k)) = p => {Rest(k, p)} \in options[p]

\* The stages so far let nothing through that they should not, and no $or that
\* waits could have been decided by the base document.
StagesNarrow ==
    /\ status = "root" => stage = 0 /\ postPaths = {c \in filter : c.op = "or"}
    /\ status = "lookups" => \A c \in postPaths : c.op = "or" /\ WaitsFor(c) # {}
    /\ status = "answered" => stage = Len(Order) /\ postPaths = {}
    /\ \A p \in Paths : shown[p] # None =>
          /\ shown[p] = world[p]
          /\ p # Root => OwnConditions(p)
    /\ status \in {"lookups", "answered"} /\ kept =>
          /\ OwnConditions(Root)
          /\ \A i \in 1..stage : Order[i] \in required => shown[Order[i]] # None
          /\ \A c \in filter : c.op = "or" => c \in postPaths \/ Holds(c, shown)

Narrows == FilterRouted /\ (~minified => StagesNarrow)
NarrowInv == Straight => Narrows

\* Without a projection a document is what it was.
LEMMA NotProjected ==
  ASSUME ~minified, NEW d \in Parts \union {None}, NEW p
  PROVE  Project(p, d) = d
<1>1. CASE d = None
  BY <1>1 DEF Project
<1>2. CASE d # None
  <2>1. Project(p, d) = [d EXCEPT !.meets = {k \in d.meets : Keeps(p, Head(k))}]
    BY <1>2 DEF Project
  <2>2. \A name : Keeps(p, name)
    BY DEF Keeps
  <2>3. {k \in d.meets : Keeps(p, Head(k))} = d.meets
    BY <2>2
  <2>. QED  BY <1>2, <2>1, <2>3 DEF Parts
<1>. QED  BY <1>1, <1>2

\* An $or that waits for nothing is about the base document.
LEMMA RootCondition ==
  ASSUME IInv, NEW c \in filter, WaitsFor(c) = {}, NEW at
  PROVE  Holds(c, at) <=> \E k \in c.keys : Meets(at[Root], k)
<1>1. ASSUME NEW k \in c.keys
      PROVE  Rest(k, Root) = k /\ \A p \in Paths : LeadsInto(k, p) <=> p = Root
  <2>1. k \in Seq(STRING) /\ k # Root
    BY FilterKeys
  <2>2. Front(k) = Root
    BY DEF WaitsFor
  <2>3. Innermost(Front(k)) = Root
    <3>1. Root \in Seq(STRING) /\ Len(Root) = 0
      BY DEF Root
    <3>2. PICK o \in Paths : o = Innermost(Root)
      BY <3>1, InnermostIsLongest
    <3>3. IsPrefix(o, Root) /\ o \in Seq(STRING)
      BY <3>1, <3>2, InnermostIsLongest, PathsAreSequences
    <3>4. Len(o) <= 0
      BY <3>1, <3>3, PrefixByNames
    <3>. QED  BY <2>2, <3>2, <3>3, <3>4, EmptySeq DEF Root
  <2>4. \A p \in Paths : LeadsInto(k, p) <=> p = Root
    BY <2>1, <2>3, LeadsIntoInnermost
  <2>5. Rest(k, Root) = k
    <3>1. IsPrefix(Root, Front(k))
      BY <2>2, PrefixOrder, PathsAreSequences
    <3>2. Rest(k, Root) \in Seq(STRING) /\ Root \o Rest(k, Root) = k
      BY <2>1, <3>1, RestBelow, PathsAreSequences
    <3>. QED  BY <3>2, ConcatEmptySeq DEF Root
  <2>. QED  BY <2>4, <2>5
<1>2. Root \in Paths
  BY PathsAreSequences
<1>. QED  BY <1>1, <1>2 DEF Holds

\* If no lookup ends within a name, keys are routed as MongoDB would read them.
LEMMA StraightRoutes ==
  ASSUME NEW f \in Filters, Accepts(f), NEW p \in Paths,
         \A c \in Parsed(f) : c.op = "key" =>
            \A k \in c.keys, l \in Lookups : ~EndsWithin(l, Front(k))
  PROVE  RoutedTo(p, Parsed(f))
            = {{Rest(k, p)} : k \in {j \in KeysOf(Parsed(f)) : Innermost(Front(j)) = p}}
<1>1. ASSUME NEW k \in KeysOf(Parsed(f))
      PROVE  /\ Owns(p, Front(k)) <=> Innermost(Front(k)) = p
             /\ Innermost(Front(k)) = p => KeyBelow(k, p) = Rest(k, p)
  <2>1. k \in Seq(STRING) /\ k # Root
    BY ParsedIsAllowed, AllowedKeys
  <2>2. \A l \in Lookups : ~EndsWithin(l, Front(k))
    BY <1>1 DEF KeysOf
  <2>3. Owns(p, Front(k)) <=> Innermost(Front(k)) = p
    BY <2>1, <2>2, OwnsInnermost
  <2>4. Innermost(Front(k)) = p => IsPrefix(p, Front(k))
    BY <2>1, FrontOfKey, InnermostIsLongest
  <2>. QED  BY <2>3, <2>4 DEF KeyBelow
<1>. QED  BY <1>1 DEF RoutedTo

\* A request routes its own conditions.
LEMMA NarrowRequest ==
  ASSUME IInv, IInv', NEW f \in Filters, NEW fresh \in BOOLEAN, NEW mini \in BOOLEAN,
         Request(f, fresh, mini), Straight'
  PROVE  Narrows'
<1>1. PICK opts : /\ options' = Routed(filter', opts)
                  /\ postPaths' = {c \in filter' : c.op = "or"}
                  /\ shown' = [p \in Paths |-> IF p = Root THEN world[Root] ELSE None]
                  /\ stage' = 0 /\ status' = "root" /\ world' = world
  BY DEF Request
<1>2. \A p \in Paths : options'[p] = opts[p] \union
         {{Rest(k, p)} : k \in {j \in KeysOf(filter') : Innermost(Front(j)) = p}}
  <2>1. filter' = Parsed(f) /\ Accepts(f)
    BY DEF Request
  <2>2. \A c \in Parsed(f) : c.op = "key" =>
            \A k \in c.keys, l \in Lookups : ~EndsWithin(l, Front(k))
    BY <2>1 DEF Straight
  <2>. QED  BY <1>1, <2>1, <2>2, StraightRoutes DEF Routed
<1>3. FilterRouted'
  BY <1>2 DEF FilterRouted, KeysOf
<1>4. StagesNarrow'
  BY <1>1, PathsAreSequences DEF StagesNarrow
<1>. QED  BY <1>3, <1>4 DEF Narrows

\* What accepts the options of a path meets the conditions routed to it.
LEMMA AcceptedMeets ==
  ASSUME FilterRouted, NEW p \in Paths, NEW opts, options[p] \subseteq opts,
         Accepted(world[p], opts)
  PROVE  OwnConditions(p)
  BY DEF FilterRouted, Accepted, OwnConditions

\* The first $match lets only base documents through that the filter means.
LEMMA NarrowRoot ==
  ASSUME IInv, Narrows, MatchRoot
  PROVE  Narrows'
<1>1. Root \in Paths
  BY PathsAreSequences
<1>2. PICK opts : opts = options[Root] \union {c.keys : c \in Ready(0)}
  OBVIOUS
<1>3. /\ status = "root" /\ status' = "lookups"
      /\ options' = IF options[Root] = {} /\ ~RootAccess THEN options
                    ELSE [options EXCEPT ![Root] = opts]
      /\ postPaths' = postPaths \ Ready(0)
      /\ kept' = Accepted(world[Root], opts)
      /\ shown' = [shown EXCEPT ![Root] = Project(Root, @)]
      /\ UNCHANGED <<world, required, asked, filter, minified, stage, requests, reused>>
  BY <1>2 DEF MatchRoot
<1>4. \A p \in Paths : options[p] \subseteq options'[p]
  <2>1. options \in OptionTypes
    BY DEF IInv, TypeOK, OptionTypes
  <2>. QED  BY <1>2, <1>3, <2>1 DEF OptionTypes
<1>5. FilterRouted'
  <2>1. KeysOf(filter') = KeysOf(filter)
    BY <1>3
  <2>. QED  BY <1>4, <2>1 DEF FilterRouted, Narrows
<1>6. ASSUME ~minified PROVE StagesNarrow'
  <2>1. StagesNarrow
    BY <1>6 DEF Narrows
  <2>2. shown' = shown
    <3>1. shown[Root] \in Parts \union {None} /\ shown \in [Paths -> Parts \union {None}]
      BY <1>1 DEF IInv, TypeOK
    <3>2. Project(Root, shown[Root]) = shown[Root]
      BY <1>6, <3>1, NotProjected
    <3>. QED  BY <1>1, <1>3, <3>1, <3>2
  <2>3. \A p : OwnConditions(p)' <=> OwnConditions(p)
    BY <1>3 DEF OwnConditions, KeysOf, Meets
  <2>4. \A c : Holds(c, shown)' <=> Holds(c, shown)
    BY <2>2 DEF Holds, LeadsInto, Meets
  <2>5. kept' => OwnConditions(Root)
    BY <1>1, <1>2, <1>3, AcceptedMeets DEF Narrows
  <2>6. ASSUME NEW c \in Ready(0), kept' PROVE Holds(c, shown)
    <3>1. c \in filter /\ WaitsFor(c) = {}
      <4>1. LookedUp(0) = {}
        BY DEF LookedUp
      <4>. QED  BY <4>1 DEF Ready, IInv, TypeOK
    <3>2. \E k \in c.keys : Meets(world[Root], k)
      BY <1>2, <1>3, <2>6 DEF Accepted
    <3>3. shown[Root] = world[Root]
      BY <1>3 DEF IInv, RootIsAccessible
    <3>. QED  BY <3>1, <3>2, <3>3, RootCondition
  <2>7. stage = 0 /\ \A c \in filter : c.op = "or" => c \in postPaths
    BY <1>3, <2>1 DEF StagesNarrow
  <2>8. \A c \in filter : c.op = "or" /\ kept' => c \in postPaths' \/ Holds(c, shown)'
    BY <1>3, <2>4, <2>6, <2>7
  <2>9. \A p \in Paths : shown'[p] # None =>
           shown'[p] = world'[p] /\ (p # Root => OwnConditions(p)')
    BY <1>3, <2>1, <2>2, <2>3 DEF StagesNarrow
  <2>10. status' = "lookups" /\ stage' = 0 /\ 1..0 = {}
    BY <1>3, <2>7
  <2>12. \A c \in postPaths' : c.op = "or" /\ WaitsFor(c) # {}
    BY <1>3, <2>1 DEF StagesNarrow, Ready
  <2>11. filter' = filter /\ (kept' => OwnConditions(Root)')
    BY <1>3, <2>3, <2>5
  <2>13. \A c : WaitsFor(c)' = WaitsFor(c)
    BY DEF WaitsFor
  <2>. QED  BY <2>8, <2>9, <2>10, <2>11, <2>12, <2>13 DEF StagesNarrow
<1>. QED  BY <1>3, <1>5, <1>6 DEF Narrows

\* A lookup shows only documents that meet what was routed to their path.
LEMMA NarrowLookup ==
  ASSUME IInv, Straight, Narrows, Lookup
  PROVE  Narrows'
<1>1. PICK n : n = stage + 1
  OBVIOUS
<1>2. PICK l : l = Order[n]
  OBVIOUS
<1>3. /\ n \in Nat /\ n \in DOMAIN Order /\ stage \in Nat
      /\ l \in Lookups /\ l \in Paths /\ l # Root
      /\ shown'[l] = IF Found(l) THEN Project(l, world[l]) ELSE None
      /\ (\A c \in postPaths : \A k \in c.keys : ~IsPrefix(k, l))
            => \A q \in Paths : q # l => shown'[q] = shown[q]
  BY <1>1, <1>2, LookupShows
<1>4. /\ status = "lookups" /\ stage < Len(Order) /\ stage' = n
      /\ postPaths' = postPaths \ Ready(n)
      /\ kept' => /\ kept /\ (l \in required => shown'[l] # None)
                  /\ \A c \in Ready(n) : Holds(c, shown')
      /\ UNCHANGED <<world, required, options, asked, filter, minified, status, requests,
                     reused>>
  BY <1>1, <1>2 DEF Lookup
<1>5. stage \in Nat /\ n \in Nat /\ n \in DOMAIN Order /\ stage = n - 1
  BY <1>1, <1>3
<1>6. l \in Lookups /\ l \in Paths /\ l # Root
  BY <1>3
<1>7. shown[l] = None
  <2>. SUFFICES ASSUME shown[l] # None PROVE FALSE
    OBVIOUS
  <2>1. PICK i \in 1..stage : Order[i] = l
    BY <1>6 DEF IInv, ShownInOrder
  <2>2. i \in DOMAIN Order /\ IsPrefix(Order[n], Order[i])
    BY <1>2, <1>4, <1>5, <1>6, <2>1, PrefixOrder, PathsAreSequences, PathsAssumption
  <2>3. n <= i
    BY <1>5, <2>2, PathsAssumption
  <2>. QED  BY <1>5, <2>1, <2>3
<1>8. ASSUME ~minified PROVE \A q \in Paths : q # l => shown'[q] = shown[q]
  <2>1. ASSUME NEW c \in postPaths, NEW k \in c.keys PROVE ~IsPrefix(k, l)
    <3>1. c \in filter /\ c.op = "or" /\ WaitsFor(c) # {}
      BY <1>4, <1>8, <2>1 DEF Narrows, StagesNarrow, IInv, TypeOK
    <3>. QED  BY <1>6, <2>1, <3>1 DEF Straight
  <2>. QED  BY <1>3, <2>1
<1>9. FilterRouted'
  BY <1>4 DEF FilterRouted, Narrows, KeysOf
<1>10. ASSUME ~minified PROVE StagesNarrow'
  <2>1. StagesNarrow
    BY <1>10 DEF Narrows
  <2>2. \A p : OwnConditions(p)' <=> OwnConditions(p)
    BY <1>4 DEF OwnConditions, KeysOf, Meets
  <2>3. ASSUME shown'[l] # None PROVE shown'[l] = world[l] /\ OwnConditions(l)
    <3>1. shown'[l] = IF Found(l) THEN Project(l, world[l]) ELSE None
      BY <1>3
    <3>2. Found(l)
      BY <2>3, <3>1
    <3>3. world[l] \in Parts \union {None}
      BY <1>6, PathsAssumption DEF IInv, TypeOK
    <3>4. shown'[l] = world[l]
      BY <1>10, <3>1, <3>2, <3>3, NotProjected
    <3>5. Accepted(world[l], options[l])
      BY <3>2 DEF Found
    <3>6. FilterRouted
      BY DEF Narrows
    <3>7. OwnConditions(l)
      BY <1>6, <3>5, <3>6, AcceptedMeets
    <3>. QED  BY <3>4, <3>7
  <2>4. \A p \in Paths : shown'[p] # None =>
           shown'[p] = world'[p] /\ (p # Root => OwnConditions(p)')
    BY <1>4, <1>8, <1>10, <2>1, <2>2, <2>3 DEF StagesNarrow
  <2>5. ASSUME NEW c, Holds(c, shown) PROVE Holds(c, shown)'
    <3>1. PICK k \in c.keys, p \in Paths : LeadsInto(k, p) /\ Meets(shown[p], Rest(k, p))
      BY <2>5 DEF Holds
    <3>2. p # l
      BY <1>7, <3>1 DEF Meets
    <3>3. Meets(shown'[p], Rest(k, p))
      BY <1>8, <1>10, <3>1, <3>2
    <3>. QED  BY <3>1, <3>3 DEF Holds, LeadsInto, Meets
  <2>6. ASSUME kept', NEW c \in filter, c.op = "or"
        PROVE  c \in postPaths' \/ Holds(c, shown)'
    <3>1. c \in postPaths \/ Holds(c, shown)
      BY <1>4, <2>1, <2>6 DEF StagesNarrow
    <3>2. CASE c \in Ready(n)
      <4>1. Holds(c, shown')
        BY <1>4, <2>6, <3>2
      <4>. QED  BY <4>1 DEF Holds, LeadsInto, Meets
    <3>. QED  BY <1>4, <2>5, <3>1, <3>2
  <2>7. ASSUME kept', NEW i \in 1..n, Order[i] \in required
        PROVE  shown'[Order[i]] # None
    <3>1. CASE i = n
      BY <1>2, <1>4, <2>7, <3>1
    <3>2. CASE i # n
      <4>1. i \in 1..stage
        BY <1>5, <3>2
      <4>2. shown[Order[i]] # None
        BY <1>4, <2>1, <2>7, <4>1 DEF StagesNarrow
      <4>3. Order[i] \in Paths
        <5>1. i \in DOMAIN Order
          BY <1>4, <1>5, <4>1, PathsAssumption
        <5>. QED  BY <5>1, PathsAreSequences
      <4>. QED  BY <1>7, <1>8, <1>10, <4>2, <4>3
    <3>. QED  BY <3>1, <3>2
  <2>8. kept' => OwnConditions(Root)'
    BY <1>4, <2>1, <2>2 DEF StagesNarrow
  <2>9. status' = "lookups" /\ stage' = n /\ filter' = filter /\ required' = required
    BY <1>4
  <2>10. \A c \in postPaths' : c.op = "or" /\ WaitsFor(c) # {}
    BY <1>4, <2>1 DEF StagesNarrow
  <2>11. \A c : WaitsFor(c)' = WaitsFor(c)
    BY DEF WaitsFor
  <2>. QED  BY <2>4, <2>6, <2>7, <2>8, <2>9, <2>10, <2>11 DEF StagesNarrow
<1>. QED  BY <1>4, <1>9, <1>10 DEF Narrows

\* The last $match leaves no $or out.
LEMMA NarrowAnswer ==
  ASSUME IInv, Narrows, Answer
  PROVE  Narrows'
<1>1. /\ status = "lookups" /\ stage = Len(Order) /\ status' = "answered"
      /\ postPaths' = {}
      /\ kept' = (kept /\ \A c \in postPaths : Holds(c, shown))
      /\ UNCHANGED <<world, required, options, asked, filter, minified, stage, shown,
                     requests, reused>>
  BY DEF Answer
<1>2. FilterRouted'
  BY <1>1 DEF FilterRouted, Narrows, KeysOf
<1>3. ASSUME ~minified PROVE StagesNarrow'
  <2>1. StagesNarrow
    BY <1>3 DEF Narrows
  <2>2. \A p : OwnConditions(p)' <=> OwnConditions(p)
    BY <1>1 DEF OwnConditions, KeysOf, Meets
  <2>3. \A c : Holds(c, shown)' <=> Holds(c, shown)
    BY <1>1 DEF Holds, LeadsInto, Meets
  <2>4. ASSUME kept', NEW c \in filter, c.op = "or" PROVE Holds(c, shown)'
    BY <1>1, <2>1, <2>3, <2>4 DEF StagesNarrow
  <2>5. \A p \in Paths : shown'[p] # None =>
           shown'[p] = world'[p] /\ (p # Root => OwnConditions(p)')
    BY <1>1, <2>1, <2>2 DEF StagesNarrow
  <2>6. kept' => /\ OwnConditions(Root)'
                 /\ \A i \in 1..stage' : Order[i] \in required' => shown'[Order[i]] # None
    BY <1>1, <2>1, <2>2 DEF StagesNarrow
  <2>7. status' = "answered" /\ stage' = Len(Order) /\ filter' = filter
    BY <1>1
  <2>. QED  BY <1>1, <2>4, <2>5, <2>6, <2>7 DEF StagesNarrow
<1>. QED  BY <1>1, <1>2, <1>3 DEF Narrows

\* Every step lets through only what the filter means so far.
LEMMA NarrowStep == IInv /\ IInv' /\ NarrowInv /\ [Next]_vars => NarrowInv'
<1>. SUFFICES ASSUME IInv, IInv', NarrowInv, [Next]_vars, Straight' PROVE Narrows'
  BY DEF NarrowInv
<1>1. ASSUME filter' = filter PROVE Straight /\ Narrows
  <2>1. Straight
    BY <1>1 DEF Straight, WaitsFor
  <2>. QED  BY <2>1 DEF NarrowInv
<1>2. ASSUME UNCHANGED <<world, required, options, asked, filter, minified, status,
                         stage, postPaths, shown, kept>>
      PROVE  Narrows'
  <2>1. FilterRouted'
    BY <1>1, <1>2 DEF Narrows, FilterRouted, KeysOf
  <2>2. \A p : OwnConditions(p)' <=> OwnConditions(p)
    BY <1>2 DEF OwnConditions, KeysOf, Meets
  <2>3. \A c : (Holds(c, shown)' <=> Holds(c, shown)) /\ WaitsFor(c)' = WaitsFor(c)
    BY <1>2 DEF Holds, LeadsInto, Meets, WaitsFor
  <2>4. StagesNarrow => StagesNarrow'
    BY <1>2, <2>2, <2>3 DEF StagesNarrow
  <2>. QED  BY <1>1, <1>2, <2>1, <2>4 DEF Narrows
<1>3. ASSUME NEW f \in Filters, Refuse(f) PROVE Narrows'
  BY <1>2, <1>3 DEF Refuse
<1>4. CASE LeaveOut
  <2>1. /\ minified /\ minified' = minified
        /\ UNCHANGED <<options, filter>>
    BY <1>4 DEF LeaveOut, Included
  <2>2. FilterRouted
    BY <1>1, <2>1 DEF Narrows
  <2>. QED  BY <2>1, <2>2 DEF Narrows, FilterRouted, KeysOf
<1>5. CASE UNCHANGED vars
  BY <1>2, <1>5 DEF vars
<1>6. MatchRoot \/ Lookup \/ Answer => filter' = filter
  BY DEF MatchRoot, Lookup, Answer
<1>. QED
  BY <1>1, <1>3, <1>4, <1>5, <1>6, NarrowRequest, NarrowRoot, NarrowLookup, NarrowAnswer
     DEF Next

\* A shown document is visible: it meets the filter on the whole path to it.
LEMMA ShownIsVisible ==
  ASSUME IInv, StagesNarrow, status = "answered", kept,
         NEW p \in Paths, shown[p] # None
  PROVE  Visible(p)
<1>. SUFFICES ASSUME NEW q \in Paths, IsPrefix(q, p)
              PROVE  /\ Accessible(q)
                     /\ \A j \in KeysOf(asked) :
                           LeadsInto(Named(j), q) => Meets(world[q], Rest(Named(j), q))
  BY DEF Visible
<1>1. shown[q] # None /\ Accessible(q)
  BY DEF IInv, ShownIsAccessible, RootIsAccessible
<1>2. OwnConditions(q)
  BY <1>1 DEF StagesNarrow
<1>3. ASSUME NEW j \in KeysOf(asked), LeadsInto(Named(j), q)
      PROVE  Meets(world[q], Rest(Named(j), q))
  <2>1. PICK c \in asked : c.op = "key" /\ j \in c.keys
    BY <1>3 DEF KeysOf
  <2>2. PICK d : d = [c EXCEPT !.keys = {FullPath(k) : k \in @}]
    OBVIOUS
  <2>3. d \in filter
    BY <2>2 DEF IInv, TypeOK, Parsed
  <2>4. c \in Conditions
    BY PathsAssumption DEF IInv, TypeOK
  <2>5. d.op = "key" /\ Named(j) \in d.keys
    BY <2>1, <2>2, <2>4 DEF Conditions, Named, FullPath
  <2>6. Named(j) \in KeysOf(filter)
    BY <2>3, <2>5 DEF KeysOf
  <2>7. Innermost(Front(Named(j))) = q
    BY <1>3, <2>6, FilterKeys, LeadsIntoInnermost
  <2>. QED  BY <1>2, <2>6, <2>7 DEF OwnConditions
<1>. QED  BY <1>1, <1>3

\* A Straight filter has no $nor.
LEMMA StraightHasNoNor ==
  ASSUME IInv, Straight, NEW c \in asked
  PROVE  c.op # "nor"
<1>1. PICK d : d = [c EXCEPT !.keys = {FullPath(k) : k \in @}]
  OBVIOUS
<1>2. d \in filter
  BY <1>1 DEF IInv, TypeOK, Parsed
<1>3. c \in Conditions
  BY PathsAssumption DEF IInv, TypeOK
<1>4. d.op = c.op
  BY <1>1, <1>3 DEF Conditions
<1>. QED  BY <1>2, <1>4 DEF Straight

\* For any path options, however often they are used again and whatever they
\* were used for, no Straight filter returns a document that it does not mean.
THEOREM ReuseAlwaysNarrows == Spec => []ReuseOnlyNarrows
<1>1. Init => NarrowInv
  BY PathsAreSequences DEF Init, NarrowInv, Narrows, FilterRouted, StagesNarrow, KeysOf
<1>2. Spec => []NarrowInv
  BY <1>1, NarrowStep, Inductive, PTL DEF Spec
<1>3. IInv /\ NarrowInv => ReuseOnlyNarrows
  <2>. SUFFICES ASSUME IInv, NarrowInv, status = "answered", ~minified, kept, Straight
                PROVE  Meant
    BY DEF ReuseOnlyNarrows
  <2>1. StagesNarrow
    BY DEF NarrowInv, Narrows
  <2>2. Visible(Root)
    BY <2>1, ShownIsVisible, PathsAreSequences DEF IInv, RootIsAccessible
  <2>3. ASSUME NEW l \in required PROVE Visible(l)
    <3>1. l \in Lookups /\ l \in Paths
      BY PathsAreSequences DEF IInv, TypeOK
    <3>2. PICK i \in DOMAIN Order : Order[i] = l
      BY <3>1, PathsAreSequences
    <3>3. i \in 1..stage
      BY <2>1, PathsAssumption DEF StagesNarrow
    <3>4. shown[l] # None
      BY <2>1, <2>3, <3>2, <3>3 DEF StagesNarrow
    <3>. QED  BY <2>1, <3>1, <3>4, ShownIsVisible
  <2>4. ASSUME NEW c \in asked, c.op = "or"
        PROVE  SomeMet(c)
    <3>1. PICK d : d = [c EXCEPT !.keys = {FullPath(k) : k \in @}]
      OBVIOUS
    <3>2. d \in filter
      BY <3>1 DEF IInv, TypeOK, Parsed
    <3>3. c \in Conditions
      BY PathsAssumption DEF IInv, TypeOK
    <3>4. d.op = "or" /\ d.keys = {FullPath(k) : k \in c.keys}
      BY <2>4, <3>1, <3>3 DEF Conditions
    <3>5. Holds(d, shown)
      BY <2>1, <3>2, <3>4 DEF StagesNarrow
    <3>6. PICK k \in d.keys, p \in Paths : LeadsInto(k, p) /\ Meets(shown[p], Rest(k, p))
      BY <3>5 DEF Holds
    <3>7. PICK j \in c.keys : k = Named(j)
      BY <3>4, <3>6 DEF Named, FullPath
    <3>8. shown[p] # None
      BY <3>6 DEF Meets
    <3>9. shown[p] = world[p] /\ Visible(p)
      BY <2>1, <3>8, ShownIsVisible DEF StagesNarrow
    <3>. QED  BY <3>6, <3>7, <3>9 DEF SomeMet
  <2>5. \A c \in asked : c.op # "nor"
    BY StraightHasNoNor
  <2>. QED  BY <2>2, <2>3, <2>4, <2>5 DEF Meant
<1>. QED  BY <1>2, <1>3, Inductive, PTL

-----------------------------------------------------------------------------
(* What is meant is returned *)

\* The document at p is accessible and meets the filter's conditions on it.
Here(p) == Accessible(p) /\ OwnConditions(p)

\* A document that is looked up by now, and there with all above it.
LookedUpHere(l) ==
    /\ \E i \in 1..stage : Order[i] = l
    /\ \A q \in Paths : IsPrefix(q, l) /\ q # Root => Here(q)

\* The path options hold what this request and the caller ask for, no more.
OptionsExact ==
    \A p \in Paths : p # Root \/ status = "root" =>
        \A keys \in options[p] :
            \/ \E k \in Access[p] : keys = {k}
            \/ \E k \in KeysOf(filter) : Innermost(Front(k)) = p /\ keys = {Rest(k, p)}

\* The stages so far let through all that they should.
StagesExact ==
    /\ status = "root" => postPaths = {c \in filter : c.op = "or"}
    /\ status = "lookups" => postPaths = {c \in filter : c.op = "or" /\ WaitsFor(c) # {}}
    /\ status \in {"lookups", "answered"} =>
          /\ \A l \in Lookups : shown[l] # None <=> LookedUpHere(l)
          /\ kept <=> /\ Here(Root)
                      /\ \A i \in 1..stage : Order[i] \in required => shown[Order[i]] # None
                      /\ \A c \in filter :
                            c.op = "or" /\ (status = "lookups" => WaitsFor(c) = {})
                               => Holds(c, shown)

Exacts ==
    /\ ~reused /\ status # "idle" => OptionsExact
    /\ ~reused /\ ~minified => StagesExact

\* Path options are the caller's before the first request.
Unused ==
    requests = 0 => status = "idle" /\ options = [p \in Paths |-> {{k} : k \in Access[p]}]

ExactInv == Unused /\ (Straight => Exacts)

\* What the options of a path accept is what is accessible and asked for there.
LEMMA AcceptedIsHere ==
  ASSUME IInv, FilterRouted, OptionsExact, NEW p \in Paths, p # Root \/ status = "root"
  PROVE  Accepted(world[p], options[p]) <=>
            (\A k \in Access[p] : Meets(world[p], k)) /\ OwnConditions(p)
<1>1. ASSUME Accepted(world[p], options[p])
      PROVE  (\A k \in Access[p] : Meets(world[p], k)) /\ OwnConditions(p)
  <2>1. \A k \in Access[p] : {k} \in options[p]
    BY DEF IInv, AccessAsked
  <2>2. \A k \in Access[p] : Meets(world[p], k)
    BY <1>1, <2>1 DEF Accepted
  <2>. QED  BY <1>1, <2>2, AcceptedMeets
<1>2. ASSUME \A k \in Access[p] : Meets(world[p], k), OwnConditions(p)
      PROVE  Accepted(world[p], options[p])
  <2>. SUFFICES ASSUME NEW keys \in options[p] PROVE \E k \in keys : Meets(world[p], k)
    BY DEF Accepted
  <2>1. CASE \E k \in Access[p] : keys = {k}
    BY <1>2, <2>1
  <2>2. CASE \E k \in KeysOf(filter) : Innermost(Front(k)) = p /\ keys = {Rest(k, p)}
    BY <1>2, <2>2 DEF OwnConditions
  <2>. QED  BY <2>1, <2>2 DEF OptionsExact
<1>. QED  BY <1>1, <1>2

\* A document is visible if it is there, with all above it.
LEMMA VisibleIsHere ==
  ASSUME IInv, NEW p \in Paths
  PROVE  Visible(p) <=> \A q \in Paths : IsPrefix(q, p) => Here(q)
<1>1. ASSUME NEW q \in Paths
      PROVE  (\A j \in KeysOf(asked) :
                 LeadsInto(Named(j), q) => Meets(world[q], Rest(Named(j), q)))
             <=> OwnConditions(q)
  <2>1. KeysOf(filter) = {Named(j) : j \in KeysOf(asked)}
    <3>1. filter = {[c EXCEPT !.keys = {FullPath(k) : k \in @}] : c \in asked}
      BY DEF IInv, TypeOK, Parsed
    <3>2. asked \subseteq Conditions
      BY PathsAssumption DEF IInv, TypeOK
    <3>3. ASSUME NEW c \in asked, NEW d, d = [c EXCEPT !.keys = {FullPath(k) : k \in @}]
          PROVE  d.op = c.op /\ d.keys = {Named(k) : k \in c.keys}
      BY <3>2, <3>3 DEF Conditions, Named, FullPath
    <3>4. ASSUME NEW k \in KeysOf(filter) PROVE \E j \in KeysOf(asked) : k = Named(j)
      <4>1. PICK d \in filter : d.op = "key" /\ k \in d.keys
        BY <3>4 DEF KeysOf
      <4>2. PICK c \in asked : d = [c EXCEPT !.keys = {FullPath(j) : j \in @}]
        BY <3>1
      <4>3. PICK e : e = [c EXCEPT !.keys = {FullPath(j) : j \in @}]
        OBVIOUS
      <4>4. e.op = c.op /\ e.keys = {Named(j) : j \in c.keys} /\ d = e
        BY <3>3, <4>2, <4>3
      <4>5. PICK j \in c.keys : k = Named(j)
        BY <4>1, <4>4
      <4>6. j \in KeysOf(asked)
        BY <4>1, <4>4, <4>5 DEF KeysOf
      <4>. QED  BY <4>5, <4>6
    <3>5. ASSUME NEW j \in KeysOf(asked) PROVE Named(j) \in KeysOf(filter)
      <4>1. PICK c \in asked : c.op = "key" /\ j \in c.keys
        BY <3>5 DEF KeysOf
      <4>2. PICK d : d = [c EXCEPT !.keys = {FullPath(k) : k \in @}]
        OBVIOUS
      <4>3. d \in filter /\ d.op = "key" /\ Named(j) \in d.keys
        BY <3>1, <3>3, <4>1, <4>2
      <4>. QED  BY <4>3 DEF KeysOf
    <3>. QED  BY <3>4, <3>5
  <2>2. \A k \in KeysOf(filter) : LeadsInto(k, q) <=> Innermost(Front(k)) = q
    BY FilterKeys, LeadsIntoInnermost
  <2>. QED  BY <2>1, <2>2 DEF OwnConditions
<1>. QED  BY <1>1 DEF Visible, Here

\* A request sets the path options and postPathsFilter up.
LEMMA ExactRequest ==
  ASSUME IInv, Unused, NEW f \in Filters, NEW fresh \in BOOLEAN, NEW mini \in BOOLEAN,
         Request(f, fresh, mini), Straight'
  PROVE  Exacts'
<1>1. PICK opts : opts = IF fresh THEN [p \in Paths |-> {{k} : k \in Access[p]}] ELSE options
  OBVIOUS
<1>2. /\ options' = Routed(filter', opts)
      /\ postPaths' = {c \in filter' : c.op = "or"}
      /\ status' = "root" /\ requests' = requests + 1
      /\ reused' = (~fresh /\ requests > 0)
  BY <1>1 DEF Request
<1>3. requests \in Nat
  BY PathsAssumption DEF IInv, TypeOK
<1>4. ASSUME ~reused' PROVE OptionsExact'
  <2>1. opts = [p \in Paths |-> {{k} : k \in Access[p]}]
    <3>1. CASE fresh
      BY <1>1, <3>1
    <3>2. CASE ~fresh
      <4>1. requests = 0
        <5>1. ~(~fresh /\ requests > 0)
          BY <1>2, <1>4
        <5>. QED  BY <1>3, <3>2, <5>1
      <4>. QED  BY <1>1, <3>2, <4>1 DEF Unused
    <3>. QED  BY <3>1, <3>2
  <2>2. \A p \in Paths : options'[p] = {{k} : k \in Access[p]} \union
           {{Rest(k, p)} : k \in {j \in KeysOf(filter') : Innermost(Front(j)) = p}}
    <3>1. filter' = Parsed(f) /\ Accepts(f)
      BY DEF Request
    <3>2. \A c \in Parsed(f) : c.op = "key" =>
              \A k \in c.keys, l \in Lookups : ~EndsWithin(l, Front(k))
      BY <3>1 DEF Straight
    <3>. QED  BY <1>2, <2>1, <3>1, <3>2, StraightRoutes DEF Routed
  <2>. QED  BY <2>2 DEF OptionsExact, KeysOf
<1>5. StagesExact'
  BY <1>2 DEF StagesExact
<1>. QED  BY <1>2, <1>4, <1>5 DEF Exacts

\* The first $match lets through all that the base document can decide.
LEMMA ExactRoot ==
  ASSUME IInv, Narrows, Exacts, MatchRoot
  PROVE  Exacts'
<1>1. Root \in Paths
  BY PathsAreSequences
<1>2. PICK opts : opts = options[Root] \union {c.keys : c \in Ready(0)}
  OBVIOUS
<1>3. /\ status = "root" /\ status' = "lookups"
      /\ options' = IF options[Root] = {} /\ ~RootAccess THEN options
                    ELSE [options EXCEPT ![Root] = opts]
      /\ postPaths' = postPaths \ Ready(0)
      /\ kept' = Accepted(world[Root], opts)
      /\ shown' = [shown EXCEPT ![Root] = Project(Root, @)]
      /\ UNCHANGED <<world, required, asked, filter, minified, stage, requests, reused>>
  BY <1>2 DEF MatchRoot
<1>5. ASSUME ~reused PROVE OptionsExact'
  <2>1. \A p \in Paths : p # Root => options'[p] = options[p]
    BY <1>3 DEF IInv, TypeOK
  <2>2. KeysOf(filter') = KeysOf(filter)
    BY <1>3
  <2>3. OptionsExact
    BY <1>3, <1>5 DEF Exacts
  <2>. QED  BY <1>3, <2>1, <2>2, <2>3 DEF OptionsExact
<1>6. ASSUME ~reused, ~minified PROVE StagesExact'
  <2>1. /\ postPaths = {c \in filter : c.op = "or"} /\ stage = 0
        /\ OptionsExact /\ FilterRouted
    BY <1>3, <1>6 DEF Exacts, StagesExact, Narrows, StagesNarrow
  <2>2. Ready(0) = {c \in filter : c.op = "or" /\ WaitsFor(c) = {}}
    <3>1. LookedUp(0) = {}
      BY DEF LookedUp
    <3>. QED  BY <2>1, <3>1 DEF Ready
  <2>3. postPaths' = {c \in filter' : c.op = "or" /\ WaitsFor(c)' # {}}
    <3>1. \A c : WaitsFor(c)' = WaitsFor(c)
      BY DEF WaitsFor
    <3>. QED  BY <1>3, <2>1, <2>2, <3>1
  <2>4. shown' = shown /\ shown[Root] = world[Root] /\ world[Root] # None
    <3>1. shown[Root] \in Parts \union {None} /\ shown \in [Paths -> Parts \union {None}]
      BY <1>1 DEF IInv, TypeOK
    <3>2. Project(Root, shown[Root]) = shown[Root]
      BY <1>6, <3>1, NotProjected
    <3>. QED  BY <1>1, <1>3, <3>1, <3>2 DEF IInv, RootIsAccessible
  <2>5. \A l \in Lookups : shown'[l] = None
    BY <2>1, <2>4 DEF IInv, ShownInOrder
  <2>6. \A l \in Lookups : ~LookedUpHere(l)'
    BY <1>3, <2>1 DEF LookedUpHere
  <2>7. kept' <=> /\ Here(Root)
                  /\ \A c \in Ready(0) : Holds(c, shown)
    <3>1. kept' <=> /\ Accepted(world[Root], options[Root])
                    /\ \A c \in Ready(0) : \E k \in c.keys : Meets(world[Root], k)
      BY <1>2, <1>3 DEF Accepted
    <3>2. Accepted(world[Root], options[Root]) <=> Here(Root)
      <4>1. Accepted(world[Root], options[Root]) <=>
               (\A k \in Access[Root] : Meets(world[Root], k)) /\ OwnConditions(Root)
        BY <1>1, <1>3, <2>1, AcceptedIsHere
      <4>. QED  BY <2>4, <4>1 DEF Here, Accessible
    <3>3. ASSUME NEW c \in Ready(0)
          PROVE  Holds(c, shown) <=> \E k \in c.keys : Meets(world[Root], k)
      <4>1. c \in filter /\ WaitsFor(c) = {}
        BY <2>2
      <4>. QED  BY <2>4, <4>1, RootCondition
    <3>. QED  BY <3>1, <3>2, <3>3
  <2>8. Here(Root)' <=> Here(Root)
    BY <1>3 DEF Here, Accessible, OwnConditions, KeysOf, Meets
  <2>9. \A c : (Holds(c, shown)' <=> Holds(c, shown)) /\ WaitsFor(c)' = WaitsFor(c)
    BY <2>4 DEF Holds, LeadsInto, Meets, WaitsFor
  <2>10. kept' <=> /\ Here(Root)'
                   /\ \A c \in filter' : c.op = "or" /\ WaitsFor(c)' = {} => Holds(c, shown)'
    BY <1>3, <2>2, <2>7, <2>8, <2>9
  <2>11. status' = "lookups" /\ stage' = 0 /\ 1..0 = {}
    BY <1>3, <2>1
  <2>. QED  BY <2>3, <2>5, <2>6, <2>10, <2>11 DEF StagesExact
<1>. QED  BY <1>3, <1>5, <1>6 DEF Exacts

\* Only $ROOT$ is above $ROOT$.
LEMMA AboveRoot ==
  ASSUME NEW q \in Paths, IsPrefix(q, Root)
  PROVE  q = Root
<1>1. q \in Seq(STRING) /\ Root \in Seq(STRING) /\ Len(Root) = 0
  BY PathsAreSequences DEF Root
<1>2. Len(q) <= 0
  BY <1>1, PrefixByNames
<1>. QED  BY <1>1, <1>2, EmptySeq DEF Root

\* A lookup makes none of the $or conditions that wait ready.
LEMMA NothingReady ==
  ASSUME IInv, Timely, NEW n \in 0..Len(Order),
         postPaths = {c \in filter : c.op = "or" /\ WaitsFor(c) # {}}
  PROVE  Ready(n) = {}
<1>. SUFFICES ASSUME NEW c \in postPaths, WaitsFor(c) \subseteq LookedUp(n) PROVE FALSE
  BY DEF Ready
<1>1. c \in filter /\ WaitsFor(c) # {}
  OBVIOUS
<1>2. PICK w \in WaitsFor(c) : TRUE
  BY <1>1
<1>3. LookedUp(n) \subseteq Lookups
  <2>1. \A i \in 1..n : i \in DOMAIN Order
    BY PathsAssumption
  <2>. QED  BY <2>1, PathsAreSequences DEF LookedUp
<1>4. w \in Lookups
  BY <1>2, <1>3
<1>5. c.keys \subseteq Allowed
  BY <1>1, ParsedIsAllowed DEF IInv, TypeOK, AskedFits
<1>6. w = <<"$$$">> \/ \E k \in c.keys : Front(k) # Root /\ w = Below(Front(k), Owner(Front(k)))
  BY <1>2 DEF WaitsFor
<1>. QED  BY <1>4, <1>5, <1>6 DEF Timely

\* What Found asks for, without projections: the document is there, below one
\* that was looked up.
LEMMA FoundIsHere ==
  ASSUME IInv, FilterRouted, OptionsExact, ~minified, NEW l \in Lookups
  PROVE  Found(l) <=> shown[Parent(l)] # None /\ Here(l)
<1>1. l \in Paths /\ l # Root
  BY PathsAreSequences
<1>2. Accepted(world[l], options[l]) <=>
         (\A k \in Access[l] : Meets(world[l], k)) /\ OwnConditions(l)
  BY <1>1, AcceptedIsHere
<1>3. \A p, name : Keeps(p, name)
  BY DEF Keeps
<1>4. CASE world[l] = None
  BY <1>4 DEF Found, Here, Accessible
<1>5. CASE world[l] # None
  BY <1>1, <1>2, <1>3, <1>5 DEF Found, Here, Accessible
<1>. QED  BY <1>4, <1>5

\* The path above a lookup is $ROOT$ or was looked up before.
LEMMA ParentBefore ==
  ASSUME NEW n \in DOMAIN Order, NEW l, l = Order[n]
  PROVE  /\ Parent(l) \in Paths /\ IsPrefix(Parent(l), l) /\ Parent(l) # l
         /\ \A q \in Paths : IsPrefix(q, l) /\ q # l => IsPrefix(q, Parent(l))
         /\ Parent(l) # Root => \E i \in 1..(n - 1) : Order[i] = Parent(l)
<1>1. l \in Lookups /\ l \in Paths /\ l # Root /\ l \in Seq(STRING)
  BY PathsAreSequences
<1>2. /\ Front(l) \in Seq(STRING) /\ Len(Front(l)) = Len(l) - 1 /\ IsPrefix(Front(l), l)
      /\ \A q \in Paths : IsPrefix(q, l) /\ q # l => IsPrefix(q, Front(l))
  BY <1>1, FrontOfKey, PathsAreSequences
<1>3. PICK p : p = Parent(l)
  OBVIOUS
<1>4. /\ p \in Paths /\ IsPrefix(p, Front(l))
      /\ \A q \in Paths : IsPrefix(q, Front(l)) => IsPrefix(q, p)
  BY <1>1, <1>2, <1>3, InnermostIsLongest, ParentIsInnermost
<1>5. p \in Seq(STRING) /\ Len(p) \in Nat /\ Len(l) \in Nat
  BY <1>1, <1>4, PathsAreSequences
<1>6. p # l
  <2>1. Len(p) <= Len(l) - 1
    BY <1>2, <1>4, <1>5, PrefixByNames
  <2>. QED  BY <1>5, <2>1
<1>7. IsPrefix(p, l)
  BY <1>1, <1>2, <1>4, <1>5, PrefixOrder
<1>8. ASSUME p # Root PROVE \E i \in 1..(n - 1) : Order[i] = p
  <2>1. PICK i \in DOMAIN Order : Order[i] = p
    BY <1>4, <1>8, PathsAreSequences
  <2>2. i <= n
    BY <1>7, <2>1, PathsAssumption
  <2>3. i \in Nat \ {0} /\ n \in Nat
    BY PathsAssumption
  <2>4. i # n
    BY <1>6, <2>1
  <2>. QED  BY <2>1, <2>2, <2>3, <2>4
<1>. QED  BY <1>2, <1>3, <1>4, <1>6, <1>7, <1>8

\* A lookup shows its document exactly if it is there, with all above it.
LEMMA ExactLookup ==
  ASSUME IInv, Timely, Straight, Narrows, Exacts, Lookup
  PROVE  Exacts'
<1>1. PICK n : n = stage + 1
  OBVIOUS
<1>2. PICK l : l = Order[n]
  OBVIOUS
<1>3. /\ n \in Nat /\ n \in DOMAIN Order /\ stage \in Nat /\ n \in 0..Len(Order)
      /\ l \in Lookups /\ l \in Paths /\ l # Root
      /\ shown'[l] = IF Found(l) THEN Project(l, world[l]) ELSE None
      /\ (\A c \in postPaths : \A k \in c.keys : ~IsPrefix(k, l))
            => \A q \in Paths : q # l => shown'[q] = shown[q]
  BY <1>1, <1>2, LookupShows
<1>4. /\ status = "lookups" /\ stage < Len(Order) /\ stage' = n
      /\ postPaths' = postPaths \ Ready(n)
      /\ kept' <=> /\ kept /\ (l \in required => shown'[l] # None)
                   /\ \A c \in Ready(n) : Holds(c, shown')
      /\ UNCHANGED <<world, required, options, asked, filter, minified, status, requests,
                     reused>>
  BY <1>1, <1>2 DEF Lookup
<1>5. stage \in Nat /\ n \in Nat /\ n \in DOMAIN Order /\ stage = n - 1 /\ n \in 0..Len(Order)
  BY <1>1, <1>3
<1>6. l \in Lookups /\ l \in Paths /\ l # Root
  BY <1>3
<1>7. ASSUME ~reused, ~minified PROVE \A q \in Paths : q # l => shown'[q] = shown[q]
  <2>1. ASSUME NEW c \in postPaths, NEW k \in c.keys PROVE ~IsPrefix(k, l)
    <3>1. c \in filter /\ c.op = "or" /\ WaitsFor(c) # {}
      BY <1>4, <1>7, <2>1 DEF Exacts, StagesExact
    <3>. QED  BY <1>6, <2>1, <3>1 DEF Straight
  <2>. QED  BY <1>3, <2>1
<1>8. \A i \in 1..(n - 1) : Order[i] # l /\ Order[i] \in Lookups
  <2>. SUFFICES ASSUME NEW i \in 1..(n - 1) PROVE Order[i] # l /\ Order[i] \in Lookups
    OBVIOUS
  <2>1. i \in DOMAIN Order /\ ~(n <= i)
    BY <1>5, PathsAssumption
  <2>2. Order[i] \in Lookups
    BY <2>1, PathsAreSequences
  <2>3. Order[i] = l => IsPrefix(Order[n], Order[i])
    BY <1>2, <1>6, PrefixOrder, PathsAreSequences
  <2>. QED  BY <1>5, <2>1, <2>2, <2>3, PathsAssumption
<1>9. ~reused => OptionsExact'
  <2>1. KeysOf(filter') = KeysOf(filter)
    BY <1>4
  <2>. QED  BY <1>4, <2>1 DEF Exacts, OptionsExact
<1>10. ASSUME ~reused, ~minified PROVE StagesExact'
  <2>1. StagesExact /\ OptionsExact /\ FilterRouted
    BY <1>4, <1>10 DEF Exacts, Narrows
  <2>2. postPaths = {c \in filter : c.op = "or" /\ WaitsFor(c) # {}}
    BY <1>4, <2>1 DEF StagesExact
  <2>3. Ready(n) = {}
    BY <1>5, <2>2, NothingReady
  <2>4. postPaths' = postPaths /\ (kept' <=> kept /\ (l \in required => shown'[l] # None))
    BY <1>4, <2>3
  <2>5. \A q : Here(q)' <=> Here(q)
    BY <1>4 DEF Here, Accessible, OwnConditions, KeysOf, Meets
  <2>6. shown'[l] # None <=> shown[Parent(l)] # None /\ Here(l)
    <3>1. Found(l) <=> shown[Parent(l)] # None /\ Here(l)
      BY <1>6, <1>10, <2>1, FoundIsHere
    <3>2. shown'[l] = IF Found(l) THEN Project(l, world[l]) ELSE None
      BY <1>3
    <3>3. world[l] \in Parts \union {None}
      BY <1>6, PathsAssumption DEF IInv, TypeOK
    <3>4. Project(l, world[l]) = world[l]
      BY <1>10, <3>3, NotProjected
    <3>5. Here(l) => world[l] # None
      BY DEF Here, Accessible
    <3>. QED  BY <3>1, <3>2, <3>4, <3>5
  <2>7. PICK p : p = Parent(l)
    OBVIOUS
  <2>8. /\ p \in Paths /\ IsPrefix(p, l) /\ p # l
        /\ \A q \in Paths : IsPrefix(q, l) /\ q # l => IsPrefix(q, p)
        /\ p # Root => \E i \in 1..stage : Order[i] = p
    BY <1>2, <1>5, <2>7, ParentBefore
  <2>9. \A q \in Paths : IsPrefix(q, p) => IsPrefix(q, l)
    BY <1>6, <2>8, PrefixOrder, PathsAreSequences
  <2>10. shown[p] # None <=> \A q \in Paths : IsPrefix(q, p) /\ q # Root => Here(q)
    <3>1. CASE p = Root
      <4>1. shown[Root] # None
        BY <1>4 DEF IInv, RootIsAccessible
      <4>. QED  BY <3>1, <4>1, AboveRoot
    <3>2. CASE p # Root
      <4>1. p \in Lookups
        BY <2>8, <3>2, PathsAreSequences
      <4>2. shown[p] # None <=> LookedUpHere(p)
        BY <1>4, <2>1, <4>1 DEF StagesExact
      <4>. QED  BY <2>8, <3>2, <4>2 DEF LookedUpHere
    <3>. QED  BY <3>1, <3>2
  <2>11. shown'[l] # None <=> \A q \in Paths : IsPrefix(q, l) /\ q # Root => Here(q)
    <3>1. IsPrefix(l, l)
      BY <1>6, PrefixOrder, PathsAreSequences
    <3>. QED  BY <1>6, <2>6, <2>7, <2>8, <2>9, <2>10, <3>1
  <2>12. \A m \in Lookups : shown'[m] # None <=> LookedUpHere(m)'
    <3>. SUFFICES ASSUME NEW m \in Lookups PROVE shown'[m] # None <=> LookedUpHere(m)'
      OBVIOUS
    <3>1. CASE m = l
      <4>1. \E i \in 1..stage' : Order[i] = m
        BY <1>2, <1>4, <1>5, <3>1, PathsAssumption
      <4>. QED  BY <2>5, <2>11, <3>1, <4>1 DEF LookedUpHere
    <3>2. CASE m # l
      <4>1. (\E i \in 1..stage' : Order[i] = m) <=> \E i \in 1..stage : Order[i] = m
        BY <1>2, <1>4, <1>5, <3>2
      <4>2. LookedUpHere(m)' <=> LookedUpHere(m)
        BY <2>5, <4>1 DEF LookedUpHere
      <4>3. shown'[m] = shown[m]
        BY <1>7, <1>10, <3>2, PathsAreSequences
      <4>. QED  BY <1>4, <2>1, <4>2, <4>3 DEF StagesExact
    <3>. QED  BY <3>1, <3>2
  <2>13. shown'[Root] = shown[Root]
    BY <1>6, <1>7, <1>10, PathsAreSequences
  <2>14. ASSUME NEW c \in filter, WaitsFor(c) = {}
         PROVE  Holds(c, shown)' <=> Holds(c, shown)
    <3>1. Holds(c, shown) <=> \E k \in c.keys : Meets(shown[Root], k)
      BY <2>14, RootCondition
    <3>2. Holds(c, shown') <=> \E k \in c.keys : Meets(shown'[Root], k)
      BY <2>14, RootCondition
    <3>3. Holds(c, shown)' <=> Holds(c, shown')
      BY DEF Holds, LeadsInto, Meets
    <3>. QED  BY <2>13, <3>1, <3>2, <3>3
  <2>15. kept <=> /\ Here(Root)
                  /\ \A i \in 1..stage : Order[i] \in required => shown[Order[i]] # None
                  /\ \A c \in filter : c.op = "or" /\ WaitsFor(c) = {} => Holds(c, shown)
    BY <1>4, <2>1 DEF StagesExact
  <2>16. (\A i \in 1..n : Order[i] \in required => shown'[Order[i]] # None)
         <=> /\ \A i \in 1..stage : Order[i] \in required => shown[Order[i]] # None
             /\ l \in required => shown'[l] # None
    <3>1. \A i \in 1..n : i \in 1..stage \/ i = n
      BY <1>5
    <3>2. \A i \in 1..stage : i \in 1..n
      BY <1>5
    <3>3. \A i \in 1..stage : shown'[Order[i]] = shown[Order[i]]
      BY <1>5, <1>7, <1>8, <1>10, PathsAreSequences
    <3>4. n \in 1..n
      BY <1>5, PathsAssumption
    <3>. QED  BY <1>2, <3>1, <3>2, <3>3, <3>4
  <2>17. \A c : WaitsFor(c)' = WaitsFor(c)
    BY DEF WaitsFor
  <2>18. kept' <=> /\ Here(Root)'
                   /\ \A i \in 1..stage' : Order[i] \in required' => shown'[Order[i]] # None
                   /\ \A c \in filter' : c.op = "or" /\ WaitsFor(c)' = {} => Holds(c, shown)'
    BY <1>4, <2>4, <2>5, <2>14, <2>15, <2>16, <2>17
  <2>19. postPaths' = {c \in filter' : c.op = "or" /\ WaitsFor(c)' # {}}
    BY <1>4, <2>2, <2>4, <2>17
  <2>20. status' = "lookups"
    BY <1>4
  <2>. QED  BY <2>12, <2>18, <2>19, <2>20 DEF StagesExact
<1>. QED  BY <1>4, <1>9, <1>10 DEF Exacts

\* The last $match takes all conditions that waited.
LEMMA ExactAnswer ==
  ASSUME IInv, Exacts, Answer
  PROVE  Exacts'
<1>1. /\ status = "lookups" /\ stage = Len(Order) /\ status' = "answered"
      /\ postPaths' = {}
      /\ kept' <=> (kept /\ \A c \in postPaths : Holds(c, shown))
      /\ UNCHANGED <<world, required, options, asked, filter, minified, stage, shown,
                     requests, reused>>
  BY DEF Answer
<1>2. ~reused => OptionsExact'
  <2>1. KeysOf(filter') = KeysOf(filter)
    BY <1>1
  <2>. QED  BY <1>1, <2>1 DEF Exacts, OptionsExact
<1>3. ASSUME ~reused, ~minified PROVE StagesExact'
  <2>1. StagesExact
    BY <1>1, <1>3 DEF Exacts
  <2>2. \A q : Here(q)' <=> Here(q)
    BY <1>1 DEF Here, Accessible, OwnConditions, KeysOf, Meets
  <2>3. \A c : Holds(c, shown)' <=> Holds(c, shown)
    BY <1>1 DEF Holds, LeadsInto, Meets
  <2>4. \A m : LookedUpHere(m)' <=> LookedUpHere(m)
    BY <1>1, <2>2 DEF LookedUpHere
  <2>5. kept' <=> /\ Here(Root)
                  /\ \A i \in 1..stage : Order[i] \in required => shown[Order[i]] # None
                  /\ \A c \in filter : c.op = "or" => Holds(c, shown)
    BY <1>1, <2>1 DEF StagesExact
  <2>6. kept' <=> /\ Here(Root)'
                  /\ \A i \in 1..stage' : Order[i] \in required' => shown'[Order[i]] # None
                  /\ \A c \in filter' : c.op = "or" => Holds(c, shown)'
    BY <1>1, <2>2, <2>3, <2>5
  <2>7. \A m \in Lookups : shown'[m] # None <=> LookedUpHere(m)'
    BY <1>1, <2>1, <2>4 DEF StagesExact
  <2>. QED  BY <1>1, <2>6, <2>7 DEF StagesExact
<1>. QED  BY <1>1, <1>2, <1>3 DEF Exacts

\* Path options are the caller's until they are used.
LEMMA UnusedStep == IInv /\ Unused /\ [Next]_vars => Unused'
<1>. SUFFICES ASSUME IInv, Unused, [Next]_vars PROVE Unused'
  OBVIOUS
<1>1. requests \in Nat
  BY PathsAssumption DEF IInv, TypeOK
<1>2. CASE \E f \in Filters : Refuse(f) \/ \E fresh, mini \in BOOLEAN : Request(f, fresh, mini)
  <2>1. requests' = requests + 1
    BY <1>2 DEF Refuse, Request
  <2>. QED  BY <1>1, <2>1 DEF Unused
<1>3. CASE MatchRoot
  BY <1>3 DEF Unused, MatchRoot
<1>4. CASE Lookup
  BY <1>4 DEF Unused, Lookup
<1>5. CASE LeaveOut
  BY <1>5 DEF Unused, LeaveOut
<1>6. CASE Answer
  BY <1>6 DEF Unused, Answer
<1>7. CASE UNCHANGED vars
  BY <1>7 DEF Unused, vars
<1>. QED  BY <1>2, <1>3, <1>4, <1>5, <1>6, <1>7 DEF Next

\* Every step lets through all that the filter means so far.
LEMMA ExactStep ==
  ASSUME Timely
  PROVE  IInv /\ NarrowInv /\ ExactInv /\ [Next]_vars => ExactInv'
<1>. SUFFICES ASSUME IInv, NarrowInv, ExactInv, [Next]_vars, Straight' PROVE Exacts'
  BY UnusedStep DEF ExactInv
<1>1. ASSUME filter' = filter PROVE Straight /\ Narrows /\ Exacts
  <2>1. Straight
    BY <1>1 DEF Straight, WaitsFor
  <2>. QED  BY <2>1 DEF NarrowInv, ExactInv
<1>2. ASSUME UNCHANGED <<world, required, options, asked, filter, minified, status,
                         stage, postPaths, shown, kept, reused>>
      PROVE  Exacts'
  <2>1. OptionsExact' <=> OptionsExact
    BY <1>2 DEF OptionsExact, KeysOf
  <2>2. \A q : Here(q)' <=> Here(q)
    BY <1>2 DEF Here, Accessible, OwnConditions, KeysOf, Meets
  <2>3. \A c : (Holds(c, shown)' <=> Holds(c, shown)) /\ WaitsFor(c)' = WaitsFor(c)
    BY <1>2 DEF Holds, LeadsInto, Meets, WaitsFor
  <2>4. \A m : LookedUpHere(m)' <=> LookedUpHere(m)
    BY <1>2, <2>2 DEF LookedUpHere
  <2>5. StagesExact => StagesExact'
    BY <1>2, <2>2, <2>3, <2>4 DEF StagesExact
  <2>. QED  BY <1>1, <1>2, <2>1, <2>5 DEF Exacts
<1>3. ASSUME NEW f \in Filters, Refuse(f) PROVE Exacts'
  BY <1>2, <1>3 DEF Refuse
<1>4. CASE LeaveOut
  <2>1. /\ minified /\ minified' = minified /\ status = "lookups"
        /\ UNCHANGED <<options, filter, status, requests, reused>>
    BY <1>4 DEF LeaveOut, Included
  <2>2. OptionsExact' <=> OptionsExact
    BY <2>1 DEF OptionsExact, KeysOf
  <2>. QED  BY <1>1, <2>1, <2>2 DEF Exacts
<1>5. CASE UNCHANGED vars
  BY <1>2, <1>5 DEF vars
<1>6. MatchRoot \/ Lookup \/ Answer => filter' = filter
  BY DEF MatchRoot, Lookup, Answer
<1>7. Unused
  BY DEF ExactInv
<1>. QED
  BY <1>1, <1>3, <1>4, <1>5, <1>6, <1>7, ExactRequest, ExactRoot, ExactLookup, ExactAnswer
     DEF Next

\* If no lookup is named like a document embedded in another one, a request with
\* path options of its own returns exactly what its filter means if it is Straight.
THEOREM JoinIsAlwaysExact == ASSUME Timely PROVE Spec => []JoinIsExact
<1>1. Init => ExactInv
  BY DEF Init, ExactInv, Unused, Exacts, StagesExact
<1>2. Init => NarrowInv
  BY PathsAreSequences DEF Init, NarrowInv, Narrows, FilterRouted, StagesNarrow, KeysOf
<1>3. IInv /\ NarrowInv /\ ExactInv /\ [Next]_vars => ExactInv'
  BY ExactStep
<1>4. IInv /\ NarrowInv /\ ExactInv => JoinIsExact
  <2>. SUFFICES ASSUME IInv, NarrowInv, ExactInv, status = "answered", ~reused, ~minified,
                       Straight
                PROVE  (kept <=> Meant) /\ (kept => \A l \in Lookups : shown[l] # None <=> Visible(l))
    BY DEF JoinIsExact
  <2>1. StagesNarrow /\ StagesExact
    BY DEF NarrowInv, Narrows, ExactInv, Exacts
  <2>2. /\ stage = Len(Order)
        /\ \A p \in Paths : shown[p] # None => shown[p] = world[p]
    BY <2>1 DEF StagesNarrow
  <2>3. /\ \A l \in Lookups : shown[l] # None <=> LookedUpHere(l)
        /\ kept <=> /\ Here(Root)
                    /\ \A i \in 1..stage : Order[i] \in required => shown[Order[i]] # None
                    /\ \A c \in filter : c.op = "or" => Holds(c, shown)
    BY <2>1 DEF StagesExact
  <2>4. Visible(Root) <=> Here(Root)
    BY VisibleIsHere, AboveRoot, PrefixOrder, PathsAreSequences
  <2>5. ASSUME Here(Root), NEW p \in Paths PROVE shown[p] # None <=> Visible(p)
    <3>1. CASE p = Root
      BY <2>4, <2>5, <3>1 DEF IInv, RootIsAccessible
    <3>2. CASE p # Root
      <4>1. p \in Lookups
        BY <3>2, PathsAreSequences
      <4>2. PICK i \in DOMAIN Order : Order[i] = p
        BY <4>1, PathsAreSequences
      <4>3. i \in 1..stage
        BY <2>2, PathsAssumption
      <4>4. shown[p] # None <=> \A q \in Paths : IsPrefix(q, p) /\ q # Root => Here(q)
        BY <2>3, <4>1, <4>2, <4>3 DEF LookedUpHere
      <4>. QED  BY <2>5, <4>4, VisibleIsHere
    <3>. QED  BY <3>1, <3>2
  <2>6. ASSUME Here(Root)
        PROVE  (\A i \in 1..stage : Order[i] \in required => shown[Order[i]] # None)
               <=> \A l \in required : Visible(l)
    <3>1. \A i \in 1..stage : i \in DOMAIN Order /\ Order[i] \in Paths
      <4>1. \A i \in 1..stage : i \in DOMAIN Order
        BY <2>2, PathsAssumption
      <4>. QED  BY <4>1, PathsAreSequences
    <3>2. ASSUME NEW l \in required PROVE \E i \in 1..stage : Order[i] = l
      <4>1. l \in Lookups
        BY DEF IInv, TypeOK
      <4>. QED  BY <2>2, <4>1, PathsAreSequences, PathsAssumption
    <3>. QED  BY <2>5, <2>6, <3>1, <3>2
  <2>7. ASSUME Here(Root), NEW c \in asked, NEW d, d = [c EXCEPT !.keys = {FullPath(k) : k \in @}]
        PROVE  /\ d.op = c.op
               /\ Holds(d, shown) <=> SomeMet(c)
    <3>1. c \in Conditions
      BY PathsAssumption DEF IInv, TypeOK
    <3>2. d.op = c.op /\ d.keys = {Named(k) : k \in c.keys}
      BY <2>7, <3>1 DEF Conditions, Named, FullPath
    <3>3. Holds(d, shown) <=> \E j \in c.keys, p \in Paths :
                                 LeadsInto(Named(j), p) /\ Meets(shown[p], Rest(Named(j), p))
      BY <3>2 DEF Holds
    <3>4. ASSUME NEW p \in Paths, NEW k
          PROVE  Meets(shown[p], k) <=> Visible(p) /\ Meets(world[p], k)
      <4>1. shown[p] # None <=> Visible(p)
        BY <2>5, <2>7
      <4>. QED  BY <2>2, <4>1 DEF Meets
    <3>. QED  BY <3>2, <3>3, <3>4 DEF SomeMet
  <2>8. ASSUME Here(Root)
        PROVE  (\A c \in filter : c.op = "or" => Holds(c, shown))
               <=> \A c \in asked : c.op = "or" => SomeMet(c)
    <3>1. filter = {[c EXCEPT !.keys = {FullPath(k) : k \in @}] : c \in asked}
      BY DEF IInv, TypeOK, Parsed
    <3>. QED  BY <2>7, <2>8, <3>1
  <2>9. kept <=> Meant
    <3>1. \A c \in asked : c.op # "nor"
      BY StraightHasNoNor
    <3>. QED  BY <2>3, <2>4, <2>6, <2>8, <3>1 DEF Meant
  <2>10. kept => \A l \in Lookups : shown[l] # None <=> Visible(l)
    BY <2>3, <2>5, PathsAreSequences
  <2>. QED  BY <2>9, <2>10
<1>. QED  BY <1>1, <1>2, <1>3, <1>4, NarrowStep, Inductive, PTL DEF Spec
=============================================================================
