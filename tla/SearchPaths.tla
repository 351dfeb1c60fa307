----------------------------- MODULE SearchPaths -----------------------------
(***************************************************************************)
(* src/src/search-pagination: how one request's filter meets the caller's  *)
(* pathOptions.  FilterParser checks every key against the models and puts *)
(* its field in place, resolvePathFilters hands every condition to the     *)
(* lookup its key leads into, _aggregate composes the $match, $project and *)
(* $lookup stages, and an $or waits until the paths it names are there.    *)
(*                                                                         *)
(* Stages treat each base document on its own, so one is enough.  A key is *)
(* a sequence of names, and a document is the set of keys whose condition  *)
(* it meets; a path that was not looked up holds an id and meets none.     *)
(* MongoDB's stages are modelled from how the code composes them; a        *)
(* reference leads to one document at most.                                *)
(***************************************************************************)
EXTENDS Integers, Sequences, SequencesExt

CONSTANTS
    Order,         \* the paths of pathOptions but $ROOT$, in their order
    Keys,          \* keys that conditions of a client's filter may name
    SearchKeys,    \* [key -> its SearchKey options], classes along pathClass unfolded:
                   \* [field |-> name, filterable |-> flag, inMinified |-> flag]
    Filters,       \* filters a client sends, $and taken apart (handleFilter)
    Documents,     \* what a document may be: [meets |-> keys, isDeleted |-> flag]
    Cut,           \* names that begin with another one: [<<m, n>> -> n without m and
                   \* the character after it]
    Access,        \* [path -> keys the caller's accessibility asks for]
    RootAccess,    \* whether $ROOT$ has an accessibility, be it an empty one
    NonSoftDelete, \* lookups with the flag of that name
    MaxRequests,   \* requests over the same path options (bound)
    None

Root == <<>>      \* $ROOT$
Lookups == Range(Order)
Paths == Lookups \union {Root}

\* A condition on one key, an $or of conditions, deep if operators are nested in
\* it, or a $nor (any other operator but $and, at the top, fares like $nor).
Conditions == [op : {"key", "or", "nor"}, keys : SUBSET Keys, deep : BOOLEAN]

\* A document, or what a projection leaves of it.
Parts == [meets : SUBSET Seq(STRING), isDeleted : BOOLEAN]

\* The caller lists a path after the paths it leads through.
ASSUME PathsAssumption ==
    /\ Order \in Seq(Seq(STRING)) /\ Root \notin Lookups
    /\ \A i, j \in DOMAIN Order : IsPrefix(Order[i], Order[j]) => i <= j
    /\ Keys \subseteq Seq(STRING) \ {Root}
    /\ Documents \subseteq Parts /\ None \notin Parts
    /\ Filters \subseteq SUBSET Conditions
    /\ \A f \in Filters : \A c \in f : c.op = "key" => \E k \in Keys : c.keys = {k}
    /\ \A k \in DOMAIN SearchKeys :
          /\ SearchKeys[k].field \in STRING
          /\ SearchKeys[k].filterable \in BOOLEAN /\ SearchKeys[k].inMinified \in BOOLEAN
    /\ Lookups \subseteq DOMAIN SearchKeys
    /\ \A mn \in DOMAIN Cut : Cut[mn] \in STRING
    /\ Access \in [Paths -> SUBSET Seq(STRING)] /\ RootAccess \in BOOLEAN
    /\ NonSoftDelete \subseteq Lookups /\ MaxRequests \in Nat

VARIABLES
    world,     \* the base document, and what its references lead to
    required,  \* lookups with the flag REQUIRED
    options,   \* accessibility of each path: sets of keys, one of which must hold
    asked,     \* the filter of the client's query
    filter,    \* dto.filter, as the parser returns it
    minified,  \* dto.minified
    status,    \* how far the pipeline is
    stage,     \* lookups done
    postPaths, \* postPathsFilter: the $or conditions still to be matched
    shown,     \* the documents put in place of references
    kept,      \* whether the base document is still among the results
    requests,
    reused     \* whether an earlier request had the same path options

vars == <<world, required, options, asked, filter, minified, status, stage, postPaths,
          shown, kept, requests, reused>>

-----------------------------------------------------------------------------
(* FilterParser and checkPathAndReturnDescriptor *)

\* The keys of which every name is declared, and filterable.
Filterable ==
    {k \in Keys : \A n \in 1..Len(k) : LET name == SubSeq(k, 1, n)
                  IN  name \in DOMAIN SearchKeys /\ SearchKeys[name].filterable}

\* The last name gives way to the property it is declared for.
FullPath(k) == Append(Front(k), SearchKeys[k].field)

\* Mutant: the branches of an $or or a $nor are not checked.
AcceptsOutsideOr(f) == \A c \in f : c.op = "key" => c.keys \subseteq Filterable

Accepts(f) == \A c \in f : c.keys \subseteq Filterable

Parsed(f) == {[c EXCEPT !.keys = {FullPath(k) : k \in @}] : c \in f}

-----------------------------------------------------------------------------
(* resolvePathFilters *)

Rest(k, l) == SubSeq(k, Len(l) + 1, Len(k))

\* l ends within one of p's names: company and companyName.x.
EndsWithin(l, p) ==
    /\ l # Root /\ Len(l) <= Len(p)
    /\ IsPrefix(Front(l), p) /\ <<Last(l), p[Len(l)]>> \in DOMAIN Cut

\* p starts with l, as a string.
StartsWith(p, l) == IsPrefix(l, p) \/ EndsWithin(l, p)

\* Mutant: the paths are tried in ascending order of length.
OwnsOutermost(l, p) ==
    LET prefixes == {m \in Lookups : StartsWith(p, m)}
    IN  IF prefixes = {} THEN l = Root
        ELSE l \in prefixes /\ \A m \in prefixes : StartsWith(m, l)

\* l is the longest path of pathOptions that p starts with, $ROOT$ if none does.
Owns(l, p) ==
    /\ StartsWith(p, l)
    /\ \A m \in Lookups : StartsWith(p, m) => StartsWith(l, m)

Owner(p) == CHOOSE l \in Paths : Owns(l, p)

\* What substring leaves of p below l, if l ends within one of its names.
CutOff(p, l) ==
    LET rest == <<Cut[<<Last(l), p[Len(l)]>>]>> \o Rest(p, l)
    IN  IF rest = <<"">> THEN <<>> ELSE rest

\* What is left of path p below l, and of key k.
Below(p, l) == IF IsPrefix(l, p) THEN Rest(p, l) ELSE CutOff(p, l)
KeyBelow(k, l) ==
    IF IsPrefix(l, Front(k)) THEN Rest(k, l) ELSE Append(CutOff(Front(k), l), Last(k))

\* handleFilter keeps these, and each $or for later; it drops any $nor.
KeysOf(f) == UNION {c.keys : c \in {d \in f : d.op = "key"}}

\* The condition on each key that leads into p, by its own.
RoutedTo(p, f) == {{KeyBelow(k, p)} : k \in {j \in KeysOf(f) : Owns(p, Front(j))}}

\* Mutant: the conditions of the filter take the place of an $and already there.
RoutedInstead(f, opts) ==
    [p \in Paths |-> IF RoutedTo(p, f) = {} THEN opts[p] ELSE RoutedTo(p, f)]

\* Each of them joins the accessibility of the path.
Routed(f, opts) == [p \in Paths |-> opts[p] \union RoutedTo(p, f)]

\* The paths an $or waits for: of a key on the base document none; of others
\* what is left of their path below the lookup it starts with.
WaitsFor(c) ==
    LET paths == {Front(k) : k \in c.keys} \ {Root}
    IN  IF c.deep THEN {<<"$$$">>} ELSE {Below(p, Owner(p)) : p \in paths}

-----------------------------------------------------------------------------
(* What MongoDB sees *)

\* l is the innermost document key k leads into.
LeadsInto(k, l) ==
    /\ IsPrefix(l, Front(k))
    /\ \A m \in Lookups : IsPrefix(m, Front(k)) => IsPrefix(m, l)

Meets(d, k) == IF d = None THEN FALSE ELSE k \in d.meets

\* Condition c on the document as far as references were replaced.
Holds(c, at) == \E k \in c.keys, l \in Paths : LeadsInto(k, l) /\ Meets(at[l], Rest(k, l))

Accepted(d, opts) == \A keys \in opts : \E k \in keys : Meets(d, k)

\* The document that holds the reference looked up as l.
Parent(l) == CHOOSE p \in Paths : LeadsInto(l, p)

\* A minified request's $project keeps the names that the class its path is
\* declared in has in minified: for a lookup, those of the class above it.
Keeps(p, name) ==
    LET key == IF p = Root THEN <<name>> ELSE Append(Front(p), name)
    IN  minified => key \in DOMAIN SearchKeys /\ SearchKeys[key].inMinified

\* What it leaves of document d.
Project(p, d) ==
    IF d = None THEN None
    ELSE [d EXCEPT !.meets = {k \in @ : Keeps(p, Head(k))}]

Init ==
    /\ world \in [Paths -> Documents \union {None}] /\ world[Root] # None
    /\ required \in SUBSET Lookups
    /\ options = [p \in Paths |-> {{k} : k \in Access[p]}]
    /\ asked = {} /\ filter = {} /\ minified = FALSE
    /\ status = "idle" /\ stage = 0 /\ postPaths = {}
    /\ shown = [p \in Paths |-> None] /\ kept = FALSE
    /\ requests = 0 /\ reused = FALSE

-----------------------------------------------------------------------------
(* _aggregate *)

\* The pipe refuses the request: BadRequestException.
Refuse(f) ==
    /\ status \in {"idle", "answered"} /\ requests < MaxRequests
    /\ ~Accepts(f)
    /\ requests' = requests + 1
    /\ UNCHANGED <<world, required, options, asked, filter, minified, status, stage,
                   postPaths, shown, kept, reused>>

\* A request comes in, with path options of its own (fresh, as in README.md) or
\* with the object an earlier request used.
Request(f, fresh, mini) ==
    /\ status \in {"idle", "answered"} /\ requests < MaxRequests
    /\ Accepts(f)
    /\ requests' = requests + 1
    /\ asked' = f /\ filter' = Parsed(f) /\ minified' = mini
    /\ reused' = (~fresh /\ requests > 0)
    /\ options' = Routed(filter', IF fresh THEN [p \in Paths |-> {{k} : k \in Access[p]}]
                                           ELSE options)
    /\ postPaths' = {c \in filter' : c.op = "or"}
    /\ shown' = [p \in Paths |-> IF p = Root THEN world[Root] ELSE None]
    /\ kept' = TRUE /\ stage' = 0 /\ status' = "root"
    /\ UNCHANGED <<world, required>>

\* The lookups composed so far; a minified request leaves some out.
Included(l) == minified => SearchKeys[l].inMinified
LookedUp(n) == {Order[i] : i \in {j \in 1..n : Included(Order[j])}}

\* getAndRemoveReadyOrFilters
Ready(n) == {c \in postPaths : WaitsFor(c) \subseteq LookedUp(n)}

\* The first $match and $project.  The $or conditions that are ready join the accessibility
\* of $ROOT$, for good if the caller's path options have one.
MatchRoot ==
    LET opts == options[Root] \union {c.keys : c \in Ready(0)}
    IN  /\ status = "root"
        /\ status' = "lookups"
        /\ options' = IF options[Root] = {} /\ ~RootAccess THEN options
                      ELSE [options EXCEPT ![Root] = opts]
        /\ postPaths' = postPaths \ Ready(0)
        /\ kept' = Accepted(world[Root], opts)
        /\ shown' = [shown EXCEPT ![Root] = Project(Root, @)]
        /\ UNCHANGED <<world, required, asked, filter, minified, stage, requests,
                       reused>>

\* The sub-pipeline of the $lookup for l finds the document referred to.  The
\* match on isDeleted comes after $project, and misses a field that is gone.
Found(l) ==
    LET d == world[l]
    IN  IF shown[Parent(l)] = None \/ d = None THEN FALSE
        ELSE /\ Keeps(Parent(l), Head(Rest(l, Parent(l))))
             /\ Accepted(d, options[l])
             /\ l \in NonSoftDelete \/ (Keeps(l, "isDeleted") /\ ~d.isDeleted)

\* The document at p once the lookup has put its own in place of a reference:
\* whether the keys over it are met now (those of `met`) has to do with the
\* document, and no longer with the reference.
Overwritten(p, over, met) ==
    IF shown[p] = None THEN None
    ELSE [shown[p] EXCEPT !.meets =
            {k \in @ : p \o k \notin over}
            \union {Rest(k, p) : k \in {j \in met : LeadsInto(j, p)}}]

\* $lookup, $unwind or $match for its flags, and the $or conditions it readies.
\* Of the keys over the reference only those still to be matched can tell.
Lookup ==
    /\ status = "lookups" /\ stage < Len(Order) /\ Included(Order[stage + 1])
    /\ stage' = stage + 1
    /\ LET l    == Order[stage + 1]
           over == {k \in UNION {c.keys : c \in postPaths} : IsPrefix(k, l)}
       IN  \E met \in SUBSET over :
              shown' = [p \in Paths |->
                  IF p # l THEN Overwritten(p, over, met)
                  ELSE IF Found(l) THEN Project(l, world[l]) ELSE None]
    /\ postPaths' = postPaths \ Ready(stage + 1)
    /\ kept' = /\ kept /\ (Order[stage + 1] \in required => shown'[Order[stage + 1]] # None)
               /\ \A c \in Ready(stage + 1) : Holds(c, shown')
    /\ UNCHANGED <<world, required, options, asked, filter, minified, status, requests,
                   reused>>

\* A minified request leaves this lookup out, and with it its conditions.
LeaveOut ==
    /\ status = "lookups" /\ stage < Len(Order) /\ ~Included(Order[stage + 1])
    /\ stage' = stage + 1
    /\ UNCHANGED <<world, required, options, asked, filter, minified, status, postPaths,
                   shown, kept, requests, reused>>

\* Mutant: without the $match for what is left in postPathsFilter.
AnswerAtOnce ==
    /\ status = "lookups" /\ stage = Len(Order)
    /\ status' = "answered"
    /\ postPaths' = {}
    /\ UNCHANGED <<world, required, options, asked, filter, minified, stage, shown, kept,
                   requests, reused>>

\* The last $match takes the $or conditions that never became ready.
Answer ==
    /\ status = "lookups" /\ stage = Len(Order)
    /\ status' = "answered"
    /\ postPaths' = {}
    /\ kept' = (kept /\ \A c \in postPaths : Holds(c, shown))
    /\ UNCHANGED <<world, required, options, asked, filter, minified, stage, shown,
                   requests, reused>>

-----------------------------------------------------------------------------
Next ==
    \/ \E f \in Filters :
          \/ Refuse(f)
          \/ \E fresh, mini \in BOOLEAN : Request(f, fresh, mini)
    \/ MatchRoot \/ Lookup \/ LeaveOut \/ Answer

Spec == Init /\ [][Next]_vars

-----------------------------------------------------------------------------
(* Properties *)

\* The key of a document that a client's key stands for.
Named(k) == Append(Front(k), SearchKeys[k].field)

\* The keys that stand for something filterable.
Allowed == {Named(k) : k \in Filterable}

\* The type of each variable.
TypeOK ==
    /\ world \in [Paths -> Documents \union {None}]
    /\ required \subseteq Lookups
    /\ options \in [Paths -> SUBSET SUBSET Seq(STRING)]
    /\ asked \in Filters \union {{}} /\ minified \in BOOLEAN
    /\ filter = Parsed(asked) /\ postPaths \subseteq filter
    /\ status \in {"idle", "root", "lookups", "answered"}
    /\ stage \in 0..Len(Order)
    /\ shown \in [Paths -> Parts \union {None}]
    /\ kept \in BOOLEAN /\ reused \in BOOLEAN
    /\ requests \in 0..MaxRequests

\* Whatever a client's filters name, what MongoDB is asked because of them is
\* about properties declared filterable at every step of the path: in the path
\* options, which may hold conditions of earlier requests, and in each $or.
\* Only the rest of a key cut off within a name may be anything.
OnlyFilterable ==
    /\ \A p \in Paths : \A keys \in options[p] : \A k \in keys :
          \/ k \in Access[p] \/ p \o k \in Allowed
          \/ \E j \in Allowed : EndsWithin(p, Front(j)) /\ k = KeyBelow(j, p)
    /\ \A c \in postPaths : c.keys \subseteq Allowed

\* What the caller lets this client see at path p.
Accessible(p) ==
    /\ world[p] # None
    /\ \A k \in Access[p] : Meets(world[p], k)
    /\ p # Root => p \in NonSoftDelete \/ ~world[p].isDeleted

\* The document at p is there for this request: accessible, with all documents
\* above it, and meeting the filter's conditions on it.
Visible(p) ==
    \A q \in {q \in Paths : IsPrefix(q, p)} :
        /\ Accessible(q)
        /\ \A j \in KeysOf(asked) : LET k == Named(j)
                                   IN  LeadsInto(k, q) => Meets(world[q], Rest(k, q))

\* A document that is there for this request meets one of the keys of c.
SomeMet(c) ==
    \E j \in c.keys, p \in Paths : LET k == Named(j)
    IN  LeadsInto(k, p) /\ Visible(p) /\ Meets(world[p], Rest(k, p))

\* What the request means: an inner join with the REQUIRED lookups, a left join
\* with the others ("when REQUIRED is used, it works just like an inner-join,
\* else the query works just like a left-join", README.md:266), and every $or
\* and $nor.
Meant ==
    /\ Visible(Root) /\ \A l \in required : Visible(l)
    /\ \A c \in asked : /\ c.op = "or" => SomeMet(c)
                        /\ c.op = "nor" => ~SomeMet(c)

\* No lookup has the path that an $or waits for: none is named like a document
\* embedded in another one that is looked up.  With path options that look up
\* `address` and then `company`, an $or on `company.address.name` waits for
\* `address` only, is matched before `company` is there, and loses documents.
Timely ==
    /\ <<"$$$">> \notin Lookups
    /\ \A k \in Allowed :
          Front(k) # Root => Below(Front(k), Owner(Front(k))) \notin Lookups

\* What the code does as MongoDB would: no $nor, which handleFilter drops; no
\* condition cut off within a name; and no $or that waits while a lookup
\* overwrites a reference that it is about.
Straight ==
    \A c \in filter :
        /\ c.op # "nor"
        /\ c.op = "key" => \A k \in c.keys, l \in Lookups : ~EndsWithin(l, Front(k))
        /\ c.op = "or" /\ WaitsFor(c) # {} =>
              \A k \in c.keys, l \in Lookups : ~IsPrefix(k, l)

\* A request that is not minified, with path options of its own, returns a base
\* document exactly if the filter means it to, with exactly the visible
\* documents in place of its references, given Timely path options and a
\* Straight filter.
JoinIsExact ==
    status = "answered" /\ ~reused /\ ~minified /\ Straight =>
        /\ kept <=> Meant
        /\ kept => \A l \in Lookups : shown[l] # None <=> Visible(l)

\* Path options that an earlier request filled in (resolvePathFilters writes
\* into the caller's object) lose documents, whatever that request asked, but
\* never return one too many to a Straight filter.
ReuseOnlyNarrows == status = "answered" /\ ~minified /\ kept /\ Straight => Meant

\* No filter, flag or reuse shows a client what the caller's accessibility or a
\* soft delete hides: neither a base document nor one below it.
NothingHiddenIsShown ==
    status = "answered" /\ kept =>
        \A p \in Paths : shown[p] # None =>
            \A q \in {q \in Paths : IsPrefix(q, p)} : shown[q] # None /\ Accessible(q)
=============================================================================
