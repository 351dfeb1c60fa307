---------------------------- MODULE SearchPaging ----------------------------
(***************************************************************************)
(* src/src/search-pagination: a client pages through a collection while    *)
(* others write to it.  SearchPipe turns a query into a request, and       *)
(* _aggregate reads the document named by `after`, builds a filter for     *)
(* what follows it in the sort order, and counts what the filter lets      *)
(* through.  MongoDB's sorting and comparisons are modelled from how the   *)
(* code uses them.  $lookup paths are left out: every filter is on $ROOT$. *)
(***************************************************************************)
EXTENDS Integers, Sequences, FiniteSets

CONSTANTS
    Ids,          \* ids a document may have, as numbers: _id sorts by them
    Contents,     \* what a document may hold: [key |-> values, wanted |-> flag]
    Sort,         \* sort of the query: entries [field |-> n, dir |-> 1 or -1]
    Sortable,     \* the fields a client may sort by
    Populated,    \* the fields that refer to another document, and are looked up
    DefaultField, \* the field SorterParser sorts by without one
    Projected,    \* the fields left by $ROOT$'s $project: of a minified request
                  \* those with includeInMinified, else all
    Limit,        \* documents per page; 0 is no limit
    ByNumber,     \* whether the client may ask for a page by its number alone
    OrFilter,     \* whether the client's filter is an $or
    CursorStays,  \* whether others only delete the last document received, if anything
    MaxWrites,    \* writes by others (bound)
    MaxPage,      \* pages the client asks for (bound)
    None

Id == 0           \* the field number of _id
Null == 0         \* a missing or null value; other values are larger

ASSUME PagingAssumption ==
    /\ Ids \subseteq Nat \ {0} /\ IsFiniteSet(Ids)
    /\ None \notin Contents /\ None \notin Ids /\ None \notin [id : Ids, content : Contents]
    /\ \A c \in Contents : c.key \in Seq(Nat) /\ c.wanted \in BOOLEAN
    /\ Sort \in Seq([field : Nat, dir : {1, -1}])
    /\ \A i, j \in DOMAIN Sort : Sort[i].field = Sort[j].field => i = j
    /\ Projected \subseteq Nat /\ Sortable \subseteq Nat /\ Populated \subseteq Nat
    /\ Limit \in Nat /\ DefaultField \in Nat /\ MaxWrites \in Nat /\ MaxPage \in Nat
    /\ ByNumber \in BOOLEAN /\ OrFilter \in BOOLEAN /\ CursorStays \in BOOLEAN

VARIABLES
    docs,    \* the collection: the content of each id, or None
    writes,  \* writes by others so far
    status,  \* how far the client and its current request are
    page,    \* page number of the request
    after,   \* id the request names, or None
    last,    \* what findById returned for it: [id, content] or None
    got,     \* ids on the page received last
    cursor,  \* the last document received, as it was then
    total,   \* pagination.total of that page
    seen,    \* how often each id was received, up to twice
    numbered,\* whether a later page was asked for by its number alone
    vanished,\* whether findById ever found nothing
    steady   \* wanted documents nobody wrote since the first request

requestVars == <<page, after, numbered>>
clientVars  == <<got, cursor, total, seen>>
vars == <<docs, writes, status, last, vanished, requestVars, clientVars, steady>>

-----------------------------------------------------------------------------
(* Sort order *)

\* checkPathAndReturnDescriptor for "Sorting": any other key is a bad request.
Accepts(sort) == \A i \in DOMAIN sort : sort[i].field \in Sortable

\* SorterParser.parse
Parse(sort) ==
    IF sort = <<>> THEN <<[field |-> DefaultField, dir |-> -1]>> ELSE sort

\* { ...dto.sort, _id: 1 }: _id keeps its place if it has one, but not its
\* direction.
SortObj ==
    LET s == Parse(Sort)
    IN  IF \E i \in DOMAIN s : s[i].field = Id
        THEN [i \in DOMAIN s |-> [s[i] EXCEPT !.dir = IF s[i].field = Id THEN 1 ELSE @]]
        ELSE Append(s, [field |-> Id, dir |-> 1])

Entries == DOMAIN SortObj

\* Values of the i-th sort key in a document x = [id, content].
ValueAt(x, i) ==
    IF SortObj[i].field = Id THEN x.id ELSE x.content.key[SortObj[i].field]

Precedes(v, w, i) == IF SortObj[i].dir = 1 THEN v < w ELSE v > w

\* The order the query asks for: lexicographic, missing values below all others.
Before(x, y) ==
    \E i \in Entries :
        /\ \A j \in 1..(i - 1) : ValueAt(x, j) = ValueAt(y, j)
        /\ Precedes(ValueAt(x, i), ValueAt(y, i), i)

\* $sort comes after $project, which keeps _id and the projected fields.
SortValueAt(x, i) ==
    IF SortObj[i].field \in Projected \union {Id} THEN ValueAt(x, i) ELSE Null

SortedBefore(x, y) ==
    \E i \in Entries :
        /\ \A j \in 1..(i - 1) : SortValueAt(x, j) = SortValueAt(y, j)
        /\ Precedes(SortValueAt(x, i), SortValueAt(y, i), i)

\* populate put a document in place of a reference in the cursor: MongoDB compares
\* it with the references of the others, which it neither equals nor precedes.
Replaced(x, i) == SortObj[i].field \in Populated /\ ValueAt(x, i) # Null

Equal(x, y, i) == ValueAt(y, i) = ValueAt(x, i) /\ ~Replaced(x, i)

\* Mutant: without the equalities on the keys before.
ClauseMatchesAlone(x, y, i) ==
    ValueAt(x, i) # Null =>
        ValueAt(y, i) # Null /\ Precedes(ValueAt(x, i), ValueAt(y, i), i)

\* Mutant: $gt whatever the direction of the key.
ClauseMatchesUpwards(x, y, i) ==
    /\ \A j \in 1..(i - 1) : Equal(x, y, j)
    /\ ValueAt(x, i) # Null => ValueAt(y, i) > ValueAt(x, i)

\* One clause of the $or built for `after`: equal to the cursor on the keys
\* before i and beyond it on key i.  A missing value in the cursor leaves out
\* the comparison, and a comparison never matches a missing value.
ClauseMatches(x, y, i) ==
    /\ \A j \in 1..(i - 1) : Equal(x, y, j)
    /\ ValueAt(x, i) # Null =>
          /\ ValueAt(y, i) # Null /\ ~Replaced(x, i)
          /\ Precedes(ValueAt(x, i), ValueAt(y, i), i)

\* An empty clause is dropped.
Clauses(x) == {i \in Entries : i > 1 \/ ValueAt(x, i) # Null}

AfterMatches(x, y) == \E i \in Clauses(x) : ClauseMatches(x, y, i)

-----------------------------------------------------------------------------
Present == {d \in Ids : docs[d] # None}
Doc(d) == [id |-> d, content |-> docs[d]]
Wanted == {d \in Present : docs[d].wanted}

Init ==
    /\ docs \in [Ids -> Contents \union {None}]
    /\ writes = 0 /\ status = "idle"
    /\ page = 0 /\ after = None /\ last = None /\ numbered = FALSE /\ vanished = FALSE
    /\ got = {} /\ cursor = None /\ total = 0
    /\ seen = [d \in Ids |-> 0] /\ steady = {}

\* The client asks for the first page.
Search ==
    /\ status = "idle" /\ Accepts(Sort)
    /\ status' = "asked"
    /\ steady' = Wanted
    /\ UNCHANGED <<docs, writes, last, vanished, requestVars, clientVars>>

\* It follows pagination.next, with `after` or by number.
SearchNext ==
    /\ status = "next" /\ page < MaxPage
    /\ status' = "asked"
    /\ page' = page + 1
    /\ \/ /\ after' = IF cursor = None THEN None ELSE cursor.id
          /\ UNCHANGED numbered
       \/ ByNumber /\ after' = None /\ numbered' = TRUE
    /\ UNCHANGED <<docs, writes, last, vanished, clientVars, steady>>

\* findById, before the aggregation is sent.
FindLast ==
    /\ status = "asked" /\ after # None
    /\ status' = "aggregate"
    /\ last' = IF docs[after] # None THEN Doc(after) ELSE None
    /\ vanished' = (vanished \/ docs[after] = None)
    /\ UNCHANGED <<docs, writes, requestVars, clientVars, steady>>

NoCursor ==
    /\ status = "asked" /\ after = None
    /\ status' = "aggregate"
    /\ last' = None
    /\ UNCHANGED <<docs, writes, vanished, requestVars, clientVars, steady>>

\* Mutant: nothing comes after a document that is gone.
MatchingNothingAfterGone ==
    IF last = None THEN {d \in Wanted : after = None}
    ELSE {d \in IF OrFilter THEN Present ELSE Wanted : AfterMatches(last, Doc(d))}

\* dto.filter: the $or for `after` takes the place of an $or of the client.  With
\* `after` of a document that is gone the list starts again.
Matching ==
    IF last = None THEN Wanted
    ELSE {d \in IF OrFilter THEN Present ELSE Wanted : AfterMatches(last, Doc(d))}

\* Mutant: $skip whatever isNext says.
SkipAlways == page * Limit

\* $skip, only without `after`.
Skip == IF after = None THEN page * Limit ELSE 0

\* $facet.data: sorted, $skip and $limit unless the limit is 0.
PageOf(S) ==
    LET rank(d) == Cardinality({e \in S : SortedBefore(Doc(e), Doc(d))})
    IN  IF Limit = 0 THEN S
        ELSE {d \in S : rank(d) >= Skip /\ rank(d) < Skip + Limit}

\* pagination.after: the document no other one of the page comes after.
LastOf(P) == CHOOSE d \in P : \A e \in P \ {d} : SortedBefore(Doc(e), Doc(d))

\* Mutant: only what the cursor leaves.
TotalOfRest(S) == Cardinality(S)

\* Mutant: what came before a page is added to every total, also without `after`.
TotalOfAll(S) == Limit * page + Cardinality(S)

TotalOf(S) == (IF after = None THEN 0 ELSE Limit * page) + Cardinality(S)

\* paginate: next is undefined from here on.
NoNext(count) == (page + 1) * Limit >= count

Aggregate ==
    LET P == PageOf(Matching)
        count == TotalOf(Matching)
    IN  /\ status = "aggregate"
        /\ status' = IF NoNext(count) THEN "done" ELSE "next"
        /\ got' = P
        /\ cursor' = IF P = {} THEN None ELSE Doc(LastOf(P))
        /\ total' = count
        /\ seen' = [d \in Ids |-> IF d \in P /\ seen[d] < 2 THEN seen[d] + 1
                                                            ELSE seen[d]]
        /\ UNCHANGED <<docs, writes, last, vanished, requestVars, steady>>

\* Others insert, change or delete a document.
Write(d, c) ==
    /\ writes < MaxWrites /\ status # "done" /\ docs[d] # c
    /\ CursorStays /\ cursor # None /\ d = cursor.id => c = None
    /\ writes' = writes + 1
    /\ docs' = [docs EXCEPT ![d] = c]
    /\ steady' = steady \ {d}
    /\ UNCHANGED <<status, last, vanished, requestVars, clientVars>>

-----------------------------------------------------------------------------
Next ==
    \/ Search \/ SearchNext \/ FindLast \/ NoCursor \/ Aggregate
    \/ \E d \in Ids, c \in Contents \union {None} : Write(d, c)

Spec == Init /\ [][Next]_vars

\* The client goes on and the server answers.
FairSpec == Spec /\ WF_vars(Search \/ SearchNext \/ FindLast \/ NoCursor \/ Aggregate)

-----------------------------------------------------------------------------
(* Properties *)

Received == [id : Ids, content : Contents]

\* The type of each variable.
TypeOK ==
    /\ docs \in [Ids -> Contents \union {None}]
    /\ writes \in 0..MaxWrites /\ page \in 0..MaxPage /\ total \in Nat
    /\ status \in {"idle", "asked", "aggregate", "next", "done"}
    /\ after \in Ids \union {None} /\ numbered \in BOOLEAN /\ vanished \in BOOLEAN
    /\ last \in Received \union {None} /\ cursor \in Received \union {None}
    /\ got \subseteq Ids /\ steady \subseteq Ids
    /\ seen \in [Ids -> 0..2]

\* Page numbers were used only while nobody writes and with a limit: without one
\* every page by number is the whole list again.
Undisturbed == numbered => writes = 0 /\ Limit # 0

\* A client that follows `next` with `after` to the end receives every document
\* that matches its filter and that nobody touched meanwhile, whatever others
\* insert, change or delete around it, the document that `after` names included:
\* when findById no longer finds that one, the list starts again.
NothingSkipped == status = "done" /\ Undisturbed => \A d \in steady : seen[d] >= 1

\* As long as findById finds what `after` names it receives them exactly once.
SteadySeenOnce ==
    status = "done" /\ Undisturbed /\ ~vanished => \A d \in steady : seen[d] = 1

\* Without writes, pagination.total is the number of matching documents on
\* every page, although a page with `after` counts only what the cursor leaves.
TotalIsCount ==
    writes = 0 /\ status \in {"next", "done"} => total = Cardinality(Wanted)

\* `after` is "the id of the last element received" (search.dto.ts:46): a page
\* asked for with it holds only documents that come after that element, if
\* findById found it.
PageFollowsCursor ==
    [][last # None /\ seen' # seen
         => \A d \in got' : Before(cursor, [id |-> d, content |-> docs[d]])]_vars

\* Every document received matches the client's filter when it is received:
\* the filter "works as a mongo filter" (README.md:282) on every page.
FilterHolds == [][seen' # seen => got' \subseteq Wanted]_vars

\* The first page, and every page asked for with `after`, holds the documents that
\* come first in the order of the query among those that match: "sorts by company
\* ascending, then by createdAt descending" (README.md:290).  Holds if $project
\* keeps the sort keys.
PagesAreSorted ==
    [][seen' # seen /\ (after # None \/ page = 0)
         => \A d \in got', e \in Matching \ got' : ~Before(Doc(e), Doc(d))]_vars

\* The client gets to a page without `next`.
PagingEnds == <>(status = "done")
=============================================================================
