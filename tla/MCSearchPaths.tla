---------------------------- MODULE MCSearchPaths ----------------------------
(* Small instances of SearchPaths for TLC. *)
EXTENDS SearchPaths, TLC

\* A base document refers to a company, and a company to its owner.
Company == <<"company">>
CompanyOwner == <<"company", "owner">>
ParentFirst == <<Company, CompanyOwner>>

\* A name at each of them, and one in documents embedded in the company: one at
\* its address, and one at its ownership, which starts with owner.  A company has
\* a title, which is its name, and an audit nobody may filter by.
\* Base documents have their name, company and soft-delete flag in minified.
Key(field, filterable, inMinified) ==
    [field |-> field, filterable |-> filterable, inMinified |-> inMinified]
Models ==
    <<"name">> :> Key("name", TRUE, TRUE) @@
    <<"isDeleted">> :> Key("isDeleted", FALSE, TRUE) @@
    Company :> Key("company", TRUE, TRUE) @@
    Company \o <<"title">> :> Key("name", TRUE, TRUE) @@
    Company \o <<"address">> :> Key("address", TRUE, FALSE) @@
    Company \o <<"address", "name">> :> Key("name", TRUE, FALSE) @@
    Company \o <<"ownership">> :> Key("ownership", TRUE, FALSE) @@
    Company \o <<"ownership", "name">> :> Key("name", TRUE, FALSE) @@
    Company \o <<"audit">> :> Key("audit", FALSE, FALSE) @@
    Company \o <<"audit", "name">> :> Key("name", TRUE, FALSE) @@
    CompanyOwner :> Key("owner", TRUE, FALSE) @@
    CompanyOwner \o <<"name">> :> Key("name", TRUE, FALSE)
Owned == Company \o <<"ownership", "name">>
Audited == Company \o <<"audit", "name">>
NamesEverywhere ==
    {<<"name">>, Company, Company \o <<"title">>, Company \o <<"address", "name">>,
     CompanyOwner \o <<"name">>, Owned, Audited, <<"nothing">>}
OwnerInOwnership == <<"owner", "ownership">> :> "hip"

\* Up to one condition on a key, and up to one $or across two documents, or $nor.
OnKey(k) == [op |-> "key", keys |-> {k}, deep |-> FALSE]
Either(S, d) == [op |-> "or", keys |-> S, deep |-> d]
Operators ==
    {Either({<<"name">>, Company \o <<"title">>}, d) : d \in BOOLEAN} \union
    {Either({Company \o <<"address", "name">>, CompanyOwner \o <<"name">>}, FALSE),
     Either({<<"name">>}, FALSE), Either({<<"name">>, Audited}, FALSE),
     Either({Company, Company \o <<"title">>}, FALSE),
     [op |-> "nor", keys |-> {<<"name">>}, deep |-> FALSE]}
SmallFilters ==
    {{OnKey(k)} : k \in NamesEverywhere} \union
    {{OnKey(k) : k \in S} \union {c} :
        S \in {{}, {<<"name">>}, {CompanyOwner \o <<"name">>}}, c \in Operators}
    \union {{}}

SmallDocuments ==
    [meets : {{<<"ok">>}, {<<"ok">>, <<"name">>}, {<<"name">>},
              {<<"ok">>, <<"company">>, <<"address", "name">>}}, isDeleted : {FALSE}]
    \union [meets : {{<<"ok">>, <<"name">>}}, isDeleted : {TRUE}]

\* The caller asks for the flag `ok` on base documents and companies.
OkOnTop == Root :> {<<"ok">>} @@ Company :> {<<"ok">>} @@ CompanyOwner :> {}

\* JoinIsExact is about path options like these.
ASSUME TimelyPaths == Timely
=============================================================================
