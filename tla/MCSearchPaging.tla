--------------------------- MODULE MCSearchPaging ---------------------------
(* Small instances of SearchPaging for TLC. *)
EXTENDS SearchPaging, TLC

ThreeIds == 1..3

\* One sortable field without missing values, and documents that do and do not
\* match the client's filter.
OneKey == [key : {<<v>> : v \in 1..2}, wanted : BOOLEAN]
ByKey == <<[field |-> 1, dir |-> -1]>>

\* Two sortable fields, sorted in opposite directions, and a document the
\* filter does not want.
TwoKeys == [key : (1..2) \X (1..2), wanted : {TRUE}] \union
           {[key |-> <<1, 2>>, wanted |-> FALSE]}
ByBoth == <<[field |-> 1, dir |-> 1], [field |-> 2, dir |-> -1]>>
=============================================================================
