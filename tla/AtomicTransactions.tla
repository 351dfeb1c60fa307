-------------------------- MODULE AtomicTransactions --------------------------
(***************************************************************************)
(* What transactions promise, without sessions, contexts or retries: the   *)
(* writes of an attempt reach the database together, when it commits, or   *)
(* not at all; an attempt that is over takes no more writes; a write       *)
(* outside of every transaction is in the database at once.                *)
(***************************************************************************)
CONSTANTS
    Writes,   \* each with the attempt it belongs to in its field scope
    Attempts, \* every run of a transaction's body
    Alone     \* the scope of a write outside of every transaction

VARIABLES
    database, \* writes that happened
    pending,  \* writes of attempts in progress
    over      \* attempts that committed or were undone

vars == <<database, pending, over>>

Init == database = {} /\ pending = {} /\ over = {}

Of(t) == {w \in pending : w.scope = t}

WriteAlone(w) ==
    /\ w.scope = Alone
    /\ database' = database \union {w}
    /\ UNCHANGED <<pending, over>>

WriteIn(w) ==
    /\ w.scope \in Attempts \ over
    /\ pending' = pending \union {w}
    /\ UNCHANGED <<database, over>>

Commit(t) ==
    /\ t \notin over
    /\ database' = database \union Of(t)
    /\ pending' = pending \ Of(t)
    /\ over' = over \union {t}

Discard(t) ==
    /\ t \notin over
    /\ pending' = pending \ Of(t)
    /\ over' = over \union {t}
    /\ UNCHANGED database

Next ==
    \/ \E w \in Writes : WriteAlone(w) \/ WriteIn(w)
    \/ \E t \in Attempts : Commit(t) \/ Discard(t)

Spec == Init /\ [][Next]_vars
=============================================================================
