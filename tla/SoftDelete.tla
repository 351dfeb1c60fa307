------------------------------ MODULE SoftDelete ------------------------------
(***************************************************************************)
(* src/src/mongoose-softdelete: the plugin's statics softDelete and        *)
(* restore, and the query hooks that hide deleted documents.  A static     *)
(* reads the documents of a filter, then changes and saves them one after  *)
(* the other, each save awaited: other calls step in between, on documents *)
(* both have read.  save() writes the changed paths by _id, whatever the   *)
(* document has become, and fails if it is gone.                           *)
(***************************************************************************)
EXTENDS Integers, FiniteSets

CONSTANTS
    Docs,    \* the documents of one collection
    Callers, \* calls of softDelete and restore, each made once
    MaxTime, \* the clock stops here (bound)
    None

Fields == [isDeleted : BOOLEAN, deletedAt : (0..MaxTime) \union {None}]

ASSUME SoftDeleteAssumption ==
    /\ IsFiniteSet(Docs) /\ MaxTime \in Nat
    /\ None \notin 0..MaxTime /\ None \notin Docs /\ None \notin Fields

VARIABLES
    now,     \* what new Date() returns
    doc,     \* the collection: isDeleted and deletedAt of each document, or None
    op,      \* the static each caller runs
    phase,   \* how far it is
    todo,    \* documents it found and has not saved yet
    current, \* the document it is saving
    stamp,   \* the deletedAt it is saving
    count,   \* deleted, or restored
    \* History, read by properties only:
    found,   \* documents it found in the other state
    changed, \* documents its saves took from one state to the other
    met      \* calls in progress when it made its find, or begun later

vars == <<now, doc, op, phase, todo, current, stamp, count, found, changed, met>>

Live == [isDeleted |-> FALSE, deletedAt |-> None]

\* What the call sets isDeleted to.
Wanted(c) == op[c] = "softDelete"

Init ==
    /\ now = 0
    /\ doc \in [Docs -> {Live, [isDeleted |-> TRUE, deletedAt |-> 0]}]
    /\ op \in [Callers -> {"softDelete", "restore"}]
    /\ phase = [c \in Callers |-> "idle"]
    /\ todo = [c \in Callers |-> {}]
    /\ current = [c \in Callers |-> None]
    /\ stamp = [c \in Callers |-> None]
    /\ count = [c \in Callers |-> 0]
    /\ found = [c \in Callers |-> {}]
    /\ changed = [c \in Callers |-> {}]
    /\ met = [c \in Callers |-> {}]

-----------------------------------------------------------------------------
(* Queries *)

\* excludeInFindQueriesIsDeleted: a filter that does not ask for isDeleted: true
\* asks for isDeleted: false.
Matches(d, asksDeleted) ==
    IF doc[d] = None THEN FALSE ELSE doc[d].isDeleted = asksDeleted

\* A findOneAndDelete by the application, under the same hook.
FindOneAndDelete(d, asksDeleted) ==
    /\ Matches(d, asksDeleted)
    /\ doc' = [doc EXCEPT ![d] = None]
    /\ UNCHANGED <<now, op, phase, todo, current, stamp, count, found, changed, met>>

-----------------------------------------------------------------------------
(* softDelete and restore *)

Running(c) == phase[c] \in {"loop", "saving"}

\* Mutant: what is found is saved, whatever its isDeleted.
OthersOf(c, S) == S

\* Those of S that the loop does not skip.
ToChange(c, S) == {d \in S : doc[d].isDeleted # Wanted(c)}

\* The find of either static; F is what the rest of the filter matches.  A
\* softDelete whose filter asks for isDeleted: true leaves all it finds alone.
Find(c, F, asksDeleted) ==
    LET S == ToChange(c, {d \in F : Matches(d, asksDeleted)})
    IN  /\ phase[c] = "idle"
        /\ op[c] = "restore" => asksDeleted
        /\ phase' = [phase EXCEPT ![c] = "loop"]
        /\ todo' = [todo EXCEPT ![c] = S]
        /\ found' = [found EXCEPT ![c] = S]
        /\ met' = [b \in Callers |->
               IF b = c THEN {a \in Callers : Running(a)}
               ELSE IF phase[b] = "idle" THEN {} ELSE met[b] \union {c}]
        /\ UNCHANGED <<now, doc, op, current, stamp, count, changed>>

\* Mutant: a restored document gets a date, too.
StampAlways(c) == now

Stamp(c) == IF Wanted(c) THEN now ELSE None

\* The two fields are set on the copy, and save() sends both.
SendSave(c, d) ==
    /\ phase[c] = "loop" /\ d \in todo[c]
    /\ phase' = [phase EXCEPT ![c] = "saving"]
    /\ todo' = [todo EXCEPT ![c] = @ \ {d}]
    /\ current' = [current EXCEPT ![c] = d]
    /\ stamp' = [stamp EXCEPT ![c] = Stamp(c)]
    /\ UNCHANGED <<now, doc, op, count, found, changed, met>>

\* The database has the document, updates it and answers.
Saved(c) ==
    LET d == current[c]
    IN  /\ phase[c] = "saving" /\ doc[d] # None
        /\ doc' = [doc EXCEPT ![d] = [isDeleted |-> Wanted(c), deletedAt |-> stamp[c]]]
        /\ phase' = [phase EXCEPT ![c] = "loop"]
        /\ current' = [current EXCEPT ![c] = None]
        /\ count' = [count EXCEPT ![c] = @ + 1]
        /\ changed' = [changed EXCEPT ![c] =
               IF doc[d].isDeleted = Wanted(c) THEN @ ELSE @ \union {d}]
        /\ UNCHANGED <<now, op, todo, stamp, found, met>>

\* Mutant: the catch does not throw.
SaveFailsSwallowed(c) ==
    /\ phase[c] = "saving"
    /\ phase' = [phase EXCEPT ![c] = "loop"]
    /\ current' = [current EXCEPT ![c] = None]
    /\ UNCHANGED <<now, doc, op, todo, stamp, count, found, changed, met>>

\* The save fails, as it does when the document is gone: the loop is left, and
\* with it the count of what was saved before.
SaveFails(c) ==
    /\ phase[c] = "saving"
    /\ phase' = [phase EXCEPT ![c] = "thrown"]
    /\ current' = [current EXCEPT ![c] = None]
    /\ UNCHANGED <<now, doc, op, todo, stamp, count, found, changed, met>>

Return(c) ==
    /\ phase[c] = "loop" /\ todo[c] = {}
    /\ phase' = [phase EXCEPT ![c] = "returned"]
    /\ UNCHANGED <<now, doc, op, todo, current, stamp, count, found, changed, met>>

Tick ==
    /\ now < MaxTime
    /\ now' = now + 1
    /\ UNCHANGED <<doc, op, phase, todo, current, stamp, count, found, changed, met>>

-----------------------------------------------------------------------------
Next ==
    \/ \E d \in Docs, asksDeleted \in BOOLEAN : FindOneAndDelete(d, asksDeleted)
    \/ \E c \in Callers :
          \/ \E F \in SUBSET Docs, asksDeleted \in BOOLEAN : Find(c, F, asksDeleted)
          \/ \E d \in Docs : SendSave(c, d)
          \/ Saved(c) \/ SaveFails(c) \/ Return(c)
    \/ Tick

Spec == Init /\ [][Next]_vars

-----------------------------------------------------------------------------
(* Properties *)

\* The type of each variable; a document is saved once by each call.
TypeOK ==
    /\ now \in 0..MaxTime
    /\ doc \in [Docs -> Fields \union {None}]
    /\ op \in [Callers -> {"softDelete", "restore"}]
    /\ phase \in [Callers -> {"idle", "loop", "saving", "returned", "thrown"}]
    /\ found \in [Callers -> SUBSET Docs]
    /\ todo \in [Callers -> SUBSET Docs]
    /\ current \in [Callers -> Docs \union {None}]
    /\ stamp \in [Callers -> (0..MaxTime) \union {None}]
    /\ count \in [Callers -> Nat]
    /\ changed \in [Callers -> SUBSET Docs]
    /\ met \in [Callers -> SUBSET Callers]
    /\ \A c \in Callers : todo[c] \subseteq found[c] /\ current[c] \notin todo[c]

\* A document has a date of deletion exactly if it is deleted, although calls
\* save copies they read before other calls changed the document.
FlagAndDateAgree ==
    \A d \in Docs : doc[d] # None => (doc[d].isDeleted <=> doc[d].deletedAt # None)

\* A call that returns counts each document it found once, and its saves changed
\* all of them but those that a call of the same kind, running at the same time,
\* changed as well: what two calls count twice they did at once.
OvercountNeedsOverlap ==
    \A c \in Callers : phase[c] = "returned" =>
        /\ count[c] = Cardinality(found[c])
        /\ \A d \in found[c] \ changed[c] :
              \E b \in met[c] \ {c} : op[b] = op[c] /\ d \in changed[b]

\* Once a softDelete returned, the documents it found are deleted, or gone, and
\* stay so unless a restore ran at the same time or later; likewise for restore.
\* A call that cannot save a document does not return.
ReturnedStays ==
    \A c \in Callers :
        /\ phase[c] = "returned"
        /\ \A b \in met[c] : op[b] = op[c]
        => \A d \in found[c] :
              doc[d] # None => doc[d].isDeleted = Wanted(c)
=============================================================================
