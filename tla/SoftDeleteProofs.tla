--------------------------- MODULE SoftDeleteProofs ---------------------------
(***************************************************************************)
(* Theorems about SoftDelete, for any documents, calls and interleaving.   *)
(* The inductive invariant IInv says what a call in progress still has to  *)
(* save, and that calls in progress at the same time have met.             *)
(***************************************************************************)
EXTENDS SoftDelete, FiniteSetTheorems, TLAPS

\* What c has found and not saved.
Left(c) == todo[c] \union (IF phase[c] = "saving" THEN {current[c]} ELSE {})

\* What it has saved.
Done(c) == found[c] \ Left(c)

\* Somebody else's call of the same kind changed d while c ran.
ByAnother(c, d) == \E b \in met[c] \ {c} : op[b] = op[c] /\ d \in changed[b]

\* A call saves one document of those it found at a time.
SavingOne ==
    \A c \in Callers :
        /\ phase[c] = "saving" => current[c] \in found[c]
        /\ phase[c] # "saving" => current[c] = None

\* What is being saved has a date exactly if it is a deletion.
StampFits ==
    \A c \in Callers : phase[c] = "saving" => (stamp[c] # None <=> Wanted(c))

\* Two calls in progress have met, also if one of them is over by now.
RunningMet ==
    \A b, c \in Callers :
        b # c /\ phase[b] \in {"loop", "saving"} /\ phase[c] # "idle" => b \in met[c]

\* What is left is still in the other state, or gone, or another call was faster.
LeftIsStale ==
    \A c \in Callers : \A d \in Left(c) :
        doc[d] = None \/ doc[d].isDeleted # Wanted(c) \/ ByAnother(c, d)

\* What was saved is counted, and was changed here or by another call.
DoneIsCounted ==
    \A c \in Callers : phase[c] \in {"loop", "saving", "returned"} =>
        /\ count[c] = Cardinality(Done(c))
        /\ \A d \in Done(c) \ changed[c] : ByAnother(c, d)

\* A call that met none of the other kind keeps what it saved.
DoneStays ==
    \A c \in Callers :
        /\ phase[c] \in {"loop", "saving", "returned"}
        /\ \A b \in met[c] : op[b] = op[c]
        => \A d \in Done(c) : doc[d] # None => doc[d].isDeleted = Wanted(c)

IdleHasNothing ==
    \A c \in Callers : phase[c] = "idle" =>
        todo[c] = {} /\ found[c] = {} /\ count[c] = 0 /\ changed[c] = {}

ReturnedLeavesNothing == \A c \in Callers : phase[c] = "returned" => todo[c] = {}

IInv ==
    /\ TypeOK /\ SavingOne /\ StampFits /\ FlagAndDateAgree
    /\ RunningMet /\ LeftIsStale /\ DoneIsCounted /\ DoneStays
    /\ ReturnedLeavesNothing /\ IdleHasNothing

-----------------------------------------------------------------------------
(* Each action keeps the invariant *)

\* The initial states: nothing found, nothing saved, no call in progress.
LEMMA InitHolds == Init => IInv
<1>. SUFFICES ASSUME Init PROVE IInv
  OBVIOUS
<1>1. now \in 0..MaxTime /\ None \notin 0..MaxTime
  BY SoftDeleteAssumption DEF Init
<1>2. TypeOK
  <2>1. Live \in Fields /\ [isDeleted |-> TRUE, deletedAt |-> 0] \in Fields
    BY <1>1, SoftDeleteAssumption DEF Live, Fields
  <2>. HIDE DEF Live
  <2>2. doc \in [Docs -> Fields \union {None}]
    BY <2>1 DEF Init
  <2>. QED  BY <1>1, <2>2, SoftDeleteAssumption DEF Init, TypeOK
<1>3. FlagAndDateAgree
  BY <1>1 DEF Init, FlagAndDateAgree, Live
<1>4. SavingOne /\ StampFits /\ RunningMet /\ LeftIsStale /\ ReturnedLeavesNothing
  BY DEF Init, SavingOne, StampFits, RunningMet, LeftIsStale, Left, ReturnedLeavesNothing
<1>5. DoneIsCounted /\ DoneStays
  BY DEF Init, DoneIsCounted, DoneStays
<1>6. IdleHasNothing
  BY DEF Init, IdleHasNothing
<1>. QED  BY <1>2, <1>3, <1>4, <1>5, <1>6 DEF IInv

\* A document that goes, goes for every call.
LEMMA FindOneAndDeleteKeeps ==
  ASSUME IInv, NEW d \in Docs, NEW asksDeleted \in BOOLEAN, FindOneAndDelete(d, asksDeleted)
  PROVE  IInv'
<1>. USE DEF FindOneAndDelete
<1>1. /\ TypeOK' /\ SavingOne' /\ StampFits' /\ RunningMet' /\ ReturnedLeavesNothing'
      /\ IdleHasNothing'
  BY DEF IInv, TypeOK, SavingOne, StampFits, RunningMet, ReturnedLeavesNothing,
         IdleHasNothing, Wanted
<1>2. /\ \A c \in Callers : Left(c)' = Left(c) /\ Done(c)' = Done(c) /\ Wanted(c)' = Wanted(c)
      /\ \A c \in Callers, e \in Docs : ByAnother(c, e)' = ByAnother(c, e)
      /\ \A e \in Docs : doc'[e] = doc[e] \/ doc'[e] = None
  BY DEF IInv, TypeOK, Left, Done, ByAnother, Wanted
<1>3. \A c \in Callers : Left(c) \subseteq Docs /\ Done(c) \subseteq Docs
  BY DEF IInv, TypeOK, SavingOne, Left, Done
<1>4. FlagAndDateAgree'
  BY <1>2 DEF IInv, FlagAndDateAgree
<1>5. LeftIsStale' /\ DoneStays'
  BY <1>2, <1>3 DEF IInv, LeftIsStale, DoneStays
<1>6. DoneIsCounted'
  BY <1>2, <1>3 DEF IInv, DoneIsCounted
<1>. QED  BY <1>1, <1>4, <1>5, <1>6 DEF IInv

\* A find leaves all it found to be saved; it and the calls in progress meet.
LEMMA FindKeeps ==
  ASSUME IInv, NEW c \in Callers, NEW F \in SUBSET Docs, NEW asksDeleted \in BOOLEAN,
         Find(c, F, asksDeleted)
  PROVE  IInv'
<1>. DEFINE S == ToChange(c, {d \in F : Matches(d, asksDeleted)})
<1>. USE DEF Find
<1>1. S \subseteq Docs /\ \A d \in S : doc[d].isDeleted # Wanted(c)
  BY DEF ToChange
<1>2. /\ phase[c] = "idle" /\ phase' = [phase EXCEPT ![c] = "loop"]
      /\ todo' = [todo EXCEPT ![c] = S] /\ found' = [found EXCEPT ![c] = S]
      /\ met' = [b \in Callers |->
               IF b = c THEN {a \in Callers : Running(a)}
               ELSE IF phase[b] = "idle" THEN {} ELSE met[b] \union {c}]
      /\ UNCHANGED <<now, doc, op, current, stamp, count, changed>>
  OBVIOUS
<1>. HIDE DEF S, Find
<1>3. TypeOK'
  BY <1>1, <1>2, SoftDeleteAssumption DEF IInv, TypeOK, SavingOne
<1>4. SavingOne' /\ StampFits' /\ FlagAndDateAgree' /\ ReturnedLeavesNothing'
  BY <1>2 DEF IInv, TypeOK, SavingOne, StampFits, FlagAndDateAgree, ReturnedLeavesNothing, Wanted
<1>5. RunningMet'
  BY <1>2 DEF IInv, TypeOK, RunningMet, Running
<1>6. /\ Left(c)' = S /\ Done(c)' = {}
      /\ \A b \in Callers \ {c} : Left(b)' = Left(b) /\ Done(b)' = Done(b)
      /\ \A b \in Callers : Wanted(b)' = Wanted(b)
  BY <1>2 DEF IInv, TypeOK, Left, Done, Wanted
<1>7. \A b \in Callers \ {c} : phase[b] # "idle" =>
         \A d : ByAnother(b, d) => ByAnother(b, d)'
  BY <1>2 DEF IInv, TypeOK, ByAnother
<1>8. \A b \in Callers \ {c} : phase[b] = "idle" => Left(b) = {} /\ Done(b) = {}
  BY DEF IInv, IdleHasNothing, Left, Done
<1>9. LeftIsStale'
  BY <1>1, <1>2, <1>6, <1>7, <1>8 DEF IInv, LeftIsStale
<1>10. DoneIsCounted'
  <2>1. count'[c] = Cardinality(Done(c)')
    BY <1>2, <1>6, FS_EmptySet DEF IInv, IdleHasNothing
  <2>. QED  BY <1>2, <1>6, <1>7, <1>8, <2>1 DEF IInv, TypeOK, DoneIsCounted
<1>11. DoneStays'
  <2>1. \A b \in Callers \ {c} : phase[b] # "idle" => met[b] \subseteq met'[b]
    BY <1>2 DEF IInv, TypeOK
  <2>. QED  BY <1>2, <1>6, <1>8, <2>1 DEF IInv, TypeOK, DoneStays
<1>12. IdleHasNothing'
  BY <1>2 DEF IInv, TypeOK, IdleHasNothing
<1>. QED  BY <1>3, <1>4, <1>5, <1>9, <1>10, <1>11, <1>12 DEF IInv

\* A save that was sent leaves what is left as it is.
LEMMA SendSaveKeeps ==
  ASSUME IInv, NEW c \in Callers, NEW d \in Docs, SendSave(c, d)
  PROVE  IInv'
<1>1. /\ phase[c] = "loop" /\ d \in todo[c]
      /\ phase' = [phase EXCEPT ![c] = "saving"] /\ todo' = [todo EXCEPT ![c] = @ \ {d}]
      /\ current' = [current EXCEPT ![c] = d] /\ stamp' = [stamp EXCEPT ![c] = Stamp(c)]
      /\ UNCHANGED <<now, doc, op, count, found, changed, met>>
  BY DEF SendSave
<1>2. Stamp(c) \in (0..MaxTime) \union {None} /\ (Stamp(c) # None <=> Wanted(c))
  BY SoftDeleteAssumption DEF IInv, TypeOK, Stamp
<1>3. TypeOK'
  BY <1>1, <1>2 DEF IInv, TypeOK
<1>4. SavingOne'
  BY <1>1 DEF IInv, TypeOK, SavingOne
<1>4a. StampFits'
  BY <1>1, <1>2 DEF IInv, TypeOK, StampFits, Wanted
<1>5. FlagAndDateAgree' /\ RunningMet' /\ ReturnedLeavesNothing' /\ IdleHasNothing'
  BY <1>1 DEF IInv, TypeOK, FlagAndDateAgree, RunningMet, ReturnedLeavesNothing, IdleHasNothing
<1>6. /\ \A b \in Callers : Left(b)' = Left(b) /\ Done(b)' = Done(b) /\ Wanted(b)' = Wanted(b)
      /\ \A b \in Callers, e \in Docs : ByAnother(b, e)' = ByAnother(b, e)
  <2>1. \A b \in Callers : Left(b)' = Left(b)
    BY <1>1 DEF IInv, TypeOK, Left
  <2>. QED  BY <1>1, <2>1 DEF Done, Wanted, ByAnother
<1>7. \A b \in Callers : Left(b) \subseteq Docs /\ Done(b) \subseteq Docs
  BY DEF IInv, TypeOK, SavingOne, Left, Done
<1>8. LeftIsStale'
  BY <1>1, <1>6, <1>7 DEF IInv, LeftIsStale
<1>9. DoneIsCounted'
  BY <1>1, <1>6, <1>7 DEF IInv, TypeOK, DoneIsCounted
<1>10. DoneStays'
  BY <1>1, <1>6, <1>7 DEF IInv, TypeOK, DoneStays
<1>. QED  BY <1>3, <1>4, <1>4a, <1>5, <1>8, <1>9, <1>10 DEF IInv

\* A save that succeeds is counted; whoever read the document before has met
\* this call, and finds it was faster.
LEMMA SavedKeeps ==
  ASSUME IInv, NEW c \in Callers, Saved(c)
  PROVE  IInv'
<1>. PICK d : d = current[c]
  OBVIOUS
<1>. DEFINE new == [isDeleted |-> Wanted(c), deletedAt |-> stamp[c]]
<1>1. /\ phase[c] = "saving" /\ doc[d] # None
      /\ doc' = [doc EXCEPT ![d] = new] /\ phase' = [phase EXCEPT ![c] = "loop"]
      /\ current' = [current EXCEPT ![c] = None] /\ count' = [count EXCEPT ![c] = @ + 1]
      /\ changed' = [changed EXCEPT ![c] =
               IF doc[d].isDeleted = Wanted(c) THEN @ ELSE @ \union {d}]
      /\ UNCHANGED <<now, op, todo, stamp, found, met>>
  BY DEF Saved
<1>2. /\ d \in found[c] /\ d \in Docs /\ d \notin todo[c] /\ d # None
      /\ stamp[c] # None <=> Wanted(c)
      /\ Wanted(c) \in BOOLEAN /\ stamp[c] \in (0..MaxTime) \union {None}
  BY <1>1, SoftDeleteAssumption DEF IInv, TypeOK, SavingOne, StampFits, Wanted
<1>3. new \in Fields /\ new # None /\ new.isDeleted = Wanted(c) /\ new.deletedAt = stamp[c]
  BY <1>2, SoftDeleteAssumption DEF Fields
<1>. HIDE DEF new
<1>4. TypeOK'
  <2>1. doc' \in [Docs -> Fields \union {None}]
    BY <1>1, <1>2, <1>3 DEF IInv, TypeOK
  <2>2. phase' \in [Callers -> {"idle", "loop", "saving", "returned", "thrown"}]
    BY <1>1 DEF IInv, TypeOK
  <2>3. current' \in [Callers -> Docs \union {None}]
    BY <1>1 DEF IInv, TypeOK
  <2>4. count' \in [Callers -> Nat]
    BY <1>1 DEF IInv, TypeOK
  <2>5. changed' \in [Callers -> SUBSET Docs]
    BY <1>1, <1>2 DEF IInv, TypeOK
  <2>6. \A b \in Callers : current'[b] \notin todo'[b]
    BY <1>1, SoftDeleteAssumption DEF IInv, TypeOK
  <2>. QED  BY <1>1, <2>1, <2>2, <2>3, <2>4, <2>5, <2>6 DEF IInv, TypeOK
<1>5. SavingOne' /\ StampFits' /\ RunningMet' /\ ReturnedLeavesNothing' /\ IdleHasNothing'
  BY <1>1 DEF IInv, TypeOK, SavingOne, StampFits, RunningMet, ReturnedLeavesNothing,
              IdleHasNothing, Wanted
<1>6. FlagAndDateAgree'
  BY <1>1, <1>2, <1>3 DEF IInv, TypeOK, FlagAndDateAgree
<1>7. /\ Left(c) = Left(c)' \union {d} /\ d \notin Left(c)'
      /\ Done(c)' = Done(c) \union {d} /\ d \notin Done(c)
      /\ \A b \in Callers \ {c} : Left(b)' = Left(b) /\ Done(b)' = Done(b)
      /\ \A b \in Callers : Wanted(b)' = Wanted(b)
      /\ \A b \in Callers, e \in Docs : ByAnother(b, e) => ByAnother(b, e)'
  <2>1. Left(c) = todo[c] \union {d} /\ Left(c)' = todo[c]
    BY <1>1 DEF IInv, TypeOK, Left
  <2>2. \A b \in Callers \ {c} : Left(b)' = Left(b)
    BY <1>1 DEF IInv, TypeOK, Left
  <2>3. \A b \in Callers : changed[b] \subseteq changed'[b]
    BY <1>1 DEF IInv, TypeOK
  <2>4. \A b \in Callers, e \in Docs : ByAnother(b, e) => ByAnother(b, e)'
    BY <1>1, <2>3 DEF IInv, TypeOK, ByAnother
  <2>5. Done(c)' = Done(c) \union {d} /\ d \notin Done(c)
    BY <1>1, <1>2, <2>1 DEF Done
  <2>6. \A b \in Callers \ {c} : Done(b)' = Done(b)
    BY <1>1, <2>2 DEF Done
  <2>7. \A b \in Callers : Wanted(b)' = Wanted(b)
    BY <1>1 DEF Wanted
  <2>. QED  BY <1>2, <2>1, <2>2, <2>4, <2>5, <2>6, <2>7
<1>8. \A b \in Callers : Left(b) \subseteq Docs /\ Done(b) \subseteq Docs
  BY DEF IInv, TypeOK, SavingOne, Left, Done
<1>9. \A b \in Callers \ {c} : phase[b] # "idle" => c \in met[b]
  BY <1>1 DEF IInv, RunningMet
<1>10. \A b \in Callers \ {c} : phase[b] # "idle" /\ d \in Left(b) /\ op[b] = op[c]
          => ByAnother(b, d)'
  <2>. SUFFICES ASSUME NEW b \in Callers \ {c}, phase[b] # "idle", d \in Left(b), op[b] = op[c]
                PROVE  ByAnother(b, d)'
    OBVIOUS
  <2>1. Wanted(b) = Wanted(c)
    BY DEF Wanted
  <2>2. CASE doc[d].isDeleted = Wanted(c)
    BY <1>1, <1>2, <1>7, <2>1, <2>2 DEF IInv, LeftIsStale
  <2>3. CASE doc[d].isDeleted # Wanted(c)
    <3>1. d \in changed'[c]
      BY <1>1, <2>3 DEF IInv, TypeOK
    <3>. QED  BY <1>1, <1>9, <3>1 DEF ByAnother
  <2>. QED  BY <2>2, <2>3
<1>11. \A b \in Callers : op[b] # op[c] => Wanted(b) # Wanted(c)
  BY DEF IInv, TypeOK, Wanted
<1>12. LeftIsStale'
  <2>. SUFFICES ASSUME NEW b \in Callers, NEW e \in Left(b)'
                PROVE  \/ doc'[e] = None \/ doc'[e].isDeleted # Wanted(b)
                       \/ ByAnother(b, e)'
    BY <1>7 DEF LeftIsStale
  <2>1. e \in Left(b) /\ e \in Docs
    BY <1>7, <1>8
  <2>2. CASE e # d
    BY <1>1, <1>7, <2>1, <2>2 DEF IInv, TypeOK, LeftIsStale
  <2>3. CASE e = d
    <3>1. b # c /\ phase[b] # "idle"
      BY <1>7, <2>1, <2>3 DEF IInv, IdleHasNothing, Left
    <3>2. doc'[e].isDeleted = Wanted(c)
      BY <1>1, <1>2, <1>3, <2>3 DEF IInv, TypeOK
    <3>. QED  BY <1>10, <1>11, <2>1, <2>3, <3>1, <3>2
  <2>. QED  BY <2>2, <2>3
<1>13. DoneIsCounted'
  <2>1. IsFiniteSet(Done(c)) /\ count[c] = Cardinality(Done(c))
    BY <1>1, <1>8, SoftDeleteAssumption, FS_Subset DEF IInv, DoneIsCounted
  <2>2. count'[c] = Cardinality(Done(c)')
    <3>1. Cardinality(Done(c) \union {d}) = Cardinality(Done(c)) + 1
      BY <1>7, <2>1, FS_AddElement
    <3>2. count'[c] = count[c] + 1
      BY <1>1 DEF IInv, TypeOK
    <3>. QED  BY <1>7, <2>1, <3>1, <3>2
  <2>3. ASSUME NEW e \in Done(c)' \ changed'[c] PROVE ByAnother(c, e)'
    <3>1. CASE e = d
      <4>1. doc[d].isDeleted = Wanted(c)
        BY <1>1, <2>3, <3>1 DEF IInv, TypeOK
      <4>. QED  BY <1>1, <1>2, <1>7, <3>1, <4>1 DEF IInv, LeftIsStale
    <3>2. CASE e # d
      <4>1. e \in Done(c) \ changed[c]
        BY <1>1, <1>7, <2>3, <3>2 DEF IInv, TypeOK
      <4>. QED  BY <1>1, <1>7, <1>8, <4>1 DEF IInv, DoneIsCounted
    <3>. QED  BY <3>1, <3>2
  <2>4. ASSUME NEW b \in Callers \ {c}, phase'[b] \in {"loop", "saving", "returned"}
        PROVE  /\ count'[b] = Cardinality(Done(b)')
               /\ \A e \in Done(b)' \ changed'[b] : ByAnother(b, e)'
    <3>1. phase[b] = phase'[b] /\ count'[b] = count[b] /\ changed'[b] = changed[b]
      BY <1>1 DEF IInv, TypeOK
    <3>. QED  BY <1>7, <1>8, <2>4, <3>1 DEF IInv, DoneIsCounted
  <2>. QED  BY <2>2, <2>3, <2>4 DEF DoneIsCounted
<1>14. DoneStays'
  <2>. SUFFICES ASSUME NEW b \in Callers, phase'[b] \in {"loop", "saving", "returned"},
                       \A a \in met[b] : op[a] = op[b],
                       NEW e \in Done(b)', doc'[e] # None
                PROVE  doc'[e].isDeleted = Wanted(b)
    BY <1>1, <1>7 DEF DoneStays
  <2>1. phase[b] \in {"loop", "saving", "returned"}
    BY <1>1 DEF IInv, TypeOK
  <2>2. e \in Docs
    BY <1>2, <1>7, <1>8
  <2>3. CASE e = d
    <3>1. Wanted(b) = Wanted(c)
      BY <1>9, <2>1 DEF Wanted
    <3>. QED  BY <1>1, <1>2, <1>3, <2>3, <3>1 DEF IInv, TypeOK
  <2>4. CASE e # d
    <3>1. e \in Done(b) /\ doc'[e] = doc[e]
      BY <1>1, <1>7, <2>2, <2>4 DEF IInv, TypeOK
    <3>. QED  BY <2>1, <3>1 DEF IInv, DoneStays
  <2>. QED  BY <2>3, <2>4
<1>. QED  BY <1>4, <1>5, <1>6, <1>12, <1>13, <1>14 DEF IInv

\* A save that fails ends its call.
LEMMA SaveFailsKeeps ==
  ASSUME IInv, NEW c \in Callers, SaveFails(c)
  PROVE  IInv'
<1>1. /\ phase[c] = "saving" /\ phase' = [phase EXCEPT ![c] = "thrown"]
      /\ current' = [current EXCEPT ![c] = None]
      /\ UNCHANGED <<now, doc, op, todo, stamp, count, found, changed, met>>
  BY DEF SaveFails
<1>2. TypeOK'
  BY <1>1, SoftDeleteAssumption DEF IInv, TypeOK
<1>3. SavingOne' /\ StampFits' /\ RunningMet' /\ ReturnedLeavesNothing' /\ IdleHasNothing'
  BY <1>1 DEF IInv, TypeOK, SavingOne, StampFits, RunningMet, ReturnedLeavesNothing,
              IdleHasNothing, Wanted
<1>4. /\ Left(c)' \subseteq Left(c)
      /\ \A b \in Callers \ {c} : Left(b)' = Left(b) /\ Done(b)' = Done(b)
      /\ \A b \in Callers : Wanted(b)' = Wanted(b)
      /\ \A b \in Callers, e \in Docs : ByAnother(b, e)' = ByAnother(b, e)
  <2>1. \A b \in Callers \ {c} : Left(b)' = Left(b)
    BY <1>1 DEF IInv, TypeOK, Left
  <2>2. Left(c)' \subseteq Left(c)
    BY <1>1 DEF IInv, TypeOK, Left
  <2>. QED  BY <1>1, <2>1, <2>2 DEF Done, Wanted, ByAnother
<1>5. \A b \in Callers : Left(b) \subseteq Docs /\ Done(b) \subseteq Docs
  BY DEF IInv, TypeOK, SavingOne, Left, Done
<1>6. FlagAndDateAgree'
  BY <1>1 DEF IInv, FlagAndDateAgree
<1>7. LeftIsStale'
  BY <1>1, <1>4, <1>5 DEF IInv, LeftIsStale
<1>8. DoneIsCounted'
  BY <1>1, <1>4, <1>5 DEF IInv, TypeOK, DoneIsCounted
<1>9. DoneStays'
  BY <1>1, <1>4, <1>5 DEF IInv, TypeOK, DoneStays
<1>. QED  BY <1>2, <1>3, <1>6, <1>7, <1>8, <1>9 DEF IInv

\* A call that returns has nothing left.
LEMMA ReturnKeeps ==
  ASSUME IInv, NEW c \in Callers, Return(c)
  PROVE  IInv'
<1>1. /\ phase[c] = "loop" /\ todo[c] = {} /\ phase' = [phase EXCEPT ![c] = "returned"]
      /\ UNCHANGED <<now, doc, op, todo, current, stamp, count, found, changed, met>>
  BY DEF Return
<1>2. TypeOK' /\ SavingOne' /\ StampFits' /\ RunningMet' /\ ReturnedLeavesNothing'
      /\ IdleHasNothing' /\ FlagAndDateAgree'
  BY <1>1 DEF IInv, TypeOK, SavingOne, StampFits, RunningMet, ReturnedLeavesNothing,
              IdleHasNothing, FlagAndDateAgree, Wanted
<1>3. /\ \A b \in Callers : Left(b)' = Left(b) /\ Done(b)' = Done(b) /\ Wanted(b)' = Wanted(b)
      /\ \A b \in Callers, e \in Docs : ByAnother(b, e)' = ByAnother(b, e)
  <2>1. \A b \in Callers : Left(b)' = Left(b)
    BY <1>1 DEF IInv, TypeOK, Left
  <2>. QED  BY <1>1, <2>1 DEF Done, Wanted, ByAnother
<1>4. \A b \in Callers : Left(b) \subseteq Docs /\ Done(b) \subseteq Docs
  BY DEF IInv, TypeOK, SavingOne, Left, Done
<1>5. LeftIsStale'
  BY <1>1, <1>3, <1>4 DEF IInv, LeftIsStale
<1>6. DoneIsCounted'
  BY <1>1, <1>3, <1>4 DEF IInv, TypeOK, DoneIsCounted
<1>7. DoneStays'
  BY <1>1, <1>3, <1>4 DEF IInv, TypeOK, DoneStays
<1>. QED  BY <1>2, <1>5, <1>6, <1>7 DEF IInv

\* Time, and steps that change nothing.
LEMMA TickKeeps ==
  ASSUME IInv, Tick \/ UNCHANGED vars
  PROVE  IInv'
<1>1. now' \in 0..MaxTime
  BY SoftDeleteAssumption DEF Tick, vars, IInv, TypeOK
<1>2. UNCHANGED <<doc, op, phase, todo, current, stamp, count, found, changed, met>>
  BY DEF Tick, vars
<1>. QED
  BY <1>1, <1>2 DEF IInv, TypeOK, SavingOne, StampFits, FlagAndDateAgree, RunningMet, LeftIsStale,
     DoneIsCounted, DoneStays, ReturnedLeavesNothing, IdleHasNothing, Left, Done, ByAnother, Wanted

-----------------------------------------------------------------------------
\* IInv is inductive.
LEMMA Inductive == Spec => []IInv
<1>1. IInv /\ [Next]_vars => IInv'
  <2>. SUFFICES ASSUME IInv, [Next]_vars PROVE IInv'
    OBVIOUS
  <2>. QED
    BY FindOneAndDeleteKeeps, FindKeeps, SendSaveKeeps, SavedKeeps, SaveFailsKeeps,
       ReturnKeeps, TickKeeps DEF Next
<1>. QED  BY InitHolds, <1>1, PTL DEF Spec

\* Every variable of softDelete and restore has its type.
THEOREM TypeCorrect == Spec => []TypeOK
<1>1. IInv => TypeOK
  BY DEF IInv
<1>. QED  BY Inductive, <1>1, PTL

\* isDeleted and deletedAt agree in every document, whoever saved which copy.
THEOREM FlagAndDateAlwaysAgree == Spec => []FlagAndDateAgree
<1>1. IInv => FlagAndDateAgree
  BY DEF IInv
<1>. QED  BY Inductive, <1>1, PTL

\* The counts of calls that return are right but for calls of the same kind that
\* ran at the same time.
THEOREM CountsOverlapOnly == Spec => []OvercountNeedsOverlap
<1>1. IInv => OvercountNeedsOverlap
  <2>. SUFFICES ASSUME IInv, NEW c \in Callers, phase[c] = "returned"
                PROVE  /\ count[c] = Cardinality(found[c])
                       /\ \A d \in found[c] \ changed[c] :
                             \E b \in met[c] \ {c} : op[b] = op[c] /\ d \in changed[b]
    BY DEF OvercountNeedsOverlap
  <2>1. Done(c) = found[c]
    BY DEF IInv, ReturnedLeavesNothing, Done, Left
  <2>. QED  BY <2>1 DEF IInv, DoneIsCounted, ByAnother
<1>. QED  BY Inductive, <1>1, PTL

\* What a call that returned found stays as the call left it, unless one of the
\* other kind ran with it or after it.
THEOREM ReturnedAlwaysStays == Spec => []ReturnedStays
<1>1. IInv => ReturnedStays
  <2>. SUFFICES ASSUME IInv, NEW c \in Callers, phase[c] = "returned",
                       \A b \in met[c] : op[b] = op[c],
                       NEW d \in found[c], doc[d] # None
                PROVE  doc[d].isDeleted = Wanted(c)
    BY DEF ReturnedStays
  <2>1. d \in Done(c)
    BY DEF IInv, ReturnedLeavesNothing, Done, Left
  <2>. QED  BY <2>1 DEF IInv, DoneStays
<1>. QED  BY Inductive, <1>1, PTL
==============================================================================
