----------------------- MODULE TimerTransactionProofs -----------------------
(***************************************************************************)
(* Theorems about TimerTransaction, for any actions, processes and number  *)
(* of attempts.  The inductive invariant says where the documents, calls   *)
(* and timeouts of the transaction come from.                              *)
(***************************************************************************)
EXTENDS TimerTransaction, TimerServiceProofs

\* The types of everything but history.
Typed2 == TypeOK /\ tx \in Transactions /\ joined \subseteq Procs \X Handles

\* A transaction that is not in its body has no calls in progress, and one that
\* has not begun has asked for nothing.
PhaseFits ==
    /\ tx.phase # "body" => tx.runs = {} /\ tx.clears = {}
    /\ tx.phase = "idle" => tx.mine = {} /\ tx.proc = None
    /\ tx.phase # "idle" => tx.proc # None

\* What the transaction wrote it was asked for; what it deleted was cleared in
\* it, or its function ran.
ViewFits ==
    \A i \in Ids :
        /\ tx.view[i] \in Actions => IdOf[tx.view[i]] = i
        /\ tx.view[i] = None =>
              i \in tx.cleared \/ \E a \in ran \union dropped : IdOf[a] = i

\* The calls of the body are its process's and about its actions and ids; those
\* of others have saved what they have no longer to do.
RunsFit ==
    \A c \in Calls :
        /\ run[c].todo \subseteq run[c].batch
        /\ c \in tx.runs => /\ run[c].proc = tx.proc /\ run[c].proc # None
                            /\ run[c].batch \subseteq tx.mine
        /\ c \notin tx.runs /\ ~run[c].failed => run[c].batch \ run[c].todo \subseteq saved

ClearsFit ==
    \A c \in Calls :
        /\ clear[c].todo \subseteq clear[c].ids
        /\ c \in tx.clears => /\ clear[c].proc = tx.proc /\ clear[c].proc # None
                              /\ clear[c].ids \subseteq tx.cleared \intersect tx.tried
        /\ c \notin tx.clears => clear[c].ids \subseteq clearAsked

\* What is stored was saved, and a callback that deletes has run its function.
DocFits == \A i \in Ids : doc[i] \in Actions => doc[i] \in saved

TimersFit ==
    \A p \in Procs, h \in Handles :
        timer[p][h] \in {"deleting", "deleted"} => h[1] \in ran \union dropped

Fits == /\ PhaseFits /\ ViewFits /\ RunsFit /\ ClearsFit /\ DocFits /\ TimersFit
        /\ UncommittedStaysHome

IInv2 == Typed2 /\ Fits

-----------------------------------------------------------------------------
\* Processes that are up and started, with no calls, are well typed.
LEMMA InitFits == Init2 => IInv2
<1>. SUFFICES ASSUME Init2 PROVE IInv2
  OBVIOUS
<1>1. TypeOK
  BY ConstantsAssumption, IdleTypes DEF Init2, TypeOK, Phases
<1>2. Typed2
  BY <1>1, TransactionAssumption DEF Init2, Typed2, Transactions, Nothing
<1>. QED
  BY <1>1, <1>2, ConstantsAssumption, TransactionAssumption
     DEF Init2, IInv2, Fits, PhaseFits, ViewFits, RunsFit, ClearsFit, DocFits,
         TimersFit, UncommittedStaysHome, Concerns, NoRun, NoClear, NoRead, Nothing, Handles

\* Callbacks go on, and timeouts are armed and freed.
LEMMA TimersKept ==
    ASSUME IInv2, ran \subseteq ran', dropped \subseteq dropped',
           \A p \in Procs, h \in Handles :
              timer'[p][h] \in {"deleting", "deleted"} =>
                 timer[p][h] \in {"deleting", "deleted"} \/ h[1] \in ran' \union dropped'
    PROVE  TimersFit'
  BY DEF IInv2, Fits, TimersFit

\* What a process newly knows of is stored, saved or its transaction's.
LEMMA HomeKept ==
    ASSUME IInv2, saved \subseteq saved', tx'.proc = tx.proc, tx.mine \subseteq tx'.mine,
           \A p \in Procs, h \in Handles : timer'[p][h] # "free" =>
              \/ timer[p][h] # "free" \/ h[1] \in saved
              \/ \E r \in Reads : h[1] \in reading[p][r].found
              \/ p = tx.proc /\ h[1] \in tx.mine,
           \A p \in Procs, r \in Reads :
              reading'[p][r].found \subseteq reading[p][r].found \union Stored
    PROVE  UncommittedStaysHome'
<1>1. \A a \in Stored : a \in saved
  BY ConstantsAssumption DEF IInv2, Fits, DocFits, Stored
<1>. SUFFICES ASSUME NEW p \in Procs, NEW a \in Actions, Concerns(p, a)'
              PROVE  a \in saved \/ (p = tx.proc /\ a \in tx.mine)
  BY DEF UncommittedStaysHome
<1>2. Concerns(p, a) => a \in saved \/ (p = tx.proc /\ a \in tx.mine)
  BY DEF IInv2, Fits, UncommittedStaysHome
<1>3. CASE \E k \in Slots : timer'[p][<<a, k>>] # "free"
  <2>1. PICK k \in Slots : timer'[p][<<a, k>>] # "free"
    BY <1>3
  <2>2. <<a, k>> \in Handles /\ <<a, k>>[1] = a
    BY DEF Handles
  <2>3. \/ timer[p][<<a, k>>] # "free" \/ a \in saved
        \/ \E r \in Reads : a \in reading[p][r].found
        \/ p = tx.proc /\ a \in tx.mine
    BY <2>1, <2>2
  <2>. QED  BY <1>2, <2>3 DEF Concerns
<1>4. CASE \E r \in Reads : a \in reading'[p][r].found
  BY <1>1, <1>2, <1>4 DEF Concerns
<1>. QED  BY <1>3, <1>4 DEF Concerns

\* A step that leaves the transaction, the calls and the collection alone.
LEMMA AsideKept ==
    ASSUME IInv2, UNCHANGED <<doc, run, clear, tx>>, saved \subseteq saved',
           ran \subseteq ran', dropped \subseteq dropped', clearAsked \subseteq clearAsked'
    PROVE  PhaseFits' /\ ViewFits' /\ RunsFit' /\ ClearsFit' /\ DocFits'
  BY DEF IInv2, Fits, PhaseFits, ViewFits, RunsFit, ClearsFit, DocFits

\* A process that ends forgets its calls, finds and timeouts.
LEMMA DownFits ==
    ASSUME IInv2, NEW p \in Procs, Down(p), UNCHANGED tx,
           \A c \in tx.runs : run'[c] = run[c], \A c \in tx.clears : clear'[c] = clear[c]
    PROVE  Fits'
<1>1. /\ \A q \in Procs, h \in Handles : timer'[q][h] \in {"free", timer[q][h]}
      /\ \A q \in Procs, r \in Reads : reading'[q][r].found \subseteq reading[q][r].found
  BY DEF IInv2, Fits, Typed2, TypeOK, Down, NoRead
<1>2. UNCHANGED <<doc, saved, ran, dropped, clearAsked>>
  BY DEF Down
<1>3. TimersFit' /\ UncommittedStaysHome'
  BY <1>1, <1>2, TimersKept, HomeKept
<1>4. PhaseFits' /\ ViewFits' /\ DocFits'
  BY <1>2 DEF IInv2, Fits, PhaseFits, ViewFits, DocFits
<1>5. RunsFit'
  <2>1. \A c \in Calls : run'[c] = run[c] \/ (run'[c] = NoRun /\ c \notin tx.runs)
    BY DEF Down, IInv2, Fits, RunsFit, NoRun, Typed2, TypeOK
  <2>. QED  BY <1>2, <2>1 DEF IInv2, Fits, RunsFit, NoRun
<1>6. ClearsFit'
  <2>1. \A c \in Calls : clear'[c] = clear[c] \/ (clear'[c] = NoClear /\ c \notin tx.clears)
    BY DEF Down, IInv2, Fits, ClearsFit, NoClear
  <2>. QED  BY <1>2, <2>1 DEF IInv2, Fits, ClearsFit, NoClear
<1>. QED  BY <1>3, <1>4, <1>5, <1>6 DEF Fits

\* A step of the service around the transaction: registration, the cron and restarts.
LEMMA ServiceFits ==
    ASSUME IInv2, TypeOK', UNCHANGED tx, NEW p \in Procs,
           \/ \E key \in FnKeys : SetFunction(p, key)
           \/ StartUp(p) \/ CronFires(p) \/ Restart(p)
           \/ \E r \in Reads : FindReads(p, r) \/ FindReturns(p, r) \/ FindFails(p, r)
    PROVE  Fits'
<1>. USE DEF procVars, callVars, history
<1>1. UNCHANGED <<doc, run, clear, saved, ran, dropped, clearAsked>>
  BY DEF SetFunction, StartUp, CronFires, Restart, FindReads, FindReturns, FindFails
<1>. DEFINE read(q, s) == reading'[q][s].found \subseteq reading[q][s].found \union Stored
            armed(q, h) == \/ timer'[q][h] = timer[q][h]
                           \/ /\ timer'[q][h] = "armed"
                              /\ \E s \in Reads : h[1] \in reading[q][s].found
<1>2. /\ \A q \in Procs, s \in Reads : read(q, s)
      /\ \A q \in Procs, h \in Handles : armed(q, h)
  <2>1. CASE Restart(p) \/ \E key \in FnKeys : SetFunction(p, key)
    BY <2>1 DEF SetFunction, Restart
  <2>2. CASE StartUp(p) \/ CronFires(p)
    <3>1. UNCHANGED timer
      BY <2>2 DEF StartUp, CronFires
    <3>2. UNCHANGED reading \/ \E r \in Reads : SendFind(p, r)
      BY <2>2 DEF StartUp, CronFires
    <3>3. ASSUME NEW r \in Reads, SendFind(p, r) PROVE \A q \in Procs, s \in Reads : read(q, s)
      <4>1. PICK new : new = [phase |-> "sent", upTo |-> NextDate(now), found |-> {}]
        OBVIOUS
      <4>2. reading' = [reading EXCEPT ![p][r] = new] /\ new.found = {}
        BY <3>3, <4>1 DEF SendFind
      <4>. QED  BY <4>2 DEF IInv2, Fits, Typed2, TypeOK
    <3>. QED  BY <3>1, <3>2, <3>3
  <2>3. ASSUME NEW r \in Reads, FindReads(p, r) \/ FindFails(p, r)
        PROVE  /\ \A q \in Procs, s \in Reads : read(q, s)
               /\ \A q \in Procs, h \in Handles : armed(q, h)
    <3>1. UNCHANGED timer
      BY <2>3 DEF FindReads, FindFails
    <3>2. CASE FindReads(p, r)
      <4>1. PICK found : found = {a \in Stored : ExecTimeOf[a] <= reading[p][r].upTo}
        OBVIOUS
      <4>2. reading' = [reading EXCEPT ![p][r] =
                            [phase |-> "read", upTo |-> 0, found |-> found]]
        BY <3>2, <4>1 DEF FindReads
      <4>3. found \subseteq Stored
        BY <4>1
      <4>. QED  BY <3>1, <4>2, <4>3 DEF IInv2, Fits, Typed2, TypeOK, Finds
    <3>3. CASE FindFails(p, r)
      <4>1. reading' = [reading EXCEPT ![p][r] = NoRead]
        BY <3>3 DEF FindFails
      <4>. QED  BY <3>1, <4>1 DEF NoRead, IInv2, Fits, Typed2, TypeOK
    <3>. QED  BY <2>3, <3>2, <3>3
  <2>4. ASSUME NEW r \in Reads, FindReturns(p, r)
        PROVE  /\ \A q \in Procs, s \in Reads : read(q, s)
               /\ \A q \in Procs, h \in Handles : armed(q, h)
    <3>1. reading[p][r].found \in SUBSET Actions /\ TypeOK
      BY DEF IInv2, Fits, Typed2, TypeOK, Finds
    <3>2. Arm(p, reading[p][r].found)
      BY <2>4 DEF FindReturns
    <3>3. \A q \in Procs, h \in Handles :
             \/ timer'[q][h] = timer[q][h]
             \/ q = p /\ h[1] \in reading[p][r].found /\ timer'[q][h] = "armed"
      BY <3>1, <3>2, ArmStep
    <3>4. \A q \in Procs, s \in Reads :
             reading'[q][s].found \subseteq reading[q][s].found \union Stored
      BY <2>4 DEF FindReturns, NoRead, IInv2, Fits, Typed2, TypeOK
    <3>. QED  BY <3>3, <3>4
  <2>. QED  BY <2>1, <2>2, <2>3, <2>4
<1>3. TimersFit' /\ UncommittedStaysHome'
  BY <1>1, <1>2, TimersKept, HomeKept
<1>. QED  BY <1>1, <1>3, AsideKept DEF Fits

\* A timeout's callback goes on.
LEMMA CallbackFits ==
    ASSUME IInv2, UNCHANGED tx, NEW p \in Procs, NEW h \in Handles,
           Fire(p, h) \/ FnReturns(p, h) \/ DeleteAction(p, h) \/ CallbackEnds(p, h)
    PROVE  Fits'
<1>. USE DEF procVars, callVars, history
<1>1. /\ UNCHANGED <<run, clear, reading, saved, clearAsked>>
      /\ ran \subseteq ran' /\ dropped \subseteq dropped'
  BY DEF Fire, FnReturns, DeleteAction, CallbackEnds
<1>2. /\ \A q \in Procs, g \in Handles :
            timer'[q][g] = IF q = p /\ g = h THEN timer'[p][h] ELSE timer[q][g]
      /\ timer[p][h] # "free"
      /\ timer'[p][h] \in {"deleting", "deleted"} =>
            timer[p][h] = "deleting" \/ h[1] \in ran' \union dropped'
  BY DEF Fire, FnReturns, DeleteAction, CallbackEnds, SetPhase, IInv2, Fits, Typed2, TypeOK
<1>3. \A i \in Ids : doc'[i] \in {None, doc[i]}
  BY ConstantsAssumption
     DEF Fire, FnReturns, DeleteAction, CallbackEnds, IInv2, Fits, Typed2, TypeOK, Handles
<1>4. TimersFit'
  BY <1>1, <1>2, TimersKept
<1>5. UncommittedStaysHome'
  BY <1>1, <1>2, HomeKept
<1>6. DocFits'
  BY <1>1, <1>3, ConstantsAssumption DEF IInv2, Fits, DocFits
<1>7. PhaseFits' /\ ViewFits' /\ RunsFit' /\ ClearsFit'
  BY <1>1 DEF IInv2, Fits, PhaseFits, ViewFits, RunsFit, ClearsFit
<1>. QED  BY <1>4, <1>5, <1>6, <1>7 DEF Fits

\* Calls from outside of the transaction.
LEMMA CallFits ==
    ASSUME IInv2, UNCHANGED tx, NEW c \in Calls,
           \A d \in tx.runs : run'[d] = run[d], \A d \in tx.clears : clear'[d] = clear[d],
           \/ \E p \in Procs : \/ \E B \in SUBSET Actions : RunTimers(c, p, B)
                               \/ \E I \in SUBSET Ids : ClearTimers(c, p, I)
           \/ \E a \in Actions : SaveOne(c, a) \/ SaveFails(c, a)
           \/ \E i \in Ids : DeleteOne(c, i)
           \/ DeleteFails(c) \/ RunReturns(c) \/ ClearReturns(c)
    PROVE  Fits'
<1>. USE DEF procVars, callVars, history
<1>1. /\ UNCHANGED <<reading, ran, dropped>>
      /\ saved \subseteq saved' /\ clearAsked \subseteq clearAsked'
  BY DEF RunTimers, ClearTimers, SaveOne, SaveFails, DeleteOne, DeleteFails, RunReturns,
         ClearReturns
<1>2. PhaseFits' /\ ViewFits'
  BY <1>1 DEF IInv2, Fits, PhaseFits, ViewFits
<1>3. RunsFit'
  <2>1. ASSUME NEW p \in Procs, NEW B \in SUBSET Actions, RunTimers(c, p, B) PROVE RunsFit'
    BY <2>1 DEF RunTimers, IInv2, Fits, Typed2, TypeOK, RunsFit
  <2>2. ASSUME NEW a \in Actions, SaveOne(c, a) \/ SaveFails(c, a) PROVE RunsFit'
    <3>1. /\ \A d \in Calls \ {c} : run'[d] = run[d]
          /\ run'[c].batch = run[c].batch /\ run'[c].proc = run[c].proc
          /\ run'[c].todo = run[c].todo \ {a}
          /\ run'[c].failed \/ (run'[c].failed = run[c].failed /\ a \in saved')
      BY <2>2 DEF SaveOne, SaveFails, IInv2, Fits, Typed2, TypeOK, RunCalls
    <3>2. a \in run[c].todo
      BY <2>2 DEF SaveOne, SaveFails
    <3>. QED  BY <1>1, <3>1, <3>2 DEF IInv2, Fits, RunsFit
  <2>3. CASE RunReturns(c)
    BY <2>3 DEF RunReturns, NoRun, IInv2, Fits, Typed2, TypeOK, RunsFit
  <2>4. CASE UNCHANGED run
    BY <1>1, <2>4 DEF IInv2, Fits, RunsFit
  <2>. QED
    BY <2>1, <2>2, <2>3, <2>4 DEF ClearTimers, DeleteOne, DeleteFails, ClearReturns
<1>4. ClearsFit'
  <2>1. ASSUME NEW p \in Procs, NEW I \in SUBSET Ids, ClearTimers(c, p, I) PROVE ClearsFit'
    BY <2>1 DEF ClearTimers, IInv2, Fits, Typed2, TypeOK, ClearsFit
  <2>2. ASSUME NEW i \in Ids, DeleteOne(c, i) PROVE ClearsFit'
    <3>1. /\ \A d \in Calls \ {c} : clear'[d] = clear[d]
          /\ clear'[c].ids = clear[c].ids /\ clear'[c].proc = clear[c].proc
          /\ clear'[c].todo \subseteq clear[c].todo
      BY <2>2 DEF DeleteOne, IInv2, Fits, Typed2, TypeOK, ClearCalls
    <3>. QED  BY <1>1, <3>1 DEF IInv2, Fits, ClearsFit
  <2>3. CASE ClearReturns(c)
    BY <2>3 DEF ClearReturns, NoClear, IInv2, Fits, Typed2, TypeOK, ClearsFit
  <2>4. CASE UNCHANGED clear
    BY <1>1, <2>4 DEF IInv2, Fits, ClearsFit
  <2>5. CASE DeleteFails(c)
    BY <2>5 DEF DeleteFails, IInv2, Fits, Typed2, TypeOK, ClearCalls, ClearsFit
  <2>. QED
    BY <2>1, <2>2, <2>3, <2>4, <2>5 DEF RunTimers, SaveOne, SaveFails, RunReturns
<1>5. DocFits'
  <2>1. ASSUME NEW a \in Actions, SaveOne(c, a) PROVE DocFits'
    BY <2>1, ConstantsAssumption DEF SaveOne, IInv2, Fits, Typed2, TypeOK, DocFits
  <2>2. ASSUME NEW i \in Ids, DeleteOne(c, i) PROVE DocFits'
    BY <2>2, ConstantsAssumption DEF DeleteOne, IInv2, Fits, Typed2, TypeOK, DocFits
  <2>3. CASE UNCHANGED doc
    BY <1>1, <2>3 DEF IInv2, Fits, DocFits
  <2>. QED
    BY <2>1, <2>2, <2>3
       DEF RunTimers, ClearTimers, SaveFails, DeleteFails, RunReturns, ClearReturns
<1>. DEFINE kept(p, h) == \/ timer'[p][h] \in {"free", timer[p][h]}
                          \/ timer'[p][h] = "armed" /\ h[1] \in saved
<1>6. \A p \in Procs, h \in Handles : kept(p, h)
  <2>1. CASE RunReturns(c) /\ ~UNCHANGED timer
    <3>1. PICK p \in Procs : p = run[c].proc
      BY <2>1 DEF RunReturns, IInv2, Fits, Typed2, TypeOK, RunCalls
    <3>2. c \notin tx.runs
      BY <2>1, ConstantsAssumption DEF RunReturns, NoRun, IInv2, Fits, Typed2, TypeOK, RunsFit
    <3>3. PICK S : S = {a \in run[c].batch : ExecTimeOf[a] <= NextDate(now)}
      OBVIOUS
    <3>4. ~run[c].failed /\ run[c].todo = {} /\ Arm(p, S)
      BY <2>1, <3>1, <3>3 DEF RunReturns
    <3>5. S \subseteq saved /\ S \in SUBSET Actions /\ TypeOK
      BY <3>2, <3>3, <3>4 DEF IInv2, Fits, RunsFit, Typed2, TypeOK
    <3>. QED  BY <3>4, <3>5, ArmStep
  <2>2. CASE ClearReturns(c)
    BY <2>2, ClearStep DEF IInv2, Fits, Typed2
  <2>3. CASE UNCHANGED timer
    BY <2>3
  <2>. QED
    BY <2>1, <2>2, <2>3
       DEF RunTimers, ClearTimers, SaveOne, SaveFails, DeleteOne, DeleteFails
<1>7. TimersFit' /\ UncommittedStaysHome'
  BY <1>1, <1>6, TimersKept, HomeKept
<1>. QED  BY <1>2, <1>3, <1>4, <1>5, <1>7 DEF Fits

\* Every step outside of the transaction.
LEMMA OutsideFits == ASSUME IInv2, Outside PROVE IInv2'
<1>1. /\ TypeOK /\ UNCHANGED tx /\ Next
      /\ \A c \in tx.runs : run'[c] = run[c]
      /\ \A c \in tx.clears : clear'[c] = clear[c]
      /\ joined' \subseteq joined
  BY DEF Outside, Around, IInv2, Fits, Typed2
<1>2. TypeOK'
  BY <1>1, StepType
<1>3. Typed2'
  BY <1>1, <1>2 DEF IInv2, Fits, Typed2
<1>4. ASSUME NEW p \in Procs,
             \/ \E key \in FnKeys : SetFunction(p, key)
             \/ StartUp(p) \/ CronFires(p) \/ Restart(p)
             \/ \E r \in Reads : FindReads(p, r) \/ FindReturns(p, r) \/ FindFails(p, r)
      PROVE  Fits'
  BY <1>1, <1>2, <1>4, ServiceFits
<1>5. ASSUME NEW p \in Procs, NEW h \in Handles,
             Fire(p, h) \/ FnReturns(p, h) \/ DeleteAction(p, h) \/ CallbackEnds(p, h)
      PROVE  Fits'
  BY <1>1, <1>5, CallbackFits
<1>6. ASSUME NEW p \in Procs, Down(p) PROVE Fits'
  BY <1>1, <1>6, DownFits
<1>7. ASSUME NEW p \in Procs, NEW h \in Handles, Rejects(p, h) PROVE Fits'
  <2>1. CASE Down(p)
    BY <1>6, <2>1
  <2>2. CASE ~Down(p)
    <3>1. /\ SetPhase(p, h, "rejected") /\ timer[p][h] # "free"
          /\ UNCHANGED <<doc, run, clear, saved, ran, dropped, clearAsked, reading>>
      BY <1>7, <2>2 DEF Rejects, callVars, history
    <3>2. \A q \in Procs, g \in Handles :
             timer'[q][g] = IF q = p /\ g = h THEN "rejected" ELSE timer[q][g]
      BY <3>1 DEF SetPhase, IInv2, Fits, Typed2, TypeOK
    <3>3. TimersFit' /\ UncommittedStaysHome'
      BY <1>1, <3>1, <3>2, TimersKept, HomeKept
    <3>. QED  BY <1>1, <3>1, <3>3, AsideKept DEF Fits
  <2>. QED  BY <2>1, <2>2
<1>8. ASSUME NEW c \in Calls,
             \/ \E p \in Procs : \/ \E B \in SUBSET Actions : RunTimers(c, p, B)
                                 \/ \E I \in SUBSET Ids : ClearTimers(c, p, I)
             \/ \E a \in Actions : SaveOne(c, a) \/ SaveFails(c, a)
             \/ \E i \in Ids : DeleteOne(c, i)
             \/ DeleteFails(c) \/ RunReturns(c) \/ ClearReturns(c)
      PROVE  Fits'
  BY <1>1, <1>8, CallFits
<1>9. Fits'
  <2>1. CASE Tick
    <3>1. UNCHANGED <<doc, run, clear, saved, ran, dropped, clearAsked, timer, reading>>
      BY <2>1 DEF Tick, callVars, history
    <3>2. TimersFit' /\ UncommittedStaysHome'
      BY <1>1, <3>1, TimersKept, HomeKept
    <3>. QED  BY <1>1, <3>1, <3>2, AsideKept DEF Fits
  <2>. QED  BY <1>1, <1>4, <1>5, <1>6, <1>7, <1>8, <2>1 DEF Next, Crash
<1>. QED  BY <1>3, <1>9 DEF IInv2

\* A transaction begins, ends its body or runs it again.
LEMMA PhaseSteps ==
    ASSUME IInv2, (\E p \in Procs : Begin(p)) \/ EndOfBody \/ RetryTransaction
    PROVE  IInv2'
<1>. USE DEF vars
<1>. DEFINE Shape ==
       /\ UNCHANGED vars /\ UNCHANGED joined
       /\ tx.phase = "idle" \/ tx'.proc = tx.proc
       /\ tx'.runs = tx.runs /\ tx'.clears = tx.clears /\ tx'.mine = tx.mine
       /\ tx'.tried = tx.tried /\ tx'.phase \in {"body", "ending"} /\ tx'.proc # None
       /\ tx'.phase = "ending" => tx'.runs = {} /\ tx'.clears = {}
       /\ \/ tx'.view = tx.view /\ tx'.cleared = tx.cleared
          \/ tx'.view = Nothing /\ tx.runs = {} /\ tx.clears = {}
       /\ tx' \in Transactions
<1>1. Shape
  <2>1. ASSUME NEW p \in Procs, Begin(p) PROVE Shape
    <3>1. tx' = [tx EXCEPT !.phase = "body", !.proc = p, !.attempt = 1]
      BY <2>1 DEF Begin
    <3>2. 1 \in 0..MaxAttempts
      BY TransactionAssumption
    <3>3. tx \in Transactions /\ tx.phase = "idle" /\ p # None
      BY <2>1, ConstantsAssumption DEF Begin, IInv2, Typed2
    <3>4. tx' \in Transactions
      BY <3>1, <3>2, <3>3 DEF Transactions
    <3>5. /\ tx'.phase = "body" /\ tx'.view = tx.view /\ tx'.proc = p
          /\ tx'.runs = tx.runs /\ tx'.clears = tx.clears /\ tx'.mine = tx.mine
          /\ tx'.tried = tx.tried /\ tx'.cleared = tx.cleared
      BY <3>1, <3>3 DEF Transactions
    <3>. QED  BY <2>1, <3>3, <3>4, <3>5 DEF Begin
  <2>2. CASE EndOfBody
    <3>1. tx' = [tx EXCEPT !.phase = "ending"] /\ tx.runs = {} /\ tx.clears = {}
      BY <2>2 DEF EndOfBody
    <3>. QED  BY <2>2, <3>1 DEF EndOfBody, IInv2, Fits, PhaseFits, Typed2, Transactions
  <2>3. CASE RetryTransaction
    <3>1. tx' = [tx EXCEPT !.phase = "body", !.attempt = @ + 1, !.view = Nothing,
                           !.cleared = {}, !.broken = FALSE]
      BY <2>3 DEF RetryTransaction
    <3>2. tx.attempt + 1 \in 0..MaxAttempts
      BY <2>3, TransactionAssumption DEF RetryTransaction, IInv2, Typed2, Transactions
    <3>3. Nothing \in [Ids -> Actions \union {None, Same}]
      BY DEF Nothing
    <3>4. tx.runs = {} /\ tx.clears = {} /\ tx.proc # None
      BY <2>3 DEF RetryTransaction, IInv2, Fits, PhaseFits
    <3>5. tx' \in Transactions
      BY <3>1, <3>2, <3>3 DEF IInv2, Typed2, Transactions
    <3>6. tx.runs \in SUBSET Calls /\ tx \in Transactions
      BY DEF IInv2, Typed2, Transactions
    <3>7. /\ tx'.phase = "body" /\ tx'.view = Nothing /\ tx'.proc = tx.proc
          /\ tx'.runs = tx.runs /\ tx'.clears = tx.clears /\ tx'.mine = tx.mine
          /\ tx'.tried = tx.tried
      BY <3>1, <3>6 DEF Transactions
    <3>. QED  BY <2>3, <3>4, <3>5, <3>7 DEF RetryTransaction
  <2>. QED  BY <2>1, <2>2, <2>3
<1>2. tx' \in Transactions
  BY <1>1
<1>3. Typed2'
  BY <1>1, <1>2 DEF IInv2, Typed2, TypeOK, Stored
<1>4. PhaseFits' /\ ViewFits' /\ DocFits' /\ TimersFit'
  BY <1>1, TransactionAssumption
     DEF IInv2, Fits, PhaseFits, ViewFits, DocFits, TimersFit, Nothing
<1>5. tx.phase = "idle" => tx.runs = {} /\ tx.clears = {} /\ tx.mine = {}
  BY DEF IInv2, Fits, PhaseFits
<1>6. RunsFit'
  BY <1>1, <1>5 DEF IInv2, Fits, RunsFit
<1>7. ClearsFit'
  BY <1>1, <1>5 DEF IInv2, Fits, ClearsFit
<1>8. UncommittedStaysHome'
  BY <1>1, <1>5 DEF IInv2, Fits, UncommittedStaysHome, Concerns
<1>. QED  BY <1>3, <1>4, <1>6, <1>7, <1>8 DEF IInv2, Fits

\* A call of the body begins.
LEMMA JoinSteps ==
    ASSUME IInv2, NEW c \in Calls,
           \/ \E B \in SUBSET Actions : JoinRun(c, B)
           \/ \E I \in SUBSET Ids : JoinClear(c, I)
    PROVE  IInv2'
<1>. USE DEF procVars, history
<1>1. tx.proc \in Procs /\ tx.phase = "body"
  BY DEF JoinRun, JoinClear, IInv2, Fits, PhaseFits, Typed2, Transactions
<1>2. ASSUME NEW B \in SUBSET Actions, JoinRun(c, B) PROVE IInv2'
  <2>1. /\ UNCHANGED <<doc, clear, timer, reading, saved, ran, dropped, clearAsked, joined>>
        /\ tx' = [tx EXCEPT !.runs = @ \union {c}, !.mine = @ \union B]
    BY <1>2 DEF JoinRun
  <2>2. tx' \in Transactions
    BY <2>1 DEF IInv2, Typed2, Transactions
  <2>3. /\ tx'.runs = tx.runs \union {c} /\ tx'.mine = tx.mine \union B
        /\ tx'.proc = tx.proc /\ tx'.phase = tx.phase /\ tx'.view = tx.view
        /\ tx'.clears = tx.clears /\ tx'.cleared = tx.cleared /\ tx'.tried = tx.tried
    BY <2>1 DEF IInv2, Typed2, Transactions
  <2>4. TypeOK'
    BY <1>1, <1>2 DEF JoinRun, IInv2, Typed2, TypeOK, RunCalls
  <2>5. PhaseFits' /\ ViewFits' /\ ClearsFit' /\ DocFits' /\ TimersFit'
    BY <1>1, <2>1, <2>3 DEF IInv2, Fits, PhaseFits, ViewFits, ClearsFit, DocFits, TimersFit
  <2>6. RunsFit'
    <3>1. \A d \in Calls : run'[d] = IF d = c THEN [proc |-> tx.proc, batch |-> B,
                                                    todo |-> B, failed |-> FALSE]
                                    ELSE run[d]
      BY <1>2 DEF JoinRun, IInv2, Typed2, TypeOK
    <3>. QED  BY <1>1, <2>1, <2>3, <3>1, ConstantsAssumption DEF IInv2, Fits, RunsFit
  <2>7. UncommittedStaysHome'
    BY <2>1, <2>3, HomeKept
  <2>. QED  BY <2>1, <2>2, <2>4, <2>5, <2>6, <2>7 DEF IInv2, Fits, Typed2
<1>3. ASSUME NEW I \in SUBSET Ids, JoinClear(c, I) PROVE IInv2'
  <2>1. /\ UNCHANGED <<doc, run, timer, reading, saved, ran, dropped, clearAsked, joined>>
        /\ tx' = [tx EXCEPT !.clears = @ \union {c}, !.cleared = @ \union I,
                            !.tried = @ \union I]
    BY <1>3 DEF JoinClear
  <2>2. tx' \in Transactions
    BY <2>1 DEF IInv2, Typed2, Transactions
  <2>3. /\ tx'.clears = tx.clears \union {c} /\ tx'.cleared = tx.cleared \union I
        /\ tx'.tried = tx.tried \union I /\ tx'.proc = tx.proc /\ tx'.phase = tx.phase
        /\ tx'.view = tx.view /\ tx'.runs = tx.runs /\ tx'.mine = tx.mine
    BY <2>1 DEF IInv2, Typed2, Transactions
  <2>4. TypeOK'
    BY <1>1, <1>3 DEF JoinClear, IInv2, Typed2, TypeOK, ClearCalls
  <2>5. PhaseFits' /\ ViewFits' /\ RunsFit' /\ DocFits' /\ TimersFit'
    BY <1>1, <2>1, <2>3 DEF IInv2, Fits, PhaseFits, ViewFits, RunsFit, DocFits, TimersFit
  <2>6. ClearsFit'
    <3>1. \A d \in Calls : clear'[d] = IF d = c THEN [proc |-> tx.proc, ids |-> I,
                                                      todo |-> I, failed |-> FALSE]
                                      ELSE clear[d]
      BY <1>3 DEF JoinClear, IInv2, Typed2, TypeOK
    <3>. QED  BY <1>1, <2>1, <2>3, <3>1, ConstantsAssumption DEF IInv2, Fits, ClearsFit
  <2>7. UncommittedStaysHome'
    BY <2>1, <2>3, HomeKept
  <2>. QED  BY <2>1, <2>2, <2>4, <2>5, <2>6, <2>7 DEF IInv2, Fits, Typed2
<1>. QED  BY <1>2, <1>3

\* A write in the session changes the transaction's view and its call.
LEMMA WriteSteps ==
    ASSUME IInv2, TypeOK', UNCHANGED <<timer, reading, saved, ran, dropped, clearAsked, joined>>,
           UNCHANGED doc, tx' \in Transactions,
           tx'.proc = tx.proc, tx'.mine = tx.mine, tx'.phase = tx.phase, tx'.runs = tx.runs,
           tx'.clears = tx.clears, tx'.cleared = tx.cleared, tx'.tried = tx.tried,
           \A i \in Ids :
              \/ tx'.view[i] = tx.view[i]
              \/ tx'.view[i] \in Actions /\ IdOf[tx'.view[i]] = i
              \/ tx'.view[i] = None /\ i \in tx.cleared,
           \A d \in Calls :
              /\ run'[d].proc = run[d].proc /\ run'[d].batch = run[d].batch
              /\ run'[d].todo \subseteq run[d].todo
              /\ d \notin tx.runs => run'[d] = run[d],
           \A d \in Calls :
              /\ clear'[d].proc = clear[d].proc /\ clear'[d].ids = clear[d].ids
              /\ clear'[d].todo \subseteq clear[d].todo
    PROVE  IInv2'
<1>1. Typed2' /\ PhaseFits' /\ DocFits' /\ TimersFit'
  BY DEF IInv2, Fits, Typed2, PhaseFits, DocFits, TimersFit
<1>2. ViewFits'
  BY ConstantsAssumption DEF IInv2, Fits, ViewFits
<1>3. RunsFit'
  BY DEF IInv2, Fits, RunsFit
<1>4. ClearsFit'
  BY DEF IInv2, Fits, ClearsFit
<1>5. UncommittedStaysHome'
  BY HomeKept
<1>. QED  BY <1>1, <1>2, <1>3, <1>4, <1>5 DEF IInv2, Fits

\* A save in the session.
LEMMA StageFits ==
    ASSUME IInv2, NEW c \in Calls, NEW a \in Actions, StageOne(c, a) PROVE IInv2'
<1>. USE DEF procVars, history
<1>1. a \in run[c].todo /\ c \in tx.runs /\ tx \in Transactions /\ IdOf[a] \in Ids
  BY ConstantsAssumption DEF StageOne, IInv2, Typed2
<1>2. \/ tx' = [tx EXCEPT !.view[IdOf[a]] = a]
      \/ tx' = [tx EXCEPT !.broken = TRUE]
  BY DEF StageOne
<1>3. /\ tx' \in Transactions
      /\ tx'.proc = tx.proc /\ tx'.mine = tx.mine /\ tx'.phase = tx.phase
      /\ tx'.runs = tx.runs /\ tx'.clears = tx.clears /\ tx'.cleared = tx.cleared
      /\ tx'.tried = tx.tried
      /\ \A i \in Ids : tx'.view[i] = tx.view[i] \/ (tx'.view[i] = a /\ i = IdOf[a])
  <2>1. CASE tx' = [tx EXCEPT !.view[IdOf[a]] = a]
    <3>1. PICK v : v = [tx.view EXCEPT ![IdOf[a]] = a]
      OBVIOUS
    <3>2. /\ v \in [Ids -> Actions \union {None, Same}]
          /\ \A i \in Ids : v[i] = tx.view[i] \/ (v[i] = a /\ i = IdOf[a])
      BY <1>1, <3>1 DEF Transactions
    <3>3. tx' = [tx EXCEPT !.view = v]
      BY <2>1, <3>1
    <3>. QED  BY <1>1, <3>2, <3>3 DEF Transactions
  <2>2. CASE tx' = [tx EXCEPT !.broken = TRUE]
    BY <1>1, <2>2 DEF Transactions
  <2>. QED  BY <1>2, <2>1, <2>2
<1>4. PICK f \in BOOLEAN : run' = [run EXCEPT ![c].todo = @ \ {a}, ![c].failed = @ \/ f]
  BY DEF StageOne
<1>5. /\ run' \in [Calls -> RunCalls]
      /\ \A d \in Calls :
            /\ run'[d].proc = run[d].proc /\ run'[d].batch = run[d].batch
            /\ run'[d].todo \subseteq run[d].todo
            /\ d \notin tx.runs => run'[d] = run[d]
  BY <1>1, <1>4 DEF IInv2, Typed2, TypeOK, RunCalls
<1>6. UNCHANGED <<now, doc, procVars, cronDue, timeoutMap, timer, reading, clear, faults,
                  history, missed, joined>>
  BY DEF StageOne
<1>7. TypeOK'
  BY <1>5, <1>6 DEF IInv2, Typed2, TypeOK
<1>. QED  BY <1>3, <1>5, <1>6, <1>7, WriteSteps

\* A deletion in the session leaves what it may.
LEMMA DeleteShape ==
    ASSUME tx \in Transactions, NEW i \in Ids, tx' = Delete(i)
    PROVE  /\ tx' \in Transactions
           /\ tx'.proc = tx.proc /\ tx'.mine = tx.mine /\ tx'.phase = tx.phase
           /\ tx'.runs = tx.runs /\ tx'.clears = tx.clears /\ tx'.cleared = tx.cleared
           /\ tx'.tried = tx.tried /\ tx'.broken = tx.broken
           /\ \A j \in Ids : tx'.view[j] = tx.view[j] \/ (tx'.view[j] = None /\ j = i)
  BY DEF Delete, Transactions

\* clearTimers deletes in the session.
LEMMA DropFits ==
    ASSUME IInv2, NEW c \in Calls, NEW i \in Ids, DropOne(c, i) PROVE IInv2'
<1>. USE DEF procVars, history
<1>1. i \in clear[c].todo /\ c \in tx.clears /\ tx \in Transactions /\ tx' = Delete(i)
  BY DEF DropOne, IInv2, Typed2
<1>2. i \in tx.cleared
  BY <1>1 DEF IInv2, Fits, ClearsFit
<1>3. /\ clear' \in [Calls -> ClearCalls]
      /\ \A d \in Calls :
            /\ clear'[d].proc = clear[d].proc /\ clear'[d].ids = clear[d].ids
            /\ clear'[d].todo \subseteq clear[d].todo
  BY DEF DropOne, IInv2, Typed2, TypeOK, ClearCalls
<1>4. UNCHANGED <<now, doc, procVars, cronDue, timeoutMap, timer, reading, run, faults,
                  history, missed, joined>>
  BY DEF DropOne
<1>5. TypeOK'
  BY <1>3, <1>4 DEF IInv2, Typed2, TypeOK
<1>. QED  BY <1>1, <1>2, <1>3, <1>4, <1>5, DeleteShape, WriteSteps

\* An operation in the session fails.
LEMMA FailFits == ASSUME IInv2, NEW c \in Calls, JoinedFails(c) PROVE IInv2'
<1>. USE DEF procVars, history
<1>1. tx \in Transactions /\ tx' = [tx EXCEPT !.broken = TRUE]
  BY DEF JoinedFails, IInv2, Typed2
<1>2. /\ tx' \in Transactions
      /\ tx'.proc = tx.proc /\ tx'.mine = tx.mine /\ tx'.phase = tx.phase
      /\ tx'.runs = tx.runs /\ tx'.clears = tx.clears /\ tx'.cleared = tx.cleared
      /\ tx'.tried = tx.tried /\ tx'.view = tx.view
  BY <1>1 DEF Transactions
<1>3. /\ run' \in [Calls -> RunCalls] /\ clear' \in [Calls -> ClearCalls]
      /\ \A d \in Calls :
            /\ run'[d].proc = run[d].proc /\ run'[d].batch = run[d].batch
            /\ run'[d].todo \subseteq run[d].todo
            /\ d \notin tx.runs => run'[d] = run[d]
      /\ \A d \in Calls :
            /\ clear'[d].proc = clear[d].proc /\ clear'[d].ids = clear[d].ids
            /\ clear'[d].todo \subseteq clear[d].todo
  <2>1. CASE c \in tx.runs /\ run' = [run EXCEPT ![c].todo = {}, ![c].failed = TRUE]
                             /\ UNCHANGED clear
    BY <2>1 DEF IInv2, Typed2, TypeOK, RunCalls
  <2>2. CASE clear' = [clear EXCEPT ![c].todo = {}, ![c].failed = TRUE] /\ UNCHANGED run
    BY <2>2 DEF IInv2, Typed2, TypeOK, ClearCalls
  <2>. QED  BY <2>1, <2>2 DEF JoinedFails
<1>4. UNCHANGED <<now, doc, procVars, cronDue, timeoutMap, timer, reading, faults, history,
                  missed, joined>>
  BY DEF JoinedFails
<1>5. TypeOK'
  BY <1>3, <1>4 DEF IInv2, Typed2, TypeOK
<1>. QED  BY <1>2, <1>3, <1>4, <1>5, WriteSteps

\* The body's runTimers answers: its timeouts are armed before the commit.
LEMMA RunReturnFits == ASSUME IInv2, NEW c \in Calls, JoinedRunReturns(c) PROVE IInv2'
<1>. USE DEF procVars, history
<1>1. /\ c \in tx.runs /\ RunReturns(c) /\ tx \in Transactions
      /\ tx' = [tx EXCEPT !.runs = @ \ {c}]
      /\ run[c].proc = tx.proc /\ run[c].batch \subseteq tx.mine /\ run[c].todo = {}
      /\ tx.proc \in Procs
  BY DEF JoinedRunReturns, RunReturns, IInv2, Fits, RunsFit, Typed2, Transactions
<1>2. /\ tx' \in Transactions
      /\ tx'.proc = tx.proc /\ tx'.mine = tx.mine /\ tx'.phase = tx.phase
      /\ tx'.runs = tx.runs \ {c} /\ tx'.clears = tx.clears /\ tx'.cleared = tx.cleared
      /\ tx'.tried = tx.tried /\ tx'.view = tx.view
  BY <1>1 DEF Transactions
<1>3. /\ UNCHANGED <<doc, reading, clear, saved, ran, dropped, clearAsked>>
      /\ \A d \in Calls : run'[d] = IF d = c THEN NoRun ELSE run[d]
  BY <1>1 DEF RunReturns, IInv2, Typed2, TypeOK
<1>4. \A q \in Procs, h \in Handles :
         \/ timer'[q][h] = timer[q][h]
         \/ q = tx.proc /\ h[1] \in tx.mine /\ timer'[q][h] = "armed"
  <2>1. CASE UNCHANGED timer
    BY <2>1
  <2>2. CASE ~UNCHANGED timer
    <3>1. PICK S : S = {a \in run[c].batch : ExecTimeOf[a] <= NextDate(now)}
      OBVIOUS
    <3>2. Arm(tx.proc, S)
      BY <1>1, <2>2, <3>1 DEF RunReturns
    <3>3. S \subseteq tx.mine /\ S \in SUBSET Actions /\ TypeOK
      BY <1>1, <3>1 DEF IInv2, Typed2, Transactions
    <3>. QED  BY <1>1, <3>2, <3>3, ArmStep
  <2>. QED  BY <2>1, <2>2
<1>5. TypeOK' /\ joined' \subseteq Procs \X Handles
  <2>1. TypeOK'
    BY <1>1, StepType DEF IInv2, Typed2, Next
  <2>. QED  BY <1>1, <2>1 DEF JoinedRunReturns, IInv2, Typed2
<1>6. PhaseFits' /\ ViewFits' /\ ClearsFit' /\ DocFits'
  BY <1>2, <1>3 DEF IInv2, Fits, PhaseFits, ViewFits, ClearsFit, DocFits
<1>7. RunsFit'
  BY <1>2, <1>3 DEF IInv2, Fits, RunsFit, NoRun
<1>8. TimersFit' /\ UncommittedStaysHome'
  BY <1>2, <1>3, <1>4, TimersKept, HomeKept
<1>. QED  BY <1>2, <1>5, <1>6, <1>7, <1>8 DEF IInv2, Fits, Typed2

\* The body's clearTimers answers: clearTimeout comes before the commit, too.
LEMMA ClearReturnFits == ASSUME IInv2, NEW c \in Calls, JoinedClearReturns(c) PROVE IInv2'
<1>. USE DEF procVars, history
<1>1. /\ ClearReturns(c) /\ tx \in Transactions /\ tx' = [tx EXCEPT !.clears = @ \ {c}]
  BY DEF JoinedClearReturns, IInv2, Typed2
<1>2. /\ tx' \in Transactions
      /\ tx'.proc = tx.proc /\ tx'.mine = tx.mine /\ tx'.phase = tx.phase
      /\ tx'.clears = tx.clears \ {c} /\ tx'.runs = tx.runs /\ tx'.cleared = tx.cleared
      /\ tx'.tried = tx.tried /\ tx'.view = tx.view
  BY <1>1 DEF Transactions
<1>3. /\ UNCHANGED <<doc, reading, run, saved, ran, dropped, clearAsked>>
      /\ \A d \in Calls : clear'[d] = IF d = c THEN NoClear ELSE clear[d]
  BY <1>1 DEF ClearReturns, IInv2, Typed2, TypeOK
<1>4. \A q \in Procs, h \in Handles : timer'[q][h] \in {"free", timer[q][h]}
  BY <1>1, ClearStep DEF IInv2, Typed2
<1>5. TypeOK' /\ joined' \subseteq Procs \X Handles
  <2>1. TypeOK'
    BY <1>1, StepType DEF IInv2, Typed2, Next
  <2>. QED  BY <2>1 DEF JoinedClearReturns, IInv2, Typed2
<1>6. PhaseFits' /\ ViewFits' /\ RunsFit' /\ DocFits'
  BY <1>2, <1>3 DEF IInv2, Fits, PhaseFits, ViewFits, RunsFit, DocFits
<1>7. ClearsFit'
  BY <1>2, <1>3 DEF IInv2, Fits, ClearsFit, NoClear
<1>8. TimersFit' /\ UncommittedStaysHome'
  BY <1>2, <1>3, <1>4, TimersKept, HomeKept
<1>. QED  BY <1>2, <1>5, <1>6, <1>7, <1>8 DEF IInv2, Fits, Typed2

\* The transaction is over.
LEMMA OverShape ==
    ASSUME IInv2, NEW outcome \in {"committed", "aborted"}, Over(outcome), InProgress
    PROVE  /\ tx' \in Transactions /\ joined' = {}
           /\ tx'.phase = outcome /\ tx'.proc = tx.proc /\ tx'.mine = tx.mine
           /\ tx'.tried = tx.tried /\ tx'.runs = {} /\ tx'.clears = {} /\ tx'.view = Nothing
           /\ tx.proc # None /\ PhaseFits' /\ ViewFits'
<1>1. tx' = [tx EXCEPT !.phase = outcome, !.attempt = 0, !.runs = {}, !.clears = {},
                       !.cleared = {}, !.view = Nothing, !.broken = FALSE]
  BY DEF Over
<1>2. tx \in Transactions /\ 0 \in 0..MaxAttempts
      /\ Nothing \in [Ids -> Actions \union {None, Same}]
  BY TransactionAssumption DEF IInv2, Typed2, Nothing
<1>3. tx' \in Transactions
  BY <1>1, <1>2 DEF Transactions
<1>4. /\ tx'.phase = outcome /\ tx'.proc = tx.proc /\ tx'.mine = tx.mine
      /\ tx'.tried = tx.tried /\ tx'.runs = {} /\ tx'.clears = {} /\ tx'.view = Nothing
  BY <1>1, <1>2 DEF Transactions
<1>5. tx.proc # None
  BY DEF InProgress, IInv2, Fits, PhaseFits
<1>6. PhaseFits' /\ ViewFits'
  BY <1>4, <1>5, TransactionAssumption DEF PhaseFits, ViewFits, Nothing
<1>. QED  BY <1>3, <1>4, <1>5, <1>6 DEF Over

\* The server commits it.
LEMMA CommitFits == ASSUME IInv2, CommitTransaction PROVE IInv2'
<1>. USE DEF procVars, callVars, history
<1>1. /\ UNCHANGED <<timer, reading, run, clear, ran, dropped>>
      /\ saved' = saved \union {a \in Actions : tx.view[IdOf[a]] = a}
      /\ clearAsked' = clearAsked \union tx.cleared
      /\ \A i \in Ids : doc'[i] = Seen(i)
      /\ tx.runs = {} /\ tx.clears = {} /\ InProgress /\ Over("committed")
  BY DEF CommitTransaction, IInv2, Fits, PhaseFits, InProgress
<1>2. /\ tx' \in Transactions /\ joined' = {} /\ PhaseFits' /\ ViewFits'
      /\ tx'.proc = tx.proc /\ tx'.mine = tx.mine /\ tx'.runs = {} /\ tx'.clears = {}
  BY <1>1, OverShape
<1>3. TypeOK'
  <2>1. \A i \in Ids : Seen(i) \in Actions \union {None}
    BY DEF Seen, IInv2, Typed2, TypeOK, Transactions
  <2>2. doc' \in [Ids -> Actions \union {None}]
    BY <2>1 DEF CommitTransaction
  <2>3. tx.cleared \subseteq Ids
    BY DEF IInv2, Typed2, Transactions
  <2>. QED  BY <1>1, <2>2, <2>3 DEF CommitTransaction, IInv2, Typed2, TypeOK
<1>4. RunsFit' /\ ClearsFit'
  BY <1>1, <1>2 DEF IInv2, Fits, RunsFit, ClearsFit
<1>5. DocFits'
  BY <1>1 DEF Seen, IInv2, Fits, DocFits, ViewFits
<1>6. TimersFit' /\ UncommittedStaysHome'
  BY <1>1, <1>2, TimersKept, HomeKept
<1>. QED  BY <1>2, <1>3, <1>4, <1>5, <1>6 DEF IInv2, Fits, Typed2

\* The server undoes it.
LEMMA AbortFits == ASSUME IInv2, AbortTransaction PROVE IInv2'
<1>. USE DEF vars
<1>1. InProgress /\ Over("aborted") /\ tx.runs = {} /\ tx.clears = {}
  BY DEF AbortTransaction, IInv2, Fits, PhaseFits, InProgress
<1>2. /\ tx' \in Transactions /\ joined' = {} /\ PhaseFits' /\ ViewFits'
      /\ tx'.proc = tx.proc /\ tx'.mine = tx.mine /\ tx'.runs = {} /\ tx'.clears = {}
  BY <1>1, OverShape
<1>3. TypeOK' /\ RunsFit' /\ ClearsFit' /\ DocFits'
  BY <1>1, <1>2 DEF AbortTransaction, IInv2, Fits, Typed2, TypeOK, Stored, RunsFit,
                    ClearsFit, DocFits
<1>4. TimersFit' /\ UncommittedStaysHome'
  BY <1>2, TimersKept, HomeKept DEF AbortTransaction
<1>. QED  BY <1>2, <1>3, <1>4 DEF IInv2, Fits, Typed2

\* The process of the transaction ends.
LEMMA CrashFits == ASSUME IInv2, CrashInside PROVE IInv2'
<1>. USE DEF procVars, callVars, history
<1>1. InProgress /\ Over("aborted") /\ Down(tx.proc)
  BY DEF CrashInside
<1>2. /\ tx' \in Transactions /\ joined' = {} /\ PhaseFits' /\ ViewFits'
      /\ tx'.proc = tx.proc /\ tx'.mine = tx.mine /\ tx'.runs = {} /\ tx'.clears = {}
      /\ tx.proc \in Procs
  BY <1>1, OverShape DEF IInv2, Typed2, Transactions
<1>3. /\ \A q \in Procs, h \in Handles : timer'[q][h] \in {"free", timer[q][h]}
      /\ \A q \in Procs, r \in Reads : reading'[q][r].found \subseteq reading[q][r].found
      /\ UNCHANGED <<doc, saved, ran, dropped, clearAsked>>
  BY <1>1 DEF IInv2, Typed2, TypeOK, Down, NoRead
<1>4. TypeOK'
  <2>1. UNCHANGED faults /\ TypeOK
    BY DEF CrashInside, IInv2, Typed2
  <2>. QED  BY <1>1, <1>2, <2>1, ConstantsAssumption, IdleTypes DEF TypeOK, Down, Phases
<1>5. RunsFit'
  <2>1. \A c \in Calls : run'[c] = IF run[c].proc = tx.proc THEN NoRun ELSE run[c]
    BY <1>1 DEF Down
  <2>. QED  BY <1>2, <1>3, <2>1 DEF IInv2, Fits, RunsFit, NoRun
<1>6. ClearsFit'
  <2>1. \A c \in Calls : clear'[c] = IF clear[c].proc = tx.proc THEN NoClear ELSE clear[c]
    BY <1>1 DEF Down
  <2>. QED  BY <1>2, <1>3, <2>1 DEF IInv2, Fits, ClearsFit, NoClear
<1>7. DocFits' /\ TimersFit' /\ UncommittedStaysHome'
  <2>1. DocFits'
    BY <1>3 DEF IInv2, Fits, DocFits
  <2>. QED  BY <1>2, <1>3, <2>1, TimersKept, HomeKept
<1>. QED  BY <1>2, <1>4, <1>5, <1>6, <1>7 DEF IInv2, Fits, Typed2

\* The callback of a timeout deletes its document in the transaction.
LEMMA JoinedDeleteFits ==
    ASSUME IInv2, NEW p \in Procs, NEW h \in Handles, JoinedDeleteAction(p, h) PROVE IInv2'
<1>. USE DEF procVars, callVars, history
<1>1. /\ UNCHANGED <<doc, reading, run, clear, saved, ran, dropped, clearAsked, joined>>
      /\ tx \in Transactions /\ tx' = Delete(IdOf[h[1]]) /\ timer[p][h] = "deleting"
      /\ h[1] \in Actions /\ IdOf[h[1]] \in Ids
  BY ConstantsAssumption DEF JoinedDeleteAction, IInv2, Typed2, Handles
<1>2. /\ tx' \in Transactions
      /\ tx'.proc = tx.proc /\ tx'.mine = tx.mine /\ tx'.phase = tx.phase
      /\ tx'.runs = tx.runs /\ tx'.clears = tx.clears /\ tx'.cleared = tx.cleared
      /\ tx'.tried = tx.tried
      /\ \A j \in Ids : \/ tx'.view[j] = tx.view[j]
                        \/ tx'.view[j] = None /\ j = IdOf[h[1]]
  BY <1>1, DeleteShape
<1>3. h[1] \in ran \union dropped
  BY <1>1 DEF IInv2, Fits, TimersFit
<1>4. /\ \A q \in Procs, g \in Handles :
            timer'[q][g] = IF q = p /\ g = h THEN "deleted" ELSE timer[q][g]
      /\ timer' \in [Procs -> [Handles -> Phases]]
  BY DEF JoinedDeleteAction, SetPhase, IInv2, Typed2, TypeOK, Phases
<1>5. TypeOK'
  BY <1>1, <1>4 DEF JoinedDeleteAction, IInv2, Typed2, TypeOK
<1>6. PhaseFits' /\ RunsFit' /\ ClearsFit' /\ DocFits'
  BY <1>1, <1>2 DEF IInv2, Fits, PhaseFits, RunsFit, ClearsFit, DocFits
<1>7. ViewFits'
  BY <1>1, <1>2, <1>3, ConstantsAssumption DEF IInv2, Fits, ViewFits
<1>8. TimersFit' /\ UncommittedStaysHome'
  BY <1>1, <1>2, <1>4, TimersKept, HomeKept
<1>. QED  BY <1>1, <1>2, <1>5, <1>6, <1>7, <1>8 DEF IInv2, Fits, Typed2

\* The invariant is inductive.
THEOREM FitsStep == IInv2 /\ [Next2]_allVars => IInv2'
<1>. SUFFICES ASSUME IInv2, [Next2]_allVars PROVE IInv2'
  OBVIOUS
<1>1. CASE UNCHANGED allVars
  <2>1. UNCHANGED <<vars, tx, joined>>
    BY <1>1 DEF allVars
  <2>2. TypeOK'
    BY <2>1, StepType DEF IInv2, Typed2
  <2>3. Typed2'
    BY <2>1, <2>2 DEF IInv2, Typed2
  <2>4. UNCHANGED <<doc, run, clear, saved, ran, dropped, clearAsked, timer, reading>>
    BY <2>1 DEF vars
  <2>5. Fits'
    BY <2>1, <2>4, AsideKept, TimersKept, HomeKept DEF Fits
  <2>. QED  BY <2>3, <2>5 DEF IInv2
<1>. QED
  BY <1>1, OutsideFits, PhaseSteps, JoinSteps, StageFits, DropFits, FailFits, RunReturnFits,
     ClearReturnFits, CommitFits, AbortFits, CrashFits, JoinedDeleteFits DEF Next2

\* Before its transaction commits, and for good if it aborts, an action is known
\* to the process of the transaction only.
THEOREM UncommittedAlwaysStaysHome == Spec2 => []UncommittedStaysHome
<1>1. IInv2 => UncommittedStaysHome
  BY DEF IInv2, Fits
<1>. QED  BY <1>1, InitFits, FitsStep, PTL DEF Spec2

-----------------------------------------------------------------------------
(* Timeouts, when no two actions share an id *)

Tried == clearAsked \union tx.tried

\* A step that gives a timeout it starts its entry, and takes the entry of one
\* that stays for a cleared id only.
LEMMA EntriesKept ==
    ASSUME TypeOK, OneTimeoutEach, Tried \subseteq Tried',
           \A p \in Procs, h \in Handles : timer'[p][h] # "free" =>
              timer[p][h] # "free" \/ timeoutMap'[p][IdOf[h[1]]] = h,
           \A p \in Procs, h \in Handles : timer'[p][h] # "free" =>
              \/ timeoutMap'[p][IdOf[h[1]]] = timeoutMap[p][IdOf[h[1]]]
              \/ timeoutMap[p][IdOf[h[1]]] = None
              \/ IdOf[h[1]] \in Tried
              \/ timeoutMap[p][IdOf[h[1]]] # h
    PROVE  OneTimeoutEach'
<1>. SUFFICES ASSUME NEW p \in Procs, NEW a \in Actions, NEW k \in Slots,
                     timer'[p][<<a, k>>] # "free", IdOf[a] \notin Tried',
                     timeoutMap'[p][IdOf[a]] # <<a, k>>
              PROVE  FALSE
  BY DEF OneTimeoutEach, Tried
<1>1. <<a, k>> \in Handles /\ <<a, k>>[1] = a /\ <<a, k>> # None
  BY ConstantsAssumption DEF Handles
<1>2. timer[p][<<a, k>>] # "free"
  BY <1>1
<1>3. timeoutMap[p][IdOf[a]] = <<a, k>>
  BY <1>2 DEF OneTimeoutEach, Tried
<1>. QED  BY <1>1, <1>3

\* The steps that leave the timeouts and their entries alone.
LEMMA EntriesAside ==
    ASSUME TypeOK, OneTimeoutEach, Tried \subseteq Tried', UNCHANGED <<timer, timeoutMap>>
    PROVE  OneTimeoutEach'
  BY EntriesKept

\* A list is armed.
LEMMA EntriesArmed ==
    ASSUME FreshIds, TypeOK, OneTimeoutEach, Tried \subseteq Tried',
           NEW p \in Procs, NEW S \in SUBSET Actions, Arm(p, S)
    PROVE  OneTimeoutEach'
<1>1. /\ \A q \in Procs, h \in Handles :
            timer'[q][h] # "free" => timer[q][h] # "free" \/ timeoutMap'[q][IdOf[h[1]]] = h
      /\ \A q \in Procs, i \in Ids :
            timeoutMap'[q][i] = timeoutMap[q][i] \/ timeoutMap[q][i] = None
  BY ArmStep
<1>2. \A h \in Handles : IdOf[h[1]] \in Ids
  BY ConstantsAssumption DEF Handles
<1>. QED  BY <1>1, <1>2, EntriesKept

\* runTimers answers, in the transaction or not.
LEMMA EntriesRun ==
    ASSUME FreshIds, TypeOK, OneTimeoutEach, Tried \subseteq Tried',
           NEW c \in Calls, RunReturns(c)
    PROVE  OneTimeoutEach'
<1>1. CASE UNCHANGED <<timer, timeoutMap>>
  BY <1>1, EntriesAside
<1>2. CASE ~UNCHANGED <<timer, timeoutMap>>
  <2>1. PICK p \in Procs : p = run[c].proc
    BY DEF RunReturns, TypeOK, RunCalls
  <2>2. PICK S : S = {a \in run[c].batch : ExecTimeOf[a] <= NextDate(now)}
    OBVIOUS
  <2>3. Arm(p, S) /\ S \in SUBSET Actions
    BY <1>2, <2>1, <2>2 DEF RunReturns, TypeOK, RunCalls
  <2>. QED  BY <2>3, EntriesArmed
<1>. QED  BY <1>1, <1>2

\* clearTimers answers.
LEMMA EntriesClear ==
    ASSUME TypeOK, OneTimeoutEach, Tried \subseteq Tried',
           NEW c \in Calls, ClearReturns(c), clear[c].ids \subseteq Tried
    PROVE  OneTimeoutEach'
<1>1. /\ \A q \in Procs, h \in Handles : timer'[q][h] \in {"free", timer[q][h]}
      /\ \A q \in Procs, i \in Ids : timeoutMap'[q][i] = timeoutMap[q][i] \/ i \in Tried
  BY ClearStep
<1>2. \A h \in Handles : IdOf[h[1]] \in Ids
  BY ConstantsAssumption DEF Handles
<1>. QED  BY <1>1, <1>2, EntriesKept

\* A callback goes on.
LEMMA EntriesPhase ==
    ASSUME TypeOK, OneTimeoutEach, Tried \subseteq Tried',
           NEW p \in Procs, NEW h \in Handles, NEW phase \in Phases, SetPhase(p, h, phase),
           timer[p][h] # "free", UNCHANGED timeoutMap
    PROVE  OneTimeoutEach'
  BY SetPhaseStep, EntriesKept

\* It ends.
LEMMA EntriesEnd ==
    ASSUME TypeOK, OneTimeoutEach, Tried \subseteq Tried',
           NEW p \in Procs, NEW h \in Handles, CallbackEnds(p, h)
    PROVE  OneTimeoutEach'
<1>1. \A q \in Procs, g \in Handles :
         timer'[q][g] = IF q = p /\ g = h THEN "free" ELSE timer[q][g]
  BY SetPhaseStep DEF CallbackEnds, Phases
<1>2. \A q \in Procs, i \in Ids :
         timeoutMap'[q][i] = IF q = p /\ i = IdOf[h[1]] THEN None ELSE timeoutMap[q][i]
  BY ConstantsAssumption DEF CallbackEnds, TypeOK, Handles
<1>3. PICK a \in Actions, k \in Slots : h = <<a, k>>
  BY DEF Handles
<1>4. IdOf[a] \in Tried \/ timeoutMap[p][IdOf[a]] = h
  BY <1>3 DEF CallbackEnds, OneTimeoutEach, Tried
<1>5. \A g \in Handles : IdOf[g[1]] \in Ids
  BY ConstantsAssumption DEF Handles
<1>. QED  BY <1>1, <1>2, <1>3, <1>4, <1>5, EntriesKept

\* A process ends.
LEMMA EntriesDown ==
    ASSUME TypeOK, OneTimeoutEach, Tried \subseteq Tried', NEW p \in Procs, Down(p)
    PROVE  OneTimeoutEach'
<1>1. \A q \in Procs, h \in Handles :
         timer'[q][h] = IF q = p THEN "free" ELSE timer[q][h]
  BY DEF Down, TypeOK
<1>2. \A q \in Procs : q # p => timeoutMap'[q] = timeoutMap[q]
  BY DEF Down, TypeOK
<1>. QED  BY <1>1, <1>2, EntriesKept

\* What a transaction asked to clear it never forgets.
LEMMA TriedGrows ==
    ASSUME IInv2, Next2 PROVE Tried \subseteq Tried'
<1>. USE DEF Tried, procVars, callVars, history, vars
<1>1. tx \in Transactions
  BY DEF IInv2, Typed2
<1>2. CASE Outside
  <2>1. clearAsked \subseteq clearAsked'
    <3>1. ASSUME NEW c \in Calls, NEW p \in Procs, NEW I \in SUBSET Ids, ClearTimers(c, p, I)
          PROVE  clearAsked \subseteq clearAsked'
      BY <3>1 DEF ClearTimers
    <3>2. ASSUME NEW p \in Procs,
                 \/ \E key \in FnKeys : SetFunction(p, key)
                 \/ StartUp(p) \/ CronFires(p) \/ Crash(p) \/ Restart(p)
                 \/ \E r \in Reads : FindReads(p, r) \/ FindReturns(p, r) \/ FindFails(p, r)
          PROVE  UNCHANGED clearAsked
      BY <3>2 DEF SetFunction, StartUp, CronFires, Crash, Down, Restart, FindReads,
         FindReturns, FindFails
    <3>3. ASSUME NEW p \in Procs, NEW h \in Handles,
                 \/ Fire(p, h) \/ FnReturns(p, h) \/ DeleteAction(p, h)
                 \/ CallbackEnds(p, h) \/ Rejects(p, h)
          PROVE  UNCHANGED clearAsked
      BY <3>3 DEF Fire, FnReturns, DeleteAction, CallbackEnds, Rejects, Down
    <3>4. ASSUME NEW c \in Calls,
                 \/ \E p \in Procs, B \in SUBSET Actions : RunTimers(c, p, B)
                 \/ \E a \in Actions : SaveOne(c, a) \/ SaveFails(c, a)
                 \/ \E i \in Ids : DeleteOne(c, i)
                 \/ DeleteFails(c) \/ RunReturns(c) \/ ClearReturns(c)
          PROVE  UNCHANGED clearAsked
      BY <3>4 DEF RunTimers, SaveOne, SaveFails, DeleteOne, DeleteFails, RunReturns, ClearReturns
    <3>5. CASE Tick
      BY <3>5 DEF Tick
    <3>. HIDE DEF procVars, callVars, history, vars
    <3>. QED  BY <1>2, <3>1, <3>2, <3>3, <3>4, <3>5 DEF Outside, Next
  <2>. QED  BY <1>2, <2>1 DEF Outside, Around
<1>3. CASE CommitTransaction \/ AbortTransaction \/ CrashInside
  BY <1>1, <1>3 DEF CommitTransaction, AbortTransaction, CrashInside, Over, Down, Transactions
<1>4. CASE (\E p \in Procs : Begin(p)) \/ EndOfBody \/ RetryTransaction
  BY <1>1, <1>4 DEF Begin, EndOfBody, RetryTransaction, Transactions
<1>5. ASSUME NEW p \in Procs, NEW h \in Handles, JoinedDeleteAction(p, h)
      PROVE  Tried \subseteq Tried'
  <2>1. IdOf[h[1]] \in Ids
    BY ConstantsAssumption DEF Handles
  <2>2. tx'.tried = tx.tried
    BY <1>1, <1>5, <2>1, DeleteShape DEF JoinedDeleteAction
  <2>. QED  BY <1>5, <2>2 DEF JoinedDeleteAction
<1>6. ASSUME NEW c \in Calls, NEW i \in Ids, DropOne(c, i) PROVE Tried \subseteq Tried'
  BY <1>1, <1>6, DeleteShape DEF DropOne
<1>7. ASSUME NEW c \in Calls, NEW I \in SUBSET Ids, JoinClear(c, I)
      PROVE  Tried \subseteq Tried'
  BY <1>1, <1>7 DEF JoinClear, Transactions
<1>8. ASSUME NEW c \in Calls,
             \/ \E B \in SUBSET Actions : JoinRun(c, B)
             \/ \E a \in Actions : StageOne(c, a)
             \/ JoinedRunReturns(c) \/ JoinedClearReturns(c) \/ JoinedFails(c)
      PROVE  Tried \subseteq Tried'
  <2>1. UNCHANGED clearAsked
    BY <1>8 DEF JoinRun, StageOne, JoinedRunReturns, JoinedClearReturns, JoinedFails,
       RunReturns, ClearReturns
  <2>2. tx'.tried = tx.tried
    BY <1>1, <1>8 DEF JoinRun, StageOne, JoinedRunReturns, JoinedClearReturns, JoinedFails,
       Transactions
  <2>. QED  BY <2>1, <2>2
<1>. QED  BY <1>2, <1>3, <1>4, <1>5, <1>6, <1>7, <1>8 DEF Next2

\* Every step keeps the entries of the timeouts.
LEMMA EntriesStep ==
    ASSUME FreshIds, IInv2, OneTimeoutEach, [Next2]_allVars PROVE OneTimeoutEach'
<1>. USE DEF procVars, callVars, history
<1>1. TypeOK /\ ClearsFit /\ tx \in Transactions
  BY DEF IInv2, Fits, Typed2
<1>2. CASE UNCHANGED allVars
  BY <1>1, <1>2, EntriesAside DEF allVars, vars, Tried
<1>. SUFFICES ASSUME Next2 PROVE OneTimeoutEach'
  BY <1>2
<1>3. Tried \subseteq Tried'
  BY TriedGrows
<1>4. \A c \in Calls : clear[c].ids \subseteq Tried
  BY <1>1 DEF ClearsFit, Tried
<1>5. CASE UNCHANGED <<timer, timeoutMap>>
  BY <1>1, <1>3, <1>5, EntriesAside
<1>6. ASSUME NEW p \in Procs, NEW r \in Reads, FindReturns(p, r) PROVE OneTimeoutEach'
  <2>1. reading[p][r].found \in SUBSET Actions
    BY <1>1 DEF TypeOK, Finds
  <2>. QED  BY <1>1, <1>3, <1>6, <2>1, EntriesArmed DEF FindReturns
<1>7. ASSUME NEW c \in Calls, RunReturns(c) \/ ClearReturns(c) PROVE OneTimeoutEach'
  BY <1>1, <1>3, <1>4, <1>7, EntriesRun, EntriesClear
<1>8. ASSUME NEW p \in Procs, Down(p) PROVE OneTimeoutEach'
  BY <1>1, <1>3, <1>8, EntriesDown
<1>9. ASSUME NEW p \in Procs, NEW h \in Handles,
             \/ Fire(p, h) \/ FnReturns(p, h) \/ DeleteAction(p, h) \/ Rejects(p, h)
             \/ CallbackEnds(p, h) \/ JoinedDeleteAction(p, h)
      PROVE  OneTimeoutEach'
  <2>1. CASE CallbackEnds(p, h)
    BY <1>1, <1>3, <2>1, EntriesEnd
  <2>2. CASE Down(p)
    BY <1>8, <2>2
  <2>3. CASE ~CallbackEnds(p, h) /\ ~Down(p)
    <3>1. \E phase \in Phases : SetPhase(p, h, phase)
      BY <1>9, <2>3
         DEF Fire, FnReturns, DeleteAction, Rejects, JoinedDeleteAction, Phases
    <3>2. timer[p][h] # "free" /\ UNCHANGED timeoutMap
      BY <1>9, <2>3 DEF Fire, FnReturns, DeleteAction, Rejects, JoinedDeleteAction
    <3>. QED  BY <1>1, <1>3, <3>1, <3>2, EntriesPhase
  <2>. QED  BY <2>1, <2>2, <2>3
<1>10. CASE Outside
  <2>1. ASSUME NEW p \in Procs,
               \/ \E key \in FnKeys : SetFunction(p, key)
               \/ StartUp(p) \/ CronFires(p) \/ Restart(p)
               \/ \E r \in Reads : FindReads(p, r) \/ FindFails(p, r)
        PROVE  OneTimeoutEach'
    BY <1>5, <2>1 DEF SetFunction, StartUp, CronFires, Restart, FindReads, FindFails
  <2>2. ASSUME NEW c \in Calls,
               \/ \E p \in Procs : \/ \E B \in SUBSET Actions : RunTimers(c, p, B)
                                   \/ \E I \in SUBSET Ids : ClearTimers(c, p, I)
               \/ \E a \in Actions : SaveOne(c, a) \/ SaveFails(c, a)
               \/ \E i \in Ids : DeleteOne(c, i)
               \/ DeleteFails(c)
        PROVE  OneTimeoutEach'
    BY <1>5, <2>2 DEF RunTimers, ClearTimers, SaveOne, SaveFails, DeleteOne, DeleteFails
  <2>3. CASE Tick
    BY <1>5, <2>3 DEF Tick
  <2>. HIDE DEF procVars, callVars, history
  <2>. QED  BY <1>6, <1>7, <1>8, <1>9, <1>10, <2>1, <2>2, <2>3 DEF Outside, Next, Crash
<1>11. ASSUME NEW c \in Calls,
              \/ \E B \in SUBSET Actions : JoinRun(c, B)
              \/ \E I \in SUBSET Ids : JoinClear(c, I)
              \/ \E a \in Actions : StageOne(c, a)
              \/ \E i \in Ids : DropOne(c, i)
              \/ JoinedFails(c)
       PROVE  OneTimeoutEach'
  BY <1>5, <1>11 DEF JoinRun, JoinClear, StageOne, DropOne, JoinedFails
<1>12. ASSUME NEW c \in Calls, JoinedRunReturns(c) \/ JoinedClearReturns(c)
       PROVE  OneTimeoutEach'
  BY <1>7, <1>12 DEF JoinedRunReturns, JoinedClearReturns
<1>13. CASE CrashInside
  <2>1. tx.proc \in Procs
    BY <1>13, <1>1, OverShape DEF CrashInside, Transactions
  <2>. QED  BY <1>8, <1>13, <2>1 DEF CrashInside
<1>14. CASE \/ \E p \in Procs : Begin(p)
            \/ EndOfBody \/ CommitTransaction \/ AbortTransaction \/ RetryTransaction
  BY <1>5, <1>14 DEF Begin, EndOfBody, CommitTransaction, AbortTransaction, RetryTransaction, vars
<1>. HIDE DEF procVars, callVars, history
<1>. QED  BY <1>9, <1>10, <1>11, <1>12, <1>13, <1>14 DEF Next2

\* An action nobody tried to clear never has a second timeout in a process.
THEOREM OneTimeoutAlways == ASSUME FreshIds PROVE Spec2 => []OneTimeoutEach
<1>1. Init2 => OneTimeoutEach
  <2>. SUFFICES ASSUME Init2 PROVE OneTimeoutEach
    OBVIOUS
  <2>. QED  BY DEF Init2, OneTimeoutEach, Handles
<1>2. IInv2 /\ OneTimeoutEach /\ [Next2]_allVars => OneTimeoutEach'
  BY EntriesStep
<1>. QED  BY <1>1, <1>2, InitFits, FitsStep, PTL DEF Spec2

-----------------------------------------------------------------------------
(* What leaves the collection *)

\* A step that removes the documents of actions that are accounted for only.
LEMMA AccountsKept ==
    ASSUME AccountedFor, ran \subseteq ran', dropped \subseteq dropped',
           clearAsked \subseteq clearAsked', saved' \ saved \subseteq Stored',
           \A a \in Stored : a \in Stored' \/ a \in ran' \union dropped'
                                         \/ IdOf[a] \in clearAsked'
    PROVE  AccountedFor'
  BY DEF AccountedFor

\* Every step of the service around the transaction.
LEMMA AccountsOutside ==
    ASSUME FreshIds, IInv2, AccountedFor, Outside PROVE AccountedFor'
<1>. USE DEF procVars, callVars, history
<1>1. /\ TypeOK /\ ClearsFit /\ TimersFit /\ Next
      /\ \A c \in tx.clears : clear'[c] = clear[c]
  BY DEF IInv2, Fits, Typed2, Outside, Around
<1>2. CASE /\ UNCHANGED <<doc, saved>>
           /\ ran \subseteq ran' /\ dropped \subseteq dropped' /\ clearAsked \subseteq clearAsked'
  BY <1>2 DEF AccountedFor, Stored
<1>3. ASSUME NEW p \in Procs,
             \/ \E key \in FnKeys : SetFunction(p, key)
             \/ StartUp(p) \/ CronFires(p) \/ Crash(p) \/ Restart(p)
             \/ \E r \in Reads : FindReads(p, r) \/ FindReturns(p, r) \/ FindFails(p, r)
      PROVE  AccountedFor'
  BY <1>2, <1>3 DEF SetFunction, StartUp, CronFires, Crash, Down, Restart, FindReads,
     FindReturns, FindFails
<1>4. ASSUME NEW p \in Procs, NEW h \in Handles, DeleteAction(p, h) PROVE AccountedFor'
  <2>1. h[1] \in ran \union dropped /\ h[1] \in Actions
    BY <1>1, <1>4 DEF DeleteAction, TimersFit, Handles
  <2>2. Stored' = {a \in Stored : IdOf[a] # IdOf[h[1]]}
    BY <1>1, <1>4, <2>1, DocDelete, ConstantsAssumption DEF DeleteAction
  <2>3. \A a \in Stored : a \in Stored' \/ a = h[1]
    BY <2>1, <2>2 DEF FreshIds, Stored
  <2>. QED  BY <1>4, <2>1, <2>3, AccountsKept DEF DeleteAction
<1>5. ASSUME NEW p \in Procs, NEW h \in Handles,
             Fire(p, h) \/ FnReturns(p, h) \/ CallbackEnds(p, h) \/ Rejects(p, h)
      PROVE  AccountedFor'
  BY <1>2, <1>5 DEF Fire, FnReturns, CallbackEnds, Rejects, Down
<1>6. ASSUME NEW c \in Calls, NEW i \in Ids, DeleteOne(c, i) PROVE AccountedFor'
  <2>1. c \notin tx.clears
    BY <1>1, <1>6 DEF DeleteOne, TypeOK, ClearCalls
  <2>2. i \in clearAsked
    BY <1>1, <1>6, <2>1 DEF DeleteOne, ClearsFit
  <2>3. Stored' = {a \in Stored : IdOf[a] # i}
    BY <1>1, <1>6, DocDelete DEF DeleteOne
  <2>. QED  BY <1>6, <2>2, <2>3, AccountsKept DEF DeleteOne
<1>7. ASSUME NEW c \in Calls, NEW a \in Actions, SaveOne(c, a) PROVE AccountedFor'
  <2>1. CASE doc[IdOf[a]] = None
    <3>1. Stored' = Stored \union {a}
      BY <1>1, <1>7, <2>1, DocInsert DEF SaveOne
    <3>. QED  BY <1>7, <2>1, <3>1, AccountsKept DEF SaveOne
  <2>2. CASE doc[IdOf[a]] # None
    BY <1>2, <1>7, <2>2 DEF SaveOne
  <2>. QED  BY <2>1, <2>2
<1>8. ASSUME NEW c \in Calls,
             \/ \E p \in Procs : \/ \E B \in SUBSET Actions : RunTimers(c, p, B)
                                 \/ \E I \in SUBSET Ids : ClearTimers(c, p, I)
             \/ \E a \in Actions : SaveFails(c, a)
             \/ DeleteFails(c) \/ RunReturns(c) \/ ClearReturns(c)
      PROVE  AccountedFor'
  BY <1>2, <1>8 DEF RunTimers, ClearTimers, SaveFails, DeleteFails, RunReturns, ClearReturns
<1>9. CASE Tick
  BY <1>2, <1>9 DEF Tick
<1>. HIDE DEF procVars, callVars, history
<1>. QED  BY <1>1, <1>3, <1>4, <1>5, <1>6, <1>7, <1>8, <1>9 DEF Next

\* The commit: a document goes because it was cleared in the transaction or
\* because a callback that ran deleted it there.
LEMMA AccountsCommit ==
    ASSUME FreshIds, IInv2, AccountedFor, CommitTransaction PROVE AccountedFor'
<1>1. TypeOK /\ ViewFits /\ tx \in Transactions
  BY DEF IInv2, Fits, Typed2
<1>2. /\ ran' = ran /\ dropped' = dropped /\ clearAsked' = clearAsked \union tx.cleared
      /\ saved' = saved \union {a \in Actions : tx.view[IdOf[a]] = a}
      /\ doc' = [i \in Ids |-> Seen(i)]
  BY DEF CommitTransaction
<1>3. \A a \in Actions : IdOf[a] \in Ids
  BY ConstantsAssumption
<1>4. \A a \in Actions : tx.view[IdOf[a]] = a => a \in Stored'
  BY <1>2, <1>3, TransactionAssumption DEF Seen, Stored
<1>5. ASSUME NEW a \in Stored
      PROVE  a \in Stored' \/ a \in ran' \union dropped' \/ IdOf[a] \in clearAsked'
  <2>1. a \in Actions /\ doc[IdOf[a]] = a /\ IdOf[a] \in Ids
    BY <1>3 DEF Stored
  <2>2. CASE tx.view[IdOf[a]] = Same
    BY <1>2, <2>1, <2>2 DEF Seen, Stored
  <2>3. CASE tx.view[IdOf[a]] = None
    BY <1>1, <1>2, <2>1, <2>3, ConstantsAssumption
       DEF ViewFits, FreshIds, TypeOK
  <2>4. CASE tx.view[IdOf[a]] \in Actions
    BY <1>1, <1>4, <2>1, <2>4 DEF ViewFits, FreshIds
  <2>. QED  BY <1>1, <2>1, <2>2, <2>3, <2>4 DEF Transactions
<1>. QED  BY <1>2, <1>4, <1>5, AccountsKept

\* A document leaves the collection only after its function completed, its key was
\* found unregistered, or somebody asked to clear it, in a transaction or not.
THEOREM NoActionIsLostInTransactions ==
    ASSUME FreshIds PROVE Spec2 => []AccountedFor
<1>1. Init2 => AccountedFor
  BY DEF Init2, AccountedFor
<1>2. IInv2 /\ AccountedFor /\ [Next2]_allVars => AccountedFor'
  <2>. SUFFICES ASSUME IInv2, AccountedFor, [Next2]_allVars PROVE AccountedFor'
    OBVIOUS
  <2>1. CASE UNCHANGED <<doc, saved, ran, dropped, clearAsked>>
    BY <2>1 DEF AccountedFor, Stored
  <2>2. CASE UNCHANGED allVars
    BY <2>1, <2>2 DEF allVars, vars
  <2>3. CASE \/ \E p \in Procs : Begin(p)
             \/ EndOfBody \/ AbortTransaction \/ RetryTransaction
    BY <2>1, <2>3 DEF Begin, EndOfBody, AbortTransaction, RetryTransaction, vars
  <2>4. ASSUME NEW p \in Procs, NEW h \in Handles, JoinedDeleteAction(p, h)
        PROVE  AccountedFor'
    BY <2>1, <2>4 DEF JoinedDeleteAction, history
  <2>5. ASSUME NEW c \in Calls,
               \/ \E B \in SUBSET Actions : JoinRun(c, B)
               \/ \E I \in SUBSET Ids : JoinClear(c, I)
               \/ \E a \in Actions : StageOne(c, a)
               \/ \E i \in Ids : DropOne(c, i)
               \/ JoinedRunReturns(c) \/ JoinedClearReturns(c) \/ JoinedFails(c)
        PROVE  AccountedFor'
    BY <2>1, <2>5 DEF JoinRun, JoinClear, StageOne, DropOne, JoinedRunReturns, RunReturns,
       JoinedClearReturns, ClearReturns, JoinedFails, history
  <2>6. CASE CrashInside
    BY <2>1, <2>6 DEF CrashInside, Down
  <2>. QED
    BY <2>2, <2>3, <2>4, <2>5, <2>6, AccountsOutside, AccountsCommit DEF Next2
<1>. QED  BY <1>1, <1>2, InitFits, FitsStep, PTL DEF Spec2

\* Inside the transaction timeouts are armed as outside, for what is due within a
\* period.
LEMMA TimingStep2 == IInv2 /\ Timing /\ [Next2]_allVars => Timing'
<1>. SUFFICES ASSUME IInv2, Timing, [Next2]_allVars PROVE Timing'
  OBVIOUS
<1>1. TypeOK
  BY DEF IInv2, Typed2
<1>2. CASE [Next]_vars
  BY <1>1, <1>2, TimingStep
<1>3. CASE UNCHANGED <<now, timer, reading>>
  BY <1>3 DEF Timing, NeverEarly, DueWithinPeriod
<1>4. CASE CrashInside
  <2>1. tx.proc \in Procs /\ Down(tx.proc)
    BY <1>4 DEF CrashInside, InProgress, IInv2, Typed2, Fits, PhaseFits, Transactions
  <2>. QED  BY <1>1, <2>1, DownTiming
<1>5. ASSUME NEW c \in Calls, JoinedRunReturns(c) \/ JoinedClearReturns(c) PROVE Timing'
  <2>1. Next
    BY <1>5 DEF JoinedRunReturns, JoinedClearReturns, Next
  <2>. QED  BY <1>2, <2>1
<1>6. ASSUME NEW p \in Procs, NEW h \in Handles, JoinedDeleteAction(p, h) PROVE Timing'
  <2>1. \A q \in Procs, g \in Handles : timer'[q][g] \in {timer[q][g], "deleted"}
    BY <1>1, <1>6 DEF JoinedDeleteAction, SetPhase, TypeOK
  <2>2. UNCHANGED <<now, reading>>
    BY <1>6 DEF JoinedDeleteAction
  <2>. QED  BY <2>1, <2>2 DEF Timing, NeverEarly, DueWithinPeriod
<1>7. CASE UNCHANGED allVars
  BY <1>2, <1>7 DEF allVars
<1>8. CASE \/ \E p \in Procs : Begin(p)
           \/ EndOfBody \/ CommitTransaction \/ AbortTransaction \/ RetryTransaction
           \/ \E c \in Calls :
                 \/ \E B \in SUBSET Actions : JoinRun(c, B)
                 \/ \E I \in SUBSET Ids : JoinClear(c, I)
                 \/ \E a \in Actions : StageOne(c, a)
                 \/ \E i \in Ids : DropOne(c, i)
                 \/ JoinedFails(c)
  BY <1>3, <1>8 DEF Begin, EndOfBody, CommitTransaction, AbortTransaction,
     RetryTransaction, JoinRun, JoinClear, StageOne, DropOne, JoinedFails, vars
<1>. QED  BY <1>2, <1>4, <1>5, <1>6, <1>7, <1>8 DEF Next2, Outside

\* Nor does a function run early that a transaction asked for, in an attempt that is
\* undone or not.
THEOREM NeverRunsEarlyInTransactions == Spec2 => []NeverEarly
<1>1. Init2 => Timing
  BY ConstantsAssumption DEF Init2, Timing, NeverEarly, DueWithinPeriod, NoRead
<1>2. Timing => NeverEarly
  BY DEF Timing
<1>. QED  BY <1>1, <1>2, InitFits, FitsStep, TimingStep2, PTL DEF Spec2

-----------------------------------------------------------------------------
(* Committed actions are in hand *)

\* Actions are asked for by one call at a time, those of the transaction by its
\* own calls only, which may ask again.
BatchesFit ==
    /\ tx.mine \subseteq submitted
    /\ \A c \in Calls : run[c].batch \subseteq submitted
    /\ \A c \in Calls \ tx.runs :
          /\ run[c].batch \intersect tx.mine = {}
          /\ \A d \in Calls \ tx.runs : c # d => run[c].batch \intersect run[d].batch = {}

\* Who answered for an action is started, is the process of the transaction if
\* that asked for it, and has answered the only call that asked for it if not.
AcksFit ==
    /\ \A c \in Calls \ tx.runs, a \in Actions : a \in run[c].batch => ackBy[a] = None
    /\ \A a \in Actions : ackBy[a] # None =>
          /\ a \in submitted /\ ackBy[a] \in started
          /\ a \in tx.mine => ackBy[a] = tx.proc

\* The transaction writes its own actions, only while it is in progress, and a
\* call of its body that failed has broken it.
WritesFit ==
    /\ \A c \in tx.runs : run[c].failed => tx.broken
    /\ \A i \in Ids : tx.view[i] \in Actions => tx.view[i] \in tx.mine
    /\ ~InProgress => \A i \in Ids : tx.view[i] = Same
    /\ overlooked \subseteq tx.mine

AnswersFit == BatchesFit /\ AcksFit /\ WritesFit

\* A step that asks for nothing and answers for nothing.
LEMMA AnswersFrame ==
    ASSUME AnswersFit, tx'.mine = tx.mine, tx'.proc = tx.proc,
           submitted \subseteq submitted',
           \A a \in Actions : /\ ackBy'[a] \in {None, ackBy[a]}
                              /\ ackBy'[a] # None => ackBy'[a] \in started',
           \A c \in Calls : /\ run'[c].batch \in {run[c].batch, {}}
                            /\ c \notin tx'.runs => c \notin tx.runs \/ run'[c].batch = {},
           \A c \in tx'.runs : run'[c].failed => tx'.broken,
           \A i \in Ids : tx'.view[i] \in Actions => tx'.view[i] \in tx.mine,
           ~InProgress' => \A i \in Ids : tx'.view[i] = Same,
           overlooked' \subseteq tx.mine
    PROVE  AnswersFit'
<1>1. BatchesFit'
  BY DEF AnswersFit, BatchesFit
<1>2. AcksFit'
  BY DEF AnswersFit, AcksFit
<1>3. WritesFit'
  BY DEF AnswersFit, WritesFit
<1>. QED  BY <1>1, <1>2, <1>3 DEF AnswersFit

\* A process that ends has answered for nothing any more.
LEMMA AnswersDown ==
    ASSUME IInv2, AnswersFit, NEW p \in Procs, Down(p)
    PROVE  /\ submitted' = submitted
           /\ \A a \in Actions : /\ ackBy'[a] \in {None, ackBy[a]} /\ ackBy'[a] # p
                                 /\ ackBy'[a] # None => ackBy'[a] \in started'
           /\ \A c \in Calls : run'[c] = IF run[c].proc = p THEN NoRun ELSE run[c]
<1>1. \A a \in Actions : ackBy'[a] = IF ackBy[a] = p THEN None ELSE ackBy[a]
  BY DEF Down
<1>. QED  BY <1>1, ConstantsAssumption DEF Down, AnswersFit, AcksFit

\* What a step outside of the transaction overlooks is its own.
LEMMA AroundOverlooks == ASSUME AnswersFit, Around PROVE overlooked' \subseteq tx.mine
<1>1. overlooked' = overlooked \/ overlooked' \subseteq tx.mine
  BY DEF Around
<1>. QED  BY <1>1 DEF AnswersFit, WritesFit

\* Calls, answers and the start of the service, around the transaction.
LEMMA AnswersOutside == ASSUME IInv2, AnswersFit, Outside PROVE AnswersFit'
<1>. USE DEF procVars, callVars, history
<1>1. /\ UNCHANGED tx /\ TypeOK /\ RunsFit /\ Next
      /\ \A c \in tx.runs : run'[c] = run[c]
      /\ overlooked' \subseteq tx.mine
  BY AroundOverlooks DEF Outside, Around, IInv2, Fits, Typed2
<1>2. /\ \A c \in tx.runs : run[c].failed => tx.broken
      /\ \A i \in Ids : tx.view[i] \in Actions => tx.view[i] \in tx.mine
      /\ ~InProgress => \A i \in Ids : tx.view[i] = Same
  BY DEF AnswersFit, WritesFit
<1>3. ~InProgress' => \A i \in Ids : tx'.view[i] = Same
  BY <1>1, <1>2 DEF InProgress
<1>4. tx.runs \subseteq Calls
  BY DEF IInv2, Typed2, Transactions
<1>5. ASSUME UNCHANGED <<submitted, ackBy>>, started \subseteq started',
             \A c \in Calls : run'[c].batch = run[c].batch
      PROVE  AnswersFit'
  <2>1. \A a \in Actions : ackBy'[a] # None => ackBy'[a] \in started'
    BY <1>5 DEF AnswersFit, AcksFit
  <2>. QED  BY <1>1, <1>2, <1>3, <1>5, <2>1, AnswersFrame
<1>6. ASSUME NEW p \in Procs, Down(p) PROVE AnswersFit'
  <2>1. \A c \in Calls : run'[c].batch \in {run[c].batch, {}}
    BY <1>6, AnswersDown DEF NoRun
  <2>. QED  BY <1>1, <1>2, <1>3, <1>6, <2>1, AnswersDown, AnswersFrame
<1>7. ASSUME NEW c \in Calls, NEW p \in Procs, NEW B \in SUBSET Actions, RunTimers(c, p, B)
      PROVE  AnswersFit'
  <2>1. /\ B \intersect submitted = {} /\ submitted' = submitted \union B
        /\ UNCHANGED <<ackBy, started>>
        /\ run' = [run EXCEPT ![c] = [proc |-> p, batch |-> B, todo |-> B, failed |-> FALSE]]
    BY <1>7 DEF RunTimers
  <2>2. \A d \in Calls : run'[d].batch = IF d = c THEN B ELSE run[d].batch
    BY <2>1, <1>1 DEF TypeOK
  <2>3. c \notin tx.runs
    BY <1>1, <1>7 DEF RunTimers, RunsFit
  <2>4. BatchesFit'
    BY <1>1, <2>1, <2>2, <2>3 DEF AnswersFit, BatchesFit
  <2>5. AcksFit'
    BY <1>1, <2>1, <2>2, <2>3 DEF AnswersFit, AcksFit
  <2>6. WritesFit'
    BY <1>1, <1>2, <1>3 DEF WritesFit
  <2>. QED  BY <2>4, <2>5, <2>6 DEF AnswersFit
<1>8. ASSUME NEW c \in Calls, RunReturns(c) PROVE AnswersFit'
  <2>1. run[c].proc # None /\ run[c].proc \in Procs /\ UNCHANGED <<submitted, started>>
    BY <1>1, <1>8 DEF RunReturns, TypeOK, RunCalls
  <2>2. \A d \in Calls : run'[d] = IF d = c THEN NoRun ELSE run[d]
    BY <1>1, <1>8 DEF RunReturns, TypeOK
  <2>3. c \notin tx.runs
    BY <1>1, <2>1, <2>2 DEF NoRun
  <2>4. \/ UNCHANGED ackBy
        \/ /\ run[c].proc \in started
           /\ ackBy' = [a \in Actions |-> IF a \in run[c].batch THEN run[c].proc ELSE ackBy[a]]
    BY <1>8 DEF RunReturns
  <2>5. BatchesFit'
    BY <1>1, <2>1, <2>2 DEF AnswersFit, BatchesFit, NoRun
  <2>6. AcksFit'
    <3>1. CASE UNCHANGED ackBy
      BY <1>1, <2>1, <2>2, <3>1 DEF AnswersFit, AcksFit, NoRun
    <3>2. CASE ~UNCHANGED ackBy
      <4>1. \A a \in Actions :
               ackBy'[a] = IF a \in run[c].batch THEN run[c].proc ELSE ackBy[a]
        BY <2>4, <3>2
      <4>2. ASSUME NEW d \in Calls \ tx.runs, NEW a \in Actions, a \in run'[d].batch
            PROVE  ackBy'[a] = None
        <5>1. d # c /\ run'[d] = run[d]
          BY <2>2, <4>2 DEF NoRun
        <5>2. a \notin run[c].batch
          BY <2>3, <4>2, <5>1 DEF AnswersFit, BatchesFit
        <5>. QED  BY <4>1, <4>2, <5>1, <5>2 DEF AnswersFit, AcksFit
      <4>3. ASSUME NEW a \in Actions, ackBy'[a] # None
            PROVE  a \in submitted /\ ackBy'[a] \in started /\ (a \in tx.mine => ackBy'[a] = tx.proc)
        BY <2>3, <2>4, <3>2, <4>1, <4>3 DEF AnswersFit, AcksFit, BatchesFit
      <4>. QED  BY <1>1, <2>1, <4>2, <4>3 DEF AcksFit
    <3>. QED  BY <3>1, <3>2
  <2>7. WritesFit'
    BY <1>1, <1>2, <1>3 DEF WritesFit
  <2>. QED  BY <2>5, <2>6, <2>7 DEF AnswersFit
<1>9. ASSUME NEW c \in Calls, NEW a \in Actions, SaveOne(c, a) \/ SaveFails(c, a)
      PROVE  AnswersFit'
  <2>1. /\ \A d \in Calls \ {c} : run'[d] = run[d]
        /\ run'[c].batch = run[c].batch
    BY <1>1, <1>9 DEF SaveOne, SaveFails, TypeOK, RunCalls
  <2>. QED  BY <1>5, <1>9, <2>1 DEF SaveOne, SaveFails
<1>10. ASSUME NEW p \in Procs,
              \/ \E key \in FnKeys : SetFunction(p, key)
              \/ StartUp(p) \/ CronFires(p) \/ Restart(p)
              \/ \E r \in Reads : FindReads(p, r) \/ FindReturns(p, r) \/ FindFails(p, r)
       PROVE  AnswersFit'
  BY <1>5, <1>10 DEF SetFunction, StartUp, CronFires, Restart, FindReads, FindReturns, FindFails
<1>11. ASSUME NEW p \in Procs, NEW h \in Handles,
              Fire(p, h) \/ FnReturns(p, h) \/ DeleteAction(p, h) \/ CallbackEnds(p, h)
       PROVE  AnswersFit'
  BY <1>5, <1>11 DEF Fire, FnReturns, DeleteAction, CallbackEnds
<1>12. ASSUME NEW p \in Procs, NEW h \in Handles, Rejects(p, h) PROVE AnswersFit'
  <2>1. CASE Down(p)
    BY <1>6, <2>1
  <2>2. CASE ~Down(p)
    BY <1>5, <1>12, <2>2 DEF Rejects
  <2>. QED  BY <2>1, <2>2
<1>13. ASSUME NEW c \in Calls,
              \/ \E p \in Procs, I \in SUBSET Ids : ClearTimers(c, p, I)
              \/ \E i \in Ids : DeleteOne(c, i)
              \/ DeleteFails(c) \/ ClearReturns(c)
       PROVE  AnswersFit'
  BY <1>5, <1>13 DEF ClearTimers, DeleteOne, DeleteFails, ClearReturns
<1>14. CASE Tick
  BY <1>5, <1>14 DEF Tick
<1>. HIDE DEF procVars, callVars, history
<1>. QED
  BY <1>1, <1>6, <1>7, <1>8, <1>9, <1>10, <1>11, <1>12, <1>13, <1>14 DEF Next, Crash

\* Every step keeps who asked, who answered and what the transaction writes.
LEMMA AnswersStep == ASSUME IInv2, AnswersFit, [Next2]_allVars PROVE AnswersFit'
<1>. USE DEF procVars, callVars, history, vars
<1>1. /\ TypeOK /\ RunsFit /\ PhaseFits /\ tx \in Transactions /\ overlooked \subseteq tx.mine
      /\ \A a \in Actions : ackBy[a] # None => ackBy[a] \in started
  BY DEF IInv2, Fits, Typed2, AnswersFit, AcksFit, WritesFit
<1>2. /\ \A c \in tx.runs : run[c].failed => tx.broken
      /\ \A i \in Ids : tx.view[i] \in Actions => tx.view[i] \in tx.mine
      /\ ~InProgress => \A i \in Ids : tx.view[i] = Same
  BY DEF AnswersFit, WritesFit
<1>3. tx.runs \subseteq Calls
  BY <1>1 DEF Transactions
<1>4. CASE UNCHANGED allVars
  <2>1. UNCHANGED <<submitted, ackBy, started, run, tx, overlooked>>
    BY <1>4 DEF allVars
  <2>. QED  BY <1>1, <1>2, <2>1, AnswersFrame DEF InProgress
\* The transaction begins, runs again or is over.
<1>5. ASSUME NEW p \in Procs, Begin(p) PROVE AnswersFit'
  <2>1. /\ tx.phase = "idle" /\ tx' = [tx EXCEPT !.phase = "body", !.proc = p, !.attempt = 1]
        /\ UNCHANGED <<submitted, ackBy, started, run, overlooked>>
    BY <1>5 DEF Begin
  <2>2. /\ tx'.mine = {} /\ tx.mine = {} /\ tx'.runs = tx.runs /\ tx'.view = tx.view
        /\ tx'.broken = tx.broken /\ tx'.phase = "body"
    BY <1>1, <2>1 DEF PhaseFits, Transactions
  <2>. QED
    BY <2>1, <2>2 DEF AnswersFit, BatchesFit, AcksFit, WritesFit, InProgress
<1>6. CASE EndOfBody
  <2>1. /\ tx' = [tx EXCEPT !.phase = "ending"]
        /\ UNCHANGED <<submitted, ackBy, started, run, overlooked>>
    BY <1>6 DEF EndOfBody
  <2>2. /\ tx'.mine = tx.mine /\ tx'.proc = tx.proc /\ tx'.runs = tx.runs
        /\ tx'.view = tx.view /\ tx'.broken = tx.broken /\ tx'.phase = "ending"
    BY <1>1, <2>1 DEF Transactions
  <2>. QED  BY <1>1, <1>2, <2>1, <2>2, AnswersFrame DEF InProgress
<1>7. CASE RetryTransaction
  <2>1. /\ tx.runs = {}
        /\ tx' = [tx EXCEPT !.phase = "body", !.attempt = @ + 1, !.view = Nothing,
                            !.cleared = {}, !.broken = FALSE]
        /\ UNCHANGED <<submitted, ackBy, started, run, overlooked>>
    BY <1>1, <1>7 DEF RetryTransaction, PhaseFits
  <2>2. /\ tx'.mine = tx.mine /\ tx'.proc = tx.proc /\ tx'.runs = tx.runs
        /\ tx'.view = Nothing
    BY <1>1, <2>1 DEF Transactions
  <2>3. \A i \in Ids : tx'.view[i] = Same /\ Same \notin Actions
    BY <2>2, TransactionAssumption DEF Nothing
  <2>. QED  BY <1>1, <1>2, <2>1, <2>2, <2>3, AnswersFrame
<1>8. ASSUME InProgress, NEW outcome \in {"committed", "aborted"}, Over(outcome),
             submitted' = submitted,
             \A a \in Actions : /\ ackBy'[a] \in {None, ackBy[a]}
                                /\ ackBy'[a] # None => ackBy'[a] \in started',
             \A c \in Calls : /\ run'[c].batch \in {run[c].batch, {}}
                              /\ c \notin tx.runs \/ run'[c].batch = {}
      PROVE  AnswersFit'
  <2>1. /\ tx'.mine = tx.mine /\ tx'.proc = tx.proc /\ tx'.runs = {} /\ tx'.view = Nothing
    BY <1>8, OverShape
  <2>2. \A i \in Ids : tx'.view[i] = Same /\ Same \notin Actions
    BY <2>1, TransactionAssumption DEF Nothing
  <2>3. overlooked' \subseteq tx.mine
    BY <1>1, <1>8 DEF Over
  <2>. QED  BY <1>8, <2>1, <2>2, <2>3, AnswersFrame
<1>9. CASE CommitTransaction \/ AbortTransaction
  <2>1. /\ UNCHANGED <<submitted, ackBy, started, run>> /\ InProgress /\ tx.runs = {}
        /\ Over("committed") \/ Over("aborted")
    BY <1>1, <1>9 DEF CommitTransaction, AbortTransaction, PhaseFits, InProgress
  <2>. QED  BY <1>1, <1>8, <2>1
<1>10. CASE CrashInside
  <2>1. InProgress /\ Over("aborted") /\ Down(tx.proc) /\ tx.proc \in Procs
    BY <1>1, <1>10 DEF CrashInside, InProgress, PhaseFits, Transactions
  <2>2. \A c \in Calls : run'[c] = IF run[c].proc = tx.proc THEN NoRun ELSE run[c]
    BY <2>1, AnswersDown
  <2>3. \A c \in Calls : /\ run'[c].batch \in {run[c].batch, {}}
                         /\ c \notin tx.runs \/ run'[c].batch = {}
    BY <1>1, <2>2 DEF RunsFit, NoRun
  <2>. QED  BY <1>8, <2>1, <2>3, AnswersDown
\* Its calls.
<1>11. ASSUME NEW c \in Calls, NEW B \in SUBSET Actions, JoinRun(c, B) PROVE AnswersFit'
  <2>1. /\ tx' = [tx EXCEPT !.runs = @ \union {c}, !.mine = @ \union B]
        /\ submitted' = submitted \union B /\ UNCHANGED <<ackBy, started, overlooked>>
        /\ B \intersect (submitted \ tx.mine) = {} /\ tx.phase = "body"
    BY <1>11 DEF JoinRun
  <2>2. /\ tx'.runs = tx.runs \union {c} /\ tx'.mine = tx.mine \union B
        /\ tx'.proc = tx.proc /\ tx'.view = tx.view /\ tx'.broken = tx.broken
        /\ tx'.phase = "body"
    BY <1>1, <2>1 DEF Transactions
  <2>3. \A d \in Calls : run'[d] = IF d = c THEN [proc |-> tx.proc, batch |-> B, todo |-> B,
                                                  failed |-> FALSE]
                                   ELSE run[d]
    BY <1>1, <1>11 DEF JoinRun, TypeOK
  <2>4. \A d \in Calls \ tx.runs : run[d].batch \intersect B = {}
    BY <2>1 DEF AnswersFit, BatchesFit
  <2>5. BatchesFit'
    <3>1. /\ tx'.mine \subseteq submitted'
          /\ \A d \in Calls : run'[d].batch \subseteq submitted'
      BY <2>1, <2>2, <2>3 DEF AnswersFit, BatchesFit
    <3>2. \A d \in Calls \ tx'.runs :
             d \in Calls \ tx.runs /\ run'[d] = run[d] /\ run[d].batch \intersect tx'.mine = {}
      BY <2>2, <2>3, <2>4 DEF AnswersFit, BatchesFit
    <3>. QED  BY <3>1, <3>2 DEF AnswersFit, BatchesFit
  <2>6. AcksFit'
    BY <1>1, <2>1, <2>2, <2>3 DEF AnswersFit, AcksFit
  <2>7. WritesFit'
    BY <1>1, <1>2, <1>3, <2>1, <2>2, <2>3 DEF WritesFit, InProgress
  <2>. QED  BY <2>5, <2>6, <2>7 DEF AnswersFit
<1>12. ASSUME NEW c \in Calls, NEW a \in Actions, StageOne(c, a) PROVE AnswersFit'
  <2>1. /\ c \in tx.runs /\ a \in run[c].todo /\ IdOf[a] \in Ids
        /\ UNCHANGED <<submitted, ackBy, started, overlooked>>
    BY <1>12, ConstantsAssumption DEF StageOne
  <2>2. a \in tx.mine /\ InProgress
    BY <1>1, <2>1 DEF RunsFit, PhaseFits, InProgress
  <2>3. PICK free \in BOOLEAN :
           /\ run' = [run EXCEPT ![c].todo = @ \ {a}, ![c].failed = @ \/ ~free]
           /\ tx' = IF free THEN [tx EXCEPT !.view[IdOf[a]] = a] ELSE [tx EXCEPT !.broken = TRUE]
    BY <1>12 DEF StageOne
  <2>4. /\ \A d \in Calls \ {c} : run'[d] = run[d]
        /\ run'[c].batch = run[c].batch /\ run'[c].failed = (run[c].failed \/ ~free)
    BY <1>1, <2>3 DEF TypeOK, RunCalls
  <2>5. /\ tx'.mine = tx.mine /\ tx'.proc = tx.proc /\ tx'.runs = tx.runs
        /\ tx'.phase = tx.phase /\ tx'.broken = (tx.broken \/ ~free)
        /\ \A i \in Ids : tx'.view[i] = tx.view[i] \/ tx'.view[i] = a
    BY <1>1, <2>1, <2>3 DEF Transactions
  <2>6. \A d \in tx'.runs : run'[d].failed => tx'.broken
    BY <1>2, <1>3, <2>4, <2>5
  <2>. QED  BY <1>1, <1>2, <2>1, <2>2, <2>4, <2>5, <2>6, AnswersFrame DEF InProgress
<1>13. ASSUME NEW c \in Calls, JoinedRunReturns(c) PROVE AnswersFit'
  <2>1. /\ c \in tx.runs /\ tx' = [tx EXCEPT !.runs = @ \ {c}] /\ UNCHANGED <<submitted, started>>
        /\ overlooked' \subseteq overlooked /\ run[c].proc = tx.proc /\ tx.proc # None
        /\ run[c].batch \subseteq tx.mine
    BY <1>1, <1>13 DEF JoinedRunReturns, RunReturns, RunsFit
  <2>2. /\ tx'.mine = tx.mine /\ tx'.proc = tx.proc /\ tx'.runs = tx.runs \ {c}
        /\ tx'.phase = tx.phase /\ tx'.broken = tx.broken /\ tx'.view = tx.view
    BY <1>1, <2>1 DEF Transactions
  <2>3. \A d \in Calls : run'[d] = IF d = c THEN NoRun ELSE run[d]
    BY <1>1, <1>13 DEF JoinedRunReturns, RunReturns, TypeOK
  <2>4. \/ UNCHANGED ackBy
        \/ /\ tx.proc \in started
           /\ ackBy' = [a \in Actions |-> IF a \in run[c].batch THEN tx.proc ELSE ackBy[a]]
    BY <1>13, <2>1 DEF JoinedRunReturns, RunReturns
  <2>5. BatchesFit'
    BY <2>1, <2>2, <2>3 DEF AnswersFit, BatchesFit, NoRun
  <2>6. WritesFit'
    BY <1>1, <1>2, <1>3, <2>1, <2>2, <2>3 DEF WritesFit, InProgress, NoRun
  <2>7. AcksFit'
    <3>1. CASE UNCHANGED ackBy
      BY <2>1, <2>2, <2>3, <3>1 DEF AnswersFit, AcksFit, NoRun
    <3>2. CASE ~UNCHANGED ackBy
      <4>1. /\ tx.proc \in started
            /\ \A a \in Actions :
                  ackBy'[a] = IF a \in run[c].batch THEN tx.proc ELSE ackBy[a]
        BY <2>4, <3>2
      <4>2. ASSUME NEW d \in Calls \ tx'.runs, NEW a \in Actions, a \in run'[d].batch
            PROVE  ackBy'[a] = None
        <5>1. d # c /\ run'[d] = run[d] /\ d \notin tx.runs
          BY <2>2, <2>3, <4>2 DEF NoRun
        <5>2. a \notin run[c].batch
          BY <2>1, <4>2, <5>1 DEF AnswersFit, BatchesFit
        <5>. QED  BY <4>1, <4>2, <5>1, <5>2 DEF AnswersFit, AcksFit
      <4>3. ASSUME NEW a \in Actions, ackBy'[a] # None
            PROVE  a \in submitted /\ ackBy'[a] \in started /\ (a \in tx.mine => ackBy'[a] = tx.proc)
        BY <2>1, <4>1, <4>3 DEF AnswersFit, AcksFit, BatchesFit
      <4>. QED  BY <2>1, <2>2, <4>2, <4>3 DEF AcksFit
    <3>. QED  BY <3>1, <3>2
  <2>. QED  BY <2>5, <2>6, <2>7 DEF AnswersFit
<1>14. ASSUME NEW c \in Calls, JoinedFails(c) PROVE AnswersFit'
  <2>1. /\ tx' = [tx EXCEPT !.broken = TRUE] /\ UNCHANGED <<submitted, ackBy, started, overlooked>>
    BY <1>14 DEF JoinedFails
  <2>2. /\ tx'.mine = tx.mine /\ tx'.proc = tx.proc /\ tx'.runs = tx.runs
        /\ tx'.phase = tx.phase /\ tx'.broken /\ tx'.view = tx.view
    BY <1>1, <2>1 DEF Transactions
  <2>3. \A d \in Calls : run'[d].batch = run[d].batch
    <3>1. CASE UNCHANGED run
      BY <3>1
    <3>2. CASE run' = [run EXCEPT ![c].todo = {}, ![c].failed = TRUE]
      BY <1>1, <3>2 DEF TypeOK, RunCalls
    <3>. QED  BY <1>14, <3>1, <3>2 DEF JoinedFails
  <2>. QED  BY <1>1, <1>2, <2>1, <2>2, <2>3, AnswersFrame DEF InProgress
\* The rest leaves calls of runTimers alone.
<1>15. ASSUME UNCHANGED <<submitted, ackBy, started, run, overlooked>>,
              tx'.mine = tx.mine, tx'.proc = tx.proc, tx'.runs = tx.runs, tx'.phase = tx.phase,
              tx'.broken = tx.broken,
              InProgress \/ tx'.view = tx.view,
              \A i \in Ids : tx'.view[i] \in {None, tx.view[i]}
       PROVE  AnswersFit'
  BY <1>1, <1>2, <1>15, AnswersFrame, ConstantsAssumption DEF InProgress
<1>16. ASSUME NEW c \in Calls, NEW I \in SUBSET Ids, JoinClear(c, I) PROVE AnswersFit'
  <2>1. /\ tx' = [tx EXCEPT !.clears = @ \union {c}, !.cleared = @ \union I, !.tried = @ \union I]
        /\ UNCHANGED <<submitted, ackBy, started, run, overlooked>>
    BY <1>16 DEF JoinClear
  <2>. QED  BY <1>1, <1>15, <2>1 DEF Transactions
<1>17. ASSUME NEW c \in Calls, JoinedClearReturns(c) PROVE AnswersFit'
  <2>1. /\ tx' = [tx EXCEPT !.clears = @ \ {c}]
        /\ UNCHANGED <<submitted, ackBy, started, run, overlooked>>
    BY <1>17 DEF JoinedClearReturns, ClearReturns
  <2>. QED  BY <1>1, <1>15, <2>1 DEF Transactions
<1>18. ASSUME NEW c \in Calls, NEW i \in Ids, DropOne(c, i) PROVE AnswersFit'
  <2>1. /\ tx' = Delete(i) /\ UNCHANGED <<submitted, ackBy, started, run, overlooked>>
        /\ tx.phase = "body"
    BY <1>1, <1>18 DEF DropOne, PhaseFits
  <2>. QED  BY <1>1, <1>15, <2>1, DeleteShape DEF InProgress
<1>19. ASSUME NEW p \in Procs, NEW h \in Handles, JoinedDeleteAction(p, h) PROVE AnswersFit'
  <2>1. /\ tx' = Delete(IdOf[h[1]]) /\ UNCHANGED <<submitted, ackBy, started, run, overlooked>>
        /\ InProgress /\ IdOf[h[1]] \in Ids
    BY <1>19, ConstantsAssumption DEF JoinedDeleteAction, Handles
  <2>. QED  BY <1>1, <1>15, <2>1, DeleteShape
<1>. HIDE DEF procVars, callVars, history, vars
<1>. QED
  BY <1>4, <1>5, <1>6, <1>7, <1>9, <1>10, <1>11, <1>12, <1>13, <1>14, <1>16, <1>17, <1>18, <1>19,
     AnswersOutside DEF Next2

\* Every variable has its type, and overlooked actions are the transaction's.
THEOREM TypeCorrect2 == Spec2 => []TypeOK2
<1>1. Init2 => AnswersFit
  BY ConstantsAssumption, TransactionAssumption
     DEF Init2, AnswersFit, BatchesFit, AcksFit, WritesFit, NoRun, Nothing
<1>2. IInv2 /\ AnswersFit => TypeOK2
  BY DEF IInv2, Typed2, Transactions, AnswersFit, WritesFit, TypeOK2
<1>. QED  BY <1>1, <1>2, InitFits, FitsStep, AnswersStep, PTL DEF Spec2

\* Actions that the commit would store as things stand: written, and answered.
Staged == {a \in Actions : /\ ~tx.broken /\ tx.view[IdOf[a]] = a
                           /\ \A c \in tx.runs : a \notin run[c].batch}

\* What CommittedIsInHand asks of an action, stored or about to be.
Answered(p, a) ==
    /\ ackBy[a] = p /\ p \notin cronDue /\ p \notin missed
    /\ ExecTimeOf[a] <= NextDate(now)
    /\ IdOf[a] \notin Tried
    /\ a \notin ran \union dropped \union overlooked

\* A find delivers what is stored; what is only written has a timeout already.
Attended(p, a) ==
    /\ a \in Stored => InHand(p, a)
    /\ a \in Staged => timeoutMap[p][IdOf[a]] # None

CommitInv == \A p \in Procs, a \in Actions : Answered(p, a) => Attended(p, a)

\* The part about stored actions is the property.
LEMMA CommitMeaning == CommitInv => CommittedIsInHand
<1>. SUFFICES ASSUME CommitInv, NEW p \in Procs, NEW a \in Stored, Answered(p, a)
              PROVE  InHand(p, a)
  BY DEF Answered, InHand, Coming, CommittedIsInHand, Tried
<1>. QED  BY DEF CommitInv, Attended, Stored

\* What is written and answered is the transaction's, and so is who answered.
LEMMA StagedFits ==
    ASSUME AnswersFit, NEW a \in Staged, ackBy[a] # None
    PROVE  a \in tx.mine /\ InProgress /\ ackBy[a] = tx.proc
<1>1. a \in Actions /\ IdOf[a] \in Ids /\ tx.view[IdOf[a]] = a
  BY ConstantsAssumption DEF Staged
<1>. QED  BY <1>1, TransactionAssumption DEF AnswersFit, WritesFit, AcksFit

\* Steps at the same time after which who answered for what is as it was, or is
\* forgotten.
LEMMA AnsweredBefore ==
    ASSUME now' = now, \A a \in Actions : ackBy'[a] \in {None, ackBy[a]},
           cronDue \subseteq cronDue', missed \subseteq missed', Tried \subseteq Tried',
           ran \subseteq ran', dropped \subseteq dropped', overlooked \subseteq overlooked',
           NEW p \in Procs, NEW a \in Actions, Answered(p, a)'
    PROVE  Answered(p, a)
  BY ConstantsAssumption DEF Answered, NextDate

\* Steps that disturb neither timeouts nor finds.
LEMMA CommitQuiet ==
    ASSUME CommitInv, UNCHANGED <<now, ackBy, cronDue, missed, timeoutMap, reading>>,
           Tried \subseteq Tried', ran \subseteq ran', dropped \subseteq dropped',
           overlooked \subseteq overlooked', Stored' \subseteq Stored, Staged' \subseteq Staged
    PROVE  CommitInv'
<1>. SUFFICES ASSUME NEW p \in Procs, NEW a \in Actions, Answered(p, a)'
              PROVE  Attended(p, a)'
  BY DEF CommitInv
<1>1. Answered(p, a)
  BY AnsweredBefore
<1>. QED  BY <1>1 DEF CommitInv, Attended, InHand, Coming

\* A process that ends answers for nothing any more.
LEMMA CommitDown ==
    ASSUME IInv2, AnswersFit, CommitInv, NEW p \in Procs, Down(p), Tried \subseteq Tried',
           overlooked \subseteq overlooked', Staged' \subseteq Staged
    PROVE  CommitInv'
<1>1. /\ UNCHANGED <<now, doc, ran, dropped>> /\ Stored' = Stored
      /\ cronDue' = cronDue \ {p} /\ missed' = missed \ {p}
      /\ \A a \in Actions : ackBy'[a] \in {None, ackBy[a]} /\ ackBy'[a] # p
  BY AnswersDown DEF Down, Stored
<1>2. \A q \in Procs : q # p => timeoutMap'[q] = timeoutMap[q] /\ reading'[q] = reading[q]
  BY DEF Down, IInv2, Typed2, TypeOK
<1>. SUFFICES ASSUME NEW q \in Procs, NEW a \in Actions, Answered(q, a)'
              PROVE  Attended(q, a)'
  BY DEF CommitInv
<1>3. q # p /\ Answered(q, a)
  BY <1>1, ConstantsAssumption DEF Answered, NextDate
<1>. QED  BY <1>1, <1>2, <1>3 DEF CommitInv, Attended, InHand, Coming

\* A find is sent, outside of the transaction: what it cannot see is overlooked.
LEMMA CommitSendFind ==
    ASSUME IInv2, AnswersFit, CommitInv, ReadsInv, Around, Tried \subseteq Tried',
           NEW p \in Procs, NEW r \in Reads, SendFind(p, r),
           UNCHANGED <<now, doc, ackBy, timeoutMap, ran, dropped>>,
           \A q \in Procs : q # p => (q \in cronDue => q \in cronDue')
                                     /\ (q \in missed => q \in missed')
    PROVE  CommitInv'
<1>1. TypeOK /\ Stored' = Stored /\ Staged' = Staged
  BY DEF IInv2, Typed2, Around, Stored, Staged
<1>2. \A q \in Procs, s \in Reads :
         /\ FindSent(q, s) => q = p
         /\ FindSent(p, r)
  BY <1>1, SendFindStep DEF FindSent
<1>3. /\ \A q \in Procs, a \in Actions : InHand(q, a) => InHand(q, a)'
      /\ \A a \in Actions : ExecTimeOf[a] <= NextDate(now) => InHand(p, a)'
  BY <1>1, HandSendFind
<1>4. overlooked' = IF p = tx.proc THEN {a \in tx.mine : InProgress /\ ackBy[a] = tx.proc}
                    ELSE overlooked
  <2>1. (\E q \in Procs \intersect {tx.proc}, s \in Reads : FindSent(q, s)) <=> p = tx.proc
    BY <1>2
  <2>. QED  BY <2>1 DEF Around
<1>. SUFFICES ASSUME NEW q \in Procs, NEW a \in Actions, Answered(q, a)'
              PROVE  Attended(q, a)'
  BY DEF CommitInv
<1>5. ackBy[a] = q /\ q # None /\ ExecTimeOf[a] <= NextDate(now)
  BY ConstantsAssumption DEF Answered, NextDate
<1>6. CASE q = p
  <2>1. InHand(p, a)'
    BY <1>3, <1>5
  <2>2. a \notin Staged
    <3>. SUFFICES ASSUME a \in Staged PROVE FALSE
      OBVIOUS
    <3>1. a \in tx.mine /\ InProgress /\ ackBy[a] = tx.proc
      BY <1>5, StagedFits
    <3>. QED  BY <1>4, <1>5, <1>6, <3>1 DEF Answered
  <2>. QED  BY <1>1, <1>6, <2>1, <2>2 DEF Attended
<1>7. CASE q # p
  <2>1. a \notin overlooked
    <3>1. a \in overlooked => ackBy[a] = tx.proc
      BY <1>5 DEF AnswersFit, WritesFit, AcksFit
    <3>. QED  BY <1>4, <1>5, <1>7, <3>1 DEF Answered
  <2>2. Answered(q, a)
    BY <1>5, <1>7, <2>1 DEF Answered
  <2>. QED  BY <1>1, <1>3, <2>2 DEF CommitInv, Attended
<1>. QED  BY <1>6, <1>7

\* What arming a list does to what is attended to.
LEMMA CommitArm ==
    ASSUME FreshIds, TypeOK, NEW p \in Procs, NEW S \in SUBSET Actions, Arm(p, S),
           UNCHANGED reading, Stored' = Stored,
           NEW q \in Procs, NEW a \in Actions
    PROVE  /\ Attended(q, a) /\ (a \in Staged' => a \in Staged) => Attended(q, a)'
           /\ q = p /\ a \in S => Attended(q, a)'
<1>1. IdOf[a] \in Ids
  BY ConstantsAssumption
<1>2. timeoutMap[q][IdOf[a]] # None => timeoutMap'[q][IdOf[a]] # None
  BY <1>1, HandArm
<1>3. q = p /\ a \in S => timeoutMap'[q][IdOf[a]] # None
  BY HandArm
<1>4. \A r \in Reads : Coming(q, r, a) => Coming(q, r, a)'
  BY DEF Coming
<1>. QED  BY <1>2, <1>3, <1>4 DEF Attended, InHand

\* clearTimers answers: the entries it takes are of ids somebody tried to clear.
LEMMA CommitClear ==
    ASSUME IInv2, CommitInv, NEW c \in Calls, ClearReturns(c), clear[c].ids \subseteq Tried,
           UNCHANGED <<now, ackBy, cronDue, missed, reading, ran, dropped>>,
           Tried \subseteq Tried', overlooked' = overlooked, Stored' = Stored,
           Staged' \subseteq Staged
    PROVE  CommitInv'
<1>. SUFFICES ASSUME NEW q \in Procs, NEW a \in Actions, Answered(q, a)'
              PROVE  Attended(q, a)'
  BY DEF CommitInv
<1>1. Answered(q, a)
  BY AnsweredBefore
<1>2. IdOf[a] \in Ids /\ IdOf[a] \notin clear[c].ids
  BY <1>1, ConstantsAssumption DEF Answered
<1>3. timeoutMap'[q][IdOf[a]] = timeoutMap[q][IdOf[a]]
  BY <1>2, ClearStep DEF IInv2, Typed2
<1>. QED  BY <1>1, <1>3 DEF CommitInv, Attended, InHand, Coming

\* Steps of the service around the transaction.
LEMMA CommitOutside ==
    ASSUME FreshIds, IInv2, AnswersFit, ReadsInv, ClockInv, CommitInv, Outside
    PROVE  CommitInv'
<1>. USE DEF procVars, callVars, history
<1>1. /\ TypeOK /\ RunsFit /\ ClearsFit /\ TimersFit /\ Next /\ Around /\ UNCHANGED tx
      /\ \A c \in tx.runs : run'[c] = run[c]
      /\ \A c \in tx.clears : clear'[c] = clear[c]
  BY DEF IInv2, Fits, Typed2, Outside, Around
<1>2. Tried \subseteq Tried'
  BY TriedGrows DEF Next2
<1>3. Staged' = Staged
  BY <1>1 DEF Staged
<1>4. ASSUME \A q \in Procs, s \in Reads : reading'[q][s].phase = "sent" => UNCHANGED reading[q][s]
      PROVE  overlooked' = overlooked
  <2>1. \A q \in Procs, s \in Reads : ~FindSent(q, s)
    BY <1>4 DEF FindSent
  <2>. QED  BY <1>1, <2>1 DEF Around
<1>5. ASSUME UNCHANGED <<now, ackBy, cronDue, missed, timeoutMap, reading>>,
             ran \subseteq ran', dropped \subseteq dropped', Stored' \subseteq Stored
      PROVE  CommitInv'
  BY <1>2, <1>3, <1>4, <1>5, CommitQuiet
<1>6. ASSUME NEW p \in Procs, Down(p) PROVE CommitInv'
  <2>1. \A q \in Procs, s \in Reads : reading'[q][s] \in {reading[q][s], NoRead}
    BY <1>1, <1>6 DEF Down, TypeOK
  <2>2. overlooked' = overlooked
    BY <1>4, <2>1 DEF NoRead
  <2>. QED  BY <1>2, <1>3, <1>6, <2>2, CommitDown
<1>7. ASSUME NEW p \in Procs, StartUp(p) PROVE CommitInv'
  <2>1. CASE \E r \in Reads : SendFind(p, r)
    BY <1>1, <1>2, <1>7, <2>1, CommitSendFind DEF StartUp
  <2>2. CASE UNCHANGED reading
    BY <1>5, <1>7, <2>2 DEF StartUp, Stored
  <2>. QED  BY <1>7, <2>1, <2>2 DEF StartUp
<1>8. ASSUME NEW p \in Procs, CronFires(p) PROVE CommitInv'
  <2>1. /\ UNCHANGED <<now, doc, ackBy, timeoutMap, ran, dropped>>
        /\ cronDue' = cronDue \ {p}
        /\ missed' = missed \ {p} \/ (p \notin started /\ missed' = missed)
    BY <1>8 DEF CronFires
  <2>2. CASE \E r \in Reads : SendFind(p, r)
    BY <1>1, <1>2, <2>1, <2>2, CommitSendFind
  <2>3. CASE p \notin started /\ UNCHANGED <<reading, missed>>
    <3>. SUFFICES ASSUME NEW q \in Procs, NEW a \in Actions, Answered(q, a)'
                  PROVE  Attended(q, a)'
      BY DEF CommitInv
    <3>1. overlooked' = overlooked
      BY <1>4, <2>3
    <3>2. q # p
      BY <2>1, <2>3, ConstantsAssumption DEF Answered, AnswersFit, AcksFit
    <3>3. Answered(q, a)
      BY <1>2, <2>1, <2>3, <3>1, <3>2 DEF Answered, NextDate
    <3>. QED  BY <1>3, <2>1, <2>3, <3>3 DEF CommitInv, Attended, InHand, Coming, Stored
  <2>. QED  BY <1>8, <2>2, <2>3 DEF CronFires
<1>9. ASSUME NEW p \in Procs, NEW r \in Reads, FindReads(p, r) PROVE CommitInv'
  <2>1. /\ reading[p][r].phase = "sent" /\ Stored' = Stored
        /\ UNCHANGED <<now, doc, ackBy, cronDue, missed, timeoutMap, ran, dropped>>
    BY <1>9 DEF FindReads, Stored
  <2>2. PICK found : found = {a \in Stored : ExecTimeOf[a] <= reading[p][r].upTo}
    OBVIOUS
  <2>3. reading' = [reading EXCEPT ![p][r] = [phase |-> "read", upTo |-> 0, found |-> found]]
    BY <1>9, <2>2 DEF FindReads
  <2>4. \A q \in Procs, s \in Reads :
           reading'[q][s] = IF q = p /\ s = r
               THEN [phase |-> "read", upTo |-> 0, found |-> found] ELSE reading[q][s]
    BY <1>1, <2>3 DEF TypeOK
  <2>5. reading[p][r].found = {}
    BY <2>1 DEF ReadsInv
  <2>6. ASSUME NEW q \in Procs, NEW s \in Reads, NEW a \in Stored, Coming(q, s, a)
        PROVE  Coming(q, s, a)'
    <3>1. CASE q = p /\ s = r
      <4>1. a \in found
        BY <2>2, <2>5, <2>6, <3>1 DEF Coming
      <4>. QED  BY <2>4, <3>1, <4>1 DEF Coming
    <3>2. CASE ~(q = p /\ s = r)
      BY <2>4, <2>6, <3>2 DEF Coming
    <3>. QED  BY <3>1, <3>2
  <2>7. overlooked' = overlooked
    BY <1>4, <2>4
  <2>. SUFFICES ASSUME NEW q \in Procs, NEW a \in Actions, Answered(q, a)'
                PROVE  Attended(q, a)'
    BY DEF CommitInv
  <2>8. Answered(q, a)
    BY <1>2, <2>1, <2>7, AnsweredBefore
  <2>. QED  BY <1>3, <2>1, <2>6, <2>8 DEF CommitInv, Attended, InHand
<1>10. ASSUME NEW p \in Procs, NEW r \in Reads, FindReturns(p, r) PROVE CommitInv'
  <2>1. /\ reading[p][r].phase = "read" /\ Stored' = Stored
        /\ Arm(p, reading[p][r].found)
        /\ reading' = [reading EXCEPT ![p][r] = NoRead]
        /\ UNCHANGED <<now, doc, ackBy, cronDue, missed, ran, dropped>>
    BY <1>10 DEF FindReturns, Stored
  <2>2. reading[p][r].found \in SUBSET Actions
    BY <1>1 DEF TypeOK, Finds
  <2>3. \A q \in Procs, s \in Reads :
           reading'[q][s] = IF q = p /\ s = r THEN NoRead ELSE reading[q][s]
    BY <1>1, <2>1 DEF TypeOK
  <2>4. /\ \A a \in reading[p][r].found : timeoutMap'[p][IdOf[a]] # None
        /\ \A q \in Procs, a \in Actions :
              timeoutMap[q][IdOf[a]] # None => timeoutMap'[q][IdOf[a]] # None
    BY <1>1, <2>1, <2>2, HandArm, ConstantsAssumption
  <2>5. overlooked' = overlooked
    BY <1>4, <2>3 DEF NoRead
  <2>. SUFFICES ASSUME NEW q \in Procs, NEW a \in Actions, Answered(q, a)'
                PROVE  Attended(q, a)'
    BY DEF CommitInv
  <2>6. Answered(q, a)
    BY <1>2, <2>1, <2>5, AnsweredBefore
  <2>7. InHand(q, a) => InHand(q, a)'
    BY <2>1, <2>3, <2>4 DEF InHand, Coming
  <2>. QED  BY <1>3, <2>1, <2>4, <2>6, <2>7 DEF CommitInv, Attended
<1>11. ASSUME NEW p \in Procs, NEW r \in Reads, FindFails(p, r) PROVE CommitInv'
  <2>1. /\ reading' = [reading EXCEPT ![p][r] = NoRead] /\ Stored' = Stored
        /\ missed' = missed \union {p}
        /\ UNCHANGED <<now, doc, ackBy, cronDue, timeoutMap, ran, dropped>>
    BY <1>11 DEF FindFails, Stored
  <2>2. \A q \in Procs, s \in Reads :
           reading'[q][s] = IF q = p /\ s = r THEN NoRead ELSE reading[q][s]
    BY <1>1, <2>1 DEF TypeOK
  <2>3. overlooked' = overlooked
    BY <1>4, <2>2 DEF NoRead
  <2>. SUFFICES ASSUME NEW q \in Procs, NEW a \in Actions, Answered(q, a)'
                PROVE  Attended(q, a)'
    BY DEF CommitInv
  <2>4. Answered(q, a)
    BY <1>2, <2>1, <2>3, AnsweredBefore
  <2>5. q # p
    BY <2>1 DEF Answered
  <2>. QED  BY <1>3, <2>1, <2>2, <2>4, <2>5 DEF CommitInv, Attended, InHand, Coming
<1>12. ASSUME NEW c \in Calls, NEW a \in Actions, SaveOne(c, a) PROVE CommitInv'
  <2>1. UNCHANGED <<now, ackBy, cronDue, missed, timeoutMap, reading, ran, dropped>>
    BY <1>12 DEF SaveOne
  <2>2. a \in run[c].batch /\ c \notin tx.runs
    <3>1. a \in run[c].todo /\ a \notin run'[c].todo
      BY <1>1, <1>12 DEF SaveOne, TypeOK, RunCalls
    <3>. QED  BY <1>1, <3>1 DEF RunsFit
  <2>3. ackBy[a] = None
    BY <2>2 DEF AnswersFit, AcksFit
  <2>4. Stored' \subseteq Stored \union {a}
    <3>1. CASE UNCHANGED doc
      BY <3>1 DEF Stored
    <3>. QED  BY <1>1, <1>12, <3>1, DocInsert DEF SaveOne
  <2>5. overlooked' = overlooked
    BY <1>4, <2>1
  <2>. SUFFICES ASSUME NEW q \in Procs, NEW b \in Actions, Answered(q, b)'
                PROVE  Attended(q, b)'
    BY DEF CommitInv
  <2>6. Answered(q, b)
    BY <1>2, <2>1, <2>5, AnsweredBefore
  <2>7. b # a
    BY <2>3, <2>6, ConstantsAssumption DEF Answered
  <2>. QED  BY <1>3, <2>1, <2>4, <2>6, <2>7 DEF CommitInv, Attended, InHand, Coming
<1>13. ASSUME NEW c \in Calls, RunReturns(c) PROVE CommitInv'
  <2>1. /\ UNCHANGED <<now, doc, cronDue, missed, reading, ran, dropped, clearAsked>>
        /\ Stored' = Stored
    BY <1>13 DEF RunReturns, Stored
  <2>2. overlooked' = overlooked
    BY <1>4, <2>1
  <2>3. CASE UNCHANGED <<timeoutMap, ackBy>>
    BY <1>5, <2>1, <2>3
  <2>4. CASE ~UNCHANGED <<timeoutMap, ackBy>>
    <3>1. PICK p \in Procs : p = run[c].proc
      BY <1>1, <1>13 DEF RunReturns, TypeOK, RunCalls
    <3>2. PICK due \in SUBSET Actions : due = {a \in run[c].batch : ExecTimeOf[a] <= NextDate(now)}
      BY <1>1 DEF TypeOK, RunCalls
    <3>3. /\ Arm(p, due)
          /\ \A a \in Actions : ackBy'[a] = IF a \in run[c].batch THEN p ELSE ackBy[a]
      BY <1>13, <2>4, <3>1, <3>2 DEF RunReturns
    <3>. SUFFICES ASSUME NEW q \in Procs, NEW a \in Actions, Answered(q, a)'
                  PROVE  Attended(q, a)'
      BY DEF CommitInv
    <3>4. CASE a \in run[c].batch
      <4>1. q = p /\ a \in due
        BY <2>1, <3>2, <3>3, <3>4 DEF Answered, NextDate
      <4>. QED  BY <1>1, <2>1, <3>3, <4>1, CommitArm
    <3>5. CASE a \notin run[c].batch
      <4>1. Answered(q, a)
        BY <1>2, <2>1, <2>2, <3>3, <3>5 DEF Answered, NextDate
      <4>. QED  BY <1>1, <1>3, <2>1, <3>3, <4>1, CommitArm DEF CommitInv
    <3>. QED  BY <3>4, <3>5
  <2>. QED  BY <2>3, <2>4
<1>14. ASSUME NEW c \in Calls, ClearReturns(c) PROVE CommitInv'
  <2>1. /\ UNCHANGED <<now, doc, ackBy, cronDue, missed, reading, ran, dropped>>
        /\ Stored' = Stored
    BY <1>14 DEF ClearReturns, Stored
  <2>2. overlooked' = overlooked
    BY <1>4, <2>1
  <2>3. clear[c].ids \subseteq Tried
    BY <1>1 DEF ClearsFit, Tried
  <2>. QED  BY <1>1, <1>2, <1>3, <1>14, <2>1, <2>2, <2>3, CommitClear
<1>15. ASSUME NEW p \in Procs, NEW h \in Handles, CallbackEnds(p, h) PROVE CommitInv'
  <2>1. h[1] \in Actions /\ h[1] \in ran \union dropped /\ IdOf[h[1]] \in Ids
    BY <1>1, <1>15, ConstantsAssumption DEF CallbackEnds, TimersFit, Handles
  <2>2. /\ UNCHANGED <<now, doc, ackBy, cronDue, missed, reading, ran, dropped>>
        /\ timeoutMap' = [timeoutMap EXCEPT ![p][IdOf[h[1]]] = None]
        /\ Stored' = Stored
    BY <1>15 DEF CallbackEnds, Stored
  <2>3. overlooked' = overlooked
    BY <1>4, <2>2
  <2>. SUFFICES ASSUME NEW q \in Procs, NEW a \in Actions, Answered(q, a)'
                PROVE  Attended(q, a)'
    BY DEF CommitInv
  <2>4. Answered(q, a)
    BY <1>2, <2>2, <2>3, AnsweredBefore
  <2>5. IdOf[a] \in Ids /\ IdOf[a] # IdOf[h[1]]
    BY <2>1, <2>4, ConstantsAssumption DEF Answered, FreshIds
  <2>6. timeoutMap'[q][IdOf[a]] = timeoutMap[q][IdOf[a]]
    BY <1>1, <2>2, <2>5 DEF TypeOK
  <2>. QED  BY <1>3, <2>2, <2>4, <2>6 DEF CommitInv, Attended, InHand, Coming
<1>16. CASE Tick
  <2>1. /\ UNCHANGED <<doc, started, ackBy, missed, timeoutMap, reading, ran, dropped>>
        /\ Stored' = Stored
    BY <1>16 DEF Tick, Stored
  <2>2. overlooked' = overlooked
    BY <1>4, <2>1
  <2>. SUFFICES ASSUME NEW q \in Procs, NEW a \in Actions, Answered(q, a)'
                PROVE  Attended(q, a)'
    BY DEF CommitInv
  <2>3. ackBy[a] = q /\ q # None
    BY <2>1, ConstantsAssumption DEF Answered
  <2>4. q \in up
    BY <1>1, <2>3 DEF AnswersFit, AcksFit, TypeOK
  <2>5. q \notin cronDue' /\ now' % Period # 0 /\ q \notin cronDue
    BY <1>16, <2>4 DEF Tick, Answered
  <2>6. NextDate(now)' <= NextDate(now)
    BY <1>1, <1>16, <2>5, TickHorizon
  <2>7. NextDate(now) \in Nat /\ NextDate(now)' \in Nat /\ ExecTimeOf[a] \in Nat
    <3>1. now \in Nat /\ now' \in Nat
      BY <1>1, <1>16, TickDue, ConstantsAssumption DEF TypeOK
    <3>. QED  BY <3>1, NextDateBounds, ConstantsAssumption DEF NextDate
  <2>8. ExecTimeOf[a] <= NextDate(now)
    BY <2>6, <2>7 DEF Answered
  <2>9. Answered(q, a)
    BY <1>2, <2>1, <2>2, <2>5, <2>8 DEF Answered
  <2>. QED  BY <1>3, <2>1, <2>9 DEF CommitInv, Attended, InHand, Coming
<1>17. ASSUME NEW p \in Procs, NEW h \in Handles,
              Fire(p, h) \/ FnReturns(p, h) \/ DeleteAction(p, h) \/ Rejects(p, h)
       PROVE  CommitInv'
  <2>1. CASE Fire(p, h) \/ FnReturns(p, h)
    BY <1>5, <2>1 DEF Fire, FnReturns, Stored
  <2>2. CASE DeleteAction(p, h)
    <3>1. IdOf[h[1]] \in Ids
      BY ConstantsAssumption DEF Handles
    <3>2. Stored' \subseteq Stored
      BY <1>1, <2>2, <3>1, DocDelete DEF DeleteAction
    <3>. QED  BY <1>5, <2>2, <3>2 DEF DeleteAction
  <2>3. CASE Rejects(p, h)
    BY <1>5, <1>6, <2>3 DEF Rejects, Stored
  <2>. QED  BY <1>17, <2>1, <2>2, <2>3
<1>18. ASSUME NEW p \in Procs, (\E key \in FnKeys : SetFunction(p, key)) \/ Restart(p)
       PROVE  CommitInv'
  BY <1>5, <1>18 DEF SetFunction, Restart, Stored
<1>19. ASSUME NEW c \in Calls,
              \/ \E p \in Procs : \/ \E B \in SUBSET Actions : RunTimers(c, p, B)
                                  \/ \E I \in SUBSET Ids : ClearTimers(c, p, I)
              \/ \E a \in Actions : SaveFails(c, a)
              \/ DeleteFails(c)
       PROVE  CommitInv'
  BY <1>5, <1>19 DEF RunTimers, ClearTimers, SaveFails, DeleteFails, Stored
<1>20. ASSUME NEW c \in Calls, NEW i \in Ids, DeleteOne(c, i) PROVE CommitInv'
  <2>1. Stored' \subseteq Stored
    BY <1>1, <1>20, DocDelete DEF DeleteOne
  <2>. QED  BY <1>5, <1>20, <2>1 DEF DeleteOne
<1>. HIDE DEF procVars, callVars, history
<1>. QED
  BY <1>1, <1>6, <1>7, <1>8, <1>9, <1>10, <1>11, <1>12, <1>13, <1>14, <1>15, <1>16, <1>17, <1>18,
     <1>19, <1>20 DEF Next, Crash

\* The body's runTimers answers: what is due by the next tick it arms.
LEMMA CommitRunReturns ==
    ASSUME FreshIds, IInv2, AnswersFit, CommitInv, NEW c \in Calls, JoinedRunReturns(c),
           Tried \subseteq Tried'
    PROVE  CommitInv'
<1>. USE DEF procVars, history
<1>1. /\ TypeOK /\ c \in tx.runs /\ tx \in Transactions /\ tx' = [tx EXCEPT !.runs = @ \ {c}]
      /\ run[c].proc = tx.proc /\ tx.proc \in Procs
      /\ UNCHANGED <<now, doc, cronDue, missed, reading, ran, dropped>> /\ Stored' = Stored
      /\ run[c].batch \subseteq tx.mine
  BY DEF JoinedRunReturns, RunReturns, IInv2, Fits, RunsFit, Typed2, Transactions, Stored
<1>2. /\ tx'.view = tx.view /\ tx'.broken = tx.broken /\ tx'.runs = tx.runs \ {c}
      /\ tx.runs \subseteq Calls
  BY <1>1 DEF Transactions
<1>3. \A d \in tx'.runs : run'[d] = run[d]
  BY <1>1, <1>2 DEF JoinedRunReturns, RunReturns, TypeOK
<1>4. \A a \in Actions \ run[c].batch : a \in Staged' => a \in Staged
  BY <1>1, <1>2, <1>3 DEF Staged
<1>. SUFFICES ASSUME NEW q \in Procs, NEW a \in Actions, Answered(q, a)'
              PROVE  Attended(q, a)'
  BY DEF CommitInv
<1>5. CASE run[c].failed
  <2>1. Staged' = {}
    BY <1>1, <1>2, <1>5 DEF AnswersFit, WritesFit, Staged
  <2>2. UNCHANGED <<timeoutMap, ackBy, overlooked>>
    BY <1>5 DEF JoinedRunReturns, RunReturns
  <2>3. Answered(q, a)
    BY <1>1, <2>2, AnsweredBefore
  <2>. QED  BY <1>1, <2>1, <2>2, <2>3 DEF CommitInv, Attended, InHand, Coming
<1>6. CASE ~run[c].failed /\ tx.proc \in started
  <2>1. PICK due \in SUBSET Actions : due = {b \in run[c].batch : ExecTimeOf[b] <= NextDate(now)}
    BY <1>1 DEF TypeOK, RunCalls
  <2>2. /\ Arm(tx.proc, due) /\ overlooked' = overlooked \ run[c].batch
        /\ \A b \in Actions : ackBy'[b] = IF b \in run[c].batch THEN tx.proc ELSE ackBy[b]
    BY <1>1, <1>6, <2>1 DEF JoinedRunReturns, RunReturns
  <2>3. CASE a \in run[c].batch
    <3>1. q = tx.proc /\ a \in due
      BY <1>1, <2>1, <2>2, <2>3 DEF Answered, NextDate
    <3>. QED  BY <1>1, <2>2, <3>1, CommitArm
  <2>4. CASE a \notin run[c].batch
    <3>1. Answered(q, a)
      BY <1>1, <2>2, <2>4 DEF Answered, NextDate
    <3>. QED  BY <1>1, <1>4, <2>2, <2>4, <3>1, CommitArm DEF CommitInv
  <2>. QED  BY <2>3, <2>4
<1>7. CASE ~run[c].failed /\ tx.proc \notin started
  <2>1. UNCHANGED <<timeoutMap, ackBy>> /\ overlooked' = overlooked \ run[c].batch
    BY <1>1, <1>7 DEF JoinedRunReturns, RunReturns
  <2>2. a \notin run[c].batch
    <3>1. a \in run[c].batch => ackBy[a] \notin Procs
      BY <1>1, <1>7, ConstantsAssumption DEF AnswersFit, AcksFit
    <3>. QED  BY <2>1, <3>1 DEF Answered
  <2>3. Answered(q, a)
    BY <1>1, <2>1, <2>2 DEF Answered, NextDate
  <2>. QED  BY <1>1, <1>4, <2>1, <2>2, <2>3 DEF CommitInv, Attended, InHand, Coming
<1>. QED  BY <1>5, <1>6, <1>7

\* Every step keeps what is answered attended to.
LEMMA CommitStep ==
    ASSUME FreshIds, IInv2, AnswersFit, ReadsInv, ClockInv, CommitInv, [Next2]_allVars
    PROVE  CommitInv'
<1>. USE DEF procVars, callVars, history, vars
<1>1. TypeOK /\ RunsFit /\ ClearsFit /\ tx \in Transactions /\ tx.runs \subseteq Calls
  BY DEF IInv2, Fits, Typed2, Transactions
<1>2. CASE UNCHANGED allVars
  <2>1. /\ UNCHANGED <<now, ackBy, cronDue, missed, timeoutMap, reading, ran, dropped, overlooked>>
        /\ Tried' = Tried /\ Stored' = Stored /\ Staged' = Staged
    BY <1>2 DEF allVars, Tried, Stored, Staged
  <2>. QED  BY <2>1, CommitQuiet
<1>. SUFFICES ASSUME Next2 PROVE CommitInv'
  BY <1>2
<1>3. Tried \subseteq Tried'
  BY TriedGrows
<1>4. ASSUME UNCHANGED <<now, ackBy, cronDue, missed, timeoutMap, reading, ran, dropped,
                         overlooked, doc>>,
             Staged' \subseteq Staged
      PROVE  CommitInv'
  <2>1. Stored' = Stored
    BY <1>4 DEF Stored
  <2>. QED  BY <1>3, <1>4, <2>1, CommitQuiet
\* Nothing is written any more, or not to be committed.
<1>5. ASSUME tx'.view = Nothing \/ tx'.broken PROVE Staged' = {}
  BY <1>5, ConstantsAssumption, TransactionAssumption DEF Staged, Nothing
<1>6. ASSUME NEW outcome \in {"committed", "aborted"}, Over(outcome), InProgress
      PROVE  Staged' = {} /\ overlooked' = overlooked
  BY <1>5, <1>6, OverShape DEF Over
<1>7. ASSUME tx'.broken = tx.broken, tx'.runs = tx.runs, UNCHANGED run,
             \A i \in Ids : tx'.view[i] \in {None, tx.view[i]}
      PROVE  Staged' \subseteq Staged
  BY <1>1, <1>7, ConstantsAssumption DEF Staged
<1>8. CASE (\E p \in Procs : Begin(p)) \/ EndOfBody \/ RetryTransaction
  <2>1. CASE (\E p \in Procs : Begin(p)) \/ EndOfBody
    <3>1. /\ tx'.broken = tx.broken /\ tx'.runs = tx.runs /\ tx'.view = tx.view
          /\ UNCHANGED vars /\ overlooked' = overlooked
      BY <1>1, <2>1 DEF Begin, EndOfBody, Transactions
    <3>. QED  BY <1>4, <1>7, <3>1
  <2>2. CASE RetryTransaction
    <3>1. UNCHANGED vars /\ overlooked' = overlooked /\ tx'.view = Nothing
      BY <1>1, <2>2 DEF RetryTransaction, Transactions
    <3>. QED  BY <1>4, <1>5, <3>1
  <2>. QED  BY <1>8, <2>1, <2>2
<1>9. CASE CommitTransaction
  <2>1. /\ InProgress /\ Over("committed") /\ ~tx.broken /\ tx.runs = {}
        /\ UNCHANGED <<now, ackBy, cronDue, missed, timeoutMap, reading, ran, dropped>>
        /\ doc' = [i \in Ids |-> Seen(i)]
    BY <1>9 DEF CommitTransaction, InProgress, IInv2, Fits, PhaseFits
  <2>2. Staged' = {} /\ overlooked' = overlooked
    BY <1>6, <2>1
  <2>3. Stored' \subseteq Stored \union Staged
    BY <2>1, ConstantsAssumption DEF Stored, Staged, Seen
  <2>. SUFFICES ASSUME NEW q \in Procs, NEW a \in Actions, Answered(q, a)'
                PROVE  Attended(q, a)'
    BY DEF CommitInv
  <2>4. Answered(q, a)
    BY <1>3, <2>1, <2>2, AnsweredBefore
  <2>. QED  BY <2>1, <2>2, <2>3, <2>4 DEF CommitInv, Attended, InHand, Coming
<1>10. CASE AbortTransaction
  <2>1. InProgress /\ Over("aborted") /\ UNCHANGED vars
    BY <1>10 DEF AbortTransaction, InProgress
  <2>. QED  BY <1>4, <1>6, <2>1
<1>11. CASE CrashInside
  <2>1. InProgress /\ Over("aborted") /\ Down(tx.proc) /\ tx.proc \in Procs
    BY <1>1, <1>11, OverShape DEF CrashInside, Transactions
  <2>. QED  BY <1>3, <1>6, <2>1, CommitDown
<1>12. ASSUME NEW c \in Calls, NEW B \in SUBSET Actions, JoinRun(c, B) PROVE CommitInv'
  <2>1. tx' = [tx EXCEPT !.runs = @ \union {c}, !.mine = @ \union B] /\ c \notin tx.runs
    BY <1>1, <1>12 DEF JoinRun, RunsFit
  <2>2. /\ tx'.view = tx.view /\ tx'.broken = tx.broken /\ tx'.runs = tx.runs \union {c}
        /\ \A d \in tx.runs : run'[d] = run[d]
    BY <1>1, <1>12, <2>1 DEF JoinRun, TypeOK, Transactions
  <2>3. Staged' \subseteq Staged
    BY <2>2 DEF Staged
  <2>. QED  BY <1>4, <1>12, <2>3 DEF JoinRun
<1>13. ASSUME NEW c \in Calls, NEW a \in Actions, StageOne(c, a) PROVE CommitInv'
  <2>1. c \in tx.runs /\ a \in run[c].batch /\ IdOf[a] \in Ids
    BY <1>1, <1>13, ConstantsAssumption DEF StageOne, RunsFit
  <2>2. \A d \in tx.runs : run'[d].batch = run[d].batch
    <3>1. PICK f \in BOOLEAN : run' = [run EXCEPT ![c].todo = @ \ {a}, ![c].failed = @ \/ f]
      BY <1>13 DEF StageOne
    <3>. QED  BY <1>1, <3>1 DEF TypeOK, RunCalls
  <2>3. /\ tx'.runs = tx.runs
        /\ \/ tx'.broken
           \/ /\ tx'.broken = tx.broken
              /\ \A i \in Ids : tx'.view[i] = IF i = IdOf[a] THEN a ELSE tx.view[i]
    <3>1. \/ tx' = [tx EXCEPT !.view[IdOf[a]] = a]
          \/ tx' = [tx EXCEPT !.broken = TRUE]
      BY <1>13 DEF StageOne
    <3>. QED  BY <1>1, <3>1 DEF Transactions
  <2>4. Staged' \subseteq Staged
    BY <2>1, <2>2, <2>3, ConstantsAssumption DEF Staged
  <2>. QED  BY <1>4, <1>13, <2>4 DEF StageOne
<1>14. ASSUME NEW c \in Calls, JoinedFails(c) PROVE CommitInv'
  <2>1. tx'.broken
    BY <1>1, <1>14 DEF JoinedFails, Transactions
  <2>. QED  BY <1>4, <1>5, <1>14, <2>1 DEF JoinedFails
<1>15. ASSUME NEW c \in Calls, NEW I \in SUBSET Ids, JoinClear(c, I) PROVE CommitInv'
  <2>1. tx'.view = tx.view /\ tx'.broken = tx.broken /\ tx'.runs = tx.runs
    BY <1>1, <1>15 DEF JoinClear, Transactions
  <2>. QED  BY <1>4, <1>7, <1>15, <2>1 DEF JoinClear
<1>16. ASSUME NEW c \in Calls, JoinedClearReturns(c) PROVE CommitInv'
  <2>1. /\ tx'.view = tx.view /\ tx'.broken = tx.broken /\ tx'.runs = tx.runs
        /\ clear[c].ids \subseteq Tried
    BY <1>1, <1>16 DEF JoinedClearReturns, Transactions, ClearsFit, Tried
  <2>2. /\ ClearReturns(c) /\ overlooked' = overlooked /\ Stored' = Stored
        /\ UNCHANGED <<now, ackBy, cronDue, missed, reading, ran, dropped, run>>
    BY <1>16 DEF JoinedClearReturns, ClearReturns, Stored
  <2>3. Staged' \subseteq Staged
    BY <1>7, <2>1, <2>2
  <2>. QED  BY <1>3, <2>1, <2>2, <2>3, CommitClear
<1>17. ASSUME NEW c \in Calls, NEW i \in Ids, DropOne(c, i) PROVE CommitInv'
  <2>1. Staged' \subseteq Staged
    BY <1>1, <1>7, <1>17, DeleteShape DEF DropOne
  <2>. QED  BY <1>4, <1>17, <2>1 DEF DropOne
<1>18. ASSUME NEW p \in Procs, NEW h \in Handles, JoinedDeleteAction(p, h) PROVE CommitInv'
  <2>1. IdOf[h[1]] \in Ids
    BY ConstantsAssumption DEF Handles
  <2>2. Staged' \subseteq Staged
    BY <1>1, <1>7, <1>18, <2>1, DeleteShape DEF JoinedDeleteAction
  <2>. QED  BY <1>4, <1>18, <2>2 DEF JoinedDeleteAction
<1>. HIDE DEF procVars, callVars, history, vars
<1>. QED
  BY <1>3, <1>8, <1>9, <1>10, <1>11, <1>12, <1>13, <1>14, <1>15, <1>16, <1>17, <1>18,
     CommitOutside, CommitRunReturns DEF Next2

\* Inside the transaction finds go on as outside, and the clock does not.
LEMMA ReadsAndClockStep ==
    ASSUME IInv2, ReadsInv, ClockInv, [Next2]_allVars PROVE ReadsInv' /\ ClockInv'
<1>1. TypeOK
  BY DEF IInv2, Typed2
<1>2. CASE [Next]_vars
  <2>1. ReadsInv'
    BY <1>1, <1>2, ReadsStep
  <2>2. ClockInv'
    BY <1>1, <1>2, ClockStep
  <2>. QED  BY <2>1, <2>2
<1>3. CASE UNCHANGED <<reading, now>>
  BY <1>3 DEF ReadsInv, ClockInv
<1>4. CASE CrashInside
  <2>1. now' = now /\ \A q \in Procs, r \in Reads : reading'[q][r] \in {reading[q][r], NoRead}
    BY <1>1, <1>4 DEF CrashInside, Down, TypeOK
  <2>. QED  BY <2>1 DEF ReadsInv, ClockInv, NoRead
<1>5. ASSUME NEW c \in Calls, JoinedRunReturns(c) \/ JoinedClearReturns(c)
      PROVE  UNCHANGED <<reading, now>>
  BY <1>5 DEF JoinedRunReturns, RunReturns, JoinedClearReturns, ClearReturns
<1>6. CASE UNCHANGED allVars
  BY <1>2, <1>6 DEF allVars
<1>7. CASE \/ \E p \in Procs : Begin(p) \/ \E h \in Handles : JoinedDeleteAction(p, h)
           \/ EndOfBody \/ CommitTransaction \/ AbortTransaction \/ RetryTransaction
           \/ \E c \in Calls :
                 \/ \E B \in SUBSET Actions : JoinRun(c, B)
                 \/ \E I \in SUBSET Ids : JoinClear(c, I)
                 \/ \E a \in Actions : StageOne(c, a)
                 \/ \E i \in Ids : DropOne(c, i)
                 \/ JoinedFails(c)
  BY <1>3, <1>7 DEF Begin, JoinedDeleteAction, EndOfBody, CommitTransaction, AbortTransaction,
     RetryTransaction, JoinRun, JoinClear, StageOne, DropOne, JoinedFails, vars
<1>. QED  BY <1>2, <1>3, <1>4, <1>5, <1>6, <1>7 DEF Next2, Outside

\* With fresh ids, an action whose transaction committed is in the hands of the
\* process that asked for it, through retries, aborts, restarts and callbacks: only a
\* find sent between the answer of runTimers and the commit leaves it to another tick.
THEOREM CommittedIsAlwaysInHand == ASSUME FreshIds PROVE Spec2 => []CommittedIsInHand
<1>1. Init2 => AnswersFit /\ ReadsInv /\ ClockInv /\ CommitInv
  <2>. SUFFICES ASSUME Init2 PROVE AnswersFit /\ ReadsInv /\ ClockInv /\ CommitInv
    OBVIOUS
  <2>1. AnswersFit
    BY ConstantsAssumption, TransactionAssumption
       DEF Init2, AnswersFit, BatchesFit, AcksFit, WritesFit, NoRun, Nothing
  <2>2. ReadsInv /\ ClockInv
    BY ConstantsAssumption, TimesAssumption DEF Init2, ReadsInv, ClockInv, NoRead
  <2>3. CommitInv
    BY ConstantsAssumption DEF Init2, CommitInv, Answered
  <2>. QED  BY <2>1, <2>2, <2>3
<1>2. IInv2 /\ AnswersFit /\ ReadsInv /\ ClockInv /\ CommitInv /\ [Next2]_allVars
         => AnswersFit' /\ ReadsInv' /\ ClockInv' /\ CommitInv'
  BY AnswersStep, ReadsAndClockStep, CommitStep
<1>. QED  BY <1>1, <1>2, CommitMeaning, InitFits, FitsStep, PTL DEF Spec2

-----------------------------------------------------------------------------
(* What is gone stays gone *)

\* Nothing the transaction may still write was saved already.
OnceInv == SavedOnce /\ (InProgress => tx.mine \intersect saved = {})

\* A step that saves nothing and asks for nothing.
LEMMA OnceFrame ==
    ASSUME OnceInv, saved' = saved, submitted \subseteq submitted',
           tx'.mine = tx.mine, InProgress' => InProgress \/ tx.mine = {},
           \A c \in Calls : run'[c].todo \subseteq run[c].todo
    PROVE  OnceInv'
  BY DEF OnceInv, SavedOnce

\* A call that saves one of its batch, or fails, is still the same call.
LEMMA CallShape ==
    ASSUME TypeOK, NEW c \in Calls, NEW T \in SUBSET run[c].todo, NEW f,
           run' = [run EXCEPT ![c].todo = T, ![c].failed = f]
    PROVE  \A d \in Calls : /\ run'[d].todo \subseteq run[d].todo
                            /\ run'[d].proc = run[d].proc /\ run'[d].batch = run[d].batch
<1>1. run[c] \in RunCalls
  BY DEF TypeOK
<1>. QED  BY <1>1 DEF TypeOK, RunCalls

\* A process that ends saves nothing any more.
LEMMA OnceDown ==
    ASSUME IInv2, OnceInv, NEW p \in Procs, Down(p),
           tx'.mine = tx.mine, InProgress' => InProgress
    PROVE  OnceInv'
<1>1. UNCHANGED <<saved, submitted>>
      /\ \A c \in Calls : run'[c] = IF run[c].proc = p THEN NoRun ELSE run[c]
  BY DEF Down, history
<1>2. \A c \in Calls : run'[c].todo \subseteq run[c].todo
  BY <1>1 DEF NoRun
<1>. QED  BY <1>1, <1>2, OnceFrame

\* Outside of the transaction only what it did not ask for is saved.
LEMMA OnceOutside == ASSUME IInv2, AnswersFit, OnceInv, Outside PROVE OnceInv'
<1>. USE DEF procVars, callVars, history
<1>1. /\ TypeOK /\ UNCHANGED tx /\ Next /\ RunsFit /\ InProgress' = InProgress
      /\ \A c \in tx.runs : run'[c] = run[c]
  BY DEF Outside, Around, IInv2, Fits, Typed2, InProgress
<1>2. ASSUME NEW c \in Calls, NEW p \in Procs, NEW B \in SUBSET Actions, RunTimers(c, p, B)
      PROVE  OnceInv'
  <2>1. \A d \in Calls : run'[d].todo = IF d = c THEN B ELSE run[d].todo
    BY <1>1, <1>2 DEF RunTimers, TypeOK
  <2>2. /\ B \intersect submitted = {} /\ submitted' = submitted \union B
        /\ UNCHANGED saved
    BY <1>2 DEF RunTimers
  <2>. QED  BY <1>1, <2>1, <2>2 DEF OnceInv, SavedOnce
<1>3. ASSUME NEW c \in Calls, NEW a \in Actions, SaveOne(c, a) PROVE OnceInv'
  <2>1. /\ a \in run[c].todo /\ a \in run[c].batch /\ UNCHANGED submitted
        /\ saved' = saved \union {a} \/ saved' = saved
    BY <1>1, <1>3 DEF SaveOne, RunsFit
  <2>2. \A d \in Calls : IF d = c THEN run'[d].todo = run[d].todo \ {a} ELSE run'[d] = run[d]
    BY <1>1, <1>3 DEF SaveOne, TypeOK, RunCalls
  <2>3. c \notin tx.runs
    BY <1>1, <2>1, <2>2
  <2>4. a \in submitted /\ a \notin tx.mine
    BY <2>1, <2>3 DEF AnswersFit, BatchesFit
  <2>5. ASSUME NEW d \in Calls \ {c} PROVE a \notin run[d].todo
    <3>1. run[d].todo \subseteq run[d].batch
      BY <1>1 DEF RunsFit
    <3>2. CASE d \in tx.runs
      BY <1>1, <2>4, <3>1, <3>2 DEF RunsFit
    <3>3. CASE d \notin tx.runs
      BY <2>1, <2>3, <3>1, <3>3 DEF AnswersFit, BatchesFit
    <3>. QED  BY <3>2, <3>3
  <2>. QED  BY <1>1, <2>1, <2>2, <2>4, <2>5 DEF OnceInv, SavedOnce
<1>4. ASSUME NEW c \in Calls,
             \/ \E a \in Actions : SaveFails(c, a)
             \/ RunReturns(c)
      PROVE  OnceInv'
  <2>1. \A d \in Calls : run'[d].todo \subseteq run[d].todo
    <3>1. CASE RunReturns(c)
      <4>1. \A d \in Calls : run'[d] = IF d = c THEN NoRun ELSE run[d]
        BY <1>1, <3>1 DEF RunReturns, TypeOK
      <4>. QED  BY <4>1 DEF NoRun
    <3>2. ASSUME NEW a \in Actions, SaveFails(c, a)
          PROVE  \A d \in Calls : run'[d].todo \subseteq run[d].todo
      BY <1>1, <3>2 DEF SaveFails, TypeOK, RunCalls
    <3>. QED  BY <1>4, <3>1, <3>2
  <2>2. UNCHANGED <<saved, submitted>>
    BY <1>4 DEF SaveFails, RunReturns
  <2>. QED  BY <1>1, <2>1, <2>2, OnceFrame
<1>5. ASSUME NEW p \in Procs, Down(p) PROVE OnceInv'
  BY <1>1, <1>5, OnceDown
<1>6. CASE UNCHANGED <<saved, submitted, run>>
  BY <1>1, <1>6, OnceFrame
<1>7. ASSUME NEW p \in Procs,
             Crash(p) \/ \E h \in Handles : Rejects(p, h)
      PROVE  OnceInv'
  <2>1. Down(p) \/ UNCHANGED <<saved, submitted, run>>
    BY <1>7 DEF Crash, Rejects
  <2>. QED  BY <1>5, <1>6, <2>1
<1>8. ASSUME \/ \E p \in Procs :
                  \/ \E key \in FnKeys : SetFunction(p, key)
                  \/ StartUp(p) \/ CronFires(p) \/ Restart(p)
                  \/ \E r \in Reads : FindReads(p, r) \/ FindReturns(p, r) \/ FindFails(p, r)
                  \/ \E h \in Handles : \/ Fire(p, h) \/ FnReturns(p, h)
                                        \/ DeleteAction(p, h) \/ CallbackEnds(p, h)
                  \/ \E c \in Calls : \E I \in SUBSET Ids : ClearTimers(c, p, I)
             \/ \E c \in Calls :
                  \/ \E i \in Ids : DeleteOne(c, i)
                  \/ DeleteFails(c) \/ ClearReturns(c)
             \/ Tick
      PROVE  OnceInv'
  <2>1. UNCHANGED <<saved, submitted, run>>
    BY <1>8 DEF SetFunction, StartUp, CronFires, Restart, FindReads, FindReturns, FindFails,
       Fire, FnReturns, DeleteAction, CallbackEnds, ClearTimers, DeleteOne, DeleteFails,
       ClearReturns, Tick
  <2>. QED  BY <1>6, <2>1
<1>. QED  BY <1>1, <1>2, <1>3, <1>4, <1>7, <1>8 DEF Next

\* The transaction saves its own actions, once and at the commit.
LEMMA OnceStep == ASSUME IInv2, AnswersFit, OnceInv, [Next2]_allVars PROVE OnceInv'
<1>. USE DEF procVars, callVars, history
<1>1. /\ TypeOK /\ RunsFit /\ PhaseFits /\ tx \in Transactions
  BY DEF IInv2, Fits, Typed2
<1>2. CASE UNCHANGED allVars
  BY <1>2, OnceFrame DEF allVars, vars, InProgress
<1>3. ASSUME NEW p \in Procs, Begin(p) PROVE OnceInv'
  <2>1. tx'.mine = tx.mine /\ tx.mine = {} /\ UNCHANGED <<saved, submitted, run>>
    BY <1>1, <1>3 DEF Begin, PhaseFits, Transactions, vars
  <2>. QED  BY <2>1, OnceFrame
<1>4. CASE EndOfBody \/ RetryTransaction \/ AbortTransaction
  <2>1. UNCHANGED <<saved, submitted, run>> /\ tx'.mine = tx.mine /\ InProgress
    BY <1>1, <1>4 DEF EndOfBody, RetryTransaction, AbortTransaction, Over, Transactions,
       InProgress, vars
  <2>. QED  BY <2>1, OnceFrame
<1>5. CASE CommitTransaction
  <2>1. /\ UNCHANGED <<submitted, run>> /\ tx.phase = "ending" /\ Over("committed")
        /\ saved' = saved \union {a \in Actions : tx.view[IdOf[a]] = a}
    BY <1>5 DEF CommitTransaction
  <2>2. saved' \subseteq saved \union tx.mine
    <3>1. \A a \in Actions : IdOf[a] \in Ids
      BY ConstantsAssumption
    <3>. QED  BY <2>1, <3>1 DEF AnswersFit, WritesFit
  <2>3. tx.runs = {} /\ ~InProgress'
    BY <1>1, <2>1, OverShape DEF PhaseFits, Over, InProgress, Transactions
  <2>4. \A c \in Calls : run[c].todo \intersect tx.mine = {}
    BY <1>1, <2>3 DEF RunsFit, AnswersFit, BatchesFit
  <2>. QED  BY <2>1, <2>2, <2>3, <2>4 DEF OnceInv, SavedOnce, AnswersFit, BatchesFit
<1>6. CASE CrashInside
  <2>1. InProgress /\ Over("aborted") /\ Down(tx.proc) /\ tx.proc \in Procs
    BY <1>1, <1>6 DEF CrashInside, InProgress, PhaseFits, Transactions
  <2>2. tx'.mine = tx.mine
    BY <1>1, <2>1 DEF Over, Transactions
  <2>. QED  BY <2>1, <2>2, OnceDown
<1>7. ASSUME NEW c \in Calls, NEW B \in SUBSET Actions, JoinRun(c, B) PROVE OnceInv'
  <2>1. /\ tx.phase = "body" /\ B \intersect (submitted \ tx.mine) = {}
        /\ tx'.mine = tx.mine \union B /\ submitted' = submitted \union B /\ UNCHANGED saved
    BY <1>1, <1>7 DEF JoinRun, Transactions
  <2>2. \A d \in Calls : run'[d].todo = IF d = c THEN B ELSE run[d].todo
    BY <1>1, <1>7 DEF JoinRun, TypeOK
  <2>3. B \intersect saved = {}
    BY <2>1 DEF OnceInv, SavedOnce, InProgress
  <2>. QED  BY <2>1, <2>2, <2>3 DEF OnceInv, SavedOnce, InProgress
<1>8. ASSUME NEW c \in Calls,
             \/ \E I \in SUBSET Ids : JoinClear(c, I)
             \/ \E a \in Actions : StageOne(c, a)
             \/ \E i \in Ids : DropOne(c, i)
             \/ JoinedFails(c) \/ JoinedRunReturns(c) \/ JoinedClearReturns(c)
      PROVE  OnceInv'
  <2>1. \A d \in Calls : run'[d].todo \subseteq run[d].todo
    <3>1. CASE UNCHANGED run
      BY <3>1
    <3>2. CASE run' = [run EXCEPT ![c] = NoRun]
      <4>1. \A d \in Calls : run'[d] = IF d = c THEN NoRun ELSE run[d]
        BY <1>1, <3>2 DEF TypeOK
      <4>. QED  BY <4>1 DEF NoRun
    <3>3. ASSUME NEW a \in Actions, StageOne(c, a)
          PROVE  \A d \in Calls : run'[d].todo \subseteq run[d].todo
      BY <1>1, <3>3, CallShape DEF StageOne
    <3>4. CASE JoinedFails(c)
      BY <1>1, <3>1, <3>4, CallShape DEF JoinedFails
    <3>. QED
      BY <1>8, <3>1, <3>2, <3>3, <3>4 DEF JoinClear, DropOne, JoinedRunReturns, RunReturns,
         JoinedClearReturns, ClearReturns
  <2>2. UNCHANGED <<saved, submitted>>
    BY <1>8 DEF JoinClear, StageOne, DropOne, JoinedFails, JoinedRunReturns, RunReturns,
       JoinedClearReturns, ClearReturns
  <2>3. tx'.mine = tx.mine /\ tx'.phase = tx.phase
    BY <1>1, <1>8, DeleteShape DEF JoinClear, StageOne, DropOne, JoinedFails, JoinedRunReturns,
       JoinedClearReturns, Transactions
  <2>. QED  BY <2>1, <2>2, <2>3, OnceFrame DEF InProgress
<1>9. ASSUME NEW p \in Procs, NEW h \in Handles, JoinedDeleteAction(p, h) PROVE OnceInv'
  <2>1. IdOf[h[1]] \in Ids
    BY ConstantsAssumption DEF Handles
  <2>2. tx'.mine = tx.mine /\ tx'.phase = tx.phase
    BY <1>1, <1>9, <2>1, DeleteShape DEF JoinedDeleteAction
  <2>3. UNCHANGED <<saved, submitted, run>>
    BY <1>9 DEF JoinedDeleteAction
  <2>. QED  BY <2>2, <2>3, OnceFrame DEF InProgress
<1>. QED
  BY <1>2, <1>3, <1>4, <1>5, <1>6, <1>7, <1>8, <1>9, OnceOutside DEF Next2

\* Neither does the transaction bring back what is gone from a process.
LEMMA GoneStep2 ==
    ASSUME IInv2, AnswersFit, OnceInv, [Next2]_allVars,
           NEW p \in Procs, NEW a \in Actions, GoneFrom(p, a)
    PROVE  GoneFrom(p, a)'
<1>. USE DEF procVars, callVars, history
<1>1. /\ TypeOK /\ RunsFit /\ PhaseFits /\ tx \in Transactions
      /\ a \in saved /\ a \notin Stored
      /\ \A k \in Slots : <<a, k>> \in Handles /\ timer[p][<<a, k>>] = "free"
  BY DEF IInv2, Fits, Typed2, GoneFrom, Handles
<1>2. CASE [Next]_vars
  BY <1>1, <1>2, GoneStep DEF OnceInv
<1>3. CASE UNCHANGED <<doc, saved, timer, reading>>
           /\ \A c \in Calls : run'[c].proc = p /\ a \in run'[c].batch
                               => run[c].proc = p /\ a \in run[c].batch
  BY <1>1, <1>3, GoneFrame DEF Stored
<1>4. CASE UNCHANGED allVars
  BY <1>2, <1>4 DEF allVars
<1>5. ASSUME \/ \E q \in Procs : Begin(q)
             \/ EndOfBody \/ RetryTransaction \/ AbortTransaction
      PROVE  GoneFrom(p, a)'
  BY <1>3, <1>5 DEF Begin, EndOfBody, RetryTransaction, AbortTransaction, vars
\* What the transaction wrote it saves only now.
<1>6. CASE CommitTransaction
  <2>1. a \notin tx.mine /\ IdOf[a] \in Ids
    BY <1>1, <1>6, ConstantsAssumption DEF CommitTransaction, OnceInv, InProgress
  <2>2. doc'[IdOf[a]] = Seen(IdOf[a])
    BY <1>6, <2>1 DEF CommitTransaction
  <2>3. a \notin Stored'
    BY <1>1, <2>1, <2>2 DEF Stored, Seen, AnswersFit, WritesFit
  <2>4. saved \subseteq saved' /\ UNCHANGED <<timer, reading, run>>
    BY <1>6 DEF CommitTransaction
  <2>. QED  BY <2>3, <2>4, GoneFrame
<1>7. CASE CrashInside
  <2>1. tx.proc \in Procs /\ Down(tx.proc)
    BY <1>1, <1>7 DEF CrashInside, InProgress, PhaseFits, Transactions
  <2>. QED  BY <1>1, <2>1, GoneDown
<1>8. ASSUME NEW c \in Calls, NEW B \in SUBSET Actions, JoinRun(c, B)
      PROVE  GoneFrom(p, a)'
  <2>1. a \notin B
    BY <1>1, <1>8 DEF JoinRun, OnceInv, SavedOnce, InProgress
  <2>2. \A d \in Calls : run'[d] = IF d = c THEN [proc |-> tx.proc, batch |-> B, todo |-> B,
                                                  failed |-> FALSE]
                                   ELSE run[d]
    BY <1>1, <1>8 DEF JoinRun, TypeOK
  <2>. QED  BY <1>3, <1>8, <2>1, <2>2 DEF JoinRun
<1>9. ASSUME NEW c \in Calls,
             \/ \E I \in SUBSET Ids : JoinClear(c, I)
             \/ \E b \in Actions : StageOne(c, b)
             \/ \E i \in Ids : DropOne(c, i)
             \/ JoinedFails(c)
      PROVE  GoneFrom(p, a)'
  <2>1. \A d \in Calls : run'[d].proc = run[d].proc /\ run'[d].batch = run[d].batch
    <3>1. ASSUME NEW b \in Actions, StageOne(c, b)
          PROVE  \A d \in Calls : run'[d].proc = run[d].proc /\ run'[d].batch = run[d].batch
      BY <1>1, <3>1, CallShape DEF StageOne
    <3>2. CASE JoinedFails(c)
      BY <1>1, <3>2, CallShape DEF JoinedFails
    <3>. QED  BY <1>9, <3>1, <3>2 DEF JoinClear, DropOne
  <2>. QED  BY <1>3, <1>9, <2>1 DEF JoinClear, StageOne, DropOne, JoinedFails
<1>10. ASSUME NEW c \in Calls, JoinedRunReturns(c) \/ JoinedClearReturns(c)
       PROVE  GoneFrom(p, a)'
  <2>1. Next
    BY <1>10 DEF JoinedRunReturns, JoinedClearReturns, Next
  <2>. QED  BY <1>2, <2>1
<1>11. ASSUME NEW q \in Procs, NEW h \in Handles, JoinedDeleteAction(q, h)
       PROVE  GoneFrom(p, a)'
  <2>1. timer[q][h] # "free" /\ SetPhase(q, h, "deleted")
        /\ UNCHANGED <<doc, saved, reading, run>>
    BY <1>11 DEF JoinedDeleteAction
  <2>2. \A k \in Slots : timer'[p][<<a, k>>] = timer[p][<<a, k>>]
    BY <1>1, <2>1 DEF SetPhase, TypeOK
  <2>. QED  BY <1>1, <2>1, <2>2, GoneFrame DEF Stored
<1>. QED
  BY <1>2, <1>4, <1>5, <1>6, <1>7, <1>8, <1>9, <1>10, <1>11 DEF Next2, Outside

\* An action that was executed or cleared does not come back by a transaction
\* either: not by its commit, nor by an attempt that runs the body again.
THEOREM GoneIsGoneForGoodInTransactions == Spec2 => GoneForGood
<1>. DEFINE Kept == \A p \in Procs, a \in Actions : GoneFrom(p, a) => GoneFrom(p, a)'
            Inv == IInv2 /\ AnswersFit /\ OnceInv
<1>1. Init2 => Inv
  <2>1. Init2 => AnswersFit
    BY ConstantsAssumption, TransactionAssumption
       DEF Init2, AnswersFit, BatchesFit, AcksFit, WritesFit, NoRun, Nothing
  <2>2. Init2 => OnceInv
    BY DEF Init2, OnceInv, SavedOnce
  <2>. QED  BY <2>1, <2>2, InitFits
<1>2. Inv /\ [Next2]_allVars => Inv'
  BY FitsStep, AnswersStep, OnceStep
<1>3. Inv /\ [Next2]_allVars => [Kept]_vars
  BY GoneStep2
<1>4. Spec2 => [][Kept]_vars
  <2>. HIDE DEF Inv, Kept
  <2>. QED  BY <1>1, <1>2, <1>3, PTL DEF Spec2
<1>. QED  BY <1>4 DEF GoneForGood
=============================================================================
