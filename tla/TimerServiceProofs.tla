------------------------- MODULE TimerServiceProofs -------------------------
(* Theorems about TimerService, for every value of its constants. *)
EXTENDS TimerService, TLAPS

\* The next tick is after t, at most a Period away.
LEMMA NextDateBounds ==
    ASSUME NEW t \in Nat
    PROVE  /\ NextDate(t) \in Nat
           /\ NextDate(t) > t /\ NextDate(t) <= t + Period
<1>1. t % Period \in 0..(Period - 1)
  BY ConstantsAssumption
<1>2. Period \in Nat
  BY ConstantsAssumption
<1> QED
  BY <1>1, <1>2 DEF NextDate

\* Arming changes nothing but the two maps of timeouts, and keeps their types.
LEMMA ArmType ==
    ASSUME TypeOK, NEW p \in Procs, NEW S \in SUBSET Actions, Arm(p, S)
    PROVE  /\ timer' \in [Procs -> [Handles -> Phases]]
           /\ timeoutMap' \in [Procs -> [Ids -> Handles \union {None}]]
<1> DEFINE new  == Unmapped(p, S)
           arms == {<<a, FreeSlot(p, a)>> : a \in new}
<1>1. timer' = [timer EXCEPT ![p] = [h \in Handles |->
               IF h \in arms THEN "armed" ELSE timer[p][h]]]
  BY DEF Arm
<1>2. timeoutMap' = [timeoutMap EXCEPT ![p] = [i \in Ids |->
               IF \E h \in arms : IdOf[h[1]] = i
               THEN CHOOSE h \in arms : IdOf[h[1]] = i
               ELSE timeoutMap[p][i]]]
  BY DEF Arm
<1>3. arms \subseteq Handles
  <2> SUFFICES ASSUME NEW a \in new
               PROVE  <<a, FreeSlot(p, a)>> \in Handles
    OBVIOUS
  <2>1. \E k \in Slots : timer[p][<<a, k>>] = "free"
    BY DEF Arm
  <2>2. FreeSlot(p, a) \in Slots
    BY <2>1 DEF FreeSlot
  <2> QED
    BY <2>2 DEF Handles, Unmapped
<1>4. timer' \in [Procs -> [Handles -> Phases]]
  <2> HIDE DEF arms
  <2> QED
    BY <1>1 DEF TypeOK, Phases
<1>5. \A i \in Ids :
         (\E h \in arms : IdOf[h[1]] = i)
         => (CHOOSE h \in arms : IdOf[h[1]] = i) \in Handles
  <2> HIDE DEF arms
  <2> QED
    BY <1>3
<1>6. timeoutMap' \in [Procs -> [Ids -> Handles \union {None}]]
  <2> HIDE DEF arms
  <2> QED
    BY <1>2, <1>5 DEF TypeOK
<1> QED
  BY <1>4, <1>6

\* What an unused slot for a find, a save and a clear holds has its type.
LEMMA IdleTypes == NoRead \in Finds /\ NoRun \in RunCalls /\ NoClear \in ClearCalls
  BY DEF NoRead, Finds, NoRun, RunCalls, NoClear, ClearCalls

\* What arming a list does: free timeouts of its actions are armed, entries
\* appear where there were none, and without shared ids each new timeout is the
\* one its entry points to.
LEMMA ArmStep ==
    ASSUME TypeOK, NEW p \in Procs, NEW S \in SUBSET Actions, Arm(p, S)
    PROVE  /\ \A q \in Procs, h \in Handles :
                 \/ timer'[q][h] = timer[q][h]
                 \/ /\ q = p /\ h[1] \in S
                    /\ timer[q][h] = "free" /\ timer'[q][h] = "armed"
                    /\ timeoutMap[q][IdOf[h[1]]] = None
                    /\ FreshIds => timeoutMap'[q][IdOf[h[1]]] = h
           /\ \A q \in Procs, i \in Ids :
                 \/ timeoutMap'[q][i] = timeoutMap[q][i]
                 \/ q = p /\ timeoutMap[q][i] = None
<1> DEFINE new  == Unmapped(p, S)
           arms == {<<a, FreeSlot(p, a)>> : a \in new}
<1>1. timer' = [timer EXCEPT ![p] = [h \in Handles |->
               IF h \in arms THEN "armed" ELSE timer[p][h]]]
  BY DEF Arm
<1>2. timeoutMap' = [timeoutMap EXCEPT ![p] = [i \in Ids |->
               IF \E h \in arms : IdOf[h[1]] = i
               THEN CHOOSE h \in arms : IdOf[h[1]] = i
               ELSE timeoutMap[p][i]]]
  BY DEF Arm
<1>3. ASSUME NEW h \in arms
      PROVE  /\ h[1] \in S /\ timer[p][h] = "free"
             /\ timeoutMap[p][IdOf[h[1]]] = None
             /\ h = <<h[1], FreeSlot(p, h[1])>>
  <2>1. PICK a \in new : h = <<a, FreeSlot(p, a)>>
    OBVIOUS
  <2>2. a \in S /\ timeoutMap[p][IdOf[a]] = None
    BY DEF Unmapped
  <2>3. \E k \in Slots : timer[p][<<a, k>>] = "free"
    BY DEF Arm
  <2>4. timer[p][<<a, FreeSlot(p, a)>>] = "free"
    BY <2>3 DEF FreeSlot
  <2> QED
    BY <2>1, <2>2, <2>4
<1>4. ASSUME FreshIds, NEW h \in arms
      PROVE  (CHOOSE g \in arms : IdOf[g[1]] = IdOf[h[1]]) = h
  <2>1. ASSUME NEW g \in arms, IdOf[g[1]] = IdOf[h[1]] PROVE g = h
    <3>1. g[1] = h[1]
      BY <1>3, <1>4, <2>1 DEF FreshIds
    <3> QED
      BY <1>3, <3>1
  <2> HIDE DEF arms
  <2> QED
    BY <2>1
<1>5. ASSUME NEW q \in Procs, NEW h \in Handles
      PROVE  \/ timer'[q][h] = timer[q][h]
             \/ q = p /\ h \in arms /\ timer'[q][h] = "armed"
  <2> HIDE DEF arms
  <2> QED
    BY <1>1 DEF TypeOK
<1>6. ASSUME NEW q \in Procs, NEW i \in Ids
      PROVE  \/ timeoutMap'[q][i] = timeoutMap[q][i]
             \/ q = p /\ \E h \in arms : IdOf[h[1]] = i
  <2> HIDE DEF arms
  <2> QED
    BY <1>2 DEF TypeOK
<1>7. ASSUME FreshIds, NEW h \in arms
      PROVE  timeoutMap'[p][IdOf[h[1]]] = h
  <2>1. IdOf[h[1]] \in Ids
    BY <1>3, ConstantsAssumption
  <2> DEFINE chosen(i) == CHOOSE g \in arms : IdOf[g[1]] = i
  <2>2. timeoutMap'[p][IdOf[h[1]]] = chosen(IdOf[h[1]])
    <3> HIDE DEF arms, chosen
    <3>1. timeoutMap' = [timeoutMap EXCEPT ![p] = [i \in Ids |->
               IF \E g \in arms : IdOf[g[1]] = i
               THEN chosen(i) ELSE timeoutMap[p][i]]]
      BY <1>2 DEF chosen
    <3> QED
      BY <2>1, <3>1 DEF TypeOK
  <2> QED
    BY <1>4, <1>7, <2>2
<1> HIDE DEF arms
<1> QED
  BY <1>3, <1>5, <1>6, <1>7

\* What clearTimers does on its return: it only frees pending timeouts, and
\* drops entries only of the ids it was given, freeing their pending timeout.
LEMMA ClearStep ==
    ASSUME TypeOK, NEW c \in Calls, ClearReturns(c)
    PROVE  /\ \A q \in Procs, h \in Handles :
                 timer'[q][h] \in {"free", timer[q][h]}
           /\ \A q \in Procs, i \in Ids :
                 \/ timeoutMap'[q][i] = timeoutMap[q][i]
                 \/ /\ i \in clear[c].ids /\ timeoutMap'[q][i] = None
                    /\ \A h \in Handles : timeoutMap[q][i] = h =>
                          timer'[q][h] # "armed"
<1> DEFINE p == clear[c].proc
           I == clear[c].ids
           stop(h) == /\ timer[p][h] = "armed"
                      /\ \E i \in I : timeoutMap[p][i] = h
<1>1. p \in Procs /\ I \subseteq Ids
  BY DEF ClearReturns, TypeOK, ClearCalls
<1>2. CASE ~clear[c].failed
  <2>1. timer' = [timer EXCEPT ![p] = [h \in Handles |->
                    IF stop(h) THEN "free" ELSE timer[p][h]]]
    BY <1>2 DEF ClearReturns
  <2>2. timeoutMap' = [timeoutMap EXCEPT ![p] = [i \in Ids |->
                         IF i \in I THEN None ELSE timeoutMap[p][i]]]
    BY <1>2 DEF ClearReturns
  <2>3. ASSUME NEW q \in Procs, NEW h \in Handles
        PROVE  timer'[q][h] = IF q = p /\ stop(h) THEN "free" ELSE timer[q][h]
    <3> HIDE DEF stop, p
    <3> QED
      BY <1>1, <2>1 DEF TypeOK
  <2>4. ASSUME NEW q \in Procs, NEW i \in Ids
        PROVE  timeoutMap'[q][i] = IF q = p /\ i \in I THEN None
                                   ELSE timeoutMap[q][i]
    <3> HIDE DEF p, I
    <3> QED
      BY <1>1, <2>2 DEF TypeOK
  <2>5. ASSUME NEW i \in I, NEW h \in Handles, timeoutMap[p][i] = h
        PROVE  timer'[p][h] # "armed"
    BY <1>1, <2>3, <2>5
  <2> HIDE DEF stop, p, I
  <2> QED
    BY <2>3, <2>4, <2>5 DEF p, I
<1>3. CASE clear[c].failed
  BY <1>3 DEF ClearReturns
<1> QED
  BY <1>2, <1>3

\* Moving one timeout to another phase keeps the type of timer.
LEMMA SetPhaseType ==
    ASSUME TypeOK, NEW p \in Procs, NEW h \in Handles, NEW phase \in Phases,
           SetPhase(p, h, phase)
    PROVE  timer' \in [Procs -> [Handles -> Phases]]
  BY DEF TypeOK, SetPhase

\* A service that has not started is well typed.
LEMMA InitType == Init => TypeOK
  BY ConstantsAssumption, IdleTypes DEF Init, TypeOK, Phases

\* A find that was sent is well formed, and so is what sending it leaves.
LEMMA SendFindType ==
    ASSUME TypeOK, NEW p \in Procs, NEW r \in Reads, SendFind(p, r)
    PROVE  reading' \in [Procs -> [Reads -> Finds]]
<1>1. [phase |-> "sent", upTo |-> NextDate(now), found |-> {}] \in Finds
  BY NextDateBounds DEF TypeOK, Finds
<1> QED
  BY <1>1 DEF TypeOK, SendFind

\* Every step of callers, cron, timeouts and database keeps the types.
THEOREM StepType == TypeOK /\ [Next]_vars => TypeOK'
<1> USE DEF procVars, callVars, history
<1> SUFFICES ASSUME TypeOK, [Next]_vars PROVE TypeOK'
  OBVIOUS
<1>1. ASSUME NEW p \in Procs, NEW key \in FnKeys, SetFunction(p, key)
      PROVE  TypeOK'
  BY <1>1 DEF TypeOK, SetFunction
<1>2. ASSUME NEW p \in Procs, StartUp(p) PROVE TypeOK'
  BY <1>2, SendFindType DEF TypeOK, StartUp
<1>3. ASSUME NEW p \in Procs, CronFires(p) PROVE TypeOK'
  BY <1>3, SendFindType DEF TypeOK, CronFires
<1>4. ASSUME NEW p \in Procs, Crash(p) PROVE TypeOK'
  BY <1>4, ConstantsAssumption, IdleTypes
     DEF TypeOK, Crash, Down, Phases
<1>5. ASSUME NEW p \in Procs, Restart(p) PROVE TypeOK'
  BY <1>5 DEF TypeOK, Restart
<1>6. ASSUME NEW p \in Procs, NEW r \in Reads, FindReads(p, r) PROVE TypeOK'
  <2> DEFINE found == {a \in Stored : ExecTimeOf[a] <= reading[p][r].upTo}
             new   == [phase |-> "read", upTo |-> 0, found |-> found]
  <2>1. new \in Finds
    <3>1. found \in SUBSET Actions
      BY DEF Stored
    <3> HIDE DEF found
    <3> QED
      BY <3>1 DEF Finds
  <2>2. reading' = [reading EXCEPT ![p][r] = new]
    BY <1>6 DEF FindReads, TypeOK
  <2> HIDE DEF new
  <2> QED
    <3>1. reading' \in [Procs -> [Reads -> Finds]]
      BY <2>1, <2>2 DEF TypeOK
    <3> QED
      BY <1>6, <3>1 DEF TypeOK, FindReads
<1>7. ASSUME NEW p \in Procs, NEW r \in Reads, FindReturns(p, r) PROVE TypeOK'
  <2>1. reading[p][r].found \in SUBSET Actions
    BY DEF TypeOK, Finds
  <2>2. /\ timer' \in [Procs -> [Handles -> Phases]]
        /\ timeoutMap' \in [Procs -> [Ids -> Handles \union {None}]]
    BY <1>7, <2>1, ArmType DEF FindReturns
  <2> QED
    BY <1>7, <2>2, IdleTypes DEF TypeOK, FindReturns
<1>8. ASSUME NEW p \in Procs, NEW r \in Reads, FindFails(p, r) PROVE TypeOK'
  <2>1. reading' \in [Procs -> [Reads -> Finds]]
    BY <1>8, IdleTypes DEF TypeOK, FindFails
  <2>2. faults' \in Nat /\ missed' \subseteq Procs
    BY <1>8 DEF TypeOK, FindFails
  <2> QED
    BY <1>8, <2>1, <2>2 DEF TypeOK, FindFails
<1>9. ASSUME NEW p \in Procs, NEW h \in Handles, Fire(p, h) PROVE TypeOK'
  <2>1. timer' \in [Procs -> [Handles -> Phases]] /\ dropped' \subseteq Actions
    <3>1. PICK phase \in Phases : SetPhase(p, h, phase)
      BY <1>9 DEF Fire, Phases
    <3>2. dropped' \subseteq Actions
      BY <1>9 DEF TypeOK, Fire, Handles
    <3> QED
      BY <3>1, <3>2, SetPhaseType
  <2> QED
    BY <1>9, <2>1 DEF TypeOK, Fire
<1>10. ASSUME NEW p \in Procs, NEW h \in Handles, FnReturns(p, h) PROVE TypeOK'
  BY <1>10 DEF TypeOK, FnReturns, SetPhase, Phases, Handles
<1>11. ASSUME NEW p \in Procs, NEW h \in Handles, DeleteAction(p, h)
       PROVE  TypeOK'
  <2>1. IdOf[h[1]] \in Ids
    BY ConstantsAssumption DEF Handles
  <2> QED
    BY <1>11, <2>1 DEF TypeOK, DeleteAction, SetPhase, Phases
<1>12. ASSUME NEW p \in Procs, NEW h \in Handles, CallbackEnds(p, h)
       PROVE  TypeOK'
  <2>1. IdOf[h[1]] \in Ids
    BY ConstantsAssumption DEF Handles
  <2> QED
    BY <1>12, <2>1 DEF TypeOK, CallbackEnds, SetPhase, Phases
<1>13. ASSUME NEW p \in Procs, NEW h \in Handles, Rejects(p, h) PROVE TypeOK'
  <2>1. CASE Down(p) /\ faults' = faults + 1
    BY <2>1, ConstantsAssumption, IdleTypes DEF TypeOK, Down, Phases
  <2>2. CASE ~CrashOnRejection
    <3>1. /\ SetPhase(p, h, "rejected") /\ faults' = faults + 1
          /\ UNCHANGED <<now, doc, procVars, cronDue, timeoutMap, reading,
                         callVars, history, missed>>
      BY <1>13, <2>2 DEF Rejects
    <3>2. timer' \in [Procs -> [Handles -> Phases]]
      BY <3>1, SetPhaseType DEF Phases
    <3> QED
      BY <3>1, <3>2 DEF TypeOK
  <2> QED
    BY <1>13, <2>1, <2>2 DEF Rejects
<1>14. ASSUME NEW p \in Procs, NEW c \in Calls, NEW B \in SUBSET Actions,
              RunTimers(c, p, B)
       PROVE  TypeOK'
  BY <1>14 DEF TypeOK, RunTimers, RunCalls
<1>15. ASSUME NEW p \in Procs, NEW c \in Calls, NEW I \in SUBSET Ids,
              ClearTimers(c, p, I)
       PROVE  TypeOK'
  <2>1. [proc |-> p, ids |-> I, todo |-> I, failed |-> FALSE] \in ClearCalls
    BY DEF ClearCalls
  <2> QED
    BY <1>15, <2>1 DEF TypeOK, ClearTimers
<1>16. ASSUME NEW c \in Calls, NEW a \in Actions, SaveOne(c, a) PROVE TypeOK'
  <2>1. run' \in [Calls -> RunCalls]
    <3>1. run[c] \in RunCalls
      BY DEF TypeOK
    <3>2. /\ [run[c] EXCEPT !.todo = run[c].todo \ {a}] \in RunCalls
          /\ [run[c] EXCEPT !.todo = run[c].todo \ {a}, !.failed = TRUE]
                \in RunCalls
      BY <3>1 DEF RunCalls
    <3> QED
      BY <1>16, <3>2 DEF TypeOK, SaveOne
  <2> QED
    BY <1>16, <2>1, ConstantsAssumption DEF TypeOK, SaveOne
<1>17. ASSUME NEW c \in Calls, NEW a \in Actions, SaveFails(c, a) PROVE TypeOK'
  <2>1. run' \in [Calls -> RunCalls]
    <3>1. run[c] \in RunCalls
      BY DEF TypeOK
    <3>2. [run[c] EXCEPT !.todo = run[c].todo \ {a}, !.failed = TRUE]
             \in RunCalls
      BY <3>1 DEF RunCalls
    <3> QED
      BY <1>17, <3>2 DEF TypeOK, SaveFails
  <2> QED
    BY <1>17, <2>1 DEF TypeOK, SaveFails
<1>18. ASSUME NEW c \in Calls, RunReturns(c) PROVE TypeOK'
  <2> DEFINE p == run[c].proc
             B == run[c].batch
             due == {a \in B : ExecTimeOf[a] <= NextDate(now)}
  <2>1. p \in Procs /\ due \in SUBSET Actions
    BY <1>18 DEF TypeOK, RunReturns, RunCalls
  <2>2. /\ timer' \in [Procs -> [Handles -> Phases]]
        /\ timeoutMap' \in [Procs -> [Ids -> Handles \union {None}]]
    <3>1. CASE Arm(p, due)
      <4> HIDE DEF due
      <4> QED BY <2>1, <3>1, ArmType
    <3>2. CASE UNCHANGED <<timer, timeoutMap>>
      BY <3>2 DEF TypeOK
    <3> QED
      BY <1>18, <3>1, <3>2 DEF RunReturns
  <2>3. ackBy' \in [Actions -> Procs \union {None}]
    BY <1>18, <2>1 DEF TypeOK, RunReturns
  <2>4. run' \in [Calls -> RunCalls]
    BY <1>18, IdleTypes DEF TypeOK, RunReturns
  <2> QED
    BY <1>18, <2>2, <2>3, <2>4 DEF TypeOK, RunReturns
<1>19. ASSUME NEW c \in Calls, NEW i \in Ids, DeleteOne(c, i) PROVE TypeOK'
  <2>1. clear' \in [Calls -> ClearCalls]
    BY <1>19 DEF TypeOK, DeleteOne, ClearCalls
  <2> QED
    BY <1>19, <2>1 DEF TypeOK, DeleteOne
<1>20. ASSUME NEW c \in Calls, DeleteFails(c) PROVE TypeOK'
  <2>1. clear' \in [Calls -> ClearCalls]
    BY <1>20 DEF TypeOK, DeleteFails, ClearCalls
  <2> QED
    BY <1>20, <2>1 DEF TypeOK, DeleteFails
<1>21. ASSUME NEW c \in Calls, ClearReturns(c) PROVE TypeOK'
  <2>1. clear[c].proc \in Procs
    BY <1>21 DEF TypeOK, ClearReturns, ClearCalls
  <2>2. /\ timer' \in [Procs -> [Handles -> Phases]]
        /\ timeoutMap' \in [Procs -> [Ids -> Handles \union {None}]]
    <3>1. CASE ~clear[c].failed
      <4>1. timer' \in [Procs -> [Handles -> Phases]]
        <5> DEFINE stop(h) == timer[clear[c].proc][h] = "armed"
                    /\ \E i \in clear[c].ids : timeoutMap[clear[c].proc][i] = h
        <5>1. timer' = [timer EXCEPT ![clear[c].proc] = [h \in Handles |->
                 IF stop(h) THEN "free" ELSE timer[clear[c].proc][h]]]
          BY <1>21, <3>1 DEF ClearReturns
        <5> HIDE DEF stop
        <5> QED
          BY <2>1, <5>1 DEF TypeOK, Phases
      <4>2. timeoutMap' \in [Procs -> [Ids -> Handles \union {None}]]
        <5>1. timeoutMap' = [timeoutMap EXCEPT ![clear[c].proc] =
                 [i \in Ids |-> IF i \in clear[c].ids THEN None
                                ELSE timeoutMap[clear[c].proc][i]]]
          BY <1>21, <3>1 DEF ClearReturns
        <5> QED
          BY <2>1, <5>1 DEF TypeOK
      <4> QED
        BY <4>1, <4>2
    <3>2. CASE clear[c].failed
      BY <1>21, <3>2 DEF TypeOK, ClearReturns
    <3> QED
      BY <3>1, <3>2
  <2> QED
    BY <1>21, <2>2, IdleTypes DEF TypeOK, ClearReturns
<1>22. CASE Tick
  BY <1>22, ConstantsAssumption, TimesAssumption DEF TypeOK, Tick
<1>23. CASE UNCHANGED vars
  BY <1>23 DEF TypeOK, vars
<1> QED
  BY <1>1, <1>2, <1>3, <1>4, <1>5, <1>6, <1>7, <1>8, <1>9, <1>10, <1>11,
     <1>12, <1>13, <1>14, <1>15, <1>16, <1>17, <1>18, <1>19, <1>20, <1>21,
     <1>22, <1>23 DEF Next

\* Every reachable state is well typed.
THEOREM TypeCorrect == Spec => []TypeOK
  BY InitType, StepType, PTL DEF Spec
-----------------------------------------------------------------------------
(* Timing: everything that is or will be armed is due within a Period. *)

DueWithinPeriod(a) == ExecTimeOf[a] <= now + Period

Timing ==
    /\ NeverEarly
    /\ \A p \in Procs, h \in Handles :
          timer[p][h] = "armed" => DueWithinPeriod(h[1])
    /\ \A p \in Procs, r \in Reads, a \in Actions :
          \/ ExecTimeOf[a] <= reading[p][r].upTo
          \/ a \in reading[p][r].found
          => DueWithinPeriod(a)

\* Time never takes back that an action was due, now or within a Period.
LEMMA TickDue ==
    ASSUME TypeOK, Tick, NEW a \in Actions
    PROVE  /\ now' \in Nat
           /\ now >= ExecTimeOf[a] => now' >= ExecTimeOf[a]
           /\ DueWithinPeriod(a) => DueWithinPeriod(a)'
<1>1. /\ now \in Nat /\ Period \in Nat /\ MaxTime \in Nat
      /\ ExecTimeOf[a] \in Nat /\ ExecTimeOf[a] <= MaxTime - Period
      /\ MaxTime >= Period
  BY ConstantsAssumption, TimesAssumption DEF TypeOK
<1>2. now' = IF now + 1 < MaxTime THEN now + 1 ELSE MaxTime - Period
  BY DEF Tick
<1> QED
  BY <1>1, <1>2 DEF DueWithinPeriod

\* A pending timeout that has elapsed belongs to an action that is due: delays
\* never reach the length at which setTimeout fires at once.
LEMMA ElapsedIsDue ==
    ASSUME TypeOK, NEW a \in Actions, DueWithinPeriod(a), Elapsed(a)
    PROVE  now >= ExecTimeOf[a]
<1>1. /\ now \in Nat /\ Period \in Nat /\ MaxDelay \in Nat
      /\ ExecTimeOf[a] \in Nat /\ Period <= MaxDelay
  BY ConstantsAssumption, TimesAssumption DEF TypeOK
<1> QED
  BY <1>1 DEF DueWithinPeriod, Elapsed

\* What is due by the next tick is due within a Period.
LEMMA HorizonIsNear ==
    ASSUME TypeOK, NEW a \in Actions, ExecTimeOf[a] <= NextDate(now)
    PROVE  DueWithinPeriod(a)
<1>1. now \in Nat /\ Period \in Nat /\ ExecTimeOf[a] \in Nat
  BY ConstantsAssumption DEF TypeOK
<1> QED
  BY <1>1, NextDateBounds DEF DueWithinPeriod

\* getNextBunch asks only for what is due within a Period.
LEMMA SendFindTiming ==
    ASSUME TypeOK, Timing, NEW p \in Procs, NEW r \in Reads, SendFind(p, r),
           UNCHANGED <<now, timer>>
    PROVE  Timing'
<1>1. ASSUME NEW q \in Procs, NEW s \in Reads, NEW a \in Actions,
             \/ ExecTimeOf[a] <= reading'[q][s].upTo
             \/ a \in reading'[q][s].found
      PROVE  DueWithinPeriod(a)'
  <2>1. \/ reading'[q][s] = reading[q][s]
        \/ reading'[q][s].upTo = NextDate(now) /\ reading'[q][s].found = {}
    BY DEF SendFind, TypeOK
  <2> QED
    BY <1>1, <2>1, HorizonIsNear DEF Timing, DueWithinPeriod
<1> QED
  BY <1>1 DEF Timing, NeverEarly, DueWithinPeriod

\* A process that ends holds no timeout and no find.
LEMMA DownTiming ==
    ASSUME TypeOK, Timing, NEW p \in Procs, Down(p)
    PROVE  Timing'
<1>1. ASSUME NEW q \in Procs, NEW h \in Handles
      PROVE  timer'[q][h] \in {"free", timer[q][h]}
  BY DEF Down, TypeOK
<1>2. ASSUME NEW q \in Procs, NEW s \in Reads
      PROVE  \/ reading'[q][s] = reading[q][s]
             \/ reading'[q][s].upTo = 0 /\ reading'[q][s].found = {}
  BY DEF Down, TypeOK, NoRead
<1>3. ASSUME NEW a \in Actions, ExecTimeOf[a] <= 0 PROVE DueWithinPeriod(a)
  BY <1>3, ConstantsAssumption DEF TypeOK, DueWithinPeriod
<1> QED
  BY <1>1, <1>2, <1>3 DEF Timing, NeverEarly, DueWithinPeriod, Down

\* Every step keeps what is in flight due within a Period, and nothing runs
\* before its time.
THEOREM TimingStep == TypeOK /\ Timing /\ [Next]_vars => Timing'
<1> USE DEF procVars, callVars, history
<1> SUFFICES ASSUME TypeOK, Timing, [Next]_vars PROVE Timing'
  OBVIOUS
<1>1. CASE UNCHANGED <<now, timer, reading>>
  BY <1>1 DEF Timing, NeverEarly, DueWithinPeriod
<1>2. ASSUME NEW p \in Procs, StartUp(p) \/ CronFires(p) PROVE Timing'
  BY <1>1, <1>2, SendFindTiming DEF StartUp, CronFires
<1>3. ASSUME NEW p \in Procs, NEW h \in Handles, Down(p) PROVE Timing'
  BY <1>3, DownTiming
<1>4. ASSUME NEW p \in Procs, NEW r \in Reads, FindReads(p, r) PROVE Timing'
  <2>1. ASSUME NEW q \in Procs, NEW s \in Reads, NEW a \in Actions,
               \/ ExecTimeOf[a] <= reading'[q][s].upTo
               \/ a \in reading'[q][s].found
        PROVE  DueWithinPeriod(a)
    <3>1. PICK found : found = {b \in Stored : ExecTimeOf[b] <= reading[p][r].upTo}
      OBVIOUS
    <3>2. reading' = [reading EXCEPT
             ![p][r] = [phase |-> "read", upTo |-> 0, found |-> found]]
      BY <1>4, <3>1 DEF FindReads
    <3>3. \/ reading'[q][s] = reading[q][s]
          \/ q = p /\ s = r /\ reading'[q][s].upTo = 0 /\ reading'[q][s].found = found
      BY <3>2 DEF TypeOK
    <3>4. \/ ExecTimeOf[a] <= 0 \/ a \in reading[q][s].found
          \/ ExecTimeOf[a] <= reading[q][s].upTo
      BY <2>1, <3>1, <3>3
    <3>5. ExecTimeOf[a] <= 0 => DueWithinPeriod(a)
      BY ConstantsAssumption DEF TypeOK, DueWithinPeriod
    <3> QED
      BY <3>4, <3>5 DEF Timing
  <2> QED
    BY <1>4, <2>1 DEF FindReads, Timing, NeverEarly, DueWithinPeriod
<1>5. ASSUME NEW p \in Procs, NEW r \in Reads, FindReturns(p, r) PROVE Timing'
  <2>1. reading[p][r].found \in SUBSET Actions
    BY DEF TypeOK, Finds
  <2>2. ASSUME NEW q \in Procs, NEW h \in Handles
        PROVE  \/ timer'[q][h] = timer[q][h]
               \/ timer'[q][h] = "armed" /\ h[1] \in reading[p][r].found
    BY <1>5, <2>1, ArmStep DEF FindReturns
  <2>3. ASSUME NEW q \in Procs, NEW s \in Reads
        PROVE  \/ reading'[q][s] = reading[q][s]
               \/ reading'[q][s].upTo = 0 /\ reading'[q][s].found = {}
    BY <1>5 DEF FindReturns, TypeOK, NoRead
  <2>4. ASSUME NEW a \in Actions, ExecTimeOf[a] <= 0 PROVE DueWithinPeriod(a)
    BY <2>4, ConstantsAssumption DEF TypeOK, DueWithinPeriod
  <2>5. now' = now
    BY <1>5 DEF FindReturns
  <2> QED
    BY <2>1, <2>2, <2>3, <2>4, <2>5 DEF Timing, NeverEarly, DueWithinPeriod, Handles
<1>6. ASSUME NEW p \in Procs, NEW r \in Reads, FindFails(p, r) PROVE Timing'
  <2>1. ASSUME NEW q \in Procs, NEW s \in Reads
        PROVE  \/ reading'[q][s] = reading[q][s]
               \/ reading'[q][s].upTo = 0 /\ reading'[q][s].found = {}
    BY <1>6 DEF FindFails, TypeOK, NoRead
  <2>2. ASSUME NEW a \in Actions, ExecTimeOf[a] <= 0 PROVE DueWithinPeriod(a)
    BY <2>2, ConstantsAssumption DEF TypeOK, DueWithinPeriod
  <2> QED
    BY <1>6, <2>1, <2>2 DEF FindFails, Timing, NeverEarly, DueWithinPeriod
<1>7. ASSUME NEW p \in Procs, NEW h \in Handles, NEW phase \in Phases,
             SetPhase(p, h, phase), UNCHANGED <<now, reading>>,
             phase # "armed", phase = "running" => now >= ExecTimeOf[h[1]]
      PROVE  Timing'
  <2>1. ASSUME NEW q \in Procs, NEW g \in Handles
        PROVE  timer'[q][g] = IF q = p /\ g = h THEN phase ELSE timer[q][g]
    BY <1>7 DEF SetPhase, TypeOK
  <2> QED
    BY <1>7, <2>1 DEF Timing, NeverEarly, DueWithinPeriod
<1>8. ASSUME NEW p \in Procs, NEW h \in Handles, Fire(p, h) PROVE Timing'
  <2>1. now >= ExecTimeOf[h[1]]
    BY <1>8, ElapsedIsDue DEF Fire, Timing, Handles
  <2> QED
    BY <1>7, <1>8, <2>1 DEF Fire, Phases
<1>9. ASSUME NEW p \in Procs, NEW h \in Handles,
             FnReturns(p, h) \/ DeleteAction(p, h) \/ CallbackEnds(p, h)
      PROVE  Timing'
  BY <1>7, <1>9 DEF FnReturns, DeleteAction, CallbackEnds, Phases
<1>10. ASSUME NEW p \in Procs, NEW h \in Handles, Rejects(p, h) PROVE Timing'
  BY <1>3, <1>7, <1>10 DEF Rejects, Phases
<1>11. ASSUME NEW p \in Procs, Crash(p) PROVE Timing'
  BY <1>11, DownTiming DEF Crash
<1>12. ASSUME NEW c \in Calls, RunReturns(c) PROVE Timing'
  <2> DEFINE p   == run[c].proc
             due == {a \in run[c].batch : ExecTimeOf[a] <= NextDate(now)}
  <2>1. /\ p \in Procs /\ due \in SUBSET Actions
        /\ \A a \in due : DueWithinPeriod(a)
    BY <1>12, HorizonIsNear DEF TypeOK, RunReturns, RunCalls
  <2>2. CASE Arm(p, due)
    <3> HIDE DEF due
    <3>1. ASSUME NEW q \in Procs, NEW h \in Handles
          PROVE  \/ timer'[q][h] = timer[q][h]
                 \/ timer'[q][h] = "armed" /\ h[1] \in due
      BY <2>1, <2>2, ArmStep
    <3>2. UNCHANGED <<now, reading>>
      BY <1>12 DEF RunReturns
    <3> QED
      BY <2>1, <3>1, <3>2 DEF Timing, NeverEarly, DueWithinPeriod
  <2>3. CASE UNCHANGED timer
    BY <1>1, <1>12, <2>3 DEF RunReturns
  <2> QED
    BY <1>12, <2>2, <2>3 DEF RunReturns
<1>13. ASSUME NEW c \in Calls, ClearReturns(c) PROVE Timing'
  <2>1. ASSUME NEW q \in Procs, NEW h \in Handles
        PROVE  timer'[q][h] \in {"free", timer[q][h]}
    BY <1>13, ClearStep
  <2> QED
    BY <1>13, <2>1 DEF ClearReturns, Timing, NeverEarly, DueWithinPeriod
<1>14. CASE Tick
  <2>1. UNCHANGED <<timer, reading>>
    BY <1>14 DEF Tick
  <2> QED
    BY <1>14, <2>1, TickDue DEF Timing, NeverEarly, Handles
<1>15. ASSUME \/ \E p \in Procs :
                   \/ \E key \in FnKeys : SetFunction(p, key)
                   \/ Restart(p)
                   \/ \E c \in Calls :
                         \/ \E B \in SUBSET Actions : RunTimers(c, p, B)
                         \/ \E I \in SUBSET Ids : ClearTimers(c, p, I)
              \/ \E c \in Calls :
                   \/ \E a \in Actions : SaveOne(c, a) \/ SaveFails(c, a)
                   \/ \E i \in Ids : DeleteOne(c, i)
                   \/ DeleteFails(c)
              \/ UNCHANGED vars
       PROVE  Timing'
  BY <1>1, <1>15 DEF SetFunction, Restart, RunTimers, ClearTimers, SaveOne,
     SaveFails, DeleteOne, DeleteFails, vars
<1> QED
  BY <1>2, <1>4, <1>5, <1>6, <1>8, <1>9, <1>10, <1>11, <1>12, <1>13, <1>14,
     <1>15 DEF Next

\* No function ever runs before its time.
THEOREM NeverRunsEarly == Spec => []NeverEarly
<1>1. Init => Timing
  BY ConstantsAssumption DEF Init, Timing, NeverEarly, DueWithinPeriod, NoRead
<1>2. Timing => NeverEarly
  BY DEF Timing
<1> QED
  BY <1>1, <1>2, TimingStep, TypeCorrect, PTL DEF Spec

-----------------------------------------------------------------------------
(* The life of an action whose _id is never used again: it is saved at most
   once, timeouts exist only for actions that were saved, and a callback that
   got as far as deleting has run or discarded its action. *)

CallsInv ==
    /\ saved \subseteq submitted
    /\ \A c \in Calls :
          /\ run[c].todo \subseteq submitted \ saved
          /\ run[c].proc # None /\ ~run[c].failed
             => run[c].batch \subseteq run[c].todo \union saved
          /\ clear[c].ids \subseteq clearAsked
          /\ clear[c].todo \subseteq clear[c].ids
    /\ \A c, d \in Calls : c # d => run[c].todo \intersect run[d].todo = {}

LifeInv ==
    /\ Stored \subseteq saved
    /\ \A p \in Procs, r \in Reads : reading[p][r].found \subseteq saved
    /\ \A p \in Procs, h \in Handles :
          /\ timer[p][h] # "free" => h[1] \in saved
          /\ timer[p][h] \in {"deleting", "deleted"} => h[1] \in ran \union dropped
          /\ timer[p][h] = "deleted" => h[1] \notin Stored

\* What one call of the API holds says nothing about the others.
LEMMA CallsKept ==
    ASSUME CallsInv, UNCHANGED <<submitted, saved, clearAsked, run, clear>>
    PROVE  CallsInv'
  BY DEF CallsInv

\* Every step keeps the bookkeeping of API calls: an action is saved by at
\* most one runTimer(s), and a call that did not fail has saved what it no
\* longer has to do.
THEOREM CallsStep == TypeOK /\ CallsInv /\ [Next]_vars => CallsInv'
<1> USE DEF procVars, callVars, history
<1> SUFFICES ASSUME TypeOK, CallsInv, [Next]_vars PROVE CallsInv'
  OBVIOUS
<1>1. ASSUME NEW p \in Procs, NEW c \in Calls, NEW B \in SUBSET Actions,
             RunTimers(c, p, B)
      PROVE  CallsInv'
  <2>1. ASSUME NEW d \in Calls
        PROVE  run'[d] = IF d = c THEN [proc |-> p, batch |-> B, todo |-> B,
                                        failed |-> FALSE]
                                  ELSE run[d]
    BY <1>1 DEF RunTimers, TypeOK
  <2>2. /\ submitted' = submitted \union B /\ B \intersect submitted = {}
        /\ UNCHANGED <<saved, clear, clearAsked>>
    BY <1>1 DEF RunTimers
  <2> QED
    BY <2>1, <2>2 DEF CallsInv
<1>2. ASSUME NEW p \in Procs, NEW c \in Calls, NEW I \in SUBSET Ids,
             ClearTimers(c, p, I)
      PROVE  CallsInv'
  <2>1. ASSUME NEW d \in Calls
        PROVE  \/ clear'[d] = clear[d]
               \/ clear'[d].ids = I /\ clear'[d].todo = I
    BY <1>2 DEF ClearTimers, TypeOK
  <2>2. /\ clearAsked' = clearAsked \union I
        /\ UNCHANGED <<submitted, saved, run>>
    BY <1>2 DEF ClearTimers
  <2> QED
    BY <2>1, <2>2 DEF CallsInv
<1>3. ASSUME NEW c \in Calls, NEW a \in Actions, SaveOne(c, a)
      PROVE  CallsInv'
  <2>1. run[c].todo \subseteq submitted \ saved /\ a \in run[c].todo
    BY <1>3 DEF CallsInv, SaveOne
  <2>2. ASSUME NEW d \in Calls
        PROVE  /\ run'[d].proc = run[d].proc /\ run'[d].batch = run[d].batch
               /\ run'[d].todo = IF d = c THEN run[d].todo \ {a}
                                          ELSE run[d].todo
               /\ ~run'[d].failed => ~run[d].failed /\ (d = c => a \in saved')
    <3>1. run[d] \in RunCalls
      BY DEF TypeOK
    <3>2. CASE run' = [run EXCEPT ![c].todo = @ \ {a}] /\ a \in saved'
      BY <3>1, <3>2 DEF TypeOK, RunCalls
    <3>3. CASE run' = [run EXCEPT ![c].todo = @ \ {a}, ![c].failed = TRUE]
      BY <3>1, <3>3 DEF TypeOK, RunCalls
    <3> QED
      BY <1>3, <3>2, <3>3 DEF SaveOne
  <2>3. /\ saved' \in {saved, saved \union {a}}
        /\ UNCHANGED <<submitted, clear, clearAsked>>
    BY <1>3 DEF SaveOne
  <2>4. saved' \subseteq submitted
    BY <2>1, <2>3 DEF CallsInv
  <2>5. ASSUME NEW d \in Calls
        PROVE  /\ run'[d].todo \subseteq submitted \ saved'
               /\ run'[d].proc # None /\ ~run'[d].failed
                  => run'[d].batch \subseteq run'[d].todo \union saved'
    <3>1. run[d].todo \subseteq submitted \ saved
      BY DEF CallsInv
    <3>2. d # c => a \notin run[d].todo
      BY <2>1 DEF CallsInv
    <3>3. run'[d].todo \subseteq submitted \ saved'
      BY <2>2, <2>3, <3>1, <3>2
    <3>4. run[d].proc # None /\ ~run[d].failed
          => run[d].batch \subseteq run[d].todo \union saved
      BY DEF CallsInv
    <3> QED
      BY <2>2, <2>3, <3>3, <3>4
  <2>6. ASSUME NEW d \in Calls, NEW e \in Calls, d # e
        PROVE  run'[d].todo \intersect run'[e].todo = {}
    <3>1. run[d].todo \intersect run[e].todo = {}
      BY <2>6 DEF CallsInv
    <3>2. run'[d].todo \subseteq run[d].todo /\ run'[e].todo \subseteq run[e].todo
      BY <2>2
    <3> QED
      BY <3>1, <3>2
  <2> QED
    BY <2>3, <2>4, <2>5, <2>6 DEF CallsInv
<1>4. ASSUME NEW c \in Calls, NEW a \in Actions, SaveFails(c, a)
      PROVE  CallsInv'
  <2>1. ASSUME NEW d \in Calls
        PROVE  \/ run'[d] = run[d]
               \/ run'[d].todo \subseteq run[d].todo /\ run'[d].failed
    BY <1>4 DEF SaveFails, TypeOK, RunCalls
  <2>2. UNCHANGED <<submitted, saved, clear, clearAsked>>
    BY <1>4 DEF SaveFails
  <2> QED
    BY <2>1, <2>2 DEF CallsInv
<1>5. ASSUME NEW c \in Calls, RunReturns(c) PROVE CallsInv'
  <2>1. ASSUME NEW d \in Calls
        PROVE  \/ run'[d] = run[d]
               \/ run'[d].todo = {} /\ run'[d].proc = None
    BY <1>5 DEF RunReturns, NoRun, TypeOK
  <2>2. UNCHANGED <<submitted, saved, clear, clearAsked>>
    BY <1>5 DEF RunReturns
  <2> QED
    BY <2>1, <2>2 DEF CallsInv
<1>6. ASSUME NEW c \in Calls,
             \/ \E i \in Ids : DeleteOne(c, i)
             \/ DeleteFails(c) \/ ClearReturns(c)
      PROVE  CallsInv'
  <2>1. ASSUME NEW d \in Calls
        PROVE  /\ clear'[d].ids \subseteq clear[d].ids
               /\ \/ clear'[d].ids = clear[d].ids
                  \/ clear'[d].todo = {}
               /\ clear'[d].todo \subseteq clear[d].todo
    <3>1. clear[d] \in ClearCalls
      BY DEF TypeOK
    <3>2. ASSUME NEW i \in Ids, clear' = [clear EXCEPT ![c].todo = @ \ {i}]
          PROVE  clear'[d].ids = clear[d].ids /\ clear'[d].todo \subseteq clear[d].todo
      BY <3>1, <3>2 DEF TypeOK, ClearCalls
    <3>3. ASSUME clear' = [clear EXCEPT ![c].todo = {}, ![c].failed = TRUE]
          PROVE  clear'[d].ids = clear[d].ids /\ clear'[d].todo \subseteq clear[d].todo
      BY <3>1, <3>3 DEF TypeOK, ClearCalls
    <3>4. ASSUME clear' = [clear EXCEPT ![c] = NoClear]
          PROVE  \/ clear'[d] = clear[d]
                 \/ clear'[d].ids = {} /\ clear'[d].todo = {}
      BY <3>4 DEF TypeOK, NoClear
    <3> QED
      BY <1>6, <3>2, <3>3, <3>4 DEF DeleteOne, DeleteFails, ClearReturns
  <2>2. UNCHANGED <<submitted, saved, run, clearAsked>>
    BY <1>6 DEF DeleteOne, DeleteFails, ClearReturns
  <2> QED
    BY <2>1, <2>2 DEF CallsInv
<1>7. ASSUME NEW p \in Procs, Down(p) PROVE CallsInv'
  <2>1. ASSUME NEW d \in Calls
        PROVE  /\ \/ run'[d] = run[d]
                  \/ run'[d].todo = {} /\ run'[d].proc = None
               /\ \/ clear'[d] = clear[d]
                  \/ clear'[d].todo = {} /\ clear'[d].ids = {}
    BY <1>7 DEF Down, NoRun, NoClear
  <2>2. UNCHANGED <<submitted, saved, clearAsked>>
    BY <1>7 DEF Down
  <2> QED
    BY <2>1, <2>2 DEF CallsInv
<1>8. ASSUME NEW p \in Procs,
             Crash(p) \/ \E h \in Handles : Rejects(p, h)
      PROVE  CallsInv'
  BY <1>7, <1>8, CallsKept DEF Crash, Rejects
<1>9. ASSUME \/ \E p \in Procs :
                  \/ \E key \in FnKeys : SetFunction(p, key)
                  \/ StartUp(p) \/ CronFires(p) \/ Restart(p)
                  \/ \E r \in Reads : \/ FindReads(p, r) \/ FindReturns(p, r)
                                     \/ FindFails(p, r)
                  \/ \E h \in Handles : \/ Fire(p, h) \/ FnReturns(p, h)
                                       \/ DeleteAction(p, h)
                                       \/ CallbackEnds(p, h)
             \/ Tick
             \/ UNCHANGED vars
      PROVE  CallsInv'
  BY <1>9, CallsKept DEF SetFunction, StartUp, CronFires, Restart, FindReads,
     FindReturns, FindFails, Fire, FnReturns, DeleteAction, CallbackEnds, Tick,
     vars
<1> QED
  BY <1>1, <1>2, <1>3, <1>4, <1>5, <1>6, <1>8, <1>9 DEF Next

-----------------------------------------------------------------------------
(* What single steps do to the collection and to one timeout *)

\* Deleting a document removes its action alone from the collection.
LEMMA DocDelete ==
    ASSUME TypeOK, NEW i \in Ids, doc' = [doc EXCEPT ![i] = None]
    PROVE  Stored' = {a \in Stored : IdOf[a] # i}
  BY ConstantsAssumption DEF TypeOK, Stored

\* Inserting a document under a free _id adds its action alone.
LEMMA DocInsert ==
    ASSUME TypeOK, NEW a \in Actions, doc[IdOf[a]] = None,
           doc' = [doc EXCEPT ![IdOf[a]] = a]
    PROVE  Stored' = Stored \union {a} /\ a \notin Stored
  BY ConstantsAssumption DEF TypeOK, Stored

\* SetPhase moves one timeout and no other.
LEMMA SetPhaseStep ==
    ASSUME TypeOK, NEW p \in Procs, NEW h \in Handles, NEW phase \in Phases,
           SetPhase(p, h, phase)
    PROVE  \A q \in Procs, g \in Handles :
              timer'[q][g] = IF q = p /\ g = h THEN phase ELSE timer[q][g]
  BY DEF TypeOK, SetPhase

\* Steps that only end timeouts and finds and only remove documents.
LEMMA LifeFrame ==
    ASSUME LifeInv, saved \subseteq saved', ran \subseteq ran',
           dropped \subseteq dropped', Stored' \subseteq Stored,
           \A p \in Procs, r \in Reads : reading'[p][r].found \subseteq saved,
           \A p \in Procs, h \in Handles :
               timer'[p][h] \in {"free", timer[p][h]}
    PROVE  LifeInv'
  BY DEF LifeInv

\* Steps that arm timeouts of saved actions and touch nothing else of LifeInv.
LEMMA LifeArm ==
    ASSUME TypeOK, LifeInv, NEW p \in Procs, NEW S \in SUBSET saved, Arm(p, S),
           UNCHANGED <<doc, saved, ran, dropped>>,
           \A q \in Procs, r \in Reads : reading'[q][r].found \subseteq saved
    PROVE  LifeInv'
<1>1. S \in SUBSET Actions
  BY DEF TypeOK
<1>2. ASSUME NEW q \in Procs, NEW h \in Handles
      PROVE  \/ timer'[q][h] = timer[q][h]
             \/ timer'[q][h] = "armed" /\ h[1] \in saved
  BY <1>1, ArmStep
<1>3. Stored' = Stored
  BY DEF Stored
<1> QED
  BY <1>2, <1>3 DEF LifeInv

\* Every step keeps that timeouts and finds hold saved actions only, and that
\* a callback which deletes has run or dropped its action.
THEOREM LifeStep == TypeOK /\ CallsInv /\ LifeInv /\ [Next]_vars => LifeInv'
<1> USE DEF procVars, callVars, history
<1> SUFFICES ASSUME TypeOK, CallsInv, LifeInv, [Next]_vars PROVE LifeInv'
  OBVIOUS
<1>1. CASE UNCHANGED <<doc, saved, ran, dropped, reading, timer>>
  BY <1>1 DEF LifeInv, Stored
<1>2. ASSUME NEW p \in Procs, NEW r \in Reads, SendFind(p, r),
             UNCHANGED <<doc, saved, ran, dropped, timer>>
      PROVE  LifeInv'
  <2>1. ASSUME NEW q \in Procs, NEW s \in Reads
        PROVE  reading'[q][s].found \subseteq saved
    BY <1>2 DEF SendFind, TypeOK, LifeInv
  <2> QED
    BY <1>2, <2>1, LifeFrame DEF Stored
<1>3. ASSUME NEW p \in Procs, StartUp(p) \/ CronFires(p) PROVE LifeInv'
  BY <1>1, <1>2, <1>3 DEF StartUp, CronFires
<1>4. ASSUME NEW p \in Procs, NEW r \in Reads, FindReads(p, r) PROVE LifeInv'
  <2>1. ASSUME NEW q \in Procs, NEW s \in Reads
        PROVE  reading'[q][s].found \subseteq saved
    <3>1. \/ reading'[q][s].found = reading[q][s].found
          \/ reading'[q][s].found \subseteq Stored
      BY <1>4 DEF FindReads, TypeOK, Finds
    <3> QED
      BY <3>1 DEF LifeInv
  <2>2. UNCHANGED <<doc, saved, ran, dropped, timer>>
    BY <1>4 DEF FindReads
  <2> QED
    BY <2>1, <2>2, LifeFrame DEF Stored
<1>5. ASSUME NEW p \in Procs, NEW r \in Reads, FindReturns(p, r)
      PROVE  LifeInv'
  <2>1. ASSUME NEW q \in Procs, NEW s \in Reads
        PROVE  reading'[q][s].found \subseteq saved
    BY <1>5 DEF FindReturns, TypeOK, NoRead, LifeInv
  <2>2. reading[p][r].found \in SUBSET saved
    BY DEF LifeInv
  <2> QED
    BY <1>5, <2>1, <2>2, LifeArm DEF FindReturns
<1>6. ASSUME NEW p \in Procs, NEW r \in Reads, FindFails(p, r) PROVE LifeInv'
  <2>1. ASSUME NEW q \in Procs, NEW s \in Reads
        PROVE  reading'[q][s].found \subseteq saved
    BY <1>6 DEF FindFails, TypeOK, NoRead, LifeInv
  <2>2. UNCHANGED <<doc, saved, ran, dropped, timer>>
    BY <1>6 DEF FindFails
  <2> QED
    BY <2>1, <2>2, LifeFrame DEF Stored
<1>7. ASSUME NEW c \in Calls, NEW a \in Actions, SaveOne(c, a) PROVE LifeInv'
  <2>1. CASE doc[IdOf[a]] = None /\ doc' = [doc EXCEPT ![IdOf[a]] = a]
             /\ saved' = saved \union {a}
    <3>1. Stored' = Stored \union {a}
      BY <2>1, DocInsert
    <3>2. a \notin saved
      BY <1>7 DEF CallsInv, SaveOne
    <3>3. UNCHANGED <<ran, dropped, reading, timer>>
      BY <1>7 DEF SaveOne
    <3> QED
      BY <2>1, <3>1, <3>2, <3>3 DEF LifeInv
  <2>2. CASE UNCHANGED <<doc, saved>>
    BY <1>1, <1>7, <2>2 DEF SaveOne
  <2> QED
    BY <1>7, <2>1, <2>2 DEF SaveOne
<1>8. ASSUME NEW c \in Calls, RunReturns(c) PROVE LifeInv'
  <2> DEFINE p   == run[c].proc
             due == {a \in run[c].batch : ExecTimeOf[a] <= NextDate(now)}
  <2>1. CASE Arm(p, due) /\ ~run[c].failed
    <3>1. p \in Procs /\ due \in SUBSET saved
      BY <1>8, <2>1 DEF RunReturns, TypeOK, RunCalls, CallsInv
    <3>2. UNCHANGED <<doc, saved, ran, dropped, reading>>
      BY <1>8 DEF RunReturns
    <3> HIDE DEF p, due
    <3> QED
      BY <2>1, <3>1, <3>2, LifeArm DEF LifeInv
  <2>2. CASE UNCHANGED timer
    BY <1>1, <1>8, <2>2 DEF RunReturns
  <2> QED
    BY <1>8, <2>1, <2>2 DEF RunReturns
<1>9. ASSUME NEW c \in Calls, NEW i \in Ids, DeleteOne(c, i) PROVE LifeInv'
  <2>1. Stored' \subseteq Stored
    BY <1>9, DocDelete DEF DeleteOne
  <2> QED
    BY <1>9, <2>1, LifeFrame DEF DeleteOne, LifeInv
<1>10. ASSUME NEW c \in Calls, ClearReturns(c) PROVE LifeInv'
  BY <1>10, ClearStep, LifeFrame DEF ClearReturns, LifeInv, Stored
<1>11. ASSUME NEW p \in Procs, NEW h \in Handles, Fire(p, h) PROVE LifeInv'
  <2>1. PICK phase \in {"running", "deleting"} :
           /\ SetPhase(p, h, phase)
           /\ phase = "deleting" => h[1] \in dropped'
    BY <1>11 DEF Fire
  <2>2. \A q \in Procs, g \in Handles :
           timer'[q][g] = IF q = p /\ g = h THEN phase ELSE timer[q][g]
    BY <2>1, SetPhaseStep DEF Phases
  <2>3. /\ timer[p][h] = "armed" /\ dropped \subseteq dropped'
        /\ UNCHANGED <<doc, saved, ran, reading>>
    BY <1>11 DEF Fire
  <2>4. Stored' = Stored
    BY <2>3 DEF Stored
  <2> QED
    BY <2>1, <2>2, <2>3, <2>4 DEF LifeInv
<1>12. ASSUME NEW p \in Procs, NEW h \in Handles, FnReturns(p, h)
       PROVE  LifeInv'
  <2>1. \A q \in Procs, g \in Handles :
           timer'[q][g] = IF q = p /\ g = h THEN "deleting" ELSE timer[q][g]
    BY <1>12, SetPhaseStep DEF FnReturns, Phases
  <2>2. /\ timer[p][h] = "running" /\ ran' = ran \union {h[1]}
        /\ UNCHANGED <<doc, saved, dropped, reading>>
    BY <1>12 DEF FnReturns
  <2>3. Stored' = Stored
    BY <2>2 DEF Stored
  <2> QED
    BY <2>1, <2>2, <2>3 DEF LifeInv
<1>13. ASSUME NEW p \in Procs, NEW h \in Handles, DeleteAction(p, h)
       PROVE  LifeInv'
  <2>1. \A q \in Procs, g \in Handles :
           timer'[q][g] = IF q = p /\ g = h THEN "deleted" ELSE timer[q][g]
    BY <1>13, SetPhaseStep DEF DeleteAction, Phases
  <2>2. h[1] \in Actions /\ IdOf[h[1]] \in Ids
    BY ConstantsAssumption DEF Handles
  <2>3. Stored' \subseteq Stored /\ h[1] \notin Stored'
    BY <1>13, <2>2, DocDelete DEF DeleteAction
  <2>4. /\ timer[p][h] = "deleting"
        /\ UNCHANGED <<saved, ran, dropped, reading>>
    BY <1>13 DEF DeleteAction
  <2> QED
    BY <2>1, <2>3, <2>4 DEF LifeInv
<1>14. ASSUME NEW p \in Procs, NEW h \in Handles, CallbackEnds(p, h)
       PROVE  LifeInv'
  <2>1. \A q \in Procs, g \in Handles :
           timer'[q][g] = IF q = p /\ g = h THEN "free" ELSE timer[q][g]
    BY <1>14, SetPhaseStep DEF CallbackEnds, Phases
  <2> QED
    BY <1>14, <2>1, LifeFrame DEF CallbackEnds, LifeInv, Stored
<1>15. ASSUME NEW p \in Procs, Down(p) PROVE LifeInv'
  <2>1. ASSUME NEW q \in Procs, NEW h \in Handles
        PROVE  timer'[q][h] \in {"free", timer[q][h]}
    BY <1>15 DEF Down, TypeOK
  <2>2. ASSUME NEW q \in Procs, NEW s \in Reads
        PROVE  reading'[q][s].found \subseteq saved
    BY <1>15 DEF Down, TypeOK, NoRead, LifeInv
  <2>3. UNCHANGED <<doc, saved, ran, dropped>>
    BY <1>15 DEF Down
  <2> QED
    BY <2>1, <2>2, <2>3, LifeFrame DEF Stored
<1>16. ASSUME NEW p \in Procs, NEW h \in Handles, Rejects(p, h)
       PROVE  LifeInv'
  <2>1. CASE Down(p)
    BY <1>15, <2>1
  <2>2. CASE SetPhase(p, h, "rejected")
             /\ UNCHANGED <<doc, saved, ran, dropped, reading>>
    <3>1. \A q \in Procs, g \in Handles :
             timer'[q][g] = IF q = p /\ g = h THEN "rejected" ELSE timer[q][g]
      BY <2>2, SetPhaseStep DEF Phases
    <3>2. timer[p][h] # "free"
      BY <1>16 DEF Rejects
    <3>3. Stored' = Stored
      BY <2>2 DEF Stored
    <3> QED
      BY <2>2, <3>1, <3>2, <3>3 DEF LifeInv
  <2> QED
    BY <1>16, <2>1, <2>2 DEF Rejects
<1>17. ASSUME NEW p \in Procs, Crash(p) PROVE LifeInv'
  BY <1>15, <1>17 DEF Crash
<1>18. ASSUME \/ \E p \in Procs :
                   \/ \E key \in FnKeys : SetFunction(p, key)
                   \/ Restart(p)
                   \/ \E c \in Calls :
                         \/ \E B \in SUBSET Actions : RunTimers(c, p, B)
                         \/ \E I \in SUBSET Ids : ClearTimers(c, p, I)
              \/ \E c \in Calls :
                   \/ \E a \in Actions : SaveFails(c, a)
                   \/ DeleteFails(c)
              \/ Tick
              \/ UNCHANGED vars
       PROVE  LifeInv'
  BY <1>1, <1>18 DEF SetFunction, Restart, RunTimers, ClearTimers, SaveFails,
     DeleteFails, Tick, vars
<1> QED
  BY <1>3, <1>4, <1>5, <1>6, <1>7, <1>8, <1>9, <1>10, <1>11, <1>12, <1>13,
     <1>14, <1>16, <1>17, <1>18 DEF Next

-----------------------------------------------------------------------------
(* Timeouts and timeoutMap.  Both facts need each other: the has() check keeps
   a second timeout away only because the first one is mapped. *)

CancelInv == StoredIsCancellable /\ StoredHasOneTimer

\* Steps that end timeouts or move them past "armed", and leave the entries of
\* stored actions alone.
LEMMA CancelFrame ==
    ASSUME CancelInv, Stored' \subseteq Stored, clearAsked \subseteq clearAsked',
           \A p \in Procs, h \in Handles :
               \/ timer'[p][h] \in {"free", timer[p][h]}
               \/ timer[p][h] # "free" /\ timer'[p][h] # "armed",
           \A p \in Procs, a \in Stored' :
               timeoutMap'[p][IdOf[a]] = timeoutMap[p][IdOf[a]]
    PROVE  CancelInv'
<1>1. ASSUME NEW p \in Procs, NEW a \in Stored', NEW k \in Slots,
             timer'[p][<<a, k>>] # "free",
             timer'[p][<<a, k>>] = "armed" \/ IdOf[a] \notin clearAsked'
      PROVE  timeoutMap'[p][IdOf[a]] = <<a, k>>
  <2>1. a \in Stored /\ a \in Actions /\ <<a, k>> \in Handles
    BY DEF Stored, Handles
  <2>2. /\ timer[p][<<a, k>>] # "free"
        /\ timer[p][<<a, k>>] = "armed" \/ IdOf[a] \notin clearAsked
    BY <1>1, <2>1
  <2>3. timeoutMap[p][IdOf[a]] = <<a, k>>
    BY <2>1, <2>2 DEF CancelInv, StoredIsCancellable, StoredHasOneTimer
  <2> QED
    BY <2>3
<1> QED
  BY <1>1 DEF CancelInv, StoredIsCancellable, StoredHasOneTimer

\* A timeout is armed only where none is mapped, and is mapped at once.
LEMMA CancelArm ==
    ASSUME TypeOK, FreshIds, CancelInv, NEW p \in Procs, NEW S \in SUBSET Actions,
           Arm(p, S), UNCHANGED <<doc, clearAsked>>
    PROVE  CancelInv'
<1>1. Stored' = Stored
  BY DEF Stored
<1>2. ASSUME NEW q \in Procs, NEW a \in Stored, NEW k \in Slots,
             timer'[q][<<a, k>>] # "free",
             timer'[q][<<a, k>>] = "armed" \/ IdOf[a] \notin clearAsked
      PROVE  timeoutMap'[q][IdOf[a]] = <<a, k>>
  <2>1. a \in Actions /\ <<a, k>> \in Handles /\ IdOf[a] \in Ids
    BY ConstantsAssumption DEF Stored, Handles
  <2>2. CASE timer'[q][<<a, k>>] = timer[q][<<a, k>>]
    <3>1. timeoutMap[q][IdOf[a]] = <<a, k>>
      BY <1>2, <2>1, <2>2 DEF CancelInv, StoredIsCancellable, StoredHasOneTimer
    <3>2. timeoutMap[q][IdOf[a]] # None
      BY <2>1, <3>1, ConstantsAssumption
    <3> QED
      BY <2>1, <3>1, <3>2, ArmStep
  <2>3. CASE timer'[q][<<a, k>>] # timer[q][<<a, k>>]
    <3>1. timeoutMap'[q][IdOf[(<<a, k>>)[1]]] = <<a, k>>
      BY <2>1, <2>3, ArmStep
    <3> QED
      BY <3>1
  <2> QED
    BY <2>2, <2>3
<1> QED
  BY <1>1, <1>2 DEF CancelInv, StoredIsCancellable, StoredHasOneTimer

\* The callback's own steps.
LEMMA CancelPhase ==
    ASSUME TypeOK, CancelInv, NEW p \in Procs, NEW h \in Handles,
           NEW phase \in Phases \ {"armed"}, SetPhase(p, h, phase),
           timer[p][h] # "free", Stored' \subseteq Stored,
           UNCHANGED clearAsked,
           \A q \in Procs, a \in Stored' :
               timeoutMap'[q][IdOf[a]] = timeoutMap[q][IdOf[a]]
    PROVE  CancelInv'
<1>1. \A q \in Procs, g \in Handles :
         timer'[q][g] = IF q = p /\ g = h THEN phase ELSE timer[q][g]
  BY SetPhaseStep
<1>2. \A q \in Procs, g \in Handles :
         \/ timer'[q][g] \in {"free", timer[q][g]}
         \/ timer[q][g] # "free" /\ timer'[q][g] # "armed"
  BY <1>1
<1> QED
  BY <1>2, CancelFrame

\* Every step keeps the map entry and the only timeout of a stored action
\* together: cancelling finds it, and no second one is armed beside it.
THEOREM CancelStep ==
    FreshIds /\ TypeOK /\ CallsInv /\ LifeInv /\ CancelInv /\ [Next]_vars
        => CancelInv'
<1> USE DEF procVars, callVars, history
<1> SUFFICES ASSUME FreshIds, TypeOK, CallsInv, LifeInv, CancelInv, [Next]_vars
             PROVE  CancelInv'
  OBVIOUS
<1>1. CASE UNCHANGED <<doc, timer, timeoutMap, clearAsked>>
  BY <1>1 DEF CancelInv, StoredIsCancellable, StoredHasOneTimer, Stored
<1>2. ASSUME NEW p \in Procs, NEW c \in Calls, NEW I \in SUBSET Ids,
             ClearTimers(c, p, I)
      PROVE  CancelInv'
  BY <1>2, CancelFrame DEF ClearTimers, Stored
<1>3. ASSUME NEW p \in Procs, NEW r \in Reads, FindReturns(p, r)
      PROVE  CancelInv'
  <2>1. reading[p][r].found \in SUBSET Actions
    BY DEF TypeOK, Finds
  <2> QED
    BY <1>3, <2>1, CancelArm DEF FindReturns
<1>4. ASSUME NEW c \in Calls, RunReturns(c) PROVE CancelInv'
  <2> DEFINE p   == run[c].proc
             due == {a \in run[c].batch : ExecTimeOf[a] <= NextDate(now)}
  <2>1. p \in Procs /\ due \in SUBSET Actions
    BY <1>4 DEF RunReturns, TypeOK, RunCalls
  <2>2. UNCHANGED <<doc, clearAsked>>
    BY <1>4 DEF RunReturns
  <2>3. Arm(p, due) \/ UNCHANGED <<timer, timeoutMap>>
    BY <1>4 DEF RunReturns
  <2> HIDE DEF p, due
  <2> QED
    BY <1>1, <2>1, <2>2, <2>3, CancelArm
<1>5. ASSUME NEW c \in Calls, NEW a \in Actions, SaveOne(c, a)
      PROVE  CancelInv'
  <2>1. CASE doc[IdOf[a]] = None /\ doc' = [doc EXCEPT ![IdOf[a]] = a]
    <3>1. Stored' = Stored \union {a}
      BY <2>1, DocInsert
    <3>2. a \notin saved
      BY <1>5 DEF CallsInv, SaveOne
    <3>3. \A p \in Procs, k \in Slots : timer[p][<<a, k>>] = "free"
      BY <3>2 DEF LifeInv, Handles
    <3>4. UNCHANGED <<timer, timeoutMap, clearAsked>>
      BY <1>5 DEF SaveOne
    <3> QED
      BY <3>1, <3>3, <3>4 DEF CancelInv, StoredIsCancellable, StoredHasOneTimer
  <2>2. CASE UNCHANGED doc
    BY <1>1, <1>5, <2>2 DEF SaveOne
  <2> QED
    BY <1>5, <2>1, <2>2 DEF SaveOne
<1>6. ASSUME NEW c \in Calls, NEW i \in Ids, DeleteOne(c, i) PROVE CancelInv'
  <2>1. Stored' \subseteq Stored
    BY <1>6, DocDelete DEF DeleteOne
  <2> QED
    BY <1>6, <2>1, CancelFrame DEF DeleteOne
<1>7. ASSUME NEW c \in Calls, ClearReturns(c) PROVE CancelInv'
  <2>1. UNCHANGED <<doc, clearAsked>> /\ Stored' = Stored
    BY <1>7 DEF ClearReturns, Stored
  <2>2. ASSUME NEW q \in Procs, NEW a \in Stored, NEW k \in Slots,
               timer'[q][<<a, k>>] # "free",
               timer'[q][<<a, k>>] = "armed" \/ IdOf[a] \notin clearAsked
        PROVE  timeoutMap'[q][IdOf[a]] = <<a, k>>
    <3>1. <<a, k>> \in Handles /\ IdOf[a] \in Ids
      BY ConstantsAssumption DEF Stored, Handles
    <3>2. timer'[q][<<a, k>>] = timer[q][<<a, k>>]
      BY <1>7, <2>2, <3>1, ClearStep
    <3>3. timeoutMap[q][IdOf[a]] = <<a, k>>
      BY <2>2, <3>1, <3>2 DEF CancelInv, StoredIsCancellable, StoredHasOneTimer
    <3>4. clear[c].ids \subseteq clearAsked
      BY DEF CallsInv
    <3> QED
      BY <1>7, <2>2, <3>1, <3>3, <3>4, ClearStep
  <2> QED
    BY <2>1, <2>2 DEF CancelInv, StoredIsCancellable, StoredHasOneTimer
<1>8. ASSUME NEW p \in Procs, NEW h \in Handles,
             Fire(p, h) \/ FnReturns(p, h) \/ DeleteAction(p, h)
      PROVE  CancelInv'
  <2>1. h[1] \in Actions /\ IdOf[h[1]] \in Ids
    BY ConstantsAssumption DEF Handles
  <2>2. Stored' \subseteq Stored
    BY <1>8, <2>1, DocDelete DEF Fire, FnReturns, DeleteAction, Stored
  <2>3. PICK phase \in Phases \ {"armed"} : SetPhase(p, h, phase)
    BY <1>8 DEF Fire, FnReturns, DeleteAction, Phases
  <2>4. timer[p][h] # "free" /\ UNCHANGED <<timeoutMap, clearAsked>>
    BY <1>8 DEF Fire, FnReturns, DeleteAction
  <2> QED
    BY <2>2, <2>3, <2>4, CancelPhase
<1>9. ASSUME NEW p \in Procs, NEW h \in Handles, CallbackEnds(p, h)
      PROVE  CancelInv'
  <2>1. h[1] \in Actions /\ h[1] \notin Stored
    BY <1>9 DEF CallbackEnds, LifeInv, Handles
  <2>2. /\ SetPhase(p, h, "free") /\ timer[p][h] # "free"
        /\ UNCHANGED clearAsked /\ Stored' = Stored
        /\ timeoutMap' = [timeoutMap EXCEPT ![p][IdOf[h[1]]] = None]
    BY <1>9 DEF CallbackEnds, Stored
  <2>3. ASSUME NEW q \in Procs, NEW a \in Stored
        PROVE  timeoutMap'[q][IdOf[a]] = timeoutMap[q][IdOf[a]]
    <3>1. a \in Actions /\ IdOf[a] \in Ids /\ IdOf[a] # IdOf[h[1]]
      BY <2>1, ConstantsAssumption DEF FreshIds, Stored
    <3> QED
      BY <2>2, <3>1 DEF TypeOK
  <2> QED
    BY <2>2, <2>3, CancelPhase DEF Phases
<1>10. ASSUME NEW p \in Procs, Down(p) PROVE CancelInv'
  <2>1. ASSUME NEW q \in Procs, NEW h \in Handles, timer'[q][h] # "free"
        PROVE  timer'[q][h] = timer[q][h] /\ timeoutMap'[q] = timeoutMap[q]
    BY <1>10, <2>1 DEF Down, TypeOK
  <2>2. UNCHANGED <<doc, clearAsked>> /\ Stored' = Stored
    BY <1>10 DEF Down, Stored
  <2>3. ASSUME NEW a \in Stored, NEW k \in Slots PROVE <<a, k>> \in Handles
    BY DEF Stored, Handles
  <2> QED
    BY <2>1, <2>2, <2>3 DEF CancelInv, StoredIsCancellable, StoredHasOneTimer
<1>11. ASSUME NEW p \in Procs, NEW h \in Handles, Rejects(p, h)
       PROVE  CancelInv'
  <2>1. CASE Down(p)
    BY <1>10, <2>1
  <2>2. CASE SetPhase(p, h, "rejected") /\ UNCHANGED <<doc, timeoutMap, clearAsked>>
    <3>1. timer[p][h] # "free" /\ Stored' = Stored
      BY <1>11, <2>2 DEF Rejects, Stored
    <3> QED
      BY <2>2, <3>1, CancelPhase DEF Phases
  <2> QED
    BY <1>11, <2>1, <2>2 DEF Rejects
<1>12. ASSUME NEW p \in Procs, Crash(p) PROVE CancelInv'
  BY <1>10, <1>12 DEF Crash
<1>13. ASSUME \/ \E p \in Procs :
                   \/ \E key \in FnKeys : SetFunction(p, key)
                   \/ StartUp(p) \/ CronFires(p) \/ Restart(p)
                   \/ \E r \in Reads : FindReads(p, r) \/ FindFails(p, r)
                   \/ \E c \in Calls :
                         \E B \in SUBSET Actions : RunTimers(c, p, B)
              \/ \E c \in Calls :
                   \/ \E a \in Actions : SaveFails(c, a)
                   \/ DeleteFails(c)
              \/ Tick
              \/ UNCHANGED vars
       PROVE  CancelInv'
  BY <1>1, <1>13 DEF SetFunction, StartUp, CronFires, Restart, FindReads,
     FindFails, RunTimers, SaveFails, DeleteFails, Tick, vars
<1> QED
  BY <1>2, <1>3, <1>4, <1>5, <1>6, <1>7, <1>8, <1>9, <1>11, <1>12, <1>13
     DEF Next

\* The invariants hold before the service starts.
LEMMA LifeInit == Init => CallsInv /\ LifeInv /\ CancelInv /\ AccountedFor
<1> SUFFICES ASSUME Init PROVE CallsInv /\ LifeInv /\ CancelInv /\ AccountedFor
  OBVIOUS
<1>1. Stored = {}
  BY ConstantsAssumption DEF Init, Stored
<1> QED
  BY <1>1 DEF Init, CallsInv, LifeInv, CancelInv, StoredIsCancellable,
     StoredHasOneTimer, AccountedFor, NoRead, NoRun, NoClear

\* The four invariants hold together in every reachable state.
LEMMA Bookkeeping ==
    ASSUME FreshIds
    PROVE  Spec => [](TypeOK /\ Timing /\ CallsInv /\ LifeInv /\ CancelInv)
<1> DEFINE Inv == TypeOK /\ Timing /\ CallsInv /\ LifeInv /\ CancelInv
<1>1. Init => Inv
  <2>1. Init => Timing
    BY ConstantsAssumption DEF Init, Timing, NeverEarly, DueWithinPeriod, NoRead
  <2> QED
    BY <2>1, InitType, LifeInit
<1>2. Inv /\ [Next]_vars => Inv'
  BY FreshIds, StepType, TimingStep, CallsStep, LifeStep, CancelStep
<1> QED
  BY <1>1, <1>2, PTL DEF Spec

\* In any instance with fresh ids, the pending timeout of a stored action is
\* the one clearTimer will find.
THEOREM StoredActionsAreCancellable ==
    ASSUME FreshIds PROVE Spec => []StoredIsCancellable
<1>1. CancelInv => StoredIsCancellable
  BY DEF CancelInv
<1> QED
  BY <1>1, Bookkeeping, PTL

\* In any instance with fresh ids, a process holds one timeout per stored
\* action nobody asked to clear.
THEOREM StoredActionsHaveOneTimer ==
    ASSUME FreshIds PROVE Spec => []StoredHasOneTimer
<1>1. CancelInv => StoredHasOneTimer
  BY DEF CancelInv
<1> QED
  BY <1>1, Bookkeeping, PTL

-----------------------------------------------------------------------------
(* Refinement: the service implements TimedActions *)

\* What a step does to the abstract state.
AbstractStutter == UNCHANGED <<now, doc, saved, ran, dropped, clearAsked>>

\* The obligation of each step.
Step == [Promise!Next]_(Promise!vars) /\ AccountedFor'

\* Every step of the service is a step of TimedActions or a stutter, and takes
\* no action out of the collection without a reason.
LEMMA PromiseStep ==
    ASSUME FreshIds, TypeOK, Timing, CallsInv, LifeInv, AccountedFor, [Next]_vars
    PROVE  Step
<1> USE DEF procVars, callVars, history
<1>1. CASE AbstractStutter
  <2>1. Stored' = Stored
    BY <1>1 DEF AbstractStutter, Stored
  <2> QED
    BY <1>1, <2>1 DEF AbstractStutter, Promise!vars, AccountedFor, Step
<1>2. ASSUME NEW c \in Calls, NEW a \in Actions, SaveOne(c, a) PROVE Step
  <2>1. CASE /\ doc[IdOf[a]] = None /\ doc' = [doc EXCEPT ![IdOf[a]] = a]
             /\ saved' = saved \union {a}
    <3>1. Stored' = Stored \union {a} /\ a \notin saved
      BY <1>2, <2>1, DocInsert DEF CallsInv, SaveOne
    <3>2. UNCHANGED <<now, ran, dropped, clearAsked>>
      BY <1>2 DEF SaveOne
    <3>3. Promise!Accept(a)
      BY <2>1, <3>1, <3>2 DEF Promise!Accept
    <3>4. AccountedFor'
      BY <2>1, <3>1, <3>2 DEF AccountedFor
    <3> QED
      BY <3>3, <3>4 DEF Promise!Next, Step
  <2>2. CASE UNCHANGED <<doc, saved>>
    BY <1>1, <1>2, <2>2 DEF SaveOne, AbstractStutter
  <2> QED
    BY <1>2, <2>1, <2>2 DEF SaveOne
<1>3. ASSUME NEW p \in Procs, NEW c \in Calls, NEW I \in SUBSET Ids,
             ClearTimers(c, p, I)
      PROVE  Step
  <2>1. /\ clearAsked' = clearAsked \union I
        /\ UNCHANGED <<now, doc, saved, ran, dropped>> /\ Stored' = Stored
    BY <1>3 DEF ClearTimers, Stored
  <2>2. Promise!AskCancel(I)
    BY <2>1 DEF Promise!AskCancel
  <2>3. AccountedFor'
    BY <2>1 DEF AccountedFor
  <2> QED
    BY <2>2, <2>3 DEF Promise!Next, Step
\* A document goes: either nothing was stored under the id, or one action
\* retires.
<1>4. ASSUME NEW i \in Ids, doc' = [doc EXCEPT ![i] = None],
             UNCHANGED <<now, saved, ran, dropped, clearAsked>>,
             \A a \in Actions : IdOf[a] = i =>
                 a \in ran \union dropped \/ IdOf[a] \in clearAsked
      PROVE  Step
  <2>1. Stored' = {a \in Stored : IdOf[a] # i}
    BY <1>4, DocDelete
  <2>2. AccountedFor'
    BY <1>4, <2>1 DEF AccountedFor, TypeOK
  <2>3. ASSUME \A a \in Stored : IdOf[a] # i
        PROVE  [Promise!Next]_(Promise!vars)
    <3>1. Stored' = Stored
      BY <2>1, <2>3
    <3> QED
      BY <1>4, <3>1 DEF Promise!vars
  <2>4. ASSUME NEW a \in Stored, IdOf[a] = i
        PROVE  [Promise!Next]_(Promise!vars)
    <3>1. a \in Actions
      BY DEF Stored
    <3>2. Stored' = Stored \ {a}
      BY <2>1, <2>4, <3>1 DEF FreshIds, Stored
    <3>3. Promise!Retire(a)
      BY <1>4, <2>4, <3>1, <3>2 DEF Promise!Retire
    <3> QED
      BY <3>1, <3>3 DEF Promise!Next, Step
  <2> QED
    BY <2>2, <2>3, <2>4 DEF Step
<1>5. ASSUME NEW c \in Calls, NEW i \in Ids, DeleteOne(c, i) PROVE Step
  <2>1. i \in clearAsked
    BY <1>5 DEF DeleteOne, CallsInv
  <2> QED
    BY <1>4, <1>5, <2>1 DEF DeleteOne
<1>6. ASSUME NEW p \in Procs, NEW h \in Handles, Fire(p, h) PROVE Step
  <2>1. h[1] \in Actions /\ h[1] \in saved
    BY <1>6 DEF Fire, LifeInv, Handles
  <2>2. now >= ExecTimeOf[h[1]]
    BY <1>6, <2>1, ElapsedIsDue DEF Fire, Timing
  <2>3. /\ UNCHANGED <<now, doc, saved, ran, clearAsked>> /\ Stored' = Stored
        /\ dropped' \in {dropped, dropped \union {h[1]}}
    BY <1>6 DEF Fire, Stored
  <2>4. CASE dropped' = dropped
    BY <1>1, <2>3, <2>4 DEF AbstractStutter
  <2>5. CASE dropped' = dropped \union {h[1]}
    <3>1. Promise!Discard(h[1])
      BY <2>1, <2>2, <2>3, <2>5 DEF Promise!Discard
    <3>2. AccountedFor'
      BY <2>3, <2>5 DEF AccountedFor
    <3> QED
      BY <2>1, <3>1, <3>2 DEF Promise!Next, Step
  <2> QED
    BY <2>3, <2>4, <2>5
<1>7. ASSUME NEW p \in Procs, NEW h \in Handles, FnReturns(p, h) PROVE Step
  <2>1. h[1] \in Actions /\ h[1] \in saved
    BY <1>7 DEF FnReturns, LifeInv, Handles
  <2>2. now >= ExecTimeOf[h[1]]
    BY <1>7 DEF FnReturns, Timing, NeverEarly
  <2>3. /\ UNCHANGED <<now, doc, saved, dropped, clearAsked>> /\ Stored' = Stored
        /\ ran' = ran \union {h[1]}
    BY <1>7 DEF FnReturns, Stored
  <2>4. Promise!Execute(h[1])
    BY <2>1, <2>2, <2>3 DEF Promise!Execute
  <2>5. AccountedFor'
    BY <2>3 DEF AccountedFor
  <2> QED
    BY <2>1, <2>4, <2>5 DEF Promise!Next, Step
<1>8. ASSUME NEW p \in Procs, NEW h \in Handles, DeleteAction(p, h) PROVE Step
  <2>1. h[1] \in Actions /\ IdOf[h[1]] \in Ids
    BY ConstantsAssumption DEF Handles
  <2>2. h[1] \in ran \union dropped
    BY <1>8 DEF DeleteAction, LifeInv
  <2>3. \A a \in Actions : IdOf[a] = IdOf[h[1]] => a = h[1]
    BY <2>1 DEF FreshIds
  <2>4. /\ doc' = [doc EXCEPT ![IdOf[h[1]]] = None]
        /\ UNCHANGED <<now, saved, ran, dropped, clearAsked>>
    BY <1>8 DEF DeleteAction
  <2> QED
    BY <1>4, <2>1, <2>2, <2>3, <2>4
<1>9. CASE Tick
  <2>1. UNCHANGED <<doc, saved, ran, dropped, clearAsked>> /\ Stored' = Stored
    BY <1>9 DEF Tick, Stored
  <2>2. now' \in Nat
    BY <1>9, ConstantsAssumption, TimesAssumption DEF Tick, TypeOK
  <2>3. \A a \in Actions : now >= ExecTimeOf[a] => now' >= ExecTimeOf[a]
    BY <1>9, TickDue
  <2>4. Promise!Tick
    BY <2>1, <2>2, <2>3 DEF Promise!Tick
  <2>5. AccountedFor'
    BY <2>1 DEF AccountedFor
  <2> QED
    BY <2>4, <2>5 DEF Promise!Next, Step
<1>10. ASSUME NEW p \in Procs,
              Crash(p) \/ \E h \in Handles : Rejects(p, h) \/ CallbackEnds(p, h)
       PROVE  Step
  <2>1. AbstractStutter
    BY <1>10 DEF Crash, Rejects, CallbackEnds, Down, AbstractStutter
  <2> QED
    BY <1>1, <2>1
<1>11. ASSUME \/ \E p \in Procs :
                   \/ \E key \in FnKeys : SetFunction(p, key)
                   \/ StartUp(p) \/ CronFires(p) \/ Restart(p)
                   \/ \E r \in Reads : \/ FindReads(p, r) \/ FindReturns(p, r)
                                      \/ FindFails(p, r)
                   \/ \E c \in Calls :
                         \E B \in SUBSET Actions : RunTimers(c, p, B)
              \/ \E c \in Calls :
                   \/ \E a \in Actions : SaveFails(c, a)
                   \/ RunReturns(c) \/ DeleteFails(c) \/ ClearReturns(c)
              \/ UNCHANGED vars
       PROVE  Step
  <2>1. AbstractStutter
    BY <1>11 DEF SetFunction, StartUp, CronFires, Restart, FindReads,
       FindReturns, FindFails, RunTimers, SaveFails, RunReturns, DeleteFails,
       ClearReturns, AbstractStutter, vars
  <2> QED
    BY <1>1, <2>1
<1> QED
  BY <1>2, <1>3, <1>5, <1>6, <1>7, <1>8, <1>9, <1>10, <1>11 DEF Next

\* No action is lost: a stored document goes only for one of the three reasons.
THEOREM NoActionIsLost == ASSUME FreshIds PROVE Spec => []AccountedFor
<1> DEFINE Inv == TypeOK /\ Timing /\ CallsInv /\ LifeInv /\ CancelInv
<1>1. Init => AccountedFor
  BY LifeInit
<1>2. Inv /\ AccountedFor /\ [Next]_vars => AccountedFor'
  BY FreshIds, PromiseStep DEF Step
<1>3. Spec => []Inv
  BY Bookkeeping
<1> HIDE DEF Inv
<1> QED
  BY <1>1, <1>2, <1>3, PTL DEF Spec

\* The service, whatever its finds, crashes and races, is a timer that executes
\* accepted actions at least once, never early, and drops none silently.
THEOREM ServiceKeepsPromise == ASSUME FreshIds PROVE Spec => ImplementsPromise
<1> DEFINE Inv == TypeOK /\ Timing /\ CallsInv /\ LifeInv /\ AccountedFor
<1>1. Init => Promise!Init
  <2> SUFFICES ASSUME Init PROVE Promise!Init
    OBVIOUS
  <2>1. Stored = {}
    BY ConstantsAssumption DEF Init, Stored
  <2> QED
    BY <2>1 DEF Init, Promise!Init
<1>2. Inv /\ [Next]_vars => [Promise!Next]_(Promise!vars)
  BY FreshIds, PromiseStep DEF Step
<1>3. Spec => []Inv
  BY Bookkeeping, NoActionIsLost, FreshIds, PTL
<1> HIDE DEF Inv
<1>4. Spec => Promise!Init /\ [][Promise!Next]_(Promise!vars)
  BY <1>1, <1>2, <1>3, PTL DEF Spec
<1> QED
  BY <1>4 DEF ImplementsPromise, Promise!Spec

-----------------------------------------------------------------------------
(* Acknowledged actions are in hand *)

\* A natural number is a multiple of Period and what `%` leaves.
LEMMA Division ==
    ASSUME NEW n \in Nat
    PROVE  \E q \in Nat : n = q * Period + (n % Period)
<1>1. Period \in Nat \ {0}
  BY ConstantsAssumption
<1>2. n \div Period \in Nat /\ n = (n \div Period) * Period + (n % Period)
  BY <1>1
<1> QED
  BY <1>2

\* What is left of a multiple of Period and a smaller number is that number.
LEMMA Remainder ==
    ASSUME NEW q \in Nat, NEW s \in 0..(Period - 1)
    PROVE  (q * Period + s) % Period = s
<1>1. Period \in Nat \ {0}
  BY ConstantsAssumption
<1> QED
  BY <1>1

\* Between two ticks the remainder counts the units since the last one, and a
\* clock set back by a period keeps it.
LEMMA RemainderSteps ==
    ASSUME NEW n \in Nat
    PROVE  /\ (n + Period) % Period = n % Period
           /\ (n + 1) % Period # 0 => (n + 1) % Period = (n % Period) + 1
<1>1. Period \in Nat /\ Period > 0
  BY ConstantsAssumption
<1>2. PICK q \in Nat : n = q * Period + (n % Period)
  BY Division
<1>3. PICK r : r = n % Period
  OBVIOUS
<1>4. r \in 0..(Period - 1) /\ n = q * Period + r
  BY <1>1, <1>2, <1>3
<1>5. (q + 1) * Period = q * Period + Period
  BY <1>1
<1>6. (n + Period) % Period = r
  <2>1. n + Period = (q + 1) * Period + r
    BY <1>1, <1>4, <1>5
  <2>2. q + 1 \in Nat
    OBVIOUS
  <2> QED
    BY <1>4, <2>1, <2>2, Remainder
<1>7. CASE r + 1 < Period
  <2>1. r + 1 \in 0..(Period - 1) /\ n + 1 = q * Period + (r + 1)
    BY <1>1, <1>4, <1>7
  <2>2. (n + 1) % Period = r + 1
    BY <2>1, Remainder
  <2> QED
    BY <1>3, <1>6, <2>2
<1>8. CASE ~(r + 1 < Period)
  <2>1. n + 1 = (q + 1) * Period + 0 /\ 0 \in 0..(Period - 1) /\ q + 1 \in Nat
    BY <1>1, <1>4, <1>5, <1>8
  <2>2. (n + 1) % Period = 0
    BY <2>1, Remainder
  <2> QED
    BY <1>3, <1>6, <2>2
<1> QED
  BY <1>7, <1>8

\* The clock stays below the time at which it wraps.
ClockInv == now < MaxTime

\* As long as the clock does not reach a tick, the next one does not move away.
LEMMA TickHorizon ==
    ASSUME TypeOK, ClockInv, Tick
    PROVE  /\ ClockInv'
           /\ now' % Period # 0 => NextDate(now)' <= NextDate(now)
<1>1. /\ now \in Nat /\ Period \in Nat /\ Period > 0 /\ MaxTime \in Nat
      /\ MaxTime >= Period /\ now < MaxTime
  BY ConstantsAssumption, TimesAssumption DEF TypeOK, ClockInv
<1>2. now' = IF now + 1 < MaxTime THEN now + 1 ELSE MaxTime - Period
  BY DEF Tick
<1>3. now % Period \in Nat
  BY <1>1
<1>4. ASSUME now' % Period # 0
      PROVE  NextDate(now)' <= NextDate(now)
  <2>1. CASE now' = now + 1
    <3>1. now' % Period = (now % Period) + 1
      BY <1>1, <1>4, <2>1, RemainderSteps
    <3> QED
      BY <1>1, <1>3, <2>1, <3>1 DEF NextDate
  <2>2. CASE now' = MaxTime - Period /\ now + 1 = MaxTime
    <3>1. now' \in Nat /\ now' + Period = now + 1
      BY <1>1, <2>2
    <3>2. (now + 1) % Period = now' % Period
      BY <3>1, RemainderSteps
    <3>3. now' % Period = (now % Period) + 1
      BY <1>1, <1>4, <3>2, RemainderSteps
    <3>4. ASSUME NEW n \in Nat, NEW m \in Nat, NEW r \in Nat, m + Period = n + 1
          PROVE  m + Period - (r + 1) <= n + Period - r
      BY <1>1, <3>4
    <3>5. now' + Period - (now' % Period) <= now + Period - (now % Period)
      BY <1>1, <1>3, <3>1, <3>3, <3>4
    <3> QED
      BY <3>5 DEF NextDate
  <2> QED
    BY <1>1, <1>2, <2>1, <2>2
<1>5. ClockInv'
  BY <1>1, <1>2 DEF ClockInv
<1> QED
  BY <1>4, <1>5

\* Only a Tick moves the clock, and never to where it wraps.
LEMMA ClockStep == ASSUME TypeOK, ClockInv, [Next]_vars PROVE ClockInv'
<1>1. CASE Tick
  BY <1>1, TickHorizon
<1>2. CASE UNCHANGED now
  BY <1>2 DEF ClockInv
<1>3. Tick \/ UNCHANGED now
  <2>1. ASSUME NEW p \in Procs,
               \/ \E key \in FnKeys : SetFunction(p, key)
               \/ StartUp(p) \/ CronFires(p) \/ Crash(p) \/ Restart(p)
               \/ \E r \in Reads : \/ FindReads(p, r) \/ FindReturns(p, r)
                                  \/ FindFails(p, r)
        PROVE  UNCHANGED now
    BY <2>1 DEF SetFunction, StartUp, CronFires, Crash, Restart, Down,
       FindReads, FindReturns, FindFails
  <2>2. ASSUME NEW p \in Procs,
               \/ \E h \in Handles : \/ Fire(p, h) \/ FnReturns(p, h)
                                    \/ DeleteAction(p, h)
                                    \/ CallbackEnds(p, h)
                                    \/ Rejects(p, h)
               \/ \E c \in Calls :
                     \/ \E B \in SUBSET Actions : RunTimers(c, p, B)
                     \/ \E I \in SUBSET Ids : ClearTimers(c, p, I)
        PROVE  UNCHANGED now
    BY <2>2 DEF Fire, FnReturns, DeleteAction, CallbackEnds, Rejects, Down,
       RunTimers, ClearTimers
  <2>3. ASSUME NEW c \in Calls,
               \/ \E a \in Actions : SaveOne(c, a) \/ SaveFails(c, a)
               \/ RunReturns(c)
               \/ \E i \in Ids : DeleteOne(c, i)
               \/ DeleteFails(c) \/ ClearReturns(c)
        PROVE  UNCHANGED now
    BY <2>3 DEF SaveOne, SaveFails, RunReturns, DeleteOne, DeleteFails,
       ClearReturns
  <2> QED
    BY <2>1, <2>2, <2>3 DEF Next, vars
<1> QED
  BY <1>1, <1>2, <1>3

\* What has been answered is in no call any more, by a process that is started.
BatchInv ==
    /\ \A c \in Calls : /\ run[c].todo \subseteq run[c].batch
                        /\ run[c].batch \subseteq submitted
    /\ \A c, d \in Calls : c # d => run[c].batch \intersect run[d].batch = {}
    /\ \A a \in Actions : ackBy[a] # None =>
          /\ a \in submitted /\ ackBy[a] \in started
          /\ \A c \in Calls : a \notin run[c].batch

\* Only a find that was answered has found something.
ReadsInv ==
    \A p \in Procs, r \in Reads :
        reading[p][r].phase # "read" => reading[p][r].found = {}

\* Every step keeps the batches of calls apart, and what was answered out of them.
LEMMA BatchStep == TypeOK /\ BatchInv /\ [Next]_vars => BatchInv'
<1> USE DEF procVars, callVars, history
<1> SUFFICES ASSUME TypeOK, BatchInv, [Next]_vars PROVE BatchInv'
  OBVIOUS
<1>1. CASE UNCHANGED <<run, submitted, ackBy, started>>
  BY <1>1 DEF BatchInv
<1>2. ASSUME NEW p \in Procs, NEW c \in Calls, NEW B \in SUBSET Actions,
             RunTimers(c, p, B)
      PROVE  BatchInv'
  <2>1. \A d \in Calls :
           run'[d] = IF d = c THEN [proc |-> p, batch |-> B, todo |-> B,
                                    failed |-> FALSE]
                              ELSE run[d]
    BY <1>2 DEF RunTimers, TypeOK
  <2>2. /\ submitted' = submitted \union B /\ B \intersect submitted = {}
        /\ UNCHANGED <<ackBy, started>>
    BY <1>2 DEF RunTimers
  <2> QED
    BY <2>1, <2>2 DEF BatchInv
<1>3. ASSUME NEW c \in Calls, NEW a \in Actions, SaveOne(c, a) \/ SaveFails(c, a)
      PROVE  BatchInv'
  <2>1. ASSUME NEW d \in Calls
        PROVE  run'[d].batch = run[d].batch /\ run'[d].todo \subseteq run[d].todo
    <3>1. run[d] \in RunCalls
      BY DEF TypeOK
    <3>2. CASE run' = [run EXCEPT ![c].todo = @ \ {a}]
      BY <3>1, <3>2 DEF TypeOK, RunCalls
    <3>3. CASE run' = [run EXCEPT ![c].todo = @ \ {a}, ![c].failed = TRUE]
      BY <3>1, <3>3 DEF TypeOK, RunCalls
    <3> QED
      BY <1>3, <3>2, <3>3 DEF SaveOne, SaveFails
  <2>2. UNCHANGED <<submitted, ackBy, started>>
    BY <1>3 DEF SaveOne, SaveFails
  <2> QED
    BY <2>1, <2>2 DEF BatchInv
<1>4. ASSUME NEW c \in Calls, RunReturns(c) PROVE BatchInv'
  <2>1. \A d \in Calls : run'[d] = IF d = c THEN NoRun ELSE run[d]
    BY <1>4 DEF RunReturns, TypeOK
  <2>2. UNCHANGED <<submitted, started>>
    BY <1>4 DEF RunReturns
  <2>3. \A a \in Actions :
           \/ ackBy'[a] = ackBy[a]
           \/ a \in run[c].batch /\ ackBy'[a] \in started
    BY <1>4 DEF RunReturns
  <2>4. \A d \in Calls :
           /\ run'[d].todo \subseteq run'[d].batch
           /\ run'[d].batch \subseteq run[d].batch
           /\ d = c => run'[d].batch = {}
    BY <2>1 DEF BatchInv, NoRun
  <2> QED
    BY <2>2, <2>3, <2>4 DEF BatchInv
<1>5. ASSUME NEW p \in Procs, Down(p) PROVE BatchInv'
  <2>1. \A d \in Calls : run'[d] = IF run[d].proc = p THEN NoRun ELSE run[d]
    BY <1>5 DEF Down
  <2>2. /\ UNCHANGED submitted
        /\ started' = started \ {p}
        /\ \A a \in Actions : ackBy'[a] = IF ackBy[a] = p THEN None ELSE ackBy[a]
    BY <1>5 DEF Down
  <2>3. \A d \in Calls :
           /\ run'[d].todo \subseteq run'[d].batch
           /\ run'[d].batch \subseteq run[d].batch
    BY <2>1 DEF BatchInv, NoRun
  <2> QED
    BY <2>2, <2>3 DEF BatchInv
<1>6. ASSUME NEW p \in Procs, Crash(p) \/ \E h \in Handles : Rejects(p, h)
      PROVE  BatchInv'
  BY <1>1, <1>5, <1>6 DEF Crash, Rejects
<1>7. ASSUME NEW p \in Procs, StartUp(p) PROVE BatchInv'
  <2>1. started \subseteq started' /\ UNCHANGED <<run, submitted, ackBy>>
    BY <1>7 DEF StartUp
  <2> QED
    BY <2>1 DEF BatchInv
<1>8. ASSUME NEW p \in Procs,
             \/ \E key \in FnKeys : SetFunction(p, key)
             \/ CronFires(p) \/ Restart(p)
             \/ \E r \in Reads : \/ FindReads(p, r) \/ FindReturns(p, r)
                                \/ FindFails(p, r)
      PROVE  BatchInv'
  BY <1>1, <1>8 DEF SetFunction, CronFires, Restart, FindReads, FindReturns,
     FindFails
<1>9. ASSUME NEW p \in Procs,
             \/ \E h \in Handles : \/ Fire(p, h) \/ FnReturns(p, h)
                                  \/ DeleteAction(p, h)
                                  \/ CallbackEnds(p, h)
             \/ \E c \in Calls :
                   \E I \in SUBSET Ids : ClearTimers(c, p, I)
      PROVE  BatchInv'
  BY <1>1, <1>9 DEF Fire, FnReturns, DeleteAction, CallbackEnds, ClearTimers
<1>10. ASSUME \/ \E c \in Calls : \/ \E i \in Ids : DeleteOne(c, i)
                                 \/ DeleteFails(c) \/ ClearReturns(c)
             \/ Tick
             \/ UNCHANGED vars
      PROVE  BatchInv'
  BY <1>1, <1>10 DEF DeleteOne, DeleteFails, ClearReturns, Tick, vars
<1> QED
  BY <1>2, <1>3, <1>4, <1>6, <1>7, <1>8, <1>9, <1>10 DEF Next

\* A find that is sent has found nothing yet, and takes no other's place.
LEMMA SendFindStep ==
    ASSUME TypeOK, ReadsInv, NEW p \in Procs, NEW r \in Reads, SendFind(p, r)
    PROVE  /\ ReadsInv'
           /\ reading[p][r].phase = "idle" /\ reading[p][r].found = {}
           /\ \A q \in Procs, s \in Reads :
                 reading'[q][s] = IF q = p /\ s = r
                     THEN [phase |-> "sent", upTo |-> NextDate(now), found |-> {}]
                     ELSE reading[q][s]
<1>1. \A q \in Procs, s \in Reads :
         reading'[q][s] = IF q = p /\ s = r
             THEN [phase |-> "sent", upTo |-> NextDate(now), found |-> {}]
             ELSE reading[q][s]
  BY DEF SendFind, TypeOK
<1>2. reading[p][r].phase = "idle"
  BY DEF SendFind
<1>3. \A q \in Procs, s \in Reads :
         reading'[q][s] = reading[q][s] \/ reading'[q][s].found = {}
  BY <1>1
<1>4. ReadsInv'
  BY <1>3 DEF ReadsInv
<1>5. reading[p][r].found = {}
  BY <1>2 DEF ReadsInv
<1> QED
  BY <1>1, <1>2, <1>4, <1>5

\* Every step keeps unanswered finds empty.
LEMMA ReadsStep == TypeOK /\ ReadsInv /\ [Next]_vars => ReadsInv'
<1> USE DEF procVars, callVars, history
<1> SUFFICES ASSUME TypeOK, ReadsInv, [Next]_vars PROVE ReadsInv'
  OBVIOUS
<1>1. CASE UNCHANGED reading
  BY <1>1 DEF ReadsInv
<1>2. ASSUME NEW p \in Procs, StartUp(p) \/ CronFires(p) PROVE ReadsInv'
  BY <1>1, <1>2, SendFindStep DEF StartUp, CronFires
<1>3. ASSUME NEW p \in Procs, NEW r \in Reads, FindReads(p, r) PROVE ReadsInv'
  <2>1. \A q \in Procs, s \in Reads :
           reading'[q][s] = reading[q][s] \/ reading'[q][s].phase = "read"
    <3>1. \A q \in Procs, s \in Reads : reading[q][s] \in Finds
      BY DEF TypeOK
    <3> QED
      BY <1>3, <3>1 DEF FindReads, TypeOK, Finds
  <2> QED
    BY <2>1 DEF ReadsInv
<1>4. ASSUME NEW p \in Procs, NEW r \in Reads, FindReturns(p, r) \/ FindFails(p, r)
      PROVE  ReadsInv'
  <2>1. reading' = [reading EXCEPT ![p][r] = NoRead]
    BY <1>4 DEF FindReturns, FindFails
  <2>2. \A q \in Procs, s \in Reads :
           reading'[q][s] = reading[q][s] \/ reading'[q][s] = NoRead
    BY <2>1 DEF TypeOK
  <2> QED
    BY <2>2 DEF ReadsInv, NoRead
<1>5. ASSUME NEW p \in Procs, Down(p) PROVE ReadsInv'
  <2>1. \A q \in Procs, s \in Reads :
           reading'[q][s] = reading[q][s] \/ reading'[q][s] = NoRead
    BY <1>5 DEF Down, TypeOK
  <2> QED
    BY <2>1 DEF ReadsInv, NoRead
<1>6. ASSUME NEW p \in Procs, Crash(p) \/ \E h \in Handles : Rejects(p, h)
      PROVE  ReadsInv'
  BY <1>1, <1>5, <1>6 DEF Crash, Rejects
<1>7. ASSUME \/ \E p \in Procs :
                  \/ \E key \in FnKeys : SetFunction(p, key)
                  \/ Restart(p)
                  \/ \E h \in Handles : \/ Fire(p, h) \/ FnReturns(p, h)
                                       \/ DeleteAction(p, h)
                                       \/ CallbackEnds(p, h)
                  \/ \E c \in Calls :
                        \/ \E B \in SUBSET Actions : RunTimers(c, p, B)
                        \/ \E I \in SUBSET Ids : ClearTimers(c, p, I)
             \/ \E c \in Calls : \/ \E a \in Actions : \/ SaveOne(c, a)
                                                       \/ SaveFails(c, a)
                                 \/ RunReturns(c)
                                 \/ \E i \in Ids : DeleteOne(c, i)
                                 \/ DeleteFails(c) \/ ClearReturns(c)
             \/ Tick
             \/ UNCHANGED vars
      PROVE  ReadsInv'
  BY <1>1, <1>7 DEF SetFunction, Restart, Fire, FnReturns, DeleteAction,
     CallbackEnds, RunTimers, ClearTimers, SaveOne, SaveFails, RunReturns,
     DeleteOne, DeleteFails, ClearReturns, Tick, vars
<1> QED
  BY <1>2, <1>3, <1>4, <1>6, <1>7 DEF Next

\* What AcknowledgedIsInHand asks of an action, and what it promises.
Acked(p, a) ==
    /\ a \in Stored /\ ackBy[a] = p /\ p \notin cronDue /\ p \notin missed
    /\ ExecTimeOf[a] <= NextDate(now)
    /\ IdOf[a] \notin clearAsked

Coming(p, r, a) ==
    \/ a \in reading[p][r].found
    \/ /\ reading[p][r].phase = "sent"
       /\ ExecTimeOf[a] <= reading[p][r].upTo

InHand(p, a) ==
    \/ timeoutMap[p][IdOf[a]] # None
    \/ \E r \in Reads : Coming(p, r, a)

HandInv == \A p \in Procs, a \in Actions : Acked(p, a) => InHand(p, a)

\* The three together are the property.
LEMMA HandMeaning == HandInv <=> AcknowledgedIsInHand
  BY DEF HandInv, Acked, InHand, Coming, AcknowledgedIsInHand, Stored

\* Steps after which whatever is asked for and in hand was so before.
LEMMA HandFrame ==
    ASSUME HandInv,
           \A p \in Procs, a \in Actions :
               Acked(p, a)' /\ ~InHand(p, a)'
                   => Acked(p, a) /\ ~InHand(p, a)
    PROVE  HandInv'
  BY DEF HandInv

\* Arming leaves no action of the list without an entry, and removes none.
LEMMA HandArm ==
    ASSUME TypeOK, FreshIds, NEW p \in Procs, NEW S \in SUBSET Actions, Arm(p, S)
    PROVE  /\ \A a \in S : timeoutMap'[p][IdOf[a]] # None
           /\ \A q \in Procs, i \in Ids :
                 timeoutMap[q][i] # None => timeoutMap'[q][i] # None
<1>1. \A q \in Procs, i \in Ids :
         timeoutMap[q][i] # None => timeoutMap'[q][i] # None
  BY ArmStep
<1>2. ASSUME NEW a \in S, timeoutMap[p][IdOf[a]] = None
      PROVE  timeoutMap'[p][IdOf[a]] # None
  <2> DEFINE h == <<a, FreeSlot(p, a)>>
  <2>1. a \in Unmapped(p, S)
    BY <1>2 DEF Unmapped
  <2>2. h \in {<<b, FreeSlot(p, b)>> : b \in Unmapped(p, S)}
    BY <2>1
  <2>3. \E k \in Slots : timer[p][<<a, k>>] = "free"
    BY <2>1 DEF Arm
  <2>4. h \in Handles /\ timer[p][h] = "free" /\ h[1] = a
    BY <2>3 DEF FreeSlot, Handles
  <2>5. timer'[p][h] = "armed"
    <3>1. timer' = [timer EXCEPT ![p] = [g \in Handles |->
             IF g \in {<<b, FreeSlot(p, b)>> : b \in Unmapped(p, S)}
             THEN "armed" ELSE timer[p][g]]]
      BY DEF Arm
    <3> HIDE DEF h
    <3> QED
      BY <2>2, <2>4, <3>1 DEF TypeOK
  <2>6. timeoutMap'[p][IdOf[a]] = h
    <3> HIDE DEF h
    <3> QED
      BY <2>4, <2>5, ArmStep
  <2> HIDE DEF h
  <2> QED
    BY <2>4, <2>6, ConstantsAssumption
<1>3. \A a \in S : IdOf[a] \in Ids
  BY ConstantsAssumption
<1> QED
  BY <1>1, <1>2, <1>3

\* A find that is sent takes nothing out of hand, and asks for what is due by
\* the next tick.
LEMMA HandSendFind ==
    ASSUME TypeOK, ReadsInv, NEW p \in Procs, NEW r \in Reads, SendFind(p, r),
           UNCHANGED timeoutMap
    PROVE  /\ \A q \in Procs, a \in Actions : InHand(q, a) => InHand(q, a)'
           /\ \A a \in Actions :
                 ExecTimeOf[a] <= NextDate(now) => InHand(p, a)'
<1>1. \A q \in Procs, s \in Reads :
         reading'[q][s] = IF q = p /\ s = r
             THEN [phase |-> "sent", upTo |-> NextDate(now), found |-> {}]
             ELSE reading[q][s]
  BY SendFindStep
<1>2. reading[p][r].phase = "idle" /\ reading[p][r].found = {}
  BY SendFindStep
<1>3. ASSUME NEW q \in Procs, NEW s \in Reads, NEW a \in Actions, Coming(q, s, a)
      PROVE  Coming(q, s, a)'
  BY <1>1, <1>2, <1>3 DEF Coming
<1>4. ASSUME NEW a \in Actions, ExecTimeOf[a] <= NextDate(now)
      PROVE  Coming(p, r, a)'
  <2>1. /\ reading'[p][r].phase = "sent"
        /\ reading'[p][r].upTo = NextDate(now)
    BY <1>1
  <2> QED
    BY <1>4, <2>1 DEF Coming
<1> QED
  BY <1>3, <1>4 DEF InHand

\* A process that ends has acknowledged nothing, and takes nothing from others.
LEMMA HandDown ==
    ASSUME TypeOK, HandInv, NEW p \in Procs, Down(p)
    PROVE  HandInv'
<1>1. ASSUME NEW q \in Procs, NEW a \in Actions, Acked(q, a)', ~InHand(q, a)'
      PROVE  Acked(q, a) /\ ~InHand(q, a)
  <2>1. ackBy'[a] = IF ackBy[a] = p THEN None ELSE ackBy[a]
    BY <1>1 DEF Down
  <2>2. q # p /\ ackBy[a] = q
    BY <1>1, <2>1, ConstantsAssumption DEF Acked
  <2>3. /\ timeoutMap'[q] = timeoutMap[q] /\ reading'[q] = reading[q]
        /\ q \in cronDue' <=> q \in cronDue
        /\ q \in missed' <=> q \in missed
        /\ UNCHANGED <<now, clearAsked, doc>>
    BY <2>2 DEF Down, TypeOK
  <2>4. Stored' = Stored
    BY <2>3 DEF Stored
  <2> QED
    BY <1>1, <2>2, <2>3, <2>4 DEF Acked, InHand, Coming, NextDate
<1> QED
  BY <1>1, HandFrame

\* Every step keeps what was acknowledged in hand.
LEMMA HandStep ==
    FreshIds /\ TypeOK /\ CallsInv /\ LifeInv /\ ClockInv /\ BatchInv /\ ReadsInv
       /\ HandInv /\ [Next]_vars => HandInv'
<1> USE DEF procVars, callVars, history
<1> SUFFICES ASSUME FreshIds, TypeOK, CallsInv, LifeInv, ClockInv, BatchInv,
                    ReadsInv, HandInv, [Next]_vars
             PROVE  HandInv'
  OBVIOUS
<1>1. ASSUME UNCHANGED <<now, ackBy, cronDue, missed, timeoutMap, reading>>,
             Stored' \subseteq Stored, clearAsked \subseteq clearAsked'
      PROVE  HandInv'
  BY <1>1 DEF HandInv, Acked, InHand, Coming, NextDate
<1>2. ASSUME NEW p \in Procs, StartUp(p) PROVE HandInv'
  <2>1. UNCHANGED <<now, doc, ackBy, cronDue, missed, timeoutMap, clearAsked>>
    BY <1>2 DEF StartUp
  <2>2. \A q \in Procs, a \in Actions : InHand(q, a) => InHand(q, a)'
    <3>1. CASE UNCHANGED reading
      BY <2>1, <3>1 DEF InHand, Coming
    <3> QED
      BY <1>2, <2>1, <3>1, HandSendFind DEF StartUp
  <2> QED
    BY <2>1, <2>2 DEF HandInv, Acked, NextDate, Stored
<1>3. ASSUME NEW p \in Procs, CronFires(p) PROVE HandInv'
  <2>1. /\ UNCHANGED <<now, doc, ackBy, timeoutMap, clearAsked>>
        /\ cronDue' = cronDue \ {p}
    BY <1>3 DEF CronFires
  <2>2. Stored' = Stored
    BY <2>1 DEF Stored
  <2>3. CASE p \in started
    <3>1. PICK r \in Reads : SendFind(p, r)
      BY <1>3, <2>3 DEF CronFires
    <3>2. missed' = missed \ {p}
      BY <1>3, <2>3 DEF CronFires
    <3>3. \A q \in Procs, a \in Actions : InHand(q, a) => InHand(q, a)'
      BY <2>1, <3>1, HandSendFind
    <3>4. \A a \in Actions : ExecTimeOf[a] <= NextDate(now) => InHand(p, a)'
      BY <2>1, <3>1, HandSendFind
    <3>5. ASSUME NEW q \in Procs, NEW a \in Actions, Acked(q, a)'
          PROVE  InHand(q, a)'
      <4>1. CASE q = p
        BY <2>1, <3>4, <3>5, <4>1 DEF Acked, NextDate
      <4>2. CASE q # p
        <5>1. Acked(q, a)
          BY <2>1, <2>2, <3>2, <3>5, <4>2 DEF Acked, NextDate
        <5> QED
          BY <3>3, <5>1 DEF HandInv
      <4> QED
        BY <4>1, <4>2
    <3> QED
      BY <3>5 DEF HandInv
  <2>4. CASE p \notin started
    <3>1. UNCHANGED <<reading, missed>>
      BY <1>3, <2>4 DEF CronFires
    <3>2. ASSUME NEW q \in Procs, NEW a \in Actions, Acked(q, a)', ~InHand(q, a)'
          PROVE  Acked(q, a) /\ ~InHand(q, a)
      <4>1. ackBy[a] = q /\ q # None
        BY <2>1, <3>2, ConstantsAssumption DEF Acked
      <4>2. q # p
        BY <2>4, <4>1 DEF BatchInv
      <4> QED
        BY <2>1, <2>2, <3>1, <3>2, <4>2 DEF Acked, InHand, Coming, NextDate
    <3> QED
      BY <3>2, HandFrame
  <2> QED
    BY <2>3, <2>4
<1>4. ASSUME NEW p \in Procs, NEW r \in Reads, FindReads(p, r) PROVE HandInv'
  <2>1. /\ reading[p][r].phase = "sent"
        /\ UNCHANGED <<now, doc, ackBy, cronDue, missed, timeoutMap, clearAsked>>
    BY <1>4 DEF FindReads
  <2>2. ASSUME NEW q \in Procs, NEW s \in Reads
        PROVE  \/ reading'[q][s] = reading[q][s]
               \/ /\ q = p /\ s = r
                  /\ reading'[q][s].found =
                       {a \in Stored : ExecTimeOf[a] <= reading[q][s].upTo}
    <3>1. reading[q][s] \in Finds
      BY DEF TypeOK
    <3> QED
      BY <1>4, <3>1 DEF FindReads, TypeOK, Finds
  <2>3. reading[p][r].found = {}
    BY <2>1 DEF ReadsInv
  <2>4. ASSUME NEW q \in Procs, NEW a \in Stored, InHand(q, a)
        PROVE  InHand(q, a)'
    <3>1. CASE timeoutMap[q][IdOf[a]] # None
      BY <2>1, <3>1 DEF InHand
    <3>2. ASSUME NEW s \in Reads, Coming(q, s, a) PROVE Coming(q, s, a)'
      BY <2>2, <2>3, <3>2 DEF Coming
    <3> QED
      BY <2>4, <3>1, <3>2 DEF InHand
  <2>5. Stored' = Stored
    BY <2>1 DEF Stored
  <2> QED
    BY <2>1, <2>4, <2>5 DEF HandInv, Acked, NextDate
<1>5. ASSUME NEW p \in Procs, NEW r \in Reads, FindReturns(p, r) PROVE HandInv'
  <2>1. /\ reading[p][r].phase = "read"
        /\ Arm(p, reading[p][r].found)
        /\ reading' = [reading EXCEPT ![p][r] = NoRead]
        /\ UNCHANGED <<now, doc, ackBy, cronDue, missed, clearAsked>>
    BY <1>5 DEF FindReturns
  <2>2. reading[p][r].found \in SUBSET Actions
    BY DEF TypeOK, Finds
  <2>3. ASSUME NEW q \in Procs, NEW a \in Actions, InHand(q, a)
        PROVE  InHand(q, a)'
    <3>1. CASE timeoutMap[q][IdOf[a]] # None
      <4>1. IdOf[a] \in Ids
        BY ConstantsAssumption
      <4> QED
        BY <2>1, <2>2, <3>1, <4>1, HandArm DEF InHand
    <3>2. ASSUME NEW s \in Reads, Coming(q, s, a), q = p /\ s = r
          PROVE  timeoutMap'[q][IdOf[a]] # None
      <4>1. a \in reading[p][r].found
        BY <2>1, <3>2 DEF Coming
      <4> QED
        BY <2>1, <2>2, <3>2, <4>1, HandArm
    <3>3. ASSUME NEW s \in Reads, Coming(q, s, a), ~(q = p /\ s = r)
          PROVE  Coming(q, s, a)'
      <4>1. reading'[q][s] = reading[q][s]
        BY <2>1, <3>3 DEF TypeOK
      <4> QED
        BY <3>3, <4>1 DEF Coming
    <3> QED
      BY <2>3, <3>1, <3>2, <3>3 DEF InHand
  <2> QED
    BY <2>1, <2>3 DEF HandInv, Acked, NextDate, Stored
<1>6. ASSUME NEW p \in Procs, NEW r \in Reads, FindFails(p, r) PROVE HandInv'
  <2>1. /\ reading' = [reading EXCEPT ![p][r] = NoRead]
        /\ missed' = missed \union {p}
        /\ UNCHANGED <<now, doc, ackBy, cronDue, timeoutMap, clearAsked>>
    BY <1>6 DEF FindFails
  <2>2. \A q \in Procs : q # p => reading'[q] = reading[q]
    BY <2>1 DEF TypeOK
  <2>3. Stored' = Stored
    BY <2>1 DEF Stored
  <2>4. ASSUME NEW q \in Procs, NEW a \in Actions, Acked(q, a)', ~InHand(q, a)'
        PROVE  Acked(q, a) /\ ~InHand(q, a)
    <3>1. q # p
      BY <2>1, <2>4 DEF Acked
    <3> QED
      BY <2>1, <2>2, <2>3, <2>4, <3>1 DEF Acked, InHand, Coming, NextDate
  <2> QED
    BY <2>4, HandFrame
<1>7. ASSUME NEW c \in Calls, NEW a \in Actions, SaveOne(c, a) PROVE HandInv'
  <2>1. UNCHANGED <<now, ackBy, cronDue, missed, timeoutMap, reading, clearAsked>>
    BY <1>7 DEF SaveOne
  <2>2. a \in run[c].batch
    BY <1>7 DEF SaveOne, BatchInv
  <2>3. ackBy[a] = None
    BY <2>2 DEF BatchInv
  <2>4. Stored' \subseteq Stored \union {a}
    <3>1. CASE UNCHANGED doc
      BY <3>1 DEF Stored
    <3> QED
      BY <1>7, <3>1, DocInsert DEF SaveOne
  <2>5. ASSUME NEW q \in Procs, NEW b \in Actions, Acked(q, b)', ~InHand(q, b)'
        PROVE  Acked(q, b) /\ ~InHand(q, b)
    <3>1. b # a
      BY <2>1, <2>3, <2>5, ConstantsAssumption DEF Acked
    <3> QED
      BY <2>1, <2>4, <2>5, <3>1 DEF Acked, InHand, Coming, NextDate
  <2> QED
    BY <2>5, HandFrame
<1>8. ASSUME NEW c \in Calls, RunReturns(c) PROVE HandInv'
  <2>1. /\ UNCHANGED <<now, doc, cronDue, missed, reading, clearAsked>>
        /\ Stored' = Stored
    BY <1>8 DEF RunReturns, Stored
  <2>2. CASE UNCHANGED <<timeoutMap, ackBy>>
    BY <1>1, <2>1, <2>2
  <2>3. ASSUME NEW p \in Procs, NEW due \in SUBSET Actions, p = run[c].proc,
               due = {a \in run[c].batch : ExecTimeOf[a] <= NextDate(now)},
               Arm(p, due),
               ackBy' = [a \in Actions |->
                            IF a \in run[c].batch THEN p ELSE ackBy[a]]
        PROVE  HandInv'
    <3>1. ASSUME NEW q \in Procs, NEW a \in Actions, Acked(q, a)', ~InHand(q, a)'
          PROVE  Acked(q, a) /\ ~InHand(q, a)
      <4>1. IdOf[a] \in Ids
        BY ConstantsAssumption
      <4>2. timeoutMap'[q][IdOf[a]] = None
        BY <3>1 DEF InHand
      <4>3. timeoutMap[q][IdOf[a]] = None
        BY <2>3, <4>1, <4>2, HandArm
      <4>4. ExecTimeOf[a] <= NextDate(now)
        BY <2>1, <3>1 DEF Acked, NextDate
      <4>5. a \notin run[c].batch
        <5> SUFFICES ASSUME a \in run[c].batch PROVE FALSE
          OBVIOUS
        <5>1. a \in due /\ q = p
          BY <2>3, <3>1, <4>4 DEF Acked
        <5> QED
          BY <2>3, <4>2, <5>1, HandArm
      <4>6. ackBy'[a] = ackBy[a]
        BY <2>3, <4>5
      <4> QED
        BY <2>1, <3>1, <4>3, <4>6 DEF Acked, InHand, Coming, NextDate
    <3> QED
      BY <3>1, HandFrame
  <2>4. run[c] \in RunCalls /\ run[c].proc # None
    BY <1>8 DEF RunReturns, TypeOK
  <2>5. run[c].proc \in Procs /\ run[c].batch \subseteq Actions
    BY <2>4 DEF RunCalls
  <2>6. PICK due : due = {a \in run[c].batch : ExecTimeOf[a] <= NextDate(now)}
    OBVIOUS
  <2>7. due \in SUBSET Actions
    BY <2>5, <2>6
  <2>8. \/ UNCHANGED <<timeoutMap, ackBy>>
        \/ /\ Arm(run[c].proc, due)
           /\ ackBy' = [a \in Actions |->
                           IF a \in run[c].batch THEN run[c].proc ELSE ackBy[a]]
    BY <1>8, <2>6 DEF RunReturns
  <2> QED
    BY <2>2, <2>3, <2>5, <2>6, <2>7, <2>8
<1>9. ASSUME NEW c \in Calls, ClearReturns(c) PROVE HandInv'
  <2>1. /\ UNCHANGED <<now, doc, ackBy, cronDue, missed, reading, clearAsked>>
        /\ Stored' = Stored
    BY <1>9 DEF ClearReturns, Stored
  <2>2. ASSUME NEW q \in Procs, NEW a \in Actions, Acked(q, a)', ~InHand(q, a)'
        PROVE  Acked(q, a) /\ ~InHand(q, a)
    <3>1. IdOf[a] \in Ids /\ IdOf[a] \notin clearAsked
      BY <2>1, <2>2, ConstantsAssumption DEF Acked
    <3>2. IdOf[a] \notin clear[c].ids
      BY <3>1 DEF CallsInv
    <3>3. timeoutMap'[q][IdOf[a]] = timeoutMap[q][IdOf[a]]
      BY <1>9, <3>1, <3>2, ClearStep
    <3> QED
      BY <2>1, <2>2, <3>3 DEF Acked, InHand, Coming, NextDate
  <2> QED
    BY <2>2, HandFrame
<1>10. ASSUME NEW p \in Procs, NEW h \in Handles, CallbackEnds(p, h)
       PROVE  HandInv'
  <2>1. h[1] \in Actions /\ h[1] \notin Stored
    BY <1>10 DEF CallbackEnds, LifeInv, Handles
  <2>2. /\ UNCHANGED <<now, doc, ackBy, cronDue, missed, reading, clearAsked>>
        /\ timeoutMap' = [timeoutMap EXCEPT ![p][IdOf[h[1]]] = None]
        /\ Stored' = Stored
    BY <1>10 DEF CallbackEnds, Stored
  <2>3. ASSUME NEW q \in Procs, NEW a \in Actions, Acked(q, a)', ~InHand(q, a)'
        PROVE  Acked(q, a) /\ ~InHand(q, a)
    <3>1. IdOf[a] \in Ids /\ IdOf[a] # IdOf[h[1]]
      BY <2>1, <2>2, <2>3, ConstantsAssumption DEF FreshIds, Acked
    <3>2. timeoutMap'[q][IdOf[a]] = timeoutMap[q][IdOf[a]]
      BY <2>2, <3>1 DEF TypeOK
    <3> QED
      BY <2>2, <2>3, <3>2 DEF Acked, InHand, Coming, NextDate
  <2> QED
    BY <2>3, HandFrame
<1>11. ASSUME NEW c \in Calls, NEW i \in Ids, DeleteOne(c, i) PROVE HandInv'
  <2>1. Stored' \subseteq Stored
    BY <1>11, DocDelete DEF DeleteOne
  <2> QED
    BY <1>1, <1>11, <2>1 DEF DeleteOne
<1>12. ASSUME NEW p \in Procs, NEW h \in Handles, DeleteAction(p, h)
       PROVE  HandInv'
  <2>1. IdOf[h[1]] \in Ids
    BY ConstantsAssumption DEF Handles
  <2>2. Stored' \subseteq Stored
    BY <1>12, <2>1, DocDelete DEF DeleteAction
  <2> QED
    BY <1>1, <1>12, <2>2 DEF DeleteAction
<1>13. ASSUME NEW p \in Procs, Crash(p) \/ \E h \in Handles : Rejects(p, h)
       PROVE  HandInv'
  BY <1>1, <1>13, HandDown DEF Crash, Rejects, Stored
<1>14. CASE Tick
  <2>1. /\ UNCHANGED <<doc, ackBy, missed, timeoutMap, reading, clearAsked>>
        /\ Stored' = Stored
    BY <1>14 DEF Tick, Stored
  <2>2. ASSUME NEW q \in Procs, NEW a \in Actions, Acked(q, a)', ~InHand(q, a)'
        PROVE  Acked(q, a) /\ ~InHand(q, a)
    <3>1. ackBy[a] = q /\ q # None
      BY <2>1, <2>2, ConstantsAssumption DEF Acked
    <3>2. q \in up
      BY <3>1 DEF BatchInv, TypeOK
    <3>3. q \notin cronDue' /\ now' % Period # 0
      BY <1>14, <2>2, <3>2 DEF Tick, Acked
    <3>4. q \notin cronDue
      BY <1>14, <3>3 DEF Tick
    <3>5. NextDate(now)' <= NextDate(now)
      BY <1>14, <3>3, TickHorizon
    <3>6. /\ NextDate(now) \in Nat /\ NextDate(now)' \in Nat
          /\ ExecTimeOf[a] \in Nat
      <4>1. now \in Nat /\ now' \in Nat
        BY <1>14, TickDue, ConstantsAssumption DEF TypeOK
      <4> QED
        BY <4>1, NextDateBounds, ConstantsAssumption DEF NextDate
    <3>7. ExecTimeOf[a] <= NextDate(now)
      BY <2>2, <3>5, <3>6 DEF Acked
    <3> QED
      BY <2>1, <2>2, <3>4, <3>7 DEF Acked, InHand, Coming
  <2> QED
    BY <2>2, HandFrame
<1>15. ASSUME NEW p \in Procs,
              \/ \E key \in FnKeys : SetFunction(p, key)
              \/ Restart(p)
              \/ \E h \in Handles : Fire(p, h) \/ FnReturns(p, h)
              \/ \E c \in Calls :
                    \/ \E B \in SUBSET Actions : RunTimers(c, p, B)
                    \/ \E I \in SUBSET Ids : ClearTimers(c, p, I)
       PROVE  HandInv'
  BY <1>1, <1>15 DEF SetFunction, Restart, Fire, FnReturns, RunTimers,
     ClearTimers, Stored
<1>16. ASSUME \/ \E c \in Calls : \/ \E a \in Actions : SaveFails(c, a)
                                  \/ DeleteFails(c)
              \/ UNCHANGED vars
       PROVE  HandInv'
  BY <1>1, <1>16 DEF SaveFails, DeleteFails, vars, Stored
<1> QED
  BY <1>2, <1>3, <1>4, <1>5, <1>6, <1>7, <1>8, <1>9, <1>10, <1>11, <1>12,
     <1>13, <1>14, <1>15, <1>16 DEF Next

\* With fresh ids, what runTimers acknowledged stays in the hands of the
\* process that did, until it is executed or somebody asks to clear it: between
\* a save and the cron no tick, find, callback or call leaves a gap.
THEOREM AcknowledgedIsAlwaysInHand ==
    ASSUME FreshIds PROVE Spec => []AcknowledgedIsInHand
<1> DEFINE Known == TypeOK /\ Timing /\ CallsInv /\ LifeInv /\ CancelInv
           Inv == ClockInv /\ BatchInv /\ ReadsInv /\ HandInv
<1>1. Init => Inv
  <2>1. Init => ClockInv
    BY ConstantsAssumption, TimesAssumption DEF Init, ClockInv
  <2>2. Init => BatchInv
    BY DEF Init, BatchInv, NoRun
  <2>3. Init => ReadsInv
    BY DEF Init, ReadsInv, NoRead
  <2>4. Init => HandInv
    BY ConstantsAssumption DEF Init, HandInv, Acked
  <2> QED
    BY <2>1, <2>2, <2>3, <2>4
<1>2. Known /\ Inv /\ [Next]_vars => Inv'
  <2> SUFFICES ASSUME Known, Inv, [Next]_vars PROVE Inv'
    OBVIOUS
  <2>1. ClockInv'
    BY ClockStep
  <2> QED
    BY <2>1, BatchStep, ReadsStep, HandStep, FreshIds
<1>3. Spec => []Known
  BY Bookkeeping
<1>4. Inv => AcknowledgedIsInHand
  BY HandMeaning
<1> HIDE DEF Known, Inv
<1> QED
  BY <1>1, <1>2, <1>3, <1>4, PTL DEF Spec

-----------------------------------------------------------------------------
(* What is gone stays gone.  Shared ids do no harm here. *)

\* Steps that insert no document of a, arm no timeout for it and put it in no
\* reply of p leave it gone.
LEMMA GoneFrame ==
    ASSUME NEW p \in Procs, NEW a \in Actions, GoneFrom(p, a),
           saved \subseteq saved', a \notin Stored',
           \A k \in Slots : timer'[p][<<a, k>>] \in {"free", timer[p][<<a, k>>]},
           \A r \in Reads : a \in reading'[p][r].found
                            => a \in reading[p][r].found \union Stored,
           \A c \in Calls : run'[c].proc = p /\ a \in run'[c].batch
                            => run[c].proc = p /\ a \in run[c].batch
    PROVE  GoneFrom(p, a)'
  BY DEF GoneFrom

\* An action is submitted before it is saved, and nobody saves it twice.
SavedOnce ==
    /\ saved \subseteq submitted
    /\ \A c \in Calls : run[c].todo \intersect saved = {}

\* A process that ends brings nothing back.
LEMMA GoneDown ==
    ASSUME TypeOK, NEW p \in Procs, NEW a \in Actions, GoneFrom(p, a), NEW q \in Procs, Down(q)
    PROVE  GoneFrom(p, a)'
<1>1. /\ a \notin Stored
      /\ \A k \in Slots : <<a, k>> \in Handles /\ timer[p][<<a, k>>] = "free"
  BY DEF GoneFrom, Handles
<1>2. \A k \in Slots : timer'[p][<<a, k>>] \in {"free", timer[p][<<a, k>>]}
  BY <1>1 DEF Down, TypeOK
<1>3. \A s \in Reads : reading'[p][s].found \subseteq reading[p][s].found
  BY DEF Down, TypeOK, NoRead
<1>4. \A c \in Calls : run'[c].proc = p /\ a \in run'[c].batch
                       => run[c].proc = p /\ a \in run[c].batch
  BY DEF Down, NoRun
<1>5. UNCHANGED <<doc, saved>>
  BY DEF Down, history
<1> QED
  BY <1>1, <1>2, <1>3, <1>4, <1>5, GoneFrame DEF Stored

\* No step brings back what is gone from a process.
LEMMA GoneStep ==
    ASSUME TypeOK, SavedOnce, [Next]_vars,
           NEW p \in Procs, NEW a \in Actions, GoneFrom(p, a)
    PROVE  GoneFrom(p, a)'
<1> USE DEF procVars, callVars, history
<1>1. /\ a \in saved /\ a \in submitted /\ a \notin Stored
      /\ \A k \in Slots : <<a, k>> \in Handles /\ timer[p][<<a, k>>] = "free"
      /\ \A r \in Reads : a \notin reading[p][r].found
      /\ \A c \in Calls : ~(run[c].proc = p /\ a \in run[c].batch)
  BY DEF GoneFrom, SavedOnce, Handles
<1>2. CASE UNCHANGED <<doc, saved, timer, reading, run>>
  BY <1>2 DEF GoneFrom, Stored
<1>3. ASSUME NEW q \in Procs, NEW r \in Reads, SendFind(q, r),
             UNCHANGED <<doc, saved, timer, run>>
      PROVE  GoneFrom(p, a)'
  <2>1. \A s \in Reads : reading'[p][s].found \subseteq reading[p][s].found
    BY <1>3 DEF SendFind, TypeOK, Finds
  <2> QED
    BY <1>1, <1>3, <2>1, GoneFrame DEF Stored
<1>4. ASSUME NEW q \in Procs, StartUp(q) \/ CronFires(q)
      PROVE  GoneFrom(p, a)'
  BY <1>2, <1>3, <1>4 DEF StartUp, CronFires
<1>5. ASSUME NEW q \in Procs, NEW r \in Reads, FindReads(q, r)
      PROVE  GoneFrom(p, a)'
  <2>1. \A s \in Reads : \/ reading'[p][s].found = reading[p][s].found
                         \/ reading'[p][s].found \subseteq Stored
    BY <1>5 DEF FindReads, TypeOK, Finds
  <2>2. UNCHANGED <<doc, saved, timer, run>>
    BY <1>5 DEF FindReads
  <2> QED
    BY <1>1, <2>1, <2>2, GoneFrame DEF Stored
<1>6. ASSUME NEW q \in Procs, NEW r \in Reads, FindReturns(q, r)
      PROVE  GoneFrom(p, a)'
  <2>1. \A s \in Reads : reading'[p][s].found \subseteq reading[p][s].found
    BY <1>6 DEF FindReturns, TypeOK, NoRead
  <2>2. reading[q][r].found \in SUBSET Actions /\ Arm(q, reading[q][r].found)
    BY <1>6 DEF FindReturns, TypeOK, Finds
  <2>3. \A k \in Slots : timer'[p][<<a, k>>] = timer[p][<<a, k>>]
    BY <1>1, <2>2, ArmStep
  <2>4. UNCHANGED <<doc, saved, run>>
    BY <1>6 DEF FindReturns
  <2> QED
    BY <1>1, <2>1, <2>3, <2>4, GoneFrame DEF Stored
<1>7. ASSUME NEW q \in Procs, NEW r \in Reads, FindFails(q, r)
      PROVE  GoneFrom(p, a)'
  <2>1. \A s \in Reads : reading'[p][s].found \subseteq reading[p][s].found
    BY <1>7 DEF FindFails, TypeOK, NoRead
  <2>2. UNCHANGED <<doc, saved, timer, run>>
    BY <1>7 DEF FindFails
  <2> QED
    BY <1>1, <2>1, <2>2, GoneFrame DEF Stored
<1>8. ASSUME NEW q \in Procs, NEW c \in Calls, NEW B \in SUBSET Actions,
             RunTimers(c, q, B)
      PROVE  GoneFrom(p, a)'
  <2>1. \A d \in Calls :
           run'[d] = IF d = c THEN [proc |-> q, batch |-> B, todo |-> B,
                                    failed |-> FALSE]
                              ELSE run[d]
    BY <1>8 DEF RunTimers, TypeOK
  <2>2. a \notin B /\ UNCHANGED <<doc, saved, timer, reading>>
    BY <1>1, <1>8 DEF RunTimers
  <2>3. \A d \in Calls : ~(run'[d].proc = p /\ a \in run'[d].batch)
    BY <1>1, <2>1, <2>2
  <2> QED
    BY <1>1, <2>2, <2>3, GoneFrame DEF Stored
<1>9. ASSUME NEW c \in Calls, NEW b \in Actions, SaveOne(c, b) \/ SaveFails(c, b)
      PROVE  GoneFrom(p, a)'
  <2>1. \A d \in Calls :
           run'[d].proc = run[d].proc /\ run'[d].batch = run[d].batch
    <3>1. ASSUME NEW d \in Calls
          PROVE  run'[d].proc = run[d].proc /\ run'[d].batch = run[d].batch
      <4>1. run[d] \in RunCalls
        BY DEF TypeOK
      <4>2. CASE run' = [run EXCEPT ![c].todo = @ \ {b}]
        BY <4>1, <4>2 DEF TypeOK, RunCalls
      <4>3. CASE run' = [run EXCEPT ![c].todo = @ \ {b}, ![c].failed = TRUE]
        BY <4>1, <4>3 DEF TypeOK, RunCalls
      <4> QED
        BY <1>9, <4>2, <4>3 DEF SaveOne, SaveFails
    <3> QED
      BY <3>1
  <2>2. saved \subseteq saved' /\ a \notin Stored'
    <3>1. CASE UNCHANGED <<doc, saved>>
      BY <1>1, <3>1 DEF Stored
    <3>2. CASE /\ doc[IdOf[b]] = None /\ doc' = [doc EXCEPT ![IdOf[b]] = b]
               /\ saved' = saved \union {b} /\ b \in run[c].todo
      <4>1. Stored' = Stored \union {b}
        BY <3>2, DocInsert
      <4>2. b # a
        BY <1>1, <3>2 DEF SavedOnce
      <4> QED
        BY <1>1, <3>2, <4>1, <4>2
    <3> QED
      BY <1>9, <3>1, <3>2 DEF SaveOne, SaveFails
  <2>3. UNCHANGED <<timer, reading>>
    BY <1>9 DEF SaveOne, SaveFails
  <2> QED
    BY <2>1, <2>2, <2>3, GoneFrame
<1>10. ASSUME NEW c \in Calls, RunReturns(c) PROVE GoneFrom(p, a)'
  <2> DEFINE q   == run[c].proc
             due == {b \in run[c].batch : ExecTimeOf[b] <= NextDate(now)}
  <2>1. q \in Procs /\ due \in SUBSET Actions
    BY <1>10 DEF RunReturns, TypeOK, RunCalls
  <2>2. q = p => a \notin due
    BY <1>1
  <2>3. \A d \in Calls : run'[d] = IF d = c THEN NoRun ELSE run[d]
    BY <1>10 DEF RunReturns, TypeOK
  <2>4. \A d \in Calls : run'[d].proc = p /\ a \in run'[d].batch
                         => run[d].proc = p /\ a \in run[d].batch
    BY <2>3 DEF NoRun
  <2>5. \A k \in Slots : timer'[p][<<a, k>>] = timer[p][<<a, k>>]
    <3>1. CASE Arm(q, due)
      <4> HIDE DEF q, due
      <4> QED
        BY <1>1, <2>1, <2>2, <3>1, ArmStep
    <3>2. CASE UNCHANGED timer
      BY <3>2
    <3> QED
      BY <1>10, <3>1, <3>2 DEF RunReturns
  <2>6. UNCHANGED <<doc, saved, reading>>
    BY <1>10 DEF RunReturns
  <2> QED
    BY <1>1, <2>4, <2>5, <2>6, GoneFrame DEF Stored
<1>11. ASSUME NEW c \in Calls, NEW i \in Ids, DeleteOne(c, i)
       PROVE  GoneFrom(p, a)'
  <2>1. a \notin Stored'
    BY <1>1, <1>11, DocDelete DEF DeleteOne
  <2>2. UNCHANGED <<saved, timer, reading, run>>
    BY <1>11 DEF DeleteOne
  <2> QED
    BY <2>1, <2>2, GoneFrame
<1>12. ASSUME NEW c \in Calls, ClearReturns(c) PROVE GoneFrom(p, a)'
  <2>1. \A k \in Slots : timer'[p][<<a, k>>] \in {"free", timer[p][<<a, k>>]}
    BY <1>1, <1>12, ClearStep
  <2>2. UNCHANGED <<doc, saved, reading, run>>
    BY <1>12 DEF ClearReturns
  <2> QED
    BY <1>1, <2>1, <2>2, GoneFrame DEF Stored
<1>13. ASSUME NEW q \in Procs, NEW h \in Handles, NEW phase \in Phases,
              timer[q][h] # "free", SetPhase(q, h, phase),
              UNCHANGED <<saved, reading, run>>, a \notin Stored'
       PROVE  GoneFrom(p, a)'
  <2>1. \A k \in Slots : timer'[p][<<a, k>>] = timer[p][<<a, k>>]
    BY <1>1, <1>13, SetPhaseStep
  <2> QED
    BY <1>13, <2>1, GoneFrame
<1>14. ASSUME NEW q \in Procs, NEW h \in Handles,
              Fire(q, h) \/ FnReturns(q, h) \/ CallbackEnds(q, h)
       PROVE  GoneFrom(p, a)'
  <2>1. PICK phase \in Phases : SetPhase(q, h, phase)
    BY <1>14 DEF Fire, FnReturns, CallbackEnds, Phases
  <2>2. timer[q][h] # "free" /\ UNCHANGED <<doc, saved, reading, run>>
    BY <1>14 DEF Fire, FnReturns, CallbackEnds
  <2>3. a \notin Stored'
    BY <1>1, <2>2 DEF Stored
  <2> QED
    BY <1>13, <2>1, <2>2, <2>3
<1>15. ASSUME NEW q \in Procs, NEW h \in Handles, DeleteAction(q, h)
       PROVE  GoneFrom(p, a)'
  <2>1. IdOf[h[1]] \in Ids
    BY ConstantsAssumption DEF Handles
  <2>2. a \notin Stored'
    BY <1>1, <1>15, <2>1, DocDelete DEF DeleteAction
  <2> QED
    BY <1>13, <1>15, <2>2 DEF DeleteAction, Phases
<1>16. ASSUME NEW q \in Procs, Down(q) PROVE GoneFrom(p, a)'
  BY <1>16, GoneDown
<1>17. ASSUME NEW q \in Procs, NEW h \in Handles, Rejects(q, h)
       PROVE  GoneFrom(p, a)'
  <2>1. CASE Down(q)
    BY <1>16, <2>1
  <2>2. CASE SetPhase(q, h, "rejected")
             /\ UNCHANGED <<doc, saved, reading, run>>
    <3>1. a \notin Stored'
      BY <1>1, <2>2 DEF Stored
    <3> QED
      BY <1>13, <1>17, <2>2, <3>1 DEF Rejects, Phases
  <2> QED
    BY <1>17, <2>1, <2>2 DEF Rejects
<1>18. ASSUME NEW q \in Procs, Crash(q) PROVE GoneFrom(p, a)'
  BY <1>16, <1>18 DEF Crash
<1>19. ASSUME \/ \E q \in Procs :
                   \/ \E key \in FnKeys : SetFunction(q, key)
                   \/ Restart(q)
                   \/ \E c \in Calls :
                         \E I \in SUBSET Ids : ClearTimers(c, q, I)
              \/ \E c \in Calls : DeleteFails(c)
              \/ Tick
              \/ UNCHANGED vars
       PROVE  GoneFrom(p, a)'
  BY <1>2, <1>19 DEF SetFunction, Restart, ClearTimers, DeleteFails, Tick, vars
<1> QED
  BY <1>4, <1>5, <1>6, <1>7, <1>8, <1>9, <1>10, <1>11, <1>12, <1>14, <1>15,
     <1>17, <1>18, <1>19 DEF Next

\* What has left the collection, the timeouts, the finds and the calls of a
\* process never comes back there, with fresh ids or without: no cron tick,
\* crash or late reply revives an action that was executed or cleared.
THEOREM GoneIsGoneForGood == Spec => GoneForGood
<1> DEFINE Kept == \A p \in Procs, a \in Actions :
                       GoneFrom(p, a) => GoneFrom(p, a)'
<1>1. TypeOK /\ CallsInv /\ [Next]_vars => [Kept]_vars
  <2>1. CallsInv => SavedOnce
    BY DEF CallsInv, SavedOnce
  <2> QED
    BY <2>1, GoneStep
<1>2. Init => TypeOK /\ CallsInv
  BY InitType, LifeInit
<1>3. TypeOK /\ CallsInv /\ [Next]_vars => TypeOK' /\ CallsInv'
  BY StepType, CallsStep
<1>4. Spec => [][Kept]_vars
  BY <1>1, <1>2, <1>3, PTL DEF Spec
<1> QED
  BY <1>4 DEF GoneForGood
=============================================================================
