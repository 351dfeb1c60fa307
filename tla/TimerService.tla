---------------------------- MODULE TimerService ----------------------------
(***************************************************************************)
(* The TimerService of src/src/timer: actions stored in the                *)
(* `timed_actions` collection are executed by an in-process setTimeout at  *)
(* their execTime.  runTimers stores and arms what is due before the next  *)
(* cron tick, a cron handler (getNextBunch) arms what other ticks will     *)
(* need, clearTimers deletes and disarms, and the timeout callback runs    *)
(* the registered function, deletes the document and forgets the timeout.  *)
(*                                                                         *)
(* A process is single threaded: what runs between two awaits is one       *)
(* action here, and every await is a boundary at which other handlers and  *)
(* other processes may step.  A database command takes effect in an action *)
(* of its own, after the handler that sent it and before the one that      *)
(* receives its reply.                                                     *)
(***************************************************************************)
EXTENDS Integers, FiniteSets

CONSTANTS
    Procs,            \* server processes sharing the database
    Actions,          \* the timed actions callers ask for, each asked for once
    Ids,              \* their _id values
    FnKeys,           \* keys given to setFunction
    Calls,            \* API calls that can be in progress at once
    Reads,            \* getNextBunch finds in progress at once in a process (bound)
    Slots,            \* timeouts one process can hold for one action (bound)
    IdOf,             \* timerId of each action
    FnKeyOf,          \* fnKey of each action
    ExecTimeOf,       \* execTime of each action
    Period,           \* time between two cron ticks (60 s)
    Grace,            \* startUp skips its find this close to a tick (5 s)
    MaxDelay,         \* the longest delay setTimeout honours (2^31 - 1 ms)
    MaxTime,          \* the clock wraps here by a Period (bound)
    MaxFaults,        \* crashes, rejections and failed commands (bound)
    CrashOnRejection, \* an unhandled rejection ends the process (Node's default)
    None

Handles == Actions \X Slots
Phases == {"free", "armed", "running", "deleting", "deleted", "rejected"}
Finds == [phase : {"idle", "sent", "read"}, upTo : Nat, found : SUBSET Actions]
RunCalls == [proc : Procs \union {None}, batch : SUBSET Actions,
             todo : SUBSET Actions, failed : BOOLEAN]
ClearCalls == [proc : Procs \union {None}, ids : SUBSET Ids,
               todo : SUBSET Ids, failed : BOOLEAN]

ASSUME ConstantsAssumption ==
    /\ Slots \subseteq Nat
    /\ IdOf \in [Actions -> Ids]
    /\ FnKeyOf \in [Actions -> FnKeys]
    /\ ExecTimeOf \in [Actions -> Nat]
    /\ Period \in Nat \ {0} /\ Grace \in Nat /\ MaxDelay \in Nat
    /\ MaxTime \in Nat /\ MaxFaults \in Nat
    /\ CrashOnRejection \in BOOLEAN
    /\ None \notin Actions /\ None \notin Handles /\ None \notin Procs

\* One cron period (60 s) is far below setTimeout's limit, and the clock only
\* wraps back to a time at which every action is due.
ASSUME TimesAssumption ==
    /\ Period <= MaxDelay
    /\ MaxTime >= Period
    /\ \A a \in Actions : ExecTimeOf[a] <= MaxTime - Period

VARIABLES
    now,         \* the system clock, in units that divide a cron period
    doc,         \* the collection: the action stored under each _id, or None
    up,          \* processes that are running
    started,     \* processes whose startUp has set this.job
    fnMap,       \* this.fnMap: the registered keys of each process
    cronDue,     \* processes whose cron job has a tick to deliver
    timeoutMap,  \* this.timeoutMap: _id -> handle of a timeout
    timer,       \* every timeout: pending, or how far its callback is
    reading,     \* the finds of getNextBunch in progress
    run,         \* the runTimer/runTimers calls in progress
    clear,       \* the clearTimer/clearTimers calls in progress
    faults,
    \* History, read by properties only:
    submitted,   \* actions some call asked for
    saved,       \* actions whose document was inserted
    ran,         \* actions whose function completed
    dropped,     \* actions discarded because their key was not registered
    clearAsked,  \* ids somebody asked to clear
    ackBy,       \* the process that answered runTimers for an action
    missed       \* processes whose latest find failed

procVars == <<up, started, fnMap>>
callVars == <<run, clear>>
history  == <<submitted, saved, ran, dropped, clearAsked, ackBy>>
vars == <<now, doc, up, started, fnMap, cronDue, timeoutMap, timer, reading,
          run, clear, faults, submitted, saved, ran, dropped, clearAsked,
          ackBy, missed>>

-----------------------------------------------------------------------------
NoRead  == [phase |-> "idle", upTo |-> 0, found |-> {}]
NoRun   == [proc |-> None, batch |-> {}, todo |-> {}, failed |-> FALSE]
NoClear == [proc |-> None, ids |-> {}, todo |-> {}, failed |-> FALSE]

Stored == {a \in Actions : doc[IdOf[a]] = a}

\* CronJob.nextDate(): the first tick strictly after t.
NextDate(t) == t + Period - (t % Period)

\* CHOOSE names the timeout; which slot it is has no meaning.
FreeSlot(p, a) == CHOOSE k \in Slots : timer[p][<<a, k>>] = "free"

(***************************************************************************)
(* _startActionTimeout for every action of S: nothing for an id that       *)
(* already has an entry in timeoutMap.                                     *)
(***************************************************************************)
Unmapped(p, S) == {a \in S : timeoutMap[p][IdOf[a]] = None}

Arm(p, S) ==
    LET new  == Unmapped(p, S)
        arms == {<<a, FreeSlot(p, a)>> : a \in new}
    IN  /\ \A a \in new : \E k \in Slots : timer[p][<<a, k>>] = "free"
        /\ timer' = [timer EXCEPT ![p] = [h \in Handles |->
               IF h \in arms THEN "armed" ELSE timer[p][h]]]
        /\ timeoutMap' = [timeoutMap EXCEPT ![p] = [i \in Ids |->
               IF \E h \in arms : IdOf[h[1]] = i
               THEN CHOOSE h \in arms : IdOf[h[1]] = i
               ELSE timeoutMap[p][i]]]

Init ==
    /\ now = 0
    /\ doc = [i \in Ids |-> None]
    /\ up = Procs
    /\ started = {}
    /\ fnMap = [p \in Procs |-> {}]
    /\ cronDue = {}
    /\ timeoutMap = [p \in Procs |-> [i \in Ids |-> None]]
    /\ timer = [p \in Procs |-> [h \in Handles |-> "free"]]
    /\ reading = [p \in Procs |-> [r \in Reads |-> NoRead]]
    /\ run = [c \in Calls |-> NoRun]
    /\ clear = [c \in Calls |-> NoClear]
    /\ faults = 0
    /\ submitted = {} /\ saved = {} /\ ran = {} /\ dropped = {}
    /\ clearAsked = {}
    /\ ackBy = [a \in Actions |-> None]
    /\ missed = {}

-----------------------------------------------------------------------------
(* Registration, start-up and the cron handler *)

SetFunction(p, key) ==
    /\ p \in up /\ key \notin fnMap[p]
    /\ fnMap' = [fnMap EXCEPT ![p] = @ \union {key}]
    /\ UNCHANGED <<now, doc, up, started, cronDue, timeoutMap, timer, reading,
                   callVars, faults, history, missed>>

\* Mutant of SendFind: the find only asks for what is already due.
SendFindNoHorizon(p, r) ==
    /\ reading[p][r].phase = "idle"
    /\ reading' = [reading EXCEPT ![p][r] =
           [phase |-> "sent", upTo |-> now, found |-> {}]]

\* getNextBunch up to its await: the horizon is taken before the find.
SendFind(p, r) ==
    /\ reading[p][r].phase = "idle"
    /\ reading' = [reading EXCEPT ![p][r] =
           [phase |-> "sent", upTo |-> NextDate(now), found |-> {}]]

StartUp(p) ==
    /\ p \in up \ started
    /\ started' = started \union {p}
    /\ \/ /\ NextDate(now) - now > Grace
          /\ \E r \in Reads : SendFind(p, r)
       \/ /\ NextDate(now) - now <= Grace
          /\ UNCHANGED reading
    /\ UNCHANGED <<now, doc, up, fnMap, cronDue, timeoutMap, timer, callVars,
                   faults, history, missed>>

\* Before startUp this.job is undefined and the handler only throws.
CronFires(p) ==
    /\ p \in cronDue
    /\ cronDue' = cronDue \ {p}
    /\ \/ /\ p \in started
          /\ \E r \in Reads : SendFind(p, r)
          /\ missed' = missed \ {p}
       \/ /\ p \notin started
          /\ UNCHANGED <<reading, missed>>
    /\ UNCHANGED <<now, doc, procVars, timeoutMap, timer, callVars, faults,
                   history>>

\* Mutants of FindReads: finished actions are not excluded; overdue ones are.
FindReadsFinished(p, r) ==
    /\ reading[p][r].phase = "sent"
    /\ reading' = [reading EXCEPT ![p][r] =
           [phase |-> "read", upTo |-> 0,
            found |-> {a \in saved : ExecTimeOf[a] <= reading[p][r].upTo}]]
    /\ UNCHANGED <<now, doc, procVars, cronDue, timeoutMap, timer, callVars,
                   faults, history, missed>>

FindReadsFuture(p, r) ==
    /\ reading[p][r].phase = "sent"
    /\ reading' = [reading EXCEPT ![p][r] =
           [phase |-> "read", upTo |-> 0,
            found |-> {a \in Stored : ExecTimeOf[a] \in now..reading[p][r].upTo}]]
    /\ UNCHANGED <<now, doc, procVars, cronDue, timeoutMap, timer, callVars,
                   faults, history, missed>>

\* The database evaluates the find.
FindReads(p, r) ==
    /\ reading[p][r].phase = "sent"
    /\ reading' = [reading EXCEPT ![p][r] =
           [phase |-> "read", upTo |-> 0,
            found |-> {a \in Stored : ExecTimeOf[a] <= reading[p][r].upTo}]]
    /\ UNCHANGED <<now, doc, procVars, cronDue, timeoutMap, timer, callVars,
                   faults, history, missed>>

\* The reply arrives: getNextBunch after its await.
FindReturns(p, r) ==
    /\ reading[p][r].phase = "read"
    /\ Arm(p, reading[p][r].found)
    /\ reading' = [reading EXCEPT ![p][r] = NoRead]
    /\ UNCHANGED <<now, doc, procVars, cronDue, callVars, faults, history,
                   missed>>

FindFails(p, r) ==
    /\ reading[p][r].phase = "sent" /\ faults < MaxFaults
    /\ reading' = [reading EXCEPT ![p][r] = NoRead]
    /\ faults' = faults + 1
    /\ missed' = missed \union {p}
    /\ UNCHANGED <<now, doc, procVars, cronDue, timeoutMap, timer, callVars,
                   history>>

-----------------------------------------------------------------------------
(* runTimer (a batch of one) and runTimers *)

RunTimers(c, p, B) ==
    /\ run[c].proc = None /\ p \in up
    /\ B # {} /\ B \intersect submitted = {}
    /\ run' = [run EXCEPT ![c] =
           [proc |-> p, batch |-> B, todo |-> B, failed |-> FALSE]]
    /\ submitted' = submitted \union B
    /\ UNCHANGED <<now, doc, procVars, cronDue, timeoutMap, timer, reading,
                   clear, faults, saved, ran, dropped, clearAsked, ackBy,
                   missed>>

\* One insert of the batch: a duplicate _id is refused.
SaveOne(c, a) ==
    /\ a \in run[c].todo
    /\ \/ /\ doc[IdOf[a]] = None
          /\ doc' = [doc EXCEPT ![IdOf[a]] = a]
          /\ saved' = saved \union {a}
          /\ run' = [run EXCEPT ![c].todo = @ \ {a}]
       \/ /\ doc[IdOf[a]] # None
          /\ run' = [run EXCEPT ![c].todo = @ \ {a}, ![c].failed = TRUE]
          /\ UNCHANGED <<doc, saved>>
    /\ UNCHANGED <<now, procVars, cronDue, timeoutMap, timer, reading, clear,
                   faults, submitted, ran, dropped, clearAsked, ackBy, missed>>

SaveFails(c, a) ==
    /\ a \in run[c].todo /\ faults < MaxFaults
    /\ run' = [run EXCEPT ![c].todo = @ \ {a}, ![c].failed = TRUE]
    /\ faults' = faults + 1
    /\ UNCHANGED <<now, doc, procVars, cronDue, timeoutMap, timer, reading,
                   clear, history, missed>>

\* Every save has been answered.  A failed one, or a service that was not
\* started (this.job is undefined), rejects before anything is armed.
RunReturns(c) ==
    LET p == run[c].proc
        B == run[c].batch
    IN  /\ p # None /\ run[c].todo = {}
        /\ run' = [run EXCEPT ![c] = NoRun]
        /\ \/ /\ ~run[c].failed /\ p \in started
              /\ Arm(p, {a \in B : ExecTimeOf[a] <= NextDate(now)})
              /\ ackBy' = [a \in Actions |-> IF a \in B THEN p ELSE ackBy[a]]
           \/ /\ run[c].failed \/ p \notin started
              /\ UNCHANGED <<timer, timeoutMap, ackBy>>
        /\ UNCHANGED <<now, doc, procVars, cronDue, reading, clear, faults,
                       submitted, saved, ran, dropped, clearAsked, missed>>

-----------------------------------------------------------------------------
(* clearTimer (one id) and clearTimers *)

ClearTimers(c, p, I) ==
    /\ clear[c].proc = None /\ p \in up
    /\ I # {} /\ I \subseteq {IdOf[a] : a \in submitted}
    /\ clear' = [clear EXCEPT ![c] =
           [proc |-> p, ids |-> I, todo |-> I, failed |-> FALSE]]
    /\ clearAsked' = clearAsked \union I
    /\ UNCHANGED <<now, doc, procVars, cronDue, timeoutMap, timer, reading,
                   run, faults, submitted, saved, ran, dropped, ackBy, missed>>

DeleteOne(c, i) ==
    /\ i \in clear[c].todo
    /\ doc' = [doc EXCEPT ![i] = None]
    /\ clear' = [clear EXCEPT ![c].todo = @ \ {i}]
    /\ UNCHANGED <<now, procVars, cronDue, timeoutMap, timer, reading, run,
                   faults, history, missed>>

\* The rest of the command fails; what it deleted stays deleted.
DeleteFails(c) ==
    /\ clear[c].todo # {} /\ faults < MaxFaults
    /\ clear' = [clear EXCEPT ![c].todo = {}, ![c].failed = TRUE]
    /\ faults' = faults + 1
    /\ UNCHANGED <<now, doc, procVars, cronDue, timeoutMap, timer, reading,
                   run, history, missed>>

\* clearTimeout stops a pending timeout; it does nothing to a callback that
\* already runs, but its entry goes all the same.
ClearReturns(c) ==
    LET p == clear[c].proc
        I == clear[c].ids
    IN  /\ p # None /\ clear[c].todo = {}
        /\ clear' = [clear EXCEPT ![c] = NoClear]
        /\ \/ /\ ~clear[c].failed
              /\ timer' = [timer EXCEPT ![p] = [h \in Handles |->
                     IF timer[p][h] = "armed"
                        /\ \E i \in I : timeoutMap[p][i] = h
                     THEN "free" ELSE timer[p][h]]]
              /\ timeoutMap' = [timeoutMap EXCEPT ![p] = [i \in Ids |->
                     IF i \in I THEN None ELSE timeoutMap[p][i]]]
           \/ /\ clear[c].failed
              /\ UNCHANGED <<timer, timeoutMap>>
        /\ UNCHANGED <<now, doc, procVars, cronDue, reading, run, faults,
                       history, missed>>

-----------------------------------------------------------------------------
(* The timeout callback, one action per continuation *)

SetPhase(p, h, phase) == timer' = [timer EXCEPT ![p][h] = phase]

\* Mutant of Elapsed: the delay is rounded down to a unit of the clock.
ElapsedEarly(a) == now + 1 >= ExecTimeOf[a]

\* setTimeout fires at once when the delay exceeds what it can represent.
Elapsed(a) == \/ now >= ExecTimeOf[a]
              \/ ExecTimeOf[a] - now > MaxDelay

Fire(p, h) ==
    /\ timer[p][h] = "armed" /\ Elapsed(h[1])
    /\ \/ /\ FnKeyOf[h[1]] \in fnMap[p]
          /\ SetPhase(p, h, "running")
          /\ UNCHANGED dropped
       \/ /\ FnKeyOf[h[1]] \notin fnMap[p]
          /\ SetPhase(p, h, "deleting")
          /\ dropped' = dropped \union {h[1]}
    /\ UNCHANGED <<now, doc, procVars, cronDue, timeoutMap, reading, callVars,
                   faults, submitted, saved, ran, clearAsked, ackBy, missed>>

\* Mutant of FnReturns: the entry of timeoutMap goes before the document.
FnReturnsForgets(p, h) ==
    /\ timer[p][h] = "running"
    /\ SetPhase(p, h, "deleting")
    /\ ran' = ran \union {h[1]}
    /\ timeoutMap' = [timeoutMap EXCEPT ![p][IdOf[h[1]]] = None]
    /\ UNCHANGED <<now, doc, procVars, cronDue, reading, callVars, faults,
                   submitted, saved, dropped, clearAsked, ackBy, missed>>

\* The function completes and its continuation sends deleteOne.
FnReturns(p, h) ==
    /\ timer[p][h] = "running"
    /\ SetPhase(p, h, "deleting")
    /\ ran' = ran \union {h[1]}
    /\ UNCHANGED <<now, doc, procVars, cronDue, timeoutMap, reading, callVars,
                   faults, submitted, saved, dropped, clearAsked, ackBy, missed>>

\* Mutant of DeleteAction: deletes whatever is due.
DeleteActionsDue(p, h) ==
    /\ timer[p][h] = "deleting"
    /\ doc' = [i \in Ids |-> None]
    /\ SetPhase(p, h, "deleted")
    /\ UNCHANGED <<now, procVars, cronDue, timeoutMap, reading, callVars,
                   faults, history, missed>>

\* deleteOne goes by _id, whatever document has it by now.
DeleteAction(p, h) ==
    /\ timer[p][h] = "deleting"
    /\ doc' = [doc EXCEPT ![IdOf[h[1]]] = None]
    /\ SetPhase(p, h, "deleted")
    /\ UNCHANGED <<now, procVars, cronDue, timeoutMap, reading, callVars,
                   faults, history, missed>>

\* Mutant of CallbackEnds: forgets every timeout.
CallbackEndsClearsMap(p, h) ==
    /\ timer[p][h] = "deleted"
    /\ SetPhase(p, h, "free")
    /\ timeoutMap' = [timeoutMap EXCEPT ![p] = [i \in Ids |-> None]]
    /\ UNCHANGED <<now, doc, procVars, cronDue, reading, callVars, faults,
                   history, missed>>

\* timeoutMap.delete goes by id too.
CallbackEnds(p, h) ==
    /\ timer[p][h] = "deleted"
    /\ SetPhase(p, h, "free")
    /\ timeoutMap' = [timeoutMap EXCEPT ![p][IdOf[h[1]]] = None]
    /\ UNCHANGED <<now, doc, procVars, cronDue, reading, callVars, faults,
                   history, missed>>

-----------------------------------------------------------------------------
(* Faults, restarts and time *)

\* A process ends: only the database survives.  A command it had sent either
\* took effect before or never does.
Down(p) ==
    /\ up' = up \ {p}
    /\ started' = started \ {p}
    /\ cronDue' = cronDue \ {p}
    /\ missed' = missed \ {p}
    /\ fnMap' = [fnMap EXCEPT ![p] = {}]
    /\ timeoutMap' = [timeoutMap EXCEPT ![p] = [i \in Ids |-> None]]
    /\ timer' = [timer EXCEPT ![p] = [h \in Handles |-> "free"]]
    /\ reading' = [reading EXCEPT ![p] = [r \in Reads |-> NoRead]]
    /\ run' = [c \in Calls |-> IF run[c].proc = p THEN NoRun ELSE run[c]]
    /\ clear' = [c \in Calls |-> IF clear[c].proc = p THEN NoClear ELSE clear[c]]
    /\ ackBy' = [a \in Actions |-> IF ackBy[a] = p THEN None ELSE ackBy[a]]
    /\ UNCHANGED <<now, doc, submitted, saved, ran, dropped, clearAsked>>

Crash(p) ==
    /\ p \in up /\ faults < MaxFaults
    /\ faults' = faults + 1
    /\ Down(p)

Restart(p) ==
    /\ p \in Procs \ up
    /\ up' = up \union {p}
    /\ UNCHANGED <<now, doc, started, fnMap, cronDue, timeoutMap, timer,
                   reading, callVars, faults, history, missed>>

\* Mutant of Rejects: the deletion sits in a finally block.
RejectsStillDeletes(p, h) ==
    /\ timer[p][h] = "running" /\ faults < MaxFaults
    /\ faults' = faults + 1
    /\ SetPhase(p, h, "deleting")
    /\ UNCHANGED <<now, doc, procVars, cronDue, timeoutMap, reading, callVars,
                   history, missed>>

\* The function or deleteOne rejects in the async callback: nobody catches it.
\* If the process survives, the entry of timeoutMap is never removed.
Rejects(p, h) ==
    /\ timer[p][h] \in {"running", "deleting"} /\ faults < MaxFaults
    /\ faults' = faults + 1
    /\ \/ CrashOnRejection /\ Down(p)
       \/ /\ ~CrashOnRejection
          /\ SetPhase(p, h, "rejected")
          /\ UNCHANGED <<now, doc, procVars, cronDue, timeoutMap, reading,
                         callVars, history, missed>>

\* Time passes; crossing a multiple of Period makes every running process's
\* cron job due.  The last period of the bounded clock repeats.
Tick ==
    LET t == IF now + 1 < MaxTime THEN now + 1 ELSE MaxTime - Period
    IN  /\ now' = t
        /\ cronDue' = IF t % Period = 0 THEN cronDue \union up ELSE cronDue
        /\ UNCHANGED <<doc, procVars, timeoutMap, timer, reading, callVars,
                       faults, history, missed>>

-----------------------------------------------------------------------------
Next ==
    \/ \E p \in Procs :
          \/ \E key \in FnKeys : SetFunction(p, key)
          \/ StartUp(p) \/ CronFires(p) \/ Crash(p) \/ Restart(p)
          \/ \E r \in Reads :
                FindReads(p, r) \/ FindReturns(p, r) \/ FindFails(p, r)
          \/ \E h \in Handles : \/ Fire(p, h) \/ FnReturns(p, h)
                                \/ DeleteAction(p, h) \/ CallbackEnds(p, h)
                                \/ Rejects(p, h)
          \/ \E c \in Calls : \/ \E B \in SUBSET Actions : RunTimers(c, p, B)
                              \/ \E I \in SUBSET Ids : ClearTimers(c, p, I)
    \/ \E c \in Calls :
          \/ \E a \in Actions : SaveOne(c, a) \/ SaveFails(c, a)
          \/ RunReturns(c)
          \/ \E i \in Ids : DeleteOne(c, i)
          \/ DeleteFails(c) \/ ClearReturns(c)
    \/ Tick

Spec == Init /\ [][Next]_vars

\* The runtime delivers timers, replies and cron ticks, functions return, a
\* supervisor restarts a process and its bootstrap calls startUp.
Fairness ==
    /\ WF_vars(Tick)
    /\ \A p \in Procs :
          /\ WF_vars(StartUp(p)) /\ WF_vars(CronFires(p)) /\ WF_vars(Restart(p))
          /\ \A r \in Reads :
                WF_vars(FindReads(p, r)) /\ WF_vars(FindReturns(p, r))
          /\ \A h \in Handles :
                /\ WF_vars(Fire(p, h)) /\ WF_vars(FnReturns(p, h))
                /\ WF_vars(DeleteAction(p, h)) /\ WF_vars(CallbackEnds(p, h))

FairSpec == Spec /\ Fairness
-----------------------------------------------------------------------------
(* Properties *)

\* Two actions never share an _id: callers generate a new ObjectId each time.
FreshIds == \A a, b \in Actions : IdOf[a] = IdOf[b] => a = b

\* Every variable has its type; the calls and the finds are well formed.
TypeOK ==
    /\ now \in Nat /\ faults \in Nat
    /\ doc \in [Ids -> Actions \union {None}]
    /\ up \subseteq Procs /\ started \subseteq up
    /\ cronDue \subseteq up /\ missed \subseteq Procs
    /\ fnMap \in [Procs -> SUBSET FnKeys]
    /\ timeoutMap \in [Procs -> [Ids -> Handles \union {None}]]
    /\ timer \in [Procs -> [Handles -> Phases]]
    /\ reading \in [Procs -> [Reads -> Finds]]
    /\ run \in [Calls -> RunCalls]
    /\ clear \in [Calls -> ClearCalls]
    /\ submitted \subseteq Actions /\ saved \subseteq Actions
    /\ ran \subseteq Actions /\ dropped \subseteq Actions
    /\ clearAsked \subseteq Ids
    /\ ackBy \in [Actions -> Procs \union {None}]

\* A timeout that is still pending for a stored action is the one timeoutMap
\* holds under its id, so a clearTimer in that process will find and stop it,
\* whatever finds, clears, callbacks and crashes came between.
StoredIsCancellable ==
    \A p \in Procs, a \in Stored, k \in Slots :
        timer[p][<<a, k>>] = "armed" => timeoutMap[p][IdOf[a]] = <<a, k>>

\* A process holds at most one timeout for a stored action, pending or with
\* its callback in progress, unless somebody asked to clear it: overlapping
\* finds and runTimers never start its function twice before its deletion.
StoredHasOneTimer ==
    \A p \in Procs, a \in Stored, k \in Slots :
        /\ IdOf[a] \notin clearAsked
        /\ timer[p][<<a, k>>] # "free"
        => timeoutMap[p][IdOf[a]] = <<a, k>>

\* No function runs before the execTime of its action, although setTimeout
\* fires at once for a delay it cannot represent: everything that arms a
\* timeout bounds its delay by the next cron tick.
NeverEarly ==
    \A p \in Procs, h \in Handles :
        timer[p][h] = "running" => now >= ExecTimeOf[h[1]]

\* A document leaves the collection only after its function completed, its key
\* was found unregistered, or somebody asked to clear it: a crash or a failed
\* command between two steps of the callback loses no action.
AccountedFor ==
    \A a \in saved : \/ a \in Stored
                     \/ a \in ran \union dropped
                     \/ IdOf[a] \in clearAsked

\* Between runTimers and the cron there is no gap: once runTimers answered in a
\* process and that process has dealt with its latest tick, an action due
\* before the next tick has a timeout there, or a find that will deliver it.
AcknowledgedIsInHand ==
    \A p \in Procs, a \in Stored :
        /\ ackBy[a] = p /\ p \notin cronDue /\ p \notin missed
        /\ ExecTimeOf[a] <= NextDate(now)
        /\ IdOf[a] \notin clearAsked
        => \/ timeoutMap[p][IdOf[a]] # None
           \/ \E r \in Reads : \/ a \in reading[p][r].found
                              \/ /\ reading[p][r].phase = "sent"
                                 /\ ExecTimeOf[a] <= reading[p][r].upTo

\* Nothing of an action is left in a process: no document, no timeout, and no
\* reply on its way that could arm one.
GoneFrom(p, a) ==
    /\ a \in saved \ Stored
    /\ \A k \in Slots : timer[p][<<a, k>>] = "free"
    /\ \A r \in Reads : a \notin reading[p][r].found
    /\ \A c \in Calls : ~(run[c].proc = p /\ a \in run[c].batch)

\* An executed or cleared action comes back only through a find or a runTimers
\* that was already in flight when its document went.
GoneForGood ==
    [][\A p \in Procs, a \in Actions : GoneFrom(p, a) => GoneFrom(p, a)']_vars

\* Every stored action is eventually executed, discarded or cleared, in spite
\* of crashes, restarts, failed finds and rejecting functions (finitely many).
StoredEventuallyGone == \A a \in Actions : a \in Stored ~> a \notin Stored

\* If every process that is started has its functions registered, an action
\* nobody clears is executed, not only discarded.
RegisteredActionsRun ==
    [](\A p \in up : fnMap[p] = FnKeys \/ p \notin started) =>
        \A a \in Actions :
            a \in saved ~> (a \in ran \/ IdOf[a] \in clearAsked)

\* The service implements the abstract timer: the pending actions are the
\* stored ones.  Holds when no _id is used twice.
Promise == INSTANCE TimedActions WITH
    accepted <- saved, pending <- Stored, cancelAsked <- clearAsked

ImplementsPromise == Promise!Spec
=============================================================================
