--------------------------- MODULE TimerTransaction ---------------------------
(***************************************************************************)
(* TimerService and the transaction helper together.  runTimer(s) and      *)
(* clearTimer(s) are @Transactional SUPPORTS: called in the body of a      *)
(* transaction, their saves and deletions belong to it (TimerService's     *)
(* SaveOne and DeleteOne are staged), but setTimeout, clearTimeout and     *)
(* timeoutMap know of no transaction.  The document a timeout holds keeps  *)
(* the session it was saved in, and its deletion joins that transaction as *)
(* long as the session has not ended.                                      *)
(*                                                                         *)
(* One transaction, of a body that awaits its calls; see Transactional for *)
(* how a body finds its session.  The database's part is modelled from how *)
(* the code uses it.                                                       *)
(***************************************************************************)
EXTENDS TimerService

CONSTANTS
    MaxAttempts, \* times withTransaction runs the body (bound)
    Same         \* a document the transaction did not write

ASSUME TransactionAssumption ==
    /\ MaxAttempts \in Nat \ {0}
    /\ Same \notin Actions \union {None}

VARIABLES
    tx,     \* the transaction
    joined, \* timeouts whose document carries its session: <<process, handle>>
    \* History, read by properties only:
    overlooked \* actions of the transaction that the latest find of its process
               \* could not see: it was sent since they were answered for, and
               \* before the commit

allVars == <<vars, tx, joined, overlooked>>

Nothing == [i \in Ids |-> Same]

Transactions ==
    [phase : {"idle", "body", "ending", "committed", "aborted"},
     proc : Procs \union {None}, attempt : 0..MaxAttempts,
     runs : SUBSET Calls, clears : SUBSET Calls,  \* calls the body awaits
     mine : SUBSET Actions,   \* actions it asked for, in any attempt
     cleared : SUBSET Ids,    \* ids it cleared in this attempt
     tried : SUBSET Ids,      \* ids it cleared in any attempt
     view : [Ids -> Actions \union {None, Same}],  \* its writes
     broken : BOOLEAN]        \* an operation failed: the server gave it up

\* The processes are up and started, their functions registered.
Init2 ==
    /\ now = 0 /\ faults = 0
    /\ doc = [i \in Ids |-> None]
    /\ up = Procs /\ started = Procs /\ cronDue = {} /\ missed = {}
    /\ fnMap = [p \in Procs |-> FnKeys]
    /\ timeoutMap = [p \in Procs |-> [i \in Ids |-> None]]
    /\ timer = [p \in Procs |-> [h \in Handles |-> "free"]]
    /\ reading = [p \in Procs |-> [r \in Reads |-> NoRead]]
    /\ run = [c \in Calls |-> NoRun] /\ clear = [c \in Calls |-> NoClear]
    /\ submitted = {} /\ saved = {} /\ ran = {} /\ dropped = {} /\ clearAsked = {}
    /\ ackBy = [a \in Actions |-> None]
    /\ tx = [phase |-> "idle", proc |-> None, attempt |-> 0, runs |-> {},
             clears |-> {}, mine |-> {}, cleared |-> {}, tried |-> {}, view |-> Nothing, broken |-> FALSE]
    /\ joined = {} /\ overlooked = {}

InProgress == tx.phase \in {"body", "ending"}

\* What the transaction finds under an id.
Seen(i) == IF tx.view[i] = Same THEN doc[i] ELSE tx.view[i]

\* A document the transaction wrote: other writers wait until it is over.
Locked(i) == InProgress /\ tx.view[i] # Same /\ tx.view[i] # doc[i]

-----------------------------------------------------------------------------
(* The body: calls that join the transaction *)

Begin(p) ==
    /\ tx.phase = "idle" /\ p \in up
    /\ tx' = [tx EXCEPT !.phase = "body", !.proc = p, !.attempt = 1]
    /\ UNCHANGED <<vars, joined, overlooked>>

\* runTimer(s) in the body.  A later attempt asks for the same actions again.
JoinRun(c, B) ==
    /\ tx.phase = "body" /\ run[c].proc = None
    /\ B # {} /\ B \intersect (submitted \ tx.mine) = {}
    /\ run' = [run EXCEPT ![c] =
           [proc |-> tx.proc, batch |-> B, todo |-> B, failed |-> FALSE]]
    /\ submitted' = submitted \union B
    /\ tx' = [tx EXCEPT !.runs = @ \union {c}, !.mine = @ \union B]
    /\ UNCHANGED <<now, doc, procVars, cronDue, timeoutMap, timer, reading,
                   clear, faults, saved, ran, dropped, clearAsked, ackBy,
                   missed, joined, overlooked>>

\* A save of the batch in the session; a duplicate _id ends the transaction.
StageOne(c, a) ==
    LET free == Seen(IdOf[a]) = None
    IN  /\ c \in tx.runs /\ a \in run[c].todo
        /\ run' = [run EXCEPT ![c].todo = @ \ {a}, ![c].failed = @ \/ ~free]
        /\ tx' = IF free THEN [tx EXCEPT !.view[IdOf[a]] = a]
                 ELSE [tx EXCEPT !.broken = TRUE]
        /\ UNCHANGED <<now, doc, procVars, cronDue, timeoutMap, timer, reading,
                       clear, faults, history, missed, joined, overlooked>>

\* Mutant: a joined call leaves the timeouts to the cron.
JoinedRunReturnsUnarmed(c) ==
    /\ c \in tx.runs /\ run[c].todo = {}
    /\ run' = [run EXCEPT ![c] = NoRun]
    /\ ackBy' = IF run[c].failed THEN ackBy
                ELSE [a \in Actions |-> IF a \in run[c].batch THEN tx.proc ELSE ackBy[a]]
    /\ tx' = [tx EXCEPT !.runs = @ \ {c}]
    /\ UNCHANGED <<now, doc, procVars, cronDue, timeoutMap, timer, reading, clear,
                   faults, submitted, saved, ran, dropped, clearAsked, missed, joined, overlooked>>

\* The timeouts are armed here, before anybody knows whether the transaction
\* commits; an id that has one, of an earlier attempt, keeps it.
JoinedRunReturns(c) ==
    /\ c \in tx.runs
    /\ RunReturns(c)
    /\ tx' = [tx EXCEPT !.runs = @ \ {c}]
    /\ joined' = joined \union
           {<<tx.proc, h>> : h \in {g \in Handles : timer[tx.proc][g] = "free"
                                                    /\ timer'[tx.proc][g] = "armed"}}
    /\ overlooked' = IF run[c].failed THEN overlooked ELSE overlooked \ run[c].batch

\* clearTimer(s) in the body.
JoinClear(c, I) ==
    /\ tx.phase = "body" /\ clear[c].proc = None
    /\ I # {} /\ I \subseteq {IdOf[a] : a \in submitted}
    /\ clear' = [clear EXCEPT ![c] =
           [proc |-> tx.proc, ids |-> I, todo |-> I, failed |-> FALSE]]
    /\ tx' = [tx EXCEPT !.clears = @ \union {c}, !.cleared = @ \union I,
                        !.tried = @ \union I]
    /\ UNCHANGED <<now, doc, procVars, cronDue, timeoutMap, timer, reading, run,
                   faults, history, missed, joined, overlooked>>

\* A deletion in the session.
Delete(i) == IF Seen(i) = None THEN tx ELSE [tx EXCEPT !.view[i] = None]

\* Mutant: the deletion does not belong to the transaction.
DropOnePlain(c, i) ==
    /\ c \in tx.clears /\ i \in clear[c].todo
    /\ clear' = [clear EXCEPT ![c].todo = @ \ {i}]
    /\ doc' = [doc EXCEPT ![i] = None]
    /\ UNCHANGED <<now, procVars, cronDue, timeoutMap, timer, reading, run,
                   faults, history, missed, tx, joined, overlooked>>

DropOne(c, i) ==
    /\ c \in tx.clears /\ i \in clear[c].todo
    /\ clear' = [clear EXCEPT ![c].todo = @ \ {i}]
    /\ tx' = Delete(i)
    /\ UNCHANGED <<now, doc, procVars, cronDue, timeoutMap, timer, reading, run,
                   faults, history, missed, joined, overlooked>>

\* clearTimeout comes before the commit, too.
JoinedClearReturns(c) ==
    /\ c \in tx.clears
    /\ ClearReturns(c)
    /\ tx' = [tx EXCEPT !.clears = @ \ {c}]
    /\ joined' = {x \in joined : timer'[x[1]][x[2]] # "free"}
    /\ UNCHANGED overlooked

\* An operation in the session fails, and with it its call and the transaction.
JoinedFails(c) ==
    /\ \/ /\ c \in tx.runs /\ run[c].todo # {}
          /\ run' = [run EXCEPT ![c].todo = {}, ![c].failed = TRUE]
          /\ UNCHANGED clear
       \/ /\ c \in tx.clears /\ clear[c].todo # {}
          /\ clear' = [clear EXCEPT ![c].todo = {}, ![c].failed = TRUE]
          /\ UNCHANGED run
    /\ tx' = [tx EXCEPT !.broken = TRUE]
    /\ UNCHANGED <<now, doc, procVars, cronDue, timeoutMap, timer, reading, faults,
                   history, missed, joined, overlooked>>

\* The body ended, well or not.
EndOfBody ==
    /\ tx.phase = "body" /\ tx.runs \union tx.clears = {}
    /\ tx' = [tx EXCEPT !.phase = "ending"]
    /\ UNCHANGED <<vars, joined, overlooked>>

-----------------------------------------------------------------------------
(* withTransaction after the body *)

\* Nothing of the transaction is left but what it asked for.
Over(outcome) ==
    /\ tx' = [tx EXCEPT !.phase = outcome, !.attempt = 0, !.runs = {}, !.clears = {},
                        !.cleared = {}, !.view = Nothing, !.broken = FALSE]
    /\ joined' = {}
    /\ UNCHANGED overlooked

CommitTransaction ==
    /\ tx.phase = "ending" /\ ~tx.broken
    /\ doc' = [i \in Ids |-> Seen(i)]
    /\ saved' = saved \union {a \in Actions : tx.view[IdOf[a]] = a}
    /\ clearAsked' = clearAsked \union tx.cleared
    /\ Over("committed")
    /\ UNCHANGED <<now, procVars, cronDue, timeoutMap, timer, reading, callVars,
                   faults, submitted, ran, dropped, ackBy, missed>>

\* Mutant: what the transaction wrote stays.
AbortTransactionKeepsWrites ==
    /\ tx.phase = "ending"
    /\ doc' = [i \in Ids |-> Seen(i)]
    /\ Over("aborted")
    /\ UNCHANGED <<now, procVars, cronDue, timeoutMap, timer, reading, callVars,
                   faults, history, missed>>

AbortTransaction ==
    /\ tx.phase = "ending"
    /\ Over("aborted")
    /\ UNCHANGED vars

\* Mutant: the entries of the attempt that failed go, their timeouts do not.
RetryTransactionForgets ==
    /\ tx.phase = "ending" /\ tx.attempt < MaxAttempts
    /\ tx' = [tx EXCEPT !.phase = "body", !.attempt = @ + 1, !.view = Nothing,
                        !.cleared = {}, !.broken = FALSE]
    /\ timeoutMap' = [timeoutMap EXCEPT ![tx.proc] = [i \in Ids |->
           IF i \in {IdOf[a] : a \in tx.mine} THEN None ELSE timeoutMap[tx.proc][i]]]
    /\ UNCHANGED <<now, doc, procVars, cronDue, timer, reading, callVars, faults,
                   history, missed, joined, overlooked>>

\* A transient error: the body runs again, in the same session.
RetryTransaction ==
    /\ tx.phase = "ending" /\ tx.attempt < MaxAttempts
    /\ tx' = [tx EXCEPT !.phase = "body", !.attempt = @ + 1, !.view = Nothing,
                        !.cleared = {}, !.broken = FALSE]
    /\ UNCHANGED <<vars, joined, overlooked>>

-----------------------------------------------------------------------------
(* The timeout's callback, and everybody else *)

\* deleteOne of a document whose session has not ended joins what its
\* transaction is doing by now, be it a later attempt.
JoinedDeleteAction(p, h) ==
    /\ timer[p][h] = "deleting" /\ <<p, h>> \in joined /\ InProgress
    /\ SetPhase(p, h, "deleted")
    /\ tx' = Delete(IdOf[h[1]])
    /\ UNCHANGED <<now, doc, procVars, cronDue, timeoutMap, reading, callVars,
                   faults, history, missed, joined, overlooked>>

FindSent(p, r) == reading[p][r].phase = "idle" /\ reading'[p][r].phase = "sent"

\* What a step of the service outside of the transaction does to it: it waits
\* for documents the transaction wrote.
Around ==
    /\ \A i \in Ids : Locked(i) => doc'[i] = doc[i]
    /\ InProgress =>
          /\ tx.proc \in up'
          /\ \A x \in joined :
                timer[x[1]][x[2]] = "deleting" => timer'[x[1]][x[2]] # "deleted"
    /\ \A c \in tx.runs : run'[c] = run[c]
    /\ \A c \in tx.clears : clear'[c] = clear[c]
    /\ joined' = {x \in joined : timer'[x[1]][x[2]] # "free"}
    /\ overlooked' = IF \E p \in Procs \intersect {tx.proc}, r \in Reads : FindSent(p, r)
                     THEN {a \in tx.mine : InProgress /\ ackBy[a] = tx.proc}
                     ELSE overlooked
    /\ UNCHANGED tx

Outside == Next /\ Around

\* The process ends, and the server undoes its transaction.
CrashInside ==
    /\ InProgress
    /\ Down(tx.proc)
    /\ Over("aborted")
    /\ UNCHANGED faults

Next2 ==
    \/ Outside
    \/ \E p \in Procs : Begin(p) \/ \E h \in Handles : JoinedDeleteAction(p, h)
    \/ \E c \in Calls :
          \/ \E B \in SUBSET Actions : JoinRun(c, B)
          \/ \E I \in SUBSET Ids : JoinClear(c, I)
          \/ \E a \in Actions : StageOne(c, a)
          \/ \E i \in Ids : DropOne(c, i)
          \/ JoinedRunReturns(c) \/ JoinedClearReturns(c) \/ JoinedFails(c)
    \/ EndOfBody \/ CommitTransaction \/ AbortTransaction \/ RetryTransaction
    \/ CrashInside

Spec2 == Init2 /\ [][Next2]_allVars

-----------------------------------------------------------------------------
(* Properties *)

TypeOK2 ==
    /\ TypeOK /\ tx \in Transactions
    /\ joined \subseteq Procs \X Handles /\ overlooked \subseteq Actions

Concerns(p, a) ==
    \/ \E k \in Slots : timer[p][<<a, k>>] # "free"
    \/ \E r \in Reads : a \in reading[p][r].found

\* Before its transaction commits, and for good if it aborts, an action is
\* known to the process of the transaction only: no other process reads it,
\* arms it or runs it.
UncommittedStaysHome ==
    \A p \in Procs, a \in Actions : Concerns(p, a) =>
        a \in saved \/ (p = tx.proc /\ a \in tx.mine)

\* An action nobody tried to clear never has a second timeout in a process,
\* pending or with its callback in progress: an attempt that is undone leaves its
\* timeout behind, and the next attempt, or the cron, does not add one.
OneTimeoutEach ==
    \A p \in Procs, a \in Actions, k \in Slots :
        /\ timer[p][<<a, k>>] # "free"
        /\ IdOf[a] \notin clearAsked \union tx.tried
        => timeoutMap[p][IdOf[a]] = <<a, k>>

\* Once the transaction that asked for an action committed, the action is in the
\* hands of the process: if it is due before the next tick and has not run yet, it
\* has a timeout, or a find will deliver it, whichever attempt armed it and
\* whatever the attempts before left behind.  Between the commit and the next find
\* that holds only if no find was sent between the answer of runTimers and the
\* commit: neither armed nor seen by that find, the action waits for another tick.
CommittedIsInHand ==
    \A p \in Procs, a \in Stored :
        /\ ackBy[a] = p /\ p \notin cronDue /\ p \notin missed
        /\ ExecTimeOf[a] <= NextDate(now)
        /\ IdOf[a] \notin clearAsked \union tx.tried
        /\ a \notin ran \union dropped \union overlooked
        => \/ timeoutMap[p][IdOf[a]] # None
           \/ \E r \in Reads : \/ a \in reading[p][r].found
                              \/ /\ reading[p][r].phase = "sent"
                                 /\ ExecTimeOf[a] <= reading[p][r].upTo
=============================================================================
