---------------------------- MODULE Transactional ----------------------------
(***************************************************************************)
(* src/src/transaction-helper: methods wrapped by @Transactional, the CLS  *)
(* contexts in which they find a Mongo session and a hook emitter, and the *)
(* mongoose plugin that attaches the session to every operation.           *)
(*                                                                         *)
(* A frame is one invocation of a wrapped method.  Its body runs in a      *)
(* context at the end of path: a context sees the values its ancestors     *)
(* have now, the nearest first.  A body may start frames it does not await *)
(* (Promise.all that rejects early, a call without await), so a frame can  *)
(* outlive its caller.  The driver's withTransaction and the database are  *)
(* modelled from how wrapInTransaction uses them.                          *)
(***************************************************************************)
EXTENDS Integers, Sequences

CONSTANTS
    Frames,        \* invocations of wrapped methods (bound)
    Conns,         \* names of mongoose connections
    Propagations,  \* the propagation types in use
    Events,        \* the hook events that bodies listen to
    Writers,       \* the frames whose bodies write (bound)
    MaxAttempts,   \* times withTransaction runs its callback (bound)
    AllowDetached, \* whether a body may end before the frames it started
    None

Unset == "unset"   \* of a context without a value of its own

ASSUME FramesAssumption ==
    /\ None \notin Frames /\ Unset \notin Frames \union {None} /\ MaxAttempts \in Nat \ {0}
    /\ AllowDetached \in BOOLEAN /\ Conns # {}
    /\ Events \subseteq {"commit", "rollback", "end"} /\ Writers \subseteq Frames
    /\ Propagations \subseteq
          {"MANDATORY", "NEVER", "NOT_SUPPORTED", "REQUIRED", "SUPPORTS"}

Contexts == Frames \X {"call", "hook"}
CallCtx(f) == <<f, "call">>   \* of context.runAndReturn in wrapped
HookCtx(f) == <<f, "hook">>   \* of runInNewHookContext

VARIABLES
    phase,      \* how far each frame is
    kind,       \* runs fn as it is, in a new hook context, or in a transaction
    prop, conn, \* options of the decorator
    path,       \* contexts from the root to the one the body runs in
    callers,    \* the frames it was called under, with their attempt
    scope,      \* the transaction it joined when called, with its attempt
    attempt,    \* runs of the body so far
    restore,    \* session a NOT_SUPPORTED frame puts back
    sessionIn,  \* per connection, the session each context holds
    hookIn,     \* the hook emitter each context holds
    session,    \* server side of the session a transaction frame started
    hook,       \* the emitter each frame created
    listeners,  \* listeners registered on each emitter
    fired,      \* listeners that were called
    staged,     \* writes of the transaction in progress, per session
    durable,    \* writes that are in the database
    wrote,      \* every write that was acknowledged to its frame
    committed   \* the attempt each session committed, or 0

ctxVars  == <<sessionIn, hookIn>>
callVars == <<kind, prop, conn, path, callers, scope, restore>>
dbVars   == <<staged, durable, wrote, committed>>
hookVars == <<hook, listeners, fired>>
vars == <<phase, attempt, session, callVars, ctxVars, dbVars, hookVars>>

-----------------------------------------------------------------------------
(* CLS contexts *)

\* namespace.get: the value of the nearest context that has one.
Lookup(val, p) ==
    LET own == {i \in 1..Len(p) : val[p[i]] # Unset}
    IN  IF own = {} THEN None
        ELSE val[p[CHOOSE i \in own : \A j \in own : j <= i]]

\* Mutant: every model resolves to the same connection.
SessionOfOneConnection(f) ==
    Lookup(sessionIn[CHOOSE c \in Conns : TRUE], path[f])

SessionOf(f) == Lookup(sessionIn[conn[f]], path[f])

HookOf(f) == Lookup(hookIn, path[f])

\* Every frame above f is still in the attempt that led to f.
Attached(f) == \A c \in callers[f] : phase[c[1]] = "body" /\ attempt[c[1]] = c[2]

\* The transaction attempt f belongs to.
ScopeOf(f) == IF kind[f] = "txn" THEN <<f, attempt[f]>> ELSE scope[f]

NoScope == <<None, 0>>

Init ==
    /\ phase = [f \in Frames |-> "idle"]
    /\ kind = [f \in Frames |-> "plain"]
    /\ prop = [f \in Frames |-> "SUPPORTS"]
    /\ conn = [f \in Frames |-> CHOOSE c \in Conns : TRUE]
    /\ path = [f \in Frames |-> <<>>]
    /\ callers = [f \in Frames |-> {}]
    /\ scope = [f \in Frames |-> NoScope]
    /\ attempt = [f \in Frames |-> 0]
    /\ restore = [f \in Frames |-> None]
    /\ sessionIn = [c \in Conns |-> [x \in Contexts |-> Unset]]
    /\ hookIn = [x \in Contexts |-> Unset]
    /\ session = [f \in Frames |-> "none"]
    /\ hook = [f \in Frames |-> "none"]
    /\ listeners = [f \in Frames |-> {}]
    /\ fired = {}
    /\ staged = [f \in Frames |-> {}]
    /\ durable = {} /\ wrote = {}
    /\ committed = [f \in Frames |-> 0]

-----------------------------------------------------------------------------
(* wrapped: the call and its propagation *)

\* What every branch of the switch records.
Enter(f, callerPath, above, pr, cn, cur, cx) ==
    /\ prop' = [prop EXCEPT ![f] = pr]
    /\ conn' = [conn EXCEPT ![f] = cn]
    /\ path' = [path EXCEPT ![f] = callerPath \o cx]
    /\ callers' = [callers EXCEPT ![f] = above]
    /\ scope' = [scope EXCEPT ![f] =
           IF cur = None THEN NoScope ELSE <<cur, attempt[cur]>>]

RunOriginal(f) ==
    /\ phase' = [phase EXCEPT ![f] = "body"]
    /\ attempt' = [attempt EXCEPT ![f] = 1]
    /\ UNCHANGED <<kind, restore, sessionIn, hookIn, hook>>

RunWithNewHook(f) ==
    /\ phase' = [phase EXCEPT ![f] = "body"]
    /\ attempt' = [attempt EXCEPT ![f] = 1]
    /\ kind' = [kind EXCEPT ![f] = "hooked"]
    /\ hookIn' = [hookIn EXCEPT ![HookCtx(f)] = f]
    /\ hook' = [hook EXCEPT ![f] = "open"]

\* Mutant: the emitter of a transaction is never put in its context.
RunWithNewTransactionUnset(f) ==
    /\ phase' = [phase EXCEPT ![f] = "starting"]
    /\ kind' = [kind EXCEPT ![f] = "txn"]
    /\ hook' = [hook EXCEPT ![f] = "open"]
    /\ UNCHANGED <<attempt, restore, sessionIn, hookIn>>

\* Up to the await of startSession.
RunWithNewTransaction(f) ==
    /\ phase' = [phase EXCEPT ![f] = "starting"]
    /\ kind' = [kind EXCEPT ![f] = "txn"]
    /\ hookIn' = [hookIn EXCEPT ![HookCtx(f)] = f]
    /\ hook' = [hook EXCEPT ![f] = "open"]
    /\ UNCHANGED <<attempt, restore, sessionIn>>

Throw(f) ==
    /\ phase' = [phase EXCEPT ![f] = "done"]
    /\ UNCHANGED <<attempt, kind, restore, sessionIn, hookIn, hook>>

\* Mutant: the session is remembered, never taken away.
SuspendNothing(f, cn, cur) ==
    /\ restore' = [restore EXCEPT ![f] = cur]
    /\ UNCHANGED sessionIn

\* NOT_SUPPORTED inside a transaction: its context holds no session while fn
\* runs, and gets the current one back afterwards.
Suspend(f, cn, cur) ==
    /\ restore' = [restore EXCEPT ![f] = cur]
    /\ sessionIn' = [sessionIn EXCEPT ![cn][CallCtx(f)] = None]

\* The switch over the propagation types; cur is the current transaction.
Propagate(f, p, above, pr, cn) ==
    LET cur  == Lookup(sessionIn[cn], p)
        here == <<CallCtx(f)>>
        deep == <<CallCtx(f), HookCtx(f)>>
    IN  \/ /\ \/ pr = "MANDATORY" /\ cur = None
              \/ pr = "NEVER" /\ cur # None
           /\ Enter(f, p, above, pr, cn, None, here) /\ Throw(f)
        \/ /\ \/ pr \in {"MANDATORY", "REQUIRED", "SUPPORTS"} /\ cur # None
              \/ pr = "NOT_SUPPORTED" /\ cur = None
           /\ Enter(f, p, above, pr, cn, cur, here) /\ RunOriginal(f)
        \/ /\ pr \in {"NEVER", "SUPPORTS"} /\ cur = None
           /\ Enter(f, p, above, pr, cn, None, deep) /\ RunWithNewHook(f)
           /\ UNCHANGED <<restore, sessionIn>>
        \/ /\ pr = "NOT_SUPPORTED" /\ cur # None
           /\ Enter(f, p, above, pr, cn, None, deep) /\ RunWithNewHook(f)
           /\ Suspend(f, cn, cur)
        \/ /\ pr = "REQUIRED" /\ cur = None
           /\ Enter(f, p, above, pr, cn, None, deep) /\ RunWithNewTransaction(f)

\* From outside any frame: a request handler, a cron job.
CallFromRoot(f, pr, cn) ==
    /\ phase[f] = "idle"
    /\ Propagate(f, <<>>, {}, pr, cn)
    /\ UNCHANGED <<session, dbVars, listeners, fired>>

\* From the body of g.
Call(g, f, pr, cn) ==
    /\ phase[f] = "idle" /\ phase[g] = "body"
    /\ Propagate(f, path[g], callers[g] \union {<<g, attempt[g]>>}, pr, cn)
    /\ UNCHANGED <<session, dbVars, listeners, fired>>

\* The session exists: withTransaction starts a transaction and runs the
\* callback, which puts the session in the hook context before it calls fn.
BeginAttempt(f) ==
    /\ phase' = [phase EXCEPT ![f] = "body"]
    /\ attempt' = [attempt EXCEPT ![f] = @ + 1]
    /\ session' = [session EXCEPT ![f] = "active"]
    /\ sessionIn' = [sessionIn EXCEPT ![conn[f]][HookCtx(f)] = f]

StartSession(f) ==
    /\ phase[f] = "starting"
    /\ BeginAttempt(f)
    /\ UNCHANGED <<callVars, hookIn, dbVars, hookVars>>

\* startSession rejects: nothing was started, the hook learns of the error.
StartFails(f) ==
    /\ phase[f] = "starting"
    /\ phase' = [phase EXCEPT ![f] = "done"]
    /\ hook' = [hook EXCEPT ![f] = "rollback"]
    /\ UNCHANGED <<attempt, session, callVars, ctxVars, dbVars, listeners, fired>>

-----------------------------------------------------------------------------
(* The body: writes, listeners, and its end *)

\* The session that a document of f's connection was loaded or saved in, which it
\* keeps until that session has ended; None is a document without one.
Remembers(f, own) ==
    own # None =>
        /\ session[own] \in {"active", "committed", "aborted"} /\ conn[own] = conn[f]

\* Mutant: only the method that started the transaction passes the session on.
WriteOwnSessionOnly(f, own) ==
    LET found == IF kind[f] = "txn" THEN SessionOf(f) ELSE None
        s == IF found = None THEN own ELSE found
        inTransaction == IF s = None THEN FALSE ELSE session[s] = "active"
        w == [frame |-> f, attached |-> Attached(f), scope |->
                 IF ScopeOf(f) = NoScope /\ inTransaction THEN <<s, attempt[s]>>
                                                          ELSE ScopeOf(f)]
    IN  /\ f \in Writers /\ phase[f] = "body" /\ w \notin wrote /\ Remembers(f, own)
        /\ wrote' = wrote \union {w}
        /\ \/ /\ inTransaction
              /\ staged' = [staged EXCEPT ![s] = @ \union {w}]
              /\ UNCHANGED durable
           \/ /\ ~inTransaction
              /\ durable' = durable \union {w}
              /\ UNCHANGED staged
        /\ UNCHANGED <<phase, attempt, session, callVars, ctxVars, committed,
                       hookVars>>

\* A write through a mongoose model: the plugin attaches the session it finds,
\* and if it finds none a document goes to the session it remembers (own), with
\* the transaction of that session.  The driver refuses an ended session, and
\* runs an operation on its own when the session's transaction is over.
Write(f, own) ==
    LET found == SessionOf(f)
        s == IF found = None THEN own ELSE found
        inTransaction == IF s = None THEN FALSE ELSE session[s] = "active"
        w == [frame |-> f, attached |-> Attached(f), scope |->
                 IF ScopeOf(f) = NoScope /\ inTransaction THEN <<s, attempt[s]>>
                                                          ELSE ScopeOf(f)]
    IN  /\ f \in Writers /\ phase[f] = "body" /\ w \notin wrote /\ Remembers(f, own)
        /\ s # None => session[s] # "ended"
        /\ wrote' = wrote \union {w}
        /\ \/ /\ inTransaction
              /\ staged' = [staged EXCEPT ![s] = @ \union {w}]
              /\ UNCHANGED durable
           \/ /\ ~inTransaction
              /\ durable' = durable \union {w}
              /\ UNCHANGED staged
        /\ UNCHANGED <<phase, attempt, session, callVars, ctxVars, committed,
                       hookVars>>

\* runOnTransactionCommit, -Rollback and -Complete throw without a hook.  Once
\* the emitter has emitted and dropped its listeners, a new one is never called.
Listen(f, ev) ==
    LET h == HookOf(f)
        l == [frame |-> f, event |-> ev, scope |-> ScopeOf(f),
              attached |-> Attached(f)]
    IN  /\ phase[f] = "body" /\ h # None /\ l \notin listeners[h]
        /\ listeners' = [listeners EXCEPT ![h] = @ \union {l}]
        /\ UNCHANGED <<phase, attempt, session, callVars, ctxVars, dbVars, hook,
                       fired>>

MayEnd(f) ==
    \/ AllowDetached
    \/ \A g \in Frames : <<f, attempt[f]>> \in callers[g] => phase[g] = "done"

\* fn returned (ok) or threw, in a frame that runs it without a transaction of
\* its own.  NOT_SUPPORTED puts the session back after a success only.
EndBody(f, ok) ==
    /\ phase[f] = "body" /\ kind[f] # "txn" /\ MayEnd(f)
    /\ phase' = [phase EXCEPT ![f] = "done"]
    /\ hook' = IF kind[f] = "hooked"
               THEN [hook EXCEPT ![f] = IF ok THEN "commit" ELSE "rollback"]
               ELSE hook
    /\ sessionIn' = IF ok /\ restore[f] # None
                    THEN [sessionIn EXCEPT ![conn[f]][CallCtx(f)] = restore[f]]
                    ELSE sessionIn
    /\ UNCHANGED <<attempt, session, callVars, hookIn, dbVars, listeners, fired>>

\* Mutant: without the finally block.
EndAttemptKeepsSession(f, ok) ==
    /\ phase[f] = "body" /\ kind[f] = "txn" /\ MayEnd(f)
    /\ phase' = [phase EXCEPT ![f] = IF ok THEN "committing" ELSE "aborting"]
    /\ UNCHANGED <<attempt, session, callVars, ctxVars, dbVars, hookVars>>

\* The finally block of the callback resets the session in the hook context;
\* then the driver commits, or aborts and perhaps tries again.
EndAttempt(f, ok) ==
    /\ phase[f] = "body" /\ kind[f] = "txn" /\ MayEnd(f)
    /\ phase' = [phase EXCEPT ![f] = IF ok THEN "committing" ELSE "aborting"]
    /\ sessionIn' = [sessionIn EXCEPT ![conn[f]][HookCtx(f)] = None]
    /\ UNCHANGED <<attempt, session, callVars, hookIn, dbVars, hookVars>>

-----------------------------------------------------------------------------
(* withTransaction after the callback, endSession and the hooks *)

Commit(f) ==
    /\ durable' = durable \union staged[f]
    /\ staged' = [staged EXCEPT ![f] = {}]
    /\ committed' = [committed EXCEPT ![f] = attempt[f]]

CommitSucceeds(f) ==
    /\ phase[f] = "committing"
    /\ Commit(f)
    /\ session' = [session EXCEPT ![f] = "committed"]
    /\ phase' = [phase EXCEPT ![f] = "ending"]
    /\ UNCHANGED <<attempt, callVars, ctxVars, wrote, hookVars>>

\* The commit took effect but its result was lost for good: the caller sees an
\* error all the same.
CommitUnknown(f) ==
    /\ phase[f] = "committing"
    /\ Commit(f)
    /\ session' = [session EXCEPT ![f] = "aborted"]
    /\ phase' = [phase EXCEPT ![f] = "ending"]
    /\ UNCHANGED <<attempt, callVars, ctxVars, wrote, hookVars>>

\* The body threw or the commit was refused: the transaction is undone.
Abort(f) ==
    /\ phase[f] \in {"committing", "aborting"}
    /\ staged' = [staged EXCEPT ![f] = {}]
    /\ session' = [session EXCEPT ![f] = "aborted"]
    /\ phase' = [phase EXCEPT ![f] = "ending"]
    /\ UNCHANGED <<attempt, callVars, ctxVars, durable, wrote, committed,
                   hookVars>>

\* A transient error: withTransaction undoes the attempt and runs the callback
\* again, with the same session in the same hook context.
Retry(f) ==
    /\ phase[f] \in {"committing", "aborting"} /\ attempt[f] < MaxAttempts
    /\ staged' = [staged EXCEPT ![f] = {}]
    /\ BeginAttempt(f)
    /\ UNCHANGED <<callVars, hookIn, durable, wrote, committed, hookVars>>

\* Mutant: "commit" is emitted whatever withTransaction answered.
EndSessionCommits(f) ==
    /\ phase[f] = "ending"
    /\ phase' = [phase EXCEPT ![f] = "done"]
    /\ hook' = [hook EXCEPT ![f] = "commit"]
    /\ session' = [session EXCEPT ![f] = "ended"]
    /\ UNCHANGED <<attempt, callVars, ctxVars, dbVars, listeners, fired>>

\* Mutant: endSession after withTransaction, not in a finally block.
EndSessionOnSuccess(f) ==
    /\ phase[f] = "ending"
    /\ phase' = [phase EXCEPT ![f] = "done"]
    /\ hook' = [hook EXCEPT ![f] =
           IF session[f] = "committed" THEN "commit" ELSE "rollback"]
    /\ session' = IF session[f] = "committed"
                  THEN [session EXCEPT ![f] = "ended"] ELSE session
    /\ UNCHANGED <<attempt, callVars, ctxVars, dbVars, listeners, fired>>

\* The finally block after withTransaction; then the outcome reaches the hook.
EndSession(f) ==
    /\ phase[f] = "ending"
    /\ phase' = [phase EXCEPT ![f] = "done"]
    /\ hook' = [hook EXCEPT ![f] =
           IF session[f] = "committed" THEN "commit" ELSE "rollback"]
    /\ session' = [session EXCEPT ![f] = "ended"]
    /\ UNCHANGED <<attempt, callVars, ctxVars, dbVars, listeners, fired>>

\* Mutant: removeAllListeners comes first.
EmitHooksToNobody(f) ==
    /\ hook[f] \in {"commit", "rollback"}
    /\ hook' = [hook EXCEPT ![f] = "emitted"]
    /\ listeners' = [listeners EXCEPT ![f] = {}]
    /\ UNCHANGED <<phase, attempt, session, callVars, ctxVars, dbVars, fired>>

\* setImmediate: emit the outcome and "end", then removeAllListeners.
EmitHooks(f) ==
    /\ hook[f] \in {"commit", "rollback"}
    /\ fired' = fired \union {l \in listeners[f] : l.event \in {hook[f], "end"}}
    /\ hook' = [hook EXCEPT ![f] = "emitted"]
    /\ listeners' = [listeners EXCEPT ![f] = {}]
    /\ UNCHANGED <<phase, attempt, session, callVars, ctxVars, dbVars>>

-----------------------------------------------------------------------------
Next ==
    \E f \in Frames :
        \/ \E pr \in Propagations, cn \in Conns :
              \/ CallFromRoot(f, pr, cn)
              \/ \E g \in Frames : Call(g, f, pr, cn)
        \/ StartSession(f) \/ StartFails(f)
        \/ \E own \in Frames \union {None} : Write(f, own)
        \/ \E ev \in Events : Listen(f, ev)
        \/ \E ok \in BOOLEAN : EndBody(f, ok) \/ EndAttempt(f, ok)
        \/ CommitSucceeds(f) \/ CommitUnknown(f) \/ Abort(f) \/ Retry(f)
        \/ EndSession(f) \/ EmitHooks(f)

Spec == Init /\ [][Next]_vars

\* Bodies end, the driver answers, setImmediate callbacks run.
Fairness ==
    \A f \in Frames :
        /\ WF_vars(StartSession(f) \/ StartFails(f))
        /\ WF_vars(\E ok \in BOOLEAN : EndBody(f, ok) \/ EndAttempt(f, ok))
        /\ WF_vars(CommitSucceeds(f) \/ CommitUnknown(f) \/ Abort(f) \/ Retry(f))
        /\ WF_vars(EndSession(f)) /\ WF_vars(EmitHooks(f))

FairSpec == Spec /\ Fairness

-----------------------------------------------------------------------------
(* Properties *)

FramesAndNone == Frames \union {None}
Scopes == FramesAndNone \X (0..MaxAttempts)
WriteRecords == [frame : Frames, scope : Scopes, attached : BOOLEAN]
ListenerRecords ==
    [frame : Frames, event : Events, scope : Scopes, attached : BOOLEAN]

\* The type of each variable.
TypeOK ==
    /\ phase \in [Frames ->
          {"idle", "starting", "body", "committing", "aborting", "ending", "done"}]
    /\ kind \in [Frames -> {"plain", "hooked", "txn"}]
    /\ prop \in [Frames ->
          {"MANDATORY", "NEVER", "NOT_SUPPORTED", "REQUIRED", "SUPPORTS"}]
    /\ conn \in [Frames -> Conns]
    /\ path \in [Frames -> Seq(Contexts)]
    /\ callers \in [Frames -> SUBSET (Frames \X (0..MaxAttempts))]
    /\ scope \in [Frames -> Scopes]
    /\ attempt \in [Frames -> 0..MaxAttempts]
    /\ restore \in [Frames -> FramesAndNone]
    /\ sessionIn \in [Conns -> [Contexts -> FramesAndNone \union {Unset}]]
    /\ hookIn \in [Contexts -> Frames \union {Unset}]
    /\ session \in [Frames -> {"none", "active", "committed", "aborted", "ended"}]
    /\ hook \in [Frames -> {"none", "open", "commit", "rollback", "emitted"}]
    /\ listeners \in [Frames -> SUBSET ListenerRecords]
    /\ fired \subseteq ListenerRecords
    /\ staged \in [Frames -> SUBSET WriteRecords]
    /\ durable \subseteq WriteRecords
    /\ wrote \subseteq WriteRecords
    /\ committed \in [Frames -> 0..MaxAttempts]

\* While everything above a body still waits for it, the session that the
\* mongoose plugin finds there is the one of the transaction the body was called
\* in, on its own connection and still open, and it exists exactly when the
\* propagation type says so (wrapInTransaction.ts:95-133).
ScopeFollowsPropagation ==
    \A f \in Frames : phase[f] = "body" /\ Attached(f) =>
        LET s == SessionOf(f)
        IN  /\ s = ScopeOf(f)[1]
            /\ prop[f] \in {"REQUIRED", "MANDATORY"} => s # None
            /\ prop[f] \in {"NEVER", "NOT_SUPPORTED"} => s = None
            /\ s # None => /\ session[s] = "active"
                           /\ attempt[s] = ScopeOf(f)[2]
                           /\ conn[s] = conn[f]

\* "Execute non-transactionally, suspend the current transaction if one exists"
\* (README.md:87): what a body that suspended a transaction has written is in the
\* database, whatever becomes of that transaction.
SuspendedWritesStand ==
    \A w \in wrote : w.attached /\ restore[w.frame] # None => w \in durable

\* f and everything it was called under use one connection.
OneConnection(f) == \A c \in callers[f] : conn[c[1]] = conn[f]

\* A body whose callers wait for it registers its listeners on an emitter that
\* has not emitted, and inside a transaction that emitter is the transaction's
\* own: joining a transaction joins its hook, suspending it suspends its hook.
\* Holds where one connection is used: the hook has one key for all of them
\* (common.ts:9), so a transaction on another connection takes its place.
HookFollowsScope ==
    \A f \in Frames :
        phase[f] = "body" /\ Attached(f) /\ OneConnection(f) =>
        /\ HookOf(f) # None => hook[HookOf(f)] = "open"
        /\ ScopeOf(f) # NoScope => HookOf(f) = ScopeOf(f)[1]
        /\ ScopeOf(f) = NoScope /\ HookOf(f) # None => kind[HookOf(f)] = "hooked"

\* The writes of a transaction attempt are in the database exactly when that
\* very attempt committed: none before, none of an attempt that was retried or
\* undone, all of them after.  A body outside of every transaction may save a
\* document that was loaded in one: the write stands and falls with that one's
\* attempt.  Its other writes are there at once.
AllOrNothing ==
    \A w \in wrote : w.attached =>
        (w \in durable <=> w.scope = NoScope \/ committed[w.scope[1]] = w.scope[2])

\* The attempts that committed or were undone.
Over ==
    {t \in Frames \X (1..MaxAttempts) :
        /\ kind[t[1]] = "txn"
        /\ \/ t[2] < attempt[t[1]]
           \/ t[2] = attempt[t[1]] /\ phase[t[1]] \in {"ending", "done"}}

\* Sessions, contexts, retries and lost answers implement transactions: each
\* step moves all the writes of one attempt to the database, or drops all of
\* them, or adds a write to an attempt in progress.  For writes whose callers
\* still wait: a frame that outlives its transaction writes on its own.
Atomic == INSTANCE AtomicTransactions WITH
    Writes   <- WriteRecords,
    Attempts <- Frames \X (1..MaxAttempts),
    Alone    <- NoScope,
    database <- {w \in durable : w.attached},
    pending  <- {w \in UNION {staged[f] : f \in Frames} : w.attached},
    over     <- Over

ImplementsAtomic == Atomic!Spec

\* The listeners that methods of transaction s registered and that were called,
\* where one connection is used.
FiredIn(s) ==
    {l \in fired : l.attached /\ l.scope[1] = s /\ OneConnection(l.frame)}

\* A "commit" listener that a transaction's body registered runs only after the
\* transaction committed, and never together with a "rollback" listener.
ListenersFollowOutcome ==
    \A s \in Frames : \A l, m \in FiredIn(s) : l.event = "commit" =>
        committed[s] # 0 /\ m.event # "rollback"

\* Outside NOT_SUPPORTED, which puts a session back whatever became of it, no
\* body finds a session whose transaction is over, not even one that outlived
\* its callers: the finally of transactionCallback (line 70-73) took it away.
NoDeadSession ==
    \A f \in Frames :
        /\ phase[f] = "body"
        /\ \A g \in {f} \union {c[1] : c \in callers[f]} : prop[g] # "NOT_SUPPORTED"
        => SessionOf(f) = None \/ session[SessionOf(f)] = "active"

\* Whatever the driver answers, every session that was started is ended.
SessionsEnd ==
    \A f \in Frames : session[f] = "active" ~> session[f] = "ended"

\* The listeners of a transaction whose commit succeeded are called, those
\* registered by the methods that joined it included.
CommitListenersRun ==
    \A f, g \in Frames :
        /\ \E l \in listeners[f] : l.frame = g /\ l.event = "commit"
        /\ session[f] = "committed"
        ~> \E l \in fired : l.frame = g /\ l.event = "commit"
=============================================================================
