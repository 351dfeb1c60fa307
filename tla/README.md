# A verification development for nestjs-sc-libs

`src/` is a NestJS library: helpers an application plugs into its modules and
interceptors. Its parts run in one Node process each, single threaded between
two awaits, and share a MongoDB database, a file system or an S3 bucket. What is
hard in it is never one function: it is what other handlers, other requests,
other processes or a crash do between two awaits. The modules here model those
steps, TLC checks them on small instances, and TLAPS proves the results that
matter most for every value of the constants.

## 1. Inventory

| component | state it keeps | operations | what is hard |
|---|---|---|---|
| timer (`timer/`) | the `timed_actions` collection; per process the maps of functions and of timeouts, the cron job | `setFunction`, `startUp`, `getNextBunch` (cron), `runTimer(s)`, `clearTimer(s)`, the timeout callback | a find's reply that is stale when it arrives, two arms of one action, crash between the function and the delete, several processes, the gap between a save and the next tick, setTimeout's longest delay |
| transaction-helper (`transaction-helper/`) | CLS contexts with a session per connection and a hook emitter; the driver's sessions | wrapped methods of five propagation types, `runInTransaction`, `runOnTransactionCommit/Rollback/Complete`, the mongoose plugin | nesting, retries of `withTransaction`, a lost commit answer, documents that keep a session, calls that outlive their caller, hooks that emit once, several connections |
| uploader (`uploader/`) | temporary files, stored objects, `request.uploadedFiles`, each pipeline's results | the interceptor, the multer storage engine, pipelines (`validate`, `persist`, `thumb`, `watermark`), local and S3 storage, downloads | parts of one request run concurrently, partial failure, deletes that race or are never made, temporary files that do not go away, multer failing while pipelines go on |
| search and pagination (`search-pagination/`) | none of its own; the collection others write to, and the caller's path options, which it writes into | `SearchPipe`, parsers, `_aggregate`, `resolvePathFilters` | a cursor that changes or disappears, writes between two pages, missing values, filters that are combined or dropped, paths compared as strings, path options used again, the order of stages |
| soft delete (`mongoose-softdelete/`) | `isDeleted`, `deletedAt` of documents | `softDelete`, `restore`, filtering of finds | read-then-save by several callers, a save that fails half way |
| backend helpers (`backend-helpers/`) | none | exception filters, serializer and cache interceptors, decorators, ObjectId pipe | order of options in the serializer; otherwise mappings |
| serve static (`serve-static/`) | routes registered at start | loaders for express and fastify | none: a copy of `@nestjs/serve-static` |

How they interact: TimerService saves through mongoose models, so the
transaction plugin gives it the session of a caller's transaction; soft delete
and the search run through the same models; the uploader, the search and the
timer are otherwise independent, and meet in the application's request handlers.

What makes each correct:

* timer: an accepted action runs at least once and never early, unless it is
  cleared; what is stored is always reachable (by a timeout, a find or the next
  tick); `clearTimer` finds the timeout of what is stored; an action that is gone
  does not come back.
* transactions: a body finds exactly the session its propagation type asks for,
  its writes stand or fall with the attempt it belongs to, listeners follow the
  outcome, sessions end.
* uploader: a handler sees whole files, each its own; what failed leaves nothing;
  what succeeded stays; an object is deleted at most once.
* search: who follows the cursor gets every untouched document, and once unless the
  cursor's document is gone; totals are true; paging ends; a filter is asked of the
  documents it is about.
* soft delete: a count counts the documents that changed; a concurrent restore
  does not get lost.

`PROJECT.json` lists all hazards with the line where each bites and the
properties that cover it, or why none does.

## 2. Modules

| module | models | extends / instantiates |
|---|---|---|
| `TimedActions` | what the timer promises, without processes or timeouts | |
| `TimerService` | `timer/timer.service.ts` in several processes over one collection | instantiates `TimedActions` as `Promise` |
| `TimerTransaction` | `TimerService` with a transaction whose body runs and clears actions | extends `TimerService` |
| `AtomicTransactions` | what transactions promise, without sessions, contexts or retries | |
| `Transactional` | `transaction-helper/` | instantiates `AtomicTransactions` as `Atomic` |
| `Uploads` | one request through `UploadInterceptor` and its pipelines | |
| `Watermark` | the arithmetic of `createThumbnail`, with its theorem | |
| `SearchPaging` | pages, cursor, counts while others write | |
| `SearchPaths` | a filter checked, distributed over lookups, and the stages composed | |
| `SoftDelete` | `mongoose-softdelete/`: several callers over one collection | |
| `TimerServiceProofs`, `TimerTransactionProofs`, `TransactionalProofs`, `UploadsProofs`, `SearchPagingProofs`, `SearchPathsProofs`, `SoftDeleteProofs` | theorems about the module they name | extend it, TLAPS and modules of the prover's library |
| `MC*` | the values of the constants for TLC | extend the module they name |

Conventions: what runs between two awaits is one action; a database command, a
reply, a timer or a crash is an action of its own. A definition has the name of
the function it models where it models one. A comment that begins with "Mutant"
marks an operator that no specification uses: it is the definition after it with
a plausible bug, and each property of a passing run is known to fail with one.
Type invariants are stated in each module; where a theorem proves one, no run
checks it again.

### TimerService

`doc` is the collection, `timeoutMap` and `fnMap` are the maps of a process,
`timer` holds each timeout and, once it fired, how far its callback is,
`reading` the finds of `getNextBunch`, `run` and `clear` the API calls in
progress. `RunTimers`, `SaveOne`/`SaveFails` and `RunReturns` are `runTimer(s)`
up to the save, the save, and what follows it; `ClearTimers`, `DeleteOne`,
`ClearReturns` likewise; `SendFind`, `FindReads`, `FindReturns` are the find of
the cron handler; `Fire`, `FnReturns`, `DeleteAction`, `CallbackEnds` the steps
of the timeout's callback. Timers that are late, replies that are late, a clock
that ticks between any two steps and a crash at any point are all behaviours.
`Elapsed` has setTimeout's rule for delays it cannot represent (it fires at once);
`Tick` wraps the clock at `MaxTime` back by one period, to keep the state space
finite while time goes on forever. `submitted`, `saved`, `ran`, `dropped`,
`clearAsked`, `ackBy` and `missed` are history the code does not have.

### TimerTransaction

`runTimer(s)` and `clearTimer(s)` are `@Transactional` SUPPORTS. Called in the body
of a transaction, their saves and deletions are staged in the transaction's view
(`StageOne`, `DropOne`) and reach the collection with `CommitTransaction`, but
`setTimeout`, `clearTimeout` and the map of timeouts belong to no transaction
(`JoinedRunReturns`, `JoinedClearReturns` are TimerService's own steps). A retry runs
the body again over what earlier attempts armed; an abort takes the documents and
leaves the timeouts. The document a timeout holds keeps the session it was saved in,
so its deletion joins the transaction while that is open (`JoinedDeleteAction`,
`joined`). Everything else is a step of `TimerService` around the transaction
(`Outside`), except that a document the transaction wrote is locked for others.
`overlooked` is history: the actions that a find of the process could not see,
because it was sent after `runTimer(s)` answered and before the commit.

### Transactional

A frame is one call of a wrapped method: `Propagate` is the switch of
`wrapped`, with one disjunct for each outcome; `StartSession` to `EndSession` are
`runWithNewTransaction` with the driver's `withTransaction`, which runs its
callback again (`Retry`) or loses the answer to a commit (`CommitUnknown`);
`Write` is any mongoose operation the plugin gives a session to, `Listen` a call of
`runOnTransaction...`, `EmitHooks` the `setImmediate` of `runAndTriggerHooks`. The plugin
sets the session it finds and takes none away, so a document that was loaded or saved in a
transaction keeps that session (`Remembers`): written where the context has none, it goes
to the old transaction (`own` in `Write`), and to the database on its own once that
transaction is over. CLS
contexts are a path per frame (`cls-hooked` looks a key up along the prototype
chain of contexts, which `Lookup` does); that context follows awaits is assumed.
A frame may outlive its caller (`AllowDetached`): `Attached` says for which frames
that has not happened. The hook has one key for all connections (`common.ts:9`),
so with several connections an inner transaction of another connection takes the
place of the outer one's hook: `HookFollowsScope` and `ListenersFollowOutcome` speak of
frames with one connection above them only (`OneConnection`).

### Uploads, Watermark

Each part of the request is at a `phase` of `runFile` on a pipeline object of
its own (`PipelineOf`); `stored` is what each storage object holds, `temp` the
temporary files, `results` and `tree` the objects a pipeline knows of and hands
on. `HandleFile`, `RefuseFile`, `LimitReached`, `BodyRead` and `Pending` are multer 1.4
(it waits for the pending parts after an error, then removes what it knows of,
which here is nothing; after an error with nothing pending it is done at once and
takes no further part, which `Listening` says). A pipeline is a sequence of actions that check or store:
`validate` and `watermark` check, `persist` and `thumb` store. `CleanupTempFile` is the
finally block of `runFile`: an error of `unlinkSync` is logged and the file stays (`left`).
`Watermark` is the
arithmetic inside `thumb`: exact on integers, with the ratio as a fraction.

### SearchPaging, SearchPaths

`SearchPaging` has a collection, a client that takes pages by `after` or by
number, and others who write between any two steps, in particular between
`findById` and the aggregation; they may delete the document that `after` names, after
which the list starts again (`vanished`). `Accepts` is the check of the sort keys; a
sort key that is a looked-up reference (`Populated`) compares with nothing once `populate`
put a document in its place (`Replaced`). `Clauses`/`ClauseMatches` are the `$or` built from
the cursor, `Before` is MongoDB's sort with missing values first, `SortedBefore` what
is left of it when the `$project` of a minified request (`Projected`) comes before
`$sort`; a comparison never matches a missing value.

`SearchPaths` has one base document (stages treat documents one by one) and the
documents its references lead to. `Accepts` and `Parsed` are `FilterParser` with
`checkPathAndReturnDescriptor`: every name of a key is looked up in `SearchKeys`, must be
filterable, and the last one gives way to the field it stands for. `Request`
resolves the parsed filter into the caller's path options, `MatchRoot`, `Lookup`,
`LeaveOut` and `Answer` are the stages in order, with the projections of a minified
request. Paths are compared as strings: `company` owns a key on `companyName.x`, and what
`substring` leaves of it is asked there (`EndsWithin`, `Owns`, `CutOff`, with `Cut` for the
names that begin with another one). A `$nor` at the top, or any operator there but `$and`
and `$or`, is parsed and then dropped, as `handleFilter` does. A lookup puts its document in
the place of the reference, so that a condition on the reference itself that is matched
later has to do with the document: it is met or not, whatever the reference was
(`Overwritten`). The application's lookups are taken to be SINGLE, each path to come after
the path of its parent, and conditions not to match missing values.

### SoftDelete

A call of `softDelete` or `restore` finds documents (`Find`), then changes and saves
them one after the other (`SendSave`, `Saved`, `SaveFails`): every other call, and a
deletion by the application, may come between. A save writes the two fields by
`_id` whatever the document has become. `Matches` is the filter the query hooks add; the
hook of `aggregate`, which adds the same filter to a pipeline, is left out.
`found`, `changed` and `met` are history.

## 3. Runs

| run | question | bounds, and why they are enough |
|---|---|---|
| `timer_one` | does one action keep all promises, with everything that can fail? | one process, one action due two periods ahead, two timeouts per action (one more than correct), one failure or crash, a clock of three periods; grace and period differ, so a startUp inside the grace occurs; a rejecting function ends the process; fairness |
| `timer_two` | does a batch that fails half way, or is cleared half way, lose or confuse actions? | two actions of one key on the same tick, one fault: sharing a tick, a find and a call is all two actions can do to each other |
| `timer_tx` | what is left of actions run or cleared in a transaction that aborts or is retried? | two processes (one has the transaction, the other reads what it commits), one action, two attempts; the action is due at the second tick of a clock of three periods, so it is armed at once or left to the cron, depending on when it is asked for; failures are those of the transaction |
| `tx_safe` | do sessions and writes follow the propagation types, with retries and lost commits? | three frames (transaction, what it suspends or joins, what is called from there), all five types, two attempts, frames that outlive their caller; one frame writes, wherever it is called, with and without a document of another frame's session |
| `tx_live` | do hooks and listeners follow the transaction, do sessions end, is the abstract specification implemented? | two frames that both write, two connections, REQUIRED and NOT_SUPPORTED, one attempt per transaction, fairness |
| `tx_suspended` | violation: a document of the suspended transaction is written in it | a REQUIRED frame and a NOT_SUPPORTED one it calls, one attempt |
| `uploads` | what does the handler see, what stays, what goes, does the request end? | two parts of one field and one of another; pipelines of three actions with the check in the middle or at the end, so that it fails before, between and after the objects |
| `upload_orphans` | violation: objects of a rejected upload stay | the same parts |
| `paging` | is nothing skipped or repeated while others write? | three documents, two keys in opposite directions with ties, one per page, two writes (one before and one after a cursor, or the cursor's own document), nine pages: three, three more for each time the list starts again |
| `paging_or` | violation: with `after` a client's `$or` is dropped | three documents, no writes |
| `search_paths` | is the composed pipeline the join the filter means, what do reused path options do, and who may filter by what? | a reference and a reference inside it, keys at each and in embedded documents, one of which begins with the name of a lookup, one under an unfilterable name and one unknown, a condition on the reference itself, up to one condition and one `$or` or `$nor`, every mix of required lookups, minified or not, two requests |
| `soft_delete` | what do counts mean, and what stays, when calls overlap? | two documents, three calls (two that overlap and one that comes before, between or after), two instants |

What the properties say, beyond a check of single steps:

* `StoredHasOneTimer`, `StoredIsCancellable`: overlapping finds and calls never
  give a stored action two timeouts, and the one it has is where `clearTimer` looks.
* `AccountedFor`, `AcknowledgedIsInHand`: no action is lost, and between the answer
  of `runTimers` and the cron there is no gap.
* `GoneForGood`: an action comes back only through a find or a call that was in
  flight when its document went (a late reply can run it once more: the promise is
  at least once).
* `ImplementsPromise`: the service implements `TimedActions`.
* `StoredEventuallyGone`, `RegisteredActionsRun`: with finitely many faults.
* `CommittedIsInHand`, `UncommittedStaysHome`, `OneTimeoutEach`: a committed action that is
  due by the next tick is armed, whichever attempt armed it, or a find will deliver
  it; one that is not committed is known to the transaction's process only, where its
  timeout fires all the same (the code has no hook that would stop it, and the
  property does not hide that); attempts do not add up timeouts. There is a gap in
  the first, which the property names (`overlooked`): `runTimer` decides
  whether to arm an action before the caller commits it. If the cron ticks in between,
  the action was too far away to be armed and its document is not yet there to be
  found; when the transaction commits, neither has it, and it runs a tick late,
  up to a minute. No text of the repository promises otherwise.
* `ScopeFollowsPropagation`, `AllOrNothing`, `NoDeadSession`: a body finds the session its
  type names; writes stand and fall with the attempt they are made in, be it that of the
  body or that of the document's own session; nobody finds a dead session.
  `ImplementsAtomic`: the helper implements `AtomicTransactions`. `SuspendedWritesStand` is
  what README.md:87 says of NOT_SUPPORTED; the code does not keep it for documents that
  remember the suspended transaction.
* `HookFollowsScope`, `ListenersFollowOutcome`, `SessionsEnd`, `CommitListenersRun`: listeners
  belong to the transaction their code runs in and follow its outcome; sessions end.
* `HandlerSeesWholeFiles`, `DeletedOnce`, `FailedPipelineLeavesNothing`, `SucceededStay`,
  `FailedLeavesNothing`, `RequestsEnd`; `TempFilesAreScratch`: no part's temporary file goes
  while its pipeline may read it, and one stays longer only if `unlinkSync` threw.
* `NothingSkipped`, `SteadySeenOnce`: whoever reads to the end gets everything nobody
  touched, even when the document the cursor names is deleted on the way, and gets it
  once as long as it is not. `TotalIsCount`, `PageFollowsCursor`, `PagesAreSorted`,
  `PagingEnds`. `FilterHolds` is what README.md:282 says of filters; `paging_or` shows
  where it fails.
* `OnlyFilterable`: nothing a client sends makes MongoDB look at what is not declared
  filterable, but for what the comparison of paths as strings leaves of a filterable key. `JoinIsExact`: a request returns exactly what an inner join with the
  required lookups and a left join with the others means. `ReuseOnlyNarrows`: path
  options that an earlier request filled in only lose documents.
  `NothingHiddenIsShown`: no filter, flag or reuse shows what accessibility or a soft
  delete hides.
* `FlagAndDateAgree`; `OvercountNeedsOverlap`: two calls count the same document only if
  they ran at the same time; `ReturnedStays`: what a call that returned has changed
  stays unless a call of the other kind ran with it or later.

The three violations disagree with a text of the repository, which
`PROJECT.json` quotes. Four more disagreements have no run of their own:

* A top-level `$nor` passes the parser (`filter-parser.ts:18`) and is dropped
  (`path-resolver.ts:63`), although README.md:282 has the filter work "as a mongo filter".
  The model drops it, too.
* A minified request's `$project` comes before `$sort` (`aggregator.ts:126`), so a sort key
  without `includeInMinified` is gone when MongoDB sorts and pages come in the order of
  `_id`, against README.md:290. `PagesAreSorted` is about projections that keep the sort
  keys; with `Projected = {}` in `Paging.cfg` TLC shows the other case.
* With `after`, a sort by a reference that is looked up, as `company` in the example of
  README.md:290, skips documents: `populate` (`aggregator.ts:59`) put a document in the
  cursor, which `$match` compares with ids. The properties of paging are about sort keys
  that compare; with `Populated = {1}` in `Paging.cfg` TLC shows the other case.
* Without `sort` the order is descending (`sorter-parser.ts:34`), where `search.dto.ts:64`
  says "default is ascending createdAt". `Parse` does what the parser does.

`JoinIsExact` and `ReuseOnlyNarrows` are about `Straight` filters, those that the code means to
treat as MongoDB would. Not so are: a `$nor` (dropped); a key that begins with the name of
a lookup within one of its own names, which is cut off and asked at that lookup; and an
`$or` that waits for a lookup and has a condition on a reference that is overwritten
meanwhile. `OnlyFilterable` and `NothingHiddenIsShown` hold for these as well.

`JoinIsExact` has another condition of its own, `Timely`, which the run's values satisfy
(`TimelyPaths`) and its proof needs. An `$or` waits for what is left of each of its paths
below the lookup the path starts with (`path-resolver.ts`, `resolvePathFilters`), not for
the lookup. With path options that look up `address` and then `company`, an `$or` on
`company.address.name`, a name in a document embedded in the company, waits for
`address`: it is matched when `address` is there and `company` is not, and base documents
that meet it are lost. What is left of a path that is cut off within a name (`Below`) may
be a lookup's path in the same way. None is returned that should not be: `ReuseOnlyNarrows` needs
no such condition.

Runs with `CHECK_DEADLOCK FALSE` are of systems that end: all calls made, the
request answered, all pages read. The timer runs have deadlock checking on.

Symmetry is used only for sets whose members no definition tells apart, and in
runs without liveness properties: the frames that do not write in `tx_safe`, processes in `timer_tx`,
documents and callers in `soft_delete`, and in `timer_two` the pair of actions together
with their ids.

### Fairness

* Timer: the event loop delivers due timeouts and replies, the cron library its
  ticks, time passes, registered functions settle, and a supervisor restarts a
  process whose bootstrap calls `startUp`, without which the service refuses to work.
  Nothing is assumed of callers: no `setFunction`, `runTimer` or `clearTimer` is fair.
  `RegisteredActionsRun` has registration as its own hypothesis.
* Transactions: bodies end, the driver answers every command (it has timeouts of
  its own), `setImmediate` runs.
* Uploads: the body is read to its end, actions of pipelines settle, storage answers
  a delete with success or failure, the handler settles. A client that
  disconnects is not modelled.
* Paging: the server answers and the client goes on; writes are finite.

`TimerTransaction`, `SearchPaths` and `SoftDelete` are checked for safety only and assume
no fairness.

## 4. Proofs

All theorems are proved by TLAPS from the named assumptions of the modules
(`ConstantsAssumption`, `TimesAssumption`, `TransactionAssumption`, `FramesAssumption`,
`FilesAssumption`, `PagingAssumption`, `PathsAssumption`, `SoftDeleteAssumption`), which TLC evaluates in the
runs, and from hypotheses that the theorems name and the constants of the passing runs satisfy. Each module proves its type
invariant and one or more inductive invariants, action by action; a theorem about a
property is a consequence of these.

`TimerServiceProofs` (`FreshIds`: no two actions have one `_id`, as the default
`new ObjectId()` gives):

* `NeverRunsEarly`, through `Timing`: every armed timeout and whatever a find returned
  or may return is due within a period of now. That no function runs early
  (`NeverEarly`) is not inductive alone: nothing in it says that an armed timeout's
  delay was one `setTimeout` honours.
* `NoActionIsLost`, `StoredActionsHaveOneTimer`, `StoredActionsAreCancellable`, through
  `CallsInv` (an action is saved by at most one call, and a call that has not
  failed saved what it no longer has to do), `LifeInv` (what is
  stored, found or armed was saved, and a callback that deletes has run its function)
  and `CancelInv` (the two cancellation properties together: each
  needs the other when a callback ends).
* `AcknowledgedIsAlwaysInHand`, through `ClockInv` (where the clock and the cron are within
  a period), `BatchInv` and `ReadsInv` (how far the calls and finds in flight reach) and
  `HandInv`. The argument is that the horizon of `runTimers`, the next tick, is the
  time up to which the find of that tick reads, and it needs the arithmetic of
  remainders (`Division`, `RemainderSteps`, `TickHorizon`).
* `GoneIsGoneForGood`, from `SavedOnce` alone (the part of `CallsInv` that says no call has
  still to save what was saved) and so for shared ids too: a timeout is armed
  only from a find or a batch, a find reads only what is stored, and a batch saves and
  arms only actions nobody submitted before.
* `ServiceKeepsPromise`: `Spec => Promise!Spec`, step by step, from `LifeInv`.

`TimerTransactionProofs`, for any number of processes and attempts: `IInv2` says what the
transaction's view and calls hold (`ViewFits`, `RunsFit`, `ClearsFit`), that what is stored
was saved (`DocFits`) and that a callback that deletes has run (`TimersFit`).
`UncommittedAlwaysStaysHome` needs them because a call armed what it saved: outside of the
transaction that is in `saved`, inside it is in `mine`. On top of it, with `FreshIds`:
`OneTimeoutAlways`, where entries go for cleared ids only, of this attempt or another,
and `NoActionIsLostInTransactions`, where a document that disappears with the commit was
cleared in the body or deleted by a callback that ran (`AccountsCommit`).
`CommittedIsAlwaysInHand` takes over the clock, the finds and the horizons of
`TimerServiceProofs` (`ClockInv`, `ReadsInv`, `ClockStep`), and adds what calls in a
transaction do: `AnswersFit` says that an action is asked for by one call, or by calls of
the transaction only, which may ask again, and that its process answers for it; `CommitInv`
says the property of stored actions, and of those the commit would store that they have
a timeout already, unless they were overlooked. The property alone is silent on actions
between the answer and the commit.
`NeverRunsEarlyInTransactions` is `Timing` again: a transaction arms nothing that the
service would not arm. `GoneIsGoneForGoodInTransactions` needs `OnceInv`: `SavedOnce`, and
that nothing the open transaction wrote was saved before, so that neither its commit nor
a second run of its body can bring an action back. No run checks these two
with transactions.

`TransactionalProofs`, for any frames, connections and attempts: `IInv` says which values
a frame's contexts hold in each phase (`FrameFits`, `ContextFits`), that a frame whose
callers wait finds only sessions and hooks of these callers (`CallersFit`,
`AttachedFits`), and where the writes and listeners of each attempt are (`WritesFit`,
`ListenersFit`; `WriteLands` says to which transaction a write goes, found or remembered). Each property alone says nothing of the frames between a body and the
transaction it joins, which is why the invariant follows the chain of callers. From
it: `ScopesFollowPropagation`, `WritesAreAtomic`, `HooksFollowScope`,
`OutcomeReachesListeners`, `NoDeadSessions`, and `TransactionsAreAtomic`, the
refinement of `AtomicTransactions`.

`UploadsProofs`, for any parts, fields and pipelines: `PartFits`, `ObjectFits` and
`RequestFits` say which objects exist, and who may delete them, in each phase of a part
and of the request. From them: `HandlerAlwaysSeesWholeFiles`, `NothingIsDeletedTwice`,
`TempFilesAreAlwaysScratch`, `FailedPipelinesLeaveNothing`, `SucceededAlwaysStay`.

`SearchPagingProofs`, for sort keys that `$project` keeps (`SortKeysKept`) and, where pages
follow a cursor, that have a value in every document which is no looked-up reference
(`KeysCompare`):

* `CursorFilterIsExact`: the `$or` built from the cursor matches a document exactly if
  it comes after the cursor, for any number of keys and directions. It needs
  `KeysCompare`: a missing value is below all others for `$sort` and beyond nothing for
  `$gt` and `$lt`, and a document that `populate` put in place of a reference compares with
  no reference.
* `PagesInOrder`, for documents with missing values, too.
* `TotalIsAlwaysCount` for a limit other than 0 and filters that are not an `$or`, by
  `after` or by page number, through `CountInv`: without writes the documents up to the
  cursor are as many as the pages before hold. It rests on ranks in the order being a
  bijection (`EveryRank`), which makes every page but the last a full one
  (`LastOfFullPage`). With a limit of 0 the total of a page with `after` leaves out
  what came before.
* `NothingIsSkipped`, `NothingIsSkippedOrRepeated`, `PagesFollowTheCursor` for filters that
  are not an `$or` and others that only delete the cursor's document, if anything
  (`Sound`), through `CursorInv` (the request is for a page by number, or names the last
  document received, and `findById` returns it as it was or not at all) and `ReceivedInv` (a
  steady document was received if it does not come after the cursor, and, as long as the
  cursor was there, once then and never otherwise). A page with `after` is a prefix of what comes
  after the cursor (`PageIsPrefix`) because the order is total (`BeforeTotal`: `_id` is
  always the last key) and documents are finite. So is a page by number as long as
  nobody writes (`NumberedPage`), because by `CountInv` it skips exactly what the cursor
  does not precede. With a limit of 0 it skips nothing and returns everything once
  more, so `SteadySeenOnce` promises a client that uses numbers nothing there.

`SearchPathsProofs`, for any models, path options, documents and number of requests:

* `OnlyFilterableIsAsked` and `NothingHiddenIsEverShown`, from `IInv`: what is in the path
  options is the caller's or passed the parser, whoever put it there, and what is
  shown was looked up below something that is shown.
* `ReuseAlwaysNarrows` for `Straight` filters, from `NarrowInv`: each request's conditions are
  in the path options, and what passed the stages so far meets those of the stages.
* `JoinIsAlwaysExact` under `Timely` for `Straight` filters, from `ExactInv`, the converse: the
  path options hold nothing else, and each stage shows or keeps whatever meets its
  conditions. It rests on the owner of a key that is not cut off being the innermost
  document the key leads into (`OwnsInnermost`, `StraightRoutes`), on a parent being looked
  up before its children (`ParentBefore`), on what a lookup overwrites not being asked
  again (`LookupShows`), and on an `$or` that waits never becoming ready before the last
  stage (`NothingReady`).

`SoftDeleteProofs`, for any documents and calls: `FlagAndDateAlwaysAgree`,
`CountsOverlapOnly`, `ReturnedAlwaysStays`, from an invariant that says what each call in
progress still has to save and that calls in progress at the same time have met.

`Watermark`: `WatermarkFits`, for all sizes and every ratio up to 1.

Only model-checked: all liveness (the prover has no rules for fairness and `ENABLED`
here), `FailedLeavesNothing` among it. Every other property of a passing run is the
statement of a theorem, under the conditions its theorem names. No module that is proved about uses a RECURSIVE operator, and no theorem needs induction
over data.

## 5. What is not modelled

* The methods the mongoose plugin does not patch (`aggregate`, `insertMany`), and the
  registration of connections; what a REQUIRED method that outlives its transaction
  writes has no promise. A document that remembers a session is one of its frame's own
  connection.
* File names, metadata and bytes of uploads; a client that goes away; downloads
  (`pipeFile`, `zipMultipleFiles`), which keep no state between calls and hand streams
  to the web framework.
* Of filters: values and their conversions, nested objects as values, operators that
  are not allowed, prefix and postfix, a field that stands for another name in the
  middle of a key. Of path options: lookups that are not SINGLE, `deleted` lookups,
  projections of the caller, and `postFilter`. Sorting by a key of a joined document.
* The aggregate hook of the soft-delete plugin.
* Backend helpers, serve-static, transforms, decorators and module options:
  mappings and configuration without state over time.

## 6. Plan

Done: the timer alone and in a caller's transaction, transactions and their abstract
specification, uploads, paging, filters with their parser over lookups, soft
delete; theorems for each of them.

Left, in order:

1. `SearchPaths` with fields that stand for other names inside a key.
2. Downloads: a missing object in the middle of a zip file.
