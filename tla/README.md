# Rowset: specification, model checking and proofs

Rowset keeps structured datasets for AI agents: a Django application with a
REST API, an MCP server and a dashboard in front of the same services,
PostgreSQL as the store, Redis and Django-Q2 workers for background tasks,
Qdrant for semantic search and Stripe for billing. This directory holds TLA+
models of its core, the TLC instances that check them, and TLAPS proofs about
them. Paths below are relative to `src/`.

1. [The system](#1-the-system) - inventory, interactions, what is hard
2. [The modules](#2-the-modules) - state and actions against the code
3. [The runs](#3-the-runs) - what TLC checks, bounds, fairness
4. [The proofs](#4-the-proofs)
5. [Where code and documents disagree](#5-where-code-and-documents-disagree)
6. [What is not modelled](#6-what-is-not-modelled)
7. [What would come next](#7-what-would-come-next)

`tlc -workers 2 -config MCTrials.cfg MCTrials` checks one instance and
`tlapm TrialsProofs.tla` one module's proofs.

## 1. The system

### Components

| Component | State it keeps | Operations | Correct when |
| --- | --- | --- | --- |
| Dataset rows (`apps/api/row_mutations.py`, `services.py` from 4780) | `DatasetRow` (data, row number, index value), `Dataset.row_count`, `DatasetMutation` history | create, patch, delete, bulk delete; create, archive, restore, publish, delete the dataset | the count is exact, index values are unique and agree with the data, no constraint fires at commit, the history explains the rows, an archived dataset is frozen |
| Relationships (`services.py` 1573-1843) | `DatasetRelationship`, the source column's cells, the target's index values | create, delete, validate on write, refuse to delete or rename a referenced row | under enforcement every reference resolves |
| Schema and calculated columns (`services.py` 2600-3275, `datasets/services.py`, `formulas.py`) | headers, `column_schema`, index column, keys of rows | add, retype, rename, drop, reorder; compile formulas | headers, row keys, types, formulas and relationships agree; cells follow their column |
| Queries, paging, search (`datasets/services.py` 2090-2790, `services.py` 3960-4750) | none | filter, sort, page, rank, search | what was there all the time is delivered, once; a search answers what meets its filters |
| Projects and sections (`services.py` 550-992, 3314) | `Project`, `ProjectSection`, a dataset's place | create, rename, archive, delete, move | every active dataset is on its project's page once; archived sections stay empty; guarded names are unique |
| Assets (`services.py` 3580-3875, `models.py` 265-436) | files, `DatasetAsset`, deletion outbox | attach, replace, clear, delete, retry | a cell's reference resolves; every file is accounted for; an asset keeps its files |
| Agent keys, REST, MCP, previews (`core/services.py`, `api/auth.py`, `api/views.py`, `mcp_server/`, `public_previews.py`) | `AgentApiKey`, preview flag, password hash, sessions | create and revoke a key, authenticate, serve, publish, unlock | who is served was entitled, who is refused was not |
| Trials and rewards (`apps/core/trials.py`, `forms.py`) | trial dates of `Profile`, `TrialRewardClaim` | start on first API use, claim, extend, refuse | every day earned is in the end date, once; nobody is refused within a trial |
| Vector index (`apps/datasets/tasks.py`, `vector_tasks.py`, `vector_search.py`) | points in Qdrant, tasks in Redis | index, delete, backfill | a settled index shows the current rows; no live row is missing from it by a race; every task is worked off |
| Billing (`apps/core/stripe_webhooks.py`, `tasks.py`, `views.py`) | subscription and customer id, `Profile.state`, `ProfileStateTransition`, a cache of handled events | webhook, state-change task, customer, checkout, portal | the profile ends in the state Stripe says, whatever is delivered twice or out of order |
| Exports, feedback, milestones, analytics, content pages, CLI, frontend, settings | feedback rows, milestones | render, record, notify | (see section 6) |

### How they interact

* **Requests** run in parallel processes. A write is one
  `transaction.atomic()` block at READ COMMITTED that first takes the row lock
  of *one* `Dataset` (`get_active_profile_dataset_for_update`,
  services.py 1518) or of the `Profile` (trials). What it reads elsewhere it
  reads without a lock.
* **Tasks** are appended to Redis, either inside the request
  (`Profile.track_state_change`) or from `transaction.on_commit`
  (`enqueue_vector_task`). Four workers take them in queue order and carry them
  out in any order; Redis keeps no copy of a task once taken.
* **Stripe** calls the webhook, repeats what was not answered with 200 and
  promises no order.
* **Qdrant and the embeddings service** are called by tasks and by searches;
  their errors are logged and swallowed.
* **The object store** is written before a transaction commits and cleaned
  after it, by `on_commit` callbacks; what could not be deleted waits in
  `DatasetAssetFileDeletion` for a management command.
* **A page of rows, or a search,** is several queries, each of which sees what
  was committed until it ran.
* **An MCP request** is let in twice: by the claims of its token before the
  tool runs, by the database in its body. A REST request is let in once. Both
  judge the trial by the profile as they have read it; only where that copy has
  run out or not begun is the profile, but not the key, read again under lock.

### What is hard

Checks on one dataset against writes on another; a value read in one statement
and used in the next; profiles loaded before a lock is taken and, in a form,
written back whole; tasks that write what they read before a slow call; tasks
lost between commit and queue, or with their worker; webhooks twice, together,
late, or half done; files that no transaction covers; a dozen structures that
hold the name of one column; a hundred entry points, each declaring its own
access; locks taken in opposite orders. PROJECT.json lists them
under `hazards`, each at its line, with the properties that watch it.

## 2. The modules

Each module names the code it translates above its definitions; `map` in
PROJECT.json gives the lines. A definition whose comment begins "Fault" is a
plausible bug put in the place of the next definition, to show that a property
can fail.

### KeyedTable and DatasetRows

`KeyedTable` is what the row API promises: a table one operation at a time
inserts into, replaces a row of, or removes rows from, with unique ids, numbers
and index values. `DatasetRows` is the code: each request holds at most one
transaction `tx[p]`; `Lock` is `get_active_profile_dataset_for_update`, then
come the statements one by one (`FetchNumber`, `InsertRow`, `FetchRow`,
`UpdateRow`, `DeleteRows`, `CountRows`), and `Commit` or `Abort`. A statement
sees what is committed and what its own transaction wrote (`Applied`), so other
requests' commits show between statements wherever the lock does not prevent
it. Rows have an id (burnt by a rollback), a number, an index value and two
cells; index cells may differ only in whitespace (`Strip`). Validations of
types and relationships are abstracted to `Abort`. `DeleteDataset` is the
dashboard's `dataset.delete()`. `HistoryExplainsRows` relates the field changes
in the history to the row that is there.

`ImplementsTable` says that every behaviour is one of `KeyedTable` with the
same rows, count, status and public flag.

### Relationships

A source column and a target dataset, each with its own lock. The statements of
validating (`WriteRow`, `ValidateReference`) and of refusing to delete or
rename a referenced row (`SelectTargets`, `ReadIncoming`, `CheckReferenced`)
are steps of their own, because the other side is read without a lock. Cells
carry two notions of trimming: `Strip` (Python, any whitespace) and `Trim`
(SQL, spaces). `AttachAsset` is the one path that writes a cell and validates no
relationship. Two ghosts phrase what holds in spite of that: `overlapped`
(transactions on both sides were open together) and `settled` (references that
were in place when a target transaction began).

### Grid and Columns

`Grid` is what a dataset promises of its cells: a column is itself, not its
name; a cell changes only when its row is written or its column added or
dropped; a column added under an old name starts afresh. `Columns` is the code:
`headers`, `schema`, `index`, the keys in the data of every row, relationships
of other datasets that name this one's index (`incoming`, `target`), and this
one's own (`outgoing`). The operations on the dataset run under its lock and
are one step each, with all their refusals (`IsFree`, `IsReferenced`,
`ExistingChoicesValid`, `CalculatedColumnsValid`); a relationship of another
dataset is made and unmade in two steps (`BeginCreate`, `CommitCreate`,
`BeginDelete`, `CommitDelete`), because that dataset's lock is another one. A
formula is the set of columns it refers to, a choice column the set of its
choices, and cells match up to `MatchKey` (case, spaces, dashes). The ghost
`ids` gives each column an identity of its own for the refinement, `raced` the
relationships whose two steps something came between.

### RowQueries and RowReads

`RowQueries` has no variables: the filters as they are normalised and applied
(`NormalFilters`, `Passes`), the strict query of one dataset (`Selects`), the
tolerant one over several (`SelectsAmong`), the order (`Ahead`), and the merged
ranking of a search (`Rankings`). What a cell counts as in a comparison is a
constant, `Quantity`; reciprocal ranks are compared as fractions. `RowReads`
runs these against a table that is written between queries: a listing by a
client counts (`Count`) and slices (`Slice`) in turn and asks on at its offset
(`ClientPage`), a person turns pages that the paginator clamps (`PersonPage`),
and a search asks the vector store (`Points`), then for the rows allowed
(`Allow`), the rows by words (`ByWords`) and the rows to answer with
(`Answer`), any of which may fail for want of the store (`Leave`). Ghosts keep
what was there when the read began and what met its filters since.

### Assets

Type and rows of the dataset, its cells, `asset` (the rows of `DatasetAsset`),
`stored` (the object store), `outbox` (the deletions to retry, in order) and
what each request is doing. `BeginAttach` takes the dataset's lock, `SaveFile`
and `SaveFails` are the store's answers, original first, and `CommitAttach`
deletes the asset that was there, writes the cell and registers the deletion of
the old files; `DeleteFile` and `DeleteFails` carry it out. A request may die at
any point (`Crash`); the callback that enqueues an analytics task may raise
(`EnqueueFails`), which `_attach_prepared_dataset_asset` takes for a rollback.
Two ghosts collect what the code gives up: `forgotten` (files whose request died, or
whose save failed unclearly) and `undone` (assets whose attach was reported as
failed after it had committed).

### Projects

A project and a section are both a `group`. Placing and creating datasets and
making groups take two steps, a look (`BeginMove`, `BeginCreate`, `BeginGroup`)
and a write; the guarded create locks the project in between (`LockProject`),
which others wait for (`LockedByOther`). The write checks what the database
checks: foreign keys (`Holds`) and the unique names (`NameFree`). `GroupOf` and
`Shown` are the groups of a project's page. The ghost `late` has the datasets
put into a section that was archived since it was read, `sole` those of guarded
creations that are still where they were made.

### Surfaces and Access

`Surfaces` is the catalogue: for every REST endpoint, MCP tool and page, the
access level it declares (`listed`, `level`), whether it starts a trial and the
service it calls, table by table in the order of the source. `Access` runs
requests over it. A request with a key goes from read to read: `Send`, then
`RestAuthenticate` (key and profile in one SELECT) or `McpVerifyToken`,
`McpLoadProfile` and `McpAuthenticate` (claims, profile, key); then `JudgeTrial`
decides by the copy of the profile (`copy`) and the clock of that moment, or
reads a clock (`late`) and goes on to `LockTrial`, which decides by the profile
as it is then; at last `Serve`. A visitor of a preview goes through `PublicApi`,
or `LookPage` followed by `UnlockPage` or `EnterPage`. Meanwhile keys are made
(by name, which a unique constraint guards) and revoked, the trial starts
(`LockTrial`), runs out (`TrialRunsOut`, for a copy at the end it shows) and is
extended (`TrialExtended`), the subscription comes and goes
(`SubscriptionChanges`), the owner publishes, sets passwords (each hash has its
salt), archives, restores and deletes. `entitled` and `unentitled` record, for
each request, whether its client was entitled to what it asks for at some moment
since it asked. For a key that takes two facts, and the code does not read them
at once: a key revoked after its SELECT still counts when a subscription or a
reward comes before `LockTrial`. So a client is entitled if its key was right at
some moment (`keyed`) and the trial had not ended then *or later*; that both
were right at one moment is more than the code promises. A copy that runs out
while the trial itself is extended counts as a reason to refuse (`RanOut`): the
reading endpoints do not read the profile again. The requests of one
session may pass each other, so the two ghosts differ in what they count of it:
`entitled` takes every password the session has proved and those its unanswered
unlocks are about to be remembered for (`Shown`), `unentitled` only the one it
proved last (`proved`). `Need` says what a service should require and is
independent of the catalogue.

### Trials

One profile; API requests load it (`Load`), read the clock (`ReadClock`), and
only then decide from the copy (`CheckAccess`, `AllowFromCopy`) or take the
profile's lock (`Activate`, `ClaimReward`, `ExtendTrial`). What happens under
the lock is one step. The settings form (`OpenSettings`, `SaveSettings`) writes
back the whole profile it was built on; the ghost `clobbered` says such a write
overwrote a newer one. Time is counted in days with one tick at a time, so the
boundary "at the end date" is a state of its own.

### VectorIndex

Rows of one dataset, the callbacks that have yet to run (`pending`), the queue,
the workers and what each has read, and the points in Qdrant. Searches, which
read them, are in `RowReads`. `Upsert` writes what the worker read earlier,
batch by batch for a backfill. `LoseTask`, `FailBatch` and `FailTask` are the
swallowed errors and dead processes. Attaching an asset, reordering columns and
deleting the dataset enqueue nothing, as in the code. The ghosts `lost` and
`raced` collect the rows whose last change no task carried over and those two
tasks worked on at once; a task that runs alone takes its rows out again. A
row's cells are one value, and everything else a document takes from the dataset
is one label.

### Billing

Stripe's side is external: subscriptions, their statuses and cancel requests,
and the list of events it has sent. A web process takes an event (`Deliver`,
after asking the cache), and goes through the handler's separate statements:
load the profile, save the id, read the latest transition (`ReadState`), push a
change from that to the state asked for (`Track`), for a deletion clear the id,
and at last mark the event. `Fail` ends it anywhere. A worker inserts the
transition (`Record`) and then saves the state (`SaveState`), or dies.
`Ordered`, `Exclusive` and `Crashes` are assumptions on the environment that a
configuration sets; the run assumes `Exclusive`, for its size, and the proofs
none of them. The ghosts `upset` and `crossed` say when changes were lost, raced
or overtaken, and when handlers overlapped or came out of order; `newest` is the
newest event that was loaded for, until they do. A change is also upset if it
was read too early (`ReadsTooEarly`): its worker will drop it, as one from a
state to itself, though the latest transition is another by the time it is
pushed, or will be when what is on its way is carried out. So it goes when one
server has read "subscribed", another server's cancellation is recorded, and
only then the first server pushes from subscribed to subscribed; and when a
profile resubscribes before its churn is recorded.

## 3. The runs

| Run | Shows | Instance | States, time |
| --- | --- | --- | --- |
| rows | counts, constraints, index values, history, archive, refinement of KeyedTable | a dataset whose keys the client chooses or one with a generated key (`MaxDatasets` = 1 of the two), 2 requests, 3 row ids, 5 cells of which two differ by a space, 4 history entries | 415,379; 110 s |
| relationships | integrity without overlap; settled references survive | 2 requests, 2 source rows, 2 keys, an asset, the blank cell | 56,016; 2 s |
| columns | formulas, choices, counts and relationships across every order of column operations; refinement of Grid | 3 names, 1 row, 4 cells of which two are spellings of one choice, 1 relationship from another dataset, 3 identities, so that a name is used again | 468,032; 136 s |
| row_reads | pages add up; a search answers what met its filters; found both ways comes first | 2 datasets, 3 rows, 2 columns and row number to sort by, 4 listings, 2 searches (one dataset, both), pages of 1, 2 answers, 2 writes during a read | 2,999,417; 101 s |
| projects | pages, archived sections, guarded names | 2 clients, 2 projects, 2 sections (3 of the 4 made), 2 datasets of one name | 883,767; 46 s |
| assets | references, files accounted for, files kept, orphans deleted in the end (liveness) | 2 requests, 1 row, 2 column names of which one is in use at a time, 2 assets, one with a thumbnail, retry limit 1 | 350,074; 135 s |
| assets_commit (violation) | an attach that reports a failure has committed | the same | - |
| access | whoever is served was entitled, whoever is refused was not; names of keys | 1 client with a key at a time or 1 visitor, 2 keys, 1 name, 2 passwords set twice in all, the whole catalogue | 1,304,164; 92 s |
| trials | the account of days, and refusals | 2 requests, 1 form, 2 rewards, clock 0..2, 1 granted day | 1,235,666; 20 s |
| vectors | a settled index is fresh but for lost and raced rows; no live row is missing by a race | 1 writing process, 2 workers, 2 rows, 2 texts, 2 labels, 2 tasks, batches of 1 | 2,148,394; 99 s |
| vectors_serve | tasks are worked off (liveness) | 2 fair workers, fair callbacks, 2 rows, 2 labels, 2 tasks, batches of 2 | 136,698; 11 s |
| billing | subscription id, marks after tracking, and the final state | 2 web processes, 2 workers, 2 subscriptions of which one lives at a time, 3 events, 2 tasks in the queue | 4,581,307; 131 s |

**Bounds.** Each constant named `Max...`, and `Width`, is a bound in a guard or
in the type of an input. Two requests suffice for every race between a check and
a write, because each transaction checks once and the hazards are pairwise.
Three row ids let a deleted last row be followed by another. One row is enough
for columns and assets: rows do not meet in either, and what an operation does
to one row it does to all. With three column names and three identities a column
is dropped and its name given to another. A trial of one day, with a clock of
two, reaches before, at and after the end. Two workers and two tasks reach every
pair of racing tasks, and a batch of one makes a two-row backfill stop half-way.
Three events are what it takes to end a subscription and begin another. In
`billing` two servers, two workers and a queue of two put changes in an order
and beside each other; at most two changes are on their way at once
(`TwoChanges`), and one handler at a time repeats what was tracked, one event at
a time was forgotten (`OneRepeat`): the proofs have none of these bounds, nor
the assumption of one living subscription. A page of one row with three rows
gives three pages and two writes between them; two answers of three candidates
reach the cut at the limit. In `access` one request is on its way at a time:
what another could do in between, `OwnerActs`, `RevokeKey`, `TrialExtended` and
`SubscriptionChanges` do (of `LockTrial` by another request, the start of the
trial, only the proofs know). What two requests can do to each other is to
change the session they share: that is in the model, whose instances with two
requests are too large to finish, and in the proofs, which hold for any number
of requests. The trial may be extended and the subscription may change at any
moment and without end, which is more than claims and Stripe's events allow.

Where running into a bound stops the system, or a deletion is final (`rows`,
`vectors`, `billing`, `projects`), the configuration switches the deadlock check
off; none of the models waits for more than one lock, so there is no deadlock
for it to find. `NotClobbered` and `NotUpset` are state constraints that cut
behaviours after the ghost a property excepts is set, and only in runs whose
properties are about the behaviours before; both ghosts never go back. (In
`billing` that cuts behaviours of `IdFollowsStripe` and `MarkedAreTracked` too,
which are proved without it.) Symmetry
is used in safety runs only.

**What the properties except.** `CountsHaveRelationship`,
`RelationshipsNameColumns`, `ArchivedSectionsEmpty`, `FilesAccountedFor`,
`AssetsKeepFiles`, `IntegrityWithoutOverlap`, `IndexFresh` and
`StateFollowsStripe` each name, by a ghost, the one way the code lets the
promise fail, and say that there is no other. A reader who wants to see such a
failure drops the ghost from the property. `RefusalsWereDue` excepts in the same
way a session that a late unlock made forget a newer password (`Forgets`), and a
request whose copy of the profile ran out.

**Fairness.** `VectorIndex` states weak fairness of each request's callback (it
runs right after the commit, unless its process dies, which also takes it off
the books) and of each worker (the cluster restarts workers and kills a task at
its timeout, rowset/settings.py 543). Both may fail instead of succeed. `Assets`
states weak fairness of what a request does next, which includes failing, and of
`RetryDeletion` for each file: the retry is a management command that an
operator schedules, so `OrphansGo` is a promise of the code to one who does,
and it assumes that the store answers in the end. The other modules promise
safety only: nothing in the code retries a client's request or a lost state
change.

## 4. The proofs

The proof modules hold for any number of requests, rows, datasets, workers and
events, columns and names; the constants' assumptions are named in the modules
that declare them and TLC evaluates them in every run.

* **DatasetRowsProofs**: `TypeCorrect`, `RowCountCorrect`,
  `ConstraintsNeverFire`, `IndexAlwaysFaithful`, `OnlyActiveIsPublic`,
  `ArchivedIsFrozen`, `HistoryAccountsForRows`, `RowsImplementTable`. The
  invariant joins the type, what holds of each table (`TableOK`: exact count,
  distinct keys, faithful indexes, ids below the sequence) and, for each open
  transaction, what it has learnt and may still rely on because it holds the
  lock (`TxOK`). The public properties do not mention the lock; without the link
  from open transaction to holder none of them is inductive. The history is
  explained by what an open transaction has changed and is about to tell: that
  it inserts tells of an id no entry names, because every id in the history is
  below the sequence; that it updates tells what differs from the version it
  replaces, where the last change of each field ended (`ChainedUpdate`); and
  what a chain of changes and a count of rows say is carried over the
  concatenation of the old history and the new entries.
* **RelationshipsProofs**: `TypeCorrect`, `OnlyOverlapDangles`,
  `SettledSurvive`. The invariant says what a validated source transaction and
  a checked target transaction know, the former as long as no overlap has been
  seen, the latter for settled references only.
* **ColumnsProofs**: `TypeCorrect`, `FormulasAlwaysResolve`,
  `ChoicesAlwaysAllowed`, `CountsAlwaysHaveRelationship`,
  `RelationshipsAlwaysNameColumns`, `ColumnsImplementGrid`. The invariant is the
  conjunction of the checked properties and of what a pending deletion knows:
  none but a raced relationship under deletion is counted. That formulas
  resolve is kept because no operation on a column that a formula names
  passes, and a retype revalidates all of them; acyclicity says that every set of
  formulas has one that refers to none in it, so that no induction is needed.
  The refinement maps a column to its identity; a rename keeps the identity and
  moves the cell's key, so the mapped cells stay.
* **RowQueriesProofs**, on RowQueries: `ListingOrderIsTotal` (of two rows of a
  dataset exactly one comes first, by every column and direction, transitively:
  without it pages could overlap), `BuildersAgree` (the strict and the tolerant
  query select the same rows of a dataset, and the tolerant one nothing where
  the strict one refuses), `BothWaysScoreMore` (for ranks up to the offset of 60;
  a search for 50 rows looks at ranks up to 150, where the code promises
  nothing). They hold for every schema and row. On RowReads: `TypeCorrect`,
  `ListingsAreRight`, `SearchesAreRight`, `FoundBothWaysFirst`, for every page
  size, limit, number of rows, points and writes. Rows of a dataset differ in
  number because the later row has the larger one, which deletions do not
  change (`RowsOK`). A listing is right because of what it has got
  (`PagesInv`): as long as nothing disturbed it, that is a *front* of the rows it
  is after (`IsFront`: what comes before an element of a front is in it), every
  answer of the database begins with every front, and it goes on from there
  (`ListBeginsWithFront`, `FrontContinued`); it ends no earlier than the rows
  there at the start, which come first, are all got (`FrontHasFirst`). Rows
  created in the default order come last, which keeps a front one (`FrontKept`).
  When rows are deleted, that no row comes twice follows from counting instead:
  of the rows now there, at most k are up to the k-th row got (`Grows`), so
  that what comes behind the offset is new. A search is right because what was
  allowed or found by words met the filters when it was (`SearchInv`); because
  the tolerant query selects what the strict one does (`AmongIsAlone`, from
  `BuildersAgree`), which is where a search of all datasets could differ; and
  because a cut of the rows found by words leaves more than an answer takes.
  And each query has exactly one answer (`QueriesAreDetermined`): the model lets
  the database answer with any sequence that respects the order asked for, and
  there is one and only one (`OneList`), because no two rows are left unordered,
  in a listing (`ListingOrderIsTotal`), among rows by words, and in a merged
  search, whose sums of reciprocal ranks are compared as fractions
  (`RankingIsTotal`). That there is one, so that no read is stuck for want of it,
  takes the least number of elements no list puts in order, and puts one more in
  its place (`PutIn`): an induction over a set of numbers, which needs no
  induction theorem.
* **ProjectsProofs**: `TypeCorrect`, `PagesAlwaysAddUp`,
  `ArchivedSectionsStayEmpty`, `GuardedNamesStayUnique`. None of the properties
  is inductive. A page adds up because a dataset is always in the project of its
  section (`SectionsOfProject`), and that survives the gap between look and write
  because a request remembers a section with the project it belongs to, which can
  be deleted but never changes (`SectionsSeen`). Guarded names stay apart because
  who holds the lock of a project knows that no guarded dataset in it has the
  name (`LocksOK`), and whoever brings a dataset in by another way, a move or a
  restore, takes it off the guarded ones.
* **TrialsProofs**, on Trials: `TypeCorrect`, `RewardsCounted`, `NeverShrinks`,
  `AddsDaysOnce`, `RefusedAfterTrial`, `AllowedInTrial`. The invariant adds to
  the account of days that a request's copy of a started trial has its start
  and ends no later than the trial now does. On Access, in the second half:
  `AccessTypeCorrect`, `ServedOnlyEntitled`, `RefusedOnlyUnentitled`. First, the
  whole catalogue is `Honest`: each of its entries declares and demands exactly
  what the service it calls needs, and what a preview offers only reads. Then
  every step of a request is one of a few turns (it is sent, verified, looked
  up, let in, or ends, and an unlock that ends may be remembered), and
  `AccessInv` is shown turn by turn: what is on its way is in the catalogue;
  whoever was let in was entitled (`LetInDue`); what a page found when it was
  looked up settles who counts as entitled or not since (`LookedDue`); and a
  session remembers what it proved last. Of a request with a key, `TrialDue` says
  what its reads have shown: its key was right (`keyed`), and its copy of the
  profile settles whether it counts as entitled by now or as unentitled, as the
  clock it read does once it waits for the lock. The tables are evaluated by the
  provers, so a new endpoint that declares too little breaks a proof, not only
  a run.
* **BillingProofs**: `TypeCorrect`, `NoMarkedEventLost`, `IdFollows`,
  `StateFollows`. The first invariant says that a handler past the tracking step
  has tracked, and that events handled were sent (events only grow). For the id,
  as long as handlers have not `crossed`: a handler past its load is alone and
  has the newest event loaded so far, the id is the profile's or the event's by
  how far it has come, and it is the newest event's once that is handled
  (`InTurn`, `OnTheWay`, `Followed`). For the state, as long as nothing is
  `upset`: workers carry out changes to one state at a time, a change that will
  be dropped asks for what all before it ask for (else it was read too early),
  and the last change on its way, or else the profile, is in the state that the
  newest tracked event asks for (`OneChange`, `DropsFit`, `Heads`).
* **StoresProofs**, on VectorIndex: `IndexTypeCorrect`, `IndexIsFresh`,
  `NoLiveRowMissing`. Neither safety property is
  inductive, because each speaks of an index at rest. The invariant says where
  the next version of a row is while it is not in the index: in the queue, in a
  callback, or in a worker that has yet to read it or has read what is there
  now (`Followed`, `Indexed`), and that a worker whose rows are not `raced` is
  alone with them. On Assets: `AssetsTypeCorrect`, `ReferencesResolve`,
  `NoFileForgotten`, `FilesOutliveDeletions`. `CellsInv` is about the table:
  cells refer to assets, and no two slots have one asset. `FilesInv` follows
  each stored file: it is an asset's, a running request's, waiting in the
  outbox or with the request that deletes it, `forgotten`, or of an `undone` attach;
  and what is to be deleted is no asset's but an undone one's (`Accounted`,
  `Spared`, `Doomed`). New assets have keys never used before (`Fresh`), which is
  what keeps the two halves apart.

Assumptions on constants that only the proofs need: `Requests` and `Workers` of
VectorIndex are finite, and the sentinels, `None` of VectorIndex and Billing and
`Nothing` of Access and Assets, are none of the values they stand beside.

**Only model-checked**: the liveness properties `WorkersCatchUp` and
`OrphansGo`, which need fairness and ENABLED and are outside the prover's reach.
Every other property of a passing run is a theorem. Of what is proved, some is
not repeated in a run: the type correctness of DatasetRows, Relationships,
Trials, Billing and Columns, `PublicOnlyWhenActive`, `TrialNeverShrinks` and
`AllowedWithinTrial`.

## 5. Where code and documents disagree

`assets_commit` is a run that TLC ends with a counterexample, and PROJECT.json
quotes the sentence it refutes: `track_activation_event`
(apps/core/analytics.py 142) registers a bare `async_task` for after the commit.
When PostHog is configured and the queue is down, its exception leaves the
`atomic` block of an attach that *has* committed; the `except` clause
(services.py 3859) takes it for a rollback, deletes the files just saved and
raises it again (3867). The request fails, but the asset and its cell stay,
without files. The tests expect a failed attach to leave no asset
(test_dataset_assets.py 293).

Five more disagreements are stated as properties in the modules, each false of
the code; putting one in its configuration's INVARIANTS shows the behaviour.

* `NoDanglingReference` (Relationships): a reference is validated
  (services.py 1630) while its target is deleted, and both commit; or Python's
  strip accepts `"A\n"` as a reference to A, which SQL's TRIM (services.py 1597)
  does not see when A is deleted (which takes an instance with a cell that
  `Strip` and `Trim` read differently). The article
  referential-integrity-ai-agents.md 170-173 promises otherwise.
* `RewardsEarned` (Trials): `ProfileUpdateForm.save` (forms.py 46) writes back
  trial dates and state it loaded earlier; CHANGELOG.md 565 says rewards stay.
  Needs the constraint `NotClobbered` taken out.
* `StateIsLatest` (Billing): two workers leave `Profile.state` (models.py 55)
  and the latest transition apart (tasks.py 281), and so does one that dies
  between its two writes. Needs the constraint `NotUpset` taken out.
* `ChurnedLostAccess` (Billing, with `Ordered` TRUE, `Crashes` FALSE and the
  constraint `NotUpset` taken out): a resubscription while the churn is still
  queued is dropped (models.py 77), and the profile stays churned, which
  choices.py 52 calls cancelled.
* `SourcesAreStored` (Columns): retyping (services.py 2625) makes the source
  column of a relationship a calculated one, which creating a relationship
  refuses (services.py 1586).

More behaviours show in the models without contradicting a document:

* After the last row is deleted the next row gets its number and its generated
  `rowset_id` (`IsNextRowNumber`); a create repeated after a timeout makes two
  rows that nothing tells apart.
* Attaching an asset to the source column of an enforced relationship validates
  nothing; `IntegrityWithoutOverlap` excepts those cells.
* Ending one of two living subscriptions clears the profile's subscription id
  (`ClearId`).
* Patching an asset cell to white space leaves the asset (`PatchCell`), and so
  does retyping its column to text (`RetypeColumn`); retyping from image to
  audio asks only that the asset exists. A save that fails after it has written
  leaves a file nobody knows of.
* When rows are deleted between the count and the page a client gets an empty
  page with `has_more` true, which dataset-api.md 306-307 tells it to treat as
  an error; the dashboard's paginator clamps and may show rows again.
* An unlock for an old password that is answered after the owner has changed the
  password, and after the same session has unlocked the new one, overwrites
  what the session remembers (public_previews.py 129): the visitor is asked
  again. A page of the session that had looked before the change is shown
  meanwhile, as of the moment it looked.
* core/capabilities.py (about line 125) says that a trial starts with the first
  dataset or project mutation; the MCP tools for feedback and milestones start
  it too (`Surfaces`).

## 6. What is not modelled

* **Parsing and values**: the grammar and arithmetic of formulas, numbers and
  dates read from text, the coercion of cells to types (a refusal in
  `DatasetRows`, `Quantity` in `RowQueries`), filters on calculated values. They
  are functions of text without state.
* **Queries**: searches look at the first 20 columns only, sort names of the
  form `col_N` and the order options of a merged search are left out; archived
  datasets, projects and sections as scopes of a search are one set of datasets.
* **Locks of two tables**: relationships made in both directions at once, and
  feedback against row writes, can wait for each other through the key-share
  locks of deferred foreign keys; these two hazards have no property, because
  no module has the row locks of more than one table.
* **Billing**: creating customers, checkout and portal sessions; checkouts that
  are not paid yet, whose handler returns early and changes nothing; and the
  settings form, which writes its old copy of the whole profile, subscription id
  and state included (`Trials` shows what that overwrites, `clobbered`).
* **Access**: the settings form's overwrite of the trial's dates (in `Trials`),
  superuser keys, the endpoints without authentication
  (capabilities, health check), OAuth of the MCP server and hashing of keys.
* **Exports, feedback, milestones, e-mail, analytics, content pages, the
  command-line client and browser scripts** render, insert one row or send and
  forget; who may call them is in `Surfaces`. The backfill command and the
  preparation of images and thumbnails are left out.
* Lost PostgreSQL commits, a clock that goes backwards and a Redis that loses
  its whole list are not considered.

## 7. What would come next

1. A bound on what is served late: theorems that relate Access to the state
   its answers are read from.
2. LockOrder: row locks of several tables and key-share locks at commit.
3. Customers and checkout in Billing; milestones, recorded once.
4. Two profiles: everything here has one, so that isolation between profiles is
   not a statement of any module.
