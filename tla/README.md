# Layerstack, specified

TLA+ models of the parts of Layerstack whose correctness depends on the order
of things: what a live stage tells its observers, how it keeps up with layers
that others edit, how transactions fail and are undone, how one thread budget is
shared by the pools that compose a stage, how a document saves and reloads files
that others write, how a stage opens on several threads, and how a query answers
from what it kept. TLC checks each model on a
small instance; TLAPS proves, for every instance, what the section *Proofs*
lists.

To check a run: `tlc -config <cfg> <module>`; to check the proofs:
`tlapm <module>_proofs.tla`. `PROJECT.json` names, for every definition,
the source lines it stands for, and for every property a mutant of the model
that breaks it.

## The system

Layerstack composes USD-style scenes: *layers* of authored specs, stacked and
joined by arcs, give a *stage* of composed prims. The workspace is one library
with formats, I/O, schemas, bindings and tools around it.

| Part | State it keeps | Operations | Talks to |
|---|---|---|---|
| Layer and `InMemoryStore` (`layerstack/src/doc.rs`) | specs, two generations and bounded evidence of edits per layer; layers by id, released generations, bindings of assets | edit, touch, bind a sublayer; insert, replace, remove, release, snapshot | read by everyone; edited by hosts directly |
| Edit transactions (`edit/apply.rs`, `edit/transaction.rs`) | the journal of one transaction | apply an edit, roll back, give the inverse | write layers |
| Undo history (`edit/history.rs`) | undo and redo steps, an open group, the epoch | record, group, abandon, undo, redo, reset, mark, unwind | applies transactions through a live stage |
| Live stage (`live_stage.rs`, `live_stage/*.rs`) | the composed stage, generations last seen, what is to recompose | apply, notify, recompose, synchronize, mute, load, mask | reads layers and their evidence; publishes notices |
| Notices (`live_stage/notices.rs`, `change_history.rs`) | a revision, retained reports, callbacks | cursors, subscribe, publish, read, budgets | hosts, retained queries |
| Work pool and budget (`parallel.rs`, `parallel/pool.rs`) | tasks, counts of workers and busy threads; threads spare | run phases, hand over, offer, `join` | composition and opening run on it; hosts supply executors |
| Composition engine (`prim_indexing`, `stage.rs`, `value_resolution.rs`, ...) | none but caches | compose, resolve | live stage |
| Interning and shared caches (`interner.rs`, `interning.rs`, `sync.rs`, `prim_indexing/site.rs`) | append-only tables; the child index | intern, index | every thread |
| Documents (`layerstack_io/src/lib.rs`, `reload.rs`, `release.rs`, `freshness.rs`) | a catalog of sources, saved generations, how each file is known to have changed | open, save, reload, release | storage that others write |
| File storage (`layerstack_io/src/filesystem.rs`) | files, and candidates beside them | version, read, atomic write | documents; other programs |
| Parallel opening (`layerstack_io/src/parallel_open.rs`, `layer_ids.rs`) | sources found, their ids, what was read | read on threads, record in order | the pool; a document's catalog |
| Retained queries (`layerstack_schemas/src/retained.rs`) | cached answers, why they may be wrong, a cursor | view, observe, poll, set the time | notices, the transform cache |
| Transform cache (`layerstack_schemas/src/xform.rs`) | an arena of nodes with validation stamps | apply changes, set the time, look up | retained queries, bounds |
| Opinion algebra (`opinionated`) | none | list, order, dictionary and array edits | composition |
| Formats (`layerstack_usda`, `_usdc`, `_usdz`), bindings, tools, TypeScript packages | decode caches; an undo history over receipts | parse, write, wrap | documents, hosts |

Concurrency is confined to the pool, the interning tables, the child index,
`layerstack_io/src/parallel_open.rs` and the decode caches of
`layerstack_usdc/src/lazy.rs`. Everything else has one caller at a time, and is
hard for another reason: a stage, a history and a layer are edited in turns by
actors that do not tell each other (hosts, tools, other programs), and what each
recorded of the others goes stale. Nothing is persisted but files.

What makes each part correct:

- **Notices.** A reader gets every report since it last read or is told to
  rebuild; a subscriber hears each report once; tokens name one callback.
- **Layers and stage.** After `synchronize` the stage shows what the layers
  say, whatever happened to them and however little evidence was retained.
- **Transactions.** All or nothing; the inverse restores exactly what was
  written, and refuses to overwrite anything else; specs stay a tree.
- **Undo history.** For a host that makes every edit, a line of whole layers;
  with others editing, no edit of theirs is lost and a refusal takes nothing away.
- **Documents.** A file holds one whole content whatever fails; a layer counts as
  clean only when its file had its content; what the document knows of a file's
  version tells the truth; unsaved edits are lost only at the host's word.
- **Parallel opening.** The same stage as one thread opens.
- **Retained queries.** Every poll answers as if nothing had been kept, and says
  why its answer changed.
- **Pool.** Each task once, results of a phase exactly its own, the budget never
  overdrawn, nobody waiting for work nobody does.

`PROJECT.json` lists the hazards, each at its line, with the property that
covers it or why none does yet.

## The modules

| Module | Models | Kind |
|---|---|---|
| `ChangeHistory` | `History<T>` of `change_history.rs` | operators on a record |
| `StageJournal` | `Journal` of `live_stage/notices.rs`, with its observers and subscribers | specification, EXTENDS `ChangeHistory` |
| `TaskPhases` | what `Pool::run` promises its caller | abstract specification |
| `ThreadPool` | `pool.rs`: `pool_in`, `Pool::run`, `work_on`, `serve`, `Offered::offer`; `Threads` of `parallel.rs` | specification, implements `TaskPhases` |
| `ThreadPoolPanics` | the same with tasks that panic | EXTENDS `ThreadPool` |
| `ForkJoin` | `join` of `pool.rs` | specification |
| `LayerEdits` | `edit/apply.rs`: storage steps, the journal, four edits | operators on layers |
| `UndoHistory` | `edit/history.rs` | specification, EXTENDS `LayerEdits` |
| `LinearHistory` | what an undo history promises a host that makes every edit | abstract specification |
| `UndoLine` | `UndoHistory` with the line it stands for | refinement of `LinearHistory` |
| `LayerGenerations` | generations and evidence of a `Layer`, and `insert_layer` | operators, EXTENDS `ChangeHistory` |
| `SourceSync` | a `LiveStage` and its host over one layer of a store | specification, EXTENDS `LayerGenerations` |
| `Documents` | a document's save, read round, reload and release over files; `atomic_write` step by step; writers and crashes | specification |
| `TransformCache` | `XformCache` of `xform.rs` | operators on a record |
| `RetainedQueries` | `retained.rs` over a live stage and its reports | specification, EXTENDS `TransformCache`, `ChangeHistory` |
| `ParallelOpen` | `parallel_open.rs`, with `Reader::load_external` of `lib.rs` as its reference | specification |
| `StageJournal_proofs`, `ThreadPool_proofs`, `ForkJoin_proofs`, `LayerEdits_proofs`, `UndoHistory_proofs`, `Documents_proofs`, `SourceSync_proofs`, `RetainedQueries_proofs` | | lemmas and theorems on the module named |
| `MC*` | | instances for TLC |

`ChangeHistory` is shared as its code is: the same `History<T>` retains a
stage's reports, which `StageJournal` and `RetainedQueries` read, and a layer's
evidence.

### Notices: `StageJournal`

A report is known by the revision it was published at, and takes some retained
bytes; what it says is left out. `reports` is the `History`, whose
`retained_bytes` is not a second variable but the sum it counts. The eviction
loops pop from the front while a limit is exceeded; the model says what they
leave, the longest suffix within both limits. `LastRetained` counts from the
end as `read` does, and saturates as `saturating_sub` does. Observers take,
copy and read cursors, and may hold one of another stage; subscribers may keep a
token after its callback is gone. The first cursor switches retention on
(`enabled`); subscriptions alone do not.

Run `journal`: two observers, two subscribers, reports of one or two bytes,
three budgets (two batches of three bytes in all; no batches; one byte), three
reports, two subscriptions. Three reports are the least with which evictions
leave two while one is gone; two subscriptions the least with which an id could
be reused. Observers, and subscribers, are interchangeable, so the run uses
their symmetry.

### The pool: `ThreadPool`, `TaskPhases`, `ThreadPoolPanics`

One thread runs the body of `with_pool_in` and its phases; workers are places
for jobs on an executor. A section between lock and unlock is one action;
`work_on` is entered and left holding the lock, which `lock` records. A wait on
the condition variable is the place `"wait"`, a notification moves threads to
`"woken"`, and a waiter may wake by itself. The counts a busy thread reads
without the lock (`takers`, `spare`) come from relaxed atomics: the model lets
such a read return any count, because the code may use it only as a hint; what
must hold, must hold for every value. `claim` and `give_back` act on `spare`
exactly (a compare-exchange and an add). Other pools and joins on the budget are
the two actions `OthersClaim` and `OthersGiveBack`. `workersWait` is chosen at
the start: layerstack's own threads wait for more tasks, a host's executor's do
not. A job may be refused; an accepted one may start late.

`KeepsPromise` says that `ThreadPool` implements `TaskPhases`, by the variables
of the same names: phases run in order, each task begins once and only after
the task that adds it began, and a run returns exactly its own results.

Fairness: a thread that can step does, also if the lock is taken by others
between (strong fairness of a thread's steps: mutexes and the scheduler are
taken to let each through in the end); a worker at its loop steps. Jobs start
when layerstack's own threads run them; a host's executor promises only that
jobs run by the time its scope waits for them (`StartsAtLast`). Offers,
spurious wakeups and the others' claims are never forced. `PoolEnds` holds under
this, so no wakeup is lost.

Run `pool`: two workers, a budget of three threads, a phase of a task that adds
two, one of which adds another, and a phase of six tasks of which a thread takes
two at once. With two workers both kinds of notification (all; one each) and
both kinds of handover (to a waiting thread; to one started) happen, and one
worker can finish while the other hands over. Run `pool_panics`: see *Findings*.

### `ForkJoin`

Several callers of `join` on one budget, each with the job it started for `b`.
The task is taken from a mutex by one of the two. Fairness: callers and running
jobs go on; a job is sure to start only when its scope waits for it. Run
`fork_join`: three callers on two spare threads, so that one finds none to claim;
jobs may be refused.

### Transactions and undo: `LayerEdits`, `UndoHistory`

A layer maps paths to specs; a spec has child names in order and one field,
which stands for every field, property and value slot: all are slots a storage
step replaces, guarded alike by `same_state`. Steps of the code that touch other
slots (variants, properties, targets, animation, list edits, relocates,
sublayers) repeat this shape and are left out, as are transaction
preconditions, namespace edits, and the journal's cache of child names.
`CreatePrim` creates missing ancestors, `RemoveSpec` removes all beneath,
`SetMetadata` creates the spec it writes to: multi-step edits, so that a
transaction can fail halfway and an inverse has several steps. An inverse step
runs first and is judged by what it displaced, as in `run_guarded`; rollback
replays the steps' inverses.

`UndoHistory` has one action per operation of the code. `refused` keeps why the
last one was refused. `left` remembers, of each slot, what the host's own
transactions and the history ever left there, so that `OutsideEditsSurvive` can
tell what only an outside edit put there. A mark carries, besides the code's
three fields, the layer and the steps it was taken on, for `UnwindReachesMark`.
A mark taken inside a group lies below what the group recorded, so its layer is
the one that abandoning the group would leave, or `None` if that would be
refused: nothing is claimed of such a mark.

`UndoLine` shows that the history implements `LinearHistory`. The refinement
mapping reads the line off the stacks: the layers the undo steps reach when
applied one after the other, and the same for redo. That is why a redo step must
still apply, and why the line holds only until somebody else edits or the host
takes a mark (`Alone`): `IsLinear` speaks of the steps before that.

Runs: `undo` (a prim, its child and a prim beside them; four transactions, two of
which may fail at their second and third edit, three times recorded; two outside
transactions, once; two levels of groups, one mark, one reset, limit two). Three
recorded steps are one more than the limit, so the bound drops a step, also one
under a mark. `undo_refused` (three prims in a row) is a finding.
`UnwindReachesMark` speaks of the layer only when the steps under the mark are those
it was taken on (`StandsOn`): a redo may put a mark's step back on top of other
content after an unwinding below it, and `unwind_to` accepts that mark, which is how
its documentation has it ("redo it first"). What a refusal leaves, and hence what a
later unwinding reaches, is compared up to the order of child names
(`SameButOrder`), which is all the code keeps; `undo_refused` shows why.

Met on the way: `unwind_to` keeps the redo stack over content it took away, so a
redo can be refused as stale though the history recorded every edit (mark, edit
a slot twice, undo the second edit, unwind to the mark, redo);
`HistoryError::Stale` names unrecorded edits as the only cause
(`history.rs:216-219`). The step is refused and nothing is lost, as `undo` checks;
before a host takes a mark nothing is stale (`NothingStaleAlone`), and a host that
never unwinds meets the documented cause only (`StaleNeedsOutsideEdit`).

### A stage and its layer: `LayerGenerations`, `SourceSync`

A layer's content is a value per slot: per prim its opinions and its spec
(existence, arcs, children), and the layers its sublayers are bound to. An edit
moves the generation, a structural one both, and records a batch of evidence
that names the prims, or names none (`touch`), or says that only sublayers were
bound. The stage keeps what it composed of each slot, the generations it last
saw, and what is pending: prims by opinion, prims by structure, everything, or
everything with only the layer stack changed.

`Notified` is `notify_changed_layers`, with the five ways it hears of a change;
`Recomposed` is `recompose_pending` with its three scopes (`recompose_restacked`,
`full_rebuild`, `recompose_controls`) and the scoped recomposition that finds
specs diverging; `ApplyValues` and `ApplyStructure` are `LiveStage::apply`,
which moves the generation seen only when its own edit is the only one.
Recomposing reads the layer as it is then, not as it was when noticed. The
host's actions are the store's: edit behind the stage's back, build, copy and
edit a layer outside the store, insert it, remove or release the stored one,
forget evidence or change its budget.

The property, `SynchronizeIsCurrent`, is that `synchronize` from any reachable state
gives a stage that composed every slot as the layer has it. Runs: `source`, two
prims, layers of generation at most two, budgets of one batch and of none, a
sublayer bound to the layer. Two generations past the one seen are the least with a
gap in the evidence. The full rebuild is the fallback of every branch; the model
leaves out conditions that only add to it (expressions, relocations, an unmapped
source site, muting and load rules pending, the node limit).

### A document and its files: `Documents`

A call of the document has it exclusively, so the steps of one call interleave
only with other programs and with the end of the process. `at` is where the call
under way is; `todo`, the layers it has still to take; `layer`, `seen` and
`name`, what it has in hand; `next`, what a read or a reload prepares and
publishes at its `Commit`. A file is the sequence of contents it had and its
version the length of that sequence: the model takes `Storage::version` at its
word, that two contents of a file differ in version. A storage may have no
versions (`Reported`); then a digest of the bytes read is kept, or nothing
after a save.

A save (`StartSave`, `TakeLayer`, `EndSave`) writes each dirty layer through
`CreateCandidate`, `WriteCandidate`, `Rename`, `RecordSaved`, or stops at
`SaveFails`, which removes the candidate if it can be; a `Crash` leaves it.
`create_new` refuses a name that is taken, so any free name stands for the
process id and counter it is built from. A reload compares versions or reads
(`Compare`), reads anew (`ReadVersion`, `ReadBytes`, `ReadFails`; the version
before the bytes) and publishes, or is dropped (`Reject`). A read round is a
reload of layers that are not in the store. Which layers the stage uses, asks
for and lets go is left free. Every way a read or a parse can fail is
`ReadFails`. Left out: members of packages, search paths that move, missing
assets found later, root closures, anonymous and read-only layers, muting and
format arguments.

`raced` remembers the layers whose file another program wrote between a save's
write and its asking for the version. `save_layers` takes the later version
for its own (`lib.rs:2016-2027`), so that such a layer passes for fresh while its
file holds something else, until the file changes again. The comment beside it
(`lib.rs:2019-2024`) says that "a reload compares against the version written",
which storage does not tell it. `FreshMeansSame` and `ReloadIsCurrent` leave
`raced` layers out, and only those.

Run `documents`: two layers, two contents, one name for candidates, four
contents of files in all (two first ones and two writes by anybody). Two writes
are the least with which an outside write comes between two of the document's;
one name is the least with which a candidate left behind is met again. Layers,
and contents, are interchangeable.

### Opening on threads: `ParallelOpen`

`TakeTask`, `ResolveArc` and `FinishRead` are the threads: a source is taken from
the pool, each arc named under the lock of `Shared::source` (one action each,
`Find`), and the read put away. Which thread takes which task when is left to
the pool, of which only the promise of `TaskPhases` is used. `Record` is what
follows, on one thread: `Visit` and `Call` are `Replay::visit` and
`Replay::call`, `Rewritten` the finishing of layers. `LoadAlone` and
`ResolveAlone` are what a document does with one thread, where a target is read
inside the parser's question for it, translated from `load_external`,
`AssetResolver::resolve` and `read_layer`. `SameAsOneThread` compares all they
leave: ids, states, bindings, failures, diagnostics, the layers in order, their
arcs.

A layer is its id and the ids its arcs name. A source reads well, or with an
error diagnostic, is rejected as text (what its arcs reached is kept) or as
binary (it is not), is missing or cannot be read. Ids are numbers with
`Derived` trying `first`, `first + 1`, and so on, so that sources collide at
will, as the tests make them by a weak hash. The catalog may hold a host's
layer under an id, or know a source already, loaded (the root's layers when a
session layer is opened) or not (rejected before).

Run `parallel_open`: two threads, a root and three sources. A root with two
targets, one of which reaches the third, is the least with which the threads
find sources in another order than one thread; three first candidates are made
equal. Deadlock checking is off: an open ends.

Two differences of the code's the property does not count. An arc around a
cycle to a text layer that is rejected in the end is unresolved on threads,
while one thread, which asked for it before it was rejected, keeps its id
(`AsRecorded` says so, and without it the property fails); the module's
documentation says the pass does "as the parser makes an arc whose target fails
while it reads" (`parallel_open.rs:18-20`). The error a failed source leaves in
`failures` may carry diagnostics, which under a collision still name the id the
threads gave; errors are `"missing"` or `"rejected"` here. Met on the way, and
the same on any number of threads: the layers reached by a binary layer that is
rejected after it resolved them are dropped while the catalog has them loaded,
so an arc that comes to one later finds an id without a layer.

### Queries: `TransformCache`, `RetainedQueries`

A scene says, of each path, what transform is authored there: its operations'
layout, a value, whether it varies with time, whether it resets the stack; and
whether the prim is active. An inactive prim is populated: it can be asked for like
any other (`scene.prim(path)`), but has nothing beneath it. A matrix is the product
it stands for, a sequence of factors, so two worlds are equal when they are the same
product at the same time: an answer held too long is seen even where the numbers
would agree. `TransformCache` follows the arena: slots, a free list of retired ones,
links between nodes that are slots and not paths, a stamp of validation that
`InvalidateTransform` and `SetTime` move and that wraps. `LocalToWorld` is the
code's two walks, up to the first world validated at this stamp (`Climb`) and down
again (`Descend`).

`RetainedQueries` is an observer with its handles. Reports are consumed one by
one, but against the scene as it is by then (`Consumed`), as the code does; a
host edits between any two calls. A `Resync` changes anything beneath its root:
transforms, which prims there are, and which are active. `RetireResynced` walks
the active prims below the root, as `Stage::traverse` does, unless the cache is
the smaller. `Polled` is a poll as a function of the state,
so `AnswersAreCurrent` can ask, in every state a view may be polled in, what
each query would answer. `ChangesAreExplained` adds that a poll with another
answer names a cause that accounts for it. `ArenaOK` is what the walks take for
granted of the arena. The stage's report says exactly what changed; that it
does is not part of this model.

A resync's walk passes inactive prims by, so one that is cached stays, with a
transform that may be old and a link that may lead to a retired slot. What follows
when such a prim is asked for is a finding (`queries_inactive`). With
`PollsInactive` the host may do that; without it, `MayPoll` has it poll queries of
prims that are active, or gone, when it polls. The three properties speak of those.
This keeps inactive prims in the model and in the cache: a prim polled while it was
active and deactivated afterwards, or walked over as somebody's ancestor, is left
there by every resync that does not filter the cache. `queries` shows, and *Proofs*
proves, that such a remnant does no harm until it is polled: an active prim has no
inactive ancestor, and a prim made active again is retired by the resync that says
so.

Run `queries`: a prim, its child and one beside them, which may be there or not; of
the parent, two layouts that vary, and one of them inactive; of the child, three
that do not vary: one, one resetting the stack, one inactive. Two queries, three
edits or changes of time, one retained report (so that reports expire), one cause
(so that causes are omitted), stamps up to two (so that they wrap). With three
changes a node is cached, retired, its slot taken by another, and come back to; or
deactivated, left behind by a resync above it, and activated again. Run
`queries_inactive`: the same, with inactive prims polled.

## Runs

| Run | Shows | Distinct states |
|---|---|---|
| `journal` | readers and subscribers miss nothing | 364 thousand |
| `pool` | tasks once, no lost wakeup, budget balances, implements `TaskPhases` | 60 thousand |
| `pool_panics` | *finding* | |
| `fork_join` | `b` runs once, joins return | 3 thousand |
| `undo` | implements `LinearHistory` while alone; bound; tree intact, outside edits survive, refusals take nothing, unwinding | 246 thousand |
| `undo_refused` | *finding* | |
| `documents` | files whole, clean layers stored, edits kept, reloads current | 2.6 million |
| `parallel_open` | the stage one thread opens | 2.6 million |
| `queries` | polls are current and explained, the arena linked, if no inactive prim is polled | 798 thousand |
| `queries_inactive` | *finding* | |
| `source` | `synchronize` is current | 621 thousand |
| `source_removed` | *finding* | |

Deadlock checking is off where a system really stops: the pool, the joins and an
open end, and bounded histories and journals run out of edits. `source`,
`documents` and `queries` check it.

## Findings

Four places where the code does not do what its documentation or an assertion in
it says; the violation runs show each.

- **A task that panics strands the caller** (`pool_panics`). Nothing in
  `work_on` runs when a task unwinds: `busy` stays raised, and the caller waits
  for a phase that cannot end. The contract in `parallel.rs` says no thread
  waits on work no thread is doing, and that a panic is resumed.
- **A refused undo can reorder children** (`undo_refused`). A guarded step that
  lists a child name does not ask whether the name is listed already. Where
  another tool has put a prim under the name, it is listed twice until the next
  step is found stale, and rolling back removes the first place of the name,
  which may be the other tool's. `Transaction` says that it leaves every layer
  exactly as it was. `undo` checks what does hold: every spec, its field and how
  often each child is listed stay (`RefusalKeepsContent`).
- **Inactive prims outlive a resync in the transform cache** (`queries_inactive`).
  `apply_changes` retires what `Stage::traverse` yields below a resynced root, and
  that is active prims; `local_to_world` caches inactive ones too. When the parent
  is resynced its slot is retired and an inactive child keeps its link to it. At
  the next poll the child answers its old world; once the epoch has moved, say by a
  change of time, the walk follows the link into
  `unreachable!("live nodes never link to retired slots")`, or, where the slot was
  reused, composes with an unrelated prim. Likewise a prim deactivated and given
  another transform in one edit keeps its old world, and `AnswersAreCurrent` fails
  under the same configuration. The filter by namespace that takes over from a walk
  longer than the cache retires such prims, and `Stage::traverse_all` would visit
  them.
- **A removed layer's generations can repeat** (`source_removed`).
  `remove_layer` keeps none, so another layer under the id may come with the
  generations a stage saw, and the stage keeps the old content.
  `insert_layer` says generations never repeat in one store. In `source` the
  host does not put another layer in a removed one's place.

## Proofs

The theorems hold for every value of the constants, that is any number of observers,
subscribers, workers and callers, any budgets, sizes, tasks and paths. They rest on
the named ASSUMEs of the modules. Six have a hypothesis besides, of what the host
does: the two of `SourceSync_proofs` that it puts no other layer in a removed one's
place (`ReplacesRemoved = FALSE`; `source_removed` shows that they need it), the
three of `RetainedQueries_proofs` that it polls no query of an inactive prim
(`PollsInactive = FALSE`; `queries_inactive`), and `StaleNeedsOutsideEdit` that it
does not unwind (`MayUnwind = FALSE`; see *Transactions and undo*).

| Module | Theorem | Of every behaviour |
|---|---|---|
| `StageJournal_proofs` | `CursorsMissNothing` | `RepliesComplete` |
| | `NoFalseAlarm` | `ExpiryMeansLoss` |
| | `ExpiredUntilRead` | `ExpiryIsForGood` |
| | `JournalKeepsTypes` | `TypeOK` of `StageJournal` |
| | `SubscribersMissNothing` | `SubscribersHearEveryReport` |
| | `TokensNameOneCallback` | `TokensNameTheirCallback` |
| `ThreadPool_proofs` | `BudgetNeverLeaks` | `BudgetBalances` |
| | `PoolKnowsItsWorkers` | `WorkersCounted` |
| | `WorkIsClaimed` | `WorkOnlyOnClaimedThreads` |
| | `PoolKeepsTypes` | `TypeOK` of `ThreadPool` |
| | `NoTaskIsStranded` | `PendingIsAttended` |
| | `NoCallerIsStranded` | `CallerIsNotStranded` |
| | `RunsLeaveNothing` | `NothingLeftBetweenRuns` |
| | `PoolKeepsItsPromise` | `KeepsPromise`: implements `TaskPhases` |
| `SourceSync_proofs` | `SyncKeepsTypes` | `TypeOK` of `SourceSync` |
| | `SynchronizingIsEnough` | `SynchronizeIsCurrent` |
| `ForkJoin_proofs` | `JoinsKeepTypes` | `TypeOK` of `ForkJoin` |
| | `EachBRunsOnce` | `BRunsOnce` |
| | `ClaimsCoverJobs` | `ClaimCoversJob` |
| `UndoHistory_proofs` | `LimitKept` | `BoundKept` |
| | `StepsKeepTheirOrder` | `StepsAreUnique` |
| | `UndoKeepsTypes` | `TypeOK` of `UndoHistory` |
| | `RefusalsTakeNothing` | `RefusalKeepsContent` |
| | `SpecsStayATree` | `TreeIntact` |
| | `StaleNeedsOutsideEdit` | `StaleMeansOutsideEdit`, if `~MayUnwind` |
| | `NothingIsStaleAlone` | `NothingStaleAlone` |
| | `HistoryIsALine` | `IsLinear`: implements `LinearHistory` |
| | `OthersKeepTheirs` | `OutsideEditsSurvive` |
| | `MarksAreReached` | `UnwindReachesMark` |
| `Documents_proofs` | `DocumentTypes` | `TypeOK` of `Documents` |
| | `FilesStayWhole` | `FilesAreWhole` |
| | `FreshnessIsTrue` | `FreshMeansSame` |
| | `CleanIsStored` | `CleanMeansStored` |
| | `EditsStay` | `EditsAreKept` |
| | `ReloadsAreCurrent` | `ReloadIsCurrent` |
| `RetainedQueries_proofs` | `ArenaStaysLinked` | `ArenaOK`, if `~PollsInactive` |
| | `PollsAnswerTheScene` | `AnswersAreCurrent`, if `~PollsInactive` |
| | `PollsSayWhy` | `ChangesAreExplained`, if `~PollsInactive` |

**Cursors.** `RepliesComplete` is not inductive: that the last `n` retained
reports are the unread ones says nothing of what an eviction will leave. The
invariant `IInv` is

- `EvidenceTypes`: the evidence has its types and a cursor a natural revision;
- `NewestOf(reports, revision)`: the retained reports are the newest ones, the
  consecutive revisions that end at `revision`, and the floor is in front of
  them;
- while nothing is retained for cursors (`enabled` false), no report is there;
- `CursorsCovered`: who holds a cursor of this stage has switched retention on,
  is not ahead of `revision` and, unless below the floor, has every report not
  read yet among the retained (`Covers`).

Of sequences and budgets it needs that some suffix fits every budget and the
one chosen does (`NewestFits`), and what a suffix consists of
(`SuffixElements`); the other users of a history prove the same for themselves.
`StageJournal_proofs` lifts this to histories:
evicting keeps the newest and announces what it takes (`EvictKeepsNewest`), a
batch not retained takes all evidence along and says so (`DiscardIsAnnounced`),
`SetBudget`, `Record` and `RecordWith` preserve `NewestOf` and `Covers`, and none
of them lowers the floor (`...RaisesFloor`), which is why expiry is for good.

**Subscriptions.** `SInv` adds to the two properties that every id, of a callback
or kept in a token, is older than the next one, and that no callback is
registered since a revision to come. The removal of the first match is shown to
leave only callbacks that were there (`UnsubscribeKeepsOthers`).

**Pool.** The three counts are proved together (`CInv`): a worker that is not
started holds no thread, or an accepted job could be counted twice. Most steps
are `Quiet`: they claim, start and put to work nobody; the five that are not
(`WorkerTakesStep`, `WorkerIdlesStep`, `ReserveStep`, `JobAcceptedStep`,
`JobRefusedStep`) each move one thread from one set to another.

What a thread does with its tasks is `WInv`: to the counts it adds the types,
that a thread has in hand only what its place allows (`Tidy`: nothing away from
its tasks, no task in progress between tasks), and that `busy` is the number of
threads at their tasks (`BusyCounted`). With it, `PendingIsAttended` is
inductive: tasks are only added by a thread at its tasks, and a thread that
stops attending either leaves nothing pending or hands over to one that attends.
So is `CallerIsNotStranded`: the caller waits only while somebody is busy, and
the last to stop being busy notifies. `RunsLeaveNothing` needs the caller to
leave a run only when `busy` is zero and nothing is pending, and that then
nobody has anything in hand (`NobodyIsBusy`); the results it takes with it
(`Idle`).

That the pool implements `TaskPhases` follows from where tasks are. `Apart`: a
task waits in one place at most (pending, in one thread's hands, added by the
task in progress, or yet to add), and not once it is begun. `Accounted`: what
waits is of the run in progress or was added by a task begun, and all such tasks
wait or are begun. `Recorded`: a task begun is in progress on one thread or was
done once, and then its result is with a thread, recorded or returned. Steps
that only move tasks about keep these by a few lemmas on sequences, and are
stutters of `TaskPhases`; the others are its `Run`s, `Begin`s, `Do`s and
`Return`s. `TreesAssumption` says that the trees of tasks do not share: a task is
a value that is moved into the pool, by one `run` or one task, once.

**Joins.** The invariant says where a caller's `b` is: waiting, with the caller,
with the job, or done, and what each means for the job and the caller's place
(`WhereBIs`); the budget is what is left and the callers between claim and return.

**Undo.** Distinct steps are proved from their order: `HInv` says that the undo
steps and then the redo steps, the last one first, were recorded in that order,
before `nextId`, so a step that moves between the stacks stays in its place. It
needs what the code nowhere states of a group (`GroupOpen`): recorded edits of a
group mean that the group is open and that nothing is left to redo, since
`end_group` pushes its step without clearing the redo stack; and levels begin
where edits were recorded (`Nested`), so that abandoning one keeps the rest.

What transactions do to a layer is in `LayerEdits_proofs`, which
`UndoHistory_proofs` EXTENDS. What a refusal leaves is proved from the storage
step up. One step and the step
undoing it give the layer back but for the order of children
(`UndoingTakesBack`): a removed name comes back at its place, but a listed one is
taken from the first place that has it, which need not be where it went, so lists
are compared by how often they have each name (`Times`). A step does not tell
such layers apart, and leaves them such (`StepsRespectSame`). So a journal's
invariant `JournalsOver(l)` says that there is a trace of layers from `l` to the
journal's, each step with the layer before it and the layer after (`Did`), and
rolling back walks the trace from its end (`RollingBack`). Every edit keeps a
journal over its layer, whatever it finds there (`CreatePrimIsOver` and the
others, `ApplyOpIsOver`), hence every transaction does (`ApplyIs`).
Transactions, rollback and `FlattenSeq` are folds, and the induction over their
length goes through sets of naturals (`NatSet`, `TraceStays`) and the existence
of a trace (`TraceExists`).

That the specs stay a tree needs to know what an inverse is, since it is applied to
a layer that others have edited meanwhile, and its guards ask for nothing but the
slots it writes. A list of steps that all fit need not keep the tree: a prim taken
out while it is still listed is one such step. `Parts` are the lists that do: a
field written, or a *branch*, that is a prim and all beneath it as they were in one
layer, with the name it goes by in the list above, all of it taken up or all of it
taken down (`BranchPart`). The steps of a branch come in one order from
`remove_subtree` and in another from its inverse, so the definition leaves their
order open. What makes a part safe is that all of its guards are met: a branch that
comes up finds none of its paths taken (`BranchUp`), and one that goes down finds at
each path what it had, its list of children included, so that nobody else's prim is
beneath (`BranchDown`). `Grown` has the lists made of parts. Edits of hosts add such
to a journal (`InsertGrows`, `EnsureGrows`, `RemoveGrows`), which reversed
(`GrownReverse`) and undone (`UndidPart`, `GrownUndid`) is of parts again; and a
transaction of either kind keeps a tree and has such an inverse (`ApplyGrows`). A
refused one leaves the layer but for the order of children, hence a tree
(`SameIsATree`).

`TInv` says that the layer is a tree and that the stacks hold inverses made of
parts, with at least one step (`Inverses`). This needs that
the inverse of an accepted inverse has as many steps (`ApplyIs` again), since a
step undone goes to the other stack without being asked (`TurnedIs`); and that a
group that recorded something is owed an id (`Counted`). The assumptions used are
that transactions are sequences of edits at paths of the layer
(`TransactionsAssumption`), that a path's ancestors are paths
(`PathsAssumption`), and that `None` is not among the values, the specs and the
positions it stands beside (`NoneAssumption`).

That nothing is stale, and that undo and redo move along a line, need more of an
inverse than its parts: that it leads exactly back. `Leads(l, txn, m)` says that
every step of `txn` is met on the way from `l` and that the way ends in `m`; a
transaction that leads somewhere is accepted and gets there (`LeadsIsApplied`).
An accepted transaction's inverse leads from the layer it left to the one it
found, child order included, because each edit undoes its own steps at once or
after steps that do not touch its lists (`HostEditsAlong`, `JournalLeadsBack`),
and the inverse of an inverse leads forth again (`InverseLeadsBack`). The
invariant `AInv` then says that as long as the history is alone both stacks and
the group stand on chains of layers (`Stands`): the redo steps lead up from the
layer, the group down to where it began, and the undo steps down from there
(`Links`). `AInv` speaks of the chains and not of the view that `UndoLine`
reads off the stacks, which would have to be computed by applying; that the view
is these chains is `ViewIs`, by `ReachedIs`. What each operation does to the
chains is one lemma (`EditOnLine`, `TurnLinks` for undo and redo, `CombineLeads`
for a group that becomes one step, `PushOnLine` with the limit), and each then is
the step of `LinearHistory` it should be. Once somebody else edited or a mark was
taken, `Alone` is false for good (`NextIsAlone`), so nothing need be said then.

That the history leaves alone what others wrote is for the layers `Alone` says
nothing of. An inverse is then applied to a layer it was not made for, and all
that is known is that its guards were met. `Undoes` says why that is enough:
from any layer an inverse leads from, the slots it changes are ones its
transaction changed, and it finds in them what the transaction left. The journal's
trace and the inverse's are walked side by side for this (`InverseUndoes`): a step
that undoes another one brings what that one took, and takes what it brought
(`StepUndoes`). `Loses(l, m, own)` says that from `l` to `m` no slot lost content
that is not among `own`, and `Owned(own)` are the inverses that lose nothing else
wherever they lead. So an inverse is owned as soon as what its transaction left is
noted (`InverseIsOwned`), stays so as more is noted (`OwnedMore`), and so do
inverses joined into one step (`OwnedCombine`). `OInv` says that both stacks and
the group hold owned inverses. A rollback changes only the order of
children, which is content of no slot (`SameContent`).

Unwinding to a mark joins the two. The steps under a mark may have gone to the
redo stack and come back, others may have been pushed above and taken away, the
oldest dropped; refusals in between may have changed the order of children, which
the guard of a spec's step compares. So `Goes(l, txn, m)` follows a transaction's
steps without their guards: it is what an accepted transaction does
(`AppliedGoes`) and its inverse undoes (`InverseGoes`), there is one way only
(`GoesAgree`), and over a layer that differs in order it comes to one that differs
in order (`GoesSame`). `Arrives(l, txn, m)` is that wherever `txn` goes from `l`,
it comes to `m` but for the order. `Rests(ids, u, r, d, k)` says that the ids a
mark stood on, `d` of them dropped, are those of the first `k` steps, up the undo
stack and on down the redo stack, and `Way` what would have to be applied to stand
on them: the open group and the steps above them, or the redo steps missing. The
invariant `KInv` says of every mark of this epoch that whenever its steps rest so,
the way to them arrives at its layer (`Comes`), as long as nobody else edited. A
pushed step, a turned one, an abandoned group and an unwinding each extend or
shorten the way (`PushedComes`, `UndoneComes`, `RedoneComes`, `GroupedComes`,
`AbandonedComes`, `UnwoundComes`). That the steps rest nowhere else needs their
ids: no step there is older than the mark and not one of its own (`Numbered`), so
a step that takes another's place is younger than the mark's top (`NoneBetween`).

**Documents.** `IInv` has four parts. `SaveOK` says what the candidate holds at
each step of a write, so that only a whole one is renamed. `DocumentOK` says of
the records: none is newer than its file (`file` only grows, `FileGrows`), one
that matches its file is of the content the layer has, and a clean layer's
content was in its file. `ReloadOK` says the same of what a reload has
prepared, and of each layer it has passed over, why: its record was true when it
was compared. Other programs write at any point of this, so each part is first
shown to survive a write (`RecordsSurviveWrite`, `ReloadSurvivesWrite`), and then
each action of the document is taken once.

**Sources.** `SynchronizeIsCurrent` says what would be, so its invariant says why:
`Traced` has, of the slots where the stage and the layer differ, that each is marked
to be recomposed; or is a prim's opinion, while the structure's generation is the
one seen; or is named by the evidence, if that reaches back to what was seen. That
is what the two ways of `notify_changed_layers` rely on. It holds because the
evidence is the layer's last batches without a hole (`UpTo` in `LayerInv`), whatever
was evicted: an edit's batch joins at the end (`AppendTells`), an eviction takes
from the front, and the floor tells of it (`SuffixTells`). A layer that replaces
another, or comes back after a release, continues the generations and is ahead of
all the stage saw (`Continued`), so it reads as changed; one that was removed may
only come back as it was, or edited, and `Home` is where it is meanwhile. The
recompositions with a smaller scope are shown to leave what a full rebuild would.
`PathsAssumption` only keeps the marker of a batch that names no paths apart from
the paths.

**Queries.** An answer is given from what several earlier scenes left, so the
invariant has to say in which scene the cache is right when it is not the one
there is. `IInv` says that there is a scene, the one last consumed, in which the
cache is right (`CacheOK`) and every clean query holds the answer and its
dependencies (`QueryOK`), and that the reports newer than the cursor account for
what differs in the scene there is (`Accounted`), unless one was evicted: then the
cursor is below the floor and the view starts anew. No report is looked at in the
scene it was made in. So `Accounted` is of all of them together: a prim that is
gone was removed by one of them, one that differs lies under a resync or among the
properties of one, one that became active lies under a resync, and what was beneath
a removed prim was removed too.

`CacheOK(c, s)` has the arena (`Arena`, with `Slots`: each slot is of one path or
free), that what is cached is in the scene, and of each active prim's node its link
(`Linked`) and three things. A local that is held
is what is authored, or is late: it depends on the time and is older than it
(`LocalOK`). A world that is held is the product of the locals on its chain
(`Sound`), or was overtaken: some node on the chain, with all nodes below it still
cached, has a stamp newer than the world's (`Broken`). One validated at this epoch is
right, and so is everything above it (`Valid`). `Broken` is the reason a walk never
takes an old product for a new one: it finds that node and passes its stamp down.
That the nodes below are still cached is needed, since retirement drops what a
chain was built over and a slot may come back for another prim. Of an inactive
prim nothing more is said. None is on the chain of an active one, so no walk from a
prim that may be polled meets what a resync left of it.

A walk up ensures locals and links and ends at a valid world, a reset or the root
(`WalkUpOK`); the walk down makes each passed world right; together, `LookedUp`: a
cache right in a scene stays so and answers `WorldTransform`. What a query then
depends on is its chain (`DependenciesAre`). Consuming reports only ever takes
things away: `Aged` relates a cache to what retirement and invalidation leave of it,
and `Applied` adds which reports took what, for sets of removed paths, resynced
roots and properties of any size (`ChangesApplied`, `AppliedMore`). A resync is
applied to the scene as it is now, so it may miss cached prims below a root when
they are gone from the scene, which the reports that removed them take, or inactive
in it, of which nothing need be right (`AppliedFits`). One that was inactive in the
scene consumed and is active now has been activated by a resync, which finds it.
Then `FitsOK`: a cache right in the consumed scene, less what was taken, is right in
the scene there is. A query that no report concerns depends on no prim that differs,
so its answer stays (`QueryUntold`); the others are dirty for a reason other than
time (`Marked`). `set_time` at the last epoch clears the cache, otherwise it makes
the time's locals late and nothing valid (`TimeSet`).

`PrimsAssumption` says that a stage has finitely many prims, each with its
ancestors; `SpecsAssumption` that a prim that is there is not like one that is
not; `EpochAssumption` and `HostAssumption` that the epoch has a largest value, that
a query keeps at least one cause, and that no time is taken for the mark of a value
that has none (`Always`).

Only model-checked, and why:

- `PoolEnds` and `JoinsReturn`: liveness under fairness, which the prover does
  not do.
- `SameAsOneThread`: its two readers are recursive over the graph of sources.

## Plan

1. *Done*: notices, pool, joins, undo, source synchronization; documents and
   their files; retained queries and the transform cache; parallel opening.
2. *Done*: theorems of every invariant and action property the runs check,
   but for the one of parallel opening.
3. Not begun: the child index and dependency discovery as further readers of
   `LayerGenerations`; the opinion algebra as functions against reference
   definitions; the journal's child-name cache, variants and preconditions in
   `LayerEdits`; several layers in `SourceSync`; the interning tables.

## Not modelled

The composition engine, value resolution, geometry and schemas are pure
computation, which the repository tests against OpenUSD; parsers and writers
are tested by round trips there. Bindings, viewers, generators and examples add
no state of their own beyond what they wrap. A callback that panics in `publish`
leaves later callbacks uncalled; the models stop short of that, as the code
gives no promise for it. Muting, population masks, load rules, relocations,
several layers at once, dynamic payloads and the store's snapshots are outside
`SourceSync` for now, and so are bound and shading queries outside
`RetainedQueries`, whose answers are geometry.

Most of the source is of these kinds: the two formats' readers and writers,
generated schema views, bindings, numeric geometry, composition's rules, and
tests make up all but a small part of its lines. The models cover the part that
keeps state between calls or runs on several threads; they name a few thousand
lines of it, and could not name most of the rest without repeating a program
that has no order of steps to get wrong.
