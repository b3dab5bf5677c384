# ash-rust in TLA+

ash-rust is a resource framework: an application declares resources (attributes,
identities, relationships, actions, policies) and the engine in `ash-core` runs
their actions on a data layer (`ash-memory`, `ash-postgres`, `ash-sqlite`), tells
notifiers what was written, and serves it over GraphQL and a generated TypeScript
client. This directory holds TLA+ modules for the parts of it where steps of
several actors, failures or long call sequences decide what is correct, the TLC
configurations that check them on small instances, and TLAPS proofs about them.

    tlc -workers 2 -config MCMemoryStore.cfg MCMemoryStore.tla
    tlapm MemoryStoreProofs.tla

Paths below are relative to `src/crates/`.

## 1. Inventory

Each entry: the state the component keeps, its operations, what is hard, and what
makes it correct. `PROJECT.json` lists the hazards at their lines.

**ash-memory data layer** (`ash-memory/src/lib.rs`). A map of tables, each a map
from primary key to row, behind one `RwLock`; every data layer call takes the
lock once. Operations: `create`, `bulk_create`, `update`, `update_atomic`,
`upsert`, `destroy`, `bulk_destroy`, `destroy_atomic`, queries and aggregates,
and `Memory::transaction`, which copies the tables, runs a closure on a private
`Memory` and merges what changed. Hard: commits beside direct writes, transactions
in transactions, identities checked on a snapshot, a bulk create that stops half
way, an upsert that rewrites a key. Correct when no acknowledged update is lost,
identities are unique, and a commit nobody wrote beside is exact.

**Optimistic locks** (`ash-core/src/engine/lock.rs`, `engine/atomic.rs`). No state
of their own: a lock attribute on the record, a copy in every caller. An update is
planned into one guarded statement (`persist_atomically`), or, with a hook, written
under a guard (`update_guarded`); a soft destroy is an update; a hard destroy checks
the lock, destroys related records, and deletes under the lock. Where the data
layer has no single-statement update, the guard is a read and the write follows.
Hard: all those paths racing on one record over layers that differ in what one
statement, one transaction and one connection give. Correct when the record moves
one write at a time, and each failure says what is so.

**Transactions and notifications** (`ash-core/src/context.rs`, `multi.rs`,
`notifier.rs`). A context carries a connection and, maybe, a notification queue.
`Context::transaction`, `Context::atomically`, `Multi::execute` and
`execute_without_transaction` open scopes that nest; the scope that made the queue
sends it. Hard: who owns the queue, what a savepoint undoes, crashes between
commit and send. Correct when what is sent is committed, once and in order, and
what is committed is sent.

**Changeset lifecycle** (`ash-core/src/changeset/dynamic.rs`, `changeset.rs`,
`engine/lifecycle.rs`). A changeset is prepared (defaults, validations, policies),
persisted, finished (managed relationships, after hooks, notification); a create
that fails to finish is undone. Hard: a failure after the write. Correct when a
failed action leaves nothing behind where the layer can promise it.

**Cascading destroys and managed relationships** (`ash-core/src/engine/managed.rs`).
No state; many data layer calls in one action. Hard: related records written by
others meanwhile. Correct when related records go with their record.

**Bulk actions** (`ash-core/src/bulk.rs`). A stream of rows in batches; the whole
action, each batch, or nothing is a transaction, as the options ask and the layer can
give. Rows are refused, prepared, persisted, finished or undone, and a batch settled:
hooks told, rows counted. Hard: a failure at any row or commit with the action going
on after it, stale rows left out, related records written for rows that then fail.
Correct when the result, the hooks, the notifications and the database agree.

**ash-postgres, ash-sqlite** (`ash-postgres/src/lib.rs`, `ash-sqlite/src/lib.rs`).
A pool of connections, one of them bound to a transaction's context; savepoints for
nested transactions. Hard: cancelled futures, commits that fail, lock waits, WAL.
Correct when a connection goes back to the pool outside any transaction.

**State machines** (`ash-state-machine/src`). A transition is checked in the
statement that writes it, or on a copy where the action runs record by record.
Correct when every write follows an edge of the machine.

**Migrator** (`ash-sql/src/migrator.rs`; its executors in `ash-postgres` and
`ash-sqlite`). A directory of scripts, a table of the versions applied, a lock of the
process, one of the directory, and the database's. Operations: `run`, `rollback`,
`rollback_to`. Hard: two migrators reading what is pending and applying it, on one
host or on two, with other scripts; a crash between a script and its record. Correct
when a script is in effect exactly while its version is recorded, and the history
grows and shrinks from its end.

**Live lists** (`ash-typescript/src/live.rs`). A generated client's list, its reads
in flight, three subscriptions on one WebSocket. Hard: events and reads overtaking
each other, connections lost, subscriptions ended. Correct when the list is the
server's once nothing is on its way, and gets there.

**Shared subscription streams** (`ash-graphql/src/ws.rs`, `subscription.rs`). A hub
of executions, each shared by the subscriptions with one key. Hard: joining a stream
that ends, leaving one another joins, an abort racing an end, falling behind. Correct
when there is one execution while somebody shares it, and each subscriber hears every
event or that it missed some.

**PubSub** (`ash-pubsub`): broadcast channels; a lagging subscriber loses events and
is told. Modelled as the channel `SharedStreams` reads. **Policies, filters, queries** (`ash-core/src/policy.rs`, `filter.rs`,
`pipeline.rs`, `engine/read.rs`, ...): functions of a request and a table.
**SQL compiler, diff, generator** (`ash-sql`), **macros**, **GraphQL API**,
**TypeScript generator and RPC**, **archival**, **authentication and mailer**,
**cargo-ash**: text, compile-time expansion, or single engine calls; they hold no
state that steps of several actors disagree about.

How they meet: an API calls an action; the action's changeset is prepared, then
persisted by calls on the data layer, in a scope that may be a transaction; the
write's notification joins the scope's queue or goes to notifiers at once; PubSub
carries it to GraphQL subscriptions and from there to live lists.

## 2. Modules

| Module | What it is |
|---|---|
| `MemoryStore` | the Memory data layer's writing calls and snapshot transactions |
| `MemoryStoreProofs` | theorems about `MemoryStore` |
| `VersionedRecord` | what an optimistic lock promises of one record (abstract) |
| `OptimisticLock` | the engine's write paths on one locked record; `INSTANCE`s `VersionedRecord` |
| `OptimisticLockProofs` | theorems about `OptimisticLock`, and that it implements `VersionedRecord` |
| `Notifications` | scopes, queues and transactions of one task |
| `NotificationsProofs` | theorems about `Notifications` |
| `BulkAction` | one bulk create, update or destroy, under every option |
| `BulkActionProofs` | theorems about `BulkAction` |
| `SchemaHistory` | what migrators promise of a database's history (abstract) |
| `Migrator` | migrators of one database; `INSTANCE`s `SchemaHistory` |
| `MigratorProofs` | theorems about `Migrator`, and that it implements `SchemaHistory` |
| `Feed` | what a subscription promises its subscriber (abstract) |
| `SharedStreams` | subscriptions that share an execution; `INSTANCE`s `Feed` |
| `SharedStreamsProofs` | theorems about `SharedStreams`, and that it implements `Feed` |
| `LiveQuery` | a client's live list on three subscriptions |
| `LiveQueryProofs` | theorems about `LiveQuery` |
| `MC...` | values of the constants for TLC |

### MemoryStore

`tables[s]` is the table of store `s`: `Root`, the shared `Memory`, or a
transaction's private one. `snap[t]` is the copy `Memory::transaction` took,
`parent[t]` the store it was called on, `status[t]` where the call is. One action
per data layer call, one step each, as each takes the lock once; `Begin`,
`Commit`, `CommitConflicts` and `Abort` are the parts of `Memory::transaction`.
A call that returns an error and writes nothing is no step; `bulk_create`, which
may store its first rows and then fail, is one. `incs` and `reset` are history:
which increments were acknowledged, and which rows were replaced.

A row is abstracted to its primary key *field*, the columns of its identities, and
a counter for everything else; key and field are kept apart because `upsert` can
make them differ. Left out: tenants and partial identities (`where:`) - both
restrict which rows an identity's check looks at - queries, aggregates, and what
`update_atomic` would do to several rows in one call, which the engine never asks of it:
its queries are by primary key. `UpdateAtomic` writes one row
when several share an id field; which one is left open. Keys are integers, so
`AssignKey` is the code's maximum plus one.

### OptimisticLock

One record (`record`: version, value, archived), the records related to it
(`related`), and any number of callers, each with the copy it read. `pc` is where
an attempt is; each action is one data layer call and the code around it:
`UpdateAtomically`, `Archive` (`persist_atomically`); `Unchanged`
(`Guards::unchanged`); `UpdateGuarded`, `CheckUpdate`/`UpdateChecked`
(`update_guarded` and its check-then-write form); `StaleOrMissing`; `CheckLock`,
`FindRelated`, `DestroyRelated`, `DestroyGuarded`, `CheckDestroy`/`DestroyChecked`
(a hard destroy); `FinishArchive`; `BreakOff` (the database ends a ring of lock
waits). `layer` says what the data layer can do: write in one statement
(`atomic`), raise from within it (`raises`), run a transaction (`transacts`), and
whether it has a single connection (`exclusive`). A transaction's uncommitted
writes are kept per caller (`archives`, `removed`), and are row locks for others.
What a planned update writes (`Planned`) is what the code has it set: the values
computed on the caller's copy, outright, and only the lock's version from the stored
row (`atomic.rs:383`); which record it writes is its guard's to say (`Selected`).

Left out: one level of related records stands for a cascade; nullify and restrict;
a create after a delete (the record never comes back); a SQLite *file*, whose pool
of five connections in WAL mode behaves otherwise than the single connection of
`connect` modelled here. On `atomic` layers `destroy_guarded` is one statement.

### Notifications

One task and its stack of scopes. A scope says which queue its context has, whether
it made it, whether it opened a transaction or savepoint, and where in the
transaction it began. `Open`, `Close` and `Fail` are a scope's start, its Ok and
its error; `Persist`, `Dispatch`, `FailAfterWrite` and `FailBeforeWrite` an action
in it; `CommitFails` a refused commit; `Deliver` one notification of a queue being
sent; `Crash` the process dying and a new one starting. `Inside` says which program
is run - which scopes it opens in which - and `Swallowed` the errors its code goes
on after, so one module serves programs that use only what the documents describe
and ones that nest a Multi in a transaction. `Aborts` says that a statement that fails
aborts its transaction, as on Postgres: from then on (`aborted`) it takes no write and no
savepoint; a savepoint opened before can only be rolled back to, which ends it; and its
COMMIT rolls back and returns Ok. `dropped` is history: what such a COMMIT rolled back.

One task is enough for what is claimed: a queue belongs to one context and is
reached by no other task. Notifiers' own failures are discarded
by the code, so `Deliver` has no failing branch. `broken` is history: what was written
in a scope whose caller is promised all or nothing (`Promises`) and which failed.

### BulkAction

One call, from its options to its `BulkResult`; `at` is where it is and `next` the row
it is at. `Refuse`, `PrepareFails`, `PrepareRow` are `prepare`'s outcomes, `OpenBatch`
`in_batch`; `Relate` and what follows it the lock checks and cascades before a plain
destroy; `WriteTogether`, `TogetherFails` a batch in one statement; `WriteRow`,
`RowIsStale`, `RowFails`, `LeftOut` one row at a time; `FinishRow`, `FinishFails`,
`ChildIsStale`, `FinishStale`, `FinishFailed` are `finish_rows`; `Settle`,
`CommitFails`, `Return`, `WholeFails` the end of a batch and of the action. `Failed` is
what an error does under each of the options, `FailsWith` what it leaves of a row.
Others' writes appear as a row or a managed record found stale. `Notifications` has a
bulk action's batches as transactions in the scopes around it; here they are opened up.
A managed record's planned update that finds its record stale raises that from its
statement, which on Postgres aborts the transaction (`raised`, `Aborted`): nothing more is
written in it, rows already through are finished and counted, and `CommitOf` puts them
back (`dropped`). A whole action that fails counts every id it was given as an error,
found or not: `Absent` is how many more there may be.

Left out: the rows' values and the identities they might clash in (any row may fail),
and an upsert that skips a row.

### Migrator

`call[m]` is a caller's call and how far it is: waiting for `PROCESS_LOCK`
(`LockProcess`) and for `.ash.lock` (`LockFile`), reading (`LookAtTarget`,
`LookForPending`, `LookForLatest`), and in the executor: `Begin` and `Decline` are the
guard of `apply_migration` and `revert_migration`, under the database's lock where the
executor has a transaction; `Commit`, or `RunScript` and `Record` where it has the
trait's own two calls. `GiveUp`, `CommitUnheard`, `ScriptBreaks`, `RecordFails` and
`Crash` are its failures. `effect` counts how often a version's script is in effect;
`torn` is history: versions whose script ran and whose record failed; `undone` is
history: what others rolled back since a call last looked.

An executor with the trait's own calls is modelled where the two locks keep its
migrators apart (`OneLock`): with more than one host or directory nothing does, and the
trait's documentation leaves it to the executor. Left out: creating the tracking table
(`IF NOT EXISTS`; where two race, one fails as in `GiveUp`), the foreign key pragma
around a SQLite script, a call whose future is dropped half way.

### SharedStreams

One key of the hub. `current` is the hub's entry, `phase[g]` where `run_shared` of
stream `g` is, `place[s]` where a subscriber's task is; an action is what a task does
between two awaits or two uses of the hub's lock. `Join`, `Leave` and `Ended` are the
hub's methods; `Start`, `Forward`, `Overtaken`, `Refuse`, `Cancel`, `Finish` the
stream's task; `Take`, `Lag`, `Quit`, `Complete` the subscriber's. Both channels are
positions in what was published and sent, and overrun at `PubSubBuffer` and
`SharedBuffer`. An abort stops a task at its next await, so what it is doing meanwhile
goes on: `aborted`. A resolver that panics is outside the model: it takes `run_shared`
with it before `Hub::ended`, and the hub keeps the entry and a sender to a channel nobody
sends to, so who joins it hears nothing.

### LiveQuery

The server is its `log` of changes; a read sees a prefix of it (`ListAt`), and a change
is published after its commit, perhaps in another order. `Refresh`, `Resync` and
`Placed` are the client's ways to read again, `Upsert` and `TakeOut` what it does with
a frame, `Acknowledge`, `Restart`, `Drop`, `End` its connection and subscriptions. Each
subscription is a `Feed`: it brings the events published while it is live, in order,
until it ends. Three kinds of list: a page, one whose filter and sort the client can
evaluate, one it cannot. `base`, `failed`, `heard`, `after` and `unread` are history.

A change says where the record it leaves is to this list: in it, outside its filter, or
hidden from its client by a policy, the tenant or a read that leaves out the archived.
`Tells` is what a subscription lets through. An upsert of a stored record is published as
`Create` (`dynamic.rs:752`, `:820`), to the created subscription alone and through the
list's filter; `Commit` has it as a `created` change of a key that exists. A created record
hidden from the client is one outside the filter, a hidden destroy a hidden update: to the
client they are the same. Left out: sort order (a record has a place or none), a key
created again after its destruction; `AshSubscriptionClient.close()`, after which nothing
reconnects, and a `refresh()` the application calls.

## 3. Runs

| Run | Result | What it shows |
|---|---|---|
| `memory_store` | holds | no lost increment, identities unique up to a commit, uncontended commits exact |
| `memory_identities` | violation | a commit brings in an identity clash |
| `memory_upsert` | violation | an upsert on one identity writes another's columns unchecked |
| `optimistic_lock` | holds | locked writes, true failures, cascades together with their record, every attempt returns |
| `stale_cascade` | violation | without transactions a stale destroy has taken related records |
| `notifications` | holds | sent is committed (or an aborted transaction's), once, in order; committed is sent; what fails is undone |
| `multi_in_transaction` | violation | a Multi in a transaction sends before the commit |
| `batch_in_multi` | violation | a failed batch's notifications are sent by its Multi |
| `bulk_action` | holds | result, hooks, notifications and database agree, whatever fails |
| `migrator` | holds | scripts are in effect while recorded; the history is `SchemaHistory`'s; calls return |
| `shared_streams` | holds | one execution while shared; each subscriber has its `Feed`; events are heard |
| `live_query` | holds | a settled list is the server's, and lists settle |

**Properties.** `TypeOK` in each module is its type invariant; in `OptimisticLock` it
also says only open transactions hold rows. `NoLostIncrement` compares each live
store with its starting point plus every acknowledged increment, those of committed
transactions included. `UniqueUntilCommit` is identity uniqueness for one store,
whatever its calls, as long as no transaction was committed into it and upserts
write no other identity's columns - the two exceptions are the two violations.
`UncontendedCommitIsExact` is about a commit's two loops. `LockedWritesOnly` is
`VersionedRecord`'s step relation as an action property of every path, on layers
with single-statement writes: every path writes what was computed on a copy, so a guard
or a selection that let a record through which moved on would lose an update.
`CopiesTrail` is the invariant that makes it so. On a layer that checks and then writes the
update is lost, as the code has it, and no property says otherwise.
`FailuresAreTrue`, `RelatedGoWithTheRecord` and `AttemptsReturn` are about what a
caller is told, what a transaction makes visible, and that every attempt ends.
`SentIsCommitted`, `SentInOrder` and `CommittedIsSent` are what the documents
promise of notifications; `CommittedIsSent` excuses by name what the code gives up:
an action that failed after its write, a pipeline that failed, a crash. `SentIsCommitted`
names one exception (`dropped`), below.
`FailedIsUndone`: a failed transaction, Multi or self-contained atomic action leaves no
write and notifies nobody, whatever its caller does next - but an action whose context
already has a queue is taken to be in a transaction, which a pipeline without one is not.

`WholeIsAllOrNothing`, `CountIsStored`, `Accounted` and `HooksHear` compare a bulk
action's answer with what it left, row by row; `ScriptsAreRecorded` does so for a
migration's script and its record, excusing versions torn, which an executor with a
transaction never has. `RunMissesNothing` is what a `run` relies on having read once:
each of its scripts is applied, still ahead, or undone by somebody else since.
`TargetIsKept` bounds what `rollback_to` undoes. `HistoryIsKept` and `Promised` are
refinements, of `SchemaHistory` and of `Feed`. `OneExecution` and `NobodyIsStranded` are
the hub's two promises: no stream runs for nobody, and nobody waits on a stream that
will say nothing more. `ReReadsCatchUp` and `PlacedIsExact` say when a settled list is
right: where its last read came through and every change since was heard, or leaves
nothing to show of a record that was not shown (`NoneMissed`) - and the second only for
keys whose frames came in order, as the code places what comes last. Changes that are
heard by nobody and take a record out of the list, upserts that leave its filter and
changes that hide a record, are excused until the next read.
`ReadsAfterSubscribing`: a settled list whose last read came through asked for it after
its last subscription, so what it can have missed lies between that read's answer and
the first event of a subscription, or is told to nobody. `CallsReturn`, `EventsAreHeard`, `ListSettles` are liveness.

**Bounds.** `memory_store`: two keys and two transactions give nesting, two commits
into one parent, and a free key beside a taken one; one identity value and null
give every clash; three writing calls are one in each transaction and one beside
them. One row is there at the start so conflicts need no call to set up, and
transactions are symmetric. `memory_identities` and `memory_upsert` need one and no
transaction. `optimistic_lock`: two callers, two related records (two orders to
lock them in, hence rings), versions to 3 (each caller can win once and lose once),
on the four kinds of layer; three callers were checked too and show nothing new.
`notifications`: scopes three deep (a queue's maker, a savepoint inside it, an
action inside that) around four writes (one before, in, and after each), on a database where a failed statement aborts.
`bulk_action`: three rows in batches of one, two and three give a batch before and
after one that fails, a short last batch, and rows on either side of one that fails
within its batch; every option, kind, lock and cascade, on layers that transact and not.
`migrator`: three versions, three calls of two migrators and one crash give a rollback
and an application between another's look and its step, and one after each; sites are
two hosts of which one has an older directory, two processes on one directory, and one
process with a directory that is not there. `shared_streams`: two subscribers, each
subscribing again, two streams (one ends while the next begins), two events and buffers
of one, which overrun at once. `live_query`: two keys and a page of one (a change moves
the other key in or out), three changes counting the record
that is there (it leaves by an upsert, say, and comes back), one loss of any kind.
`MaxKey`, `MaxN`, `MaxCalls`, `MaxVersion`, `MaxDepth`, `MaxWrites`, `MaxCall`,
`MaxCrash`, `MaxEvent`, `MaxStream`, `MaxChange` and `MaxBreak` are the only bounds on
counters, and they stand in guards.

**Deadlock** is checked except where bounded work runs out (`CHECK_DEADLOCK FALSE`):
the `MemoryStore` runs, after `MaxCalls` calls with every transaction ended, and
`stale_cascade`, when the record is at `MaxVersion`; `bulk_action`, when the action has
answered; `migrator`, `shared_streams` and `live_query`, when their calls, events and
streams, or changes are used up and every task waits for one more. That nothing is stuck
before is what `CallsReturn`, `EventsAreHeard` and `ListSettles` say.

**Fairness.** `AttemptsReturn`: strong fairness on each caller's
`Proceed`: the runtime polls every task that can go on, and a row lock or the one
connection is handed to whoever waits longest (Postgres queues row locks, the pool
queues waiters), so an attempt whose wait is over again and again is not passed by
forever. Weak fairness on `BreakOff`: a database detects a deadlock and ends one of
its transactions. Nothing makes a caller start an attempt. `CallsReturn`: weak
fairness on each migrator's `Works`; the file lock is tried every 20 ms and the database
queues its lock's waiters. Weak fairness is enough as calls are finite in number; a
caller that others overtook for ever is not excluded. `EventsAreHeard`: weak fairness of
each
subscriber's task, as the runtime polls what can go on, and of each stream's `Progress`:
it starts, forwards what is published, says that it was overrun if it was, and stops when
aborted or ended. Nothing makes a stream end that has nothing to say: `Refuse`, and
`Overtaken` where nothing was lost, are steps without fairness.
`ListSettles`: weak fairness of what the client and server do by themselves, with losses
bounded. Nobody has to call, publish, subscribe, fail or crash.

### Where code and documents disagree

- **A commit does not check identities** (`memory_identities`;
  `ash-memory/src/lib.rs:1073`). A transaction creates a row; a direct create stores
  the same identity value under another key; the commit finds no row changed under
  it and applies both. `check_identities` saw only the snapshot.
- **An upsert writes another identity's columns** (`memory_upsert`;
  `ash-memory/src/lib.rs:239`). Only its insert branch calls `check_identities`.
- **A stale destroy has taken related records** (`stale_cascade`;
  `ash-core/src/engine/managed.rs:167`). The comment says they stay because the lock
  is checked first; without a transaction the lock can be lost during the cascade.
- **A Multi in a transaction sends early** (`multi_in_transaction`;
  `ash-core/src/multi.rs:280`). Its queue goes out when its savepoint is released.
- **A failed batch's notifications are sent** (`batch_in_multi`;
  `ash-core/src/context.rs:282`). A savepoint's rollback does not take back what was
  queued inside it when the queue belongs to the Multi around it.

Weaker than a reader may take the text to say, and stated by the properties as the code
has it:

- "Zero events are ever broadcast for uncommitted state" (`features.md:383`): on Postgres a
  failed statement aborts its transaction, and a COMMIT of it rolls back and returns Ok
  (`ash-postgres/src/lib.rs:827`). A program that goes on after an action's error inside a
  transaction has its queue sent for writes that are gone (`dropped` in `SentIsCommitted`).
  So has a bulk action whose managed record was stale: the rows that came through are
  counted, notified of and told to their hooks as stored (`dropped` in `CountIsStored`,
  `HooksHear`, `WholeIsAllOrNothing`), though `bulk.rs:292` knows that a failed statement
  leaves the transaction unable to commit.
- `rollback_to` goes "down to (and not including) the target version"
  (`ash-sql/src/migrator.rs:273`), but looks, and then has `rollback` look again: another
  host's rollback in between leaves it undoing its target (`TargetIsKept`).
- A live list is "kept in sync" (`ash-typescript/src/live.rs:466`): one kept by placing
  holds what came last, so frames that overtake each other leave an old record; a change
  between a read's answer and its subscriptions going live is not heard; a read that
  failed is not made again by itself; an upsert that takes a record out of its filter
  (`ash-graphql/src/subscription.rs:164`), or a change that hides one from its client
  (`:178`), is told to nobody, and the list shows the old record until it reads again.
- A bulk action's stale rows are left out (`features.md:141`), and so is a row that was
  written but whose *managed* record was stale (`stale_child`); hooks of a soft or
  cascading bulk destroy run inside the batch's transaction; without a transaction
  ash-memory keeps the rows before the one a bulk create refuses, all of them counted
  as failed, and ash-postgres the first statements of an update too large for one
  (`ash-postgres/src/lib.rs:769`); an upsert that matched a row and is undone by its id
  deletes it (`gone`). Ids a bulk destroy does not find are counted nowhere, unless the
  whole action fails, which counts every id it was given.

## 4. Proofs

All hold for every value of the constants that satisfies the named assumptions of
the modules (`...Assumption`): bounds are naturals, nulls and absent rows are not values
or rows, nobody is not a migrator, a directory's scripts are versions, a record has
finitely many related records, the frames that are no event differ from events and from
one another, channels have room, batches have a row at least (the code takes the larger
of one and the size asked for), and a live list's bounds leave room for the one record
it starts with. Four theorems have a hypothesis more, `NestsSoundly`, one of them also
`GoesOnSafely`, explained at `NotificationsProofs`. Each invariant below was first checked with TLC on the module's
run.

**MemoryStoreProofs.** `TypeCorrect`: `Spec => []TypeOK`. `NoIncrementIsLost`:
`Spec => []NoLostIncrement`, for any number of transactions, nested to any depth.
`TypeOK /\ NoLostIncrement` is inductive. Calls on a store reset a row or add one
to both sides; the step that matters is `Commit`. A row the transaction changed is,
by the absence of a conflict, still in its parent what it was in the snapshot, so
the parent's count and the transaction's own add up; a row it did not change has no
increments of its own, or it would differ from the snapshot. `parent[t] # t` is in
`TypeOK` for that step. `UniqueTillACommit`: `Spec => []UniqueUntilCommit`, inductive
with `TypeOK`; its lemma `StoringKeepsUnique` is what `check_identities` gives a
single store, including where it skips an identity whose columns stay as they were.
`UncontendedCommits`: `Spec => UncontendedCommitIsExact`, from `TypeOK` alone.

**OptimisticLockProofs.** `TypeCorrect`, then `CopiesTrailTheRecord`:
`Spec => []CopiesTrail`. `LockedWritesOnly` does not follow from types: an update, planned
or guarded, writes the value computed on the caller's *copy*, so one must know that a
copy with the record's version has the record's value. `CopiesTrail` says why: the
version counts the writes, in the record and in every copy, and an archived record
is ahead of every copy, so that the guard alone shuts writes by id out of it. With
`TypeOK` it is inductive. `WritesAreLocked` (`Spec => LockedWritesOnly`) goes action
by action from it, and `ImplementsVersionedRecord` puts it together with `Init`:
on a layer that writes in one statement, `Spec` implies `VersionedRecord`'s `Spec`,
for any number of callers and related records. `FailuresToldAreTrue`
(`Spec => []FailuresAreTrue`), which speaks of layers with single-statement writes, needs `Lost`, which says it already of an attempt on its way
to being told: whoever's statement changed nothing has a copy the record has left
behind, and as versions only grow and nothing brings a record back, it stays so until the
caller is told. `RelatedFollowTheRecord` (`Spec => []RelatedGoWithTheRecord`)
needs `Cascades`: while the record lives, what a destroy has found and not yet removed and
what it has removed are together all the related records, so that one with nothing left to
do takes them all. For it `WaitsFor` says that a destroy about to write also waits for the
row: a layer that runs transactions and checks before it writes - the type allows one, the
repository has none - would otherwise stop there.

**NotificationsProofs.** `TypeCorrect`: `Spec => [](TypeOK /\ Nesting)`, for any depth and
number of writes and any program. `Nesting` says whose queue a scope has and that
savepoints mark points in order. `CommittedWritesAreSent` (`Spec => []CommittedIsSent`)
follows with `Accounted`: what is stored is sent, excused, or in a queue that will be.
`FailedWritesAreUndone`: what failed where a caller is promised all or nothing is never
committed, and never in a transaction whose COMMIT rolled back; `Undoable` says why, that
such a scope opened its transaction or savepoint before it wrote anything. These hold of every program. `SentWritesAreCommitted`,
`FailedScopesAreUndone` and `WritesAreSentInOrder` (`SentIsCommitted`, `FailedIsUndone`,
`SentInOrder`) hold of a program that `NestsSoundly`: a Multi or a pipeline is run outside
any scope, and nobody goes on after the error of a transaction inside another scope, or of
a scope that opens one. The program of `notifications` nests so, the two of
`multi_in_transaction` and `batch_in_multi` do not, and for them TLC shows the theorem
would be false: the hypothesis is where the code keeps what its documents promise. Their
invariants are `Flat` (only the outermost scope has a queue), `SentSafely` (what is queued
is stored, or rolled back by a COMMIT, or about to be dropped with its queue) and `Ordered`
(what was sent comes before what is being sent, and that before what is queued).
`SentWritesAreStored` has no exception: all that is sent is committed, in a program that
nests soundly and `GoesOnSafely` - a failed statement aborts nothing, or its caller goes on
only after a transaction or a Multi, which rolls back what was aborted. `NoneDropped` is
the invariant: an aborted transaction is failing, and does not come to its COMMIT.

**BulkActionProofs.** `Invariant`: `Spec => []Inv`, for any number of rows and any batch
size; from it `TypeCorrect`, `AWholeActionIsAllOrNothing`, `WhatIsCountedIsStored`,
`EveryRowIsAccountedFor` and `HooksHearWhatCame`. The four properties speak of the end of
the action; `Inv` says what is so on the way. A row is waiting, in the batch, or over.
A waiting row is as it was found (`Fresh`); one in the batch is what its phase makes of a
row, before it or after (`Comes`, `Went`); one that is over is `Settled`: its outcome, its
record, its notification and its hooks agree. `Saved` says that what a rollback brings
back is the state before this batch, or before the action, and nothing of other batches;
that is also what the COMMIT of an aborted transaction leaves (`CommitOf`);
`Tally` that the counts are the cardinalities of the rows over, by outcome, which is where
batches must not share a row (`CutInTwo`).

**SharedStreamsProofs.** `TypeCorrect`; `TheHubRunsOne` and `TheHubStrandsNobody`
(`OneExecution`, `NobodyIsStranded`), inductive with `Hub`: the hub's entry is never a
stream that ended or was aborted, and nobody waits on one that was aborted.
`SharedIsAFeed` (`Spec => Promised`): to each of its subscribers, for any number of them, of
streams and events and any sizes of the buffers, the shared stream is a `Feed` of its own.
Start maps to start, and each step of a stream's task, of a client and of a subscriber's
task to the step of `Feed` it is for that subscriber, or to none; for that, `Streams`
says that what a stream has sent is events without a gap up to the one it takes next, and
then at most that it missed some or failed, and its end.

**LiveQueryProofs.** `TypeCorrect`; `ReReadsAreExact`, `PlacingIsExact` and
`SettledListsHaveRead` (`ReReadsCatchUp`, `PlacedIsExact`, `ReadsAfterSubscribing`), for any
keys, page, number of changes and of losses. `Inv` has, besides the types and that nothing
follows a key's destruction in the log, `ReadOK`: a read under way that is not to be made again has seen
all the list was told before its answer, and a subscription asked for since leaves it to be
made again; and `ItemsOK`: a list that waits for no read holds what the last one brought but for
the changes it placed since, and each it was told of and the read had not seen is one of
those. Where nothing was missed, `NothingNew` then says that the server has nothing to
show of the other keys that the read did not see: the first change of a key that was not
heard is void, so the read had nothing to show of it, and so is the last. The formulas
keep their conditions: a read that came through, and changes nobody is told of.

**MigratorProofs.** `TypeCorrect`: `Spec => [](TypeOK /\ Knowledge)`, for any number of
migrators, processes' and directories' locks, and versions. `TypeOK` says who holds which lock
(`HeldBy`); `Knowledge` says what a call's place entails, above all that `Wanted`, the
executor's guard, still holds while it works. Neither is inductive without the other: the
guard stays true because `AloneAtWork` - two calls at work would hold the one lock there
is between them, the database's or, without a transaction, a process's or a directory's -
and a lock is known to be held only by a call past it. The rest follows from the two:
`ImplementsSchemaHistory` (`Spec => HistoryIsKept`), as a step that records is one of a
call at work; `EffectsAreRecorded` (`Spec => []ScriptsAreRecorded`), inductive with
`Ran`, which says of a script run and not yet recorded what its record will;
`RunsMissNothing` and `TargetsAreKept`, from `Relies`: whatever another takes from the
history it adds to `undone`. That a set of versions has a latest and an earliest
(`LatestIs`, `EarliestIs`) is the well-foundedness of the naturals.

**Only model-checked**: `AttemptsReturn`, `CallsReturn`, `EventsAreHeard` and `ListSettles`,
as liveness under fairness is out of the proof system's reach. Every invariant, action
property and refinement that a passing run checks is a theorem. The violations are
counterexamples, and need no proof.

## 5. Plan

*Done*: `MemoryStore`; `OptimisticLock` with `VersionedRecord`; `Notifications`;
`BulkAction`; `Migrator` with `SchemaHistory`; `SharedStreams` with `Feed`; `LiveQuery`;
and, of each, the proofs of what its run checks, but for liveness.

Next, most important first:

1. `PooledTransactions`: connections, transactions, cancelled futures, commits that
   fail, SQLite's WAL pool; which connection is handed out clean.
2. `Transitions`: a state machine's transition checked in its statement, or on a copy
   where the action runs record by record. Where the record has an optimistic lock this
   is what `LockedWritesOnly` says: a write is computed on what the record holds.
3. The changeset's lifecycle: a record created again over a deleted one, managed
   relationships of several records, several levels of cascade.

## 6. Not modelled

- **Policies, filters, queries, SQL compiler**: functions of a request and a table, with
  no state between calls; what they compute is data the modules abstract.
- **Schema diff and generator** (`ash-sql`): a plan of SQL statements from two snapshots,
  text for the most part. Of interest is its order: `reverse_plan` drops tables in the
  reverse of their creation, references added later among them.
- **Macros, TypeScript generator, RPC, GraphQL schema**: expansion and text; a request
  becomes one engine call.
- **Authentication, mailer, cargo-ash, examples**: single engine calls, or I/O.
- **State machines, connection pools**: planned above. The data layers appear in
  `OptimisticLock` as `layer` and in `Notifications` as the transaction they give.
