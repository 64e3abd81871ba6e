# A verification of zvec-server

zvec-server is a single-process HTTP server over the Zvec vector engine. It
keeps a registry of open collections, runs every engine call in a worker thread
under a per-collection fair reader/writer lock, and stores one SQLite row per
collection next to one engine directory per collection. This directory holds
TLA+ models of the parts of it where threads, failures and restarts meet, the
TLC runs that check them and TLAPS proofs about them. Paths below are relative
to `src/src/zvec_server/` unless they start with `docs/`, `specs/` or
`CHANGELOG.md`, which are under `src/`.

## 1. Inventory

| Component | State | Operations | Hard behaviour | What makes it correct |
|---|---|---|---|---|
| Managed collection (`manager.py` `ManagedCollection`) | engine handle, `dropped`, reader/writer lock, maintenance mutex, set of export cursors and its mutex | `read`, `write`, `maintain`, `stream`, `close_cursors`, `_release_cursor` | requests queue behind drop, shutdown and recovery; four locks; cursors outlive the lock | nobody uses a handle that was closed or destroyed; writers and maintenance exclude what they must; every cursor is closed exactly once and before teardown, also when closing one of them raises; everything that waits goes on |
| Collection manager (`manager.py` `CollectionManager`) | registry, registry lock, recovery tasks | `load_all`, `create`, `drop`, `get`, `info`, `list`, `counts`, `flush_all`, `close` | two durable stores updated in turn, each step may fail; crash between any two; concurrent drops and creates of one name | registry, table and directories agree; an acknowledged create survives; a drop hits the collection it looked up |
| Background recovery (`_recover`, `_adopt`, `_spawn_recovery_task`) | one task per unavailable collection | sleep, reopen in a thread, adopt | cancellation reaches the task but not its thread | an unavailable collection is opened in the end; a dropped one never is |
| Fair lock (library `readerwriterlock`, external) | gate, readers, writer | shared and exclusive acquire and release | arrival order | a writer alone; nobody starves |
| Metadata store (`db/metadata.py`) | SQLite connection under a lock | `connect`, `add`, `list`, `delete`, `close` (`get`, `touch` unused) | a statement or commit fails | one row per name; a failed call changes nothing |
| Lifespan (`app.py`) | `app.state`: store, manager, ready | connect, load, start recovery; close, store close | shutdown while requests run | stores closed after the collections |
| Worker pool and event loop (`run_in_threadpool`, `app.py`, `api/`) | who has a thread, who waits for one, the loop | hand out a thread, deliver a result; `readyz` and `close()` on the loop itself | every request passes through the pool twice, first for `get_manager`; it waits for locks inside the bounded pool; a thread is given back only on the loop | nobody waits for himself through any chain of locks, threads and loop; every request ends |
| Routes (`api/`) | none | one manager or collection operation each; probes | the event loop must not block | each answer tells the truth |
| Export streaming (`api/vectors.py`, `DocExport`) | snapshot, cursor, batches sent | first batch, response, batches, error line, close | writes and drops between batches; a client that stops, leaves, or is gone before the response starts | the lines are the collection of one moment, whole or visibly cut; no cursor outlives its export |
| Document operations (`adapter/operations.py`, `doc_mapper.py`, `models/vectors.py`) | the documents | insert, upsert, update, delete, fetch, search | a batch that fails midway; ids made up by the server | each request takes effect at one moment; statuses belong to their documents |
| Schema and query mapping (`schema_mapper.py`, `query_mapper.py`, `enums.py`, `models/collections.py`, `models/search.py`) | the schema of the open collection | build a schema, build queries | five index types with different parameters; a field's index decides what a search may say | nothing is accepted that the engine would not be told; a parameter fits the index the field has now |
| Collection lifecycle calls (`adapter/collections.py`) | none | create, open, flush, optimize, close, destroy | an engine call fails | the right error class |
| Authentication (`auth/`), settings (`config.py`), errors (`errors.py`), logging, models | none | pure functions of a request or the environment | none | unit tests reach it |

Interaction: FastAPI runs `get_manager`, which every collection and document
route depends on, in a worker thread; the route looks the name up in the
registry (without its lock), then
awaits the entry's `read`, `write`, `maintain` or `stream`, which wait for the
entry's locks in a worker thread; `create`, `drop`, `list` and `info` run as a
whole in a worker thread; `readyz` and `close()` run on the event loop. Lock
order: registry lock before a collection's lock (`create`, while it describes
the new collection), maintenance mutex before the collection's lock, the
collection's lock before the cursors mutex. `drop` never holds the registry lock
and a collection's lock together.

`PROJECT.json` lists the components with their status, and under `hazards` the
places in the code that are hard to test, with the properties that cover them.

## 2. Modules

| Module | Models |
|---|---|
| `FairRWLock` | what the server relies on from `RWLockFair`: a waiting writer closes the gate to later arrivals, waits for the readers inside, then is alone |
| `ManagedCollection` | one registered collection, instantiating `FairRWLock`; every request, the recovery task, drop, shutdown, and the engine below |
| `ServedCollection` | abstract: a collection is available, unavailable or dropped; requests are in the engine only while it is available, a writer alone; transitions find nobody inside |
| `ManagedCollectionProofs` | theorems about `ManagedCollection` |
| `CollectionManager` | the registry over the table and the directories, with recovery, shutdown, crash and restart |
| `CollectionManagerProofs` | theorems about `CollectionManager` |
| `WorkerPool` | several collections, the registry lock, the bounded pool and the event loop: who waits for whom |
| `WorkerPoolProofs` | theorems about `WorkerPool`, among them that its locks are those of `FairRWLock` |
| `DocumentModels` | request bodies and answers of the document endpoints; what the engine does with one document |
| `DocumentStore` | abstract: a store in which every request takes effect, and reads, at one moment, with an outcome per document and snapshot exports |
| `Documents` | the endpoints over the documents of one collection, instantiating `FairRWLock`; shown to implement `DocumentStore` |
| `DocumentModelsProofs`, `DocumentsProofs` | lemmas about bodies and batches; theorems about `Documents`, the refinement included |
| `FieldMapping` | bodies of create, search and group-by translated to engine parameters |
| `FieldMappingProofs` | theorems about `FieldMapping`: the mappers' tables against the documented ones |
| `MCManagedCollection`, `MCCollectionManager`, `MCWorkerPool`, `MCDocuments` | instances for TLC: symmetry, and for liveness, which symmetry does not allow, requests numbered in the order in which they are sent |

### ManagedCollection and the code

| Model | Code |
|---|---|
| `gate`, `readers`, `writer` | `rwlock` |
| `handle`, `dropped`, `maintLock`, `cursors`, `cursorsLock` | the attributes of `ManagedCollection`; a cursor is named after its stream |
| `zlock`, `disk`, `live` | the engine: who holds the directory's lock file, whether the directory exists, open iterators |
| `raised` | no variable of the code: the cursors whose `close()` was called and raised, which `close_cursors` logs and `_release_cursor` passes on |
| `pc`, `kind`, `ref`, `result`, `left` | a worker thread: place, operation, handle passed to the engine, outcome, batches left |
| `FailFast`, `Enqueue` | `get` and the first `_require_open` |
| `EnterShared`, `WaitExclusive`, `EnterExclusive`, `Resolve` | the `with` statements and the second `_require_open` |
| `OpenCursor`, `RegisterCursor`, `ResolveBatch`, `NextBatch`, `Resume`, `Abandon`, `ReleaseCursor`, `CloseReleased` | `stream`, its `finally`, the NDJSON response |
| `CloseCursors`, `Destroy`, `DestroyFails`, `RemoveTree`, `DropAgain`, `Unregister` | `drop` |
| kinds `flush` then `close`, `CloseHandle` | `flush_all`, `close` |
| `Wake`, `OpenFails`, `OpenSucceeds`, `Retry`, `Reopened`, `Adopt`, `Discard`, `Collect` | `_recover`, `_adopt` |

Abstractions: documents are left out, an engine call returns or fails; a request
runs once; `LoopFree` says that `close()` and `_release_cursor`, which run on the
event loop, keep the loop's other steps waiting. The `close()` of a cursor may
raise like any other engine call (`EngineFaults`): the cursor is out of the set
by then and nobody tries again, and the iterator may or may not stay open. If it
does, the engine refuses what it refuses under any open iterator (`CallFails`,
`DestroyFails`, `CloseHandle`), until the garbage collector gets to it
(`CollectCursor`), which it may never do. A handle nobody took is released by
the garbage collector too (`Collect`).

### CollectionManager and the code

| Model | Code |
|---|---|
| `rows`, `disk` | the `collections` table; the directory at the name's path. Each value is the identity of the collection: the request that created it, or the name itself for one an earlier run left |
| `registry`, `handle`, `dropped` | `_registry` and, per entry, its open directory and its `dropped` flag |
| `retry`, `reopened` | the recovery task of an entry and the directory it has open |
| `reglock`, `probing` | holder of `_lock`; the event loop is waiting for it in `readyz` |
| `phase` | `closing` after `manager.close()`, `closed` after `store.close()` |
| `CreateRegistered`, `CreateRefused`, `CreateDirectory`, `AddRow`, `AddFails`, `Rollback`, `Publish` | `create`, one step per store it touches, all under `_lock` |
| `Lookup`; `DropAgain`, `Destroy`, `DestroyFails`, `RemoveTree`; `Unregister`, `UnregisterFails` | `drop`: its two turns under `_lock` and its turn under the entry's lock |
| `Start`, `Close`, `CloseStore`, `Stop` | lifespan, `load_all`, `start_recovery`, `close`; the end of the process at any step |

The turn of a drop under the entry's exclusive lock and an adoption are one step
each: `ManagedCollection` shows that nothing else of the entry happens inside
them. The wait for that lock is the time before the step. `close()` is one step
for the same reason: it empties the registry under `_lock`, and every entry is
then closed under its own lock, before or after the turn of a drop that holds
on. Requests may still be under way when `close()` runs; the CHANGELOG (line 64)
and `close`'s docstring speak of that case, and a graceful-shutdown timeout
brings it about. A failed SQLite call changes nothing, because the connection
rolls back. `list` and `info` change no state and are left out.

### WorkerPool and the code

| Model | Code |
|---|---|
| `queue`, `threads` | starlette's `run_in_threadpool` and the first-come limiter of anyio behind it |
| `reglock`, `mutex`, `gate`, `readers` | `_lock`, `maintenance_lock`, `rwlock` |
| `registered`, `state` | `_registry`; per entry, `collection is None` and `dropped`. An entry is named after the create that made it |
| `SubmitRoute`, places `arrived` and `resolved` | every route with `Depends(get_manager)`: a first pass through the pool, for the dependency alone (`deps.py:16`) |
| `Handle` by `CallsEngine`, `CallsManager` or `Refused` | the handler, once that thread is free: document routes behind `get` and the fail-fast check; the collection routes; 422, 404 and 503. The first two queue for a second thread |
| `SubmitOnLoop` | `readyz` and the end of the lifespan, which use no thread |
| `Dispatch`, `Return` | a thread is taken; a result is delivered on the loop and the thread is free |
| `Return`, `Resume`, `Abandon` with `left` | `stream` and its client: first batch at once, then a batch per turn |
| `DropLooksUp`, `Destroys`, `DropLeaves`, `DropUnregisters`; `CreateBegins`, `CreateFails`, `CreateRegisters`; `Snapshot`, `Visit`, `Visited`, `Wrote`, `Closes` | `drop`; `create` up to `_build_info`; `list`, and `flush_all` and `close` one after the other |

What the engine answers, names and recovery are left to the other two models: a
create or a drop just goes one way or the other, and a name may always be one
that is not registered. Nothing depends on the route before the handler, so the
model chooses it there; `drop` and `info` find their entry when they look it up. The lock of an entry is the one
of `FairRWLock`, written here with an entry as index.

### Documents and the code

| Model | Code |
|---|---|
| `docs` | the engine's documents: id to content, the content being the request that wrote it |
| `ids`, `oks` | `resolved_ids` and the engine's statuses, while a batch is worked through |
| `snapshot`, `read`, `sent`, `cursors` | an export's `DocIterator`, what has been read off it and sent; `ManagedCollection.cursors` |
| `Submit` | body validation (422) before the handler, then `get` (503) |
| `Resolve`, `EngineWrites`, `RespondWrite`, `WriteFails`, `DeleteByFilter` | `to_zvec_docs` (`ConversionFails` when it raises), the engine call document after document, `build_write_response`, the `except` clauses |
| `OpenExport`, `NextBatch`, `LastBatch`, `BatchFails` | `stream` over `DocExport` |
| `StartBody`, `NeverStarts`, `Collect`, `Abandon` | `_ndjson_stream` and `_ClosingStreamingResponse`: closing a generator that has never run runs no `finally`, so its cursor waits for the garbage collector |

The refinement hides a request under the exclusive lock until it leaves: `store`
is `docs` when nobody writes and `before`, the documents it found, while
somebody does. `DocumentStore` was written to promise no more than the code
keeps: a failed batch leaves a part of itself applied, and a drop that fails in
the engine has by then closed the cursors, so that an export ends with
`collection_unavailable` though the collection remains. Assumed of the engine:
one status for each document of a batch, a document changes only if its status
is ok, and an iterator shows what was there when it was opened. A cursor is in
or out of the set here; that its `close()` may raise is in `ManagedCollection`,
and an export it breaks ends like one whose batch fails (`BatchFails`).

### FieldMapping and the code

A value is abstracted to its kind (int, float, bool, the name of a quantization,
other text), a token to its name in the case the code compares it in. A raise is
a condition (`BadParams`, `BadSchema`, `BadQuery`), since all raises of a route
have one error code. `EngineSchema` and `EngineQueries` are what the engine is
given, in `last.given`, a set that is empty when the request never got that far; `schema` is what it has open afterwards, and `made` what the client had
asked for. The tables of `docs/API.md` and of the models' descriptions are
`DocumentedParams` and `DocumentedQueryParams`, written down apart from the
tables of the code.

## 3. Runs

| Run | Instance | Shows |
|---|---|---|
| `collection` | 3 requests of any kind, recovery, one batch, failing engine calls, the closing of a cursor included; both starts | type invariant, `CallsUseLiveHandle`, `HandleIsOpen`, `MaintenanceAlone`, `TeardownUnobstructed`, `CursorsReleasedOnce`, `DropIsFinal`, and the refinement `ServedOnlyWhileOpen` |
| `collection_live` | 3 requests, both starts, another process that may have the directory, fairness | `EveryCallReturns`, `RecoveryOpens` |
| `manager` | 2 names, 3 requests, all failures, 2 starts | type invariant, `OpenEntriesOwnTheirDirectory`, `RegistryIsTheTable`, `HandlesAreRegistered`, `UnavailableIsBeingRecovered`, `AcknowledgedCreateSurvives`, `HollowRowsAreCutDrops` |
| `manager_live` | 1 name, 3 requests, all failures, fairness | `RequestsEnd`, `EventLoopResumes` |
| `pool` | 3 requests of any kind, 2 collections at the start and the ones created, 2 threads, one batch | type invariant, `HoldersCanRun`, `NoWaitCycle`, `RegistryWaitsForItsOwn` |
| `pool_live` | the same with 1 collection at the start, fairness | `EveryRequestEnds` |
| `documents` | 2 requests with any body, 2 ids that clients choose and 2 that the server makes up, batches of up to 2, export batches of 1 | type invariant, `CursorsAreAccountedFor`, and the refinement `ImplementsStore` |
| `mapping` | every index type with every set of up to 2 parameters of every kind, 2 vector fields, one scalar field, a drop and a create of the same name | type invariant, `CreateTakesWhatIsDocumented`, `ParamsReachTheIndex`, `SearchTakesWhatFits` |

Bounds. Three requests are enough for every pair that must exclude each other
with a third that tears the collection down or queues between them; the
recovery task is a fourth thread. One batch lets a stream be between batches,
in a batch and at its end. For the manager, three requests are two drops of one
entry and the create that comes between them, or a create cut short by a crash
followed by a create and a drop; two starts are one restart after a crash or a
shutdown; every leftover of an earlier run (nothing, both, a row alone, a
directory alone) is an initial state, so a second restart adds nothing. Two
names let one name's request hold the registry lock another needs. With two
threads three requests are one more than the pool holds, and a request on the
event loop (a probe or the shutdown) comes on top; a cycle of waiting needs no
more, since there are two levels of locks besides the pool. Two documents in a
batch are a batch that fails midway; two requests are a write and a reader, an
export and a drop, or two writes with a second moment between them, and the
effect of each is compared with the store's at every step, so a third request
would only repeat a pair. Two parameters are one that is right next to one that
is wrong, and `enable_rotate` with and without what it needs. The liveness
runs use no symmetry. The manager's runs do not check for deadlock: requests are
sent once, and the process may be down for good.

Fairness. `collection_live` assumes weak fairness of each request's own steps and
of the recovery task: worker threads are scheduled, engine calls return, and the
fair lock grants the gate in turn. It sends no batch but the empty one and lets
engine calls succeed; failing calls only leave earlier. Nothing is assumed of
clients (`Submit`, `Resume`, `Abandon` have no fairness) and nothing of the
other process. `manager_live` assumes the same of creates, drops and the probe,
`pool_live` of every thread, of the limiter and of the event loop. The registry
lock is a plain `threading.Lock`, which is not fair; weak fairness is enough
because requests are finite in number, and the runs say nothing about starvation
under an endless stream of requests.

### Where code and documentation differ

Each of these runs ends in a counterexample; `findings` in `PROJECT.json` quotes
the lines.

- `collection_queued_info`: `GET /collections/{name}` queued behind a drop
  answers 500 instead of 404 or 503.
- `collection_closed`: an adoption that gets the lock after `close()` leaves an
  open handle in an entry nobody will close.
- `manager_conflict`: after a crash inside a create, that name answers 409 for
  ever though no collection has it.
- `pool_isolation`: requests that wait behind one call of one collection occupy
  the whole pool, and a request of another collection finds no thread: none for
  its engine call, which is what the run shows, and so none for `get_manager`
  either.

More that reading and modelling showed, without a run of their own:

- `maintain`'s docstring says that searches keep flowing during an optimize. A
  write queued behind the optimize closes the gate of the fair lock, and every
  later search waits until the optimize ends (`CloseGate` in `FairRWLock`).
- After a drop whose metadata delete failed, DELETE answers 404 for a collection
  that is still registered and listed, and that blocks a create with 409
  (`UnregisterFails`, then `DropAgain`).
- `docs/ARCHITECTURE.md` (line 128) says that the event loop is never blocked on
  a lock. `readyz` takes the registry lock on the loop (`Probe`), and so does
  `close()`; `NoWaitCycle` and `EventLoopResumes` show that this ends.
- `rmtree(ignore_errors=True)` in `drop` lets a delete answer 200 though the
  directory is still there, against `specs/SPEC-002` R7 (the second disjunct of
  `RemoveTree`).
- A create that waits for the registry lock while `close()` empties the registry
  no longer finds its name taken; if the name's collection was unavailable for
  want of its directory, the create makes one, and should the process end before
  the rollback, the next start opens it under the old row: the exception in
  `OpenEntriesOwnTheirDirectory`.
- `docs/API.md` calls data types case-sensitive (line 116), but the code accepts
  any case; it announces `schema_validation_error` for a bad collection name
  (line 298), but the body's validation answers `validation_error` first.
- An integer too wide for the engine's parameter classes passes the type checks
  and raises outside every `try` (`query_mapper.py:79`, `schema_mapper.py:115`),
  which answers 500 instead of 400 or 422.
- An export whose documents stop converting ends without the error line that the
  docstring of `export_docs` announces, since `_ndjson_stream` catches only
  `ZvecServerError`; the connection breaks instead (`BatchFails` in `Documents`).
- `DELETE` of documents accepts an empty list of ids, unlike write and fetch.

## 4. Proofs

Each component has a module of theorems that establishes `Spec => []IInv` for an
inductive invariant `IInv` and derives the rest from it. Each `IInv` was first
checked by TLC. The theorems hold for every value of the constants: sets of
requests, names, streams, collections and ids of any size, also infinite ones,
any size of the pool, any bound on batches and parameters. The assumptions are
those the modules declare: requests, names, handles, ids, `Recovery` and `None`
are different things, the bounds are natural numbers, the pool has a thread, and
the fault switches are either on or off. Every safety property that a passing run
checks has a theorem.

### ManagedCollectionProofs

| Theorem | Property |
|---|---|
| `TypeCorrect` | `TypeOK` |
| `NoStaleHandle` | `CallsUseLiveHandle` |
| `EntryHoldsOpenHandle` | `HandleIsOpen` |
| `MaintenanceExcludes` | `MaintenanceAlone` |
| `NoCursorAtTeardown` | `TeardownUnobstructed` |
| `CursorAccounting` | `CursorsReleasedOnce` |
| `DropFinality` | `DropIsFinal` |
| `ServedRefinement` | `ServedOnlyWhileOpen`, that is `ServedCollection` implemented |

None of the properties is inductive by itself: that a handle in use is the
entry's own depends on who can be inside the lock when the entry changes.
`KindInv` ties a place to the operations that pass through it, `LockInv` and
`MutexInv` say that each lock is held by exactly the threads whose place says
so, `CursorInv` says that an open iterator is registered, or being opened or
released by its own stream, or one whose `close()` raised, `CallInv` whose
cursor and whose handle are in use where, and `HandleInv` follows the reopened handle through the recovery task. An
adoption or a teardown then finds no call under way because `LockInv` excludes
one. The refinement has a lemma per effect on the abstract state (stutter,
begin, end, change), each over the actions that have it.

### CollectionManagerProofs

| Theorem | Property |
|---|---|
| `TypeCorrect` | `TypeOK` |
| `EntriesOwnDirectories` | `OpenEntriesOwnTheirDirectory` |
| `RegistryMatchesTable` | `RegistryIsTheTable` |
| `NoHandleLost` | `HandlesAreRegistered` |
| `NobodyForgotten` | `UnavailableIsBeingRecovered` |
| `AcknowledgedCreatesSurvive` | `AcknowledgedCreateSurvives` |
| `HollowRowsComeFromDrops` | `HollowRowsAreCutDrops` |

Here the invariant must say what is true between the steps of a create and a
drop. `RequestInv`: only a create that has begun to write holds the registry
lock over steps. `PlaceInv`: whatever the table, a path, the registry, a handle
or a task names was created, under that name. `OpenOnce`: no directory is open
twice. `CreateInv`: what a create under way has written so far, which is what
its rollback undoes. `DropInv`: an entry being destroyed is still the one in
the table, so deleting the row by name deletes the right one, and only one drop
gets there. `RecoverInv`: an entry with a live task is closed and is the one in
the table. `PairInv`: a row over a directory of another create is only left by
one that failed. `UpInv` and `DownInv`: the registry while the server is up, and
nothing in memory while it is down, which is what makes `Start` preserve it.

The last two theorems are about what has happened, not only about what is: they
need `DroppersInv` besides, which keeps for every dropped entry the request that
dropped it, so that a step which destroys or forgets an acknowledged collection
produces the drop the property allows. `LedgerInv` joins the three; its steps
use `IInv` of the same state.

### WorkerPoolProofs

| Theorem | Property |
|---|---|
| `TypeCorrect` | `TypeOK` |
| `HoldersRun` | `HoldersCanRun` |
| `RegistryWaits` | `RegistryWaitsForItsOwn` |
| `NobodyWaitsInACircle` | `NoWaitCycle` |
| `LocksAreUsedByTheRules` | the lock of every collection implements `FairRWLock` |
| `WritersAreAlone` | `Exclusion` of that lock |

`QueueInv`: a request is in the queue once, for its first thread or its second. `ThreadInv`: whoever works has a
thread or is the loop. `PlaceInv`, `HolderInv` and `HeldInv`: which operation
gets where, and that a place and the locks held there determine each other.
`NoWaitCycle` then follows from a ranking: by `WaitsForward` whoever is waited
for is further along (registry lock, then mutex, then the gate, then inside),
so in any set of requests the furthest waits for none of the set. This is the
absence of deadlock; that every request ends is more, and stays with
`pool_live`.

### DocumentsProofs

| Theorem | Property |
|---|---|
| `TypeCorrect` | `TypeOK` |
| `CursorsAccountedFor` | `CursorsAreAccountedFor` |
| `ImplementsDocumentStore` | `ImplementsStore`, that is `DocumentStore` implemented |
| `LockIsUsedByTheRules` | the collection's lock implements `FairRWLock` |

The abstract store is `before` while somebody writes and `docs` otherwise
(`Committed`). So a write's steps stutter, and its last one must be a write of
the abstract store: the statuses that were collected must turn `before` into
`docs`, for a batch of any length. `TrailInv` says so without an induction over
the batch: every function that starts at `before` and follows the statuses (a
trail) ends at `docs`, and one exists. Each document of the batch makes the
trail one longer. `BatchInv` ties the ids to what the request named, `IdsInv`
keeps made-up ids new, `ExportInv` says that an export has read and sent a part
of its snapshot, and `LockInv` that nobody reads meanwhile. TLC cannot
enumerate the functions of `TrailInv`; it checked the invariant with the trail
computed instead. The steps are mapped one by one: requests that arrive, those
refused, writes, deletes by filter, drops, reads, and the steps of an export.

### FieldMappingProofs

| Theorem | Property |
|---|---|
| `TypeCorrect` | `TypeOK` |
| `CreateIsDocumented` | `CreateTakesWhatIsDocumented` |
| `ParamsArrive` | `ParamsReachTheIndex` |
| `SearchFits` | `SearchTakesWhatFits` |

The tables are compared first, one index type at a time and for any name and
kind of parameter: `VectorsDocumented` and `QueryParamsDocumented`. `SchemaInv`
then says that the open schema is what the mapper made of an accepted body, and
that `made` was recorded from that same body; `FieldIndex` draws from it that
the type the engine reports for a field is that of the one index asked for.
TLC checked `IInv` with one parameter per object, where the search for the body
of each state is still feasible.

### Only model-checked

All liveness (`EveryCallReturns`, `RecoveryOpens`, `RequestsEnd`,
`EventLoopResumes`, `EveryRequestEnds`): fairness and ENABLED are beyond the
prover. The four counterexamples are TLC's too, by their nature.

## 5. Plan

1. The locks of `ManagedCollection` against `FairRWLock`, as in the other two
   modules that use it.
2. A link between `Documents` and `ManagedCollection`: both model the shared and
   exclusive sections of one collection, at different levels.
3. Safety parts of the liveness arguments: that in every state short of the end
   some step of the server is possible, stated without ENABLED.

## 6. Not modelled

Authentication, settings, logging, the entry point and engine initialisation are
stateless or happen before any thread runs. The delays of the recovery task are
left out: a retry may come at any time. The algorithm inside `RWLockFair` and
the pool of starlette and anyio are libraries; the models have what the server
relies on. The contents of vectors and fields, `output_fields` and
`include_vector`, scores and the order of hits, and the JSON of responses are
data no property speaks of; a value that does not convert is an `internal_error`
at the place of the conversion. `MetadataStore.get` and `touch` have no caller.
Benchmarks, examples, scripts and packaging are outside the server.
