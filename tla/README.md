# A verification of the Kilo store

Kilo (`src/pkg/kilo`) is an embedded, single-owner knowledge store: every
change is a *mutation* appended to a checksummed segment log and then
materialized in a catalog in memory; snapshots and compaction bound the log,
and asynchronous projectors derive other indexes from it.  This directory holds
TLA+ models of that store, the TLC configurations that check them, and proofs
that TLAPS checks.

To check a model: `tlc -config KiloStoreCore.cfg MCKiloStore`; a proof:
`tlapm KiloStoreProofs.tla`.  `PROJECT.json` maps every definition to the lines
it stands for, names for every property a mutated definition that violates it,
and lists the places where this code can go wrong.

Contents: 1 the system, 2 the models and how they correspond to the code,
3 what the runs check, 4 what is proved, 5 where the code and its documents
disagree, 6 what is not modelled, 7 what comes next.

## 1. The system

### Components

| component | state | operations | what makes it correct |
| --- | --- | --- | --- |
| Store (`store.go`) | the maps of entities, their indexes, `idempotency`, `durableSeq`, `closed`, `mu` | `Open`, `Apply`, `Close`, queries | what was acknowledged is there after any restart; keyed retries take effect once |
| Segment log (`internal/segmentlog/log.go`) | the active segment file, `nextSeq`, `file` | `Append`, `replay`, `CompactThrough`, `Close` | frames are contiguous and only a torn last frame is refused |
| Catalog snapshot (`snapshot.go`) | `snapshots/catalog.json`, `snapshotSeq` | `WriteSnapshot`, `loadCatalogSnapshot` | snapshot + replay rebuild the catalog |
| Compaction (`compaction.go`) | the newest manifest, `compactionSeq` | `Compact` | nothing is dropped that no snapshot covers or that a projector needs |
| Projector runtime (`projector.go`) | `projectionEvents`, `projectorCheckpoints`, checkpoint files, a worker goroutine per projector | `RegisterProjector`, `run`, `nextEvent`, `advanceProjectorCheckpoint`, `Close` | a checkpoint covers only projected events; workers catch up; Close returns |
| Projection waits (`projector.go`) | the waiting goroutines, their timers and helpers | `WaitForProjection`, `broadcastProjectionWait` | calls return, and no progress is missed |
| Records, purge (`store.go`, `purge.go`) | `records`, `purgeRequests`, tombstones, `recordIndexes` | create, update, delete, purge request, `QueryRecords` | replay repeats Apply exactly; revisions are never reissued |
| Graph (`graph.go`) | nodes, edges, adjacency indexes | five mutations, `QueryNodes`, traversals | endpoints exist; index and scan agree |
| Chunks (`chunk.go`) | chunk metadata, a body file per chunk | `CreateChunk`, `ReadChunk` | each chunk's body is the one it was logged with |
| Source spans (`source_span.go`) | spans with references into chunks | `CreateSourceSpan`, queries | references resolve and lie within the chunk |
| Owner lock (`owner_lock*.go`) | `openOwnerLocks`, flock on `owner.lock`, its text | acquire in `Open`, release in `Close` | one owner at a time, nothing stays locked |
| Vector indexes and search (`vector*.go`, `file_vector_index.go`) | `entries`, `.kvec` files, `indexedSeq` | `Project`, `ApplyVectorOperation`, `SearchVectors`, `load` | an answer covers what it claims to cover |
| Tail (`tail.go`) | none of its own | `Tail` | a polling reader misses nothing it cannot know to be gone |
| SDK, types, helpers | none | typed wrappers of `Apply` and queries | build the right mutation |
| Pilot memory import (`internal/pilotimport`) | the place in its two loops, counters | `ImportMemoryRecords` | a returned import is complete, an interrupted one leaves nothing dangling and can be posted again |
| Pilot validation (`internal/pilotvalidate`) | a report | `Validate` | counts what searches find |
| HTTP API (`internal/httpapi`) | none | an import, or one Store read, per request | imports of several requests run side by side |
| CLI (`internal/cli`, `cmd/kilo`) | none | open, one call, close | - |

### How they interact

- **`Store.mu`** is held by `Apply`, `Compact`, the queries and each short
  section of the workers.  It is *not* held by the file work of
  `WriteSnapshot` (`snapshot.go:59`), by a worker's `Project` call
  (`projector.go:138`) and checkpoint file (`projector.go:217`), or by `Close`
  while it waits for the workers (`store.go:204`).  Those four gaps are where
  the interleavings come from.
- **`projectorCond`**, on the same mutex, wakes workers and waiting callers;
  `RegisterProjector`, `Apply`, `advanceProjectorCheckpoint`, a worker that
  stops, `Close` and the helper of a wait broadcast on it.
- **Files** connect one process to the next: segment, snapshot, manifest,
  checkpoint files, chunk bodies, vector files and `owner.lock`.  The segment
  is appended to and `owner.lock` rewritten in place; the others, and a
  compacted segment, are installed by renaming a temporary file.
- **Callbacks**: a `Projector`'s `Project` and a `VectorOperationMapper` are
  the caller's code, run by a worker without the lock; they can fail, and are
  called again.
- **Requests**: the server runs each one in a goroutine of its own, over one
  Store and one `FileVectorIndex`.  An import is hundreds of separate calls of
  both, so those of two requests interleave.
- **Gates** between components: `Apply`'s `preflightLocked` before the log,
  `Compact`'s check of all checkpoints, `RegisterProjector`'s check against
  `compactionSeq`, `Append`'s check of `nextSeq`.

### What is hard

A crash between any two disk steps; an I/O error that leaves the file changed
and the memory not; WriteSnapshot, Compact and checkpoint files interleaving;
a retried projector racing Close; a timed wait built on a condition variable;
an index kept up to date mutation by mutation; replay, which must come to the
results Apply came to; imports made of many calls, failing half-way and posted
again while others run.  `PROJECT.json` lists each of these at its line, with
the properties that cover it.

## 2. The models

Each model takes one part of the system at the level where that part can go
wrong, and leaves to the others what is theirs: `KiloStore` has bytes and disk
steps and treats mutations as opaque; `Catalog` has the values and treats the
log as a sequence; `ProjectorRuntime` has the goroutines and reduces the log to
an interval; `ProjectionWait` reduces a projector to its watermark;
`VectorSearch` to its checkpoint; `OwnerLock` reduces all files to the name of
their last writer; `MemoryImport` takes the Store's calls as steps and asks what
becomes of many of them; `DurableLog` has no files at all and is what
`KiloStore` comes to.

| module | what it is |
| --- | --- |
| `DurableLog` | abstract: a log that every successful Apply extends and every later process finds again |
| `KiloStore`, `KiloStoreInv`, `MCKiloStore`, `KiloStoreProofs` | the durable core: log, snapshot, manifest, catalog, faults, crashes |
| `DurableLogProofs` | that `KiloStore` implements `DurableLog`, and what follows |
| `Catalog`, `CatalogInv`, `MCCatalog`, `CatalogProofs` | the eleven mutations, idempotency, bodies, indexes, queries, snapshot and replay |
| `ProjectionFeed` | abstract: every projector is fed 1, 2, 3, ... at least once and marks only what it was fed |
| `ProjectorRuntime`, `ProjectorInv`, `MCProjectorRuntime`, `ProjectorProofs` | the worker goroutines and gates; implements `ProjectionFeed` |
| `ProjectionWait`, `MCProjectionWait`, `ProjectionWaitProofs` | timed waits on a condition variable |
| `OwnerLock`, `MCOwnerLock`, `OwnerLockProofs` | who may write into a store directory |
| `VectorSearch`, `MCVectorSearch`, `VectorSearchProofs` | vector indexes, the projector that feeds them, searches |
| `MemoryImport`, `MCMemoryImport`, `MemoryImportProofs` | concurrent, interrupted and repeated imports over a store and a vector index |

`XInv` holds the inductive invariant of `X`, `MCX` what TLC needs to
instantiate it, `XProofs` the theorems.  A definition marked *Mutant* is a
plausible mistake in the code; it belongs to no specification and shows that
the property it is paired with in `PROJECT.json` can be broken.

### KiloStore

State: `segment` (header, base sequence and frames), `snapshot`, `manifestSeq` on disk;
`status`, `catalog`, `durableSeq`, `snapshotSeq`, `compactionSeq`, `nextSeq`,
`logOpen`, `replayAt`, `compactStep`, `snapshotter` in memory; `acked` records
what Apply returned.  The catalog is the set of (sequence, mutation) pairs that
produced it, so that a lost, repeated or reordered mutation shows.

- *Open* is `OpenLoad` or `OpenRefused` (bad segment, or a manifest beyond the
  snapshot), a `ReplayEntry` for each frame, and `OpenDone`: a crash can
  come between any two of them.  The first Open creates the segment (`Created`);
  `CreateFails` is an error or a death between creating the file and having its
  header in it.
- *Apply* holds the mutex throughout and is one step, split by outcome:
  `ApplyIdempotent` (the key is known), `ApplyCommit`, `ApplyFails` (nothing, a
  part, or all of the frame was written when `write` or `fsync` failed) and
  `CrashInApply` (the same, and the process is gone).
- *WriteSnapshot* is `SnapshotCopy` under the lock, then `SnapshotInstall`
  (rename, no lock), then `SnapshotRecord`, or `SnapshotFails`.
- *Compact* holds the mutex and is three disk steps, `CompactWriteSnapshot`,
  `CompactTruncate` and `CompactInstallManifest`; `CompactRejected`,
  `CompactThroughFails` and `CompactManifestFails` are its error exits,
  including those that leave the Log closed inside an open Store.
- `Crash` and `Close` forget the memory.

A line that cannot be decoded is one `Fragment`, and so is whatever is written
behind it on the same line.  `Oversized` mutations are those whose line is
longer than the 64 MiB that `replay` reads (`log.go:241`); `Append` takes them.  A crash is the death of the process: what was
written to a file is read again.  Loss of power between `write` and `fsync` is
not a case of its own; a frame that is only partly there is.

`DurableLog` says what callers of Apply get out of all this: `Submit` adds the
next entry, `Repeat` answers for a known key, `Stop` and `Start` change nothing
in the log.  Three things may harm it: a failed or interrupted Apply, whose entry
the next process may find (`doubt`) or which makes the log unusable (`spoilt`); an
oversized entry; and a first Start cut short (`StillBorn`), when there is
nothing to lose.  `KiloStoreInv` maps the store to it: while the store is open, `log`
is the catalog; otherwise it is what Open would make of the files, so that no
step of WriteSnapshot, Compact, Close or a crash may change that.

### Catalog

State: `log`, `snapshot` and `bodies` on disk; `catalog` (entities by kind and
id, with data, revision and tombstone, and the results by key), `index`,
`durableSeq`, `replayAt`, `clock` in memory; `history`, the catalog after each
logged mutation, and `acked` are for the properties.

- `Preflight` is `preflightLocked`; `Applies` is the second set of checks that
  the `apply*` functions make; `Applied` and `Reindexed` are what they do.
  The two sets of checks are written apart in the code and apart here.
- `Apply` checks, writes the body of a chunk, appends the mutation with its
  time stamped (`Logged`), and materializes.  `AppendFails` and `CrashInApply`
  stop in between, a written body left behind; `AppendFails` also stands for a
  mutation that cannot be encoded.
- `WriteSnapshot`, `Stop`, `OpenLoad`, `ReplayEntry`, `OpenDone` are the way
  through the disk; strings pass `Decoded` on it, since JSON does not preserve
  text that is not UTF-8.
- `QueryRecords`, `QueryChunks`, `QuerySourceSpans`, `QueryNodes`, `Traverse`
  take candidates from the index and filter them, as the code does.

A label stands for a (field, value) pair, tags included, and is taken to be
text, as keys are; ids need not be.  Deleting a node leaves its edges alive, as
in the code.  Left out: the order of results, `Limit`, sequence ranges,
`CreatedAt`, the order and repetition of a span's references, filters by edge
type.

### ProjectorRuntime and ProjectionFeed

State on disk: the interval the log holds (`logBase`, `durableSeq`),
`manifestSeq`, the checkpoint files (`files`, `saved`); in memory `status`,
`compactionSeq`, `events` (the queue), `known` and `indexed` (the checkpoints),
`compactStep` and a `worker` per name; `projected` is what each `Project` has
accepted.  A worker is the program counter of `(*projectorWorker).run`: it
fetches, waits, projects, saves its file, advances its checkpoint, clears or
sets its error, sleeps and retries, or stops.  `Open`, `RegisterProjector`,
`Apply`, `CloseStart`/`CloseFinish`, the steps of Compact and `Crash` are the
rest.  `CompactFails` is Compact's error returns: before the truncation, between it
and the manifest's rename (unless `CompactAtomic`), and after the rename, when the
directory's `fsync` fails and the manifest is on disk while `compactionSeq` and
the queue stay as they were (`compaction.go:185`).  `Apply` and
`AdvanceCheckpoint` wake the sleepers; that they do is part of the action.
`Tail` is the answer of `(*Store).Tail`, a read of `events`.

`ProjectionFeed` promises what a projector's author may rely on.  The runtime
implements it with the log's end as `tail`, the checkpoint *files* as `mark`
(the checkpoint in memory may be one behind) and `projected` as `given`.

### ProjectionWait

A call (`Call`) starts its timer; `SetDeadline` reads the clock once more, up to
`MaxDelay` later, and starts the helper; `Check` is a turn of the loop;
`HelperSelects` and `HelperBroadcasts` are `broadcastProjectionWait`.  The
environment registers a projector, applies mutations, advances the checkpoint,
cancels contexts and lets time pass.  A call whose timeout is 0 never waits.
`parkedAt` is an observation, the clock at the `Check` that last sent the caller
to Cond.Wait.

### OwnerLock

`handle` is the program counter of an `Open` or `Close`: registry entry
(`Register`), advisory lock (`Lock`), truncation and writing of `owner.lock`,
loading, open, closing, clearing, unlocking, releasing, with a failure exit at
each step.  `registry` is a process's `openOwnerLocks`, `holder` the lock of
the operating system, which a `Crash` of the process drops.  Workers and
WriteSnapshot, which write files without `Store.mu`, are steps of their own;
Apply and Compact hold the mutex that Close takes and need none.  Reading the
previous owner's text only feeds an error message and is left out.  On systems
without `flock` every Open is refused.

### VectorSearch

`log` is what the mapper makes of each mutation (upsert, delete or skip);
`files` and `entries` are the index on disk and in memory, each entry the
sequence number of its upsert; `indexSeq` is the index's watermark, `saved` and
`indexed` the projector's checkpoint.  `Project`, `ProjectFails`,
`SaveCheckpoint`, `SaveFails`, `Advance` are the worker with a vector
projector, `Restart` a process death and reload, `SearchDirect` a search of the
index, `SearchIndex` and `SearchStatus` the two halves of
`Store.SearchVectors`.  `Persistent` tells a `FileVectorIndex` from an
`ExactVectorIndex`.  Scores, filters, expansions and `MaxLag` are left out, and
`RequireFresh` only turns a stale answer into an error.

### MemoryImport

The store is the set of things that were created (`born`), those deleted
(`dead`), and its sequence number; a thing is named by what its id is derived
from, such as `Session("s")` or an edge's type and ends.  `nodeSeq` is the number of the
mutation that created a node, `vectors` the `SourceSeq` in each `.kvec` file,
`entries` that of each entry in memory, and `indexedSeq` the index's watermark.  A client's call is at
a place (`at`: a row and one of thirteen slots, eight in the first
loop, five in `importEdges`) and in a phase of it.

- `ReadThing` is the Read, `WriteCreates`, `WriteAnswered` and `WriteRejected` are the
  outcomes of the Write (created; another import has used the key; an endpoint
  is missing or deleted).  They are two steps, because they are two calls of the Store.
- `ReadSeq` and `Upsert` are the two halves of `importEmbeddingVector`;
  `ReadTarget` is the test for the superseded memory; `Skip` passes a field the
  row does not have.
- `Fails` is an error return.  An upsert may fail with the vector's file installed
  (`Installed`) and the entry and watermark in memory as they were, when the
  `fsync` of the directory fails (`file_vector_index.go:87`).  `Crash` is the death of
  the process, perhaps inside a Write that had reached the log, and its restart, with
  `Reloaded` for the index, whose entries and watermark then come from the files.  `Call` starts an import, or posts a failed one
  again.  `Delete` is another program at a time when no import runs, as a store
  has one owner and the server deletes nothing.

Parsing and the clean-up of fields are reduced to `valid`; a failed fsync that
leaves a frame behind is the business of `KiloStore`, where it makes the store doubtful.
Ids are derived by hashing and taken to be distinct.

## 3. What the runs check

| run | distinct states | question |
| --- | --- | --- |
| `KiloStoreCore` | 217 513 | do crashes and failing writes leave a gap, block a store or spoil it? |
| `KiloStoreFaults` | 720 429 | and every I/O error?  What do callers see of it all? |
| `Projector` | 140 654 | are checkpoints, compaction and the feed sound, and do workers and Close make progress? |
| `ProjectionWait` | 1 023 481 | does a wait return, and miss nothing? |
| `CatalogSafety` | 383 337 | does replay rebuild what Apply made, and does the index agree with a scan? |
| `OwnerLockSafety` | 110 140 | is there one owner, and is nothing left locked? |
| `VectorSearchSafety` | 130 656 | does an answer cover what it claims? |
| `MemoryImport` | 268 986 | is a returned import complete, and an interrupted one harmless and resumable? |
| `KiloStoreOverlap`, `ProjectorCompactCrash`, `CatalogText`, `VectorSearchStatus` | violation | see section 5 |

**KiloStoreCore.** Three mutations (with a key, without, and oversized), two concurrent
`WriteSnapshot`s, three sequence numbers and three frames: enough for a snapshot,
a compaction that leaves frames for the next one, a write after it and a
second generation of both.  Writes can fail, wholly or with a part of the frame in
the file, and so can snapshots.  `CatalogContiguous` (replay yields 1 to
`durableSeq`, each once), `RefusalExplained` (Open refuses only what an unfinished frame, an
oversized one or an unfinished first header has left, the last only in a store that
acknowledged nothing), `TruncationCovered` (between any two steps of Compact the snapshot
covers what the log and the manifest have dropped), `WritableWhenOpen`
(`nextSeq` and `durableSeq` do not drift).

**KiloStoreFaults.** All five kinds of I/O error and one `WriteSnapshot`, four
frames so that a spoilt frame can be followed by others.  Acknowledged
mutations survive in every store that opens (`AckedNeverLost`), a key takes
effect once although a first answer was lost (`KeyedOnce`), and every step is one of
`DurableLog` or none (`ImplementsDurableLog`); `IInv` is the invariant of
the proofs, `TypeOK` included.  `RefusalExplained` and `WritableWhenOpen` are not
asked here: after a failed `CompactThrough` the Store stays open and every write
fails until it is opened again, and an Apply after a failed `fsync` leaves a file
with one number twice, which Open refuses.

**Projector.** Two projectors, three mutations; Close, Compact, crashes, and
failing `Project` calls and checkpoint files at any point, and a Compact that fails
before its truncation or with its manifest already installed.  `CheckpointCovers`,
`CompactionWaits` (a step that truncates the log leaves every checkpoint file
the events it still lacks), `CaughtUpIsHealthy` (a worker out of events shows no
old error), `TailMissesNothing` (a reader that asks for the number after the last it has
seen gets all that is not compacted, or as many newer entries as it allowed), `ImplementsFeed` (the refinement),
and the liveness properties `CatchesUp` and `CloseReturns`.  Two
projectors are needed for one to hold up the other's compaction; three events
for a compaction in the middle of what a projector still needs.

**ProjectionWait.** Two callers with any request (minimum, lag, timeout), one
mutation, a projector that comes into being and advances or not.
The deadline is computed in the tick of the timer or in the next, so that a timer
may fire before its deadline.  `NoMissedProgress` (nobody waits while satisfied),
`ParkedHasWaker` (nor without a helper yet to broadcast, unless the caller parked with its
timer over and its deadline ahead) and `WaitEnds` (every call returns, or ends in that
window).  That a call can end there is the code's behaviour: section 5.  One mutation makes
both a request that is satisfied late and one that never is; a caller calls
once, since a call leaves nothing behind but its helper.

**CatalogSafety.** Every sequence of four out of seventeen mutations of all
eleven types, with a snapshot, a failed or interrupted Apply and one restart
anywhere.  Four is the length of the longest chain in which one entity needs
another: two nodes, an edge, and a deletion under it, or a record, a chunk, a
span and a deletion.  `ReplaySucceeds` (what passed preflight passes again),
`ReplayRebuilds`, `ReferencesResolve`, `BodiesMatch`,
`RevisionsNeverReissued`, `RetriesAgree` (a keyed retry gets its first result,
in any process), `QueriesAgree` and `TraversalsAgree` (index against scan).

**OwnerLockSafety.** Three handles, two of them in one process, three terms: a
loser can be in the same process or another, and a third Open can find what the
second one left.  `OwnersExclude`, `NothingLeaks` and
`NewestOwnerWrites` (no checkpoint or snapshot is written for a Store after the
next one has the lock), `OwnerInv` (the invariant of the proofs, with
`MetadataNamesOwner` in it).

**VectorSearchSafety.** Two nodes, three mutations, one search, a
`FileVectorIndex`, failing files and restarts at any point.  `IndexCovers` (file and memory
hold the mutations up to the checkpoint, or one more), `SearchCovers` (who waited for a
mutation sees it), `DirectSound` (an index's own answer holds what its
`IndexedSeq` says).  Searches only
read, so one at a time shows what several would.

**MemoryImport.** Two clients and four pairs of files: the same row with every
field posted by both; two rows with vectors; a row that supersedes a later one
of its file, beside a file with one row twice; a file that is not accepted.  One error or
crash and one deletion, at any point.  `ContractKept` (what
`docs/SUGARFANG_PILOT_IMPORT.md` lists is there when an import returns, whoever created
it), `NothingDangles`, `CountsAreNew`, `RejectionsExplained` (only a deletion
makes the store refuse an import), `VectorsSourced`, `EdgesComeLast` and
`Resumes` (a failed import that is posted again returns, unless something was
deleted).  Two clients are enough for one to
create what the other has looked for; a third would find what a second does.

The inductive invariants of the proofs hold in these runs too.  `IInv` and `OwnerInv`
are among the properties; `ProjInv`, `RuntimeInv`, `WaitInv`, `CatInv`, `LiveInv`,
`IndexInv` and `ImportInv`, whose consequences are checked and which TLAPS proves, are
one line more in the configuration.  `OverlapInv` is for `KiloStoreCore.cfg` with
`CallersSerialize = FALSE` (438 809 states).

Symmetry is used where two values are interchangeable and no liveness is
checked: mutations of a kind, snapshotters, nodes.  `MaxSeq`, `MaxFrames`,
`MaxClock`, `MaxOpens` and `MaxTerm` bound behaviours only: an action that
would pass them is disabled.

**Deadlock** is checked everywhere but in `ProjectionWait`: each caller makes one
call and time is bounded, so this system does stop, and when callers return is
what `WaitEnds` says.

**Fairness.** A goroutine that can run does run: weak fairness of the worker's
own steps, of `Close` and `Compact` once begun, of a wait's caller and helper, and of
time.  That assumes that a `Project` call returns, which Close also does
(`store.go:204`); Close waits for ever for one that ignores its context.
Strong fairness of `ProjectSucceeds` and `SaveCheckpoint` says that what the
worker retries for ever (`projector.go:142`, `projector.go:150`) does not fail
every time: without it nothing could catch up.  Nothing is assumed to arrive:
no fairness for Apply, RegisterProjector, Close, cancellation or progress of a
projector that somebody waits for.  In `MemoryImport` the goroutine of a request runs
on (`Continue`), and a client posts an import that failed again, which is an
assumption on clients; a rejected one need not be posted again.

## 4. What is proved

TLAPS proves these for every value of the constants: any number of mutations, handles,
projectors, callers, nodes and faults, and any bound.

| theorem | assumes | says |
| --- | --- | --- |
| `KiloStoreProofs`: `TypeCorrect` | | `[]TypeOK` |
| `StoreInvariant`, `AckedSafe`, `KeyedSafe`, `TruncationSafe` | `CallersSerialize` | `IInv`, `AckedNeverLost`, `KeyedOnce`, `TruncationCovered`, all under every fault |
| `DurableLogProofs`: `StoreIsDurableLog` | `CallersSerialize` | `Spec => ImplementsDurableLog`, under every fault |
| `CatalogDense`, `SeqUsedOnce` | `CallersSerialize` | `CatalogContiguous`, `SeqNeverReused`, under every fault |
| `OnlyBadWritesRefused`, `LinesContiguous` | `CallersSerialize`, no failed fsync | `RefusalExplained`, `SegmentContiguous` |
| `OpenIsWritable` | `CallersSerialize`, no failed fsync or Compact | `WritableWhenOpen` |
| `LogKeepsPromise`, `StoreKeepsPromise` | none; `CallersSerialize` | every `DurableLog`, and so every store, has `[]Promise` |
| `OverlapInvariant`, `OverlapContained` | no failed fsync or Compact | `OverlapInv`; `CatalogContiguous`, `KeyedOnce`, `SeqNeverReused`, `LossContained`, whenever callers Compact |
| `ProjectorProofs`: `ProjectorInvariant`, `CheckpointSafe`, `HealthSafe`, `TailSafe` | `CompactAtomic` | `ProjInv`, `CheckpointCovers`, `CaughtUpIsHealthy`, `TailMissesNothing` |
| `RuntimeInvariant`, `CompactionSafe`, `LogCoverSafe`, `CloseProgress` | | `RuntimeInv`, `CompactionWaits`, `CheckpointsCoverLog`, `CloseAdvances`, whatever fails |
| `FeedImplemented` | `CompactAtomic` | `Spec => ImplementsFeed`: every step is a step of `ProjectionFeed` or a stutter |
| `FeedKeepsPromise`, `RuntimeKeepsPromise` | none; `CompactAtomic` | every `ProjectionFeed`, and so the runtime, has `[]Promise` |
| `ProjectionWaitProofs`: `WaitInvariant`, `ProgressSeen`, `WakerSafe` | | `WaitInv`, `NoMissedProgress`, `ParkedHasWaker`, for any delay between timer and deadline |
| `CatalogProofs`: `CatalogInvariant`, `ReplaySafe`, `RebuildSafe`, `BodiesSafe`, `RevisionsSafe`, `RetriesSafe` | `IdsAreText` | `CatInv` and the properties of the same names |
| `LiveInvariant`, `ReferencesSafe`, `QueriesSafe`, `TraversalsSafe` | | `LiveInv`, `ReferencesResolve`, `QueriesAgree`, `TraversalsAgree`, for ids of any bytes |
| `OwnerLockProofs`: `OwnerInvariant`, `OwnersExcluded`, `MetadataSafe`, `NoLeak` | | `OwnerInv` and the properties |
| `NewestWrites` | `CallersWait` | `NewestOwnerWrites` |
| `VectorSearchProofs`: `IndexInvariant`, `IndexSafe`, `SearchSafe`, `DirectSafe` | `Persistent` | `IndexInv` and the properties |
| `MemoryImportProofs`: `ImportInvariant`, `ImportComplete`, `ImportClosed`, `ImportCountsNew`, `ImportRefusals`, `ImportSourced`, `ImportOrder` | | `ImportInv`, `ContractKept`, `NothingDangles`, `CountsAreNew`, `RejectionsExplained`, `VectorsSourced`, `EdgesComeLast` |
| `ImportAdvances` | | `CallsAdvance` |

The assumptions are not conveniences: each is where the code stops doing what it
promises, and section 5 shows what happens without it.

- `CallersSerialize`: nobody calls Compact while a WriteSnapshot of theirs runs.
- No failed fsync, no failed Compact: `"sync"`, or `"sync"` and `"compact"`, are not
  in `Faults`; all other I/O errors, and crashes, remain.
- `CompactAtomic`: a Compact that has truncated the log gets as far as renaming its
  manifest into place; it may fail after that.
- `IdsAreText`: ids are valid UTF-8.
- `CallersWait`: nobody closes a Store while a WriteSnapshot of theirs runs.
- `Persistent`: the index is a `FileVectorIndex`.

None of the properties is inductive.  What each invariant adds:

- `IInv`: that no acknowledged mutation is lost depends on files that a later Open reads.
  `DiskSound` says what the disk promises: every snapshot,
  installed or on its way, holds all that happened up to its number
  (`SnapsComplete`), and a segment that can be replayed holds all that happened since
  its base, agrees with the snapshots where they overlap and reaches as far as they do
  (`SegmentSound`).  `OpenSound`, `ReplaySound` and `CompactSound` tie the
  memory to it.  A spoilt segment is not `Replayable` and promises nothing;
  that is why it holds under every fault.
  `DurableLogProofs` adds to it that catalogs and snapshots are gap-free and that
  a replayable segment holds at most one frame beyond an open catalog: the entry in
  doubt.  `InStep` adds what holds unless an fsync fails: a segment is only ever
  spoilt by an oversized frame, by an unfinished line, or before its header was whole,
  and the log of an open store counts as its catalog does.
- `OverlapInv` gives up that a snapshot covers what the log has dropped, which
  an overlap breaks, and keeps that all catalogs, snapshots and replayable segments are
  beginnings of one history (`HistoryOne`).  A catalog from an older snapshot is
  shorter than that history, but then the segment's base or a manifest lies beyond it
  (`Follows`, `JustTruncated`, `Cut`): the log's `nextSeq` differs from the
  catalog's, Append refuses, and no number is given out again.
- `ProjInv`: a checkpoint in memory is its file's or one event behind
  (`CheckpointsSound`); the queue holds all that an admitted projector may need
  (`QueueSound`); what a worker is handling is the next event or the last
  (`WorkersSound`); the manifest on disk says where the log starts, except inside Compact
  (`LogSound`), while the store in memory may know of an older one only.  From it, `NextIsSuccessor`: the first pending event is the
  checkpoint's successor, so that the feed has no gap.
- `RuntimeInv`: what remains when Compact may die before its manifest.  A checkpoint, a
  file and the event a worker handles cover what `projected` has of the events the log
  still holds; the queue is what the log ends with, and perhaps events it has dropped;
  once Close waits, no worker is in Cond.Wait and no Compact has the mutex; Compact's gate
  sees every projector that has a file, at a mark its file has reached, and
  keeps it so until the log is truncated (`GateSound`).  That the queue
  is a run of numbers is what `TailMissesNothing` needs (`TailOfRun` counts them).
- `WaitInv`: a parked call has a timeout; a deadline is at most `MaxDelay` later than
  its timer; and a helper that has made its choice had a reason, a cancelled context or
  a timer that fired.  The second is a reason for its caller only once the deadline has
  passed too.
- `CatInv`: `history[i]` is what the first i mutations make, and each
  mutation's checks hold of the catalog before it (`HistorySound`); snapshot and memory
  are points of that history (`MemorySound`); what was answered stands in it
  (`PromisesSound`).  `IndexFollows` shows that updating the
  index incrementally gives the index of the updated catalog.
- `LiveInv`: the part that needs no trust in what was written.  Replay puts a mutation
  through `Applies` again, so whatever its ids were read as, what it refers to is there.
- `OwnerInv`: registry, advisory lock and terms agree with the step each handle has reached.
- `ImportInv`: all that lies behind the place a call has come to is in the store
  (`PassedIsThere`), whoever put it there, and what a call has read of its place still
  holds (`ReadsHold`), since things are never removed.  `NodesNumbered` ties a
  vector's number to its node's.
- `IndexInv`: the index is current for the checkpoint or the event after it
  (`PositionSound`, `EventSound`), and answers given stay true.

`Promise` of an abstract module is what a reader wants of it, stated over its
variables and proved of its specification alone; the refinement carries it over to
the store and the runtime.  For a `DurableLog` that is: entries numbered 1 to n, no key
twice, every acknowledged entry there.  For a `ProjectionFeed`: the first events,
none left out, and marks only on what was given.

Two of the liveness properties have a safety half that is proved.  `CloseAdvances`: while
Close waits for the workers, each of their steps brings one nearer its end and
none is set back, so fairness alone is left to assume.  `CallsAdvance`: an import's
call goes forward through its places and phases (`Come`), whatever runs beside it, and
ends early only by a fault or for something deleted.

Only proved: these two, `CheckpointsCoverLog`, `SegmentContiguous`,
`LossContained`, both `Promise`s, `SeqNeverReused` and `MetadataNamesOwner`, and the
inductive invariants named above.  TLC finds no violation of them on the instances of the
runs.

Only model-checked: the liveness properties `CatchesUp`, `CloseReturns`,
`WaitEnds` and `Resumes` themselves, which are beyond TLAPS.

## 5. Where the code and its documents disagree

Each of these runs ends in a counterexample; `PROJECT.json` quotes the documents.

- `KiloStoreOverlap` (`snapshot.go:59`): WriteSnapshot renames its file without
  the lock.  A Compact between its copy and its rename installs a newer
  snapshot and truncates the log; the rename puts the older one back, and
  acknowledged mutations are in neither.  The damage has a bound, `OverlapContained`:
  what is lost is the end of the catalog, and a store that lost it accepts no
  write, so that nothing is built on the gap.
- `ProjectorCompactCrash` (`compaction.go:68-72`, `projector.go:50`): the gate
  for new projectors is set by the manifest.  When Compact truncates the log and fails
  before the manifest, a new projector is admitted and its checkpoint claims
  events it was never given.
- `CatalogText` (`snapshot.go:183`, `store.go:639`): ids that are not UTF-8 are
  accepted, and the store cannot be opened again.
- `VectorSearchStatus` (`vector_search.go:188-204`): the status is read after the
  index, and an answer that lacks the mutation asked for is called fresh.

More can be seen by changing one line of a configuration:

- The timer of a wait is started before its deadline is computed
  (`projector.go:84-86`).  The helper's only broadcast can come before the deadline, and
  the caller goes back to sleep with nothing left to wake it but another mutation or
  checkpoint, not even the cancelling of its context, although `docs/API.md:113` has
  waits respect both: `ProjectionWait.cfg` with `PROPERTY WaitReturns`.  `WaitEnds` and
  `WakerSafe` show that nothing else leaves a caller so.
- A Compact whose manifest is renamed into place and whose directory sync then fails
  (`compaction.go:185-188`) leaves `compactionSeq` and the queue in memory behind the
  files.  Until the next restart a projector without a checkpoint is admitted, which
  `docs/FILE_FORMAT.md:113` rules out, and it is given all from the queue.  A
  process that dies before it has caught up leaves a checkpoint file below the log: it
  cannot register again and holds up every later Compact.  `Projector.cfg` with
  `INVARIANT FilesServed`.
- A failed `fsync` (`log.go:120`) leaves the frame in the file and `nextSeq`
  where it was; the next Apply writes a second frame of that number, which
  `docs/FILE_FORMAT.md:145` forbids and Open refuses: `KiloStoreCore.cfg` with
  `Faults = {"sync"}` and `INVARIANT SegmentContiguous`.  `LinesContiguous` and
  `OnlyBadWritesRefused` show that no other I/O error does this.
- A WriteSnapshot installs its file after Close and after the next owner's Open
  (`README.md:130` of the repository has all writes go through one owner):
  `OwnerLockSafety.cfg` with `CallersWait = FALSE`.
- A second Close returns while the first still waits for the projectors and holds
  the lock (`store.go:190`): `OwnerLockSafety.cfg` with
  `INVARIANT CloseReleases`.
- An `ExactVectorIndex` is empty after a restart while its projector resumes
  behind the checkpoint and reports it (`vector_search.go:82`):
  `VectorSearchSafety.cfg` with `Persistent = FALSE`.
- Two imports that create the same record both count it as created, the
  second because it does not look whether its Write was answered from the key
  (`memory.go:218`); `docs/ADAPTERS.md:76` has replays reported as skipped:
  `MemoryImport.cfg` with `INVARIANT CountedOnce`.
- A vector's `SourceSeq` is the watermark of the whole store, so the index's
  `IndexedSeq` can pass nodes whose vectors are still to come, or were lost with
  their import (`memory.go:254`): `INVARIANT IndexedSeqCovers`.
- An import writes a vector again although its node is deleted (`memory.go:156`):
  `INVARIANT DeadStaysOut`.

Some consequences can be read off the models without a run of their own.  An
acknowledged mutation above the line limit makes the store unreadable at the next Open
(`Oversized`); a death inside the first `createSegment` leaves a directory that no
Open accepts (`CreateFails`).  Once a session, mission or superseded memory of a row is
deleted, a later import that still has to create an edge to it is rejected part-way,
each time (`WriteRejected`), which the server reports as a bad request.  After an import whose last write is not a
vector, `validate-memory --require-fresh` finds the index stale, since it compares
`IndexedSeq` with `DurableSeq`.

Two things that look like faults are not counted: a reloaded `FileVectorIndex`
can call a direct search stale although all is projected, which
`docs/TASK_LIST.md` accepts; and a Compact repeated after only its
manifest failed reports an error, as nothing says that it must succeed.

## 6. What is not modelled

- **Pilot validation** reads a store that nothing else writes and counts what its
  searches find.  Its performance loop is a pool of goroutines over channels that have
  room for every query, so no send blocks.
- **CLI** opens a store, makes one call and closes it; the imports among them are those of
  `MemoryImport`.
- **HTTP API**, apart from imports: each handler is one read of the Store.
- **SDK**: `Write`, `Read`, `Query` and `Search` choose one Store call by the
  field that is set.
- **A frame left by a failed fsync, seen from the catalog**: if the retry of a
  chunk has other content and fails too, the frame in the log and the body on disk differ
  (`chunk.go:166`).  `Catalog` has no frame whose call failed; `KiloStore` has, without
  bodies.
- **Loss of power**: writes that reached the file survive.
- **Scores, filters, formats**: the arithmetic of similarity, the bytes of `.kvec`
  files, names and paths, times other than those logged.

## 7. The plan

Built, in this order: KiloStore and its proofs; ProjectorRuntime with
ProjectionFeed; ProjectionWait; Catalog; OwnerLock; VectorSearch; MemoryImport;
DurableLog with the refinement, and the header and oversized frames in
KiloStore; Tail; then what holds with fewer assumptions (`RuntimeInv`, `LiveInv`,
`OverlapInv`, single faults in `InStep`), and what the abstract modules promise.
Next:

1. A frame in `Catalog`'s log whose call failed, for the body it may no longer match.
2. `BodiesMatch` and `RevisionsNeverReissued` for stores in which only ids of other
   kinds are not text.
3. A composition of `KiloStore` and `OwnerLock`, with the files of the one
   written by the handles of the other.
