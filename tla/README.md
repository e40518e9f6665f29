# TLA+ verification of ZeroFlush

ZeroFlush is a fork of RocksDB (`src/source/rocksdb-zeroflush`) in which a write
goes only to a partitioned write-ahead log and to a slim in-memory index of
locators. The log files themselves are the sorted runs to be: when enough of a
partition has been written its log is *sealed*, and a flush job *materializes*
sealed logs into SST files. This directory models that cycle, checks it with TLC
on small instances, and proves the central part of it with TLAPS.

Paths below are relative to `src/source/rocksdb-zeroflush/`.

## 1. The system and its parts

| Part | Code | State it owns | Modelled in |
|---|---|---|---|
| Sealed file cache | `zeroflush/sealed_file_cache.*` | epochs and their sealed generations, recovery set, skip set, unlink queues | `SealedFileCache` |
| Epoch life cycle | `zeroflush/zeroflush_db.cc`, `db/flush_job.cc`, `db/memtable.cc`, `db/db_impl/db_impl_write.cc` | epoch counter, immutable memtables carrying an epoch, frozen indexes, flush job | `ZeroFlushDB` |
| Partitioned WAL | `zeroflush/wal_manager.*` | one file per (partition, generation), buffers, byte counters | `PartitionedWal` |
| Record format, scanner | `zeroflush/wal_format.*` | none (pure) | `PartitionedWal` (abstracted to cells) |
| Write path | `zeroflush/zeroflush_db.cc`, `db/db_impl/db_impl_write.cc` | the write group, the touched bitmap | `PartitionedWal`, `Routing` |
| Routing tables, sampler | `zeroflush/partition_table.*` | versions of the table, reservoir of keys | `PartitionTable`, `Routing` |
| ZFPROPS | `zeroflush/zeroflush_db.cc` | the persisted tables | `Routing` |
| Recovery | `zeroflush/zeroflush_db.cc` (`Recover`, `Open`) | rebuilds all of the above | all three state machines |
| Partition index set | `zeroflush/partition_index.h` | active and frozen index per partition | `Routing`, `ZeroFlushDB` (atomic steps) |
| Materialize job | `zeroflush/materialize_job.*` | tasks, outputs, level choice | `ZeroFlushDB` (direct path) |
| Read path | `zeroflush/zeroflush_db.cc`, `db/db_impl/db_impl.cc` | SuperVersion, locator in hand | `ZeroFlushDB`, `PartitionedWal`, `Routing` |
| Slim memtable | `zeroflush/slim_memtable.*` | left empty by the current write path | not modelled |
| Computational storage, FPGA | `zeroflush/csd_*`, `zeroflush/zf_seal.*`, `AcceleratorKernel*` | device sessions | not modelled: device I/O and byte formats |
| Statistics, DestroyDB | `zeroflush/zeroflush_db.*` | counters | not modelled: nothing depends on them |

How the parts interact. A write group is led by one thread, which under the DB
mutex may first seal a batch of partitions: the log of each is frozen (a new
generation starts), its active index joins the frozen chain, the sealed
generations are registered with the sealed file cache under a new epoch, and an
*empty* memtable that carries the epoch number becomes immutable. Then the
writers of the group append and index their records, in parallel, and sync the
partitions they touched. The flush job picks every immutable memtable, a pool of
workers turns each (epoch, partition) into an SST, and the outputs are installed
at the base level or in L0. When a flushed memtable is destroyed, that is when no
SuperVersion references it any more, its epoch is released: indexes first, then
the cache's registration, then the files. Readers hold no mutex: they take a
SuperVersion, look in the index of the partition their key routes to, read the
value through the locator, and fall back to the SSTs. At open, every log file
found is replayed into the index and waits in the recovery set until the next
seal adopts it.

## 2. Modules

### DurableStore
The abstract specification: a map from partitions to sets of acknowledged
versions, in which the only step adds one new version. Nothing is ever lost and
nothing appears by itself.

### SealedFileCache
One module for `SealedFileCache` together with the part of the WAL manager that
decides which files exist. `files` is the directory, `wal_gen` the active
generation of each partition; `epochs`, `gens`, `gen_refs`,
`recovery_gens`, `skip_gens`, `pending_unlink` are members of the class;
`releasing`, `to_unlink`, `purging`, `batch` and `se_gens` are locals of calls in
progress. A seal is three kinds of step, because a reader may run between them.

| Action | Code |
|---|---|
| `EnsureOpenForWrite` | the first append creates the file of the active generation |
| `SealEpoch` | `FreezeBatchPartitions` takes an epoch number and a batch |
| `Freeze` | `PartitionedWalManager::Freeze` of one partition of the batch |
| `RegisterEpoch` | `AddEpochWithRecoveryAdoption`, after the last partition |
| `HandOffSkippedToRecovery` | skipped generations leave their epoch |
| `ReleaseEpoch`, `ReleaseGens`, `QueueUnlink` | the three critical sections of a release: copy the epoch's generations, drop their registration, queue the files |
| `PurgePending`, `DeleteFile` | `PurgePending` swaps the queue out, then deletes one file at a time; a delete may fail and leave the file |
| `CacheCrash` | process death and reopen: `Open` rescans the directory and `Recover` registers every sealed file |

The LRU of open handles does not affect which file is served, and is left out.

### ZeroFlushDB
Extends `SealedFileCache` with the memtables, the index, the flush job, L0 and the
base level, native compaction, readers and crashes. One hot key per partition is
overwritten in every generation, so a *version* is a generation number and "is
this read stale" is a comparison of numbers.

| Action | Code |
|---|---|
| `Write` | a synchronous write to a partition |
| `FreezeBatchPartitions`, `FreezePartition`, `SwitchMemtable` | `ZeroFlushContext::FreezeBatchPartitions`: the choice of the batch, WAL and index of one partition after the other, the registration and the memtable switch |
| `PickMemTables` | the flush job takes all pending epochs (it asserts a single job) |
| `MaterializePartition` | one task of the worker pool; the output's `epoch_number` is drawn when it is built. `MayFinish` says which tasks can be next, given `Workers` |
| `Install` | level choice of every output (`PicksBase`), `LogAndApply`, memtables become flushed |
| `FlushFails`, `Resume` | a task or the manifest fails: outputs are dropped, the memtables stay and are retried; depending on its severity the error also stops background work until it is cleared (`Resume`, external) |
| `StartCompaction`, `FinishCompaction` | RocksDB's own L0 compaction, from how the ZeroFlush code consults it (external) |
| `ReleaseFrozen`, `DestroyMemTable`, `FinishRelease` | `MemTable::~MemTable`, `ReleaseEpoch`, and the cache's release |
| `PurgeSealedFiles`, `UnlinkSealed` | `DBImpl::PurgeObsoleteFiles` of some background job: take the unlink queue, then delete file by file |
| `AcquireSuperVersion`, `LookupIndex`, `ReleaseSuperVersion` | `Get` or an iterator |
| `Crash` | process death and recovery: everything on disk is indexed again |

The single base level stands for everything below L0. What needs the DB mutex (a
write, another seal, picking memtables, an install, a compaction's start and end)
waits while a seal runs; readers, pool workers, releases and purges do not.

### PartitionedWal
`PartitionedWalManager` at the level of bytes: a record is two cells, a file is a
sequence of cells of which a prefix is stable, a partition has a buffer, and a
locator is (partition, generation, offset). Decoding succeeds exactly on the two
cells of one record in order, which is what the magic number and the checksum
give. `StartGroup` contains the seal decision (`ShouldSeal`, `Batch`, in the
code's order of conditions), `AddRecord` is one append by one of the group's
threads, including the flush of a full buffer, `SyncTouchedPartitions` decodes the
touched bitmap, `EndGroup` acknowledges the group or stops the database;
`BeginRead` and `FinishRead` are the two lock sections of `ReadValue`;
`ProcessCrash`, `PowerFailure`, `Close`, `Open` are the restarts. Partition `P`
stands for the range-delete partition.

### PartitionTable and Routing
`PartitionTable` has the pure operators: `Route` (`std::upper_bound`),
`InRangeOf`, `Quantiles`, `L1Boundaries`. `Routing` is the state machine over
them: versions of the table, the version a write group is bound to *before* it
seals, sampling, learning or aligning a table at a seal, index chains, reads
routed by the current table, ZFPROPS, and the reopen that re-routes what it
replays. The routing mode is chosen in `Init` and never changes.

## 3. Model checking

`tlc -workers 2 -config <cfg> <module>`. State counts are distinct states.

| Run | Module, cfg | Properties | States | Result |
|---|---|---|---|---|
| cache | SealedFileCache, MCSealedFileCache | `CacheTypeOK` `ReadableIsSafe` `OneOwner` `RefsMatchGens` `GenMonotone` | 7.8k | holds |
| lifecycle | ZeroFlushDB, MCLifecycle | `TypeOK` `NoAckedLoss` `IndexedIsReadable` `MissMeansInstalled` `L0Ordered` | 1.3M | holds |
| crash | ZeroFlushDB, MCCrash | `NoAckedLoss` `IndexedIsReadable` `PinnedStaysReadable` `ImplementsStore` `SealedIsReclaimed` | 35k | holds |
| wal_crash | PartitionedWal, MCWalCrash | `WalTypeOK` `LocatorsResolve` `SyncedIsRecovered` `CountersExact` `AppendsToNewest` | 296k | holds |
| wal_read | PartitionedWal, MCWalRead | `LocatorsResolve` `SealedReadIsOwn` `SealedIsWhole` | 71k | holds |
| routing | Routing, MCRouting | `RoutingTypeOK` `SettledReadsNewest` `RouteMatchesRange` `LearnedIsBalanced` | 124k | holds |
| parallel_pool | ZeroFlushDB, MCParallelPool | `L0Ordered` | | violated |
| seal_window | ZeroFlushDB, MCSealWindow | `SealedLocatorRegistered` | | violated |
| iterator | ZeroFlushDB, MCIterator | `LocatorReadable` | | violated |
| wal_bitmap | PartitionedWal, MCWalBitmap | `SyncedIsIndexed` | | violated |
| wal_race | PartitionedWal, MCWalRace | `NeverReadsAnother` | | violated |
| route_switch | Routing, MCRouteSwitch | `ReadsNewest` | | violated |

### What the passing runs show
* **cache**: a file the cache serves, or is about to register, is on disk and in no unlink queue, a sealed
  generation has one owner, reference counts agree with registrations, and a
  generation number never goes back, through hand-offs, adoptions, overlapping
  releases and purges, failed deletes and reopens.
* **lifecycle**: with hash routing (the default; any two partitions overlap), partial
  batches, two memtables in one flush, a failed flush and native compaction, no
  acknowledged version is lost, every indexed generation can be read except in the
  window of *seal_window*, and a read that misses the index finds the newest version
  in the SSTs. The last two properties need a single pool worker and no crash: see
  *parallel_pool* and section 6.
* **crash**: with two crashes, also in the middle of a seal, and a failed flush the
  database implements `DurableStore`; an epoch stays whole while a SuperVersion
  references it, and is eventually reclaimed, on the conditions named under
  *Fairness*.
* **wal_crash**: one writer, two partitions; buffers, seals, clean restarts, process
  crashes and power losses that keep any part of what was not synced, three restarts.
  Locators resolve, the counters `ShouldSeal` reads are exact, and a synced record is
  found by every later recovery, with one exception that the property names: a record
  appended behind a torn tail (section 6).
* **wal_read**: two parallel writers, a reader, range deletes and the index budget.
* **routing**: in each mode, reads are exact whenever no record of another routing is
  left (in hash and static mode: always), `Route` and `RangeOf` agree on boundary keys,
  learned tables split distinct samples evenly.

### What the violated runs show
Each property states what a comment or a design document says; the quotations are
in `PROJECT.json`.
* **parallel_pool**: `epoch_number`s are drawn inside pool workers, so with
  `materialize_parallelism > 1` (default 8) the L0 files of two epochs can sort in
  the wrong order, against `db/flush_job.cc:1381`.
* **seal_window**: a seal freezes WAL and index partition by partition and registers
  the generations after the last one. A `Get` in between finds the locator of a frozen
  generation that `SealedFileCache::Get` refuses, and falls through to SSTs that do
  not have the record, against `zeroflush/zeroflush_db.cc:1054`.
* **iterator**: a partition left out of a batch is sealed later under an epoch that the
  reader's SuperVersion does not reference, so `ReleaseEpoch` is not always safe in
  the sense of `db/memtable.cc:236`: the locator a reader holds can become
  unreadable while its own SSTs do not have the record.
* **wal_bitmap**: with as many partitions as bits (the default, 64), the last partition
  shares its bit with the range-delete partition and is not synced.
* **wal_race**: a seal between the two lock sections of `ReadValue` makes it read the
  same offset of the next file.
* **route_switch**: after a learned table is installed, records indexed under the old
  one are not found until they are materialized, against I5 of `M3_DESIGN.md`.

### Bounds
The bounds are the smallest at which the behaviours of interest occur. Two
partitions are needed for a partial batch and for cross-partition overlap. Three
generations are needed for one to be materialized, one to be sealed and one
active. Two epochs can be in one flush and be released in either order; the third
in *lifecycle* is sealed while a flush of the first two runs. *crash* has one
partition with three generations, and two crashes, so that what a first recovery
registered meets a second one. In *wal_crash* three restarts let a power loss tear a
file, the reopened file be appended to and synced, and two more recoveries scan it;
`Target` is two records and `BufLimit` lies between one and two, so a record can be
partly on disk; `Width` > P keeps the bitmap from aliasing, and *wal_read* uses
`Width` = P = 1 for the aliased case. In *routing* three keys and one boundary
give a key below, at and above it, and two reopens restore a table that a first
reopen had already restored. `MaxGen`, `MaxEpoch`, `MaxRec`, `MaxSeq`, `MaxFail`,
`MaxCrash` only cap what is unbounded. At the caps the models stop, so deadlock
checking is off in all runs but *cache*, which always has a crash step.

### Fairness
`FairSpec` assumes that a thread which has begun an operation goes on with it: the
seal (`SealThread`), the flush job and its workers (`FlushThread`; a requested flush is
picked up while background work is not stopped), the destruction of a memtable nobody
references (`DestroyThread`), the unlinks of a purge, and each reader finishing with
its SuperVersion. An iterator that is never closed is outside this assumption, and
does keep its epochs. Nothing is assumed of writers, compactions, failures, crashes,
`Resume` or the arrival of a purge; failures are bounded (`MaxFail`).

What the code does not guarantee is a premise inside `SealedIsReclaimed` instead. A
hard background error stops the scheduling of flushes until it is cleared
(`db/db_impl/db_impl_compaction_flush.cc:3195`), so the erasure of an epoch is claimed
if background work is not stopped for good. A flush purges
(`db_impl_compaction_flush.cc:3870`) before its own memtables are destroyed
(`job_context.Clean()`), and `PurgeObsoleteFiles` is the only caller of
`PurgeSealedFiles`, so the files a flush releases wait for a later background job:
that they leave the queue is claimed if purges keep coming. A delete that fails is
ignored by the code and leaves its file until the next open.

## 4. Proofs

`tlapm SealedFileCacheProofs.tla`, `tlapm ZeroFlushDBProofs.tla`,
`tlapm PartitionTableProofs.tla`. The theorems hold for every set of partitions
and readers and every bound; the assumptions on constants are the named `ASSUME`s
of the modules (natural bounds, at least one worker and one memtable).

| Theorem | Statement |
|---|---|
| `CacheTypeCorrect`, `ReadableSafety`, `Ownership`, `GenNeverDecreases` | `CacheSpec` implies `CacheTypeOK`, `ReadableIsSafe`, `OneOwner` and `RefsMatchGens`, `GenMonotone` |
| `ImplementsCache` | `Spec => CacheSpec`: the database uses the cache only through the cache's own steps |
| `TypeCorrect`, `NoLoss`, `IndexedReadable`, `PinnedReadable` | `Spec` implies `TypeOK`, `NoAckedLoss`, `IndexedIsReadable`, `PinnedStaysReadable` |
| `StoreRefinement` | `Spec => ImplementsStore`: the database implements `DurableStore` |
| `RouteInRange`, `RangesDisjoint` | for ascending boundaries, `Route` sends a key to the partition whose range holds it, and ranges do not overlap |

**The cache.** `ReadableIsSafe` is not inductive alone: a file could be served and
doomed if a generation had two owners, or if a release in progress held a
generation its epoch no longer owns. `CacheInv` adds `OneOwner`, `RefsMatchGens`,
`ReleasingOwned` (what a release copied still belongs to its epoch),
`DoomedIsSealed` (only generations below the active one are in unlink queues),
`FilesUpToActive` (the active file exists once the partition has sealed and is the
newest) and `SealInFlight` (the epoch number of a running seal is free, and the
partitions it has yet to freeze have a file). `FilesUpToActive` is what makes the
reopen find the right generation (`LargestIsActive`), and so gives `GenMonotone` over
crashes; `SealInFlight` carries single ownership from the start of a seal to its
registration.

**The database.** `ImplementsCache` carries the cache's invariant over. `DBInv`
adds what ties the index, the memtables and the SSTs to the cache:
* `EpochStates`: epochs of living memtables are registered, and not being released;
* `OutputsMatchEpochs`: a finished output of a running job holds exactly the
  generations of its epoch and partition;
* `ReleasedIsMaterialized`: the generations of an epoch that is no longer waiting
  for a flush, and all doomed files, are in SSTs. This is the reason nothing is
  lost, and it needs `OutputsMatchEpochs` at `Install`;
* `SstIsSealed`, `DirtyOnDisk`, `BatchIsDirty`: SSTs hold only sealed generations, an
  active generation with records has a file, and a seal freezes only such partitions;
* `IndexedIsOwned`, `UnflushedIsIndexed`, `ReleasingIsUnindexed`: the index and the
  cache (with what the running seal will register) agree, in the order in which
  `ReleaseEpoch` takes them apart;
* `PinsHold`: a registered epoch a SuperVersion references is still held by a memtable.

`IndexedReadable` therefore says what the code gives: between `Freeze` and the
registration a frozen generation is on disk and indexed, but not yet served.

Each action has a lemma with one step per conjunct it can disturb. The refinement
then needs only that what is durable equals what was written (`DurableIsWritten`)
and that only `Write` changes the latter (`OnlyWriteAcks`, `WriteAcks`).

## 5. What is only model-checked
`SealedIsReclaimed` (liveness is outside what the provers handle),
`MissMeansInstalled` and `L0Ordered`, and all properties of `PartitionedWal` and
`Routing`. `RouteMatchesRange` rests on the two table theorems, but is itself
checked by TLC only.

## 6. Limits and observations
Not modelled: file-system errors in the WAL manager (`Freeze` ignores them), the
merge into the base level (`merge_into_base_level`, off by default) and skip
decisions, the bloom filter and the two critical sections of
`PartitionIndexSet::Freeze`, range-tombstone visibility, snapshots, merge
operands, the byte layout of files, SST building, and the parts marked so in
section 1. Registration and memtable switch are one step of `ZeroFlushDB`; the code
releases the DB mutex inside `SwitchMemtable`, after the registration, so other work
under the mutex could come between the two. `ZeroFlushDB` writes synchronously; losing unsynced data is in
`PartitionedWal`. `Routing` takes materialization and release as one step.

While exploring, TLC also showed the following, for which no run is kept:
* after a crash in the middle of a purge, an older generation can be replayed while
  its newer sibling is gone, so `MissMeansInstalled` and the index disagree about
  which version is newest; `lifecycle` therefore has no crashes;
* a partition over its target at open is not sealed until it is written again,
  because `any_over_target_` is set only by `Append`;
* `Open` leaves the torn tail of a power loss in place and the partition appends
  behind it (`wal_manager.cc:256`, `:387`); the next recovery's scan stops at the torn
  bytes (`:88`), so a record that was written and synced in between is on disk and not
  indexed. With `SyncedIsIndexed` instead of `SyncedIsRecovered` *wal_crash* shows
  this in twelve states, against `tools/zf_test.cc:1071`;
* for the same reason the file that is sealed next is not whole, so `SealedIsWhole` is
  checked without power loss;
* the range-delete partition is not opened at start and begins again at generation 0;
* a table learned at a batch seal is not written to ZFPROPS by that seal;
* in kAlignL1 nothing feeds the sampler, so its fallback has no samples.

## 7. Plan
1. `PartitionIndexSet`: freeze in two critical sections, bloom filter rebuild,
   readers and memory accounting; refines the atomic index of `ZeroFlushDB`.
2. `MaterializePlan`: plans made under the mutex and run outside it, overlap with
   compaction, superseded outputs, skip and hand-off before the manifest write.
   Composed with `SealedFileCache`, with `DurableStore` as abstract specification.
3. Error paths of the WAL: failing flush, sync and open during a seal; range
   tombstones from write to recovery.
4. Proofs: `CountersExact` and `LocatorsResolve` for `PartitionedWal` (through an
   invariant on file, buffer and counters), `MissMeansInstalled` for one worker
   without crashes (through the order of installs), `RouteMatchesRange` for
   `Routing`. The modules use no recursive operators, so all can carry theorems.
