----------------------------- MODULE ZeroFlushDB -----------------------------
(***************************************************************************)
(* The write -> seal -> materialize -> release cycle of ZeroFlush, with    *)
(* concurrent readers, native L0 compaction and crashes.                   *)
(*                                                                         *)
(* Granularity: one hot key per partition, overwritten in every            *)
(* generation, so the version of the key is the number of the generation   *)
(* that holds it.  dirty[p] says the active generation has records.        *)
(*                                                                         *)
(* Configuration modelled: merge_into_base_level = false (the default), in *)
(* which every partition plan is kDirect; synchronous writes.  Sizes are   *)
(* abstracted: ShouldSeal may fire whenever something is dirty, for any    *)
(* non-empty batch of dirty partitions.                                    *)
(*                                                                         *)
(* What runs under the DB mutex (a write, a seal, picking memtables, the   *)
(* install, the start and the end of a compaction) waits for a running     *)
(* seal; readers, the worker pool, the release and the purge do not.       *)
(*                                                                         *)
(* The frozen chain of a partition is ordered by generation (Freeze pushes *)
(* increasing generations, Recover replays files in sequence order), so it *)
(* is a set of generation numbers.  An SST's position inside L0 is its     *)
(* epoch_number; only the order of those numbers matters.  The one base    *)
(* level stands for everything below L0.                                   *)
(***************************************************************************)
EXTENDS SealedFileCache

CONSTANTS
  Readers,      \* threads inside Get, or open iterators
  Workers,      \* materialize_parallelism
  MaxImm,       \* max_write_buffer_number: unflushed memtables allowed
  RangeRouted,  \* partitions own disjoint key ranges (FALSE: hash routing)
  MaxFail,      \* bound on failed flush jobs
  MaxCrash      \* bound on process deaths

ASSUME DBAssumption ==
  /\ Parts \subseteq Nat
  /\ Workers \in Nat \ {0}
  /\ MaxImm \in Nat \ {0}
  /\ RangeRouted \in BOOLEAN
  /\ MaxFail \in Nat
  /\ MaxCrash \in Nat

VARIABLES
  dirty,        \* does the active generation of p hold records
  frozen,       \* PartitionIndexSet::frozen_: generations still indexed
  imm,          \* epochs of the immutable memtables not yet flushed
  flushed,      \* epochs of memtables flushed but not yet destroyed
  job_epochs,   \* epochs of the running flush job, {} when none runs
  job_out,      \* SSTs its worker pool has finished
  l0,           \* L0 of the current version
  base,         \* generations held by the base level, per partition
  compacting,   \* L0 inputs of the running native compaction
  reader,       \* state of each reader
  fails, crashes,
  bg_error      \* ErrorHandler::IsBGWorkStopped: no background job is scheduled

lsmVars == <<l0, base, compacting>>
jobVars == <<job_epochs, job_out, fails, bg_error>>
memVars == <<dirty, frozen, imm, flushed>>
vars == <<cacheVars, memVars, jobVars, lsmVars, reader, crashes>>

-----------------------------------------------------------------------------
NoVersion == -1

Largest(S) ==
  IF \E x \in S : \A y \in S : y <= x
  THEN CHOOSE x \in S : \A y \in S : y <= x
  ELSE NoVersion

Overlap(p, q) == p = q \/ ~RangeRouted

L0File == [part : Parts, gens : SUBSET Gens, num : Nat]
Output == [epoch : Epochs, part : Parts, gens : SUBSET Gens, num : Nat]

GensOf(F, p) == {g \in Gens : <<p, g>> \in F}

\* Versions of the key of p that were acknowledged.
Written(p) == {g \in Gens : g < wal_gen[p] \/ (g = wal_gen[p] /\ dirty[p])}

\* Versions of the key of p in the SSTs of the current version.
InSST(p) == base[p] \cup UNION {f.gens : f \in {h \in l0 : h.part = p}}

\* Version::Get: the newest L0 file of p decides, then the base level.
SstGet(p) ==
  LET mine == {f \in l0 : f.part = p}
      top  == {f \in mine : \A h \in mine : h.num <= f.num}
  IN Largest(IF mine = {} THEN base[p] ELSE UNION {f.gens : f \in top})

\* PartitionIndexSet::Get: the active index, then the chain from its newest.
IndexGet(p) == IF dirty[p] THEN wal_gen[p] ELSE Largest(frozen[p])

\* ReadValue: active generation, or a file SealedFileCache::Get accepts.
CanRead(p, g) == g = wal_gen[p] \/ <<p, g>> \in Readable

Idle == [pc |-> "idle", part |-> NoVersion, pins |-> {},
         sst |-> NoVersion, loc |-> NoVersion]
ReaderState ==
  [pc : {"idle", "sv", "read"}, part : Parts \cup {NoVersion},
   pins : SUBSET (1 .. MaxEpoch + 1), sst : Gens \cup {NoVersion},
   loc : Gens \cup {NoVersion}]

\* The epoch the mutable memtable will carry: a seal takes the number first and
\* switches the memtable last.
MemEpoch == IF Sealing THEN epoch_counter ELSE epoch_counter + 1

\* Some SuperVersion in use references the memtable of epoch e.
Pinned(e) == \E r \in Readers : e \in reader[r].pins

Init ==
  /\ CacheInit
  /\ dirty = [p \in Parts |-> FALSE]
  /\ frozen = [p \in Parts |-> {}]
  /\ imm = {}
  /\ flushed = {}
  /\ job_epochs = {}
  /\ job_out = {}
  /\ l0 = {}
  /\ base = [p \in Parts |-> {}]
  /\ compacting = {}
  /\ reader = [r \in Readers |-> Idle]
  /\ fails = 0
  /\ bg_error = FALSE
  /\ crashes = 0

-----------------------------------------------------------------------------
(* Writers. *)

\* AddRecord: append to the partition's WAL, then insert into its index.
Write(p) ==
  /\ EnsureOpenForWrite(p)
  /\ dirty' = [dirty EXCEPT ![p] = TRUE]
  /\ UNCHANGED <<frozen, imm, flushed, jobVars, lsmVars, reader, crashes>>

\* The write-group leader picks a batch of dirty partitions ...
FreezeBatchPartitions(B) ==
  /\ Cardinality(imm) < MaxImm
  /\ \A p \in B : dirty[p]
  /\ SealEpoch(B)
  /\ UNCHANGED <<memVars, jobVars, lsmVars, reader, crashes>>

\* ... switches the WAL and the index of each to the next generation ...
FreezePartition(p) ==
  /\ Freeze(p)
  /\ dirty' = [dirty EXCEPT ![p] = FALSE]
  /\ frozen' = [frozen EXCEPT ![p] = @ \cup {wal_gen[p]}]
  /\ UNCHANGED <<imm, flushed, jobVars, lsmVars, reader, crashes>>

\* ... registers the epoch, and switches the memtable, which queues the flush.
SwitchMemtable ==
  /\ RegisterEpoch
  /\ imm' = imm \cup {epoch_counter}
  /\ UNCHANGED <<dirty, frozen, flushed, jobVars, lsmVars, reader, crashes>>

-----------------------------------------------------------------------------
(* The flush job: phase 0 plans, phase 1 runs a worker pool without the DB *)
(* mutex, phase 2 chooses levels and installs with a single VersionEdit.   *)

PickMemTables ==
  /\ ~ Sealing /\ ~ bg_error
  /\ job_epochs = {}
  /\ imm # {}
  /\ job_epochs' = imm
  /\ UNCHANGED <<cacheVars, memVars, job_out, fails, bg_error, lsmVars, reader, crashes>>

Tasks == {t \in job_epochs \X Parts : GensOf(gens[t[1]], t[2]) # {}}
Finished == {<<o.epoch, o.part>> : o \in job_out}

TaskBefore(s, t) == s[1] < t[1] \/ (s[1] = t[1] /\ s[2] < t[2])

\* Mutated form: a later task may overtake an earlier one.
MayFinishInAnyOrder(t) == t \in Tasks \ Finished

\* The pool hands out tasks in order and runs at most Workers at a time.
MayFinish(t) ==
  /\ t \in Tasks \ Finished
  /\ Cardinality({s \in Tasks \ Finished : TaskBefore(s, t)}) < Workers

\* Files get their epoch_number when a worker builds them.
NextFileNum == Largest({0} \cup {f.num : f \in l0} \cup {o.num : o \in job_out}) + 1

MaterializePartition(e, p) ==
  /\ MayFinish(<<e, p>>)
  /\ job_out' = job_out \cup
       {[epoch |-> e, part |-> p, gens |-> GensOf(gens[e], p), num |-> NextFileNum]}
  /\ UNCHANGED <<cacheVars, memVars, job_epochs, fails, bg_error, lsmVars, reader, crashes>>

PlacedBefore(x, o) == x.epoch < o.epoch \/ (x.epoch = o.epoch /\ x.num < o.num)

InCompaction(p) == \E f, h \in compacting : f.part <= p /\ p <= h.part

\* Mutated form: the files of the current version are not searched.
PicksBaseIgnoringVersion(o) ==
  /\ ~ InCompaction(o.part)
  /\ \A x \in job_out : PlacedBefore(x, o) => ~ Overlap(x.part, o.part)

\* PickInstallLevel: base level only when nothing in the current version, in
\* a running compaction or already placed by this batch overlaps.
PicksBase(o) ==
  /\ ~ InCompaction(o.part)
  /\ \A f \in l0 : ~ Overlap(f.part, o.part)
  /\ \A q \in Parts : Overlap(q, o.part) => base[q] = {}
  /\ \A x \in job_out : PlacedBefore(x, o) => ~ Overlap(x.part, o.part)

\* The VersionEdit of the batch: levels chosen, one atomic change.
ApplyOutputs ==
  /\ l0' = l0 \cup {[part |-> o.part, gens |-> o.gens, num |-> o.num] :
                      o \in {x \in job_out : ~ PicksBase(x)}}
  /\ base' = [p \in Parts |-> base[p] \cup
                UNION {o.gens : o \in {x \in job_out : x.part = p /\ PicksBase(x)}}]

\* Mutated form: the job is installed although a task did not finish.
InstallPartial ==
  /\ ~ Sealing
  /\ job_epochs # {}
  /\ ApplyOutputs
  /\ imm' = imm \ job_epochs
  /\ flushed' = flushed \cup job_epochs
  /\ job_epochs' = {}
  /\ job_out' = {}
  /\ UNCHANGED <<cacheVars, dirty, frozen, fails, bg_error, compacting, reader, crashes>>

Install ==
  /\ ~ Sealing
  /\ job_epochs # {}
  /\ Tasks \subseteq Finished
  /\ ApplyOutputs
  /\ imm' = imm \ job_epochs
  /\ flushed' = flushed \cup job_epochs
  /\ job_epochs' = {}
  /\ job_out' = {}
  /\ UNCHANGED <<cacheVars, dirty, frozen, fails, bg_error, compacting, reader, crashes>>

\* Mutated form: the memtables leave the list although the flush failed.
FlushFailsWithoutRollback ==
  /\ ~ Sealing
  /\ fails < MaxFail
  /\ job_epochs # {}
  /\ fails' = fails + 1
  /\ bg_error' \in BOOLEAN
  /\ imm' = imm \ job_epochs
  /\ flushed' = flushed \cup job_epochs
  /\ job_epochs' = {}
  /\ job_out' = {}
  /\ UNCHANGED <<cacheVars, dirty, frozen, lsmVars, reader, crashes>>

\* A worker or the MANIFEST write fails: outputs dropped, memtables go back.
\* The error's severity decides whether background work stops.
FlushFails ==
  /\ ~ Sealing
  /\ fails < MaxFail
  /\ job_epochs # {}
  /\ fails' = fails + 1
  /\ bg_error' \in BOOLEAN
  /\ job_epochs' = {}
  /\ job_out' = {}
  /\ UNCHANGED <<cacheVars, memVars, lsmVars, reader, crashes>>

\* DB::Resume or the error handler's own recovery (RocksDB's, external).
Resume ==
  /\ ~ Sealing /\ bg_error
  /\ bg_error' = FALSE
  /\ UNCHANGED <<cacheVars, memVars, job_epochs, job_out, fails, lsmVars, reader, crashes>>

-----------------------------------------------------------------------------
(* Native L0 -> base compaction (RocksDB's own, external). *)

StartCompaction(S) ==
  /\ ~ Sealing /\ ~ bg_error
  /\ compacting = {}
  /\ RangeRouted \/ S = Parts
  /\ compacting' = {f \in l0 : f.part \in S}
  /\ compacting' # {}
  /\ UNCHANGED <<cacheVars, memVars, jobVars, l0, base, reader, crashes>>

\* Mutated form: the finished compaction stays registered.
FinishWithoutUnregister ==
  /\ ~ Sealing
  /\ compacting # {}
  /\ l0' = l0 \ compacting
  /\ base' = [p \in Parts |-> base[p] \cup
                UNION {f.gens : f \in {h \in compacting : h.part = p}}]
  /\ UNCHANGED <<cacheVars, memVars, jobVars, compacting, reader, crashes>>

FinishCompaction ==
  /\ ~ Sealing
  /\ compacting # {}
  /\ l0' = l0 \ compacting
  /\ base' = [p \in Parts |-> base[p] \cup
                UNION {f.gens : f \in {h \in compacting : h.part = p}}]
  /\ compacting' = {}
  /\ UNCHANGED <<cacheVars, memVars, jobVars, reader, crashes>>

-----------------------------------------------------------------------------
(* Release: ~MemTable runs once no SuperVersion references the memtable.   *)

\* Mutated form: the index is released as soon as the flush is installed.
ReleaseFrozenAtInstall(e, f) ==
  /\ e \in flushed
  /\ f \in gens[e]
  /\ f[2] \in frozen[f[1]]
  /\ frozen' = [frozen EXCEPT ![f[1]] = @ \ {f[2]}]
  /\ UNCHANGED <<cacheVars, dirty, imm, flushed, jobVars, lsmVars, reader, crashes>>

ReleaseFrozen(e, f) ==
  /\ e \in flushed
  /\ ~ Pinned(e)
  /\ f \in gens[e]
  /\ f[2] \in frozen[f[1]]
  /\ frozen' = [frozen EXCEPT ![f[1]] = @ \ {f[2]}]
  /\ UNCHANGED <<cacheVars, dirty, imm, flushed, jobVars, lsmVars, reader, crashes>>

\* Mutated form: the cache's references go before the indexes.
DestroyCacheFirst(e) ==
  /\ e \in flushed
  /\ ~ Pinned(e)
  /\ ReleaseEpoch(e)
  /\ flushed' = flushed \ {e}
  /\ UNCHANGED <<dirty, frozen, imm, jobVars, lsmVars, reader, crashes>>

\* The indexes go first, then the cache's references.
DestroyMemTable(e) ==
  /\ e \in flushed
  /\ ~ Pinned(e)
  /\ \A f \in gens[e] : f[2] \notin frozen[f[1]]
  /\ ReleaseEpoch(e)
  /\ flushed' = flushed \ {e}
  /\ UNCHANGED <<dirty, frozen, imm, jobVars, lsmVars, reader, crashes>>

\* The thread that destroys the memtable goes on: the epoch's references are
\* dropped and its files queued.
FinishRelease(e) ==
  /\ ReleaseGens(e) \/ QueueUnlink(e)
  /\ UNCHANGED <<memVars, jobVars, lsmVars, reader, crashes>>

\* PurgeObsoleteFiles of a background job takes the queue ...
PurgeSealedFiles ==
  /\ PurgePending
  /\ UNCHANGED <<memVars, jobVars, lsmVars, reader, crashes>>

\* ... and unlinks what it took.
UnlinkSealed ==
  /\ \E f \in File : DeleteFile(f)
  /\ UNCHANGED <<memVars, jobVars, lsmVars, reader, crashes>>

-----------------------------------------------------------------------------
(* Readers. *)

\* Mutated form: flushed memtables stay in the SuperVersion.
AcquireWithFlushed(r, p) ==
  /\ reader[r].pc = "idle"
  /\ reader' = [reader EXCEPT ![r] =
       [pc |-> "sv", part |-> p, pins |-> imm \cup flushed \cup {MemEpoch},
        sst |-> SstGet(p), loc |-> NoVersion]]
  /\ UNCHANGED <<cacheVars, memVars, jobVars, lsmVars, crashes>>

\* GetImpl and NewIterator reference the SuperVersion: the mutable memtable
\* (the epoch sealed next or being sealed), the immutable ones, and the SSTs.
AcquireSuperVersion(r, p) ==
  /\ reader[r].pc = "idle"
  /\ reader' = [reader EXCEPT ![r] =
       [pc |-> "sv", part |-> p, pins |-> imm \cup {MemEpoch},
        sst |-> SstGet(p), loc |-> NoVersion]]
  /\ UNCHANGED <<cacheVars, memVars, jobVars, lsmVars, crashes>>

\* The index is the live one, not part of the SuperVersion.
LookupIndex(r) ==
  /\ reader[r].pc = "sv"
  /\ reader' = [reader EXCEPT ![r].pc = "read", ![r].loc = IndexGet(reader[r].part)]
  /\ UNCHANGED <<cacheVars, memVars, jobVars, lsmVars, crashes>>

ReleaseSuperVersion(r) ==
  /\ reader[r].pc = "read"
  /\ reader' = [reader EXCEPT ![r] = Idle]
  /\ UNCHANGED <<cacheVars, memVars, jobVars, lsmVars, crashes>>

-----------------------------------------------------------------------------
\* Process death and reopen: Recover replays every WAL file into the indexes.
Crash ==
  /\ crashes < MaxCrash
  /\ crashes' = crashes + 1
  /\ CacheCrash
  /\ frozen' = [p \in Parts |-> {g \in Gens : <<p, g>> \in files /\ g < LargestGenOnDisk(p)}]
  /\ imm' = {}
  /\ flushed' = {}
  /\ job_epochs' = {}
  /\ job_out' = {}
  /\ compacting' = {}
  /\ bg_error' = FALSE
  /\ reader' = [r \in Readers |-> Idle]
  /\ UNCHANGED <<dirty, fails, l0, base>>

Next ==
  \/ \E p \in Parts : Write(p)
  \/ \E B \in SUBSET Parts : FreezeBatchPartitions(B)
  \/ \E p \in Parts : FreezePartition(p)
  \/ SwitchMemtable
  \/ PickMemTables
  \/ \E e \in Epochs, p \in Parts : MaterializePartition(e, p)
  \/ Install
  \/ FlushFails
  \/ Resume
  \/ \E S \in SUBSET Parts : StartCompaction(S)
  \/ FinishCompaction
  \/ \E e \in Epochs : DestroyMemTable(e)
  \/ \E e \in Epochs, f \in File : ReleaseFrozen(e, f)
  \/ \E e \in Epochs : FinishRelease(e)
  \/ PurgeSealedFiles
  \/ UnlinkSealed
  \/ \E r \in Readers, p \in Parts : AcquireSuperVersion(r, p)
  \/ \E r \in Readers : LookupIndex(r) \/ ReleaseSuperVersion(r)
  \/ Crash

Spec == Init /\ [][Next]_vars

(***************************************************************************)
(* Fairness: a thread that has begun an operation goes on with it (the     *)
(* seal, the flush job, the destruction of an unreferenced memtable, the   *)
(* unlinks of a purge), a reader that holds a SuperVersion finishes, and   *)
(* a requested flush is picked up while background work is not stopped.    *)
(* Nothing obliges a purge to come, a background error to be cleared, a    *)
(* writer, a compaction or a fault.                                        *)
(***************************************************************************)
SealThread == (\E p \in Parts : FreezePartition(p)) \/ SwitchMemtable

FlushThread ==
  \/ PickMemTables
  \/ \E e \in Epochs, p \in Parts : MaterializePartition(e, p)
  \/ Install

DestroyThread(e) ==
  \/ \E f \in File : ReleaseFrozen(e, f)
  \/ DestroyMemTable(e)
  \/ FinishRelease(e)

Fairness ==
  /\ WF_vars(SealThread)
  /\ WF_vars(FlushThread)
  /\ \A e \in Epochs : WF_vars(DestroyThread(e))
  /\ WF_vars(UnlinkSealed)
  /\ \A r \in Readers : WF_vars(LookupIndex(r) \/ ReleaseSuperVersion(r))

FairSpec == Spec /\ Fairness

-----------------------------------------------------------------------------
(* Properties. *)

\* Every variable keeps its shape; the cache's part is CacheTypeOK.
TypeOK ==
  /\ CacheTypeOK
  /\ dirty \in [Parts -> BOOLEAN]
  /\ frozen \in [Parts -> SUBSET Gens]
  /\ imm \subseteq Epochs
  /\ flushed \subseteq Epochs
  /\ job_epochs \subseteq imm
  /\ job_out \subseteq Output
  /\ l0 \subseteq L0File
  /\ base \in [Parts -> SUBSET Gens]
  /\ compacting \subseteq l0
  /\ reader \in [Readers -> ReaderState]
  /\ \A r \in Readers : reader[r].pc # "idle" => reader[r].part \in Parts
  /\ fails \in 0 .. MaxFail
  /\ bg_error \in BOOLEAN
  /\ crashes \in 0 .. MaxCrash

\* Every acknowledged version is in a WAL file on disk or in an installed SST,
\* whatever flush failure, unlink order or crash came before (M3_DESIGN.md I3:
\* a file may be deleted only when materialized and unreferenced).
NoAckedLoss == \A p \in Parts : \A g \in Written(p) : <<p, g>> \in files \/ g \in InSST(p)

\* A generation still in the index has its file, and the cache accepts its
\* locator (ReleaseEpoch drops indexes before files), except for a generation
\* that the running FreezeBatchPartitions froze and has yet to register.
IndexedIsReadable ==
  \A p \in Parts : \A g \in frozen[p] :
    <<p, g>> \in files \cap (Readable \cup se_gens)

\* The comment in ZeroFlushContext::ReadValue that a sealed generation must be
\* registered by then: a frozen generation whose locator a reader holds, and
\* whose index is still there, is one the cache accepts.
SealedLocatorRegistered ==
  \A r \in Readers :
    reader[r].pc = "read" /\ reader[r].loc \in frozen[reader[r].part]
      => CanRead(reader[r].part, reader[r].loc)

\* Once the index holds nothing of p, the SSTs answer with the newest version:
\* a Get that misses the index and falls through is not stale.
MissMeansInstalled ==
  \A p \in Parts : IndexGet(p) = NoVersion => SstGet(p) = Largest(Written(p))

\* L0 is searched from the highest epoch_number down, so for one partition a
\* file with a higher number must hold newer versions.
L0Ordered ==
  \A f, h \in l0 : f.part = h.part /\ f.num < h.num => Largest(f.gens) <= Largest(h.gens)

\* An epoch whose memtable a reader's SuperVersion references stays, once it is
\* registered, registered with its generations indexed and readable until the
\* reader is done.
PinnedStaysReadable ==
  \A r \in Readers : \A e \in reader[r].pins :
    e < MemEpoch =>
      /\ e \in epochs
      /\ \A f \in gens[e] : f \in Readable /\ f[2] \in frozen[f[1]]

\* Versions of the key of p that survive a crash of the process now.
Durable(p) == {g \in Written(p) : <<p, g>> \in files} \cup InSST(p)

\* The abstract store: what is durable.
Store == INSTANCE DurableStore WITH store <- [p \in Parts |-> Durable(p)]

\* The whole cycle implements the abstract store: only a write changes what is
\* durable, and it adds exactly the version it acknowledges; sealing, flushing,
\* failing, compacting, releasing, unlinking and crashing change nothing.
ImplementsStore == Store!Spec

\* If background work is never stopped for good, every registered epoch is
\* eventually erased: materialized, and released by the destruction of its
\* memtable (or by a restart, which returns its generations to recovery_gens).
\* No reader can keep an epoch alive for ever, because new readers do not pin it.
\* If background jobs keep purging, a released file leaves the unlink queue (the
\* flush that released it purged before its memtables went, so another job has
\* to come).
SealedIsReclaimed ==
  /\ []<>(~ bg_error) => \A e \in Epochs : e \in epochs ~> e \notin epochs
  /\ []<>(pending_unlink = {}) => \A f \in File : f \in Doomed ~> f \notin Doomed

\* The claim at MemTable::~MemTable that every SuperVersion and iterator is gone
\* when an epoch is released: a locator held by a reader whose own SSTs do not
\* cover it can still be read, once its generation is registered.
LocatorReadable ==
  \A r \in Readers :
    LET p == reader[r].part  g == reader[r].loc IN
    reader[r].pc = "read" /\ g > reader[r].sst /\ <<p, g>> \notin se_gens => CanRead(p, g)
=============================================================================
