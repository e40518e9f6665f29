--------------------------- MODULE SealedFileCache ---------------------------
(***************************************************************************)
(* Ownership of sealed WAL generations (zeroflush/sealed_file_cache.cc).   *)
(*                                                                         *)
(* A partition p appends to the file of its active generation wal_gen[p].  *)
(* Sealing an epoch freezes some partitions one after the other: the       *)
(* active generation becomes a read-only file, and the next generation's   *)
(* file is created at once.  After the last one the frozen generations are *)
(* registered under the epoch; from then on SealedFileCache::Get accepts   *)
(* them.  Destruction of the epoch's memtable releases its generations;    *)
(* released files are queued and later unlinked.  A generation whose       *)
(* materialization was postponed (kSkip) is handed off to skip_gens, and   *)
(* generations found on disk at reopen go to recovery_gens; the next       *)
(* sealed epoch adopts both sets.                                          *)
(*                                                                         *)
(* The seal runs under the DB mutex, which readers, the materialization    *)
(* pool, the release of a memtable and the purge do not take: its steps    *)
(* are separate actions, and what needs the mutex waits for their end.     *)
(* Each critical section of mu_ is one action: ReleaseEpoch takes the      *)
(* mutex three times and PurgePending deletes outside it.  gen_refs_       *)
(* counts to 1 in every caller, so it is a set of files.  Byte counters,   *)
(* timing statistics and the LRU of open handles are left out.             *)
(***************************************************************************)
EXTENDS Integers, FiniteSets

CONSTANTS
  Parts,           \* partition ids
  MaxGen,          \* bound on the generations of one partition
  MaxEpoch,        \* bound on the epochs sealed between two restarts
  ReclaimEnabled   \* option reclaim_sealed_files

ASSUME CacheAssumption ==
  /\ MaxGen \in Nat
  /\ MaxEpoch \in Nat
  /\ ReclaimEnabled \in BOOLEAN

Gens == 0 .. MaxGen
Epochs == 1 .. MaxEpoch
File == Parts \X Gens

VARIABLES
  wal_gen,         \* PartitionedWalManager: active generation of each partition
  files,           \* WAL files on disk
  epoch_counter,   \* epoch_counter_
  epochs,          \* keys of epochs_ (and of gen_refs_)
  gens,            \* SealedEpoch::gens of each registered epoch
  gen_refs,        \* generations of each epoch still referenced
  recovery_gens,   \* recovery_gens_
  skip_gens,       \* skip_gens_
  releasing,       \* per epoch: the copy of gens a running ReleaseEpoch holds
  to_unlink,       \* per epoch: local to_unlink of a running ReleaseGens
  pending_unlink,  \* pending_unlink_
  purging,         \* local to_unlink of a running PurgePending
  batch,           \* partitions a running FreezeBatchPartitions has yet to freeze
  se_gens          \* its se.gens: frozen, not registered yet

walVars   == <<wal_gen, files>>
ownerVars == <<epochs, gens, gen_refs, recovery_gens, skip_gens>>
freeVars  == <<releasing, to_unlink, pending_unlink, purging>>
sealVars  == <<batch, se_gens>>
cacheVars == <<walVars, epoch_counter, ownerVars, freeVars, sealVars>>

NoFiles == [e \in Epochs |-> {}]
ActiveFile(p) == <<p, wal_gen[p]>>
SealedFiles == {f \in files : f[2] < wal_gen[f[1]]}

\* What SealedFileCache::Get accepts.
Readable == recovery_gens \cup skip_gens \cup UNION {gens[e] : e \in epochs}

\* Released files on their way to unlink.
Doomed == (UNION {to_unlink[e] : e \in Epochs}) \cup pending_unlink \cup purging

\* A FreezeBatchPartitions is running, so the DB mutex is taken.
Sealing == batch # {} \/ se_gens # {}

CacheInit ==
  /\ wal_gen = [p \in Parts |-> 0]
  /\ files = {}
  /\ epoch_counter = 0
  /\ epochs = {}
  /\ gens = NoFiles
  /\ gen_refs = NoFiles
  /\ recovery_gens = {}
  /\ skip_gens = {}
  /\ releasing = NoFiles
  /\ to_unlink = NoFiles
  /\ pending_unlink = {}
  /\ purging = {}
  /\ batch = {}
  /\ se_gens = {}

-----------------------------------------------------------------------------
(* The WAL manager's part. *)

\* First append to a generation opens its file, creating it when absent.
EnsureOpenForWrite(p) ==
  /\ ~ Sealing
  /\ files' = files \cup {ActiveFile(p)}
  /\ UNCHANGED <<wal_gen, epoch_counter, ownerVars, freeVars, sealVars>>

\* One partition of the batch: next generation, its file created.
Freeze(p) ==
  /\ p \in batch
  /\ wal_gen' = [wal_gen EXCEPT ![p] = @ + 1]
  /\ files' = files \cup {<<p, wal_gen[p] + 1>>}
  /\ batch' = batch \ {p}
  /\ se_gens' = se_gens \cup {ActiveFile(p)}
  /\ UNCHANGED <<epoch_counter, ownerVars, freeVars>>

\* Mutated form: the smallest generation found is resumed.
SmallestGenOnDisk(p) ==
  IF \E g \in Gens : <<p, g>> \in files
  THEN CHOOSE g \in Gens : /\ <<p, g>> \in files
                           /\ \A h \in Gens : <<p, h>> \in files => g <= h
  ELSE 0

\* Active generation chosen at reopen: the largest on disk, 0 without a file.
LargestGenOnDisk(p) ==
  IF \E g \in Gens : <<p, g>> \in files
  THEN CHOOSE g \in Gens : /\ <<p, g>> \in files
                           /\ \A h \in Gens : <<p, h>> \in files => h <= g
  ELSE 0

-----------------------------------------------------------------------------
(* Operations of the cache. *)

\* Drop the files F from epoch e; an epoch left without references is erased.
Detach(e, F) ==
  /\ gens' = [gens EXCEPT ![e] = @ \ F]
  /\ gen_refs' = [gen_refs EXCEPT ![e] = @ \ F]
  /\ epochs' = IF gen_refs[e] \subseteq F THEN epochs \ {e} ELSE epochs

\* Mutated form: skip_gens_ is adopted but not cleared.
KeepAdopted(e, sealed) ==
  LET merged == sealed \cup recovery_gens \cup skip_gens
  IN /\ epochs' = epochs \cup {e}
     /\ gens' = [gens EXCEPT ![e] = merged]
     /\ gen_refs' = [gen_refs EXCEPT ![e] = merged]
     /\ recovery_gens' = {}
     /\ UNCHANGED skip_gens

AddEpochWithRecoveryAdoption(e, sealed) ==
  LET merged == sealed \cup recovery_gens \cup skip_gens
  IN /\ epochs' = epochs \cup {e}
     /\ gens' = [gens EXCEPT ![e] = merged]
     /\ gen_refs' = [gen_refs EXCEPT ![e] = merged]
     /\ recovery_gens' = {}
     /\ skip_gens' = {}

\* FreezeBatchPartitions: the batch is chosen, the epoch number taken ...
SealEpoch(B) ==
  /\ ~ Sealing
  /\ epoch_counter < MaxEpoch
  /\ B # {}
  /\ \A p \in B : ActiveFile(p) \in files /\ wal_gen[p] < MaxGen
  /\ epoch_counter' = epoch_counter + 1
  /\ batch' = B
  /\ UNCHANGED <<walVars, ownerVars, freeVars, se_gens>>

\* Mutated form: registered under the number after the one that was taken.
RegisterUnderNext ==
  /\ batch = {} /\ se_gens # {}
  /\ AddEpochWithRecoveryAdoption(epoch_counter + 1, se_gens)
  /\ se_gens' = {}
  /\ UNCHANGED <<walVars, epoch_counter, freeVars, batch>>

\* ... and, when every partition of the batch is frozen, it is registered.
RegisterEpoch ==
  /\ batch = {} /\ se_gens # {}
  /\ AddEpochWithRecoveryAdoption(epoch_counter, se_gens)
  /\ se_gens' = {}
  /\ UNCHANGED <<walVars, epoch_counter, freeVars, batch>>

\* Mutated form: the references of the skipped generations stay behind.
HandOffKeepsRefs(e, F) ==
  /\ ~ Sealing
  /\ e \in epochs
  /\ releasing[e] = {}
  /\ F # {} /\ F \subseteq gens[e]
  /\ gens' = [gens EXCEPT ![e] = @ \ F]
  /\ skip_gens' = skip_gens \cup F
  /\ UNCHANGED <<walVars, epoch_counter, epochs, gen_refs, recovery_gens, freeVars, sealVars>>

\* The flush job runs while the epoch's memtable is alive, hence before its
\* release begins.
HandOffSkippedToRecovery(e, F) ==
  /\ ~ Sealing
  /\ e \in epochs
  /\ releasing[e] = {}
  /\ F # {} /\ F \subseteq gens[e]
  /\ Detach(e, F)
  /\ skip_gens' = skip_gens \cup F
  /\ UNCHANGED <<walVars, epoch_counter, recovery_gens, freeVars, sealVars>>

\* First critical section of ReleaseEpoch; an unregistered epoch has no gens.
ReleaseEpoch(e) ==
  /\ e \in epochs
  /\ releasing[e] = {}
  /\ releasing' = [releasing EXCEPT ![e] = gens[e]]
  /\ UNCHANGED <<walVars, epoch_counter, ownerVars, to_unlink, pending_unlink, purging,
                 sealVars>>

\* Mutated form: files are queued for unlink while Get still accepts them.
ReleaseGensKeepsEpoch(e) ==
  /\ releasing[e] # {}
  /\ to_unlink' = [to_unlink EXCEPT ![e] = releasing[e]]
  /\ releasing' = [releasing EXCEPT ![e] = {}]
  /\ UNCHANGED <<walVars, epoch_counter, ownerVars, pending_unlink, purging, sealVars>>

\* Second one: references dropped, Get no longer accepts the files.
ReleaseGens(e) ==
  LET freed == releasing[e] \cap gen_refs[e]
  IN /\ releasing[e] # {}
     /\ Detach(e, freed)
     /\ to_unlink' = [to_unlink EXCEPT ![e] = IF ReclaimEnabled THEN freed ELSE {}]
     /\ releasing' = [releasing EXCEPT ![e] = {}]
     /\ UNCHANGED <<walVars, epoch_counter, recovery_gens, skip_gens,
                    pending_unlink, purging, sealVars>>

\* Third one: the names are queued.
QueueUnlink(e) ==
  /\ to_unlink[e] # {}
  /\ pending_unlink' = pending_unlink \cup to_unlink[e]
  /\ to_unlink' = [to_unlink EXCEPT ![e] = {}]
  /\ UNCHANGED <<walVars, epoch_counter, ownerVars, releasing, purging, sealVars>>

\* PurgePending swaps the queue out under the mutex ...
PurgePending ==
  /\ pending_unlink # {}
  /\ purging' = purging \cup pending_unlink
  /\ pending_unlink' = {}
  /\ UNCHANGED <<walVars, epoch_counter, ownerVars, releasing, to_unlink, sealVars>>

\* ... and deletes outside it; a failed DeleteFile is ignored.
DeleteFile(f) ==
  /\ f \in purging
  /\ purging' = purging \ {f}
  /\ files' \in {files \ {f}, files}
  /\ UNCHANGED <<wal_gen, epoch_counter, ownerVars, releasing, to_unlink, pending_unlink,
                 sealVars>>

\* Mutated form: the sealed files found at reopen are not registered.
CrashForgetsSealed ==
  /\ wal_gen' = [p \in Parts |-> LargestGenOnDisk(p)]
  /\ recovery_gens' = {}
  /\ epoch_counter' = 0
  /\ epochs' = {}
  /\ gens' = NoFiles
  /\ gen_refs' = NoFiles
  /\ skip_gens' = {}
  /\ releasing' = NoFiles
  /\ to_unlink' = NoFiles
  /\ pending_unlink' = {}
  /\ purging' = {}
  /\ batch' = {}
  /\ se_gens' = {}
  /\ UNCHANGED files

\* Process death, then Open and Recover: memory is rebuilt from the files.
CacheCrash ==
  /\ wal_gen' = [p \in Parts |-> LargestGenOnDisk(p)]
  /\ recovery_gens' = {f \in files : f[2] < LargestGenOnDisk(f[1])}
  /\ epoch_counter' = 0
  /\ epochs' = {}
  /\ gens' = NoFiles
  /\ gen_refs' = NoFiles
  /\ skip_gens' = {}
  /\ releasing' = NoFiles
  /\ to_unlink' = NoFiles
  /\ pending_unlink' = {}
  /\ purging' = {}
  /\ batch' = {}
  /\ se_gens' = {}
  /\ UNCHANGED files

CacheNext ==
  \/ \E p \in Parts : EnsureOpenForWrite(p)
  \/ \E B \in SUBSET Parts : SealEpoch(B)
  \/ \E p \in Parts : Freeze(p)
  \/ RegisterEpoch
  \/ \E e \in epochs : \E F \in SUBSET gens[e] : HandOffSkippedToRecovery(e, F)
  \/ \E e \in Epochs : ReleaseEpoch(e) \/ ReleaseGens(e) \/ QueueUnlink(e)
  \/ PurgePending
  \/ \E f \in File : DeleteFile(f)
  \/ CacheCrash

CacheSpec == CacheInit /\ [][CacheNext]_cacheVars

-----------------------------------------------------------------------------
(* Properties. *)

\* Every variable of the cache and of the WAL manager keeps its shape.
CacheTypeOK ==
  /\ wal_gen \in [Parts -> Gens]
  /\ files \subseteq File
  /\ epoch_counter \in 0 .. MaxEpoch
  /\ epochs \subseteq 1 .. epoch_counter
  /\ gens \in [Epochs -> SUBSET File]
  /\ gen_refs \in [Epochs -> SUBSET File]
  /\ recovery_gens \subseteq File
  /\ skip_gens \subseteq File
  /\ releasing \in [Epochs -> SUBSET File]
  /\ to_unlink \in [Epochs -> SUBSET File]
  /\ pending_unlink \subseteq File
  /\ purging \subseteq File
  /\ batch \subseteq Parts
  /\ se_gens \subseteq File

\* A file that Get accepts, or that a running seal is about to register, exists
\* on disk, is sealed, and is nowhere in the unlink pipeline
\* (sealed_file_cache.h: no unlink while referenced).
ReadableIsSafe ==
  /\ Readable \cup se_gens \subseteq SealedFiles
  /\ (Readable \cup se_gens) \cap Doomed = {}

\* A sealed generation has one owner: two epochs, or an epoch and the skip or
\* recovery set, or any of them and a running seal, never both hold it, so it
\* is materialized and released once.
OneOwner ==
  /\ \A e, d \in epochs : e # d => gens[e] \cap gens[d] = {}
  /\ \A e \in epochs : gens[e] \cap (recovery_gens \cup skip_gens) = {}
  /\ recovery_gens \cap skip_gens = {}
  /\ se_gens \cap Readable = {}

\* gen_refs_ and epochs_ describe the same generations, and an epoch is
\* registered exactly while it has some: hand-off and release erase both.
RefsMatchGens ==
  \A e \in Epochs : /\ gen_refs[e] = gens[e]
                    /\ e \in epochs <=> gens[e] # {}

\* Generation numbers are never reused: a restart resumes at the generation
\* that was active, and no other step moves a partition backwards.
GenMonotone == [][\A p \in Parts : wal_gen'[p] >= wal_gen[p]]_cacheVars
=============================================================================
