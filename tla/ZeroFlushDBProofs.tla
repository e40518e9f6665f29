-------------------------- MODULE ZeroFlushDBProofs --------------------------
(***************************************************************************)
(* Proofs about ZeroFlushDB, for any partitions, readers, worker counts    *)
(* and bounds.                                                             *)
(*                                                                         *)
(* Every step of the database is a step of SealedFileCache or leaves the   *)
(* cache alone, so CacheInv comes with it.  DBInv adds how the memtables,  *)
(* the indexes, the flush job and the SSTs relate to the cache's owners.   *)
(* Its centre is ReleasedIsMaterialized: what a release may free is        *)
(* already in an installed SST.                                            *)
(***************************************************************************)
EXTENDS ZeroFlushDB, SealedFileCacheProofs

Materialized(f) == f[2] \in InSST(f[1])
Indexed(f) == f[2] \in frozen[f[1]]

EpochStates ==
  /\ imm \cup flushed \subseteq epochs
  /\ imm \cap flushed = {}
  /\ \A e \in imm \cup flushed : releasing[e] = {}

OutputsMatchEpochs ==
  \A o \in job_out : o.epoch \in job_epochs /\ o.gens = GensOf(gens[o.epoch], o.part)

ReleasedIsMaterialized ==
  /\ \A e \in epochs \ imm : \A f \in gens[e] : Materialized(f)
  /\ \A f \in Doomed : Materialized(f)

SstIsSealed == \A p \in Parts : \A g \in InSST(p) : g < wal_gen[p]

DirtyOnDisk == \A p \in Parts : dirty[p] => ActiveFile(p) \in files

IndexedIsOwned == \A p \in Parts : \A g \in frozen[p] : <<p, g>> \in Readable \cup se_gens

BatchIsDirty == \A p \in batch : dirty[p]

UnflushedIsIndexed ==
  /\ \A f \in recovery_gens \cup skip_gens \cup se_gens : Indexed(f)
  /\ \A e \in imm : \A f \in gens[e] : Indexed(f)

ReleasingIsUnindexed ==
  \A e \in epochs : releasing[e] # {} => \A f \in gens[e] : ~ Indexed(f)

PinsHold ==
  \A r \in Readers : \A e \in reader[r].pins :
    e < MemEpoch => e \in imm \cup flushed /\ \A f \in gens[e] : Indexed(f)

DBInv ==
  /\ TypeOK
  /\ CacheInv
  /\ EpochStates
  /\ OutputsMatchEpochs
  /\ ReleasedIsMaterialized
  /\ SstIsSealed
  /\ DirtyOnDisk
  /\ BatchIsDirty
  /\ NoAckedLoss
  /\ IndexedIsOwned
  /\ UnflushedIsIndexed
  /\ ReleasingIsUnindexed
  /\ PinsHold

-----------------------------------------------------------------------------
(* Facts about the operators. *)

LEMMA LargestType == ASSUME NEW S PROVE Largest(S) \in S \cup {NoVersion}
BY Zenon DEF Largest

LEMMA InSSTMember ==
  ASSUME NEW p, NEW g
  PROVE  g \in InSST(p) <=> g \in base[p] \/ \E f \in l0 : f.part = p /\ g \in f.gens
BY DEF InSST

\* What Version::Get answers for a partition is a generation or nothing.
LEMMA SstGetType ==
  ASSUME TypeOK, NEW p \in Parts
  PROVE  SstGet(p) \in Gens \cup {NoVersion}
<1> DEFINE mine == {f \in l0 : f.part = p}
           top  == {f \in mine : \A h \in mine : h.num <= f.num}
           S    == IF mine = {} THEN base[p] ELSE UNION {f.gens : f \in top}
<1>1. \A f \in l0 : f.gens \subseteq Gens
  BY DEF TypeOK, L0File
<1>2. S \subseteq Gens
  BY <1>1, Zenon DEF TypeOK
<1>3. SstGet(p) = Largest(S)
  BY Zenon DEF SstGet
<1> HIDE DEF S
<1> QED BY <1>2, <1>3, LargestType, Zenon

\* So is what the partition index answers.
LEMMA IndexGetType ==
  ASSUME TypeOK, NEW p \in Parts
  PROVE  IndexGet(p) \in Gens \cup {NoVersion}
BY LargestType, Zenon DEF IndexGet, TypeOK, CacheTypeOK

\* Installing a batch adds its outputs to the SSTs, whatever level each takes.
LEMMA ApplyOutputsAdds ==
  ASSUME TypeOK, ApplyOutputs, NEW p \in Parts, NEW g
  PROVE  g \in InSST(p)' <=> g \in InSST(p) \/ \E o \in job_out : o.part = p /\ g \in o.gens
<1>1. g \in InSST(p)' <=> g \in base'[p] \/ \E f \in l0' : f.part = p /\ g \in f.gens
  BY DEF InSST
<1>2. g \in base'[p] <=>
        g \in base[p] \/ \E o \in job_out : o.part = p /\ PicksBase(o) /\ g \in o.gens
  BY DEF ApplyOutputs
<1>3. (\E f \in l0' : f.part = p /\ g \in f.gens) <=>
        \/ \E f \in l0 : f.part = p /\ g \in f.gens
        \/ \E o \in job_out : o.part = p /\ ~ PicksBase(o) /\ g \in o.gens
  <2> DEFINE AsL0(o) == [part |-> o.part, gens |-> o.gens, num |-> o.num]
  <2>1. \A o : AsL0(o).part = o.part /\ AsL0(o).gens = o.gens
    BY Zenon
  <2>2. l0' = l0 \cup {AsL0(o) : o \in {x \in job_out : ~ PicksBase(x)}}
    BY DEF ApplyOutputs
  <2> HIDE DEF AsL0
  <2>3. \A f : f \in l0' <=> f \in l0 \/ \E o \in job_out : ~ PicksBase(o) /\ f = AsL0(o)
    BY <2>2
  <2> QED BY <2>1, <2>3
<1> QED BY <1>1, <1>2, <1>3, InSSTMember, SMTT(30)

\* A compaction moves versions from L0 to the base level and loses none.
LEMMA CompactionKeeps ==
  ASSUME TypeOK, FinishCompaction, NEW p \in Parts
  PROVE  InSST(p)' = InSST(p)
<1>1. \A g : g \in base'[p] <=>
               g \in base[p] \/ \E f \in compacting : f.part = p /\ g \in f.gens
  BY Zenon DEF FinishCompaction
<1>2. l0' = l0 \ compacting /\ compacting \subseteq l0
  BY Zenon DEF FinishCompaction, TypeOK
<1>3. \A g : g \in InSST(p)' <=> g \in base'[p] \/ \E f \in l0' : f.part = p /\ g \in f.gens
  BY DEF InSST
<1>4. \A g : g \in InSST(p)' <=> g \in InSST(p)
  BY <1>1, <1>2, <1>3, InSSTMember, Zenon
<1> QED BY <1>4

\* A seal acknowledges nothing and forgets nothing: a frozen generation was
\* dirty, and the generation that replaces it is clean.
LEMMA FreezeKeepsWritten ==
  ASSUME TypeOK, BatchIsDirty, NEW p \in Parts, FreezePartition(p), NEW q \in Parts
  PROVE  Written(q)' = Written(q)
<1>1. /\ wal_gen[q] \in Nat /\ \A g \in Gens : g \in Nat
      /\ wal_gen'[q] = IF q = p THEN wal_gen[q] + 1 ELSE wal_gen[q]
  BY CacheAssumption, SMTT(30) DEF TypeOK, CacheTypeOK, Gens, FreezePartition, Freeze
<1>2. dirty[p] /\ (dirty'[q] <=> dirty[q] /\ q # p)
  BY Zenon DEF FreezePartition, Freeze, BatchIsDirty, TypeOK
<1>3. CASE q = p
  <2>1. Written(q)' = {g \in Gens : g < wal_gen[q] + 1}
    BY <1>1, <1>2, <1>3, Zenon DEF Written
  <2>2. Written(q) = {g \in Gens : g < wal_gen[q] \/ g = wal_gen[q]}
    BY <1>2, <1>3 DEF Written
  <2> QED BY <1>1, <2>1, <2>2
<1>4. CASE q # p
  BY <1>1, <1>2, <1>4 DEF Written
<1> QED BY <1>3, <1>4

-----------------------------------------------------------------------------
(* The database drives the cache only through the cache's operations. *)

LEMMA StepIsCacheStep == [Next]_vars => [CacheNext]_cacheVars
<1> SUFFICES ASSUME [Next]_vars PROVE [CacheNext]_cacheVars
  OBVIOUS
<1>1. ASSUME NEW p \in Parts, Write(p) PROVE CacheNext
  BY <1>1 DEF Write, CacheNext
<1>2. ASSUME NEW B \in SUBSET Parts, FreezeBatchPartitions(B) PROVE CacheNext
  BY <1>2, Zenon DEF FreezeBatchPartitions, CacheNext
<1>2a. ASSUME NEW p \in Parts, FreezePartition(p) PROVE CacheNext
  BY <1>2a, Zenon DEF FreezePartition, CacheNext
<1>2b. CASE SwitchMemtable
  BY <1>2b, Zenon DEF SwitchMemtable, CacheNext
<1>3. ASSUME NEW e \in Epochs, DestroyMemTable(e) PROVE CacheNext
  BY <1>3, Zenon DEF DestroyMemTable, CacheNext
<1>4. ASSUME NEW e \in Epochs, FinishRelease(e) PROVE CacheNext
  BY <1>4, Zenon DEF FinishRelease, CacheNext
<1>4a. CASE PurgeSealedFiles
  BY <1>4a, Zenon DEF PurgeSealedFiles, CacheNext
<1>4b. CASE UnlinkSealed
  BY <1>4b, Zenon DEF UnlinkSealed, CacheNext
<1>5. CASE Crash
  BY <1>5 DEF Crash, CacheNext
<1>6. CASE UNCHANGED cacheVars
  BY <1>6
<1> QED
  BY <1>1, <1>2, <1>2a, <1>2b, <1>3, <1>4, <1>4a, <1>4b, <1>5, <1>6, Zenon
    DEF Next, vars, PickMemTables, MaterializePartition,
     Install, FlushFails, Resume, StartCompaction, FinishCompaction, ReleaseFrozen,
     AcquireSuperVersion, LookupIndex, ReleaseSuperVersion

\* The composed system implements SealedFileCache, so every theorem about the
\* cache alone holds of the cache inside the running database.
THEOREM ImplementsCache == Spec => CacheSpec
<1>1. Init => CacheInit
  BY DEF Init
<1> QED BY <1>1, StepIsCacheStep, PTL DEF Spec, CacheSpec

-----------------------------------------------------------------------------
(* Preservation of DBInv, one lemma per action. *)

LEMMA DBInitInv == Init => DBInv
<1> SUFFICES ASSUME Init PROVE DBInv
  OBVIOUS
<1>1. CacheInv
  BY CacheInitInv DEF Init
<1>2. Idle \in ReaderState /\ Idle.pc = "idle"
  BY Zenon DEF Idle, ReaderState
<1>3. TypeOK
  <2>1. fails \in 0 .. MaxFail /\ crashes \in 0 .. MaxCrash
    BY DBAssumption DEF Init
  <2>2. CacheTypeOK
    BY <1>1, Zenon DEF CacheInv
  <2> QED BY <1>2, <2>1, <2>2, Zenon DEF Init, TypeOK
<1>4. Doomed = {} /\ Readable = {}
  BY Zenon DEF Init, CacheInit, NoFiles, Doomed, Readable
<1>5. \A p \in Parts : InSST(p) = {} /\ Written(p) = {}
  BY CacheAssumption, SMTT(30) DEF Init, CacheInit, InSST, Written, Gens
<1>6. PinsHold
  BY DEF Init, PinsHold, Idle
<1>7. BatchIsDirty /\ se_gens = {}
  BY DEF Init, CacheInit, BatchIsDirty
<1> QED
  BY <1>1, <1>3, <1>4, <1>5, <1>6, <1>7, Zenon
    DEF Init, CacheInit, DBInv, EpochStates, OutputsMatchEpochs,
     ReleasedIsMaterialized, SstIsSealed, DirtyOnDisk, NoAckedLoss, IndexedIsOwned,
     UnflushedIsIndexed, ReleasingIsUnindexed

\* A write touches only the active generation, which nothing owns yet.
LEMMA WriteInv ==
  ASSUME DBInv, CacheInv', NEW p \in Parts, Write(p)
  PROVE  DBInv'
<1> USE DEF DBInv
<1>1. /\ files' = files \cup {ActiveFile(p)}
      /\ dirty' = [dirty EXCEPT ![p] = TRUE]
      /\ UNCHANGED <<wal_gen, epoch_counter, epochs, gens, gen_refs, recovery_gens, skip_gens,
                     releasing, to_unlink, pending_unlink, purging, batch, se_gens, frozen, imm,
                     flushed, job_epochs, job_out, fails, bg_error, l0, base, compacting,
                     reader, crashes>>
  BY Zenon DEF Write, EnsureOpenForWrite, ownerVars, freeVars, sealVars, jobVars, lsmVars
<1>2. TypeOK'
  BY <1>1, Zenon DEF TypeOK, CacheInv
<1>3. /\ Readable' = Readable /\ Doomed' = Doomed /\ MemEpoch' = MemEpoch
      /\ \A q : InSST(q)' = InSST(q)
  BY <1>1, Zenon DEF Readable, Doomed, MemEpoch, Sealing, InSST
<1>4. EpochStates' /\ OutputsMatchEpochs' /\ ReleasedIsMaterialized' /\ SstIsSealed'
  BY <1>1, <1>3, Zenon DEF EpochStates, OutputsMatchEpochs, GensOf, ReleasedIsMaterialized,
     Materialized, SstIsSealed
<1>5. IndexedIsOwned' /\ UnflushedIsIndexed' /\ ReleasingIsUnindexed' /\ PinsHold'
  BY <1>1, <1>3, Zenon
    DEF IndexedIsOwned, UnflushedIsIndexed, ReleasingIsUnindexed, PinsHold, Indexed
<1>6. DirtyOnDisk' /\ BatchIsDirty'
  BY <1>1, Zenon DEF DirtyOnDisk, BatchIsDirty, ActiveFile, TypeOK, CacheTypeOK
<1>7. NoAckedLoss'
  <2> SUFFICES ASSUME NEW q \in Parts, NEW g \in Written(q)'
               PROVE  <<q, g>> \in files' \/ g \in InSST(q)'
    BY Zenon DEF NoAckedLoss
  <2>1. CASE g \in Written(q)
    BY <1>1, <1>3, <2>1, Zenon DEF NoAckedLoss
  <2>2. CASE g \notin Written(q)
    <3>1. q = p /\ g = wal_gen[p]
      BY <1>1, <2>2, Zenon DEF Written, TypeOK
    <3> QED BY <1>1, <3>1 DEF ActiveFile
  <2> QED BY <2>1, <2>2, Zenon
<1> QED BY <1>2, <1>4, <1>5, <1>6, <1>7, Zenon

\* A seal begins by taking an epoch number; nothing it will freeze has moved.
LEMMA FreezeBatchInv ==
  ASSUME DBInv, CacheInv', NEW B \in SUBSET Parts, FreezeBatchPartitions(B)
  PROVE  DBInv'
<1> USE DEF DBInv
<1>1. /\ ~ Sealing /\ B # {} /\ epoch_counter' = epoch_counter + 1 /\ batch' = B
      /\ \A p \in B : dirty[p]
      /\ UNCHANGED <<wal_gen, files, epochs, gens, gen_refs, recovery_gens, skip_gens, releasing,
                     to_unlink, pending_unlink, purging, se_gens, dirty, frozen, imm, flushed,
                     job_epochs, job_out, fails, bg_error, l0, base, compacting, reader, crashes>>
  BY Zenon DEF FreezeBatchPartitions, SealEpoch, walVars, ownerVars, freeVars, memVars, jobVars,
     lsmVars
<1>2. MemEpoch' = MemEpoch
  BY <1>1 DEF MemEpoch, Sealing
<1>3. Readable' = Readable /\ Doomed' = Doomed
  BY <1>1, Zenon DEF Readable, Doomed
<1>4. \A q : Written(q)' = Written(q) /\ InSST(q)' = InSST(q)
  BY <1>1, Zenon DEF Written, InSST
<1>5. TypeOK'
  BY <1>1, Zenon DEF TypeOK, CacheInv
<1>6. EpochStates' /\ OutputsMatchEpochs' /\ ReleasedIsMaterialized' /\ SstIsSealed'
  BY <1>1, <1>3, <1>4, Zenon
    DEF EpochStates, OutputsMatchEpochs, GensOf, ReleasedIsMaterialized, Materialized, SstIsSealed
<1>7. DirtyOnDisk' /\ BatchIsDirty' /\ NoAckedLoss'
  BY <1>1, <1>4, Zenon DEF DirtyOnDisk, ActiveFile, BatchIsDirty, NoAckedLoss
<1>8. IndexedIsOwned' /\ UnflushedIsIndexed' /\ ReleasingIsUnindexed' /\ PinsHold'
  BY <1>1, <1>2, <1>3, Zenon
    DEF IndexedIsOwned, UnflushedIsIndexed, ReleasingIsUnindexed, PinsHold, Indexed
<1> QED BY <1>5, <1>6, <1>7, <1>8, Zenon

\* Freezing a partition moves its active generation, which is dirty and so on
\* disk, into the index chain and into the generations to be registered.
LEMMA FreezePartitionInv ==
  ASSUME DBInv, CacheInv', NEW p \in Parts, FreezePartition(p)
  PROVE  DBInv'
<1> USE DEF DBInv
<1>1. /\ p \in batch /\ batch' = batch \ {p}
      /\ wal_gen' = [wal_gen EXCEPT ![p] = @ + 1]
      /\ files' = files \cup {<<p, wal_gen[p] + 1>>}
      /\ se_gens' = se_gens \cup {ActiveFile(p)}
      /\ dirty' = [dirty EXCEPT ![p] = FALSE]
      /\ frozen' = [frozen EXCEPT ![p] = @ \cup {wal_gen[p]}]
      /\ UNCHANGED <<epoch_counter, epochs, gens, gen_refs, recovery_gens, skip_gens, releasing,
                     to_unlink, pending_unlink, purging, imm, flushed, job_epochs, job_out, fails,
                     bg_error, l0, base, compacting, reader, crashes>>
  BY Zenon DEF FreezePartition, Freeze, ownerVars, freeVars, jobVars, lsmVars
<1>2. MemEpoch' = MemEpoch
  BY <1>1, Zenon DEF MemEpoch, Sealing
<1>3. /\ \A q \in Parts : wal_gen[q] \in Gens /\ wal_gen[q] \in Nat /\ wal_gen'[q] \in Nat
      /\ \A q \in Parts : wal_gen'[q] >= wal_gen[q] /\ (q # p => wal_gen'[q] = wal_gen[q])
      /\ \A g \in Gens : g \in Nat
  BY <1>1, CacheAssumption, SMTT(30) DEF CacheInv, CacheTypeOK, Gens
<1>4. Readable' = Readable /\ Doomed' = Doomed /\ \A q : InSST(q)' = InSST(q)
  BY <1>1, Zenon DEF Readable, Doomed, InSST
<1>5. \A q \in Parts : \A g : g \in frozen'[q] <=> g \in frozen[q] \/ (q = p /\ g = wal_gen[p])
  BY <1>1, Zenon DEF TypeOK
<1>6. TypeOK'
  <2>1. dirty' \in [Parts -> BOOLEAN]
    BY <1>1, Zenon DEF TypeOK
  <2>2. frozen' \in [Parts -> SUBSET Gens]
    BY <1>1, <1>3, Zenon DEF TypeOK
  <2> QED BY <1>1, <2>1, <2>2, Zenon DEF TypeOK, CacheInv
<1>7. EpochStates' /\ OutputsMatchEpochs' /\ ReleasedIsMaterialized'
  BY <1>1, <1>4, Zenon
    DEF EpochStates, OutputsMatchEpochs, GensOf, ReleasedIsMaterialized, Materialized
<1>8. SstIsSealed'
  <2> SUFFICES ASSUME NEW q \in Parts, NEW g \in InSST(q) PROVE g < wal_gen'[q]
    BY <1>4 DEF SstIsSealed
  <2>1. g < wal_gen[q] /\ g \in Gens
    BY InSSTMember, SMTT(30) DEF SstIsSealed, TypeOK, L0File
  <2> QED BY <1>3, <2>1
<1>9. DirtyOnDisk' /\ BatchIsDirty'
  BY <1>1, <1>3, Zenon DEF DirtyOnDisk, BatchIsDirty, ActiveFile, TypeOK, CacheTypeOK
<1>10. NoAckedLoss'
  BY <1>1, <1>4, FreezeKeepsWritten, Zenon DEF NoAckedLoss
<1>11. IndexedIsOwned'
  BY <1>1, <1>4, <1>5, Zenon DEF IndexedIsOwned, ActiveFile
<1>12. /\ recovery_gens \cup skip_gens \cup se_gens \subseteq File
       /\ \A d \in epochs : gens[d] \subseteq File
  BY CacheAssumption, SMTT(30) DEF CacheInv, CacheTypeOK, Epochs
<1>13. \A f \in File : Indexed(f) => Indexed(f)'
  BY <1>5 DEF Indexed, File
<1>14. \A f : f = ActiveFile(p) => Indexed(f)'
  BY <1>5 DEF Indexed, ActiveFile
<1>15. UnflushedIsIndexed'
  <2>1. \A f \in recovery_gens' \cup skip_gens' \cup se_gens' : f = ActiveFile(p) \/ Indexed(f)'
    BY <1>1, <1>12, <1>13, Zenon DEF UnflushedIsIndexed
  <2>2. \A d \in imm' : \A f \in gens'[d] : Indexed(f)'
    BY <1>1, <1>12, <1>13, Zenon DEF UnflushedIsIndexed, EpochStates
  <2> QED BY <1>14, <2>1, <2>2, Zenon DEF UnflushedIsIndexed
<1>16. ReleasingIsUnindexed'
  <2> SUFFICES ASSUME NEW d \in epochs, releasing[d] # {}, NEW f \in gens[d] PROVE ~ Indexed(f)'
    BY <1>1, Zenon DEF ReleasingIsUnindexed
  <2>1. f \in Readable /\ f \in File
    BY <1>12 DEF Readable
  <2>2. f[1] \in Parts /\ f[2] # wal_gen[f[1]]
    BY <1>3, <2>1, SMTT(30) DEF CacheInv, ReadableIsSafe, SealedFiles, File
  <2> QED BY <1>5, <2>2, Zenon DEF ReleasingIsUnindexed, Indexed
<1>17. PinsHold'
  BY <1>1, <1>2, <1>12, <1>13, Zenon DEF PinsHold, EpochStates
<1> QED
  BY <1>6, <1>7, <1>8, <1>9, <1>10, <1>11, <1>15, <1>16, <1>17, Zenon

\* Registration gives the new epoch the generations of the seal and everything
\* the skip and recovery sets held, all of them indexed, and queues the flush.
LEMMA SwitchMemtableInv ==
  ASSUME DBInv, CacheInv', SwitchMemtable
  PROVE  DBInv'
<1> DEFINE e == epoch_counter
           merged == se_gens \cup recovery_gens \cup skip_gens
<1> USE DEF DBInv
<1>1. /\ se_gens # {} /\ batch = {} /\ batch' = {} /\ se_gens' = {}
      /\ epochs' = epochs \cup {e}
      /\ gens' = [gens EXCEPT ![e] = merged]
      /\ recovery_gens' = {} /\ skip_gens' = {}
      /\ imm' = imm \cup {e}
      /\ UNCHANGED <<wal_gen, files, epoch_counter, releasing, to_unlink, pending_unlink, purging,
                     dirty, frozen, flushed, job_epochs, job_out, fails, bg_error, l0, base,
                     compacting, reader, crashes>>
  BY Zenon DEF SwitchMemtable, RegisterEpoch, AddEpochWithRecoveryAdoption, walVars, freeVars,
     jobVars, lsmVars
<1>2. /\ e \in Epochs /\ e \notin epochs /\ releasing[e] = {}
      /\ \A d \in epochs : d \in Epochs /\ d # e
  <2>1. e \in Epochs \ epochs
    BY <1>1, Zenon DEF CacheInv, SealInFlight, Sealing
  <2>2. epochs \subseteq Epochs
    BY CacheAssumption DEF CacheInv, CacheTypeOK, Epochs
  <2>3. releasing[e] = {}
    BY <2>1, Zenon DEF CacheInv, ReleasingOwned, RefsMatchGens
  <2> QED BY <2>1, <2>2, <2>3, Zenon
<1>3. gens'[e] = merged /\ \A d \in epochs : gens'[d] = gens[d]
  BY <1>1, <1>2, Zenon DEF CacheInv, CacheTypeOK
<1>4. /\ Doomed' = Doomed
      /\ \A q : Written(q)' = Written(q) /\ InSST(q)' = InSST(q)
  BY <1>1, Zenon DEF Doomed, Written, InSST
<1>5. Readable' = Readable \cup se_gens
  BY <1>1, <1>2, <1>3, SMTT(30) DEF Readable
<1>6. TypeOK'
  BY <1>1, <1>2, Zenon DEF TypeOK, CacheInv
<1>7. EpochStates'
  BY <1>1, <1>2, Zenon DEF EpochStates
<1>8. OutputsMatchEpochs'
  BY <1>1, <1>3, ZenonT(30) DEF OutputsMatchEpochs, GensOf, TypeOK, EpochStates
<1>9. ReleasedIsMaterialized'
  BY <1>1, <1>3, <1>4, Zenon DEF ReleasedIsMaterialized, Materialized
<1>10. SstIsSealed' /\ DirtyOnDisk' /\ BatchIsDirty' /\ NoAckedLoss'
  BY <1>1, <1>4, Zenon DEF SstIsSealed, DirtyOnDisk, BatchIsDirty, ActiveFile, NoAckedLoss
<1>11. IndexedIsOwned'
  BY <1>1, <1>5, Zenon DEF IndexedIsOwned
<1>12. \A f \in merged : Indexed(f)
  BY Zenon DEF UnflushedIsIndexed
<1>13. UnflushedIsIndexed'
  BY <1>1, <1>3, <1>12, Zenon DEF UnflushedIsIndexed, EpochStates, Indexed
<1>14. ReleasingIsUnindexed'
  BY <1>1, <1>2, <1>3, Zenon DEF ReleasingIsUnindexed, Indexed
<1>15. PinsHold'
  <2>1. MemEpoch = e /\ MemEpoch' = e + 1
    BY <1>1 DEF MemEpoch, Sealing
  <2> SUFFICES ASSUME NEW r \in Readers, NEW d \in reader[r].pins, d < e + 1
               PROVE  d \in imm' \cup flushed /\ \A f \in gens'[d] : Indexed(f)
    BY <1>1, <2>1, Zenon DEF PinsHold, Indexed
  <2>2. CASE d = e
    BY <1>1, <1>3, <1>12, <2>2, Zenon
  <2>3. CASE d # e
    <3>1. d \in Int /\ e \in Int
      BY CacheAssumption, SMTT(30) DEF TypeOK, ReaderState, CacheInv, CacheTypeOK
    <3>2. d < MemEpoch
      BY <2>1, <2>3, <3>1
    <3>3. d \in imm \cup flushed /\ \A f \in gens[d] : Indexed(f)
      BY <3>2 DEF PinsHold
    <3> QED BY <1>1, <1>3, <3>3, Zenon DEF EpochStates
  <2> QED BY <2>2, <2>3
<1> QED
  BY <1>6, <1>7, <1>8, <1>9, <1>10, <1>11, <1>13, <1>14, <1>15, Zenon

\* A step that leaves the cache, the memtables and the contents of the SSTs
\* alone only has to show what it does to the flush job and to the readers.
LEMMA FrameInv ==
  ASSUME DBInv, UNCHANGED <<cacheVars, memVars>>, \A p \in Parts : InSST(p)' = InSST(p),
         TypeOK', OutputsMatchEpochs', PinsHold'
  PROVE  DBInv'
<1> USE DEF DBInv
<1>1. UNCHANGED <<wal_gen, files, epoch_counter, epochs, gens, gen_refs, recovery_gens, skip_gens,
                  releasing, to_unlink, pending_unlink, purging, batch, se_gens, dirty, frozen,
                  imm, flushed>>
  BY DEF cacheVars, walVars, ownerVars, freeVars, sealVars, memVars
<1>2. CacheInv'
  BY CacheStutterInv
<1>3. Readable' = Readable /\ Doomed' = Doomed /\ \A q : Written(q)' = Written(q)
  BY <1>1, Zenon DEF Readable, Doomed, Written
<1>4. Doomed \subseteq File /\ \A e \in epochs : gens[e] \subseteq File
  BY CacheAssumption, SMTT(30) DEF TypeOK, CacheTypeOK, Doomed, Epochs
<1>5. ReleasedIsMaterialized'
  BY <1>1, <1>3, <1>4, Zenon DEF ReleasedIsMaterialized, Materialized, File
<1>6. EpochStates' /\ SstIsSealed' /\ DirtyOnDisk' /\ BatchIsDirty' /\ NoAckedLoss'
  BY <1>1, <1>3, Zenon
    DEF EpochStates, SstIsSealed, DirtyOnDisk, BatchIsDirty, NoAckedLoss, ActiveFile
<1>7. IndexedIsOwned' /\ UnflushedIsIndexed' /\ ReleasingIsUnindexed'
  BY <1>1, <1>3, Zenon DEF IndexedIsOwned, UnflushedIsIndexed, ReleasingIsUnindexed, Indexed
<1> QED BY <1>2, <1>5, <1>6, <1>7, Zenon

LEMMA PinsFrame ==
  ASSUME PinsHold, UNCHANGED <<cacheVars, memVars, reader>>
  PROVE  PinsHold'
BY Zenon DEF PinsHold, MemEpoch, Sealing, Indexed, cacheVars, ownerVars, sealVars, memVars

\* Until it installs, a flush job and a starting compaction touch only their
\* own bookkeeping.
LEMMA JobInv ==
  ASSUME DBInv,
         \/ PickMemTables
         \/ \E e \in Epochs, p \in Parts : MaterializePartition(e, p)
         \/ FlushFails
         \/ Resume
         \/ \E S \in SUBSET Parts : StartCompaction(S)
         \/ UNCHANGED vars
  PROVE  DBInv'
<1> USE DEF DBInv
<1>1. UNCHANGED <<cacheVars, memVars, l0, base, reader>>
  BY Zenon
    DEF PickMemTables, MaterializePartition, FlushFails, Resume, StartCompaction, vars, lsmVars,
     jobVars
<1>2. \A p \in Parts : InSST(p)' = InSST(p)
  BY <1>1, Zenon DEF InSST
<1>3. PinsHold'
  BY <1>1, PinsFrame, Zenon
<1>4. CacheTypeOK' /\ imm' = imm /\ gens' = gens
  BY <1>1, CacheStutterInv, Zenon DEF CacheInv, cacheVars, ownerVars, memVars
<1>5. TypeOK' /\ OutputsMatchEpochs'
  <2>1. CASE PickMemTables
    <3>1. job_out = {}
      BY <2>1 DEF PickMemTables, OutputsMatchEpochs
    <3> QED
      BY <1>4, <2>1, <3>1, Zenon DEF PickMemTables, TypeOK, OutputsMatchEpochs, memVars, lsmVars
  <2>2. ASSUME NEW e \in Epochs, NEW p \in Parts, MaterializePartition(e, p)
        PROVE  TypeOK' /\ OutputsMatchEpochs'
    <3> DEFINE o == [epoch |-> e, part |-> p, gens |-> GensOf(gens[e], p), num |-> NextFileNum]
    <3>1. job_out' = job_out \cup {o} /\ job_epochs' = job_epochs
      BY <2>2, Zenon DEF MaterializePartition
    <3>2. e \in job_epochs
      BY <2>2, Zenon DEF MaterializePartition, MayFinish, Tasks
    <3>3. NextFileNum \in Nat
      <4>1. \A f \in l0 : f.num \in Nat
        BY Zenon DEF TypeOK, L0File
      <4>2. \A x \in job_out : x.num \in Nat
        BY Zenon DEF TypeOK, Output
      <4> DEFINE S == {0} \cup {f.num : f \in l0} \cup {x.num : x \in job_out}
      <4>3. S \subseteq Nat
        BY <4>1, <4>2, SMTT(30)
      <4>4. NextFileNum = Largest(S) + 1
        BY Zenon DEF NextFileNum
      <4> HIDE DEF S
      <4>5. Largest(S) \in Nat \cup {-1}
        BY <4>3, LargestType, Zenon DEF NoVersion
      <4> QED BY <4>4, <4>5, SMTT(30)
    <3>4. GensOf(gens[e], p) \in SUBSET Gens
      BY Zenon DEF GensOf
    <3>5. o \in Output
      BY <3>3, <3>4, Zenon DEF Output
    <3>6. TypeOK'
      BY <1>1, <1>4, <2>2, <3>1, <3>5, Zenon DEF TypeOK, MaterializePartition, memVars, lsmVars
    <3>7. o.epoch \in job_epochs /\ o.gens = GensOf(gens[o.epoch], o.part)
      BY <3>2
    <3> HIDE DEF o
    <3>8. OutputsMatchEpochs'
      BY <1>4, <3>1, <3>7, Zenon DEF OutputsMatchEpochs, GensOf
    <3> QED BY <3>6, <3>8, Zenon
  <2>3. CASE FlushFails
    <3>1. bg_error' \in BOOLEAN
      BY <2>3, Zenon DEF FlushFails
    <3>2. fails' \in 0 .. MaxFail
      BY <2>3, DBAssumption DEF FlushFails, TypeOK
    <3> QED
      BY <1>4, <2>3, <3>1, <3>2, Zenon
        DEF FlushFails, TypeOK, OutputsMatchEpochs, memVars, lsmVars
  <2>4. ASSUME NEW S \in SUBSET Parts, StartCompaction(S)
        PROVE  TypeOK' /\ OutputsMatchEpochs'
    BY <1>4, <2>4, Zenon
       DEF StartCompaction, TypeOK, OutputsMatchEpochs, GensOf, memVars, jobVars
  <2>4a. CASE Resume
    BY <1>4, <2>4a, Zenon DEF Resume, TypeOK, OutputsMatchEpochs, GensOf, memVars, lsmVars
  <2>5. CASE UNCHANGED vars
    BY <1>4, <2>5, Zenon DEF vars, TypeOK, OutputsMatchEpochs, GensOf, memVars, jobVars, lsmVars
  <2> QED BY <2>1, <2>2, <2>3, <2>4, <2>4a, <2>5, Zenon
<1> QED BY <1>1, <1>2, <1>3, <1>5, FrameInv, Zenon

\* A finished compaction changes where versions are, not which are there.
LEMMA FinishCompactionInv ==
  ASSUME DBInv, FinishCompaction
  PROVE  DBInv'
<1> USE DEF DBInv
<1>1. UNCHANGED <<cacheVars, memVars, jobVars, reader, crashes>>
  BY Zenon DEF FinishCompaction
<1>2. \A p \in Parts : InSST(p)' = InSST(p)
  BY CompactionKeeps
<1>3. PinsHold'
  BY <1>1, PinsFrame
<1>4. CacheTypeOK' /\ imm' = imm /\ gens' = gens
  BY <1>1, CacheStutterInv, Zenon DEF CacheInv, cacheVars, ownerVars, memVars
<1>5. OutputsMatchEpochs'
  BY <1>1, <1>4, Zenon DEF OutputsMatchEpochs, GensOf, jobVars
<1>6. base' \in [Parts -> SUBSET Gens]
  <2>1. \A f \in compacting : f.gens \subseteq Gens
    BY DEF TypeOK, L0File
  <2>2. \A p \in Parts : base[p] \cup UNION {f.gens : f \in {h \in compacting : h.part = p}} \subseteq Gens
    BY <2>1, Zenon DEF TypeOK
  <2> QED BY <2>2, Zenon DEF FinishCompaction
<1>7. TypeOK'
  BY <1>1, <1>4, <1>6, Zenon DEF TypeOK, FinishCompaction, memVars, jobVars
<1> QED BY <1>1, <1>2, <1>3, <1>5, <1>7, FrameInv, Zenon

\* Install is where a generation becomes safe to release: every task of the
\* job has finished, so every generation of its epochs is in an SST.
LEMMA InstallInv ==
  ASSUME DBInv, Install
  PROVE  DBInv'
<1> USE DEF DBInv
<1>1. /\ imm' = imm \ job_epochs /\ flushed' = flushed \cup job_epochs
      /\ job_epochs' = {} /\ job_out' = {}
      /\ UNCHANGED <<cacheVars, dirty, frozen, fails, bg_error, compacting, reader, crashes>>
      /\ ApplyOutputs /\ Tasks \subseteq Finished
  BY DEF Install
<1>2. UNCHANGED <<wal_gen, files, epoch_counter, epochs, gens, gen_refs, recovery_gens, skip_gens,
                  releasing, to_unlink, pending_unlink, purging, batch, se_gens>>
  BY <1>1, Zenon DEF cacheVars, walVars, ownerVars, freeVars, sealVars
<1>3. CacheInv' /\ CacheTypeOK'
  BY <1>1, CacheStutterInv, Zenon DEF CacheInv
<1>4. /\ Readable' = Readable /\ Doomed' = Doomed /\ MemEpoch' = MemEpoch
      /\ \A q : Written(q)' = Written(q)
  BY <1>1, <1>2, Zenon DEF Readable, Doomed, MemEpoch, Sealing, Written
<1>5. \A p \in Parts : InSST(p) \subseteq InSST(p)'
  BY <1>1, ApplyOutputsAdds, Zenon
<1>6. \A e \in epochs : gens[e] \subseteq File
  BY CacheAssumption, SMTT(30) DEF TypeOK, CacheTypeOK, Epochs
<1>7. \A o \in job_out : o.part \in Parts /\ o.epoch \in epochs /\ o.gens \in SUBSET Gens
  BY Zenon DEF TypeOK, Output, OutputsMatchEpochs, EpochStates
<1>8. ASSUME NEW e \in job_epochs, NEW f \in gens[e]
      PROVE  Materialized(f)'
  <2>1. f \in File /\ f = <<f[1], f[2]>> /\ f[1] \in Parts /\ f[2] \in Gens
    BY <1>6, SMTT(30) DEF TypeOK, EpochStates, File
  <2>2. <<e, f[1]>> \in Tasks
    BY <2>1, Zenon DEF Tasks, GensOf
  <2>3. PICK o \in job_out : <<o.epoch, o.part>> = <<e, f[1]>>
    BY <1>1, <2>2, Zenon DEF Finished
  <2>4. f[2] \in o.gens /\ o.part = f[1]
    BY <2>1, <2>3, Zenon DEF OutputsMatchEpochs, GensOf
  <2> QED BY <1>1, <2>1, <2>4, ApplyOutputsAdds, Zenon DEF Materialized
<1>9. ReleasedIsMaterialized'
  <2>1. \A f \in File : Materialized(f) => Materialized(f)'
    BY <1>5, Zenon DEF Materialized, File
  <2>2. Doomed \subseteq File
    BY SMTT(30) DEF Doomed, TypeOK, CacheTypeOK
  <2>3. \A e \in epochs \ imm' : \A f \in gens[e] : Materialized(f)'
    BY <1>1, <1>6, <1>8, <2>1, Zenon DEF ReleasedIsMaterialized
  <2> QED BY <1>2, <1>4, <2>1, <2>2, <2>3, Zenon DEF ReleasedIsMaterialized
<1>10. SstIsSealed'
  <2> SUFFICES ASSUME NEW p \in Parts, NEW g \in InSST(p)' PROVE g < wal_gen[p]
    BY <1>2, Zenon DEF SstIsSealed
  <2>1. CASE g \in InSST(p)
    BY <2>1, Zenon DEF SstIsSealed
  <2>2. ASSUME NEW o \in job_out, o.part = p, g \in o.gens PROVE g < wal_gen[p]
    <3>1. <<p, g>> \in gens[o.epoch] /\ o.epoch \in epochs
      BY <1>7, <2>2, Zenon DEF OutputsMatchEpochs, GensOf
    <3> QED BY <3>1, SMTT(30) DEF CacheInv, ReadableIsSafe, Readable, SealedFiles
  <2> QED BY <1>1, <2>1, <2>2, ApplyOutputsAdds, Zenon
<1>11. TypeOK'
  <2>1. base' \in [Parts -> SUBSET Gens]
    <3>1. \A p \in Parts : base[p] \cup
            UNION {o.gens : o \in {x \in job_out : x.part = p /\ PicksBase(x)}} \subseteq Gens
      BY <1>7, Zenon DEF TypeOK
    <3> QED BY <1>1, <3>1, Zenon DEF ApplyOutputs
  <2>2. l0' \subseteq L0File /\ compacting' \subseteq l0'
    <3>1. \A o \in job_out : [part |-> o.part, gens |-> o.gens, num |-> o.num] \in L0File
      BY Zenon DEF TypeOK, Output, L0File
    <3> QED BY <1>1, <3>1, Zenon DEF ApplyOutputs, TypeOK
  <2> QED BY <1>1, <1>3, <2>1, <2>2, Zenon DEF TypeOK
<1>12. EpochStates' /\ OutputsMatchEpochs' /\ DirtyOnDisk' /\ BatchIsDirty'
  BY <1>1, <1>2, Zenon
    DEF EpochStates, OutputsMatchEpochs, DirtyOnDisk, BatchIsDirty, ActiveFile, TypeOK
<1>13. NoAckedLoss'
  BY <1>2, <1>4, <1>5, Zenon DEF NoAckedLoss
<1>14. IndexedIsOwned' /\ UnflushedIsIndexed' /\ ReleasingIsUnindexed' /\ PinsHold'
  BY <1>1, <1>2, <1>4, Zenon
     DEF IndexedIsOwned, UnflushedIsIndexed, ReleasingIsUnindexed, PinsHold, Indexed
<1> QED BY <1>3, <1>9, <1>10, <1>11, <1>12, <1>13, <1>14, Zenon

\* Index release waits until no SuperVersion references the memtable, and the
\* generations it drops belong to that epoch alone.
LEMMA ReleaseFrozenInv ==
  ASSUME DBInv, NEW e \in Epochs, NEW f \in File, ReleaseFrozen(e, f)
  PROVE  DBInv'
<1> USE DEF DBInv
<1>1. /\ e \in flushed /\ ~ Pinned(e) /\ f \in gens[e]
      /\ frozen' = [frozen EXCEPT ![f[1]] = @ \ {f[2]}]
      /\ UNCHANGED <<cacheVars, dirty, imm, flushed, jobVars, lsmVars, reader, crashes>>
  BY Zenon DEF ReleaseFrozen
<1>2. UNCHANGED <<wal_gen, files, epoch_counter, epochs, gens, gen_refs, recovery_gens, skip_gens,
                  releasing, to_unlink, pending_unlink, purging, batch, se_gens, job_epochs,
                  job_out, fails, bg_error, l0, base, compacting>>
  BY <1>1, Zenon DEF cacheVars, walVars, ownerVars, freeVars, sealVars, jobVars, lsmVars
<1>3. CacheInv' /\ CacheTypeOK'
  BY <1>1, CacheStutterInv, Zenon DEF CacheInv
<1>4. /\ Readable' = Readable /\ Doomed' = Doomed /\ MemEpoch' = MemEpoch
      /\ \A q : Written(q)' = Written(q) /\ InSST(q)' = InSST(q)
  BY <1>1, <1>2, Zenon DEF Readable, Doomed, MemEpoch, Sealing, Written, InSST
<1>5. TypeOK'
  BY <1>1, <1>2, <1>3, Zenon DEF TypeOK
<1>6. EpochStates' /\ OutputsMatchEpochs' /\ DirtyOnDisk' /\ BatchIsDirty'
  BY <1>1, <1>2, Zenon
    DEF EpochStates, OutputsMatchEpochs, GensOf, DirtyOnDisk, BatchIsDirty, ActiveFile
<1>7. ReleasedIsMaterialized' /\ SstIsSealed' /\ NoAckedLoss'
  BY <1>1, <1>2, <1>4, Zenon DEF ReleasedIsMaterialized, Materialized, SstIsSealed, NoAckedLoss
<1>8. e \in epochs /\ epochs \subseteq Epochs
  BY <1>1, CacheAssumption, SMTT(30) DEF EpochStates, TypeOK, CacheTypeOK, Epochs
<1>9. \A h \in File : /\ Indexed(h)' => Indexed(h)
                      /\ Indexed(h) /\ h # f => Indexed(h)'
  <2>1. \A q \in Parts : frozen'[q] = IF q = f[1] THEN frozen[q] \ {f[2]} ELSE frozen[q]
    BY <1>1, Zenon DEF TypeOK
  <2>2. \A h \in File : h[1] \in Parts /\ (h # f => h[1] # f[1] \/ h[2] # f[2])
    BY DEF File
  <2> QED BY <2>1, <2>2, Zenon DEF Indexed
<1>10. \A p \in Parts : frozen'[p] \subseteq frozen[p]
  BY <1>1, Zenon DEF TypeOK, File
<1>11. IndexedIsOwned'
  BY <1>2, <1>4, <1>10, Zenon DEF IndexedIsOwned
<1>12. /\ recovery_gens \cup skip_gens \cup se_gens \subseteq File
       /\ \A d \in epochs : gens[d] \subseteq File
       /\ \A d \in epochs : d # e => f \notin gens[d]
       /\ f \notin recovery_gens \cup skip_gens \cup se_gens
  BY <1>1, <1>8, SMTT(30) DEF TypeOK, CacheTypeOK, CacheInv, OneOwner, Readable
<1>13. UnflushedIsIndexed'
  BY <1>1, <1>2, <1>9, <1>12, Zenon DEF UnflushedIsIndexed, EpochStates
<1>14. ReleasingIsUnindexed'
  BY <1>1, <1>2, <1>9, <1>12, Zenon DEF ReleasingIsUnindexed
<1>15. PinsHold'
  BY <1>1, <1>2, <1>4, <1>9, <1>12, Zenon DEF PinsHold, Pinned, EpochStates
<1> QED BY <1>3, <1>5, <1>6, <1>7, <1>11, <1>13, <1>14, <1>15, Zenon

\* The memtable's destruction starts the release of an epoch whose generations
\* have all left the index.
LEMMA DestroyMemTableInv ==
  ASSUME DBInv, CacheInv', NEW e \in Epochs, DestroyMemTable(e)
  PROVE  DBInv'
<1> USE DEF DBInv
<1>1. /\ e \in flushed /\ ~ Pinned(e) /\ \A f \in gens[e] : ~ Indexed(f)
      /\ releasing' = [releasing EXCEPT ![e] = gens[e]]
      /\ flushed' = flushed \ {e}
      /\ UNCHANGED <<wal_gen, files, epoch_counter, epochs, gens, gen_refs, recovery_gens,
                     skip_gens, to_unlink, pending_unlink, purging, batch, se_gens, dirty,
                     frozen, imm, job_epochs, job_out, fails, bg_error, l0, base, compacting,
                     reader, crashes>>
  BY Zenon DEF DestroyMemTable, ReleaseEpoch, Indexed, walVars, ownerVars, sealVars, jobVars,
     lsmVars
<1>2. /\ Readable' = Readable /\ Doomed' = Doomed /\ MemEpoch' = MemEpoch
      /\ \A q : Written(q)' = Written(q) /\ InSST(q)' = InSST(q)
  BY <1>1, Zenon DEF Readable, Doomed, MemEpoch, Sealing, Written, InSST
<1>3. TypeOK'
  BY <1>1, Zenon DEF TypeOK, CacheInv
<1>4. EpochStates'
  BY <1>1, Zenon DEF EpochStates, TypeOK, CacheTypeOK
<1>5. OutputsMatchEpochs' /\ DirtyOnDisk' /\ ReleasedIsMaterialized' /\ SstIsSealed' /\ NoAckedLoss'
  BY <1>1, <1>2, Zenon
    DEF OutputsMatchEpochs, GensOf, DirtyOnDisk, ActiveFile, ReleasedIsMaterialized,
     Materialized, SstIsSealed, NoAckedLoss
<1>6. IndexedIsOwned' /\ UnflushedIsIndexed' /\ BatchIsDirty'
  BY <1>1, <1>2, Zenon DEF IndexedIsOwned, UnflushedIsIndexed, BatchIsDirty, Indexed
<1>7. ReleasingIsUnindexed'
  BY <1>1, SMTT(30) DEF ReleasingIsUnindexed, Indexed, TypeOK, CacheTypeOK
<1>8. PinsHold'
  BY <1>1, <1>2, Zenon DEF PinsHold, Pinned, Indexed
<1> QED BY <1>3, <1>4, <1>5, <1>6, <1>7, <1>8, Zenon

\* ReleaseGens frees generations that are installed and no longer indexed.
LEMMA ReleaseGensDB ==
  ASSUME DBInv, CacheInv', NEW e \in Epochs, ReleaseGens(e),
         UNCHANGED <<memVars, jobVars, lsmVars, reader, crashes>>
  PROVE  DBInv'
<1> DEFINE freed == releasing[e] \cap gen_refs[e]
<1> USE DEF DBInv
<1>1. /\ releasing[e] # {}
      /\ gens' = [gens EXCEPT ![e] = @ \ freed]
      /\ epochs' = IF gen_refs[e] \subseteq freed THEN epochs \ {e} ELSE epochs
      /\ to_unlink' = [to_unlink EXCEPT ![e] = IF ReclaimEnabled THEN freed ELSE {}]
      /\ releasing' = [releasing EXCEPT ![e] = {}]
      /\ UNCHANGED <<wal_gen, files, epoch_counter, recovery_gens, skip_gens, pending_unlink,
                     purging, batch, se_gens, dirty, frozen, imm, flushed, job_epochs, job_out,
                     fails, bg_error, l0, base, compacting, reader, crashes>>
  BY Zenon DEF ReleaseGens, Detach, walVars, sealVars, memVars, jobVars, lsmVars
<1>2. e \in epochs /\ epochs \subseteq Epochs /\ freed \subseteq gens[e] /\ freed \subseteq File
  BY <1>1, CacheAssumption, SMTT(30)
    DEF CacheInv, CacheTypeOK, Epochs, ReleasingOwned, RefsMatchGens
<1>3. e \notin imm \cup flushed
  BY <1>1 DEF EpochStates
<1>4. \A d \in Epochs : d # e => gens'[d] = gens[d]
  BY <1>1, Zenon DEF TypeOK, CacheTypeOK
<1>5. gens'[e] = gens[e] \ freed
  BY <1>1, Zenon DEF TypeOK, CacheTypeOK
<1>6. MemEpoch' = MemEpoch /\ \A q : Written(q)' = Written(q) /\ InSST(q)' = InSST(q)
  BY <1>1, Zenon DEF MemEpoch, Sealing, Written, InSST
<1>7. \A f \in Doomed' : f \in Doomed \/ f \in freed
  BY <1>1, <1>2, SMTT(30) DEF Doomed, TypeOK, CacheTypeOK
<1>8. ASSUME NEW f \in Readable, f \notin freed PROVE f \in Readable'
  <2>1. CASE f \in recovery_gens \cup skip_gens
    BY <1>1, <2>1, Zenon DEF Readable
  <2>2. ASSUME NEW d \in epochs, f \in gens[d] PROVE f \in Readable'
    <3>1. d \in epochs' /\ f \in gens'[d]
      BY <1>1, <1>2, <1>4, <1>5, <1>8, <2>2, Zenon DEF CacheInv, RefsMatchGens
    <3> QED BY <3>1 DEF Readable
  <2> QED BY <2>1, <2>2 DEF Readable
<1>9. TypeOK'
  BY <1>1, Zenon DEF TypeOK, CacheInv
<1>10. EpochStates'
  BY <1>1, <1>2, <1>3, Zenon DEF EpochStates, TypeOK, CacheTypeOK
<1>11. OutputsMatchEpochs'
  BY <1>1, <1>3, <1>4, Zenon DEF OutputsMatchEpochs, GensOf, TypeOK
<1>12. ReleasedIsMaterialized'
  BY <1>1, <1>2, <1>3, <1>4, <1>5, <1>6, <1>7, Zenon DEF ReleasedIsMaterialized, Materialized
<1>13. SstIsSealed' /\ DirtyOnDisk' /\ BatchIsDirty' /\ NoAckedLoss'
  BY <1>1, <1>6, Zenon DEF SstIsSealed, DirtyOnDisk, BatchIsDirty, ActiveFile, NoAckedLoss
<1>14. IndexedIsOwned'
  BY <1>1, <1>2, <1>8, Zenon DEF IndexedIsOwned, ReleasingIsUnindexed, Indexed
<1>15. UnflushedIsIndexed'
  BY <1>1, <1>3, <1>4, Zenon DEF UnflushedIsIndexed, Indexed, TypeOK
<1>16. ReleasingIsUnindexed'
  BY <1>1, <1>2, <1>4, Zenon DEF ReleasingIsUnindexed, Indexed, TypeOK, CacheTypeOK
<1>17. PinsHold'
  BY <1>1, <1>3, <1>4, <1>6, Zenon DEF PinsHold, Indexed, TypeOK
<1> QED BY <1>9, <1>10, <1>11, <1>12, <1>13, <1>14, <1>15, <1>16, <1>17, Zenon

\* Unlinking removes files whose versions are in an installed SST.
LEMMA PurgeDB ==
  ASSUME DBInv, CacheInv',
         (\E e \in Epochs : QueueUnlink(e)) \/ PurgePending \/ (\E f \in File : DeleteFile(f)),
         UNCHANGED <<memVars, jobVars, lsmVars, reader, crashes>>
  PROVE  DBInv'
<1> USE DEF DBInv
<1>1. UNCHANGED <<wal_gen, epoch_counter, epochs, gens, gen_refs, recovery_gens, skip_gens,
                  releasing, batch, se_gens, dirty, frozen, imm, flushed, job_epochs, job_out,
                  fails, bg_error, l0, base, compacting, reader, crashes>>
  BY Zenon
    DEF QueueUnlink, PurgePending, DeleteFile, walVars, ownerVars, sealVars, memVars, jobVars,
     lsmVars
<1>2. Doomed' \subseteq Doomed
  <2>1. ASSUME NEW e \in Epochs, QueueUnlink(e) PROVE Doomed' \subseteq Doomed
    BY <2>1, SMTT(30) DEF QueueUnlink, Doomed, TypeOK, CacheTypeOK
  <2>2. CASE PurgePending
    BY <2>2, Zenon DEF PurgePending, Doomed
  <2>3. ASSUME NEW f \in File, DeleteFile(f) PROVE Doomed' \subseteq Doomed
    BY <2>3, Zenon DEF DeleteFile, Doomed
  <2> QED BY <2>1, <2>2, <2>3, Zenon
<1>3. \A f \in files : f \in files' \/ (f \in Doomed /\ f[2] < wal_gen[f[1]])
  <2>1. CASE UNCHANGED files
    BY <2>1
  <2>2. ASSUME NEW f \in File, DeleteFile(f)
        PROVE  f \in Doomed /\ \A h \in files : h \in files' \/ h = f
    BY <2>2, Zenon DEF DeleteFile, Doomed
  <2> QED
    BY <2>1, <2>2, Zenon DEF QueueUnlink, PurgePending, walVars, CacheInv, DoomedIsSealed
<1>4. /\ Readable' = Readable /\ MemEpoch' = MemEpoch
      /\ \A q : Written(q)' = Written(q) /\ InSST(q)' = InSST(q)
  BY <1>1, Zenon DEF Readable, MemEpoch, Sealing, Written, InSST
<1>5. TypeOK'
  BY <1>1, Zenon DEF TypeOK, CacheInv
<1>6. EpochStates' /\ OutputsMatchEpochs' /\ SstIsSealed' /\ BatchIsDirty'
  BY <1>1, <1>4, Zenon DEF EpochStates, OutputsMatchEpochs, GensOf, SstIsSealed, BatchIsDirty
<1>7. ReleasedIsMaterialized'
  BY <1>1, <1>2, <1>4, Zenon DEF ReleasedIsMaterialized, Materialized
<1>8. DirtyOnDisk'
  <2> SUFFICES ASSUME NEW p \in Parts, dirty[p] PROVE ActiveFile(p) \in files'
    BY <1>1, Zenon DEF DirtyOnDisk, ActiveFile
  <2>1. ActiveFile(p) \in files /\ ActiveFile(p)[1] = p /\ ActiveFile(p)[2] = wal_gen[p]
    BY DEF DirtyOnDisk, ActiveFile
  <2>2. ~ (wal_gen[p] < wal_gen[p])
    BY CacheAssumption, SMTT(30) DEF CacheInv, CacheTypeOK, Gens
  <2> QED BY <1>3, <2>1, <2>2, Zenon
<1>9. NoAckedLoss'
  BY <1>3, <1>4, Zenon DEF NoAckedLoss, ReleasedIsMaterialized, Materialized
<1>10. IndexedIsOwned' /\ UnflushedIsIndexed' /\ ReleasingIsUnindexed' /\ PinsHold'
  BY <1>1, <1>4, Zenon
     DEF IndexedIsOwned, UnflushedIsIndexed, ReleasingIsUnindexed, PinsHold, Indexed
<1> QED BY <1>5, <1>6, <1>7, <1>8, <1>9, <1>10, Zenon

\* Readers change only their own state; a new one pins the unflushed memtables.
LEMMA ReaderInv ==
  ASSUME DBInv, NEW r \in Readers,
         (\E p \in Parts : AcquireSuperVersion(r, p)) \/ LookupIndex(r) \/ ReleaseSuperVersion(r)
  PROVE  DBInv'
<1> USE DEF DBInv
<1>1. UNCHANGED <<cacheVars, memVars, jobVars, lsmVars, crashes>>
  BY Zenon DEF AcquireSuperVersion, LookupIndex, ReleaseSuperVersion
<1>2. UNCHANGED <<epoch_counter, batch, se_gens, gens, dirty, frozen, imm, flushed, job_epochs,
                  job_out, fails, bg_error, l0, base, compacting>>
  BY <1>1 DEF cacheVars, ownerVars, sealVars, memVars, jobVars, lsmVars
<1>3. \A p \in Parts : InSST(p)' = InSST(p)
  BY <1>2 DEF InSST
<1>4. OutputsMatchEpochs' /\ CacheTypeOK'
  BY <1>1, <1>2, CacheStutterInv, Zenon DEF OutputsMatchEpochs, GensOf, CacheInv
<1>5. MemEpoch \in 1 .. MaxEpoch + 1 /\ imm \subseteq 1 .. MaxEpoch + 1 /\ MemEpoch' = MemEpoch
  <2>1. MemEpoch' = MemEpoch
    BY <1>2, Zenon DEF MemEpoch, Sealing
  <2>2. MemEpoch \in 1 .. MaxEpoch + 1
    BY CacheAssumption DEF MemEpoch, CacheInv, SealInFlight, CacheTypeOK, Epochs
  <2>3. imm \subseteq 1 .. MaxEpoch + 1
    BY CacheAssumption DEF TypeOK, Epochs
  <2> QED BY <2>1, <2>2, <2>3
<1>6. /\ reader' \in [Readers -> ReaderState]
      /\ reader'[r].pc # "idle" => reader'[r].part \in Parts
      /\ \A q \in Readers : q # r => reader'[q] = reader[q]
      /\ reader'[r].pins \subseteq reader[r].pins \cup imm \cup {MemEpoch}
  <2>1. ASSUME NEW p \in Parts, AcquireSuperVersion(r, p) PROVE <1>6
    <3> DEFINE new == [pc |-> "sv", part |-> p, pins |-> imm \cup {MemEpoch},
                       sst |-> SstGet(p), loc |-> NoVersion]
    <3>1. imm \cup {MemEpoch} \subseteq 1 .. MaxEpoch + 1
      BY <1>5, CacheAssumption
    <3>2. new \in ReaderState
      BY <3>1, SstGetType, Zenon DEF ReaderState
    <3>3. reader' = [reader EXCEPT ![r] = new]
      BY <2>1, Zenon DEF AcquireSuperVersion
    <3>4. new.pins = imm \cup {MemEpoch} /\ new.part = p
      OBVIOUS
    <3> HIDE DEF new
    <3> QED BY <3>2, <3>3, <3>4, Zenon DEF TypeOK
  <2>2. CASE LookupIndex(r)
    <3> DEFINE new == [reader[r] EXCEPT !.pc = "read", !.loc = IndexGet(reader[r].part)]
    <3>1. reader[r].part \in Parts /\ reader[r] \in ReaderState
      BY <2>2, Zenon DEF LookupIndex, TypeOK
    <3>2. IndexGet(reader[r].part) \in Gens \cup {NoVersion}
      BY <3>1, IndexGetType, Zenon
    <3>3. new \in ReaderState /\ new.part = reader[r].part /\ new.pins = reader[r].pins
      BY <3>1, <3>2, Zenon DEF ReaderState
    <3>4. reader' = [reader EXCEPT ![r] = new]
      BY <2>2, <3>1, Zenon DEF LookupIndex, ReaderState, TypeOK
    <3> HIDE DEF new
    <3> QED BY <3>1, <3>3, <3>4, Zenon DEF TypeOK
  <2>3. CASE ReleaseSuperVersion(r)
    <3>1. Idle \in ReaderState /\ Idle.pins = {} /\ Idle.pc = "idle"
      BY Zenon DEF Idle, ReaderState
    <3> QED BY <2>3, <3>1, Zenon DEF ReleaseSuperVersion, TypeOK
  <2> QED BY <2>1, <2>2, <2>3, Zenon
<1>7. TypeOK'
  BY <1>1, <1>2, <1>4, <1>6, Zenon DEF TypeOK
<1>8. PinsHold'
  <2> SUFFICES ASSUME NEW q \in Readers, NEW e \in reader'[q].pins, e < MemEpoch
               PROVE  e \in imm \cup flushed /\ \A f \in gens[e] : Indexed(f)
    BY <1>2, <1>5 DEF PinsHold, Indexed
  <2>1. e \in reader[q].pins \/ e \in imm
    BY <1>5, <1>6
  <2> QED BY <2>1 DEF PinsHold, UnflushedIsIndexed
<1> QED BY <1>1, <1>3, <1>4, <1>7, <1>8, FrameInv, Zenon

\* After a crash the index holds exactly the sealed files on disk, all of them
\* in the recovery set, and the active generation is the one before the crash.
LEMMA CrashKeepsGen == ASSUME DBInv, Crash PROVE wal_gen' = wal_gen
<1>1. CacheTypeOK /\ FilesUpToActive
  BY DEF DBInv, CacheInv
<1> QED BY <1>1, LargestIsActive, Zenon DEF Crash, CacheCrash, CacheTypeOK

LEMMA CrashInv ==
  ASSUME DBInv, CacheInv', Crash
  PROVE  DBInv'
<1> USE DEF DBInv
<1>1. /\ crashes < MaxCrash /\ crashes' = crashes + 1
      /\ frozen' = [p \in Parts |-> {g \in Gens : <<p, g>> \in files /\ g < LargestGenOnDisk(p)}]
      /\ recovery_gens' = {f \in files : f[2] < LargestGenOnDisk(f[1])}
      /\ epoch_counter' = 0 /\ epochs' = {} /\ gens' = NoFiles /\ skip_gens' = {}
      /\ releasing' = NoFiles /\ to_unlink' = NoFiles /\ pending_unlink' = {} /\ purging' = {}
      /\ batch' = {} /\ se_gens' = {} /\ bg_error' = FALSE
      /\ imm' = {} /\ flushed' = {} /\ job_epochs' = {} /\ job_out' = {} /\ compacting' = {}
      /\ reader' = [r \in Readers |-> Idle]
      /\ UNCHANGED <<files, dirty, fails, l0, base>>
  BY Zenon DEF Crash, CacheCrash
<1>2. wal_gen' = wal_gen
  BY CrashKeepsGen, Zenon
<1>3. Doomed' = {} /\ Readable' = recovery_gens'
  BY <1>1, Zenon DEF Doomed, Readable, NoFiles
<1>4. \A q : Written(q)' = Written(q) /\ InSST(q)' = InSST(q)
  BY <1>1, <1>2, Zenon DEF Written, InSST
<1>5. Idle \in ReaderState /\ Idle.pc = "idle" /\ Idle.pins = {}
  BY DEF Idle, ReaderState
<1>6. TypeOK'
  <2>1. crashes' \in 0 .. MaxCrash
    BY <1>1, DBAssumption DEF TypeOK
  <2>2. CacheTypeOK'
    BY DEF CacheInv
  <2> QED BY <1>1, <1>5, <2>1, <2>2, Zenon DEF TypeOK
<1>7. \A f \in recovery_gens' : Indexed(f)'
  BY <1>1, SMTT(30) DEF Indexed, TypeOK, CacheTypeOK, File
<1>8. IndexedIsOwned'
  BY <1>1, <1>3, Zenon DEF IndexedIsOwned
<1>9. PinsHold'
  BY <1>1, <1>5, Zenon DEF PinsHold
<1> QED
  BY <1>1, <1>2, <1>3, <1>4, <1>6, <1>7, <1>8, <1>9, Zenon
     DEF EpochStates, OutputsMatchEpochs, ReleasedIsMaterialized, SstIsSealed, DirtyOnDisk,
         BatchIsDirty, ActiveFile, NoAckedLoss, UnflushedIsIndexed, ReleasingIsUnindexed

\* Every step of the database preserves DBInv.
LEMMA DBStepInv == DBInv /\ [Next]_vars => DBInv'
<1> SUFFICES ASSUME DBInv, [Next]_vars PROVE DBInv'
  OBVIOUS
<1>0. CacheInv'
  BY StepIsCacheStep, CacheStepInv, Zenon DEF DBInv
<1>1. ASSUME NEW p \in Parts, Write(p) PROVE DBInv'
  BY <1>0, <1>1, WriteInv, Zenon
<1>2. ASSUME NEW B \in SUBSET Parts, FreezeBatchPartitions(B) PROVE DBInv'
  BY <1>0, <1>2, FreezeBatchInv, Zenon
<1>2a. ASSUME NEW p \in Parts, FreezePartition(p) PROVE DBInv'
  BY <1>0, <1>2a, FreezePartitionInv, Zenon
<1>2b. CASE SwitchMemtable
  BY <1>0, <1>2b, SwitchMemtableInv, Zenon
<1>3. CASE \/ PickMemTables
           \/ \E e \in Epochs, p \in Parts : MaterializePartition(e, p)
           \/ FlushFails
           \/ Resume
           \/ \E S \in SUBSET Parts : StartCompaction(S)
           \/ UNCHANGED vars
  BY <1>3, JobInv, Zenon
<1>4. CASE Install
  BY <1>4, InstallInv, Zenon
<1>5. CASE FinishCompaction
  BY <1>5, FinishCompactionInv, Zenon
<1>6. ASSUME NEW e \in Epochs, DestroyMemTable(e) PROVE DBInv'
  BY <1>0, <1>6, DestroyMemTableInv
<1>7. ASSUME NEW e \in Epochs, NEW f \in File, ReleaseFrozen(e, f) PROVE DBInv'
  BY <1>7, ReleaseFrozenInv, Zenon
<1>8. ASSUME NEW e \in Epochs, FinishRelease(e) PROVE DBInv'
  BY <1>0, <1>8, ReleaseGensDB, PurgeDB, Zenon DEF FinishRelease
<1>8a. CASE PurgeSealedFiles \/ UnlinkSealed
  BY <1>0, <1>8a, PurgeDB, Zenon DEF PurgeSealedFiles, UnlinkSealed
<1>9. ASSUME NEW r \in Readers,
             (\E p \in Parts : AcquireSuperVersion(r, p)) \/ LookupIndex(r) \/ ReleaseSuperVersion(r)
      PROVE  DBInv'
  BY <1>9, ReaderInv, Zenon
<1>10. CASE Crash
  BY <1>0, <1>10, CrashInv, Zenon
<1> QED
  BY <1>1, <1>2, <1>2a, <1>2b, <1>3, <1>4, <1>5, <1>6, <1>7, <1>8, <1>8a, <1>9, <1>10, Zenon
    DEF Next

-----------------------------------------------------------------------------
\* The inductive invariant holds in every reachable state.
THEOREM DBInvariant == Spec => []DBInv
<1>1. Init => DBInv
  BY DBInitInv, Zenon
<1>2. DBInv /\ [Next]_vars => DBInv'
  BY DBStepInv, Zenon
<1> QED BY <1>1, <1>2, PTL DEF Spec

\* Type correctness of the whole cycle.
THEOREM TypeCorrect == Spec => []TypeOK
<1>1. DBInv => TypeOK
  BY DEF DBInv
<1> QED BY <1>1, DBInvariant, PTL

\* No acknowledged version is ever lost: it is in a WAL file on disk or in an
\* installed SST, through seals, flush failures, unlinks and crashes.
THEOREM NoLoss == Spec => []NoAckedLoss
<1>1. DBInv => NoAckedLoss
  BY DEF DBInv
<1> QED BY <1>1, DBInvariant, PTL

\* Every generation in a partition index has its file on disk and can be read
\* through the cache, or waits for the running seal to register it.
THEOREM IndexedReadable == Spec => []IndexedIsReadable
<1>1. DBInv => IndexedIsReadable
  BY Zenon DEF DBInv, CacheInv, IndexedIsOwned, IndexedIsReadable, ReadableIsSafe, SealedFiles
<1> QED BY <1>1, DBInvariant, PTL

\* The epochs a reader's SuperVersion references stay registered, indexed and
\* readable while the reader holds it.
THEOREM PinnedReadable == Spec => []PinnedStaysReadable
<1>1. DBInv => PinnedStaysReadable
  <2> SUFFICES ASSUME DBInv, NEW r \in Readers, NEW e \in reader[r].pins, e < MemEpoch
               PROVE  /\ e \in epochs
                      /\ \A f \in gens[e] : f \in Readable /\ f[2] \in frozen[f[1]]
    BY DEF PinnedStaysReadable
  <2>1. e \in epochs /\ \A f \in gens[e] : Indexed(f)
    BY Zenon DEF DBInv, PinsHold, EpochStates
  <2> QED BY <2>1, Zenon DEF Indexed, Readable
<1> QED BY <1>1, DBInvariant, PTL

-----------------------------------------------------------------------------
(* Refinement of the abstract store. *)

\* What is durable is exactly what was acknowledged.
LEMMA DurableIsWritten ==
  ASSUME DBInv, NEW p \in Parts
  PROVE  Durable(p) = Written(p)
<1>1. InSST(p) \subseteq Written(p)
  <2>1. \A g \in InSST(p) : g \in Gens /\ g < wal_gen[p]
    BY InSSTMember, SMTT(30) DEF DBInv, TypeOK, L0File, SstIsSealed
  <2> QED BY <2>1 DEF Written
<1>2. \A g \in Written(p) : <<p, g>> \in files \/ g \in InSST(p)
  BY DEF DBInv, NoAckedLoss
<1> QED BY <1>1, <1>2, Zenon DEF Durable

\* Only a write changes what was acknowledged.
LEMMA OnlyWriteAcks ==
  ASSUME DBInv, [Next]_vars, ~ \E p \in Parts : Write(p), NEW q \in Parts
  PROVE  Written(q)' = Written(q)
<1>1. ASSUME NEW p \in Parts, FreezePartition(p) PROVE Written(q)' = Written(q)
  BY <1>1, FreezeKeepsWritten, Zenon DEF DBInv
<1>2. CASE Crash
  BY <1>2, CrashKeepsGen, Zenon DEF Crash, Written
<1>3. CASE UNCHANGED <<wal_gen, dirty>>
  BY <1>3 DEF Written
<1>4. ASSUME NEW B \in SUBSET Parts, FreezeBatchPartitions(B) PROVE UNCHANGED <<wal_gen, dirty>>
  BY <1>4, Zenon DEF FreezeBatchPartitions, SealEpoch, walVars, memVars
<1>5. CASE SwitchMemtable
  BY <1>3, <1>5, Zenon DEF SwitchMemtable, RegisterEpoch, AddEpochWithRecoveryAdoption, walVars
<1> QED
  BY <1>1, <1>2, <1>3, <1>4, <1>5, Zenon DEF Next, vars, cacheVars, walVars, memVars,
     PickMemTables, MaterializePartition, Install, FlushFails, Resume, StartCompaction,
     FinishCompaction, ReleaseFrozen, DestroyMemTable, ReleaseEpoch, FinishRelease,
     PurgeSealedFiles, UnlinkSealed, ReleaseGens, QueueUnlink, PurgePending, DeleteFile,
     AcquireSuperVersion, LookupIndex, ReleaseSuperVersion

\* A write acknowledges its partition's active generation, newer than all
\* versions before it, or overwrites within that generation.
LEMMA WriteAcks ==
  ASSUME DBInv, NEW p \in Parts, Write(p)
  PROVE  /\ \A q \in Parts : q # p => Written(q)' = Written(q)
         /\ \/ Written(p)' = Written(p)
            \/ /\ Written(p)' = Written(p) \cup {wal_gen[p]}
               /\ \A h \in Written(p) : h < wal_gen[p]
<1>1. wal_gen' = wal_gen /\ dirty' = [dirty EXCEPT ![p] = TRUE]
  BY Zenon DEF Write, EnsureOpenForWrite
<1>2. wal_gen[p] \in Gens /\ wal_gen[p] \in Nat /\ \A g \in Gens : g \in Nat
  BY CacheAssumption, SMTT(30) DEF DBInv, TypeOK, CacheTypeOK, Gens
<1>3. dirty'[p] /\ \A q \in Parts : q # p => dirty'[q] = dirty[q]
  BY <1>1, Zenon DEF DBInv, TypeOK
<1>4. \A q \in Parts : q # p => Written(q)' = Written(q)
  BY <1>1, <1>3, Zenon DEF Written
<1>5. Written(p)' = {g \in Gens : g < wal_gen[p] \/ g = wal_gen[p]}
  BY <1>1, <1>3, Zenon DEF Written
<1>6. CASE dirty[p]
  <2>1. Written(p) = {g \in Gens : g < wal_gen[p] \/ g = wal_gen[p]}
    BY <1>6, Zenon DEF Written
  <2> QED BY <1>4, <1>5, <2>1, Zenon
<1>7. CASE ~ dirty[p]
  <2>1. Written(p) = {g \in Gens : g < wal_gen[p]}
    BY <1>7, Zenon DEF Written
  <2> QED BY <1>2, <1>4, <1>5, <2>1, Zenon
<1> QED BY <1>6, <1>7, Zenon

\* The full cycle implements the durable store: what a crash cannot take away
\* changes only when a write adds a newer version.
THEOREM StoreRefinement == Spec => ImplementsStore
<1> DEFINE D == [p \in Parts |-> Durable(p)]
           Acked == DBInv => D = [p \in Parts |-> Written(p)]
<1>1. Init => Store!Init
  <2> SUFFICES ASSUME Init PROVE D = [p \in Parts |-> {}]
    BY DEF Store!Init
  <2>1. \A p \in Parts : Durable(p) = {}
    BY CacheAssumption DEF Init, CacheInit, Durable, InSST, Written, Gens
  <2> QED BY <2>1
<1>2. Acked
  BY DurableIsWritten
<1>3. Acked'
  BY <1>2, PTL
<1>4. DBInv /\ DBInv' /\ [Next]_vars => [Store!Next]_D
  <2> SUFFICES ASSUME DBInv, DBInv', [Next]_vars PROVE Store!Next \/ D' = D
    OBVIOUS
  <2>1. D = [p \in Parts |-> Written(p)] /\ D' = [p \in Parts |-> Written(p)']
    BY <1>2, <1>3
  <2>2. ASSUME NEW p \in Parts, Write(p) PROVE Store!Next \/ D' = D
    <3>1. CASE Written(p)' = Written(p)
      BY <2>1, <2>2, <3>1, WriteAcks, Zenon
    <3>2. CASE Written(p)' = Written(p) \cup {wal_gen[p]} /\ \A h \in Written(p) : h < wal_gen[p]
      <4>1. D' = [D EXCEPT ![p] = @ \cup {wal_gen[p]}] /\ \A h \in D[p] : h < wal_gen[p]
        BY <2>1, <2>2, <3>2, WriteAcks, ZenonT(30)
      <4>2. wal_gen[p] \in Gens
        BY Zenon DEF DBInv, TypeOK, CacheTypeOK
      <4> QED BY <4>1, <4>2, Zenon DEF Store!Next, Store!Put
    <3> QED BY <2>2, <3>1, <3>2, WriteAcks, Zenon
  <2>3. CASE ~ \E p \in Parts : Write(p)
    BY <2>1, <2>3, OnlyWriteAcks, Zenon
  <2> QED BY <2>2, <2>3, Zenon
<1> QED BY <1>1, <1>4, DBInvariant, PTL DEF Spec, ImplementsStore, Store!Spec
=============================================================================
