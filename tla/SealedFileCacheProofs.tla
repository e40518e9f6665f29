------------------------ MODULE SealedFileCacheProofs ------------------------
(***************************************************************************)
(* Proofs about SealedFileCache, for any partitions and any bounds.        *)
(*                                                                         *)
(* The safety invariants are not inductive alone.  CacheInv adds that a    *)
(* running release holds only generations its epoch still owns, that a     *)
(* file on its way to unlink is sealed, that no file on disk is beyond the *)
(* active generation, whose own file exists, and that a running seal has   *)
(* an epoch number nobody uses and a file for each partition left.  The    *)
(* third is what makes reopen resume at the active generation, the last    *)
(* what keeps ownership single across the steps of the seal.               *)
(***************************************************************************)
EXTENDS SealedFileCache, TLAPS

ReleasingOwned == \A e \in Epochs : releasing[e] \subseteq gens[e]

DoomedIsSealed == \A f \in Doomed : f[2] < wal_gen[f[1]]

FilesUpToActive ==
  /\ \A f \in files : f[2] <= wal_gen[f[1]]
  /\ \A p \in Parts : wal_gen[p] > 0 => ActiveFile(p) \in files

SealInFlight ==
  /\ Sealing => epoch_counter \in Epochs \ epochs
  /\ \A p \in batch : ActiveFile(p) \in files /\ wal_gen[p] < MaxGen

CacheInv ==
  /\ CacheTypeOK
  /\ RefsMatchGens
  /\ OneOwner
  /\ ReadableIsSafe
  /\ ReleasingOwned
  /\ DoomedIsSealed
  /\ FilesUpToActive
  /\ SealInFlight

-----------------------------------------------------------------------------
\* PartitionedWalManager::Open picks the generation that was active: every
\* file on disk is at most that one, and it is on disk unless it is 0.
LEMMA LargestIsActive ==
  ASSUME CacheTypeOK, FilesUpToActive, NEW p \in Parts
  PROVE  LargestGenOnDisk(p) = wal_gen[p]
<1>1. wal_gen[p] \in Gens /\ wal_gen[p] \in Nat /\ \A g \in Gens : g \in Nat
  BY CacheAssumption DEF CacheTypeOK, Gens
<1>2. \A g \in Gens : <<p, g>> \in files => g <= wal_gen[p]
  BY DEF FilesUpToActive
<1>3. CASE \E g \in Gens : <<p, g>> \in files
  <2>1. <<p, wal_gen[p]>> \in files
    <3>1. CASE wal_gen[p] > 0
      BY <3>1 DEF FilesUpToActive, ActiveFile
    <3>2. CASE wal_gen[p] = 0
      <4>1. PICK g \in Gens : <<p, g>> \in files
        BY <1>3
      <4>2. g = wal_gen[p]
        BY <1>1, <1>2, <3>2, <4>1
      <4> QED BY <4>1, <4>2
    <3> QED BY <1>1, <3>1, <3>2
  <2> DEFINE IsLargest(g) == <<p, g>> \in files /\ \A h \in Gens : <<p, h>> \in files => h <= g
  <2>2. IsLargest(wal_gen[p])
    BY <1>2, <2>1
  <2>3. \A g \in Gens : IsLargest(g) => g = wal_gen[p]
    BY <1>1, <1>2, <2>1
  <2>4. LargestGenOnDisk(p) = CHOOSE g \in Gens : IsLargest(g)
    BY <1>3, Zenon DEF LargestGenOnDisk
  <2> HIDE DEF IsLargest
  <2> QED BY <1>1, <2>2, <2>3, <2>4
<1>4. CASE ~ \E g \in Gens : <<p, g>> \in files
  <2>1. LargestGenOnDisk(p) = 0
    BY <1>4 DEF LargestGenOnDisk
  <2>2. ~ (wal_gen[p] > 0)
    BY <1>1, <1>4 DEF FilesUpToActive, ActiveFile
  <2> QED BY <1>1, <2>1, <2>2
<1> QED BY <1>3, <1>4

\* A fresh database satisfies the inductive invariant.
LEMMA CacheInitInv == CacheInit => CacheInv
<1> SUFFICES ASSUME CacheInit PROVE CacheInv
  OBVIOUS
<1>1. Doomed = {} /\ Readable = {}
  BY DEF CacheInit, NoFiles, Doomed, Readable
<1>2. CacheTypeOK
  BY CacheAssumption DEF CacheInit, CacheTypeOK, NoFiles, Gens, File, Epochs
<1> QED
  BY <1>1, <1>2 DEF CacheInit, CacheInv, RefsMatchGens, OneOwner, ReadableIsSafe, NoFiles,
     ReleasingOwned, DoomedIsSealed, FilesUpToActive, SealInFlight, Sealing

-----------------------------------------------------------------------------
(* One lemma per operation. *)

\* The first append to a generation creates only the active file.
LEMMA EnsureOpenForWriteInv ==
  ASSUME CacheInv, NEW p \in Parts, EnsureOpenForWrite(p)
  PROVE  CacheInv'
<1> USE DEF CacheInv
<1>1. Doomed' = Doomed /\ Readable' = Readable /\ UNCHANGED <<batch, se_gens>>
  BY DEF EnsureOpenForWrite, Doomed, Readable, ownerVars, freeVars, sealVars
<1>2. ActiveFile(p) \in File
  BY DEF CacheTypeOK, ActiveFile, File
<1>3. CacheTypeOK'
  BY <1>1, <1>2 DEF EnsureOpenForWrite, CacheTypeOK, ownerVars, freeVars
<1>4. RefsMatchGens' /\ OneOwner' /\ ReleasingOwned'
  BY <1>1 DEF EnsureOpenForWrite, RefsMatchGens, OneOwner, ReleasingOwned, ownerVars, freeVars
<1>5. ReadableIsSafe'
  BY <1>1 DEF EnsureOpenForWrite, ReadableIsSafe, SealedFiles
<1>6. DoomedIsSealed'
  BY <1>1 DEF EnsureOpenForWrite, DoomedIsSealed
<1>7. FilesUpToActive'
  <2>1. ActiveFile(p)[2] <= wal_gen[ActiveFile(p)[1]]
    BY CacheAssumption DEF CacheTypeOK, ActiveFile, Gens
  <2> QED BY <2>1 DEF EnsureOpenForWrite, FilesUpToActive, ActiveFile
<1>8. SealInFlight'
  BY <1>1 DEF EnsureOpenForWrite, SealInFlight, Sealing
<1> QED BY <1>3, <1>4, <1>5, <1>6, <1>7, <1>8

\* A seal begins with a fresh epoch number.
LEMMA SealEpochInv ==
  ASSUME CacheInv, NEW B \in SUBSET Parts, SealEpoch(B)
  PROVE  CacheInv'
<1> USE DEF CacheInv
<1>1. /\ epoch_counter < MaxEpoch /\ epoch_counter' = epoch_counter + 1
      /\ \A p \in B : ActiveFile(p) \in files /\ wal_gen[p] < MaxGen
      /\ batch' = B
      /\ UNCHANGED <<wal_gen, files, epochs, gens, gen_refs, recovery_gens, skip_gens,
                     releasing, to_unlink, pending_unlink, purging, se_gens>>
  BY DEF SealEpoch, walVars, ownerVars, freeVars
<1>2. Doomed' = Doomed /\ Readable' = Readable
  BY <1>1 DEF Doomed, Readable
<1>3. CacheTypeOK' /\ epoch_counter' \in Epochs \ epochs
  BY <1>1, CacheAssumption DEF CacheTypeOK, Epochs
<1>4. RefsMatchGens' /\ OneOwner' /\ ReleasingOwned'
  BY <1>1, <1>2 DEF RefsMatchGens, OneOwner, ReleasingOwned
<1>5. ReadableIsSafe' /\ DoomedIsSealed' /\ FilesUpToActive'
  BY <1>1, <1>2 DEF ReadableIsSafe, SealedFiles, DoomedIsSealed, FilesUpToActive, ActiveFile
<1>6. SealInFlight'
  BY <1>1, <1>3 DEF SealInFlight, ActiveFile
<1> QED BY <1>3, <1>4, <1>5, <1>6

\* Freezing a partition turns its active generation, which nothing owned and
\* nothing was about to unlink, into a sealed one.
LEMMA FreezeInv ==
  ASSUME CacheInv, NEW p \in Parts, Freeze(p)
  PROVE  CacheInv'
<1> USE DEF CacheInv
<1>1. /\ p \in batch /\ ActiveFile(p) \in files /\ wal_gen[p] < MaxGen
      /\ wal_gen' = [wal_gen EXCEPT ![p] = @ + 1]
      /\ files' = files \cup {<<p, wal_gen[p] + 1>>}
      /\ batch' = batch \ {p}
      /\ se_gens' = se_gens \cup {ActiveFile(p)}
      /\ UNCHANGED <<epoch_counter, epochs, gens, gen_refs, recovery_gens, skip_gens,
                     releasing, to_unlink, pending_unlink, purging>>
  BY DEF Freeze, SealInFlight, ownerVars, freeVars
<1>2. /\ wal_gen \in [Parts -> Gens] /\ wal_gen' \in [Parts -> Gens]
      /\ wal_gen[p] + 1 \in Gens /\ wal_gen'[p] = wal_gen[p] + 1
      /\ \A q \in Parts : wal_gen[q] \in Nat /\ (q # p => wal_gen'[q] = wal_gen[q])
  BY <1>1, CacheAssumption DEF CacheTypeOK, Gens
<1>3. Doomed' = Doomed /\ Readable' = Readable
  BY <1>1 DEF Doomed, Readable
<1>4. CacheTypeOK'
  BY <1>1, <1>2 DEF CacheTypeOK, File
<1>5. /\ ActiveFile(p) \notin Readable \cup Doomed /\ ActiveFile(p) \in File
      /\ ActiveFile(p)[2] < wal_gen'[ActiveFile(p)[1]]
  BY <1>1, <1>2 DEF ReadableIsSafe, SealedFiles, DoomedIsSealed, ActiveFile, CacheTypeOK
<1>6. RefsMatchGens' /\ ReleasingOwned'
  BY <1>1 DEF RefsMatchGens, ReleasingOwned
<1>7. OneOwner'
  BY <1>1, <1>3, <1>5 DEF OneOwner
<1>8. \A f \in File : f[2] < wal_gen[f[1]] => f[2] < wal_gen'[f[1]]
  BY <1>2, CacheAssumption DEF File, Gens
<1>9. Doomed \subseteq File
  BY DEF Doomed, CacheTypeOK
<1>10. ReadableIsSafe'
  BY <1>1, <1>3, <1>5, <1>8, Zenon DEF ReadableIsSafe, SealedFiles, CacheTypeOK
<1>11. DoomedIsSealed'
  BY <1>3, <1>8, <1>9 DEF DoomedIsSealed
<1>12. FilesUpToActive'
  <2>1. ASSUME NEW f \in files' PROVE f[2] <= wal_gen'[f[1]]
    BY <1>1, <1>2, CacheAssumption DEF FilesUpToActive, CacheTypeOK, File, Gens
  <2>2. ASSUME NEW q \in Parts, wal_gen'[q] > 0 PROVE <<q, wal_gen'[q]>> \in files'
    BY <1>1, <1>2, <2>2 DEF FilesUpToActive, ActiveFile
  <2> QED BY <2>1, <2>2 DEF FilesUpToActive, ActiveFile
<1>13. SealInFlight'
  <2>1. epoch_counter \in Epochs \ epochs
    BY <1>1 DEF SealInFlight, Sealing
  <2>2. \A q \in batch' : q \in Parts /\ q # p /\ q \in batch
    BY <1>1 DEF CacheTypeOK
  <2> QED BY <1>1, <1>2, <2>1, <2>2 DEF SealInFlight, ActiveFile
<1> QED BY <1>4, <1>6, <1>7, <1>10, <1>11, <1>12, <1>13

\* Registration hands over to a fresh epoch the generations the seal froze,
\* which nothing else owned, and everything the skip and recovery sets held.
LEMMA RegisterEpochInv ==
  ASSUME CacheInv, RegisterEpoch
  PROVE  CacheInv'
<1> DEFINE e == epoch_counter
           merged == se_gens \cup recovery_gens \cup skip_gens
<1> USE DEF CacheInv
<1>1. /\ e \in Epochs /\ e \notin epochs /\ gens[e] = {} /\ gen_refs[e] = {} /\ releasing[e] = {}
      /\ \A d \in epochs : d \in Epochs /\ d # e
  BY CacheAssumption
    DEF RegisterEpoch, SealInFlight, Sealing, CacheTypeOK, RefsMatchGens, ReleasingOwned, Epochs
<1>2. /\ epochs' = epochs \cup {e}
      /\ gens' = [gens EXCEPT ![e] = merged]
      /\ gen_refs' = [gen_refs EXCEPT ![e] = merged]
      /\ recovery_gens' = {} /\ skip_gens' = {} /\ se_gens' = {} /\ batch' = {}
      /\ se_gens # {}
      /\ UNCHANGED <<wal_gen, files, epoch_counter, releasing, to_unlink, pending_unlink, purging>>
  BY DEF RegisterEpoch, AddEpochWithRecoveryAdoption, walVars, freeVars
<1>3. merged \subseteq File /\ merged # {}
  BY <1>2 DEF CacheTypeOK
<1>4. CacheTypeOK'
  <2>1. gens' \in [Epochs -> SUBSET File] /\ gen_refs' \in [Epochs -> SUBSET File]
    BY <1>1, <1>2, <1>3 DEF CacheTypeOK
  <2>2. epochs' \subseteq 1 .. epoch_counter'
    BY <1>1, <1>2, CacheAssumption DEF CacheTypeOK, Epochs
  <2> QED BY <1>2, <2>1, <2>2 DEF CacheTypeOK
<1>5. Doomed' = Doomed
  BY <1>2 DEF Doomed
<1>6. Readable' = Readable \cup se_gens
  BY <1>1, <1>2 DEF Readable, CacheTypeOK
<1>7. RefsMatchGens'
  BY <1>1, <1>2, <1>3 DEF RefsMatchGens, CacheTypeOK
<1>8. OneOwner'
  BY <1>1, <1>2 DEF OneOwner, CacheTypeOK, Readable
<1>9. ReleasingOwned'
  BY <1>1, <1>2 DEF ReleasingOwned, CacheTypeOK
<1>10. ReadableIsSafe' /\ DoomedIsSealed' /\ FilesUpToActive'
  BY <1>2, <1>5, <1>6
    DEF ReadableIsSafe, SealedFiles, DoomedIsSealed, FilesUpToActive, ActiveFile
<1>11. SealInFlight'
  BY <1>2 DEF SealInFlight, Sealing
<1> QED BY <1>4, <1>7, <1>8, <1>9, <1>10, <1>11

\* A hand-off moves generations from their epoch to the skip set: what Get
\* accepts does not change.
LEMMA HandOffInv ==
  ASSUME CacheInv, NEW e \in epochs, NEW F \in SUBSET gens[e], HandOffSkippedToRecovery(e, F)
  PROVE  CacheInv'
<1> USE DEF CacheInv
<1>1. e \in Epochs /\ epochs \subseteq Epochs /\ F \subseteq File
  BY CacheAssumption DEF CacheTypeOK, Epochs
<1>2. /\ gens' = [gens EXCEPT ![e] = @ \ F]
      /\ gen_refs' = [gen_refs EXCEPT ![e] = @ \ F]
      /\ epochs' = IF gen_refs[e] \subseteq F THEN epochs \ {e} ELSE epochs
      /\ skip_gens' = skip_gens \cup F
      /\ releasing[e] = {}
      /\ UNCHANGED <<wal_gen, files, epoch_counter, recovery_gens,
                     releasing, to_unlink, pending_unlink, purging, batch, se_gens>>
      /\ batch = {} /\ se_gens = {}
  BY DEF HandOffSkippedToRecovery, Sealing, Detach, walVars, freeVars, sealVars
<1>3. CacheTypeOK'
  BY <1>1, <1>2 DEF CacheTypeOK
<1>4. RefsMatchGens'
  BY <1>1, <1>2, Zenon DEF RefsMatchGens, CacheTypeOK
<1>5. OneOwner'
  BY <1>1, <1>2 DEF OneOwner, CacheTypeOK
<1>6. ReleasingOwned'
  BY <1>1, <1>2 DEF ReleasingOwned, CacheTypeOK
<1>7. Doomed' = Doomed
  BY <1>2 DEF Doomed
<1>8. Readable' \subseteq Readable
  <2> SUFFICES ASSUME NEW f \in Readable' PROVE f \in Readable
    OBVIOUS
  <2>1. CASE f \in recovery_gens' \cup skip_gens'
    BY <1>2, <2>1 DEF Readable
  <2>2. CASE \E d \in epochs' : f \in gens'[d]
    BY <1>1, <1>2, <2>2 DEF Readable, CacheTypeOK
  <2> QED BY <2>1, <2>2 DEF Readable
<1>9. ReadableIsSafe' /\ DoomedIsSealed' /\ FilesUpToActive'
  BY <1>2, <1>7, <1>8 DEF ReadableIsSafe, SealedFiles, DoomedIsSealed, FilesUpToActive, ActiveFile
<1>10. SealInFlight'
  BY <1>2 DEF SealInFlight, Sealing
<1> QED BY <1>3, <1>4, <1>5, <1>6, <1>9, <1>10

\* ReleaseEpoch only copies the generation list.
LEMMA ReleaseEpochInv ==
  ASSUME CacheInv, NEW e \in Epochs, ReleaseEpoch(e)
  PROVE  CacheInv'
<1> USE DEF CacheInv, ReleaseEpoch, ownerVars, walVars, sealVars
<1>1. Doomed' = Doomed /\ Readable' = Readable
  BY DEF Doomed, Readable
<1>2. CacheTypeOK'
  BY DEF CacheTypeOK
<1>3. RefsMatchGens' /\ OneOwner'
  BY <1>1 DEF RefsMatchGens, OneOwner
<1>4. ReleasingOwned'
  BY DEF ReleasingOwned, CacheTypeOK
<1>5. ReadableIsSafe' /\ DoomedIsSealed' /\ FilesUpToActive' /\ SealInFlight'
  BY <1>1 DEF ReadableIsSafe, SealedFiles, DoomedIsSealed, FilesUpToActive, ActiveFile,
     SealInFlight, Sealing
<1> QED BY <1>2, <1>3, <1>4, <1>5

\* ReleaseGens drops the references before the files enter the unlink
\* pipeline, and no other owner holds them.
LEMMA ReleaseGensInv ==
  ASSUME CacheInv, NEW e \in Epochs, ReleaseGens(e)
  PROVE  CacheInv'
<1> DEFINE freed == releasing[e] \cap gen_refs[e]
<1> USE DEF CacheInv
<1>1. /\ gens' = [gens EXCEPT ![e] = @ \ freed]
      /\ gen_refs' = [gen_refs EXCEPT ![e] = @ \ freed]
      /\ epochs' = IF gen_refs[e] \subseteq freed THEN epochs \ {e} ELSE epochs
      /\ to_unlink' = [to_unlink EXCEPT ![e] = IF ReclaimEnabled THEN freed ELSE {}]
      /\ releasing' = [releasing EXCEPT ![e] = {}]
      /\ UNCHANGED <<wal_gen, files, epoch_counter, recovery_gens, skip_gens,
                     pending_unlink, purging, batch, se_gens>>
  BY DEF ReleaseGens, Detach, walVars, sealVars
<1>2. e \in epochs /\ epochs \subseteq Epochs /\ freed \subseteq gens[e] /\ freed \subseteq File
  BY CacheAssumption DEF CacheTypeOK, Epochs, ReleaseGens, ReleasingOwned, RefsMatchGens
<1>3. CacheTypeOK'
  BY <1>1, <1>2 DEF CacheTypeOK
<1>4. RefsMatchGens'
  BY <1>1, <1>2, Zenon DEF RefsMatchGens, CacheTypeOK
<1>6. ReleasingOwned'
  BY <1>1, <1>2 DEF ReleasingOwned, CacheTypeOK
<1>7. \A f \in Readable' : f \in Readable /\ f \notin freed
  <2> SUFFICES ASSUME NEW f \in Readable' PROVE f \in Readable /\ f \notin freed
    OBVIOUS
  <2>1. CASE f \in recovery_gens' \cup skip_gens'
    BY <1>1, <1>2, <2>1 DEF Readable, OneOwner
  <2>2. CASE \E d \in epochs' : f \in gens'[d]
    BY <1>1, <1>2, <2>2 DEF Readable, CacheTypeOK, OneOwner
  <2> QED BY <2>1, <2>2 DEF Readable
<1>8. \A f \in Doomed' : f \in Doomed \/ f \in freed
  BY <1>1, <1>2 DEF Doomed, CacheTypeOK
<1>9. freed \subseteq Readable
  BY <1>2 DEF Readable
<1>10. ReadableIsSafe'
  BY <1>1, <1>7, <1>8, <1>9, Zenon DEF ReadableIsSafe, OneOwner, SealedFiles
<1>11. DoomedIsSealed' /\ FilesUpToActive' /\ SealInFlight'
  BY <1>1, <1>8, <1>9
     DEF ReadableIsSafe, SealedFiles, DoomedIsSealed, FilesUpToActive, ActiveFile, SealInFlight,
         Sealing
<1>12. OneOwner'
  <2>1. /\ \A c, d \in epochs' : c # d => gens'[c] \cap gens'[d] = {}
        /\ \A d \in epochs' : gens'[d] \cap (recovery_gens' \cup skip_gens') = {}
        /\ recovery_gens' \cap skip_gens' = {}
    BY <1>1, <1>2 DEF OneOwner, CacheTypeOK
  <2>2. se_gens' \cap Readable' = {}
    BY <1>1, <1>7 DEF OneOwner
  <2> QED BY <2>1, <2>2 DEF OneOwner
<1> QED BY <1>3, <1>4, <1>6, <1>10, <1>11, <1>12

\* Queueing and swapping out the queue move files along the unlink pipeline.
LEMMA PipelineInv ==
  ASSUME CacheInv, (\E e \in Epochs : QueueUnlink(e)) \/ PurgePending
  PROVE  CacheInv'
<1> USE DEF CacheInv, ownerVars, walVars, sealVars
<1>1. /\ UNCHANGED <<wal_gen, files, epoch_counter, epochs, gens, gen_refs,
                     recovery_gens, skip_gens, releasing, batch, se_gens>>
      /\ CacheTypeOK'
      /\ Doomed' \subseteq Doomed
  <2>1. CASE PurgePending
    BY <2>1 DEF PurgePending, CacheTypeOK, Doomed
  <2>2. ASSUME NEW e \in Epochs, QueueUnlink(e)
        PROVE  /\ UNCHANGED <<wal_gen, files, epoch_counter, epochs, gens, gen_refs,
                              recovery_gens, skip_gens, releasing, batch, se_gens>>
               /\ CacheTypeOK'
               /\ Doomed' \subseteq Doomed
    BY <2>2 DEF QueueUnlink, CacheTypeOK, Doomed
  <2> QED BY <2>1, <2>2
<1>2. Readable' = Readable
  BY <1>1 DEF Readable
<1> QED
  BY <1>1, <1>2 DEF RefsMatchGens, OneOwner, ReadableIsSafe, SealedFiles, ReleasingOwned,
     DoomedIsSealed, FilesUpToActive, ActiveFile, SealInFlight, Sealing

\* Only a sealed file that Get no longer accepts is unlinked.
LEMMA DeleteFileInv ==
  ASSUME CacheInv, NEW f \in File, DeleteFile(f)
  PROVE  CacheInv'
<1> USE DEF CacheInv, DeleteFile, ownerVars, sealVars
<1>1. f \in Doomed /\ f \notin Readable \cup se_gens /\ f[2] < wal_gen[f[1]]
  BY DEF Doomed, ReadableIsSafe, DoomedIsSealed
<1>2. Doomed' \subseteq Doomed /\ Readable' = Readable
  BY DEF Doomed, Readable
<1>3. files \ {f} \subseteq files' /\ files' \subseteq files
  OBVIOUS
<1>4. CacheTypeOK'
  BY <1>3 DEF CacheTypeOK
<1>5. RefsMatchGens' /\ OneOwner' /\ ReleasingOwned' /\ DoomedIsSealed'
  BY <1>2 DEF RefsMatchGens, OneOwner, ReleasingOwned, DoomedIsSealed
<1>6. ReadableIsSafe'
  BY <1>1, <1>2, <1>3 DEF ReadableIsSafe, SealedFiles
<1>7. \A p \in Parts : ActiveFile(p) # f
  BY <1>1, CacheAssumption DEF ActiveFile, CacheTypeOK, Gens
<1>8. FilesUpToActive' /\ SealInFlight'
  BY <1>3, <1>7 DEF FilesUpToActive, ActiveFile, SealInFlight, Sealing, CacheTypeOK
<1> QED BY <1>4, <1>5, <1>6, <1>8

\* After a crash and reopen the recovery set owns every sealed file on disk.
LEMMA CacheCrashInv ==
  ASSUME CacheInv, CacheCrash
  PROVE  CacheInv'
<1> USE DEF CacheInv
<1>1. \A p \in Parts : LargestGenOnDisk(p) = wal_gen[p]
  BY LargestIsActive
<1>2. wal_gen' = wal_gen
  BY <1>1 DEF CacheCrash, CacheTypeOK
<1>3. recovery_gens' = {f \in files : f[2] < wal_gen[f[1]]}
  BY <1>1 DEF CacheCrash, CacheTypeOK, File
<1>4. Doomed' = {} /\ Readable' = recovery_gens' /\ se_gens' = {} /\ batch' = {}
  BY DEF CacheCrash, Doomed, Readable, NoFiles
<1>5. CacheTypeOK'
  BY <1>2, <1>3, <1>4, CacheAssumption DEF CacheCrash, CacheTypeOK, NoFiles
<1>6. RefsMatchGens' /\ OneOwner' /\ ReleasingOwned'
  BY <1>4 DEF CacheCrash, RefsMatchGens, OneOwner, ReleasingOwned, NoFiles
<1>7. ReadableIsSafe' /\ DoomedIsSealed' /\ FilesUpToActive' /\ SealInFlight'
  BY <1>2, <1>3, <1>4
     DEF CacheCrash, ReadableIsSafe, SealedFiles, DoomedIsSealed, FilesUpToActive, ActiveFile,
         SealInFlight, Sealing
<1> QED BY <1>5, <1>6, <1>7

LEMMA CacheStutterInv == ASSUME CacheInv, UNCHANGED cacheVars PROVE CacheInv'
<1> USE DEF cacheVars, walVars, ownerVars, freeVars, sealVars
<1>1. Doomed' = Doomed /\ Readable' = Readable
  BY DEF Doomed, Readable
<1> QED
  BY <1>1 DEF CacheInv, CacheTypeOK, RefsMatchGens, OneOwner, ReadableIsSafe, SealedFiles,
     ReleasingOwned, DoomedIsSealed, FilesUpToActive, ActiveFile, SealInFlight, Sealing

\* Every step of the cache preserves the invariant.
LEMMA CacheStepInv == CacheInv /\ [CacheNext]_cacheVars => CacheInv'
<1> SUFFICES ASSUME CacheInv, [CacheNext]_cacheVars PROVE CacheInv'
  OBVIOUS
<1>1. ASSUME NEW p \in Parts, EnsureOpenForWrite(p) PROVE CacheInv'
  BY <1>1, EnsureOpenForWriteInv
<1>2. ASSUME NEW B \in SUBSET Parts, SealEpoch(B) PROVE CacheInv'
  BY <1>2, SealEpochInv
<1>2a. ASSUME NEW p \in Parts, Freeze(p) PROVE CacheInv'
  BY <1>2a, FreezeInv
<1>2b. CASE RegisterEpoch
  BY <1>2b, RegisterEpochInv
<1>3. ASSUME NEW e \in epochs, NEW F \in SUBSET gens[e], HandOffSkippedToRecovery(e, F)
      PROVE  CacheInv'
  BY <1>3, HandOffInv
<1>4. ASSUME NEW e \in Epochs, ReleaseEpoch(e) PROVE CacheInv'
  BY <1>4, ReleaseEpochInv
<1>5. ASSUME NEW e \in Epochs, ReleaseGens(e) PROVE CacheInv'
  BY <1>5, ReleaseGensInv
<1>6. CASE (\E e \in Epochs : QueueUnlink(e)) \/ PurgePending
  BY <1>6, PipelineInv
<1>7. ASSUME NEW f \in File, DeleteFile(f) PROVE CacheInv'
  BY <1>7, DeleteFileInv
<1>8. CASE CacheCrash
  BY <1>8, CacheCrashInv
<1>9. CASE UNCHANGED cacheVars
  BY <1>9, CacheStutterInv
<1> QED BY <1>1, <1>2, <1>2a, <1>2b, <1>3, <1>4, <1>5, <1>6, <1>7, <1>8, <1>9 DEF CacheNext

-----------------------------------------------------------------------------
\* The inductive invariant holds in every reachable state of the cache.
THEOREM CacheInvariant == CacheSpec => []CacheInv
<1>1. CacheInit => CacheInv
  BY CacheInitInv
<1>2. CacheInv /\ [CacheNext]_cacheVars => CacheInv'
  BY CacheStepInv
<1> QED BY <1>1, <1>2, PTL DEF CacheSpec

\* Type correctness of SealedFileCache and the WAL manager's generations.
THEOREM CacheTypeCorrect == CacheSpec => []CacheTypeOK
<1>1. CacheInv => CacheTypeOK
  BY DEF CacheInv
<1> QED BY <1>1, CacheInvariant, PTL

\* Whatever SealedFileCache::Get accepts is on disk, sealed, and outside the
\* unlink pipeline, for every interleaving of its critical sections.
THEOREM ReadableSafety == CacheSpec => []ReadableIsSafe
<1>1. CacheInv => ReadableIsSafe
  BY DEF CacheInv
<1> QED BY <1>1, CacheInvariant, PTL

\* A sealed generation never has two owners, and epochs_ and gen_refs_ agree.
THEOREM Ownership == CacheSpec => [](OneOwner /\ RefsMatchGens)
<1>1. CacheInv => OneOwner /\ RefsMatchGens
  BY DEF CacheInv
<1> QED BY <1>1, CacheInvariant, PTL

\* No step, a crash with reopen included, moves a partition to a smaller
\* generation: a file name is never used for two different generations.
THEOREM GenNeverDecreases == CacheSpec => GenMonotone
<1> DEFINE NotBackwards == \A p \in Parts : wal_gen'[p] >= wal_gen[p]
<1>1. CacheInv /\ [CacheNext]_cacheVars => [NotBackwards]_cacheVars
  <2> SUFFICES ASSUME CacheInv, CacheNext PROVE NotBackwards
    OBVIOUS
  <2>0. \A p \in Parts : wal_gen[p] \in Int
    BY CacheAssumption DEF CacheInv, CacheTypeOK, Gens
  <2>1. CASE wal_gen' = wal_gen
    BY <2>0, <2>1
  <2>2. ASSUME NEW p \in Parts, Freeze(p) PROVE NotBackwards
    BY <2>0, <2>2 DEF Freeze, CacheInv, CacheTypeOK
  <2>3. CASE CacheCrash
    BY <2>0, <2>3, LargestIsActive DEF CacheCrash, CacheInv
  <2> QED
    BY <2>1, <2>2, <2>3, Zenon DEF CacheNext, EnsureOpenForWrite, SealEpoch, RegisterEpoch,
       HandOffSkippedToRecovery, ReleaseEpoch, ReleaseGens, QueueUnlink, PurgePending, DeleteFile, walVars
<1> QED BY <1>1, CacheInvariant, PTL DEF CacheSpec, GenMonotone
=============================================================================
