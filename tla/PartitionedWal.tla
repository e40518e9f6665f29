---------------------------- MODULE PartitionedWal ----------------------------
(***************************************************************************)
(* PartitionedWalManager and the write groups that drive it: buffered      *)
(* appends to one file per partition, fsync of the touched partitions,     *)
(* sealing by size, reads through locators, crash, reopen and replay.      *)
(*                                                                         *)
(* A record is RecLen cells, a header cell and a body cell, so that a      *)
(* power loss can tear it; offsets and sizes are counted in cells.  What a *)
(* record holds is its number: two records are the same iff their numbers  *)
(* are.  Decoding succeeds exactly on the cells of one record in order,    *)
(* which is what the magic number and the checksum guarantee.              *)
(*                                                                         *)
(* Partition P stands for kRangeDelPartId, the partition of range          *)
(* tombstones: no key routes to it, it is created by the first DeleteRange *)
(* and it has the largest id.  Deleting sealed files is not modelled here  *)
(* (SealedFileCache does).                                                 *)
(***************************************************************************)
EXTENDS Integers, Sequences, FiniteSets, FiniteSetsExt

CONSTANTS
  P,            \* ZeroFlushOptions::partitions
  Width,        \* bits of the touched bitmap (64 in the code)
  Target,       \* partition_target_bytes
  EpochTarget,  \* epoch_target_bytes
  IndexBudget,  \* index_mem_budget, in index entries; 0 disables it
  MaxBatch,     \* max_batch_partitions
  BufLimit,     \* buffered cells that force a flush (4096 bytes in the code)
  Writers,      \* threads of a write group
  Readers,      \* threads inside ReadValue
  UseRangeDel,  \* does the application call DeleteRange
  PowerLoss,    \* may a crash lose what was not fsynced
  MaxRec,       \* bound on records written
  MaxGen,       \* bound on generations of a partition
  MaxCrash      \* bound on crashes and clean restarts

ASSUME WalAssumption ==
  /\ P \in Nat \ {0} /\ Width \in Nat /\ P <= Width
  /\ Target \in Nat \ {0} /\ EpochTarget \in Nat \ {0}
  /\ IndexBudget \in Nat /\ MaxBatch \in Nat \ {0} /\ BufLimit \in Nat \ {0}
  /\ UseRangeDel \in BOOLEAN /\ PowerLoss \in BOOLEAN
  /\ MaxRec \in Nat /\ MaxGen \in Nat /\ MaxCrash \in Nat

RangeDel == P
KeyParts == 0 .. P - 1
AllParts == 0 .. P
Gens     == 0 .. MaxGen
Records  == 1 .. MaxRec
RecLen   == 2
Cell     == Records \X (1 .. RecLen)
Bad      == 0           \* a read that ends in Corruption

\* Where an application operation writes its record.
Targets == IF UseRangeDel THEN AllParts ELSE KeyParts

VARIABLES
  up,           \* is the database open
  disk,         \* generations of p that have a file
  file,         \* cells the file of <<p, g>> holds
  stable,       \* how many of them survive a power loss
  known,        \* keys of parts_
  part,         \* the Partition of each known id
  total_active, \* total_active_bytes_
  over_target,  \* any_over_target_
  index,        \* locators in the partition indexes
  writer,       \* the write group in progress, one entry per thread
  next_rec,     \* sequence number of the next record
  hard,         \* records acknowledged to a writer with sync = true
  reader,       \* the reads in progress
  stopped,      \* a background error stopped the database
  crashes

vars == <<up, disk, file, stable, known, part, total_active, over_target,
          index, writer, next_rec, hard, reader, stopped, crashes>>

-----------------------------------------------------------------------------
NewPartition ==
  [gen |-> 0, buf |-> <<>>, flushed |-> 0, total |-> 0, active |-> 0,
   wfile |-> FALSE]

Idle == [pc |-> "idle"]

EncodeZfRecord(r) == [i \in 1 .. RecLen |-> <<r, i>>]

\* The record that starts after off cells of s, or Bad.
DecodeAt(s, off) ==
  IF /\ off + RecLen <= Len(s)
     /\ SubSeq(s, off + 1, off + RecLen) = EncodeZfRecord(s[off + 1][1])
  THEN s[off + 1][1]
  ELSE Bad

\* WalScanner: the offsets of the records before the first one that is torn
\* or fails to decode, at which Next returns FALSE for good.
Scan(s) ==
  LET offsets == {RecLen * i : i \in 0 .. (Len(s) \div RecLen) - 1}
  IN  {off \in offsets : \A o \in offsets : o <= off => DecodeAt(s, o) # Bad}

\* What the file of a generation holds, every record of it decodable.
Whole(s) == Len(s) = RecLen * Cardinality(Scan(s))

ActiveSize(p) == part[p].total

Bytes(S) == MapThenSumSet(ActiveSize, S)

ShouldSeal ==
  \/ IndexBudget > 0 /\ Cardinality(index) >= IndexBudget
  \/ total_active >= EpochTarget
  \/ over_target

\* The partitions a seal freezes: all that are over the target, then the
\* largest others until the batch is full or holds enough bytes.
Batch ==
  LET over == {p \in known : ActiveSize(p) >= Target}
      rest == {p \in known \ over : ActiveSize(p) > 0}
      Before(q, p) == \/ ActiveSize(q) > ActiveSize(p)
                      \/ ActiveSize(q) = ActiveSize(p) /\ q > p
      Ahead(p) == over \cup {q \in rest : Before(q, p)}
  IN  over \cup {p \in rest : /\ Cardinality(Ahead(p)) < MaxBatch
                              /\ Bytes(Ahead(p)) < EpochTarget}

-----------------------------------------------------------------------------
Init ==
  /\ up = TRUE
  /\ disk = [p \in AllParts |-> {}]
  /\ file = [p \in AllParts |-> [g \in Gens |-> <<>>]]
  /\ stable = [p \in AllParts |-> [g \in Gens |-> 0]]
  /\ known = KeyParts
  /\ part = [p \in AllParts |-> NewPartition]
  /\ total_active = 0
  /\ over_target = FALSE
  /\ index = {}
  /\ writer = [w \in Writers |-> Idle]
  /\ next_rec = 1
  /\ hard = {}
  /\ reader = [r \in Readers |-> Idle]
  /\ stopped = FALSE
  /\ crashes = 0

\* FlushBuf: the buffer goes to the end of the file (O_APPEND), whatever
\* flushed_size says its length is.
FlushBuf(pt) == [pt EXCEPT !.flushed = pt.total, !.buf = <<>>]

-----------------------------------------------------------------------------
(* Write groups.  The leader starts a group under the DB mutex and seals    *)
(* first if ShouldSeal; then each thread appends the records of its batch   *)
(* and fsyncs the partitions it touched; the group is acknowledged when all *)
(* its threads are done.  One thread is the non-parallel path.              *)

FreezeKeepsSizes(pt) ==
  [pt EXCEPT !.gen = @ + 1, !.buf = <<>>, !.active = 0, !.wfile = TRUE]

FreezeWithoutFlush(p) ==
  <<file[p][part[p].gen], stable[p][part[p].gen]>>

FreezeShortWrite(p) ==
  LET all == file[p][part[p].gen] \o part[p].buf
      cut == IF part[p].buf = <<>> THEN all ELSE SubSeq(all, 1, Len(all) - 1)
  IN  <<cut, Len(cut)>>

\* Freeze of one partition: what becomes of its Partition, and what its old
\* file holds.  A partition without a write handle is sealed without fsync.
FreezePartition(pt) ==
  [NewPartition EXCEPT !.gen = pt.gen + 1, !.wfile = TRUE]

FreezeOldFile(p) ==
  IF part[p].wfile
  THEN LET all == file[p][part[p].gen] \o part[p].buf IN <<all, Len(all)>>
  ELSE <<file[p][part[p].gen], stable[p][part[p].gen]>>

\* FreezeBatchPartitions.  OpenGen creates, or truncates, the next file.
Freeze(B) ==
  /\ \A p \in B : part[p].gen < MaxGen
  /\ disk' = [p \in AllParts |->
                IF p \in B THEN disk[p] \cup {part[p].gen + 1} ELSE disk[p]]
  /\ file' = [p \in AllParts |->
                IF p \in B THEN [file[p] EXCEPT ![part[p].gen] = FreezeOldFile(p)[1],
                                                ![part[p].gen + 1] = <<>>]
                           ELSE file[p]]
  /\ stable' = [p \in AllParts |->
                IF p \in B THEN [stable[p] EXCEPT ![part[p].gen] = FreezeOldFile(p)[2],
                                                  ![part[p].gen + 1] = 0]
                           ELSE stable[p]]
  /\ part' = [p \in AllParts |->
                IF p \in B THEN FreezePartition(part[p]) ELSE part[p]]
  /\ total_active' = total_active - Bytes(B)
  /\ over_target' = FALSE

SealFirst ==
  IF ShouldSeal
  THEN Freeze(Batch)
  ELSE UNCHANGED <<disk, file, stable, part, total_active, over_target>>

Room == MaxRec - next_rec + 1

StartGroup ==
  /\ up /\ ~stopped
  /\ \A w \in Writers : writer[w] = Idle
  /\ SealFirst
  /\ \E W \in SUBSET Writers \ {{}}, sync \in BOOLEAN :
     \E batch \in [W -> UNION {[1 .. n -> Targets] : n \in 1 .. 2}] :
       /\ MapThenSumSet(LAMBDA w : Len(batch[w]), W) <= Room
       /\ writer' = [w \in Writers |->
            IF w \in W THEN [pc |-> "append", todo |-> batch[w], recs |-> {},
                             touched |-> {}, sync |-> sync]
                       ELSE Idle]
  /\ UNCHANGED <<up, known, index, next_rec, hard, reader, stopped, crashes>>

\* The bit of the touched bitmap for partition p, and back.
BitOf(p) == IF p = RangeDel THEN Width - 1 ELSE p
PartOfBit(b) == IF b = Width - 1 THEN RangeDel ELSE b

OffsetIsFlushed(pt) == pt.flushed

\* Where Append says the record is: the logical size, buffer included.
AppendOffset(pt) == pt.total

AppendTo(pt, r) ==
  [pt EXCEPT !.buf = @ \o EncodeZfRecord(r), !.total = @ + RecLen,
             !.active = @ + RecLen, !.wfile = TRUE]

\* AddRecord: PartitionedWalManager::Append, then the index insertion.
AddRecord(w) ==
  /\ writer[w].pc = "append"
  /\ writer[w].todo # <<>>
  /\ LET p    == Head(writer[w].todo)
         pt   == AppendTo(part[p], next_rec)
         full == Len(pt.buf) >= BufLimit
         loc  == [rec |-> next_rec, part |-> p, gen |-> pt.gen,
                  off |-> AppendOffset(part[p])]
     IN  /\ known' = known \cup {p}
         /\ disk' = [disk EXCEPT ![p] = @ \cup {pt.gen}]
         /\ part' = [part EXCEPT ![p] = IF full THEN FlushBuf(pt) ELSE pt]
         /\ file' = [file EXCEPT ![p][pt.gen] = IF full THEN @ \o pt.buf ELSE @]
         /\ total_active' = total_active + RecLen
         /\ over_target' = (over_target \/ pt.active >= Target)
         /\ index' = index \cup {loc}
         /\ next_rec' = next_rec + 1
         /\ writer' = [writer EXCEPT ![w].todo = Tail(@),
                                     ![w].recs = @ \cup {next_rec},
                                     ![w].touched = @ \cup {BitOf(p)}]
  /\ UNCHANGED <<up, stable, hard, reader, stopped, crashes>>

SyncWithoutFlush(p) ==
  /\ stable' = [stable EXCEPT ![p][part[p].gen] = Len(file[p][part[p].gen])]
  /\ UNCHANGED <<disk, file, part>>

\* PartitionedWalManager::Sync of a known partition.
Sync(p) ==
  LET pt  == part[p]
      all == file[p][pt.gen] \o pt.buf
  IN  /\ disk' = [disk EXCEPT ![p] = @ \cup {pt.gen}]
      /\ file' = [file EXCEPT ![p][pt.gen] = all]
      /\ stable' = [stable EXCEPT ![p][pt.gen] = Len(all)]
      /\ part' = [part EXCEPT ![p] = [FlushBuf(pt) EXCEPT !.wfile = TRUE]]

\* SyncTouchedPartitions, one partition at a time in bitmap order; an id the
\* manager does not know ends it with InvalidArgument.
SyncTouchedPartitions(w) ==
  /\ writer[w].pc = "append"
  /\ writer[w].todo = <<>>
  /\ writer[w].sync /\ writer[w].touched # {}
  /\ LET b == Min(writer[w].touched)
         p == PartOfBit(b)
     IN  IF p \in known
         THEN /\ Sync(p)
              /\ writer' = [writer EXCEPT ![w].touched = @ \ {b}]
         ELSE /\ writer' = [writer EXCEPT ![w].pc = "failed"]
              /\ UNCHANGED <<disk, file, stable, part>>
  /\ UNCHANGED <<up, known, total_active, over_target, index, next_rec, hard,
                 reader, stopped, crashes>>

Finished(w) ==
  writer[w].pc = "append" =>
    /\ writer[w].todo = <<>>
    /\ writer[w].sync => writer[w].touched = {}

\* The last thread ends the group: one failure fails every batch of it and
\* stops the database (HandleMemTableInsertFailure).
EndGroup ==
  /\ \E w \in Writers : writer[w] # Idle
  /\ \A w \in Writers : Finished(w)
  /\ LET mine   == {w \in Writers : writer[w] # Idle}
         failed == \E w \in mine : writer[w].pc = "failed"
     IN  /\ hard' = IF failed THEN hard
                    ELSE hard \cup UNION {writer[w].recs :
                                            w \in {v \in mine : writer[v].sync}}
         /\ stopped' = failed
  /\ writer' = [w \in Writers |-> Idle]
  /\ UNCHANGED <<up, disk, file, stable, known, part, total_active, over_target,
                 index, next_rec, reader, crashes>>

-----------------------------------------------------------------------------
(* ReadValue of a locator found in the index: ActiveGen under the partition *)
(* lock, then, under a second acquisition of it, ReadRecord; or the sealed  *)
(* file, which needs no lock.                                               *)

ReadRecord(l) ==
  LET pt == part[l.part]
  IN  IF l.off >= pt.flushed
      THEN DecodeAt(pt.buf, l.off - pt.flushed)
      ELSE DecodeAt(file[l.part][pt.gen], l.off)

ReadFromSealed(l) == DecodeAt(file[l.part][l.gen], l.off)

ActivePath(l) == l.gen = part[l.part].gen

BeginRead(r) ==
  /\ up
  /\ reader[r].pc = "idle"
  /\ \E l \in index :
       /\ l.part \in known
       /\ reader' = [reader EXCEPT ![r] =
            [pc |-> "read", loc |-> l, active |-> ActivePath(l)]]
  /\ UNCHANGED <<up, disk, file, stable, known, part, total_active, over_target,
                 index, writer, next_rec, hard, stopped, crashes>>

FinishRead(r) ==
  /\ reader[r].pc = "read"
  /\ LET l == reader[r].loc
     IN  reader' = [reader EXCEPT ![r] =
           [pc |-> "done", loc |-> l, active |-> reader[r].active,
            got |-> IF reader[r].active THEN ReadRecord(l) ELSE ReadFromSealed(l)]]
  /\ UNCHANGED <<up, disk, file, stable, known, part, total_active, over_target,
                 index, writer, next_rec, hard, stopped, crashes>>

EndRead(r) ==
  /\ reader[r].pc = "done"
  /\ reader' = [reader EXCEPT ![r] = Idle]
  /\ UNCHANGED <<up, disk, file, stable, known, part, total_active, over_target,
                 index, writer, next_rec, hard, stopped, crashes>>

-----------------------------------------------------------------------------
(* Going down and coming back.                                              *)

\* Nothing in memory survives.
Forget ==
  /\ up' = FALSE
  /\ known' = {}
  /\ part' = [p \in AllParts |-> NewPartition]
  /\ total_active' = 0
  /\ over_target' = FALSE
  /\ index' = {}
  /\ writer' = [w \in Writers |-> Idle]
  /\ reader' = [r \in Readers |-> Idle]
  /\ stopped' = FALSE
  /\ crashes' = crashes + 1
  /\ UNCHANGED <<disk, next_rec, hard>>

\* The process dies: buffers are lost, what was written to files is not.
ProcessCrash ==
  /\ up /\ crashes < MaxCrash
  /\ Forget
  /\ UNCHANGED <<file, stable>>

\* The machine dies: each file keeps some prefix that includes what was
\* fsynced, and may end inside a record.
PowerFailure ==
  /\ PowerLoss
  /\ up /\ crashes < MaxCrash
  /\ LET torn == {f \in AllParts \X Gens : stable[f[1]][f[2]] < Len(file[f[1]][f[2]])}
         longest == Max({Len(file[f[1]][f[2]]) : f \in AllParts \X Gens})
         Kept(f, cut) == IF f \in torn THEN cut[f] ELSE stable[f[1]][f[2]]
     IN  \E cut \in [torn -> 0 .. longest] :
           /\ \A f \in torn : cut[f] \in stable[f[1]][f[2]] .. Len(file[f[1]][f[2]])
           /\ file' = [p \in AllParts |-> [g \in Gens |->
                         SubSeq(file[p][g], 1, Kept(<<p, g>>, cut))]]
           /\ stable' = [p \in AllParts |-> [g \in Gens |-> Kept(<<p, g>>, cut)]]
  /\ Forget

\* Close, from the destructor: flush every buffer, fsync every open file.
Close ==
  /\ up /\ crashes < MaxCrash
  /\ \A w \in Writers : writer[w] = Idle
  /\ \A r \in Readers : reader[r] = Idle
  /\ file' = [p \in AllParts |->
                [file[p] EXCEPT ![part[p].gen] = @ \o part[p].buf]]
  /\ stable' = [p \in AllParts |->
                [stable[p] EXCEPT ![part[p].gen] =
                   IF part[p].wfile THEN Len(file'[p][part[p].gen]) ELSE @]]
  /\ Forget

MinGen(p) == IF disk[p] = {} THEN 0 ELSE Min(disk[p])

\* MaxGen: 0 when p has no file.
MaxGenOf(p) == IF disk[p] = {} THEN 0 ELSE Max(disk[p])

OpenWithoutCounting(p) ==
  LET size == Len(file[p][MaxGenOf(p)])
  IN  [NewPartition EXCEPT !.gen = MaxGenOf(p), !.flushed = size, !.total = size]

OpenPartition(p) ==
  LET size == Len(file[p][MaxGenOf(p)])
  IN  [NewPartition EXCEPT !.gen = MaxGenOf(p), !.flushed = size,
                           !.total = size, !.active = size]

\* ListFiles: the generations Recover replays.
ListFiles(p) == disk[p]

\* Recover: every file is scanned up to its first bad record.
Replay ==
  UNION {{[rec |-> DecodeAt(file[f[1]][f[2]], off), part |-> f[1], gen |-> f[2],
           off |-> off] : off \in Scan(file[f[1]][f[2]])} :
           f \in {h \in AllParts \X Gens : h[2] \in ListFiles(h[1])}}

\* PartitionedWalManager::Open covers the ids below P only, then Recover.
Open ==
  /\ ~up
  /\ up' = TRUE
  /\ known' = KeyParts
  /\ part' = [p \in AllParts |->
                IF p \in KeyParts THEN OpenPartition(p) ELSE NewPartition]
  /\ total_active' = MapThenSumSet(LAMBDA p : OpenPartition(p).active, KeyParts)
  /\ index' = Replay
  /\ UNCHANGED <<disk, file, stable, over_target, writer, next_rec, hard,
                 reader, stopped, crashes>>

Next ==
  \/ StartGroup
  \/ \E w \in Writers : AddRecord(w) \/ SyncTouchedPartitions(w)
  \/ EndGroup
  \/ \E r \in Readers : BeginRead(r) \/ FinishRead(r) \/ EndRead(r)
  \/ ProcessCrash
  \/ PowerFailure
  \/ Close
  \/ Open

Spec == Init /\ [][Next]_vars

-----------------------------------------------------------------------------
Locator == [rec : Records, part : AllParts, gen : Gens, off : 0 .. RecLen * MaxRec]

\* The Partition objects, the write group and the index hold what their
\* declarations allow; in particular no locator has a record nobody wrote.
WalTypeOK ==
  /\ up \in BOOLEAN /\ over_target \in BOOLEAN /\ stopped \in BOOLEAN
  /\ \A p \in AllParts :
       /\ disk[p] \subseteq Gens
       /\ \A g \in Gens : /\ file[p][g] \in Seq(Cell)
                          /\ stable[p][g] \in 0 .. Len(file[p][g])
       /\ part[p].gen \in Gens /\ part[p].buf \in Seq(Cell)
       /\ part[p].total >= part[p].flushed
  /\ known \subseteq AllParts
  /\ total_active \in Nat
  /\ index \subseteq Locator
  /\ next_rec \in 1 .. MaxRec + 1
  /\ hard \subseteq 1 .. next_rec - 1

\* ReadValue, run while nothing seals the partition, returns the record its
\* locator was made for: through the buffer, the active file or a sealed one,
\* after any flush, seal, crash and replay.
LocatorsResolve ==
  up => \A l \in index :
          (IF ActivePath(l) THEN ReadRecord(l) ELSE ReadFromSealed(l)) = l.rec

Indexed(r) == \E l \in index : l.rec = r

\* The record r is on disk and fsynced, after cells that belong to no record:
\* the torn tail a power loss left, to which the reopened file was appended.
BehindTornTail(r) ==
  \E p \in AllParts, g \in Gens : \E off \in 0 .. stable[p][g] - RecLen :
    /\ DecodeAt(file[p][g], off) = r
    /\ \E c \in 0 .. off - 1 : \A o \in 0 .. c :
         DecodeAt(file[p][g], o) # Bad => c \notin o .. o + RecLen - 1

\* A record acknowledged with sync = true is found by the next recovery.
SyncedIsIndexed == up => \A r \in hard : Indexed(r)

\* A record acknowledged with sync = true is found by every later recovery,
\* after any sequence of crashes, unless it was appended behind a torn tail:
\* Open does not truncate the tail that the scan skipped, appends go after it,
\* and the next scan ends there.  Nothing else loses a synced record, and even
\* then its bytes are on disk.
SyncedIsRecovered == up => \A r \in hard : Indexed(r) \/ BehindTornTail(r)

\* The counters ShouldSeal reads equal the sizes Freeze subtracts from them,
\* so that total_active_bytes_ (an unsigned integer) cannot wrap around.
CountersExact ==
  up => /\ total_active = Bytes(known)
        /\ \A p \in known : part[p].active = part[p].total

\* A sealed file is complete on disk, every record of it decodable: the
\* scanner of the materialize job treats anything else as data loss.
SealedIsWhole ==
  \A p \in AllParts : \A g \in disk[p] :
    (up /\ p \in known /\ g < part[p].gen) => Whole(file[p][g])

\* Append goes to the newest generation of its partition, never to one that
\* was sealed before the reopen.
AppendsToNewest ==
  \A p \in known : part[p].wfile => part[p].gen = Max(disk[p])

\* ReadValue never returns the value of another record.
NeverReadsAnother ==
  \A r \in Readers : reader[r].pc = "done" =>
    reader[r].got \in {reader[r].loc.rec, Bad}

\* A read that took the path of sealed files returns its own record, whatever
\* is appended or sealed meanwhile.
SealedReadIsOwn ==
  \A r \in Readers : (reader[r].pc = "done" /\ ~reader[r].active) =>
    reader[r].got = reader[r].loc.rec
==============================================================================
