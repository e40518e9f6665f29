------------------------------- MODULE Routing -------------------------------
(***************************************************************************)
(* Versions of the routing table over the life of a database: the write    *)
(* group bound to a version, the seal that learns or aligns a new table,   *)
(* the index partition of each record, reads routed by the current table,  *)
(* ZFPROPS, and reopening with re-routing of the replayed records.         *)
(*                                                                         *)
(* wal holds the records whose file still exists, sst what has been        *)
(* materialized.  Materialization, release and purge of an epoch are one   *)
(* step here (ZeroFlushDB splits them), and sizes are abstracted: a seal   *)
(* may happen at any write group, for any batch of written partitions.     *)
(* Skipped outputs, snapshots and range deletes are not in this module.    *)
(***************************************************************************)
EXTENDS PartitionTable, FiniteSetsExt, SequencesExt

CONSTANTS
  Modes,        \* values of routing_mode: "Hash", "Static", "Sampled", "AlignL1"
  MaxKey,       \* keys are 0 .. MaxKey
  Static,       \* the boundary of static_boundaries when P = 2
  SampleEvery,  \* sample_every_n_records
  MaxSamples,   \* capacity of the reservoir (64K in the code)
  MaxFiles,     \* bound on the files of level 1
  MaxSize,      \* bound on the size of a file of level 1
  MaxSeq,       \* bound on records
  MaxEpoch,     \* bound on seals between two opens
  MaxCrash      \* bound on reopens

ASSUME RoutingAssumption ==
  /\ Modes \subseteq {"Hash", "Static", "Sampled", "AlignL1"}
  /\ "Static" \in Modes => P = 2
  /\ SampleEvery \in Nat \ {0} /\ MaxSamples \in Nat \ {0}

Keys  == 0 .. MaxKey
Parts == 0 .. P - 1
Seqs  == 1 .. MaxSeq
Files == [small : Keys, large : Keys, size : 1 .. MaxSize]

\* The layouts of level 1: disjoint files in key order.
Layouts ==
  {f \in UNION {[1 .. n -> Files] : n \in 0 .. MaxFiles} :
     /\ \A i \in 1 .. Len(f) : f[i].small <= f[i].large
     /\ \A i \in 1 .. Len(f) - 1 : f[i].large < f[i + 1].small}

VARIABLES
  mode,         \* routing_mode, the same at every open
  tables,       \* PartitionTableSet::versions_; version v is tables[v + 1]
  zfprops,      \* the tables ZFPROPS holds
  samples, total_seen,  \* KeySampler
  epoch,        \* epoch_counter_
  wal_gen,      \* active generation of each partition
  wal,          \* records in WAL files: [seq, key, part, gen]
  index,        \* the index chain of each partition, a sequence of
                \* [gen, recs]: the frozen ones, oldest first, then the active
  sealed,       \* generations of each epoch not yet materialized
  orphans,      \* sealed generations found at Open, not yet adopted
  sst,          \* records materialized: [seq, key]
  group,        \* table version of the write group in progress, or -1
  next_seq,
  l1,           \* level 1 of the current version
  opened,       \* number of tables when the database was opened
  crashes

vars == <<mode, tables, zfprops, samples, total_seen, epoch, wal_gen, wal, index,
          sealed, orphans, sst, group, next_seq, l1, opened, crashes>>

NoGroup == -1

CurrentVersion == Len(tables) - 1
CurrentTable == tables[Len(tables)]

RouteWithVersion(k, v) == Route(tables[v + 1], k)

EmptyIndex(g) == [gen |-> g, recs |-> {}]

Written(p) == {r \in wal : r.part = p /\ r.gen = wal_gen[p]}

-----------------------------------------------------------------------------
InitialTable == IF mode = "Static" THEN RangeTable(<<Static>>) ELSE HashTable

\* PersistZfProps writes version 0 without boundaries, whatever it is.
PersistZfProps(ts) == <<HashTable>> \o Tail(ts)

Init ==
  /\ mode \in Modes
  /\ tables = <<InitialTable>>
  /\ zfprops = PersistZfProps(<<InitialTable>>)
  /\ samples = <<>> /\ total_seen = 0
  /\ epoch = 0
  /\ wal_gen = [p \in Parts |-> 0]
  /\ wal = {} /\ sst = {}
  /\ index = [p \in Parts |-> <<EmptyIndex(0)>>]
  /\ sealed = [e \in 1 .. MaxEpoch |-> {}]
  /\ orphans = {}
  /\ group = NoGroup
  /\ next_seq = 1
  /\ l1 = <<>>
  /\ opened = 1
  /\ crashes = 0

\* Learning from the sampler, at the first seal after an open.
LearnedBounds ==
  IF /\ CurrentVersion = 0 /\ epoch = 0
     /\ samples # <<>> /\ EnoughSamples(samples)
  THEN {Quantiles(samples)} ELSE {}

\* The boundaries the seal tries to install, a set of at most one.
NewBounds ==
  CASE mode = "Sampled" -> LearnedBounds
    [] mode = "AlignL1" -> LET b == L1Boundaries(l1)
                           IN  IF l1 # <<>> /\ b # <<>> /\ Ascending(b)
                               THEN {b} ELSE LearnedBounds
    [] OTHER -> {}

FreezeKeepsGen(p) ==
  Append(IF Last(index[p]).recs = {} THEN Front(index[p]) ELSE index[p],
         EmptyIndex(wal_gen[p]))

\* PartitionIndexSet::Freeze: an active index with entries joins the chain of
\* frozen ones, an empty one is dropped.
FreezeIndex(p) ==
  Append(IF Last(index[p]).recs = {} THEN Front(index[p]) ELSE index[p],
         EmptyIndex(wal_gen[p] + 1))

\* FreezeBatchPartitions.  ZFPROPS is not written here.
FreezeBatchPartitions(B) ==
  /\ epoch < MaxEpoch
  /\ epoch' = epoch + 1
  /\ wal_gen' = [p \in Parts |-> IF p \in B THEN wal_gen[p] + 1 ELSE wal_gen[p]]
  /\ index' = [p \in Parts |-> IF p \in B THEN FreezeIndex(p) ELSE index[p]]
  /\ sealed' = [sealed EXCEPT ![epoch + 1] =
                  {<<p, wal_gen[p]>> : p \in B} \cup orphans]
  /\ orphans' = {}
  /\ tables' = IF \E b \in NewBounds : Ascending(b)
               THEN Append(tables, RangeTable(CHOOSE b \in NewBounds : TRUE))
               ELSE tables

\* The version a write group is bound to is read before the seal.
GroupVersion == CurrentVersion

StartGroup ==
  /\ group = NoGroup /\ next_seq <= MaxSeq
  /\ \/ \E B \in SUBSET {p \in Parts : Written(p) # {}} :
          B # {} /\ FreezeBatchPartitions(B)
     \/ UNCHANGED <<tables, epoch, wal_gen, index, sealed, orphans>>
  /\ group' = GroupVersion
  /\ UNCHANGED <<mode, zfprops, samples, total_seen, wal, sst, next_seq, l1, opened,
                 crashes>>

\* KeySampler::Sample: every n-th key, replacing a sample when full.
Sample(k) ==
  /\ total_seen' = total_seen + 1
  /\ IF total_seen % SampleEvery # 0 THEN samples' = samples
     ELSE IF Len(samples) < MaxSamples THEN samples' = Append(samples, k)
     ELSE \/ \E i \in 1 .. MaxSamples : samples' = [samples EXCEPT ![i] = k]
          \/ samples' = samples

\* AddRecord of the last record of the group.
AddRecord(k) ==
  /\ group # NoGroup
  /\ LET p == RouteWithVersion(k, group)
         r == [seq |-> next_seq, key |-> k, part |-> p, gen |-> wal_gen[p]]
     IN  /\ wal' = wal \cup {r}
         /\ index' = [index EXCEPT ![p][Len(index[p])].recs = @ \cup {r}]
  /\ IF mode = "Sampled" /\ epoch = 0
     THEN Sample(k) ELSE UNCHANGED <<samples, total_seen>>
  /\ next_seq' = next_seq + 1
  /\ group' = NoGroup
  /\ UNCHANGED <<mode, tables, zfprops, epoch, wal_gen, sealed, orphans, sst, l1,
                 opened, crashes>>

\* PartitionIndexSet::ReleaseFrozen for the generations in G.
ReleaseFrozen(p, G) ==
  Append(SelectSeq(Front(index[p]), LAMBDA x : <<p, x.gen>> \notin G),
         Last(index[p]))

\* The flush job of epoch e, then its release: the index entries are found
\* by (partition, generation).
Materialize(e) ==
  /\ sealed[e] # {}
  /\ \A d \in 1 .. e - 1 : sealed[d] = {}
  /\ LET done == {r \in wal : <<r.part, r.gen>> \in sealed[e]}
     IN  /\ sst' = sst \cup {[seq |-> r.seq, key |-> r.key] : r \in done}
         /\ wal' = wal \ done
  /\ index' = [p \in Parts |-> ReleaseFrozen(p, sealed[e])]
  /\ sealed' = [sealed EXCEPT ![e] = {}]
  /\ UNCHANGED <<mode, tables, zfprops, samples, total_seen, epoch, wal_gen, orphans,
                 group, next_seq, l1, opened, crashes>>

\* Native compaction gives level 1 another shape: its files start and end at
\* keys that have been materialized.
Compact ==
  /\ mode = "AlignL1" /\ sst # {}
  /\ l1' \in Layouts \ {l1}
  /\ \A i \in 1 .. Len(l1') : {l1'[i].small, l1'[i].large} \subseteq {r.key : r \in sst}
  /\ UNCHANGED <<mode, tables, zfprops, samples, total_seen, epoch, wal_gen, wal, index,
                 sealed, orphans, sst, group, next_seq, opened, crashes>>

\* Recover, for the index of partition p under table t: records are indexed by
\* the table, not by the partition that wrote them.  EnsureActive creates the
\* active index first; InsertCreate adds a frozen one for each other
\* generation, in the order of replay, which is that of the first sequence
\* number of the files.
MinSeqOfFile(r) == Min({x.seq : x \in {y \in wal : y.part = r.part /\ y.gen = r.gen}})

ReplayOrder(R, g) == Min({MinSeqOfFile(r) : r \in {x \in R : x.gen = g}})

Rebuilt(p, R, active) ==
  LET Recs(g) == [gen |-> g, recs |-> {r \in R : r.gen = g}]
      Before(x, y) == ReplayOrder(R, x) < ReplayOrder(R, y)
      frozen == SetToSortSeq({r.gen : r \in R} \ {active}, Before)
  IN  Append([i \in 1 .. Len(frozen) |-> Recs(frozen[i])], Recs(active))

RebuildWithoutEnsureActive(t, p) ==
  LET R == {r \in wal : Route(t, r.key) = p}
  IN  IF R = {} THEN Rebuilt(p, R, wal_gen[p])
      ELSE Rebuilt(p, R, (CHOOSE r \in R : \A x \in R : r.seq <= x.seq).gen)

RebuildIndex(t, p) == Rebuilt(p, {r \in wal : Route(t, r.key) = p}, wal_gen[p])

\* The version 0 of Open, then the tables of ZFPROPS above it.
RestoredTables == <<InitialTable>> \o Tail(zfprops)

\* Crash, zeroflush::Open and Recover: the tables above version 0 come from
\* ZFPROPS, which is then rewritten; all WAL files are replayed.
Reopen ==
  /\ crashes < MaxCrash
  /\ crashes' = crashes + 1
  /\ tables' = RestoredTables
  /\ zfprops' = PersistZfProps(tables')
  /\ opened' = Len(tables')
  /\ samples' = <<>> /\ total_seen' = 0
  /\ epoch' = 0
  /\ index' = [p \in Parts |-> RebuildIndex(tables'[Len(tables')], p)]
  /\ orphans' = {<<r.part, r.gen>> : r \in {x \in wal : x.gen < wal_gen[x.part]}}
  /\ sealed' = [e \in 1 .. MaxEpoch |-> {}]
  /\ group' = NoGroup
  /\ UNCHANGED <<mode, wal_gen, wal, sst, next_seq, l1>>

Next ==
  \/ StartGroup
  \/ \E k \in Keys : AddRecord(k)
  \/ \E e \in 1 .. MaxEpoch : Materialize(e)
  \/ Compact
  \/ Reopen

Spec == Init /\ [][Next]_vars

-----------------------------------------------------------------------------
\* GetFromPartitionIndex, then the native lookup: the first index of the chain
\* of the routed partition that has the key, newest index first; if its value
\* can no longer be read, or none has the key, the tables.  0 is not found.
NewestOf(S, k) == Max({0} \cup {r.seq : r \in {x \in S : x.key = k}})

Get(k) ==
  LET c    == index[Route(CurrentTable, k)]
      hits == {i \in 1 .. Len(c) : \E r \in c[i].recs : r.key = k}
      hit  == NewestOf(c[Max(hits)].recs, k)
  IN  IF hits # {} /\ \E r \in wal : r.seq = hit
      THEN hit ELSE NewestOf(sst, k)

-----------------------------------------------------------------------------
Records == [seq : Seqs, key : Keys, part : Parts, gen : 0 .. MaxSeq]

(***************************************************************************)
(* Type invariant of the routing state.                                    *)
(***************************************************************************)
RoutingTypeOK ==
  /\ \A i \in 1 .. Len(tables) : Ascending(tables[i].bounds) /\ Partitions(tables[i]) <= P
  /\ wal \subseteq Records
  /\ \A p \in Parts : /\ Last(index[p]).gen = wal_gen[p]
                      /\ \A i \in 1 .. Len(index[p]) : index[p][i].recs \subseteq Records
  /\ \A r \in sst : r \in [seq : Seqs, key : Keys]
  /\ group \in -1 .. Len(tables) - 1
  /\ Len(samples) <= MaxSamples
  /\ epoch \in 0 .. MaxEpoch
  /\ mode \in Modes

(***************************************************************************)
(* Every table ever installed sends each key to the one partition whose    *)
(* RangeOf holds it, so Route (std::upper_bound) and the range check of    *)
(* the materializer agree on keys equal to a boundary.                     *)
(***************************************************************************)
RouteMatchesRange ==
  \A i \in 1 .. Len(tables) : ~tables[i].hash =>
    \A k \in Keys, p \in 0 .. Len(tables[i].bounds) :
      InRangeOf(tables[i].bounds, p, k) <=> p = Route(tables[i], k)

(***************************************************************************)
(* A Get between two write groups returns the newest version of the key,   *)
(* across seals, materializations and reopens: routing never hides a       *)
(* record.  With a table that never changes this holds; M3_DESIGN.md 5.3   *)
(* claims it of every mode (I5: reads do not depend on Route).             *)
(***************************************************************************)
ReadsNewest == \A k \in Keys : Get(k) = NewestOf(wal \cup sst, k)

(***************************************************************************)
(* Under a table that does change, reads are exact as soon as no record    *)
(* and no index entry of another routing is left: the old table leaves no  *)
(* trace that misleads a read.                                             *)
(***************************************************************************)
SettledReadsNewest ==
  (/\ \A r \in wal : r.part = Route(CurrentTable, r.key)
   /\ \A p \in Parts : \A i \in 1 .. Len(index[p]) :
        \A r \in index[p][i].recs : r.part = p) => ReadsNewest

(***************************************************************************)
(* A learned table splits its samples evenly: when the sampled keys are    *)
(* distinct, no partition gets two samples more than another.              *)
(***************************************************************************)
LearnedIsBalanced ==
  LET Share(p) == Cardinality({i \in 1 .. Len(samples) :
                                 Route(CurrentTable, samples[i]) = p})
  IN  mode = "Sampled" /\ Len(tables) > opened /\ IsInjective(samples) =>
        \A p, q \in Parts : Share(p) <= Share(q) + 1
=============================================================================
