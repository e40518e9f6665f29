---------------------------- MODULE PartitionTable ----------------------------
(***************************************************************************)
(* The routing table of a ZeroFlush database as a pure function: range     *)
(* tables with P - 1 ascending boundary keys, hash tables, and the two     *)
(* ways of computing boundaries, quantiles of sampled keys and the file    *)
(* boundaries of level 1.  User keys are natural numbers in the order of   *)
(* the user comparator.                                                    *)
(***************************************************************************)
EXTENDS Integers, Sequences, FiniteSets

CONSTANT P      \* ZeroFlushOptions::partitions

ASSUME TableAssumption == P \in Nat \ {0}

HashTable == [hash |-> TRUE, bounds |-> <<>>]

RangeTable(b) == [hash |-> FALSE, bounds |-> b]

\* What PartitionTable::Create accepts: strictly ascending boundaries.
Ascending(b) == \A i \in 1 .. Len(b) - 1 : b[i] < b[i + 1]

Partitions(t) == IF t.hash THEN P ELSE Len(t.bounds) + 1

RouteLowerBound(b, k) ==
  (CHOOSE i \in 1 .. Len(b) + 1 :
     /\ i <= Len(b) => k <= b[i]
     /\ \A j \in 1 .. Len(b) : k <= b[j] => i <= j) - 1

\* std::upper_bound: the number of the first boundary above k, counted from
\* 0, or the number of boundaries when there is none.
UpperBound(b, k) ==
  (CHOOSE i \in 1 .. Len(b) + 1 :
     /\ i <= Len(b) => k < b[i]
     /\ \A j \in 1 .. Len(b) : k < b[j] => i <= j) - 1

\* rocksdb::Hash, of which only the residue matters.
HashOf(k) == k % P

Route(t, k) == IF t.hash THEN HashOf(k) ELSE UpperBound(t.bounds, k)

\* RangeOf(p) is [lo, hi), with an empty slice for no bound on that side.
InRangeOf(b, p, k) ==
  /\ p > 0 => b[p] <= k
  /\ p < Len(b) => k < b[p + 1]

-----------------------------------------------------------------------------
\* The element at 0-based position i of the sorted samples.
Nth(s, i) ==
  CHOOSE v \in {s[j] : j \in 1 .. Len(s)} :
    /\ Cardinality({j \in 1 .. Len(s) : s[j] < v}) <= i
    /\ i < Cardinality({j \in 1 .. Len(s) : s[j] <= v})

QuantilesFromZero(s) ==
  [i \in 1 .. P - 1 |-> Nth(s, ((i - 1) * Len(s)) \div P)]

\* KeySampler::BuildBoundaries, the P - 1 quantiles of the samples.
Quantiles(s) == [i \in 1 .. P - 1 |-> Nth(s, (i * Len(s)) \div P)]

EnoughSamples(s) == P <= 1 \/ Len(s) >= P

\* BuildL1AlignedTable: the boundary of a bucket is the largest key of its
\* last file.  With at most P files each file is a bucket; with more, files
\* are accumulated until they hold the P-th part of the bytes.  closed is
\* the set of files that end a bucket; the last file never does.
BucketEnds(files) ==
  LET n      == Len(files)
      Size(i, j) == LET S[m \in i .. j] ==
                          IF m = i THEN files[m].size ELSE S[m - 1] + files[m].size
                    IN  S[j]
      share  == Size(1, n) \div P
      Last(E) == CHOOSE m \in E \cup {0} : \A e \in E : e <= m
      Ends[m \in 0 .. n] ==
        IF m = 0 THEN {}
        ELSE LET E == Ends[m - 1]
             IN  IF /\ Size(Last(E) + 1, m) >= share
                    /\ m < n
                    /\ Cardinality(E) + 1 < P
                 THEN E \cup {m} ELSE E
  IN  IF P >= n THEN 1 .. n - 1 ELSE Ends[n]

L1Boundaries(files) ==
  LET ends == BucketEnds(files)
      Rank(m) == Cardinality({e \in ends : e <= m})
  IN  [i \in 1 .. Cardinality(ends) |->
         files[CHOOSE m \in ends : Rank(m) = i].large]
==============================================================================
