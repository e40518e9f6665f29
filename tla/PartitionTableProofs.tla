------------------------- MODULE PartitionTableProofs -------------------------
(***************************************************************************)
(* The range tables partition the key space: for every table Create        *)
(* accepts, of any size, each key belongs to the range of exactly the      *)
(* partition Route sends it to.                                            *)
(***************************************************************************)
EXTENDS PartitionTable, TLAPS, WellFoundedInduction

\* A non-empty set of naturals has a least element.
LEMMA LeastExists ==
  ASSUME NEW T, T \subseteq Nat, T # {}
  PROVE  \E x \in T : \A y \in T : x <= y
PROOF
<1>1. PICK x \in T : \A y \in T : ~ (<<y, x>> \in OpToRel(<, Nat))
  BY NatLessThanWellFounded, WFMin
<1>2. \A y \in T : ~ (y < x)
  BY <1>1, Zenon DEF OpToRel
<1> QED
  BY <1>2

\* Strictly ascending means ascending between any two boundaries.  (Induction
\* on the distance is replaced by a least counterexample.)
LEMMA AscendingPairs ==
  ASSUME NEW b \in Seq(Nat), Ascending(b), NEW i \in 1 .. Len(b)
  PROVE  \A j \in i + 1 .. Len(b) : b[i] < b[j]
PROOF
<1> DEFINE Wrong == {j \in i + 1 .. Len(b) : ~ (b[i] < b[j])}
<1> SUFFICES ASSUME Wrong # {} PROVE FALSE
  OBVIOUS
<1>1. Wrong \subseteq Nat
  OBVIOUS
<1>2. PICK j \in Wrong : \A m \in Wrong : j <= m
  BY <1>1, LeastExists, Zenon
<1>3. j \in i + 1 .. Len(b) /\ ~ (b[i] < b[j])
  OBVIOUS
<1>4. j - 1 \in 1 .. Len(b) - 1 /\ b[j - 1] < b[j]
  BY <1>3 DEF Ascending
<1>5. j - 1 \notin Wrong
  BY <1>2, <1>3
<1>6. b[i] < b[j - 1] \/ j - 1 = i
  BY <1>3, <1>4, <1>5
<1> HIDE DEF Wrong
<1>7. \A m \in 1 .. Len(b) : b[m] \in Nat
  OBVIOUS
<1>8. b[i] \in Nat /\ b[j] \in Nat /\ b[j - 1] \in Nat
  BY <1>3, <1>4, <1>7
<1> QED
  BY <1>3, <1>4, <1>6, <1>8

\* upper_bound finds a partition of the table, with every boundary at or
\* before it no larger than the key and the next one larger.
LEMMA UpperBoundSpec ==
  ASSUME NEW b \in Seq(Nat), NEW k \in Nat
  PROVE  LET r == UpperBound(b, k)
         IN  /\ r \in 0 .. Len(b)
             /\ r < Len(b) => k < b[r + 1]
             /\ \A j \in 1 .. r : b[j] <= k
PROOF
<1> DEFINE Above == {j \in 1 .. Len(b) : k < b[j]} \cup {Len(b) + 1}
           Is(i) == /\ i <= Len(b) => k < b[i]
                    /\ \A j \in 1 .. Len(b) : k < b[j] => i <= j
<1>1. Above \subseteq Nat /\ Above # {}
  OBVIOUS
<1>2. PICK m \in Above : \A y \in Above : m <= y
  BY <1>1, LeastExists, Zenon
<1>3. m \in 1 .. Len(b) + 1 /\ Is(m)
  BY <1>2
<1>4. \E i \in 1 .. Len(b) + 1 : Is(i)
  BY <1>3
<1>5. PICK i \in 1 .. Len(b) + 1 : Is(i) /\ UpperBound(b, k) = i - 1
  BY <1>4, Zenon DEF UpperBound
<1>6. \A j \in 1 .. i - 1 : b[j] <= k
  <2> SUFFICES ASSUME NEW j \in 1 .. i - 1 PROVE b[j] <= k
    OBVIOUS
  <2>1. j \in 1 .. Len(b) /\ b[j] \in Nat
    OBVIOUS
  <2> QED
    BY <1>5, <2>1
<1> QED
  BY <1>5, <1>6

\* PartitionTable::Route and RangeOf agree: for every range table that Create
\* accepts a key lies in the range of the partition it is routed to, the
\* materialize job's range assertion included.
THEOREM RouteInRange ==
  ASSUME NEW b \in Seq(Nat), Ascending(b), NEW k \in Nat
  PROVE  LET r == Route(RangeTable(b), k)
         IN  r \in 0 .. Partitions(RangeTable(b)) - 1 /\ InRangeOf(b, r, k)
PROOF
<1> DEFINE r == UpperBound(b, k)
<1>1. Route(RangeTable(b), k) = r /\ Partitions(RangeTable(b)) = Len(b) + 1
  BY DEF Route, RangeTable, Partitions
<1>2. r \in 0 .. Len(b) /\ (r < Len(b) => k < b[r + 1]) /\ \A j \in 1 .. r : b[j] <= k
  BY UpperBoundSpec
<1> HIDE DEF r
<1> QED
  BY <1>1, <1>2 DEF InRangeOf

\* No key lies in the ranges of two partitions, so the outputs of an epoch
\* routed by one range table do not overlap (invariant I6 of the design).
THEOREM RangesDisjoint ==
  ASSUME NEW b \in Seq(Nat), Ascending(b), NEW k \in Nat,
         NEW p \in 0 .. Len(b), NEW q \in 0 .. Len(b),
         InRangeOf(b, p, k), InRangeOf(b, q, k)
  PROVE  p = q
PROOF
<1>1. ASSUME NEW u \in 0 .. Len(b), NEW v \in 0 .. Len(b), u < v,
             InRangeOf(b, u, k), InRangeOf(b, v, k)
      PROVE  FALSE
  <2>1. k < b[u + 1] /\ b[v] <= k
    BY <1>1 DEF InRangeOf
  <2>2. u + 1 \in 1 .. Len(b) /\ v \in 1 .. Len(b)
    BY <1>1
  <2>3. b[u + 1] \in Nat /\ b[v] \in Nat
    BY <2>2
  <2>4. CASE u + 1 = v
    BY <2>1, <2>3, <2>4
  <2>5. CASE u + 1 < v
    <3>1. b[u + 1] < b[v]
      BY <2>2, <2>5, AscendingPairs
    <3> QED
      BY <2>1, <2>3, <3>1
  <2> QED
    BY <1>1, <2>4, <2>5
<1> QED
  BY <1>1
==============================================================================
