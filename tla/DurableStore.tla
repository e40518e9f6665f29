---------------------------- MODULE DurableStore ----------------------------
(***************************************************************************)
(* What a ZeroFlush database promises about durability, without log files, *)
(* epochs, memtables or SSTs: per partition the set of versions of its hot *)
(* key that a crash cannot take away.  A write adds one newer version; no  *)
(* other step, a crash included, changes anything.                         *)
(***************************************************************************)
EXTENDS Integers

CONSTANTS Parts, Gens

VARIABLE store

Init == store = [p \in Parts |-> {}]

Put(p, g) ==
  /\ \A h \in store[p] : h < g
  /\ store' = [store EXCEPT ![p] = @ \cup {g}]

Next == \E p \in Parts, g \in Gens : Put(p, g)

Spec == Init /\ [][Next]_store
=============================================================================
