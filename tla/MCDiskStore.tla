---------------------------- MODULE MCDiskStore -----------------------------
(* One namespace per key, so that a clear of one spares the other.         *)
EXTENDS DiskStore, TLC

CONSTANTS k1, k2, n1, n2
TwoNamespaces == k1 :> n1 @@ k2 :> n2

(* Each namespace has one key: the two swap together.                      *)
Swap == k1 :> k2 @@ k2 :> k1 @@ n1 :> n2 @@ n2 :> n1
Symmetry == Permutations(Procs) \union {p @@ Swap : p \in Permutations(Procs)}
=============================================================================
