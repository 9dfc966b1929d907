---------------------------- MODULE MCMemoryStore ---------------------------
(* Two functions of one key each that share the store.                     *)
EXTENDS MemoryStore, TLC

CONSTANTS k1, k2, n1, n2
TwoNamespaces == k1 :> n1 @@ k2 :> n2
=============================================================================
