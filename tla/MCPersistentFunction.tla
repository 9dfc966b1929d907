------------------------ MODULE MCPersistentFunction ------------------------
EXTENDS PersistentFunction, TLC

CONSTANTS k1, k2, k3

(* All keys are of code 1; a program of code 2 purges them.                *)
Coded == [k \in Keys |-> 1]
Ranked == k1 :> 1 @@ k2 :> 2 @@ k3 :> 3

SizesMix == {-1, 1, 2, 3}

(* Two that fit next to one without a size; one too large for the bound of *)
(* today; three that do not fit together.                                  *)
Old(size) == [val |-> NoValue, deps |-> 0, expires |-> 1, size |-> size, gen |-> 1]
OldStores ==
    {k1 :> Old(-1) @@ k2 :> Old(1) @@ k3 :> Old(1),
     k1 :> Old(1) @@ k2 :> Old(3) @@ k3 :> NoEntry,
     k1 :> Old(1) @@ k2 :> Old(2) @@ k3 :> Old(1)}
=============================================================================
