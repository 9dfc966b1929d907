----------------------- MODULE PersistentFunctionProof -----------------------
(***************************************************************************)
(* Proofs about PersistentFunction, for any threads, keys, codes, sizes and*)
(* bounds, any faults and any left-overs of an earlier program.  Parts 1 to*)
(* 4 assume nothing but what the modules assume of their constants; the    *)
(* theorems of Parts 5 and 6 name what they assume besides.                *)
(*                                                                         *)
(* Part 1: the entries that have a size can be listed by age, and ByAge    *)
(* lists them.                                                             *)
(*                                                                         *)
(* Part 2: the loop of _rehydrate_budget.  Its recursion has a solution,   *)
(* and after each row the budget tracks as many of the newest rows so far  *)
(* as fit together.                                                        *)
(*                                                                         *)
(* Part 3: types, locks, registries and the budget are kept while the      *)
(* program runs, stops, is edited and is decorated again.                  *)
(*                                                                         *)
(* Part 4: the budget lists its keys in the order of their last use, so it *)
(* evicts the least recently used, also after a restart.                   *)
(*                                                                         *)
(* Part 5: with one caller, and registries with room for every key, the    *)
(* books balance: each entry that has a size is tracked by the budget, to  *)
(* be evicted by the caller, in the ledger or a left-over of decoration,   *)
(* and what the budget dropped is gone, or on its way out.                 *)
(*                                                                         *)
(* Part 6: with one caller, and a wall clock that does not step back where *)
(* a ttl= is given, a call is counted as explain() foretold it, and what   *)
(* was given up is not served, except a quarantined key after a restart.   *)
(***************************************************************************)
EXTENDS PersistentFunction, CachedFunctionStoreProof

-----------------------------------------------------------------------------
(* Part 1: entries by age.                                                 *)
StoreTyped ==
    /\ store \in [Keys -> Entries \union {NoEntry}]
    /\ \A k \in Present : store[k].size \in Nat \union {NoSize}

(* OlderThan is a strict order, and total on what is stored.               *)
LEMMA AgeIsAnOrder ==
    ASSUME StoreTyped
    PROVE  /\ \A j \in Present : ~ OlderThan(j, j)
           /\ \A i, j, k \in Present : OlderThan(i, j) /\ OlderThan(j, k) => OlderThan(i, k)
           /\ \A j, k \in Present : j = k \/ OlderThan(j, k) \/ OlderThan(k, j)
<1>1. ASSUME NEW j \in Present PROVE j \in Keys /\ store[j].expires \in Nat /\ Rank[j] \in Nat
    BY PersistenceAssumption DEF StoreTyped, Present, Entries
<1>2. \A j, k \in Present : Rank[j] = Rank[k] => j = k
    BY PersistenceAssumption DEF Present
<1> QED BY <1>1, <1>2 DEF OlderThan

LEMMA SizedIsFinite ==
    ASSUME StoreTyped
    PROVE  /\ IsFiniteSet(Keys) /\ IsFiniteSet(Present) /\ IsFiniteSet(Sized)
           /\ Sized \subseteq Present /\ Present \subseteq Keys
           /\ \A k \in Sized : store[k].size \in Nat
<1>1. IsFiniteSet(Keys) /\ Present \subseteq Keys /\ Sized \subseteq Present
    BY PersistenceAssumption DEF Present, Ours, Sized
<1>2. \A k \in Sized : store[k].size \in Nat
    BY DEF StoreTyped, Ours, Sized
<1> QED BY <1>1, <1>2, FS_Subset

(* Of any entries one is the newest, so they can be listed by age.         *)
LEMMA NewestExists ==
    ASSUME StoreTyped, NEW U \in SUBSET Present, U # {}
    PROVE  \E x \in U : \A y \in U \ {x} : OlderThan(y, x)
<1> DEFINE T == {u \in SUBSET Present : u # {} => \E x \in u : \A y \in u \ {x} : OlderThan(y, x)}
<1>1. {} \in T
    OBVIOUS
<1>2. ASSUME NEW u \in SUBSET Present, u # {}, \A x \in u : u \ {x} \in T PROVE u \in T
  <2>1. PICK a \in u : TRUE
    BY <1>2
  <2>2. CASE u \ {a} = {}
    BY <2>1, <2>2
  <2>3. CASE u \ {a} # {}
    <3>1. PICK x \in u \ {a} : \A y \in (u \ {a}) \ {x} : OlderThan(y, x)
        BY <1>2, <2>1, <2>3
    <3>2. CASE OlderThan(a, x)
        BY <3>1, <3>2
    <3>3. CASE OlderThan(x, a)
        BY <2>1, <3>1, <3>3, AgeIsAnOrder
    <3> QED BY <2>1, <3>1, <3>2, <3>3, AgeIsAnOrder
  <2> QED BY <2>2, <2>3
<1> HIDE DEF T
<1>3. SUBSET Present \subseteq T
    BY <1>1, <1>2, SizedIsFinite, SubsetInduction
<1> QED BY <1>3 DEF T

Lists(f, U) ==
    /\ f \in [1 .. Cardinality(U) -> U]
    /\ \A i, j \in 1 .. Cardinality(U) : i < j => OlderThan(f[i], f[j])

LEMMA ListExists ==
    ASSUME StoreTyped, NEW U \in SUBSET Present
    PROVE  \E f : Lists(f, U)
<1> DEFINE T == {u \in SUBSET Present : \E f : Lists(f, u)}
<1>1. {} \in T
  <2> DEFINE f == [i \in 1 .. 0 |-> i]
  <2>1. Lists(f, {})
    BY FS_EmptySet DEF Lists
  <2> QED BY <2>1
<1>2. ASSUME NEW u \in SUBSET Present, u # {}, \A x \in u : u \ {x} \in T PROVE u \in T
  <2>1. PICK x \in u : \A y \in u \ {x} : OlderThan(y, x)
    BY <1>2, NewestExists
  <2>2. PICK g : Lists(g, u \ {x})
    BY <1>2
  <2> DEFINE n == Cardinality(u)
             f == [i \in 1 .. n |-> IF i = n THEN x ELSE g[i]]
  <2>3. n \in Nat /\ n >= 1 /\ Cardinality(u \ {x}) = n - 1
    <3>1. IsFiniteSet(u)
        BY SizedIsFinite, FS_Subset
    <3>2. n \in Nat /\ n # 0
        BY <1>2, <3>1, FS_CardinalityType, FS_EmptySet
    <3>3. Cardinality(u \ {x}) = n - 1
        BY <2>1, <3>1, FS_RemoveElement
    <3> QED BY <3>2, <3>3
  <2> HIDE DEF n
  <2>0. /\ g \in [1 .. n - 1 -> u \ {x}]
        /\ \A i, j \in 1 .. n - 1 : i < j => OlderThan(g[i], g[j])
    BY <2>2, <2>3 DEF Lists
  <2>4. ASSUME NEW i \in 1 .. n, i # n
        PROVE  i \in 1 .. n - 1 /\ g[i] \in u \ {x} /\ f[i] = g[i]
    BY <2>0, <2>3, <2>4
  <2>5. f \in [1 .. n -> u]
    BY <2>3, <2>4
  <2>6. ASSUME NEW i \in 1 .. n, NEW j \in 1 .. n, i < j PROVE OlderThan(f[i], f[j])
    <3>1. i # n /\ i \in 1 .. n - 1
        BY <2>3, <2>6
    <3>2. CASE j = n
        BY <2>1, <2>4, <3>1, <3>2
    <3>3. CASE j # n
        BY <2>0, <2>4, <2>6, <3>1, <3>3
    <3> QED BY <3>2, <3>3
  <2>7. Lists(f, u)
    BY <2>5, <2>6 DEF Lists, n
  <2> HIDE DEF f
  <2> QED BY <2>7
<1> HIDE DEF T
<1>3. SUBSET Present \subseteq T
    BY <1>1, <1>2, SizedIsFinite, SubsetInduction
<1> QED BY <1>3 DEF T

(* ByAge lists the sized entries, each once, from the oldest to the newest.*)
LEMMA ByAgeLists ==
    ASSUME StoreTyped
    PROVE  /\ ByAge \in Seq(Sized) /\ Len(ByAge) \in Nat /\ DOMAIN ByAge = 1 .. Len(ByAge)
           /\ \A i, j \in 1 .. Len(ByAge) : i < j => OlderThan(ByAge[i], ByAge[j])
           /\ \A i, j \in 1 .. Len(ByAge) : ByAge[i] = ByAge[j] => i = j
           /\ {ByAge[i] : i \in 1 .. Len(ByAge)} = Sized
<1> DEFINE n == Cardinality(Sized)
           Sorted(f) == \A i, j \in DOMAIN f : i < j => OlderThan(f[i], f[j])
<1>1. n \in Nat
    BY SizedIsFinite, FS_CardinalityType
<1>2. \E f \in [1 .. n -> Sized] : Sorted(f)
  <2>1. PICK f : Lists(f, Sized)
    BY SizedIsFinite, ListExists
  <2> QED BY <2>1 DEF Lists
<1>3. ByAge = CHOOSE f \in [1 .. n -> Sized] : Sorted(f)
    BY DEF ByAge
<1>4. ByAge \in [1 .. n -> Sized] /\ Sorted(ByAge)
  <2> HIDE DEF n, Sorted
  <2> QED BY <1>2, <1>3
<1> HIDE DEF n
<1>5. ByAge \in Seq(Sized) /\ Len(ByAge) = n /\ DOMAIN ByAge = 1 .. n
    BY <1>1, <1>4
<1>6. \A i, j \in 1 .. n : i < j => OlderThan(ByAge[i], ByAge[j])
    BY <1>4, <1>5
<1>7. ASSUME NEW i \in 1 .. n, NEW j \in 1 .. n, ByAge[i] = ByAge[j] PROVE i = j
  <2>1. ByAge[i] \in Present
    BY <1>4, SizedIsFinite
  <2>2. ~ OlderThan(ByAge[i], ByAge[i])
    BY <2>1, AgeIsAnOrder
  <2> QED BY <1>1, <1>6, <1>7, <2>2
<1>8. {ByAge[i] : i \in 1 .. n} = Sized
  <2>1. ByAge \in Injection(1 .. n, Sized)
    BY <1>4, <1>7 DEF Injection, IsInjective
  <2>2. Cardinality(1 .. n) = n
    BY <1>1, FS_Interval
  <2>3. ByAge \in Surjection(1 .. n, Sized)
    BY <2>1, <2>2, SizedIsFinite, FS_Injection DEF n
  <2> QED BY <1>4, <2>3 DEF Surjection
<1> QED BY <1>1, <1>5, <1>6, <1>7, <1>8

-----------------------------------------------------------------------------
(* Part 2: the loop of _rehydrate_budget.                                  *)
LEMMA SumGrows ==
    ASSUME NEW S, IsFiniteSet(S), NEW f, \A x \in S : f[x] \in Nat, NEW U \in SUBSET S
    PROVE  SumFunctionOnSet(f, U) <= SumFunctionOnSet(f, S)
<1>1. SumFunctionOnSet(f, S) = SumFunctionOnSet(f, S \cap U) + SumFunctionOnSet(f, S \ U)
  <2>1. \A x \in S : f[x] \in Int
    OBVIOUS
  <2>2. \A P : SumFunctionOnSet(f, S) = SumFunctionOnSet(f, S \cap P) + SumFunctionOnSet(f, S \ P)
    BY <2>1, SumSplits
  <2> QED BY <2>2
<1>2. S \cap U = U /\ IsFiniteSet(U) /\ IsFiniteSet(S \ U)
    BY FS_Subset
<1>3. SumFunctionOnSet(f, U) \in Nat /\ SumFunctionOnSet(f, S \ U) \in Nat
    BY <1>2, SumIsNat
<1>4. SumFunctionOnSet(f, S) = SumFunctionOnSet(f, U) + SumFunctionOnSet(f, S \ U)
    BY <1>1, <1>2
<1> QED BY <1>3, <1>4

(* The sizes of stored entries add up.                                     *)
LEMMA SizesAddUp ==
    ASSUME StoreTyped
    PROVE  /\ \A S \in SUBSET Sized : SizesOf(S) \in Nat
           /\ \A S \in SUBSET Sized : \A U \in SUBSET S : SizesOf(U) <= SizesOf(S)
           /\ \A S \in SUBSET Sized, k \in Sized : k \notin S =>
                SizesOf(S \union {k}) = SizesOf(S) + store[k].size
<1> DEFINE f == [k \in Keys |-> store[k].size]
<1>0. /\ IsFiniteSet(Sized) /\ Sized \subseteq Keys
      /\ \A k \in Sized : f[k] \in Nat /\ f[k] = store[k].size
    BY SizedIsFinite
<1>1. ASSUME NEW S \in SUBSET Sized
      PROVE  IsFiniteSet(S) /\ SizesOf(S) = SumFunctionOnSet(f, S)
  <2> DEFINE g == [k \in S |-> store[k].size]
  <2>1. SizesOf(S) = SumFunctionOnSet(g, S)
    BY DEF SizesOf, SumFunction
  <2>2. IsFiniteSet(S)
    BY <1>0, FS_Subset
  <2>3. \A k \in S : g[k] \in Int /\ g[k] = f[k]
    BY <1>0
  <2> HIDE DEF f, g
  <2>4. SumFunctionOnSet(g, S) = SumFunctionOnSet(f, S)
    BY <2>2, <2>3, SumAgrees
  <2> QED BY <2>1, <2>2, <2>4
<1> HIDE DEF f
<1>2. ASSUME NEW S \in SUBSET Sized PROVE SizesOf(S) \in Nat
    BY <1>0, <1>1, SumIsNat
<1>3. ASSUME NEW S \in SUBSET Sized, NEW U \in SUBSET S PROVE SizesOf(U) <= SizesOf(S)
  <2>1. SumFunctionOnSet(f, U) <= SumFunctionOnSet(f, S)
    BY <1>0, <1>1, SumGrows
  <2> QED BY <1>1, <2>1
<1>4. ASSUME NEW S \in SUBSET Sized, NEW k \in Sized, k \notin S
      PROVE  SizesOf(S \union {k}) = SizesOf(S) + store[k].size
  <2> DEFINE U == S \union {k}
  <2>1. U \in SUBSET Sized /\ k \in U /\ U \ {k} = S
    BY <1>4
  <2> HIDE DEF U
  <2>2. SumFunctionOnSet(f, U) = f[k] + SumFunctionOnSet(f, U \ {k})
    <3>1. \A x \in U : f[x] \in Int
        BY <1>0, <2>1
    <3> QED BY <1>1, <2>1, <3>1, SumRemoves
  <2>3. SizesOf(U) = store[k].size + SizesOf(S)
    BY <1>0, <1>1, <2>1, <2>2
  <2>4. SizesOf(S) \in Nat /\ store[k].size \in Nat
    BY <1>0, <1>2
  <2>5. SizesOf(U) = SizesOf(S) + store[k].size
    BY <2>3, <2>4
  <2> QED BY <2>5 DEF U
<1> QED BY <1>2, <1>3, <1>4

(* The rows that are done with after n rounds, those of them that fit, and *)
(* one of these with the newer ones.                                       *)
Done(n) == {ByAge[i] : i \in 1 .. n}
FittingIn(n) == {k \in Done(n) : Fits(store[k].size)}
AndNewer(k, F) == {j \in F : j = k \/ OlderThan(k, j)}

(* After n rounds the budget tracks, in the order of their age, as many of *)
(* the newest that fit as fit together.                                    *)
KeepsNewest(n, b) ==
    /\ WellKept(b, Keys)
    /\ Tracked(b) \subseteq FittingIn(n)
    /\ \A k \in Tracked(b) : SizeOf(b, k) = store[k].size
    /\ \A a, c : OlderIn(b, a, c) => OlderThan(a, c)
    /\ \A k \in Tracked(b), j \in FittingIn(n) : OlderThan(k, j) => j \in Tracked(b)
    /\ \A k \in FittingIn(n) \ Tracked(b) : SizesOf(AndNewer(k, FittingIn(n))) > MaxBytes

LEMMA NextRow ==
    ASSUME StoreTyped, NEW n \in Nat, n + 1 <= Len(ByAge)
    PROVE  /\ ByAge[n + 1] \in Sized /\ ByAge[n + 1] \notin Done(n) /\ Done(n) \subseteq Sized
           /\ Done(n + 1) = Done(n) \union {ByAge[n + 1]}
           /\ \A j \in Done(n) : OlderThan(j, ByAge[n + 1])
<1>1. /\ n + 1 \in 1 .. Len(ByAge) /\ 1 .. n \subseteq 1 .. Len(ByAge)
      /\ 1 .. n + 1 = (1 .. n) \union {n + 1} /\ \A i \in 1 .. n : i < n + 1
    BY ByAgeLists
<1>2. \A i \in 1 .. Len(ByAge) : ByAge[i] \in Sized
    BY ByAgeLists
<1>3. \A i \in 1 .. n : OlderThan(ByAge[i], ByAge[n + 1])
    BY <1>1, ByAgeLists
<1>4. \A i \in 1 .. n : ByAge[i] # ByAge[n + 1]
    BY <1>1, ByAgeLists
<1> QED BY <1>1, <1>2, <1>3, <1>4 DEF Done

LEMMA SkippedRow ==
    ASSUME StoreTyped, NEW n \in Nat, n + 1 <= Len(ByAge), ~ Fits(store[ByAge[n + 1]].size),
           NEW b, KeepsNewest(n, b)
    PROVE  KeepsNewest(n + 1, b)
<1>1. FittingIn(n + 1) = FittingIn(n)
    BY NextRow DEF FittingIn
<1> QED BY <1>1 DEF KeepsNewest

LEMMA AdmittedRow ==
    ASSUME StoreTyped, NEW n \in Nat, n + 1 <= Len(ByAge), Fits(store[ByAge[n + 1]].size),
           NEW b, KeepsNewest(n, b)
    PROVE  KeepsNewest(n + 1, Admit(b, ByAge[n + 1], store[ByAge[n + 1]].size).budget)
<1> DEFINE k == ByAge[n + 1]
           size == store[k].size
           after == Admit(b, k, size).budget
           evicted == Admit(b, k, size).evicted
           E == Members(evicted)
           F == FittingIn(n)
           G == FittingIn(n + 1)
<1>1. /\ k \in Sized /\ k \notin Done(n) /\ Done(n) \subseteq Sized
      /\ \A j \in Done(n) : OlderThan(j, k)
    BY NextRow
<1>2. G = F \union {k} /\ F \subseteq Done(n) /\ G \subseteq Sized
    BY NextRow DEF FittingIn
<1>3. size \in Nat /\ size <= MaxBytes /\ k \in Keys
    BY <1>1, SizedIsFinite DEF Fits
<1>4. /\ Tracked(b) \subseteq F
      /\ \A j \in Tracked(b) : SizeOf(b, j) = store[j].size
      /\ \A a, c : OlderIn(b, a, c) => OlderThan(a, c)
      /\ \A i \in Tracked(b), j \in F : OlderThan(i, j) => j \in Tracked(b)
      /\ \A i \in F \ Tracked(b) : SizesOf(AndNewer(i, F)) > MaxBytes
      /\ WellKept(b, Keys) /\ Consistent(b, Keys)
    BY DEF KeepsNewest, WellKept
<1>5. Admits(b, k, size, after, evicted) /\ size = store[k].size
    BY DEF Admits
<1>6. /\ \A j \in Done(n) : ~ OlderThan(k, j) /\ j \in Present
      /\ k \in Present
      /\ \A i, j \in Done(n) : ~ (OlderThan(i, j) /\ OlderThan(j, i))
  <2>1. k \in Present /\ Done(n) \subseteq Present
    BY <1>1, SizedIsFinite
  <2> QED BY <1>1, <2>1, AgeIsAnOrder
<1> HIDE DEF k, size, after, evicted, F, G
<1>7. /\ WellKept(after, Keys)
      /\ E \subseteq Tracked(b) \ {k}
      /\ Tracked(after) = (Tracked(b) \ E) \union {k}
      /\ SizeOf(after, k) = size
      /\ \A j \in Tracked(b) \ (E \union {k}) : SizeOf(after, j) = SizeOf(b, j)
    BY <1>3, <1>4, <1>5, AdmitIsWellKept
<1>8. /\ \A i, j \in DOMAIN evicted : i < j => OlderIn(b, evicted[i], evicted[j])
      /\ \A j \in E, s \in Tracked(b) \ (E \union {k}) : OlderIn(b, j, s)
      /\ \A p \in DOMAIN evicted :
            Bytes(b, (Tracked(b) \ {k}) \ {evicted[i] : i \in 1 .. p - 1}) + size > MaxBytes
      /\ \A a, c : OlderIn(after, a, c) =>
                \/ OlderIn(b, a, c) /\ a # k /\ c # k
                \/ c = k /\ a \in Tracked(b) \ {k}
    BY <1>3, <1>4, <1>5, AdmitEvictsTheOldest
<1>9. DOMAIN evicted \subseteq Nat
    BY <1>3, <1>4, <1>5, AdmitIsWellKept, LenProperties
<1>10. Tracked(after) \subseteq G
    BY <1>2, <1>4, <1>7
<1>11. ASSUME NEW j \in Tracked(after) PROVE SizeOf(after, j) = store[j].size
  <2>1. CASE j = k
    BY <1>5, <1>7, <2>1
  <2>2. CASE j # k
    BY <1>4, <1>7, <2>2
  <2> QED BY <2>1, <2>2
<1>12. ASSUME NEW a, NEW c, OlderIn(after, a, c) PROVE OlderThan(a, c)
    BY <1>1, <1>2, <1>4, <1>8, <1>12
<1>13. ASSUME NEW i \in Tracked(after), NEW j \in G, OlderThan(i, j) PROVE j \in Tracked(after)
  <2>1. CASE j = k
    BY <1>7, <2>1
  <2>2. CASE j # k
    <3>1. j \in F /\ i # k /\ i \in Tracked(b) \ E /\ i \in F
        BY <1>2, <1>4, <1>6, <1>7, <1>13, <2>2
    <3>2. j \in Tracked(b)
        BY <1>4, <1>13, <3>1
    <3>3. j \notin E
      <4>1. SUFFICES ASSUME j \in E PROVE FALSE
        OBVIOUS
      <4>2. OlderThan(j, i)
        BY <1>4, <1>8, <3>1, <4>1
      <4> QED BY <1>2, <1>6, <1>13, <3>1, <4>2
    <3> QED BY <1>7, <3>2, <3>3
  <2> QED BY <2>1, <2>2
<1>14. ASSUME NEW x \in G \ Tracked(after) PROVE SizesOf(AndNewer(x, G)) > MaxBytes
  <2>0. x \in F /\ x # k /\ AndNewer(x, G) \in SUBSET Sized /\ k \notin F
    BY <1>1, <1>2, <1>7, <1>14 DEF AndNewer
  <2>1. CASE x \notin Tracked(b)
    <3>1. AndNewer(x, F) \in SUBSET AndNewer(x, G)
        BY <1>2 DEF AndNewer
    <3>2. SizesOf(AndNewer(x, F)) <= SizesOf(AndNewer(x, G))
        BY <2>0, <3>1, SizesAddUp
    <3>3. SizesOf(AndNewer(x, F)) > MaxBytes
        BY <1>4, <2>0, <2>1
    <3>4. /\ SizesOf(AndNewer(x, F)) \in Nat /\ SizesOf(AndNewer(x, G)) \in Nat
          /\ MaxBytes \in Nat
        BY <2>0, <3>1, SizesAddUp, MaxBytesAssumption
    <3> QED BY <3>2, <3>3, <3>4
  <2>2. CASE x \in E
    <3>1. PICK p \in DOMAIN evicted : x = evicted[p]
        BY <2>2 DEF Members
    <3> DEFINE L == (Tracked(b) \ {k}) \ {evicted[i] : i \in 1 .. p - 1}
    <3>2. Bytes(b, L) + size > MaxBytes
        BY <1>8
    <3>3. L \subseteq Tracked(b) \ {k}
        OBVIOUS
    <3>4. ASSUME NEW j \in L PROVE j = x \/ OlderThan(x, j)
      <4>1. CASE j \in E
        <5>1. PICK q \in DOMAIN evicted : j = evicted[q]
            BY <4>1 DEF Members
        <5>2. DOMAIN evicted = 1 .. Len(evicted) /\ Len(evicted) \in Nat
            BY <1>3, <1>4, <1>5, AdmitIsWellKept, LenProperties
        <5>3. ~ (q < p)
            BY <5>1, <5>2
        <5>4. q = p \/ p < q
            BY <5>2, <5>3
        <5> QED BY <1>4, <1>8, <3>1, <5>1, <5>4
      <4>2. CASE j \notin E
        BY <1>4, <1>8, <2>2, <3>3, <4>2
      <4> QED BY <4>1, <4>2
    <3>5. Bytes(b, L) = SizesOf(L)
      <4> DEFINE f == [j \in L |-> SizeOf(b, j)]
                 g == [j \in L |-> store[j].size]
      <4>1. f = g
        BY <1>4, <3>3
      <4> HIDE DEF L
      <4> QED BY <4>1, Zenon DEF Bytes, SizesOf
    <3> HIDE DEF L
    <3>6. L \in SUBSET Sized /\ k \notin L
        BY <1>1, <1>2, <1>4, <3>3
    <3>7. SizesOf(L \union {k}) = SizesOf(L) + size /\ SizesOf(L \union {k}) \in Nat
      <4>1. L \union {k} \in SUBSET Sized
        BY <1>1, <3>6
      <4> QED BY <1>1, <1>5, <3>6, <4>1, SizesAddUp
    <3>8. L \union {k} \in SUBSET AndNewer(x, G)
        BY <1>1, <1>2, <1>4, <2>0, <3>3, <3>4 DEF AndNewer
    <3>9. SizesOf(L \union {k}) <= SizesOf(AndNewer(x, G)) /\ SizesOf(AndNewer(x, G)) \in Nat
        BY <2>0, <3>8, SizesAddUp
    <3>10. SizesOf(L) \in Nat /\ MaxBytes \in Nat
        BY <3>6, SizesAddUp, MaxBytesAssumption
    <3> QED BY <1>3, <3>2, <3>5, <3>7, <3>9, <3>10
  <2> QED BY <1>7, <1>14, <2>0, <2>1, <2>2
<1>15. KeepsNewest(n + 1, after)
    BY <1>7, <1>10, <1>11, <1>12, <1>13, <1>14 DEF KeepsNewest, G
<1> QED BY <1>15 DEF k, size, after

(* The loop as a function: that its recursion has a solution is shown for  *)
(* every number of rounds.                                                 *)
Round(before, k) ==
    IF Fits(store[k].size)
    THEN [budget  |-> Admit(before.budget, k, store[k].size).budget,
          deleted |-> before.deleted \union Range(Admit(before.budget, k, store[k].size).evicted)]
    ELSE [before EXCEPT !.deleted = @ \union {k}]

Nothing == [budget |-> EmptyBudget, deleted |-> {}]

Loops(g, m) ==
    g = [n \in 0 .. m |-> IF n = 0 THEN Nothing ELSE Round(g[n - 1], ByAge[n])]

LEMMA LoopExists == \A m \in Nat : \E g : Loops(g, m)
<1> DEFINE T == {m \in Nat : \E g : Loops(g, m)}
<1>1. 0 \in T
  <2> DEFINE g == [n \in 0 .. 0 |-> Nothing]
  <2>1. g = [n \in 0 .. 0 |-> IF n = 0 THEN Nothing ELSE Round(g[n - 1], ByAge[n])]
    <3>1. \A n \in 0 .. 0 : n = 0
        OBVIOUS
    <3> QED BY <3>1
  <2> HIDE DEF g
  <2> QED BY <2>1 DEF Loops
<1>2. ASSUME NEW m \in Nat, m \in T PROVE m + 1 \in T
  <2>1. PICK g : Loops(g, m)
    BY <1>2
  <2> DEFINE h == [n \in 0 .. m + 1 |-> IF n = 0 THEN Nothing ELSE Round(g[n - 1], ByAge[n])]
  <2>2. \A n \in 0 .. m : n \in 0 .. m + 1 /\ h[n] = g[n]
    BY <2>1 DEF Loops
  <2>3. \A n \in 0 .. m + 1 : n # 0 => n - 1 \in 0 .. m
    BY <1>2
  <2>4. h = [n \in 0 .. m + 1 |-> IF n = 0 THEN Nothing ELSE Round(h[n - 1], ByAge[n])]
    BY <2>2, <2>3
  <2> HIDE DEF h
  <2> QED BY <2>4 DEF Loops
<1> HIDE DEF T
<1>3. Nat \subseteq T
    BY <1>1, <1>2, NatSetInduction
<1> QED BY <1>3 DEF T

LEMMA LoopUnfolds ==
    ASSUME StoreTyped
    PROVE  \A n \in 0 .. Len(ByAge) :
                Rehydrating[n] = IF n = 0 THEN Nothing ELSE Round(Rehydrating[n - 1], ByAge[n])
<1> DEFINE m == Len(ByAge)
           Def(g) ==
             g = [n \in 0 .. Len(ByAge) |->
                    IF n = 0 THEN [budget |-> EmptyBudget, deleted |-> {}]
                    ELSE LET before == g[n - 1]
                             k == ByAge[n]
                             admitted == Admit(before.budget, k, store[k].size)
                         IN  IF Fits(store[k].size)
                             THEN [budget |-> admitted.budget,
                                   deleted |-> before.deleted \union Range(admitted.evicted)]
                             ELSE [before EXCEPT !.deleted = @ \union {k}]]
<1>1. \A g : Loops(g, m) <=> Def(g)
    BY Zenon DEF Loops, Round, Nothing
<1>2. Rehydrating = CHOOSE g : Def(g)
    BY Zenon DEF Rehydrating
<1>3. \E g : Loops(g, m)
    BY LoopExists, ByAgeLists
<1> HIDE DEF Def, m
<1>4. Loops(Rehydrating, m)
    BY <1>1, <1>2, <1>3, Zenon
<1> QED BY <1>4 DEF Loops, m

LEMMA LoopKeepsNewest ==
    ASSUME StoreTyped
    PROVE  \A n \in 0 .. Len(ByAge) : KeepsNewest(n, Rehydrating[n].budget)
<1> DEFINE Pair(r) == r = [budget |-> r.budget, deleted |-> r.deleted]
           T == {n \in Nat : n <= Len(ByAge) =>
                    Pair(Rehydrating[n]) /\ KeepsNewest(n, Rehydrating[n].budget)}
<1>0. Len(ByAge) \in Nat
    BY ByAgeLists
<1>1. 0 \in T
  <2>1. Rehydrating[0].budget = EmptyBudget /\ Pair(Rehydrating[0])
    BY <1>0, LoopUnfolds DEF Nothing
  <2>2. Done(0) = {} /\ FittingIn(0) = {}
    BY DEF Done, FittingIn
  <2>3. EmptyBudget.lru = <<>>
    BY DEF EmptyBudget
  <2>4. Tracked(EmptyBudget) = {} /\ \A a, c : ~ OlderIn(EmptyBudget, a, c)
    BY <2>3 DEF Tracked, OlderIn
  <2> QED BY <2>1, <2>2, <2>4, EmptyIsWellKept DEF KeepsNewest
<1>2. ASSUME NEW n \in Nat, n \in T PROVE n + 1 \in T
  <2> SUFFICES ASSUME n + 1 <= Len(ByAge)
               PROVE  Pair(Rehydrating[n + 1]) /\ KeepsNewest(n + 1, Rehydrating[n + 1].budget)
    OBVIOUS
  <2> DEFINE before == Rehydrating[n]
             k == ByAge[n + 1]
  <2>1. KeepsNewest(n, before.budget) /\ Pair(before)
    BY <1>0, <1>2
  <2>2. Rehydrating[n + 1] = Round(before, k)
    <3>1. n + 1 \in 0 .. Len(ByAge) /\ n + 1 # 0 /\ (n + 1) - 1 = n
        BY <1>0
    <3> QED BY <3>1, LoopUnfolds
  <2>3. CASE Fits(store[k].size)
    <3>1. /\ Rehydrating[n + 1].budget = Admit(before.budget, k, store[k].size).budget
          /\ Pair(Rehydrating[n + 1])
        BY <2>2, <2>3 DEF Round
    <3> QED BY <2>1, <2>3, <3>1, AdmittedRow
  <2>4. CASE ~ Fits(store[k].size)
    <3>1. Rehydrating[n + 1] = [before EXCEPT !.deleted = @ \union {k}]
        BY <2>2, <2>4 DEF Round
    <3>2. Rehydrating[n + 1].budget = before.budget /\ Pair(Rehydrating[n + 1])
      <4> HIDE DEF before, k
      <4> QED BY <2>1, <3>1
    <3> QED BY <2>1, <2>4, <3>2, SkippedRow
  <2> QED BY <2>3, <2>4
<1> HIDE DEF T
<1>3. Nat \subseteq T
    BY <1>1, <1>2, NatSetInduction
<1> HIDE DEF Pair
<1>4. \A n \in 0 .. Len(ByAge) : n \in Nat /\ n <= Len(ByAge)
    BY <1>0
<1> QED BY <1>3, <1>4 DEF T

(* What is tracked in the end.                                             *)
LEMMA RehydratedTracks ==
    ASSUME StoreTyped
    PROVE  LET fitting == {k \in Sized : Fits(store[k].size)}
               b == Rehydrated.budget
           IN  /\ KeepsNewest(Len(ByAge), b)
               /\ Tracked(b) = {k \in fitting : Fits(SizesOf(AndNewer(k, fitting)))}
<1> DEFINE F == {k \in Sized : Fits(store[k].size)}
           b == Rehydrated.budget
<1>1. Len(ByAge) \in Nat /\ FittingIn(Len(ByAge)) = F
  <2>1. Done(Len(ByAge)) = Sized /\ Len(ByAge) \in Nat
    BY ByAgeLists DEF Done
  <2> QED BY <2>1 DEF FittingIn
<1>2. KeepsNewest(Len(ByAge), b)
    BY <1>1, LoopKeepsNewest DEF Rehydrated
<1> HIDE DEF b, F
<1>3. /\ WellKept(b, Keys) /\ Tracked(b) \subseteq F
      /\ \A k \in Tracked(b) : SizeOf(b, k) = store[k].size
      /\ \A k \in Tracked(b), j \in F : OlderThan(k, j) => j \in Tracked(b)
      /\ \A k \in F \ Tracked(b) : SizesOf(AndNewer(k, F)) > MaxBytes
    BY <1>1, <1>2 DEF KeepsNewest
<1>4. F \subseteq Sized /\ \A k \in F : AndNewer(k, F) \in SUBSET Sized
    BY DEF F, AndNewer
<1>5. SizesOf(Tracked(b)) = b.total /\ b.total <= MaxBytes
  <2>1. Weight(b) = Bytes(b, Tracked(b)) /\ b.total = Weight(b) /\ b.total <= MaxBytes
    BY <1>3, WeightIsBytes DEF WellKept, Consistent
  <2> DEFINE f == [j \in Tracked(b) |-> SizeOf(b, j)]
             g == [j \in Tracked(b) |-> store[j].size]
  <2>2. f = g
    BY <1>3
  <2>3. Bytes(b, Tracked(b)) = SizesOf(Tracked(b))
    BY <2>2, Zenon DEF Bytes, SizesOf
  <2> QED BY <2>1, <2>3
<1>6. ASSUME NEW k \in Tracked(b) PROVE k \in F /\ Fits(SizesOf(AndNewer(k, F)))
  <2>1. k \in F /\ AndNewer(k, F) \in SUBSET Tracked(b) /\ Tracked(b) \in SUBSET Sized
    BY <1>3, <1>4 DEF AndNewer
  <2>2. SizesOf(AndNewer(k, F)) <= SizesOf(Tracked(b)) /\ SizesOf(Tracked(b)) \in Nat
    BY <2>1, SizesAddUp
  <2>3. SizesOf(AndNewer(k, F)) \in Nat /\ MaxBytes \in Nat
    BY <1>4, <2>1, SizesAddUp, MaxBytesAssumption
  <2> QED BY <1>5, <2>1, <2>2, <2>3 DEF Fits
<1>7. ASSUME NEW k \in F, Fits(SizesOf(AndNewer(k, F))) PROVE k \in Tracked(b)
  <2>1. SizesOf(AndNewer(k, F)) \in Nat /\ MaxBytes \in Nat
    BY <1>4, SizesAddUp, MaxBytesAssumption
  <2>2. ~ (SizesOf(AndNewer(k, F)) > MaxBytes)
    BY <1>7, <2>1 DEF Fits
  <2> QED BY <1>3, <2>2
<1>8. Tracked(b) = {k \in F : Fits(SizesOf(AndNewer(k, F)))}
    BY <1>6, <1>7
<1> QED BY <1>2, <1>8 DEF F, b

-----------------------------------------------------------------------------
(* Part 3: what CachedFunction keeps, over stops and decorations.          *)
KeptInv == FlightInv /\ TypeInv /\ BudgetInv /\ StoreTyped

(* No step of the engine puts an entry with a negative size.               *)
PutsSizes ==
    \A k \in Keys : \/ store'[k] \in {store[k], NoEntry}
                    \/ store'[k].size \in Nat \union {NoSize}

LEMMA SizesStay ==
    ASSUME StoreTyped, store' \in [Keys -> Entries \union {NoEntry}], PutsSizes
    PROVE  StoreTyped'
BY DEF StoreTyped, PutsSizes, Present

LEMMA DeletePutsNothing ==
    ASSUME StoreTyped, NEW k \in Keys, DeleteTried(k)
    PROVE  PutsSizes
BY DEF StoreTyped, PutsSizes, DeleteTried, Deleted, DeleteRaises

LEMMA NextPutsSizes ==
    ASSUME KeptInv, [Next]_vars
    PROVE  PutsSizes
<1> USE DEF KeptInv, FlightInv, FlightTypes, DeleteTried
<1>0. UNCHANGED store => PutsSizes
    BY DEF PutsSizes
<1>1. ASSUME NEW n, n \in Storable \/ n \in Sizes PROVE n \in Nat \union {NoSize}
    BY <1>1, PersistenceAssumption DEF Storable
<1>2. ASSUME NEW t \in Threads, NEW value, NEW deps, NEW now, NEW n \in Nat \union {NoSize},
             StorePut(key[t], EntryOf(key[t], value, deps, now, n))
      PROVE  PutsSizes
    BY <1>2 DEF StorePut, EntryOf, PutsSizes, StoreTyped
<1>3. ASSUME NEW t \in Threads, Start(t) \/ CallStep(t) PROVE PutsSizes
  <2>1. CASE RetryDelete(t) \/ DeleteStale(t)
    BY <2>1, DeletePutsNothing DEF RetryDelete, DeleteStale
  <2> QED BY <1>0, <1>3, <2>1
          DEF Start, StartCall, StartInvalidate, StartProfile, StartClear, CallStep, EnterFlight,
              Lookup, JudgeFast, JudgeLocked, ClassifyPending, ClassifyStale, ClassifyAbsent,
              MissInvalidated, LabelStale, RunReturns, RunRaises, Return
<1>4. ASSUME NEW t \in Threads, CommitStep(t) PROVE PutsSizes
  <2>1. CASE Write(t)
    BY <1>1, <1>2, <2>1 DEF Write
  <2>2. CASE EvictDelete(t) \/ DrainDelete(t)
    <3>1. Head(todo[t]) \in Keys
        BY <2>2, HeadTailProperties DEF EvictDelete, DrainDelete, BudgetInv, TodoTyped, HasKeys
    <3> QED BY <2>2, <3>1, DeletePutsNothing DEF EvictDelete, DrainDelete
  <2> QED BY <1>0, <1>4, <2>1, <2>2
          DEF CommitStep, RecheckDeps, SkipUnsized, WriteFails, AdmitEntry, RememberEviction,
              NoteEviction, Settle, DrainForget, FinishCommit
<1>5. ASSUME NEW t \in Threads, VerifyStep(t) PROVE PutsSizes
  <2>1. CASE DeleteRefuted(t)
    BY <2>1, DeletePutsNothing DEF DeleteRefuted
  <2> QED BY <1>0, <1>5, <2>1
          DEF VerifyStep, JudgeVerify, VerifyConfirms, VerifyRefutes, WarningRaises, ForgetRefuted
<1>6. ASSUME NEW t \in Threads, ControlStep(t) PROVE PutsSizes
  <2>1. CASE ProfileWrite(t)
    BY <1>1, <1>2, <2>1 DEF ProfileWrite
  <2>2. CASE InvalidateDelete(t) \/ ProfileDelete(t)
    BY <2>2, DeletePutsNothing DEF InvalidateDelete, ProfileDelete
  <2>3. CASE ClearEntry(t) \/ ClearRaises(t)
    <3>1. sweep[t] \union Present \subseteq Keys
        BY DEF TypeInv, DataTypes, Present
    <3> QED BY <2>3, <3>1, DeletePutsNothing DEF ClearEntry, ClearRaises
  <2> QED BY <1>0, <1>6, <2>1, <2>2, <2>3
          DEF ControlStep, InvalidateMark, InvalidateQuarantine, InvalidateReturns, ClearStore,
              ClearBudget, ClearMarks, ProfileLookup, ProfileWriteFails
<1>7. CASE World \/ UNCHANGED vars
    BY <1>0, <1>7 DEF World, cacheVars, vars
<1> QED BY <1>3, <1>4, <1>5, <1>6, <1>7 DEF Next, Step

LEMMA RunsIsNext ==
    ASSUME Runs \/ (World /\ UNCHANGED <<life, tales>>)
    PROVE  Next
<1>1. ASSUME Runs PROVE Next
  <2>1. PICK t \in Threads :
            \/ \E k \in Keys : CodeOf[k] = code
                                /\ (StartCall(t, k) \/ StartInvalidate(t, k) \/ StartProfile(t, k))
            \/ StartClear(t)
            \/ Step(t)
    BY <1>1 DEF Runs
  <2>2. Start(t) \/ Step(t)
    BY <2>1 DEF Start
  <2> QED BY <2>2 DEF Next
<1> QED BY <1>1 DEF Next

LEMMA NextKeeps ==
    ASSUME KeptInv, [Next]_vars
    PROVE  KeptInv'
<1>1. FlightInv'
  <2>1. CASE UNCHANGED Control
    BY <2>1 DEF Control, KeptInv, FlightInv, FlightTypes, HolderIsInFlight
  <2>2. ASSUME NEW t \in Threads, FlightMove(t) PROVE FlightInv'
    BY <2>2, MoveKeepsFlightInv DEF KeptInv
  <2> QED BY <2>1, <2>2, EveryStepIsAFlightMove DEF KeptInv, FlightInv
<1>2. TypeInv'
    BY StepKeepsTypes DEF KeptInv, FlightInv
<1>3. BudgetInv'
    BY NextKeepsBudgetInv DEF KeptInv, FlightInv, TypeInv
<1>4. StoreTyped'
    BY <1>2, NextPutsSizes, SizesStay DEF KeptInv, TypeInv, DataTypes
<1> QED BY <1>1, <1>2, <1>3, <1>4 DEF KeptInv

LEMMA StopKeeps ==
    ASSUME KeptInv, Stop
    PROVE  KeptInv'
<1> USE DEF KeptInv, Stop
<1>1. FlightInv'
    BY NoThreadAssumption DEF FlightInv, FlightTypes, HolderIsInFlight, Labels, InFlight
<1>2. TypeInv'
  <2>1. /\ store' \in [Keys -> Entries \union {NoEntry}]
        /\ got' \in [Threads -> Entries \union {NoEntry}]
        /\ val' \in [Threads -> Values] /\ bytes' \in [Threads -> Int]
        /\ snap' \in [Threads -> Nat] /\ floor' \in [Threads -> Nat]
        /\ cut' \in [Threads -> [Keys -> Nat]] /\ observed' \in Nat
        /\ sweep' \in [Threads -> SUBSET Keys]
    <3>1. store' \in [Keys -> Entries \union {NoEntry}]
        BY DEF TypeInv, DataTypes
    <3>2. val' \in [Threads -> Values]
        BY NoValueIsTyped
    <3> QED BY <3>1, <3>2
  <2>2. UNCHANGED <<dep, hidden, clock, clockBack, ops, deleteFaults, writeFaults, gen,
                    condemned>>
    BY DEF world, faults
  <2>3. HoldsEntry'
    BY DEF HoldsEntry, Held
  <2> QED BY <2>1, <2>2, <2>3 DEF TypeInv, DataTypes
<1>3. BudgetInv'
  <2>1. MarksTyped'
    BY NumbersAssumption DEF MarksTyped
  <2>2. TodoTyped' /\ AdmitReady'
    BY DEF TodoTyped, AdmitReady, HasKeys
  <2> QED BY <2>1, <2>2, EmptyIsWellKept DEF BudgetInv
<1>4. StoreTyped'
    BY DEF StoreTyped, Present
<1> QED BY <1>1, <1>2, <1>3, <1>4

(* What a decoration leaves alone of the engine: all but its budget, its   *)
(* store and the count of failed deletes.                                  *)
LEMMA DecorateKeeps ==
    ASSUME KeptInv, Decorate
    PROVE  KeptInv'
<1> USE DEF KeptInv
<1>0. UNCHANGED <<marks, holder, observed, pc, locals, world, ops, writeFaults, past>>
    BY DEF Decorate
<1>1. FlightInv'
    BY <1>0 DEF FlightInv, FlightTypes, HolderIsInFlight, locals
<1>2. TypeInv'
  <2> DEFINE purged == (Present \ Ours) \union (IF HasBudget THEN Rehydrated.deleted ELSE {})
  <2>1. PICK failing \in SUBSET Keys :
            /\ deleteFaults' = deleteFaults + Cardinality(failing)
            /\ store' = [k \in Keys |-> IF k \in purged \ failing THEN NoEntry ELSE store[k]]
    BY DEF Decorate
  <2> HIDE DEF purged
  <2>2. Cardinality(failing) \in Nat
    BY PersistenceAssumption, FS_Subset, FS_CardinalityType
  <2>3. deleteFaults' \in Nat /\ store' \in [Keys -> Entries \union {NoEntry}]
    BY <2>1, <2>2 DEF TypeInv, DataTypes
  <2> QED BY <1>0, <2>3 DEF TypeInv, DataTypes, HoldsEntry, locals, world, past, history
<1>3. BudgetInv'
  <2>1. WellKept(budget', Keys)
    <3>1. WellKept(Rehydrated.budget, Keys)
        BY RehydratedTracks DEF KeepsNewest
    <3> QED BY <3>1, EmptyIsWellKept DEF Decorate
  <2>2. MarksTyped' /\ TodoTyped' /\ AdmitReady'
    BY <1>0 DEF BudgetInv, MarksTyped, TodoTyped, AdmitReady, marks, locals
  <2> QED BY <2>1, <2>2 DEF BudgetInv
<1>4. StoreTyped'
  <2>1. PutsSizes
    BY DEF Decorate, PutsSizes
  <2> QED BY <1>2, <2>1, SizesStay DEF TypeInv, DataTypes
<1> QED BY <1>1, <1>2, <1>3, <1>4

LEMMA EarlierRunKeeps ==
    ASSUME KeptInv, EarlierRun
    PROVE  KeptInv'
<1> USE DEF KeptInv
<1>0. UNCHANGED <<budget, marks, holder, observed, pc, locals, world, ops, faults, condemned,
                  cut, floor>>
    BY DEF EarlierRun
<1>1. FlightInv'
    BY <1>0 DEF FlightInv, FlightTypes, HolderIsInFlight, locals
<1>2. TypeInv'
  <2>1. store' \in [Keys -> Entries \union {NoEntry}]
    BY PersistenceAssumption DEF EarlierRun
  <2>2. gen' \in [Keys -> Nat]
    BY DEF EarlierRun
  <2> QED BY <1>0, <2>1, <2>2 DEF TypeInv, DataTypes, HoldsEntry, locals, world, faults
<1>3. BudgetInv'
    BY <1>0 DEF BudgetInv, MarksTyped, TodoTyped, AdmitReady, marks, locals
<1>4. StoreTyped'
  <2>1. store' \in [Keys -> Entries \union {NoEntry}]
    BY <1>2 DEF TypeInv, DataTypes
  <2>2. \A k \in Keys : store'[k] # NoEntry => store'[k].size >= NoSize
    BY PersistenceAssumption DEF EarlierRun
  <2>3. ASSUME NEW k \in Present' PROVE store'[k].size \in Nat \union {NoSize}
    <3>1. store'[k].size \in Int /\ store'[k].size >= NoSize
        BY <2>1, <2>2 DEF Present, Entries
    <3> QED BY <3>1 DEF NoSize
  <2> QED BY <2>1, <2>3 DEF StoreTyped
<1> QED BY <1>1, <1>2, <1>3, <1>4

LEMMA PersistentStepKeeps ==
    ASSUME KeptInv, [PersistentNext]_allVars
    PROVE  KeptInv'
<1>1. CASE Runs \/ (World /\ UNCHANGED <<life, tales>>)
    BY <1>1, RunsIsNext, NextKeeps
<1>2. CASE Edit \/ UNCHANGED allVars
    BY <1>2, NextKeeps DEF Edit, allVars
<1> QED BY <1>1, <1>2, StopKeeps, DecorateKeeps, EarlierRunKeeps DEF PersistentNext

(* Types, locks, registries and the budget are kept over the life of the   *)
(* store.                                                                  *)
THEOREM KeptInvariance == PersistentSpec => []KeptInv
<1>1. PersistentInit => KeptInv
  <2>1. Init => FlightInv
    BY NoThreadAssumption
    DEF Init, FlightInv, FlightTypes, HolderIsInFlight, Labels, InFlight, Flights!Init
  <2>2. Init => Present = {}
    BY DEF Init, Present
  <2> QED BY <2>1, <2>2, InitTypes, InitBudgetInv
          DEF PersistentInit, KeptInv, StoreTyped, TypeInv, DataTypes
<1>2. KeptInv /\ [PersistentNext]_allVars => KeptInv'
    BY PersistentStepKeeps
<1> QED BY <1>1, <1>2, PTL DEF PersistentSpec

(* policy.py: `_total` is the sum of the tracked sizes, one entry for each *)
(* key, and never exceeds max_bytes.                                       *)
THEOREM TotalIsBoundedSumHolds == PersistentSpec => []TotalIsBoundedSum
<1>1. KeptInv => TotalIsBoundedSum
  <2> SUFFICES ASSUME KeptInv PROVE TotalIsBoundedSum
    OBVIOUS
  <2>1. WellKept(budget, Keys)
    BY DEF KeptInv, BudgetInv
  <2>2. /\ budget.total = Weight(budget) /\ budget.total <= MaxBytes
        /\ budget.lru \in Seq(Items(Keys)) /\ OnePerKey(budget.lru)
    BY <2>1 DEF WellKept, Consistent
  <2>3. Cardinality(Tracked(budget)) = Len(budget.lru)
    <3> DEFINE n == Len(budget.lru)
               f == [i \in 1 .. n |-> budget.lru[i].key]
    <3>1. n \in Nat /\ DOMAIN budget.lru = 1 .. n
        BY <2>2, LenProperties
    <3> HIDE DEF n
    <3>2. f \in Bijection(1 .. n, Tracked(budget))
      <4>1. f \in [1 .. n -> Tracked(budget)]
        BY <3>1 DEF Tracked
      <4>2. \A i, j \in 1 .. n : f[i] = f[j] => i = j
        BY <2>2, <3>1 DEF OnePerKey
      <4>3. \A k \in Tracked(budget) : \E i \in 1 .. n : f[i] = k
        BY <3>1 DEF Tracked
      <4> HIDE DEF f
      <4> QED BY <4>1, <4>2, <4>3 DEF Bijection, Injection, IsInjective, Surjection
    <3>3. ExistsBijection(1 .. n, Tracked(budget))
        BY <3>2 DEF ExistsBijection
    <3> QED BY <3>1, <3>3, FS_CountingElements DEF n
  <2> QED BY <2>2, <2>3 DEF TotalIsBoundedSum, Weight
<1> QED BY <1>1, KeptInvariance, PTL

(* _rehydrate_budget: of the entries that fit at all, decoration keeps as  *)
(* many of the newest as fit together, and no others.                      *)
THEOREM RestartKeepsTheNewestHolds == PersistentSpec => RestartKeepsTheNewest
<1> DEFINE Newest ==
        (HasBudget /\ ~ up /\ up') =>
            LET fitting == {k \in Sized : Fits(store[k].size)}
                Newer(j, k) == store[j].expires > store[k].expires
                                \/ (store[j].expires = store[k].expires /\ Rank[j] > Rank[k])
                From(k) == {j \in fitting : j = k \/ Newer(j, k)}
            IN  Tracked(budget') = {k \in fitting : Fits(SizesOf(From(k)))}
<1>1. KeptInv /\ [PersistentNext]_allVars => [Newest]_allVars
  <2> SUFFICES ASSUME KeptInv, [PersistentNext]_allVars, HasBudget, ~ up, up' PROVE Newest
    OBVIOUS
  <2>1. Decorate
    BY DEF PersistentNext, Runs, life, Stop, Edit, EarlierRun, allVars
  <2> DEFINE F == {k \in Sized : Fits(store[k].size)}
  <2>2. StoreTyped
    BY DEF KeptInv, TypeInv, DataTypes, StoreTyped
  <2>3. Tracked(budget') = {k \in F : Fits(SizesOf(AndNewer(k, F)))}
    BY <2>1, <2>2, RehydratedTracks DEF Decorate
  <2>4. ASSUME NEW j \in F, NEW k \in F
        PROVE  OlderThan(k, j) <=>
                \/ store[j].expires > store[k].expires
                \/ store[j].expires = store[k].expires /\ Rank[j] > Rank[k]
    <3>1. \A i \in F : store[i].expires \in Nat /\ Rank[i] \in Nat
        BY <2>2, SizedIsFinite, PersistenceAssumption DEF StoreTyped, Present, Entries
    <3> HIDE DEF F
    <3> QED BY <3>1 DEF OlderThan
  <2>5. ASSUME NEW k \in F
        PROVE  AndNewer(k, F) =
                {j \in F : \/ j = k
                           \/ store[j].expires > store[k].expires
                           \/ store[j].expires = store[k].expires /\ Rank[j] > Rank[k]}
    <3> HIDE DEF F
    <3> QED BY <2>4 DEF AndNewer
  <2> QED BY <2>3, <2>5
<1> QED BY <1>1, KeptInvariance, PTL DEF PersistentSpec, RestartKeepsTheNewest

-----------------------------------------------------------------------------
(* Part 4: the budget lists its keys in the order of their use.            *)
NoRepeats(seq) == \A i, j \in DOMAIN seq : seq[i] = seq[j] => i = j
Before(seq, a, c) == \E i, j \in DOMAIN seq : i < j /\ seq[i] = a /\ seq[j] = c

Follows(b, seq) == \A a, c : OlderIn(b, a, c) => Before(seq, a, c)

RecencyInv ==
    /\ recent \in Seq(Keys) /\ NoRepeats(recent)
    /\ Tracked(budget) \subseteq Members(recent)
    /\ Follows(budget, recent)
    /\ ~ HasBudget => Tracked(budget) = {}

(* A key leaves a list without repetitions.                                *)
LEMMA DropLeaves ==
    ASSUME NEW seq \in Seq(Keys), NoRepeats(seq), NEW x, NEW d, d = Drop(seq, x)
    PROVE  /\ d \in Seq(Keys) /\ NoRepeats(d) /\ Members(d) = Members(seq) \ {x}
           /\ \A a, c : Before(seq, a, c) /\ a # x /\ c # x => Before(d, a, c)
<1>1. CASE ~ InSeq(x, seq)
    BY <1>1 DEF Drop, InSeq, Members
<1>2. CASE InSeq(x, seq)
  <2> DEFINE p == CHOOSE i \in DOMAIN seq : seq[i] = x
             m == Len(seq)
             back(i) == IF i < p THEN i ELSE i - 1
  <2>1. p \in DOMAIN seq /\ seq[p] = x
    BY <1>2 DEF InSeq
  <2>2. d = Popped(seq, p)
    BY <1>2 DEF Drop
  <2>3. m \in Nat /\ DOMAIN seq = 1 .. m
    BY LenProperties
  <2> HIDE DEF p, m
  <2>4. /\ d \in Seq(Keys) /\ Len(d) = m - 1
        /\ \A j \in 1 .. m - 1 : d[j] = IF j < p THEN seq[j] ELSE seq[j + 1]
    <3>1. p \in 1 .. Len(seq) /\ m = Len(seq)
        BY <2>1, <2>3 DEF m
    <3> QED BY <2>2, <3>1, PoppedSeq
  <2>5. DOMAIN d = 1 .. m - 1
    BY <2>4, LenProperties
  <2>6. ASSUME NEW j \in DOMAIN d
        PROVE  \E i \in DOMAIN seq : i # p /\ back(i) = j /\ d[j] = seq[i]
    <3>1. CASE j < p
      <4>1. j \in DOMAIN seq /\ j # p /\ back(j) = j /\ d[j] = seq[j]
        BY <2>1, <2>3, <2>4, <2>5, <3>1
      <4> QED BY <4>1
    <3>2. CASE ~ (j < p)
      <4>1. j + 1 \in DOMAIN seq /\ j + 1 # p /\ back(j + 1) = j /\ d[j] = seq[j + 1]
        BY <2>1, <2>3, <2>4, <2>5, <3>2
      <4> QED BY <4>1
    <3> QED BY <3>1, <3>2
  <2>7. ASSUME NEW i \in DOMAIN seq, i # p
        PROVE  back(i) \in DOMAIN d /\ d[back(i)] = seq[i]
    <3>1. back(i) \in 1 .. m - 1
        BY <2>1, <2>3, <2>7
    <3>2. d[back(i)] = seq[i]
        BY <2>1, <2>3, <2>4, <2>7, <3>1
    <3> QED BY <2>5, <3>1, <3>2
  <2>8. ASSUME NEW i \in DOMAIN seq, NEW j \in DOMAIN seq, i < j, i # p, j # p
        PROVE  back(i) < back(j)
    BY <2>1, <2>3, <2>8
  <2> HIDE DEF back
  <2>9. NoRepeats(d)
    BY <2>6 DEF NoRepeats
  <2>10. Members(d) = Members(seq) \ {x}
    <3>1. \A i \in DOMAIN seq : i # p => seq[i] # x
        BY <2>1 DEF NoRepeats
    <3>2. Members(d) \subseteq Members(seq) \ {x}
        BY <2>6, <3>1 DEF Members
    <3>3. Members(seq) \ {x} \subseteq Members(d)
        BY <2>1, <2>7 DEF Members
    <3> QED BY <3>2, <3>3
  <2>11. ASSUME NEW a, NEW c, Before(seq, a, c), a # x, c # x PROVE Before(d, a, c)
    <3>1. PICK i \in DOMAIN seq, j \in DOMAIN seq : i < j /\ seq[i] = a /\ seq[j] = c
        BY <2>11 DEF Before
    <3>2. i # p /\ j # p
        BY <2>1, <2>11, <3>1
    <3> QED BY <2>7, <2>8, <3>1, <3>2 DEF Before
  <2> QED BY <2>4, <2>9, <2>10, <2>11
<1> QED BY <1>1, <1>2

(* A key that is dropped and appended comes after all the others.          *)
Latest(seq, x, new) ==
    /\ new \in Seq(Keys) /\ NoRepeats(new)
    /\ Members(new) = Members(seq) \union {x}
    /\ \A a, c : Before(seq, a, c) /\ a # x /\ c # x => Before(new, a, c)
    /\ \A a \in Members(seq) \ {x} : Before(new, a, x)

LEMMA LastIsLatest ==
    ASSUME NEW seq \in Seq(Keys), NoRepeats(seq), NEW x \in Keys,
           NEW new, new = Append(Drop(seq, x), x)
    PROVE  Latest(seq, x, new)
<1> DEFINE d == Drop(seq, x)
           n == Len(d)
<1>1. /\ d \in Seq(Keys) /\ NoRepeats(d) /\ Members(d) = Members(seq) \ {x}
      /\ \A a, c : Before(seq, a, c) /\ a # x /\ c # x => Before(d, a, c)
    BY DropLeaves
<1>2. new = Append(d, x)
    OBVIOUS
<1> HIDE DEF d
<1>3. n \in Nat /\ DOMAIN d = 1 .. n
    BY <1>1, LenProperties
<1>4. /\ new \in Seq(Keys) /\ Len(new) = n + 1
      /\ \A i \in 1 .. n : new[i] = d[i]
      /\ new[n + 1] = x
    BY <1>1, <1>2, <1>3, AppendProperties
<1>5. DOMAIN new = 1 .. n + 1
    BY <1>4, LenProperties
<1> HIDE DEF n
<1>6. /\ \A i \in DOMAIN new : i \in DOMAIN d \/ i = n + 1
      /\ n + 1 \in DOMAIN new
      /\ \A i \in DOMAIN d : i \in DOMAIN new /\ i < n + 1 /\ new[i] = d[i] /\ d[i] # x
  <2>1. \A i \in DOMAIN d : d[i] # x
    BY <1>1 DEF Members
  <2> QED BY <1>3, <1>4, <1>5, <2>1
<1>7. NoRepeats(new)
    BY <1>1, <1>4, <1>6 DEF NoRepeats
<1>8. Members(new) = Members(d) \union {x}
    BY <1>4, <1>6 DEF Members
<1>9. \A a, c : Before(d, a, c) => Before(new, a, c)
    BY <1>6 DEF Before
<1>10. \A a \in Members(d) : Before(new, a, x)
    BY <1>4, <1>6 DEF Before, Members
<1> QED BY <1>1, <1>4, <1>7, <1>8, <1>9, <1>10 DEF Latest

(* A step of a thread, as far as the order of use goes.                    *)
UseMove(t) ==
    \/ ~ Used(t) /\ budget' \in {budget, EmptyBudget, Forget(budget, key[t])}
    \/ Used(t) /\ BudgetTouches(key[t])
    \/ /\ Used(t) /\ HasBudget
       /\ bytes[t] \in Nat /\ bytes[t] <= MaxBytes
       /\ budget' = Admit(budget, key[t], bytes[t]).budget

LEMMA EmptyTracksNothing ==
    Tracked(EmptyBudget) = {} /\ \A a, c : ~ OlderIn(EmptyBudget, a, c)
<1>1. EmptyBudget.lru = <<>>
    BY DEF EmptyBudget
<1> QED BY <1>1 DEF Tracked, OlderIn

LEMMA UseKeepsRecency ==
    ASSUME NEW t \in Threads, key[t] \in Keys, Consistent(budget, Keys), UseMove(t),
           recent' = IF Used(t) THEN Append(Drop(recent, key[t]), key[t]) ELSE recent,
           RecencyInv
    PROVE  RecencyInv'
<1> DEFINE k == key[t]
           new == Append(Drop(recent, k), k)
<1>1. /\ recent \in Seq(Keys) /\ NoRepeats(recent) /\ Tracked(budget) \subseteq Members(recent)
      /\ \A a, c : OlderIn(budget, a, c) => Before(recent, a, c)
      /\ ~ HasBudget => Tracked(budget) = {}
    BY DEF RecencyInv, Follows
<1>2. CASE ~ Used(t) /\ budget' \in {budget, EmptyBudget, Forget(budget, k)}
  <2>1. recent' = recent
    BY <1>2
  <2>2. /\ Tracked(budget') \subseteq Tracked(budget)
        /\ \A a, c : OlderIn(budget', a, c) => OlderIn(budget, a, c)
    <3>1. CASE budget' = budget
        BY <3>1
    <3>2. CASE budget' = EmptyBudget
        BY <3>2, EmptyTracksNothing
    <3>3. CASE budget' = Forget(budget, k)
        BY <3>3, ForgetIsConsistent, ForgetKeepsOrder
    <3> QED BY <1>2, <3>1, <3>2, <3>3
  <2> QED BY <1>1, <2>1, <2>2 DEF RecencyInv, Follows
<1>0. new = Append(Drop(recent, k), k)
    OBVIOUS
<1>7. Used(t) => recent' = new
    BY DEF new
<1> HIDE DEF new
<1>3. /\ new \in Seq(Keys) /\ NoRepeats(new) /\ Members(new) = Members(recent) \union {k}
      /\ \A a, c : Before(recent, a, c) /\ a # k /\ c # k => Before(new, a, c)
      /\ \A a \in Members(recent) \ {k} : Before(new, a, k)
  <2>1. Latest(recent, k, new)
    BY <1>0, <1>1, LastIsLatest, Zenon
  <2> QED BY <2>1 DEF Latest
<1>4. ASSUME Used(t), Tracked(budget') \subseteq Tracked(budget) \union {k},
             ~ HasBudget => Tracked(budget') = {},
             \A a, c : OlderIn(budget', a, c) =>
                \/ OlderIn(budget, a, c) /\ a # k /\ c # k
                \/ c = k /\ a \in Tracked(budget) \ {k}
      PROVE  RecencyInv'
  <2>1. recent' = new
    BY <1>4, <1>7
  <2>2. Tracked(budget') \subseteq Members(new)
    BY <1>1, <1>3, <1>4
  <2>3. ASSUME NEW a, NEW c, OlderIn(budget', a, c) PROVE Before(new, a, c)
    <3>1. CASE OlderIn(budget, a, c) /\ a # k /\ c # k
        BY <1>1, <1>3, <3>1
    <3>2. CASE c = k /\ a \in Tracked(budget) \ {k}
        BY <1>1, <1>3, <3>2
    <3> QED BY <1>4, <2>3, <3>1, <3>2
  <2>4. /\ new \in Seq(Keys) /\ NoRepeats(new) /\ Follows(budget', new)
        /\ ~ HasBudget => Tracked(budget') = {}
    BY <1>3, <1>4, <2>3 DEF Follows
  <2> QED BY <2>1, <2>2, <2>4 DEF RecencyInv
<1>5. CASE Used(t) /\ BudgetTouches(k)
  <2>1. CASE HasBudget
    <3>1. budget' = Touch(budget, k)
        BY <1>5, <2>1 DEF BudgetTouches
    <3>2. Tracked(budget') = Tracked(budget)
        BY <3>1, TouchIsConsistent
    <3>3. \A a, c : OlderIn(budget', a, c) =>
                \/ OlderIn(budget, a, c) /\ a # k /\ c # k
                \/ c = k /\ a \in Tracked(budget) \ {k}
        BY <3>1, TouchKeepsOrder
    <3> QED BY <1>4, <1>5, <2>1, <3>2, <3>3
  <2>2. CASE ~ HasBudget
    <3>1. budget' = budget
        BY <1>5, <2>2 DEF BudgetTouches
    <3>2. \A a, c : ~ OlderIn(budget', a, c)
        BY <1>1, <2>2, <3>1 DEF OlderIn, Tracked
    <3> QED BY <1>1, <1>4, <1>5, <2>2, <3>1, <3>2
  <2> QED BY <2>1, <2>2
<1>6. CASE /\ Used(t) /\ HasBudget /\ bytes[t] \in Nat /\ bytes[t] <= MaxBytes
           /\ budget' = Admit(budget, k, bytes[t]).budget
  <2> DEFINE evicted == Admit(budget, k, bytes[t]).evicted
  <2>1. Admits(budget, k, bytes[t], budget', evicted)
    BY <1>6 DEF Admits
  <2> HIDE DEF evicted
  <2>2. Tracked(budget') = (Tracked(budget) \ Members(evicted)) \union {k}
    BY <1>6, <2>1, AdmitIsWellKept
  <2>3. \A a, c : OlderIn(budget', a, c) =>
                \/ OlderIn(budget, a, c) /\ a # k /\ c # k
                \/ c = k /\ a \in Tracked(budget) \ {k}
    BY <1>6, <2>1, AdmitEvictsTheOldest
  <2> QED BY <1>4, <1>6, <2>2, <2>3
<1> QED BY <1>2, <1>5, <1>6 DEF UseMove

(* Most steps use no entry.                                                *)
LEMMA QuietMove ==
    ASSUME NEW t, pc[t] # "admit", pc'[t] # "served",
           UNCHANGED budget \/ budget' = EmptyBudget \/ BudgetForgets(key[t])
    PROVE  UseMove(t)
BY DEF UseMove, Used, BudgetForgets

LEMMA StartUses ==
    ASSUME NEW t \in Threads, Start(t), FlightTypes
    PROVE  UseMove(t)
<1> USE QuietMove DEF FlightTypes, Goto
<1>1. ASSUME NEW k \in Keys, StartCall(t, k) PROVE UseMove(t)
    BY <1>1 DEF StartCall
<1>2. ASSUME NEW k \in Keys, StartInvalidate(t, k) PROVE UseMove(t)
    BY <1>2 DEF StartInvalidate
<1>3. ASSUME NEW k \in Keys, StartProfile(t, k) PROVE UseMove(t)
    BY <1>3 DEF StartProfile
<1>4. CASE StartClear(t)
    BY <1>4 DEF StartClear
<1> QED BY <1>1, <1>2, <1>3, <1>4 DEF Start

(* A hit is a use and touches the key.                                     *)
LEMMA CallUses ==
    ASSUME NEW t \in Threads, CallStep(t), FlightTypes
    PROVE  UseMove(t)
<1> USE QuietMove DEF FlightTypes, Goto
<1>1. CASE EnterFlight(t)
    BY <1>1 DEF EnterFlight, AfterLock
<1>2. CASE Lookup(t)
    BY <1>2 DEF Lookup, AfterLookup
<1>3. CASE JudgeFast(t)
  <2>1. CASE Fresh(t)
    BY <1>3, <2>1 DEF JudgeFast, UseMove, Used
  <2>2. CASE ~ Fresh(t)
    BY <1>3, <2>2 DEF JudgeFast
  <2> QED BY <2>1, <2>2
<1>4. CASE JudgeLocked(t)
  <2>1. CASE Fresh(t)
    BY <1>4, <2>1 DEF JudgeLocked, UseMove, Used
  <2>2. CASE ~ Fresh(t)
    BY <1>4, <2>2 DEF JudgeLocked
  <2> QED BY <2>1, <2>2
<1>5. CASE ClassifyPending(t)
    BY <1>5 DEF ClassifyPending
<1>6. CASE ClassifyStale(t)
    BY <1>6 DEF ClassifyStale
<1>7. CASE ClassifyAbsent(t)
    BY <1>7 DEF ClassifyAbsent
<1>8. CASE RetryDelete(t)
    BY <1>8 DEF RetryDelete
<1>9. CASE MissInvalidated(t)
    BY <1>9 DEF MissInvalidated
<1>10. CASE DeleteStale(t)
    BY <1>10 DEF DeleteStale
<1>11. CASE LabelStale(t)
    BY <1>11 DEF LabelStale
<1>12. CASE RunReturns(t)
    BY <1>12 DEF RunReturns
<1>13. CASE RunRaises(t)
    BY <1>13 DEF RunRaises
<1>14. CASE Return(t)
    BY <1>14 DEF Return
<1> QED BY <1>1, <1>2, <1>3, <1>4, <1>5, <1>6, <1>7, <1>8, <1>9, <1>10, <1>11, <1>12, <1>13,
           <1>14
        DEF CallStep

(* An admission is a use.                                                  *)
LEMMA CommitUses ==
    ASSUME NEW t \in Threads, CommitStep(t), FlightTypes, AdmitReady
    PROVE  UseMove(t)
<1> USE QuietMove DEF FlightTypes, Goto
<1>1. CASE RecheckDeps(t)
    BY <1>1 DEF RecheckDeps, Conclude
<1>2. CASE SkipUnsized(t)
    BY <1>2 DEF SkipUnsized, Conclude
<1>3. CASE Write(t)
    BY <1>3 DEF Write
<1>4. CASE WriteFails(t)
    BY <1>4 DEF WriteFails, Conclude
<1>5. CASE AdmitEntry(t)
  <2>1. budget' = Admit(budget, key[t], bytes[t]).budget
    BY <1>5 DEF AdmitEntry
  <2>2. pc[t] = "admit" /\ pc'[t] \in {"settle", "evict"}
    BY <1>5 DEF AdmitEntry
  <2> QED BY <2>1, <2>2 DEF UseMove, Used, AdmitReady
<1>6. CASE EvictDelete(t)
    BY <1>6 DEF EvictDelete
<1>7. CASE RememberEviction(t)
    BY <1>7 DEF RememberEviction
<1>8. CASE NoteEviction(t)
    BY <1>8 DEF NoteEviction
<1>9. CASE Settle(t)
    BY <1>9 DEF Settle
<1>10. CASE DrainDelete(t)
    BY <1>10 DEF DrainDelete
<1>11. CASE DrainForget(t)
    BY <1>11 DEF DrainForget
<1>12. CASE FinishCommit(t)
    BY <1>12 DEF FinishCommit, Conclude
<1> QED BY <1>1, <1>2, <1>3, <1>4, <1>5, <1>6, <1>7, <1>8, <1>9, <1>10, <1>11, <1>12
        DEF CommitStep

LEMMA VerifyUses ==
    ASSUME NEW t \in Threads, VerifyStep(t), FlightTypes
    PROVE  UseMove(t)
<1> USE QuietMove DEF FlightTypes, Goto
<1>1. CASE JudgeVerify(t)
    BY <1>1 DEF JudgeVerify
<1>2. CASE VerifyConfirms(t)
    BY <1>2 DEF VerifyConfirms, UseMove, Used
<1>3. CASE VerifyRefutes(t)
    BY <1>3 DEF VerifyRefutes
<1>4. CASE DeleteRefuted(t)
    BY <1>4 DEF DeleteRefuted
<1>5. CASE ForgetRefuted(t)
    BY <1>5 DEF ForgetRefuted
<1>6. CASE WarningRaises(t)
    BY <1>6 DEF WarningRaises
<1> QED BY <1>1, <1>2, <1>3, <1>4, <1>5, <1>6 DEF VerifyStep

LEMMA ControlUses ==
    ASSUME NEW t \in Threads, ControlStep(t), FlightTypes
    PROVE  UseMove(t)
<1> USE QuietMove DEF FlightTypes, Goto
<1>1. CASE InvalidateDelete(t)
    BY <1>1 DEF InvalidateDelete
<1>2. CASE InvalidateMark(t)
    BY <1>2 DEF InvalidateMark
<1>3. CASE InvalidateQuarantine(t)
    BY <1>3 DEF InvalidateQuarantine
<1>4. CASE InvalidateReturns(t)
    BY <1>4 DEF InvalidateReturns
<1>5. CASE ClearStore(t)
    BY <1>5 DEF ClearStore
<1>6. CASE ClearRaises(t)
    BY <1>6 DEF ClearRaises
<1>7. CASE ClearBudget(t)
    BY <1>7 DEF ClearBudget
<1>8. CASE ClearMarks(t)
    BY <1>8 DEF ClearMarks
<1>9. CASE ProfileLookup(t)
    BY <1>9 DEF ProfileLookup, ProfileEnds
<1>10. CASE ProfileWrite(t)
    BY <1>10 DEF ProfileWrite
<1>11. CASE ProfileWriteFails(t)
    BY <1>11 DEF ProfileWriteFails, ProfileEnds
<1>12. CASE ProfileDelete(t)
    BY <1>12 DEF ProfileDelete, ProfileEnds
<1>13. CASE ClearEntry(t)
    BY <1>13 DEF ClearEntry
<1> QED BY <1>1, <1>2, <1>3, <1>4, <1>5, <1>6, <1>7, <1>8, <1>9, <1>10, <1>11, <1>12, <1>13
        DEF ControlStep

LEMMA RunsKeepRecency ==
    ASSUME Runs, KeptInv, RecencyInv
    PROVE  RecencyInv'
<1>1. FlightTypes /\ AdmitReady /\ Consistent(budget, Keys)
    BY DEF KeptInv, FlightInv, BudgetInv, WellKept
<1>2. PICK t \in Threads : (Start(t) \/ Step(t)) /\ Tell(t)
    BY DEF Runs, Start
<1>3. UseMove(t)
    BY <1>1, <1>2, StartUses, CallUses, CommitUses, VerifyUses, ControlUses DEF Step
<1>4. recent' = IF Used(t) THEN Append(Drop(recent, key[t]), key[t]) ELSE recent
    BY <1>2 DEF Tell
<1>5. key[t] \in Keys
    BY <1>1 DEF FlightTypes
<1> QED BY <1>1, <1>3, <1>4, <1>5, UseKeepsRecency

(* Without a budget nothing is tracked; with one, decoration lists by age. *)
LEMMA DecorateKeepsRecency ==
    ASSUME Decorate, KeptInv, RecencyInv
    PROVE  RecencyInv'
<1>1. StoreTyped
    BY DEF KeptInv, TypeInv, DataTypes, StoreTyped
<1>2. recent' = ByAge /\ budget' = IF HasBudget THEN Rehydrated.budget ELSE EmptyBudget
    BY DEF Decorate
<1>3. /\ ByAge \in Seq(Sized) /\ Len(ByAge) \in Nat /\ DOMAIN ByAge = 1 .. Len(ByAge)
      /\ \A i, j \in 1 .. Len(ByAge) : i < j => OlderThan(ByAge[i], ByAge[j])
      /\ \A i, j \in 1 .. Len(ByAge) : ByAge[i] = ByAge[j] => i = j
      /\ {ByAge[i] : i \in 1 .. Len(ByAge)} = Sized
    BY <1>1, ByAgeLists
<1>4. ByAge \in Seq(Keys) /\ NoRepeats(ByAge) /\ Members(ByAge) = Sized
  <2>1. Sized \subseteq Keys
    BY DEF Sized, Ours, Present
  <2> QED BY <1>3, <2>1 DEF NoRepeats, Members
<1>5. CASE HasBudget
  <2>1. KeepsNewest(Len(ByAge), budget')
    BY <1>1, <1>2, <1>5, RehydratedTracks
  <2>2. Tracked(budget') \subseteq Sized
    BY <1>3, <2>1 DEF KeepsNewest, FittingIn, Done
  <2>3. ASSUME NEW a, NEW c, OlderIn(budget', a, c) PROVE Before(ByAge, a, c)
    <3>1. a \in Sized /\ c \in Sized
        BY <2>2, <2>3 DEF OlderIn, Tracked
    <3>2. OlderThan(a, c)
        BY <2>1, <2>3 DEF KeepsNewest
    <3>3. PICK i \in 1 .. Len(ByAge), j \in 1 .. Len(ByAge) : ByAge[i] = a /\ ByAge[j] = c
        BY <1>3, <3>1
    <3>4. ~ OlderThan(c, a) /\ a # c
      <4>1. a \in Present /\ c \in Present
        BY <1>1, <3>1, SizedIsFinite
      <4> QED BY <1>1, <3>2, <4>1, AgeIsAnOrder
    <3>5. ~ (j < i) /\ i # j
        BY <1>3, <3>3, <3>4
    <3>6. i < j
        BY <1>3, <3>5
    <3> QED BY <1>3, <3>3, <3>6 DEF Before
  <2> QED BY <1>2, <1>4, <1>5, <2>2, <2>3 DEF RecencyInv, Follows
<1>6. CASE ~ HasBudget
    BY <1>2, <1>4, <1>6, EmptyTracksNothing DEF RecencyInv, Follows
<1> QED BY <1>5, <1>6

LEMMA PersistentStepKeepsRecency ==
    ASSUME KeptInv, RecencyInv, [PersistentNext]_allVars
    PROVE  RecencyInv'
<1>1. CASE Runs
    BY <1>1, RunsKeepRecency
<1>2. CASE Decorate
    BY <1>2, DecorateKeepsRecency
<1>3. CASE Stop
  <2>1. recent' = <<>> /\ budget' = EmptyBudget
    BY <1>3 DEF Stop
  <2> QED BY <2>1, EmptyTracksNothing DEF RecencyInv, Follows, NoRepeats
<1>4. CASE UNCHANGED <<recent, budget>>
    BY <1>4 DEF RecencyInv, Follows, OlderIn, Tracked
<1>5. CASE (World /\ UNCHANGED <<life, tales>>) \/ Edit \/ EarlierRun \/ UNCHANGED allVars
  <2>1. UNCHANGED <<recent, budget>>
    BY <1>5 DEF World, cacheVars, tales, Edit, vars, EarlierRun, allVars
  <2> QED BY <1>4, <2>1
<1> QED BY <1>1, <1>2, <1>3, <1>5 DEF PersistentNext

LEMMA RecencyInvariance == PersistentSpec => []RecencyInv
<1>1. PersistentInit => RecencyInv
  <2> SUFFICES ASSUME PersistentInit PROVE RecencyInv
    OBVIOUS
  <2>1. recent = <<>> /\ budget = EmptyBudget
    BY DEF PersistentInit, Init
  <2> QED BY <2>1, EmptyTracksNothing DEF RecencyInv, Follows, NoRepeats
<1>2. KeptInv /\ RecencyInv /\ [PersistentNext]_allVars => RecencyInv'
    BY PersistentStepKeepsRecency
<1> QED BY <1>1, <1>2, KeptInvariance, PTL DEF PersistentSpec

(* LastUse compares keys as the order of use does.                         *)
LEMMA LastUseOrders ==
    ASSUME RecencyInv
    PROVE  /\ \A x \in Members(recent) : LastUse(x) \in Nat /\ recent[LastUse(x)] = x
           /\ \A a, c : Before(recent, a, c) => LastUse(a) < LastUse(c)
<1>1. recent \in Seq(Keys) /\ DOMAIN recent \subseteq Nat /\ NoRepeats(recent)
    BY LenProperties DEF RecencyInv
<1>2. \A x \in Members(recent) : LastUse(x) \in DOMAIN recent /\ recent[LastUse(x)] = x
    BY DEF LastUse, Members
<1>3. ASSUME NEW a, NEW c, Before(recent, a, c) PROVE LastUse(a) < LastUse(c)
  <2>1. PICK i \in DOMAIN recent, j \in DOMAIN recent : i < j /\ recent[i] = a /\ recent[j] = c
    BY <1>3 DEF Before
  <2>2. a \in Members(recent) /\ c \in Members(recent)
    BY <2>1 DEF Members
  <2>3. LastUse(a) = i /\ LastUse(c) = j
    BY <1>1, <1>2, <2>1, <2>2 DEF NoRepeats
  <2> QED BY <2>1, <2>3
<1> QED BY <1>1, <1>2, <1>3

(* policy.py admit(): whatever the history, also across a restart, the     *)
(* next admission evicts keys last used before every survivor, and no more *)
(* of them than it must.                                                   *)
THEOREM EvictsLeastRecentlyUsedHolds == PersistentSpec => []EvictsLeastRecentlyUsed
<1>1. ASSUME KeptInv, RecencyInv, HasBudget, NEW k \in Keys, NEW size \in Storable
      PROVE  LET gone == Range(Admit(budget, k, size).evicted)
                 stay == Tracked(budget) \ (gone \union {k})
                 newest == CHOOSE j \in gone : \A i \in gone : LastUse(i) <= LastUse(j)
             IN  /\ \A j \in gone, survivor \in stay : LastUse(j) < LastUse(survivor)
                 /\ gone # {} => Bytes(budget, stay \union {newest}) + size > MaxBytes
  <2> DEFINE after == Admit(budget, k, size).budget
             evicted == Admit(budget, k, size).evicted
             gone == Members(evicted)
             stay == Tracked(budget) \ (gone \union {k})
             newest == CHOOSE j \in gone : \A i \in gone : LastUse(i) <= LastUse(j)
             last == evicted[Len(evicted)]
  <2>1. Admits(budget, k, size, after, evicted)
    BY DEF Admits
  <2>2. size \in Nat /\ size <= MaxBytes
    BY <1>1, NumbersAssumption, MaxBytesAssumption DEF Storable, Fits
  <2>3. Consistent(budget, Keys)
    BY <1>1 DEF KeptInv, BudgetInv, WellKept
  <2>4. Range(evicted) = gone
    BY DEF Range, Members
  <2> HIDE DEF after, evicted
  <2>5. evicted \in Seq(Keys) /\ gone \subseteq Tracked(budget) \ {k}
    BY <1>1, <2>1, <2>2, <2>3, AdmitIsWellKept
  <2>6. /\ \A i, j \in DOMAIN evicted : i < j => OlderIn(budget, evicted[i], evicted[j])
        /\ \A j \in gone, s \in stay : OlderIn(budget, j, s)
        /\ \A p \in DOMAIN evicted :
            Bytes(budget, (Tracked(budget) \ {k}) \ {evicted[i] : i \in 1 .. p - 1}) + size > MaxBytes
    BY <1>1, <2>1, <2>2, <2>3, AdmitEvictsTheOldest
  <2>7. \A a, c : OlderIn(budget, a, c) => LastUse(a) < LastUse(c)
    BY <1>1, LastUseOrders DEF RecencyInv, Follows
  <2>8. \A x \in gone : LastUse(x) \in Nat /\ recent[LastUse(x)] = x
    BY <1>1, <2>5, LastUseOrders DEF RecencyInv
  <2>9. Len(evicted) \in Nat /\ DOMAIN evicted = 1 .. Len(evicted)
    BY <2>5, LenProperties
  <2>10. ASSUME gone # {} PROVE Bytes(budget, stay \union {newest}) + size > MaxBytes
    <3> DEFINE n == Len(evicted)
    <3>1. n \in DOMAIN evicted /\ last \in gone
        BY <2>9, <2>10 DEF Members
    <3>2. \A i \in 1 .. n - 1 : LastUse(evicted[i]) < LastUse(last)
        BY <2>6, <2>7, <2>9, <3>1
    <3>3. \A i \in gone : LastUse(i) <= LastUse(last)
      <4>1. ASSUME NEW p \in DOMAIN evicted PROVE LastUse(evicted[p]) <= LastUse(last)
        <5>1. CASE p = n
            BY <2>8, <3>1, <5>1
        <5>2. CASE p # n
          <6>1. p \in 1 .. n - 1 /\ evicted[p] \in gone
            BY <2>9, <5>2 DEF Members
          <6> QED BY <2>8, <3>1, <3>2, <6>1
        <5> QED BY <5>1, <5>2
      <4> QED BY <4>1 DEF Members
    <3> HIDE DEF last, n
    <3>4. newest \in gone /\ \A i \in gone : LastUse(i) <= LastUse(newest)
        BY <3>1, <3>3
    <3> HIDE DEF newest
    <3>5. newest = last
        BY <2>8, <3>1, <3>3, <3>4
    <3>6. (Tracked(budget) \ {k}) \ {evicted[i] : i \in 1 .. n - 1} = stay \union {newest}
      <4>1. last \notin {evicted[i] : i \in 1 .. n - 1}
        BY <2>8, <3>1, <3>2
      <4>2. gone = {evicted[i] : i \in 1 .. n - 1} \union {last}
        <5>1. 1 .. n = (1 .. n - 1) \union {n}
            BY <2>9, <3>1 DEF n
        <5> QED BY <2>9, <5>1 DEF Members, last, n
      <4> QED BY <2>5, <3>1, <3>5, <4>1, <4>2
    <3> QED BY <2>6, <3>1, <3>6
  <2> QED BY <2>4, <2>6, <2>7, <2>10 DEF evicted
<1>2. KeptInv /\ RecencyInv => EvictsLeastRecentlyUsed
    BY <1>1 DEF EvictsLeastRecentlyUsed, Bytes
<1> QED BY <1>2, KeptInvariance, RecencyInvariance, PTL

-----------------------------------------------------------------------------
(* Part 5: one caller.  Lists of keys first.                               *)
LEMMA InSeqIsMember == \A x, seq : InSeq(x, seq) <=> x \in Members(seq)
BY DEF InSeq, Members

(* A list without repetitions is no longer than there are keys, so a       *)
(* registry whose cap allows for all of them is never trimmed.             *)
LEMMA NoRepeatsFits ==
    ASSUME NEW seq \in Seq(Keys), NoRepeats(seq)
    PROVE  Len(seq) <= Cardinality(Keys)
<1> DEFINE n == Len(seq)
           f == [i \in 1 .. n |-> seq[i]]
<1>1. n \in Nat /\ DOMAIN seq = 1 .. n
    BY LenProperties
<1> HIDE DEF n
<1>2. f \in Injection(1 .. n, Keys)
  <2>1. f \in [1 .. n -> Keys]
    BY <1>1, ElementOfSeq
  <2>2. \A i, j \in 1 .. n : f[i] = f[j] => i = j
    BY <1>1 DEF NoRepeats
  <2> HIDE DEF f
  <2> QED BY <2>1, <2>2 DEF Injection, IsInjective
<1>3. Cardinality(1 .. n) <= Cardinality(Keys)
    BY <1>2, PersistenceAssumption, FS_Injection
<1>4. Cardinality(1 .. n) = n
  <2>1. 1 \in Int /\ n \in Int
    BY <1>1
  <2> QED BY <1>1, <2>1, FS_Interval
<1> QED BY <1>3, <1>4 DEF n

(* The registries of _CacheState are capped far above the keys a program   *)
(* uses: no entry is ever pushed out of one.                               *)
CapsSuffice == Cardinality(Keys) <= MarkerCap

LEMMA RememberAdds ==
    ASSUME CapsSuffice, NEW seq \in Seq(Keys), NoRepeats(seq), NEW x \in Keys,
           NEW new, new = Remember(seq, x)
    PROVE  new \in Seq(Keys) /\ NoRepeats(new) /\ Members(new) = Members(seq) \union {x}
<1> DEFINE moved == Append(Drop(seq, x), x)
<1>1. Latest(seq, x, moved)
    BY LastIsLatest
<1>2. new = IF Len(moved) > MarkerCap THEN Tail(moved) ELSE moved
    BY DEF Remember
<1> HIDE DEF moved
<1>3. moved \in Seq(Keys) /\ NoRepeats(moved) /\ Members(moved) = Members(seq) \union {x}
    BY <1>1 DEF Latest
<1>4. ~ (Len(moved) > MarkerCap)
  <2>1. Len(moved) \in Nat /\ Cardinality(Keys) \in Nat /\ MarkerCap \in Nat
    BY <1>3, LenProperties, PersistenceAssumption, FS_CardinalityType, NumbersAssumption
  <2>2. Len(moved) <= Cardinality(Keys)
    BY <1>3, NoRepeatsFits
  <2> QED BY <2>1, <2>2 DEF CapsSuffice
<1> QED BY <1>2, <1>3, <1>4

LEMMA FirstOfKeeps ==
    ASSUME NEW seq \in Seq(Keys), NoRepeats(seq), NEW n \in Nat, NEW d, d = FirstOf(seq, n)
    PROVE  NoRepeats(d) /\ Members(d) \subseteq Members(seq)
<1> DEFINE m == IF Len(seq) < n THEN Len(seq) ELSE n
<1>1. m \in 0 .. Len(seq) /\ Len(seq) \in Nat /\ DOMAIN seq = 1 .. Len(seq)
    BY LenProperties
<1>2. d = SubSeq(seq, 1, m)
    BY DEF FirstOf
<1> HIDE DEF m
<1>3. d \in Seq(Keys) /\ Len(d) = m /\ \A i \in 1 .. m : d[i] = seq[i]
    BY <1>1, <1>2, SubSeqProperties
<1>4. DOMAIN d = 1 .. m /\ 1 .. m \subseteq DOMAIN seq
    BY <1>1, <1>3, LenProperties
<1> QED BY <1>3, <1>4 DEF NoRepeats, Members

LEMMA HeadLeaves ==
    ASSUME NEW seq \in Seq(Keys), NoRepeats(seq), seq # <<>>
    PROVE  /\ Tail(seq) \in Seq(Keys) /\ NoRepeats(Tail(seq))
           /\ Head(seq) \in Members(seq) /\ Head(seq) \in Keys
           /\ Members(Tail(seq)) = Members(seq) \ {Head(seq)}
<1> DEFINE d == Tail(seq)
           h == Head(seq)
           n == Len(seq)
<1>1. n \in Nat /\ n # 0 /\ DOMAIN seq = 1 .. n
    BY LenProperties
<1>2. /\ d \in Seq(Keys) /\ Len(d) = n - 1 /\ h = seq[1] /\ h \in Keys
      /\ \A i \in 1 .. n - 1 : d[i] = seq[i + 1]
    BY HeadTailProperties
<1>3. DOMAIN d = 1 .. n - 1
    BY <1>2, LenProperties
<1> HIDE DEF d, h, n
<1>4. 1 \in DOMAIN seq /\ h \in Members(seq)
    BY <1>1, <1>2 DEF Members
<1>5. \A i \in DOMAIN d : i + 1 \in DOMAIN seq /\ i + 1 # 1 /\ d[i] = seq[i + 1]
    BY <1>1, <1>2, <1>3
<1>6. \A i \in DOMAIN seq : i # 1 => i - 1 \in DOMAIN d /\ d[i - 1] = seq[i]
    BY <1>1, <1>2, <1>3
<1>7. NoRepeats(d)
  <2>1. \A i, j \in DOMAIN d : i + 1 = j + 1 => i = j
    BY <1>3
  <2> QED BY <1>5, <2>1 DEF NoRepeats
<1>8. Members(d) \subseteq Members(seq) \ {h}
    BY <1>2, <1>4, <1>5 DEF NoRepeats, Members
<1>9. Members(seq) \ {h} \subseteq Members(d)
    BY <1>2, <1>6 DEF Members
<1> QED BY <1>2, <1>4, <1>7, <1>8, <1>9 DEF d, h

(* The books of a caller t: every entry of a known size is tracked, or in  *)
(* the ledger, or left over by a failed delete, or t is about to see to    *)
(* it; and what the registries say of evictions is complete.               *)
Evicting == {"evict", "remember_eviction", "note_eviction"}
Draining == {"drain", "drained"}
Booking == {"admit", "settle", "profile_delete", "clear_budget", "clear_marks"}
                \union Evicting \union Draining
Forgetting == {"miss_invalidated", "label_stale", "forget_refuted", "mark_invalidated",
               "quarantine", "forget_invalidated"}
Working == Labels \ ({"idle"} \union ClearLabels)

(* Evicted keys that t has yet to delete, or to enter in the ledger.       *)
ToEvict(t) ==
    IF pc[t] \in {"evict", "remember_eviction"} THEN Members(todo[t])
    ELSE IF pc[t] = "note_eviction" THEN Members(Tail(todo[t])) ELSE {}

(* Evictions on record, or about to be.                                    *)
Noted(t) == Members(evictMarks) \union (IF pc[t] = "note_eviction" THEN {Head(todo[t])} ELSE {})

Listed(t) ==
    /\ NoRepeats(ledger) /\ NoRepeats(evictMarks)
    /\ Members(ledger) \union dropped \subseteq Noted(t)
    /\ dropped \subseteq Keys \ Present

Settled(t, k) ==
    \/ k \in survivors \/ k \in Members(ledger) \/ TracksEntry(budget, k)
    \/ k \in ToEvict(t) \/ (k = key[t] /\ pc[t] \in {"admit", "profile_delete"})

AllSettled(t) == HasBudget => \A k \in Present : store[k].size # NoSize => Settled(t, k)

CommitTidy(t) ==
    /\ pc[t] \in {"admit", "settle"} \union Evicting \union Draining => key[t] \in Present
    /\ pc[t] = "admit" => bytes[t] = store[key[t]].size
    /\ (pc[t] \in Evicting \union {"settle"} /\ HasBudget) => TracksEntry(budget, key[t])
    /\ pc[t] \in Evicting => Members(todo[t]) \cap (Tracked(budget) \union {key[t]}) = {}
    /\ pc[t] \in Draining => Members(todo[t]) \subseteq Members(ledger) \ {key[t]}
    /\ pc[t] \in Draining => key[t] \notin Members(ledger)
    /\ pc[t] \in Evicting \union Draining => NoRepeats(todo[t])
    /\ pc[t] = "drained" => Head(todo[t]) \notin Present
    /\ Members(ledger) \cap Tracked(budget) \subseteq
            IF pc[t] \in Evicting \union {"settle"} THEN {key[t]} ELSE {}

OtherTidy(t) ==
    /\ pc[t] \in Forgetting => key[t] \notin Present \/ key[t] \in survivors
    /\ pc[t] = "clear_store" => Present \subseteq sweep[t]
    /\ pc[t] \in {"clear_budget", "clear_marks"} => Present = {}

OfThisCode(t) ==
    /\ Present \ Ours \subseteq survivors
    /\ pc[t] \in Working => CodeOf[key[t]] = code

Books(t) == Listed(t) /\ AllSettled(t) /\ CommitTidy(t) /\ OtherTidy(t) /\ OfThisCode(t)

(* A function that is not decorated keeps no books.                        *)
NoBooks(t) == pc[t] = "idle" /\ ledger = <<>> /\ evictMarks = <<>> /\ dropped = {}

SoloInv(t) == IF up THEN Books(t) ELSE NoBooks(t)

(* A decoration tracks or deletes every row it read.                       *)
LEMMA LoopSettlesRows ==
    ASSUME StoreTyped
    PROVE  Sized \subseteq Tracked(Rehydrated.budget) \union Rehydrated.deleted
<1> DEFINE Pair(r) == r = [budget |-> r.budget, deleted |-> r.deleted]
           Seen(n) == Done(n) \subseteq Tracked(Rehydrating[n].budget) \union Rehydrating[n].deleted
           T == {n \in Nat : n <= Len(ByAge) => Pair(Rehydrating[n]) /\ Seen(n)}
<1>0. Len(ByAge) \in Nat
    BY ByAgeLists
<1>1. 0 \in T
  <2>1. Pair(Rehydrating[0])
    BY <1>0, LoopUnfolds DEF Nothing
  <2>2. Done(0) = {}
    BY DEF Done
  <2> QED BY <2>1, <2>2
<1>2. ASSUME NEW n \in Nat, n \in T PROVE n + 1 \in T
  <2> SUFFICES ASSUME n + 1 <= Len(ByAge) PROVE Pair(Rehydrating[n + 1]) /\ Seen(n + 1)
    OBVIOUS
  <2> DEFINE before == Rehydrating[n]
             after == Rehydrating[n + 1]
             k == ByAge[n + 1]
             size == store[k].size
             evicted == Admit(before.budget, k, size).evicted
  <2>1. Pair(before) /\ Seen(n) /\ n \in 0 .. Len(ByAge)
    BY <1>0, <1>2
  <2>2. after = Round(before, k)
    <3>1. n + 1 \in 0 .. Len(ByAge) /\ n + 1 # 0 /\ (n + 1) - 1 = n
        BY <1>0
    <3> QED BY <3>1, LoopUnfolds
  <2>3. Done(n + 1) = Done(n) \union {k} /\ k \in Sized
    BY NextRow
  <2>4. CASE Fits(size)
    <3>1. after = [budget |-> Admit(before.budget, k, size).budget,
                   deleted |-> before.deleted \union Range(evicted)]
        BY <2>2, <2>4 DEF Round
    <3>2. /\ Pair(after) /\ after.deleted = before.deleted \union Members(evicted)
          /\ Admits(before.budget, k, size, after.budget, evicted)
      <4>1. after.budget = Admit(before.budget, k, size).budget
            /\ after.deleted = before.deleted \union Range(evicted)
        BY <3>1
      <4>2. Range(evicted) = Members(evicted)
        BY DEF Range, Members
      <4>3. Admits(before.budget, k, size, after.budget, evicted)
        BY <4>1 DEF Admits
      <4> HIDE DEF evicted, before, size, k
      <4> QED BY <3>1, <4>1, <4>2, <4>3
    <3>3. Consistent(before.budget, Keys)
        BY <2>1, LoopKeepsNewest DEF KeepsNewest, WellKept
    <3>4. size \in Nat /\ size <= MaxBytes /\ k \in Keys
        BY <2>3, <2>4, SizedIsFinite DEF Fits
    <3> HIDE DEF before, after, k, size, evicted
    <3>5. Tracked(after.budget) = (Tracked(before.budget) \ Members(evicted)) \union {k}
        BY <3>2, <3>3, <3>4, AdmitIsWellKept
    <3>6. Done(n) \subseteq Tracked(before.budget) \union before.deleted
        BY <2>1 DEF before
    <3>7. Done(n + 1) \subseteq Tracked(after.budget) \union after.deleted
        BY <2>3, <3>2, <3>5, <3>6
    <3> QED BY <3>2, <3>7 DEF after
  <2>5. CASE ~ Fits(size)
    <3>1. after = [before EXCEPT !.deleted = @ \union {k}]
        BY <2>2, <2>5 DEF Round
    <3>2. Done(n) \subseteq Tracked(before.budget) \union before.deleted
        BY <2>1
    <3> HIDE DEF before, after, k
    <3>3. Pair(after) /\ after.budget = before.budget /\ after.deleted = before.deleted \union {k}
        BY <2>1, <3>1 DEF before
    <3>4. Done(n + 1) \subseteq Tracked(after.budget) \union after.deleted
        BY <2>3, <3>2, <3>3
    <3> QED BY <3>3, <3>4 DEF after
  <2> QED BY <2>4, <2>5
<1> HIDE DEF T
<1>3. Nat \subseteq T
    BY <1>1, <1>2, NatSetInduction
<1> HIDE DEF Pair, Seen
<1>4. Seen(Len(ByAge))
    BY <1>0, <1>3 DEF T
<1>5. Done(Len(ByAge)) = Sized
    BY ByAgeLists DEF Done
<1> QED BY <1>4, <1>5 DEF Rehydrated, Seen

(* What is told of left-overs and of dropped entries.                      *)
LEMMA Told ==
    ASSUME NEW t \in Threads, Tell(t), StoreTyped, StoreTyped', dropped \subseteq Keys
    PROVE  /\ \A k \in survivors \cap Present : store'[k] = store[k] => k \in survivors'
           /\ DeleteFailed(t) => key[t] \in survivors'
           /\ dropped' \subseteq (dropped \union Dropped(t)) \ Present'
           /\ dropped' \subseteq Keys
BY DEF Tell, Unchanged, Dropped, Present, StoreTyped

LEMMA CodeKept ==
    ASSUME NEW t \in Threads, Tell(t), StoreTyped, StoreTyped', dropped \subseteq Keys,
           UNCHANGED code, OfThisCode(t),
           \A k \in Keys : store'[k] \in {store[k], NoEntry} \/ CodeOf[k] = code,
           pc'[t] \in Working => CodeOf[key'[t]] = code
    PROVE  OfThisCode(t)'
<1>1. ASSUME NEW k \in (Present \ Ours)' PROVE k \in survivors'
  <2>1. k \in Keys /\ store'[k] # NoEntry /\ CodeOf[k] # code
    BY <1>1 DEF Present, Ours
  <2>2. store'[k] = store[k] /\ k \in Present \ Ours
    BY <2>1 DEF Present, Ours
  <2> QED BY <2>2, Told DEF OfThisCode
<1> QED BY <1>1 DEF OfThisCode

(* The steps that neither write, nor evict, nor drain.                     *)
Calm(t) ==
    /\ pc[t] \notin Booking /\ pc'[t] \notin Booking
    /\ UNCHANGED <<ledger, evictMarks>>
    /\ Erases
    /\ \/ UNCHANGED budget \/ budget' = Touch(budget, key[t])
       \/ pc[t] \in Forgetting /\ UNCHANGED store /\ budget' = Forget(budget, key[t])
    /\ pc'[t] \in Forgetting =>
        /\ key'[t] = key[t]
        /\ \/ store'[key[t]] = NoEntry \/ DeleteFailed(t)
           \/ pc[t] \in Forgetting /\ UNCHANGED store
    /\ pc'[t] \in Working =>
        CodeOf[key'[t]] = code \/ (pc[t] \in Working /\ key'[t] = key[t])
    /\ pc'[t] = "clear_store" => Present' \subseteq sweep'[t]

LEMMA CalmKeepsBooks ==
    ASSUME NEW t \in Threads, Calm(t), Tell(t), UNCHANGED code, KeptInv, StoreTyped', Books(t)
    PROVE  Books(t)'
<1> USE DEF Books
<1>1. StoreTyped /\ key[t] \in Keys /\ Consistent(budget, Keys) /\ dropped \subseteq Keys
    BY DEF KeptInv, FlightInv, FlightTypes, TypeInv, DataTypes, StoreTyped, BudgetInv, WellKept,
           Listed
<1>2. /\ \A k \in survivors \cap Present : store'[k] = store[k] => k \in survivors'
      /\ DeleteFailed(t) => key[t] \in survivors'
      /\ dropped' \subseteq (dropped \union Dropped(t)) \ Present'
      /\ dropped' \subseteq Keys
    BY <1>1, Told
<1>3. Present' \subseteq Present /\ \A k \in Present' : store'[k] = store[k]
    BY DEF Calm, Erases, Present
<1>4. Tracked(budget') \subseteq Tracked(budget)
    BY <1>1, ForgetIsConsistent, TouchIsConsistent DEF Calm
<1>5. ASSUME NEW k \in Present', TracksEntry(budget, k), k \notin survivors'
      PROVE  TracksEntry(budget, k)'
  <2>1. store'[k] = store[k] /\ k \in Tracked(budget) /\ SizeOf(budget, k) = store[k].size
    BY <1>3, <1>5 DEF TracksEntry
  <2>2. CASE UNCHANGED budget \/ budget' = Touch(budget, key[t])
    <3>1. k \in Tracked(budget') /\ SizeOf(budget', k) = SizeOf(budget, k)
        BY <1>1, <2>1, <2>2, TouchIsConsistent
    <3> QED BY <2>1, <3>1 DEF TracksEntry
  <2>3. CASE pc[t] \in Forgetting /\ UNCHANGED store /\ budget' = Forget(budget, key[t])
    <3>1. k # key[t]
        BY <1>2, <1>3, <1>5, <2>1, <2>3 DEF OtherTidy
    <3>2. k \in Tracked(budget') /\ SizeOf(budget', k) = SizeOf(budget, k)
        BY <1>1, <2>1, <2>3, <3>1, ForgetIsConsistent
    <3> QED BY <2>1, <3>2 DEF TracksEntry
  <2> QED BY <2>2, <2>3 DEF Calm
<1>6. AllSettled(t)'
  <2> SUFFICES ASSUME HasBudget, NEW k \in Present', store'[k].size # NoSize PROVE Settled(t, k)'
    BY DEF AllSettled
  <2>1. k \in Present /\ Settled(t, k) /\ store'[k] = store[k]
    BY <1>3 DEF AllSettled
  <2>2. k \in survivors \/ k \in Members(ledger) \/ TracksEntry(budget, k)
    BY <2>1 DEF Settled, ToEvict, Calm, Booking, Evicting
  <2>3. UNCHANGED ledger
    BY DEF Calm
  <2> QED BY <1>2, <1>5, <2>1, <2>2, <2>3 DEF Settled
<1>7. Listed(t)'
  <2>1. Dropped(t) = {}
    BY DEF Dropped, Calm, Booking, Evicting, Draining
  <2>2. UNCHANGED <<ledger, evictMarks>> /\ Noted(t) = Members(evictMarks)
        /\ Noted(t)' = Members(evictMarks)
    BY DEF Calm, Noted, Booking, Evicting
  <2> QED BY <1>2, <2>1, <2>2 DEF Listed
<1>8. CommitTidy(t)'
  <2>1. UNCHANGED ledger /\ Members(ledger) \cap Tracked(budget) = {}
    BY DEF CommitTidy, Calm, Booking
  <2>2. Members(ledger') \cap Tracked(budget') = {}
    BY <1>4, <2>1
  <2>3. pc'[t] \notin {"admit", "settle"} \union Evicting \union Draining
    BY DEF Calm, Booking
  <2> QED BY <2>2, <2>3 DEF CommitTidy, Evicting, Draining
<1>9. OtherTidy(t)'
  <2>1. pc'[t] \notin {"clear_budget", "clear_marks"}
    BY DEF Calm, Booking
  <2>2. ASSUME pc'[t] \in Forgetting, key'[t] \in Present' PROVE key'[t] \in survivors'
    <3>1. key'[t] = key[t] /\ key[t] \in Present /\ store'[key[t]] = store[key[t]]
        BY <1>3, <2>2 DEF Calm
    <3>2. DeleteFailed(t) \/ (pc[t] \in Forgetting /\ UNCHANGED store)
        BY <2>2, <3>1 DEF Calm, Present
    <3> QED BY <1>2, <3>1, <3>2 DEF OtherTidy
  <2> QED BY <2>1, <2>2 DEF OtherTidy, Calm
<1>10. OfThisCode(t)'
  <2>1. \A k \in Keys : store'[k] \in {store[k], NoEntry}
    BY DEF Calm, Erases
  <2>2. pc'[t] \in Working => CodeOf[key'[t]] = code
    BY DEF Calm, OfThisCode
  <2> QED BY <1>1, <2>1, <2>2, CodeKept
<1> QED BY <1>6, <1>7, <1>8, <1>9, <1>10

LEMMA StartIsCalm ==
    ASSUME NEW t \in Threads, FlightTypes, sweep \in [Threads -> SUBSET Keys],
           \/ \E k \in Keys : CodeOf[k] = code
                             /\ (StartCall(t, k) \/ StartInvalidate(t, k) \/ StartProfile(t, k))
           \/ StartClear(t)
    PROVE  Calm(t)
<1> USE DEF FlightTypes, Goto, marks, Booking, Evicting, Draining, Forgetting, Working, ClearLabels
<1>0. UNCHANGED store => Erases
    BY DEF Erases
<1>1. ASSUME NEW k \in Keys, CodeOf[k] = code, StartCall(t, k) PROVE Calm(t)
    BY <1>0, <1>1 DEF StartCall, Calm
<1>2. ASSUME NEW k \in Keys, CodeOf[k] = code, StartInvalidate(t, k) PROVE Calm(t)
    BY <1>0, <1>2 DEF StartInvalidate, Calm
<1>3. ASSUME NEW k \in Keys, CodeOf[k] = code, StartProfile(t, k) PROVE Calm(t)
    BY <1>0, <1>3 DEF StartProfile, Calm
<1>4. CASE StartClear(t)
    BY <1>0, <1>4 DEF StartClear, Calm, Labels, InFlight, Present
<1> QED BY <1>1, <1>2, <1>3, <1>4

(* The labels at which a failed delete leaves the entry behind.            *)
LEMMA DeletedOrLeftOver ==
    ASSUME NEW t \in Threads, key[t] \in Keys, DeleteTried(key[t]), StoreTyped, deleteFaults \in Nat
    PROVE  /\ Erases
           /\ store'[key[t]] = NoEntry \/ (UNCHANGED store /\ deleteFaults' > deleteFaults)
BY DEF DeleteTried, Deleted, DeleteRaises, StoreTyped, Erases

(* Steps that leave the store alone and go to no label of interest.        *)
LEMMA PassIsCalm ==
    ASSUME NEW t \in Threads, pc[t] \in Working \ Booking, pc'[t] \notin Booking \union Forgetting,
           pc'[t] # "clear_store", UNCHANGED <<store, key, ledger, evictMarks>>,
           UNCHANGED budget \/ BudgetTouches(key[t])
    PROVE  Calm(t)
BY DEF Calm, Erases, BudgetTouches

(* Steps that forget the key in the budget, or are about to.               *)
LEMMA ForgetIsCalm ==
    ASSUME NEW t \in Threads, pc[t] \in Forgetting, pc'[t] \notin Booking,
           pc'[t] # "clear_store", UNCHANGED <<store, key, ledger, evictMarks>>,
           UNCHANGED budget \/ BudgetForgets(key[t])
    PROVE  Calm(t)
BY DEF Calm, Erases, BudgetForgets, Forgetting, Working, Booking, Evicting, Draining, Labels,
       InFlight, ClearLabels

LEMMA DeleteIsCalm ==
    ASSUME NEW t \in Threads, key[t] \in Keys, DeleteTried(key[t]), StoreTyped, deleteFaults \in Nat,
           pc[t] \in {"retry_delete", "delete_stale", "delete_refuted", "invalidate"},
           pc'[t] \in Forgetting, UNCHANGED <<budget, key, ledger, evictMarks>>
    PROVE  Calm(t)
<1>1. Erases /\ (store'[key[t]] = NoEntry \/ deleteFaults' > deleteFaults)
    BY DeletedOrLeftOver
<1>2. /\ pc[t] \in Working \ Booking /\ pc'[t] \notin Booking \union {pc[t], "clear_store"}
      /\ deleteFaults' > deleteFaults => DeleteFailed(t)
    BY DEF Forgetting, Working, Booking, Evicting, Draining, Labels, InFlight, ClearLabels,
           DeleteFailed
<1> QED BY <1>1, <1>2 DEF Calm

LEMMA CallIsCalm ==
    ASSUME NEW t \in Threads, CallStep(t), FlightTypes, StoreTyped, deleteFaults \in Nat
    PROVE  Calm(t)
<1> USE PassIsCalm, ForgetIsCalm, DeleteIsCalm
    DEF FlightTypes, Goto, marks, locals, Booking, Evicting, Draining, Forgetting, Working,
        ClearLabels, Labels, InFlight
<1>1. CASE EnterFlight(t)
    BY <1>1 DEF EnterFlight, AfterLock
<1>2. CASE Lookup(t)
    BY <1>2 DEF Lookup, AfterLookup
<1>3. CASE JudgeFast(t)
    BY <1>3 DEF JudgeFast
<1>4. CASE JudgeLocked(t)
    BY <1>4 DEF JudgeLocked
<1>5. CASE ClassifyPending(t)
    BY <1>5 DEF ClassifyPending
<1>6. CASE ClassifyStale(t)
    BY <1>6 DEF ClassifyStale
<1>7. CASE ClassifyAbsent(t)
    BY <1>7 DEF ClassifyAbsent
<1>8. CASE RetryDelete(t)
    BY <1>8 DEF RetryDelete, DeleteTried
<1>9. CASE MissInvalidated(t)
    BY <1>9 DEF MissInvalidated
<1>10. CASE DeleteStale(t)
    BY <1>10 DEF DeleteStale
<1>11. CASE LabelStale(t)
    BY <1>11 DEF LabelStale
<1>12. CASE RunReturns(t)
    BY <1>12 DEF RunReturns
<1>13. CASE RunRaises(t)
    BY <1>13 DEF RunRaises
<1>14. CASE Return(t)
    BY <1>14 DEF Return
<1> QED BY <1>1, <1>2, <1>3, <1>4, <1>5, <1>6, <1>7, <1>8, <1>9, <1>10, <1>11, <1>12, <1>13,
           <1>14
        DEF CallStep

LEMMA VerifyIsCalm ==
    ASSUME NEW t \in Threads, VerifyStep(t), FlightTypes, StoreTyped, deleteFaults \in Nat
    PROVE  Calm(t)
<1> USE PassIsCalm, ForgetIsCalm, DeleteIsCalm
    DEF FlightTypes, Goto, marks, locals, Booking, Evicting, Draining, Forgetting, Working,
        ClearLabels, Labels, InFlight
<1>1. CASE JudgeVerify(t)
    BY <1>1 DEF JudgeVerify
<1>2. CASE VerifyConfirms(t)
    BY <1>2 DEF VerifyConfirms
<1>3. CASE VerifyRefutes(t)
    BY <1>3 DEF VerifyRefutes
<1>4. CASE DeleteRefuted(t)
    BY <1>4 DEF DeleteRefuted
<1>5. CASE ForgetRefuted(t)
    BY <1>5 DEF ForgetRefuted
<1>6. CASE WarningRaises(t)
    BY <1>6 DEF WarningRaises
<1> QED BY <1>1, <1>2, <1>3, <1>4, <1>5, <1>6 DEF VerifyStep

(* invalidate(), the store's part of a clear(), and a profile() that       *)
(* stores nothing.                                                         *)
LEMMA ControlIsCalm ==
    ASSUME NEW t \in Threads, FlightTypes, StoreTyped, deleteFaults \in Nat,
           \/ InvalidateDelete(t) \/ InvalidateMark(t) \/ InvalidateQuarantine(t)
           \/ InvalidateReturns(t) \/ ClearRaises(t) \/ ProfileLookup(t) \/ ProfileWriteFails(t)
           \/ ClearEntry(t) /\ Present \subseteq sweep[t] /\ sweep \in [Threads -> SUBSET Keys]
    PROVE  Calm(t)
<1> USE PassIsCalm, ForgetIsCalm, DeleteIsCalm
    DEF FlightTypes, Goto, marks, locals, Booking, Evicting, Draining, Forgetting, Working,
        ClearLabels, Labels, InFlight
<1>1. CASE InvalidateDelete(t)
    BY <1>1 DEF InvalidateDelete, DeleteTried
<1>2. CASE InvalidateMark(t)
    BY <1>2 DEF InvalidateMark
<1>3. CASE InvalidateQuarantine(t)
    BY <1>3 DEF InvalidateQuarantine
<1>4. CASE InvalidateReturns(t)
    BY <1>4 DEF InvalidateReturns
<1>5. CASE ClearRaises(t)
  <2>1. Erases
    BY <1>5 DEF ClearRaises, DeleteRaises, Erases
  <2>2. /\ pc[t] = "clear_store" /\ pc'[t] = "idle"
        /\ UNCHANGED <<budget, ledger, evictMarks>>
    BY <1>5 DEF ClearRaises
  <2> QED BY <2>1, <2>2 DEF Calm
<1>6. CASE ProfileLookup(t)
    BY <1>6 DEF ProfileLookup, ProfileEnds
<1>7. CASE ProfileWriteFails(t)
    BY <1>7 DEF ProfileWriteFails, ProfileEnds
<1>8. CASE ClearEntry(t) /\ Present \subseteq sweep[t] /\ sweep \in [Threads -> SUBSET Keys]
  <2>1. /\ pc[t] = "clear_store" /\ pc'[t] = "clear_store"
        /\ UNCHANGED <<budget, ledger, evictMarks>>
    BY <1>8 DEF ClearEntry
  <2>2. PICK k \in Keys : Deleted(k) /\ sweep'[t] = sweep[t] \ {k}
    BY <1>8 DEF ClearEntry, Present
  <2>3. Erases /\ Present' \subseteq sweep'[t]
    BY <1>8, <2>2 DEF Deleted, Erases, Present, StoreTyped
  <2> QED BY <2>1, <2>3 DEF Calm
<1> QED BY <1>1, <1>2, <1>3, <1>4, <1>5, <1>6, <1>7, <1>8

(* A commit that stores nothing.                                           *)
LEMMA CommitIsCalm ==
    ASSUME NEW t \in Threads, FlightTypes, RecheckDeps(t) \/ SkipUnsized(t) \/ WriteFails(t)
    PROVE  Calm(t)
<1> USE PassIsCalm
    DEF FlightTypes, Goto, Conclude, marks, locals, Booking, Evicting, Draining, Forgetting,
        Working, ClearLabels, Labels, InFlight
<1>1. CASE RecheckDeps(t)
    BY <1>1 DEF RecheckDeps
<1>2. CASE SkipUnsized(t)
    BY <1>2 DEF SkipUnsized
<1>3. CASE WriteFails(t)
    BY <1>3 DEF WriteFails
<1> QED BY <1>1, <1>2, <1>3

LEMMA BooksAreTyped ==
    ASSUME NEW t \in Threads, KeptInv, Books(t)
    PROVE  /\ FlightTypes /\ StoreTyped /\ deleteFaults \in Nat
           /\ key[t] \in Keys /\ dropped \subseteq Keys /\ Consistent(budget, Keys)
           /\ ledger \in Seq(Keys) /\ evictMarks \in Seq(Keys) /\ todo[t] \in Seq(Keys)
           /\ pc[t] \in HasKeys => todo[t] # <<>>
           /\ NoRepeats(ledger) /\ NoRepeats(evictMarks)
BY DEF KeptInv, FlightInv, FlightTypes, TypeInv, DataTypes, StoreTyped, BudgetInv, WellKept,
       MarksTyped, TodoTyped, Books, Listed

(* A commit or a profile() has put an entry of its key.                    *)
Stores(t) ==
    /\ pc[t] \in {"write", "profile_write"}
    /\ UNCHANGED <<budget, ledger, evictMarks, key>>
    /\ store'[key[t]] # NoEntry /\ \A k \in Keys \ {key[t]} : store'[k] = store[k]
    /\ \/ pc'[t] = "admit" /\ bytes'[t] = store'[key[t]].size
       \/ pc'[t] = "settle" /\ ~ HasBudget
       \/ pc'[t] = "profile_delete"

LEMMA StoreKeepsBooks ==
    ASSUME NEW t \in Threads, Stores(t), Tell(t), UNCHANGED code, KeptInv, StoreTyped', Books(t)
    PROVE  Books(t)'
<1> USE DEF Books
<1>1. StoreTyped /\ key[t] \in Keys /\ dropped \subseteq Keys
    BY BooksAreTyped
<1>2. /\ \A k \in survivors \cap Present : store'[k] = store[k] => k \in survivors'
      /\ dropped' \subseteq (dropped \union Dropped(t)) \ Present'
      /\ dropped' \subseteq Keys
    BY <1>1, Told
<1>3. Present' = Present \union {key[t]} /\ \A k \in Present' \ {key[t]} : store'[k] = store[k]
    BY <1>1 DEF Stores, Present
<1>4. UNCHANGED <<ledger, evictMarks, budget, key>>
    BY DEF Stores
<1>5. Listed(t)'
  <2>1. Dropped(t) = {}
    BY DEF Dropped, Stores
  <2>2. Noted(t) = Members(evictMarks) /\ Noted(t)' = Members(evictMarks)
    BY <1>4 DEF Stores, Noted
  <2> QED BY <1>2, <1>4, <2>1, <2>2 DEF Listed
<1>6. AllSettled(t)'
  <2> SUFFICES ASSUME HasBudget, NEW k \in Present', store'[k].size # NoSize PROVE Settled(t, k)'
    BY DEF AllSettled
  <2>1. CASE k = key[t]
    BY <1>4, <2>1 DEF Stores, Settled
  <2>2. CASE k # key[t]
    <3>1. k \in Present /\ store'[k] = store[k] /\ Settled(t, k)
        BY <1>3, <2>2 DEF AllSettled
    <3>2. k \in survivors \/ k \in Members(ledger) \/ TracksEntry(budget, k)
        BY <2>2, <3>1 DEF Settled, ToEvict, Stores
    <3> QED BY <1>2, <1>4, <3>1, <3>2 DEF Settled, TracksEntry
  <2> QED BY <2>1, <2>2
<1>7. CommitTidy(t)'
  <2>1. Members(ledger) \cap Tracked(budget) = {}
    BY DEF CommitTidy, Stores, Evicting
  <2>2. UNCHANGED <<ledger, budget, key>>
    BY DEF Stores
  <2> QED BY <1>3, <2>1, <2>2 DEF CommitTidy, Stores, Evicting, Draining
<1>8. OtherTidy(t)'
    BY DEF OtherTidy, Stores, Forgetting
<1>9. CodeOf[key[t]] = code
    BY DEF OfThisCode, Stores, Working, Labels, InFlight, ClearLabels
<1>10. OfThisCode(t)'
  <2>1. \A k \in Keys : store'[k] \in {store[k], NoEntry} \/ CodeOf[k] = code
    BY <1>9 DEF Stores
  <2> QED BY <1>1, <1>4, <1>9, <2>1, CodeKept
<1> QED BY <1>5, <1>6, <1>7, <1>8, <1>10

LEMMA WritesStore ==
    ASSUME NEW t \in Threads, KeptInv, Write(t) \/ ProfileWrite(t)
    PROVE  Stores(t)
<1> USE DEF marks, locals
<1>1. /\ key[t] \in Keys /\ StoreTyped /\ pc \in [Threads -> Labels] /\ bytes \in [Threads -> Int]
      /\ gen[key[t]] \in Nat /\ val[t] \in Values /\ snap[t] \in Nat /\ dep \in Nat
      /\ Now(clock) \in Nat
    BY DEF KeptInv, FlightInv, FlightTypes, TypeInv, DataTypes, StoreTyped, Now, Later
<1>2. ASSUME NEW n \in Int, NEW d \in Nat, NEW e, e = EntryOf(key[t], val[t], d, Now(clock), n),
             StorePut(key[t], e)
      PROVE  /\ store'[key[t]] # NoEntry /\ store'[key[t]].size = n
             /\ \A k \in Keys \ {key[t]} : store'[k] = store[k]
  <2>1. e \in Entries
    BY <1>1, <1>2, EntryIsTyped
  <2>2. e.size = n
    BY <1>2 DEF EntryOf
  <2>3. store'[key[t]] = e /\ \A k \in Keys \ {key[t]} : store'[k] = store[k]
    BY <1>1, <1>2 DEF StorePut, StoreTyped
  <2> QED BY <2>1, <2>2, <2>3, NoEntryAssumption
<1>3. CASE Write(t)
  <2>1. PICK n \in Storable :
            /\ bytes' = [bytes EXCEPT ![t] = n]
            /\ StorePut(key[t], EntryOf(key[t], val[t], snap[t], Now(clock), n))
    BY <1>3 DEF Write
  <2>2. n \in Int
    BY SizesAreInts
  <2>3. /\ store'[key[t]] # NoEntry /\ store'[key[t]].size = n
        /\ \A k \in Keys \ {key[t]} : store'[k] = store[k]
    BY <1>1, <1>2, <2>1, <2>2
  <2>4. bytes'[t] = n
    BY <1>1, <2>1
  <2>5. /\ pc[t] = "write" /\ pc'[t] = IF HasBudget THEN "admit" ELSE "settle"
        /\ UNCHANGED <<budget, ledger, evictMarks, key>>
    BY <1>1, <1>3 DEF Write, Goto
  <2> QED BY <2>3, <2>4, <2>5 DEF Stores
<1>4. CASE ProfileWrite(t)
  <2>1. PICK n \in Sizes : StorePut(key[t], EntryOf(key[t], val[t], dep, Now(clock), n))
    BY <1>4 DEF ProfileWrite
  <2>2. n \in Int
    BY SizesAreInts
  <2>3. store'[key[t]] # NoEntry /\ \A k \in Keys \ {key[t]} : store'[k] = store[k]
    BY <1>1, <1>2, <2>1, <2>2
  <2>4. /\ pc[t] = "profile_write" /\ pc'[t] = "profile_delete"
        /\ UNCHANGED <<budget, ledger, evictMarks, key>>
    BY <1>1, <1>4 DEF ProfileWrite, Goto
  <2> QED BY <2>3, <2>4 DEF Stores
<1> QED BY <1>3, <1>4

(* From here on the committed entry stays, and only other entries go.      *)
LEMMA CommitKeepsCode ==
    ASSUME NEW t \in Threads, Tell(t), UNCHANGED <<code, key>>, KeptInv, StoreTyped', Books(t),
           Erases, pc[t] \in Working
    PROVE  OfThisCode(t)'
<1>1. CodeOf[key[t]] = code
    BY DEF Books, OfThisCode
<1> QED BY <1>1, BooksAreTyped, CodeKept DEF Books, Erases

LEMMA AdmitKeepsBooks ==
    ASSUME NEW t \in Threads, AdmitEntry(t), Tell(t), UNCHANGED code, KeptInv, StoreTyped', Books(t)
    PROVE  Books(t)'
<1>0. PICK k0, n0, evicted :
            k0 = key[t] /\ n0 = bytes[t] /\ evicted = Admit(budget, k0, n0).evicted
    OBVIOUS
<1>1. /\ FlightTypes /\ StoreTyped /\ k0 \in Keys /\ dropped \subseteq Keys
      /\ Consistent(budget, Keys) /\ ledger \in Seq(Keys) /\ todo \in [Threads -> Seq(Keys)]
    BY <1>0, BooksAreTyped DEF KeptInv, BudgetInv, TodoTyped
<1>2. /\ pc[t] = "admit" /\ UNCHANGED <<store, ledger, evictMarks, key>>
      /\ budget' = Admit(budget, k0, n0).budget /\ todo'[t] = evicted
      /\ pc'[t] = IF evicted = <<>> THEN "settle" ELSE "evict"
    BY <1>0, <1>1 DEF AdmitEntry, FlightTypes, Goto, marks
<1>3. n0 \in Nat /\ n0 <= MaxBytes
    BY <1>0, <1>2 DEF KeptInv, BudgetInv, AdmitReady
<1>4. Admits(budget, k0, n0, budget', evicted)
    BY <1>0, <1>2 DEF Admits
<1>5. /\ k0 \in Present /\ n0 = store[k0].size /\ Members(ledger) \cap Tracked(budget) = {}
    BY <1>0, <1>2 DEF Books, CommitTidy, Evicting
<1>6. /\ \A k \in survivors \cap Present : store'[k] = store[k] => k \in survivors'
      /\ dropped' \subseteq (dropped \union Dropped(t)) \ Present'
      /\ dropped' \subseteq Keys
    BY <1>1, Told
<1>7. /\ evicted \in Seq(Keys) /\ Members(evicted) \subseteq Tracked(budget) \ {k0}
      /\ Tracked(budget') = (Tracked(budget) \ Members(evicted)) \union {k0}
      /\ SizeOf(budget', k0) = n0
      /\ \A j \in Tracked(budget) \ (Members(evicted) \union {k0}) :
            SizeOf(budget', j) = SizeOf(budget, j)
    BY <1>1, <1>3, <1>4, AdmitIsWellKept
<1>8. NoRepeats(evicted) /\ (evicted = <<>> => Members(evicted) = {})
  <2>1. \A i, j \in DOMAIN evicted : i < j => OlderIn(budget, evicted[i], evicted[j])
    BY <1>1, <1>3, <1>4, AdmitEvictsTheOldest
  <2>2. DOMAIN evicted \subseteq Nat /\ (evicted = <<>> => DOMAIN evicted = {})
    BY <1>7, LenProperties
  <2>3. \A a : ~ OlderIn(budget, a, a)
    <3>1. OnePerKey(budget.lru) /\ DOMAIN budget.lru \subseteq Nat
        BY <1>1, LenProperties DEF Consistent
    <3> QED BY <3>1 DEF OlderIn, OnePerKey
  <2> QED BY <2>1, <2>2, <2>3 DEF NoRepeats, Members
<1>9. TracksEntry(budget, k0)'
    BY <1>2, <1>5, <1>7 DEF TracksEntry
<1>10. Listed(t)'
  <2>1. Dropped(t) = {}
    BY <1>2 DEF Dropped
  <2>2. Noted(t) = Members(evictMarks) /\ Noted(t)' = Members(evictMarks)
    BY <1>2 DEF Noted
  <2> QED BY <1>2, <1>6, <2>1, <2>2 DEF Books, Listed
<1>11. AllSettled(t)'
  <2> SUFFICES ASSUME HasBudget, NEW k \in Present', store'[k].size # NoSize PROVE Settled(t, k)'
    BY DEF AllSettled
  <2>1. k \in Present /\ store'[k] = store[k] /\ Settled(t, k)
    BY <1>2 DEF Present, Books, AllSettled
  <2>2. CASE k = k0
    BY <1>9, <2>2 DEF Settled
  <2>3. CASE k # k0 /\ k \in Members(evicted)
    <3>1. pc'[t] = "evict"
        BY <1>2, <1>8, <2>3
    <3> QED BY <1>2, <2>3, <3>1 DEF Settled, ToEvict
  <2>4. CASE k # k0 /\ k \notin Members(evicted)
    <3>1. k \in survivors \/ k \in Members(ledger) \/ TracksEntry(budget, k)
        BY <1>0, <1>2, <2>1, <2>4 DEF Settled, ToEvict
    <3>2. TracksEntry(budget, k) => TracksEntry(budget, k)'
        BY <1>7, <2>1, <2>4 DEF TracksEntry
    <3> QED BY <1>2, <1>6, <2>1, <3>1, <3>2 DEF Settled
  <2> QED BY <2>2, <2>3, <2>4
<1>12. CommitTidy(t)'
  <2>1. k0 \in Present' /\ k0 = key'[t]
    BY <1>0, <1>2, <1>5 DEF Present
  <2>2. Members(ledger') \cap Tracked(budget') \subseteq {k0}
    BY <1>2, <1>5, <1>7
  <2>3. Members(todo'[t]) \cap (Tracked(budget') \union {k0}) = {}
    BY <1>2, <1>7
  <2>4. NoRepeats(todo'[t]) /\ pc'[t] \in {"settle", "evict"}
    BY <1>2, <1>8
  <2>5. TracksEntry(budget, key[t])'
    BY <1>9, <2>1
  <2> QED BY <2>1, <2>2, <2>3, <2>4, <2>5 DEF CommitTidy, Evicting, Draining
<1>13. OtherTidy(t)'
    BY <1>2 DEF OtherTidy, Forgetting
<1>14. OfThisCode(t)'
    BY <1>2, CommitKeepsCode DEF Erases, Working, Labels, InFlight, ClearLabels
<1> QED BY <1>10, <1>11, <1>12, <1>13, <1>14 DEF Books

(* What a step on the next key of a list may use.                          *)
LEMMA NextKey ==
    ASSUME NEW t \in Threads, KeptInv, Books(t), pc[t] \in Evicting \union Draining,
           todo[t] # <<>>, NEW h, h = Head(todo[t]), NEW rest, rest = Tail(todo[t])
    PROVE  /\ h \in Keys /\ h \in Members(todo[t]) /\ h # key[t] /\ h \notin Tracked(budget)
           /\ rest \in Seq(Keys) /\ NoRepeats(rest) /\ Members(rest) = Members(todo[t]) \ {h}
           /\ key[t] \in Present /\ pc[t] \in Working
<1>1. todo[t] \in Seq(Keys) /\ NoRepeats(todo[t])
    BY BooksAreTyped DEF Books, CommitTidy
<1>2. /\ rest \in Seq(Keys) /\ NoRepeats(rest) /\ h \in Members(todo[t]) /\ h \in Keys
      /\ Members(rest) = Members(todo[t]) \ {h}
    BY <1>1, HeadLeaves
<1>3. h # key[t] /\ h \notin Tracked(budget)
  <2>1. CASE pc[t] \in Evicting
    BY <1>2, <2>1 DEF Books, CommitTidy
  <2>2. CASE pc[t] \in Draining
    <3>1. Members(ledger) \cap Tracked(budget) = {}
        BY <2>2 DEF Books, CommitTidy, Draining, Evicting
    <3> QED BY <1>2, <2>2, <3>1 DEF Books, CommitTidy
  <2> QED BY <2>1, <2>2
<1>4. key[t] \in Present /\ pc[t] \in Working
    BY DEF Books, CommitTidy, Evicting, Draining, Working, Labels, InFlight, ClearLabels
<1> QED BY <1>2, <1>3, <1>4

LEMMA EvictKeepsBooks ==
    ASSUME NEW t \in Threads, EvictDelete(t), Tell(t), UNCHANGED code, KeptInv, StoreTyped', Books(t)
    PROVE  Books(t)'
<1>0. PICK h, list, rest : h = Head(todo[t]) /\ list = todo[t] /\ rest = Tail(todo[t])
    OBVIOUS
<1>1. /\ FlightTypes /\ StoreTyped /\ key[t] \in Keys /\ dropped \subseteq Keys
      /\ pc[t] = "evict" /\ list # <<>>
    BY <1>0, BooksAreTyped DEF EvictDelete, HasKeys
<1>2. UNCHANGED <<budget, ledger, evictMarks, key, todo>>
    BY DEF EvictDelete, marks, locals
<1>3. /\ \A k \in Keys \ {h} : store'[k] = store[k]
      /\ \/ store'[h] = NoEntry /\ pc'[t] = "note_eviction"
         \/ UNCHANGED store /\ pc'[t] = "remember_eviction"
  <2>1. \/ Deleted(h) /\ Goto(t, "note_eviction")
        \/ DeleteRaises(h) /\ Goto(t, "remember_eviction")
    BY <1>0 DEF EvictDelete
  <2>2. h \in Keys
    BY <1>0, <1>1, NextKey DEF Evicting
  <2> QED BY <1>1, <2>1, <2>2 DEF Deleted, DeleteRaises, FlightTypes, Goto, StoreTyped
<1>4. /\ h \in Keys /\ h \in Members(list) /\ h # key[t] /\ h \notin Tracked(budget)
      /\ Members(rest) = Members(list) \ {h} /\ key[t] \in Present /\ pc[t] \in Working
    BY <1>0, <1>1, NextKey DEF Evicting
<1>5. /\ \A k \in survivors \cap Present : store'[k] = store[k] => k \in survivors'
      /\ dropped' \subseteq (dropped \union Dropped(t)) \ Present'
      /\ dropped' \subseteq Keys
    BY <1>1, Told
<1>6. Erases /\ Present' \subseteq Present
    BY <1>3, <1>4 DEF Erases, Present
<1>7. Listed(t)'
  <2>1. Dropped(t) \subseteq {h} /\ (UNCHANGED store => Dropped(t) = {})
    BY <1>3 DEF Dropped, Present
  <2>2. /\ Noted(t) = Members(evictMarks)
        /\ pc'[t] = "note_eviction" => Noted(t)' = Members(evictMarks) \union {h}
        /\ pc'[t] = "remember_eviction" => Noted(t)' = Members(evictMarks)
    BY <1>0, <1>1, <1>2 DEF Noted
  <2> QED BY <1>2, <1>3, <1>5, <2>1, <2>2 DEF Books, Listed
<1>8. AllSettled(t)'
  <2> SUFFICES ASSUME HasBudget, NEW k \in Present', store'[k].size # NoSize PROVE Settled(t, k)'
    BY DEF AllSettled
  <2>1. k \in Present /\ k \in Keys /\ (UNCHANGED store \/ k # h) /\ store'[k] = store[k]
    BY <1>3, <1>6 DEF Present
  <2>2. Settled(t, k)
    BY <2>1 DEF Books, AllSettled
  <2>3. CASE k \in ToEvict(t)
    <3>1. k \in Members(list)
        BY <1>0, <1>1, <2>3 DEF ToEvict
    <3>2. k \in ToEvict(t)'
        BY <1>0, <1>2, <1>3, <1>4, <2>1, <3>1 DEF ToEvict, Present
    <3> QED BY <3>2 DEF Settled
  <2>4. CASE k \notin ToEvict(t)
    <3>1. k \in survivors \/ k \in Members(ledger) \/ TracksEntry(budget, k)
        BY <1>1, <2>2, <2>4 DEF Settled
    <3> QED BY <1>2, <1>5, <2>1, <3>1 DEF Settled, TracksEntry
  <2> QED BY <2>3, <2>4
<1>9. CommitTidy(t)'
  <2>1. key[t] \in Present' /\ store'[key[t]] = store[key[t]]
    BY <1>1, <1>3, <1>4 DEF Present
  <2>2. /\ HasBudget => TracksEntry(budget, key[t])
        /\ Members(todo[t]) \cap (Tracked(budget) \union {key[t]}) = {}
        /\ NoRepeats(todo[t]) /\ Members(ledger) \cap Tracked(budget) \subseteq {key[t]}
    BY <1>1 DEF Books, CommitTidy, Evicting
  <2>3. pc'[t] \in {"note_eviction", "remember_eviction"}
    BY <1>3
  <2> QED BY <1>2, <2>1, <2>2, <2>3 DEF CommitTidy, Evicting, Draining, TracksEntry
<1>10. OtherTidy(t)'
    BY <1>3 DEF OtherTidy, Forgetting
<1>11. OfThisCode(t)'
    BY <1>2, <1>4, <1>6, CommitKeepsCode
<1> QED BY <1>7, <1>8, <1>9, <1>10, <1>11 DEF Books

LEMMA RememberKeepsBooks ==
    ASSUME NEW t \in Threads, RememberEviction(t), Tell(t), UNCHANGED code, KeptInv, StoreTyped',
           Books(t), CapsSuffice
    PROVE  Books(t)'
<1>0. PICK h, list, rest : h = Head(todo[t]) /\ list = todo[t] /\ rest = Tail(todo[t])
    OBVIOUS
<1>1. /\ FlightTypes /\ StoreTyped /\ key[t] \in Keys /\ dropped \subseteq Keys
      /\ pc[t] = "remember_eviction" /\ list # <<>> /\ ledger \in Seq(Keys) /\ NoRepeats(ledger)
    BY <1>0, BooksAreTyped DEF RememberEviction, HasKeys
<1>2. UNCHANGED <<store, budget, evictMarks, key, todo>> /\ pc'[t] = "note_eviction"
    BY <1>1 DEF RememberEviction, locals, FlightTypes, Goto
<1>3. /\ h \in Keys /\ h \in Members(list) /\ h # key[t] /\ h \notin Tracked(budget)
      /\ Members(rest) = Members(list) \ {h} /\ key[t] \in Present /\ pc[t] \in Working
    BY <1>0, <1>1, NextKey DEF Evicting
<1>4. NoRepeats(ledger') /\ Members(ledger') = Members(ledger) \union {h}
    BY <1>0, <1>1, <1>3, RememberAdds DEF RememberEviction
<1>5. /\ \A k \in survivors \cap Present : store'[k] = store[k] => k \in survivors'
      /\ dropped' \subseteq (dropped \union Dropped(t)) \ Present'
      /\ dropped' \subseteq Keys
    BY <1>1, Told
<1>6. Listed(t)'
  <2>1. Dropped(t) = {} /\ Noted(t) = Members(evictMarks) /\ Noted(t)' = Members(evictMarks) \union {h}
    BY <1>0, <1>1, <1>2 DEF Dropped, Noted
  <2> QED BY <1>2, <1>4, <1>5, <2>1 DEF Books, Listed
<1>7. AllSettled(t)'
  <2> SUFFICES ASSUME HasBudget, NEW k \in Present', store'[k].size # NoSize PROVE Settled(t, k)'
    BY DEF AllSettled
  <2>1. k \in Present /\ store'[k] = store[k] /\ Settled(t, k)
    BY <1>2 DEF Present, Books, AllSettled
  <2>2. CASE k \in ToEvict(t)
    <3>1. k = h \/ k \in Members(rest)
        BY <1>0, <1>1, <1>3, <2>2 DEF ToEvict
    <3>2. k \in Members(rest) => k \in ToEvict(t)'
        BY <1>0, <1>2 DEF ToEvict
    <3> QED BY <1>4, <3>1, <3>2 DEF Settled
  <2>3. CASE k \notin ToEvict(t)
    <3>1. k \in survivors \/ k \in Members(ledger) \/ TracksEntry(budget, k)
        BY <1>1, <2>1, <2>3 DEF Settled
    <3> QED BY <1>2, <1>4, <1>5, <2>1, <3>1 DEF Settled, TracksEntry
  <2> QED BY <2>2, <2>3
<1>8. CommitTidy(t)'
  <2>1. key[t] \in Present'
    BY <1>2, <1>3 DEF Present
  <2>2. /\ HasBudget => TracksEntry(budget, key[t])
        /\ Members(todo[t]) \cap (Tracked(budget) \union {key[t]}) = {}
        /\ NoRepeats(todo[t]) /\ Members(ledger) \cap Tracked(budget) \subseteq {key[t]}
    BY <1>1 DEF Books, CommitTidy, Evicting
  <2>3. Members(ledger') \cap Tracked(budget) \subseteq {key[t]}
    BY <1>3, <1>4, <2>2
  <2> QED BY <1>2, <2>1, <2>2, <2>3 DEF CommitTidy, Evicting, Draining, TracksEntry
<1>9. OtherTidy(t)'
    BY <1>2 DEF OtherTidy, Forgetting
<1>10. OfThisCode(t)'
    BY <1>2, <1>3, CommitKeepsCode DEF Erases
<1> QED BY <1>6, <1>7, <1>8, <1>9, <1>10 DEF Books

LEMMA NoteKeepsBooks ==
    ASSUME NEW t \in Threads, NoteEviction(t), Tell(t), UNCHANGED code, KeptInv, StoreTyped',
           Books(t), CapsSuffice
    PROVE  Books(t)'
<1>0. PICK h, list, rest : h = Head(todo[t]) /\ list = todo[t] /\ rest = Tail(todo[t])
    OBVIOUS
<1>1. /\ FlightTypes /\ StoreTyped /\ key[t] \in Keys /\ dropped \subseteq Keys
      /\ pc[t] = "note_eviction" /\ list \in Seq(Keys) /\ list # <<>>
      /\ evictMarks \in Seq(Keys) /\ NoRepeats(evictMarks) /\ todo \in [Threads -> Seq(Keys)]
    BY <1>0, BooksAreTyped DEF NoteEviction, HasKeys, KeptInv, BudgetInv, TodoTyped
<1>2. /\ UNCHANGED <<store, budget, ledger, key>> /\ todo'[t] = rest
      /\ pc'[t] = IF Len(list) = 1 THEN "settle" ELSE "evict"
    BY <1>0, <1>1 DEF NoteEviction, FlightTypes, Goto
<1>3. /\ h \in Keys /\ h \in Members(list) /\ h # key[t] /\ h \notin Tracked(budget)
      /\ rest \in Seq(Keys) /\ NoRepeats(rest) /\ Members(rest) = Members(list) \ {h}
      /\ key[t] \in Present /\ pc[t] \in Working
    BY <1>0, <1>1, NextKey DEF Evicting
<1>4. NoRepeats(evictMarks') /\ Members(evictMarks') = Members(evictMarks) \union {h}
    BY <1>0, <1>1, <1>3, RememberAdds DEF NoteEviction
<1>5. Len(list) = 1 => Members(rest) = {}
  <2>1. Len(rest) = Len(list) - 1 /\ Len(list) \in Nat /\ DOMAIN rest = 1 .. Len(rest)
    BY <1>0, <1>1, <1>3, HeadTailProperties, LenProperties
  <2> QED BY <2>1 DEF Members
<1>6. /\ \A k \in survivors \cap Present : store'[k] = store[k] => k \in survivors'
      /\ dropped' \subseteq (dropped \union Dropped(t)) \ Present'
      /\ dropped' \subseteq Keys
    BY <1>1, Told
<1>7. Listed(t)'
  <2>1. Dropped(t) = {} /\ Noted(t) = Members(evictMarks) \union {h} /\ Noted(t)' = Members(evictMarks')
    BY <1>0, <1>1, <1>2 DEF Dropped, Noted
  <2> QED BY <1>2, <1>4, <1>6, <2>1 DEF Books, Listed
<1>8. AllSettled(t)'
  <2> SUFFICES ASSUME HasBudget, NEW k \in Present', store'[k].size # NoSize PROVE Settled(t, k)'
    BY DEF AllSettled
  <2>1. k \in Present /\ store'[k] = store[k] /\ Settled(t, k)
    BY <1>2 DEF Present, Books, AllSettled
  <2>2. CASE k \in ToEvict(t)
    <3>1. k \in Members(rest)
        BY <1>0, <1>1, <2>2 DEF ToEvict
    <3>2. k \in ToEvict(t)'
        BY <1>2, <1>5, <3>1 DEF ToEvict
    <3> QED BY <3>2 DEF Settled
  <2>3. CASE k \notin ToEvict(t)
    <3>1. k \in survivors \/ k \in Members(ledger) \/ TracksEntry(budget, k)
        BY <1>1, <2>1, <2>3 DEF Settled
    <3> QED BY <1>2, <1>6, <2>1, <3>1 DEF Settled, TracksEntry
  <2> QED BY <2>2, <2>3
<1>9. CommitTidy(t)'
  <2>1. key[t] \in Present'
    BY <1>2, <1>3 DEF Present
  <2>2. /\ HasBudget => TracksEntry(budget, key[t])
        /\ Members(list) \cap (Tracked(budget) \union {key[t]}) = {}
        /\ Members(ledger) \cap Tracked(budget) \subseteq {key[t]}
    BY <1>0, <1>1 DEF Books, CommitTidy, Evicting
  <2>3. Members(rest) \cap (Tracked(budget) \union {key[t]}) = {}
    BY <1>3, <2>2
  <2> QED BY <1>2, <1>3, <2>1, <2>2, <2>3 DEF CommitTidy, Evicting, Draining, TracksEntry
<1>10. OtherTidy(t)'
    BY <1>2 DEF OtherTidy, Forgetting
<1>11. OfThisCode(t)'
    BY <1>2, <1>3, CommitKeepsCode DEF Erases
<1> QED BY <1>7, <1>8, <1>9, <1>10, <1>11 DEF Books

LEMMA SettleKeepsBooks ==
    ASSUME NEW t \in Threads, Settle(t), Tell(t), UNCHANGED code, KeptInv, StoreTyped', Books(t)
    PROVE  Books(t)'
<1>1. /\ FlightTypes /\ StoreTyped /\ key[t] \in Keys /\ dropped \subseteq Keys
      /\ pc[t] = "settle" /\ ledger \in Seq(Keys) /\ NoRepeats(ledger)
      /\ todo \in [Threads -> Seq(Keys)]
    BY BooksAreTyped DEF Settle, KeptInv, BudgetInv, TodoTyped
<1>2. /\ UNCHANGED <<store, budget, evictMarks, key>> /\ pc'[t] = "drain"
      /\ ledger' = Drop(ledger, key[t]) /\ todo'[t] = FirstOf(ledger', RetryBatch)
    BY <1>1 DEF Settle, FlightTypes, Goto
<1>3. /\ ledger' \in Seq(Keys) /\ NoRepeats(ledger') /\ Members(ledger') = Members(ledger) \ {key[t]}
    BY <1>1, <1>2, DropLeaves
<1>4. NoRepeats(todo'[t]) /\ Members(todo'[t]) \subseteq Members(ledger')
    BY <1>2, <1>3, FirstOfKeeps, NumbersAssumption
<1>5. /\ \A k \in survivors \cap Present : store'[k] = store[k] => k \in survivors'
      /\ dropped' \subseteq (dropped \union Dropped(t)) \ Present'
      /\ dropped' \subseteq Keys
    BY <1>1, Told
<1>6. /\ key[t] \in Present /\ (HasBudget => TracksEntry(budget, key[t]))
      /\ Members(ledger) \cap Tracked(budget) \subseteq {key[t]} /\ pc[t] \in Working
    BY <1>1 DEF Books, CommitTidy, Evicting, Working, Labels, InFlight, ClearLabels
<1>7. Listed(t)'
  <2>1. Dropped(t) = {} /\ Noted(t) = Members(evictMarks) /\ Noted(t)' = Members(evictMarks)
    BY <1>1, <1>2 DEF Dropped, Noted
  <2> QED BY <1>2, <1>3, <1>5, <2>1 DEF Books, Listed
<1>8. AllSettled(t)'
  <2> SUFFICES ASSUME HasBudget, NEW k \in Present', store'[k].size # NoSize PROVE Settled(t, k)'
    BY DEF AllSettled
  <2>1. k \in Present /\ store'[k] = store[k] /\ Settled(t, k)
    BY <1>2 DEF Present, Books, AllSettled
  <2>2. k \in survivors \/ k \in Members(ledger') \/ TracksEntry(budget, k)
    BY <1>1, <1>3, <1>6, <2>1 DEF Settled, ToEvict
  <2> QED BY <1>2, <1>5, <2>1, <2>2 DEF Settled, TracksEntry
<1>9. CommitTidy(t)'
  <2>1. key[t] \in Present'
    BY <1>2, <1>6 DEF Present
  <2> QED BY <1>2, <1>3, <1>4, <1>6, <2>1 DEF CommitTidy, Evicting, Draining
<1>10. OtherTidy(t)'
    BY <1>2 DEF OtherTidy, Forgetting
<1>11. OfThisCode(t)'
    BY <1>2, <1>6, CommitKeepsCode DEF Erases
<1> QED BY <1>7, <1>8, <1>9, <1>10, <1>11 DEF Books

LEMMA DrainKeepsBooks ==
    ASSUME NEW t \in Threads, DrainDelete(t), Tell(t), UNCHANGED code, KeptInv, StoreTyped', Books(t)
    PROVE  Books(t)'
<1>0. PICK h, list, rest : h = Head(todo[t]) /\ list = todo[t] /\ rest = Tail(todo[t])
    OBVIOUS
<1>1. /\ FlightTypes /\ StoreTyped /\ key[t] \in Keys /\ dropped \subseteq Keys
      /\ pc[t] = "drain" /\ list # <<>> /\ todo \in [Threads -> Seq(Keys)]
    BY <1>0, BooksAreTyped DEF DrainDelete, KeptInv, BudgetInv, TodoTyped
<1>2. UNCHANGED <<budget, ledger, evictMarks, key>>
    BY DEF DrainDelete, marks
<1>3. /\ h \in Keys /\ h \in Members(list) /\ h # key[t] /\ h \notin Tracked(budget)
      /\ rest \in Seq(Keys) /\ NoRepeats(rest) /\ Members(rest) = Members(list) \ {h}
      /\ key[t] \in Present /\ pc[t] \in Working
    BY <1>0, <1>1, NextKey DEF Draining
<1>4. /\ \A k \in Keys \ {h} : store'[k] = store[k]
      /\ \/ store'[h] = NoEntry /\ pc'[t] = "drained" /\ todo'[t] = list
         \/ UNCHANGED store /\ pc'[t] = "drain" /\ todo'[t] = rest
  <2>1. \/ Deleted(h) /\ Goto(t, "drained") /\ UNCHANGED todo
        \/ DeleteRaises(h) /\ todo' = [todo EXCEPT ![t] = Tail(@)] /\ UNCHANGED pc
    BY <1>0 DEF DrainDelete
  <2> QED BY <1>0, <1>1, <1>3, <2>1 DEF Deleted, DeleteRaises, FlightTypes, Goto, StoreTyped
<1>5. /\ \A k \in survivors \cap Present : store'[k] = store[k] => k \in survivors'
      /\ dropped' \subseteq (dropped \union Dropped(t)) \ Present'
      /\ dropped' \subseteq Keys
    BY <1>1, Told
<1>6. Erases /\ \A k \in Present' : k \in Present /\ store'[k] = store[k]
    BY <1>3, <1>4 DEF Erases, Present
<1>7. /\ Members(list) \subseteq Members(ledger) \ {key[t]} /\ NoRepeats(list)
      /\ key[t] \notin Members(ledger) /\ Members(ledger) \cap Tracked(budget) = {}
    BY <1>0, <1>1 DEF Books, CommitTidy, Draining, Evicting
<1>8. Listed(t)'
  <2>1. Dropped(t) \subseteq {h}
    BY <1>4 DEF Dropped, Present
  <2>2. Noted(t) = Members(evictMarks) /\ Noted(t)' = Members(evictMarks)
    BY <1>1, <1>2, <1>4 DEF Noted
  <2> QED BY <1>2, <1>3, <1>5, <1>7, <2>1, <2>2 DEF Books, Listed
<1>9. AllSettled(t)'
  <2> SUFFICES ASSUME HasBudget, NEW k \in Present', store'[k].size # NoSize PROVE Settled(t, k)'
    BY DEF AllSettled
  <2>1. k \in Present /\ store'[k] = store[k] /\ Settled(t, k)
    BY <1>6 DEF Books, AllSettled
  <2>2. k \in survivors \/ k \in Members(ledger) \/ TracksEntry(budget, k)
    BY <1>1, <2>1 DEF Settled, ToEvict
  <2> QED BY <1>2, <1>5, <2>1, <2>2 DEF Settled, TracksEntry
<1>10. CommitTidy(t)'
  <2>1. key[t] \in Present'
    BY <1>1, <1>3, <1>4 DEF Present
  <2>2. NoRepeats(todo'[t]) /\ Members(todo'[t]) \subseteq Members(ledger) \ {key[t]}
    BY <1>3, <1>4, <1>7
  <2>3. pc'[t] \in {"drain", "drained"} /\ (pc'[t] = "drained" => Head(todo'[t]) \notin Present')
    BY <1>0, <1>4 DEF Present
  <2> QED BY <1>2, <1>7, <2>1, <2>2, <2>3 DEF CommitTidy, Evicting, Draining
<1>11. OtherTidy(t)'
    BY <1>4 DEF OtherTidy, Forgetting
<1>12. OfThisCode(t)'
    BY <1>2, <1>3, <1>6, CommitKeepsCode
<1> QED BY <1>8, <1>9, <1>10, <1>11, <1>12 DEF Books

LEMMA DrainedKeepsBooks ==
    ASSUME NEW t \in Threads, DrainForget(t), Tell(t), UNCHANGED code, KeptInv, StoreTyped', Books(t)
    PROVE  Books(t)'
<1>0. PICK h, list, rest : h = Head(todo[t]) /\ list = todo[t] /\ rest = Tail(todo[t])
    OBVIOUS
<1>1. /\ FlightTypes /\ StoreTyped /\ key[t] \in Keys /\ dropped \subseteq Keys
      /\ pc[t] = "drained" /\ list # <<>> /\ todo \in [Threads -> Seq(Keys)]
      /\ ledger \in Seq(Keys) /\ NoRepeats(ledger)
    BY <1>0, BooksAreTyped DEF DrainForget, HasKeys, KeptInv, BudgetInv, TodoTyped
<1>2. /\ UNCHANGED <<store, budget, evictMarks, key>> /\ pc'[t] = "drain" /\ todo'[t] = rest
      /\ ledger' = Drop(ledger, h)
    BY <1>0, <1>1 DEF DrainForget, FlightTypes, Goto
<1>3. /\ NoRepeats(rest) /\ Members(rest) = Members(list) \ {h}
      /\ key[t] \in Present /\ pc[t] \in Working
    BY <1>0, <1>1, NextKey DEF Draining
<1>4. NoRepeats(ledger') /\ Members(ledger') = Members(ledger) \ {h}
    BY <1>1, <1>2, DropLeaves
<1>5. /\ \A k \in survivors \cap Present : store'[k] = store[k] => k \in survivors'
      /\ dropped' \subseteq (dropped \union Dropped(t)) \ Present'
      /\ dropped' \subseteq Keys
    BY <1>1, Told
<1>6. /\ Members(list) \subseteq Members(ledger) \ {key[t]} /\ h \notin Present
      /\ key[t] \notin Members(ledger) /\ Members(ledger) \cap Tracked(budget) = {}
    BY <1>0, <1>1 DEF Books, CommitTidy, Draining, Evicting
<1>7. Listed(t)'
  <2>1. Dropped(t) = {} /\ Noted(t) = Members(evictMarks) /\ Noted(t)' = Members(evictMarks)
    BY <1>1, <1>2 DEF Dropped, Noted
  <2> QED BY <1>2, <1>4, <1>5, <2>1 DEF Books, Listed
<1>8. AllSettled(t)'
  <2> SUFFICES ASSUME HasBudget, NEW k \in Present', store'[k].size # NoSize PROVE Settled(t, k)'
    BY DEF AllSettled
  <2>1. k \in Present /\ store'[k] = store[k] /\ Settled(t, k) /\ k # h
    BY <1>2, <1>6 DEF Present, Books, AllSettled
  <2>2. k \in survivors \/ k \in Members(ledger') \/ TracksEntry(budget, k)
    BY <1>1, <1>4, <2>1 DEF Settled, ToEvict
  <2> QED BY <1>2, <1>5, <2>1, <2>2 DEF Settled, TracksEntry
<1>9. CommitTidy(t)'
  <2>1. key[t] \in Present'
    BY <1>2, <1>3 DEF Present
  <2>2. Members(rest) \subseteq Members(ledger') \ {key[t]} /\ key[t] \notin Members(ledger')
    BY <1>3, <1>4, <1>6
  <2>3. Members(ledger') \cap Tracked(budget) = {}
    BY <1>4, <1>6
  <2> QED BY <1>2, <1>3, <2>1, <2>2, <2>3 DEF CommitTidy, Evicting, Draining
<1>10. OtherTidy(t)'
    BY <1>2 DEF OtherTidy, Forgetting
<1>11. OfThisCode(t)'
    BY <1>2, <1>3, CommitKeepsCode DEF Erases
<1> QED BY <1>7, <1>8, <1>9, <1>10, <1>11 DEF Books

(* The key that leaves the marks is stored, so it is neither in the ledger *)
(* nor among the dropped.                                                  *)
LEMMA FinishKeepsBooks ==
    ASSUME NEW t \in Threads, FinishCommit(t), Tell(t), UNCHANGED code, KeptInv, StoreTyped', Books(t)
    PROVE  Books(t)'
<1>1. /\ FlightTypes /\ StoreTyped /\ key[t] \in Keys /\ dropped \subseteq Keys
      /\ pc[t] = "drain" /\ todo[t] = <<>> /\ evictMarks \in Seq(Keys) /\ NoRepeats(evictMarks)
    BY BooksAreTyped DEF FinishCommit
<1>2. /\ UNCHANGED <<store, budget, ledger, key>> /\ pc'[t] = "returned"
      /\ evictMarks' = Drop(evictMarks, key[t])
    BY <1>1 DEF FinishCommit, Conclude, FlightTypes, Goto, locals
<1>3. NoRepeats(evictMarks') /\ Members(evictMarks') = Members(evictMarks) \ {key[t]}
    BY <1>1, <1>2, DropLeaves
<1>4. /\ \A k \in survivors \cap Present : store'[k] = store[k] => k \in survivors'
      /\ dropped' \subseteq (dropped \union Dropped(t)) \ Present'
      /\ dropped' \subseteq Keys
    BY <1>1, Told
<1>5. /\ key[t] \in Present /\ key[t] \notin Members(ledger) /\ pc[t] \in Working
      /\ Members(ledger) \cap Tracked(budget) = {}
    BY <1>1 DEF Books, CommitTidy, Draining, Evicting, Working, Labels, InFlight, ClearLabels
<1>6. Listed(t)'
  <2>1. Dropped(t) = {}
    BY <1>2 DEF Dropped, Present
  <2>2. Noted(t) = Members(evictMarks) /\ Noted(t)' = Members(evictMarks')
    BY <1>1, <1>2 DEF Noted
  <2>3. key[t] \notin dropped'
    BY <1>2, <1>4, <1>5 DEF Present
  <2> QED BY <1>2, <1>3, <1>4, <1>5, <2>1, <2>2, <2>3 DEF Books, Listed
<1>7. AllSettled(t)'
  <2> SUFFICES ASSUME HasBudget, NEW k \in Present', store'[k].size # NoSize PROVE Settled(t, k)'
    BY DEF AllSettled
  <2>1. k \in Present /\ store'[k] = store[k] /\ Settled(t, k)
    BY <1>2 DEF Present, Books, AllSettled
  <2>2. k \in survivors \/ k \in Members(ledger) \/ TracksEntry(budget, k)
    BY <1>1, <2>1 DEF Settled, ToEvict
  <2> QED BY <1>2, <1>4, <2>1, <2>2 DEF Settled, TracksEntry
<1>8. CommitTidy(t)'
    BY <1>2, <1>5 DEF CommitTidy, Evicting, Draining
<1>9. OtherTidy(t)'
    BY <1>2 DEF OtherTidy, Forgetting
<1>10. OfThisCode(t)'
    BY <1>2, <1>5, CommitKeepsCode DEF Erases
<1> QED BY <1>6, <1>7, <1>8, <1>9, <1>10 DEF Books

LEMMA ProfileDeleteKeepsBooks ==
    ASSUME NEW t \in Threads, ProfileDelete(t), Tell(t), UNCHANGED code, KeptInv, StoreTyped', Books(t)
    PROVE  Books(t)'
<1>1. /\ FlightTypes /\ StoreTyped /\ key[t] \in Keys /\ dropped \subseteq Keys
      /\ pc[t] = "profile_delete" /\ deleteFaults \in Nat
    BY BooksAreTyped DEF ProfileDelete
<1>2. UNCHANGED <<budget, ledger, evictMarks, key>> /\ pc'[t] = "idle"
    BY <1>1 DEF ProfileDelete, ProfileEnds, FlightTypes, Goto, marks
<1>3. /\ Erases
      /\ store'[key[t]] = NoEntry \/ DeleteFailed(t)
  <2>1. Erases /\ (store'[key[t]] = NoEntry \/ deleteFaults' > deleteFaults)
    BY <1>1, DeletedOrLeftOver DEF ProfileDelete
  <2>2. deleteFaults' > deleteFaults => DeleteFailed(t)
    BY <1>1, <1>2 DEF DeleteFailed
  <2> QED BY <2>1, <2>2
<1>4. /\ \A k \in survivors \cap Present : store'[k] = store[k] => k \in survivors'
      /\ DeleteFailed(t) => key[t] \in survivors'
      /\ dropped' \subseteq (dropped \union Dropped(t)) \ Present'
      /\ dropped' \subseteq Keys
    BY <1>1, Told
<1>5. \A k \in Present' : k \in Present /\ store'[k] = store[k]
    BY <1>3 DEF Erases, Present
<1>6. Listed(t)'
  <2>1. Dropped(t) = {} /\ Noted(t) = Members(evictMarks) /\ Noted(t)' = Members(evictMarks)
    BY <1>1, <1>2 DEF Dropped, Noted
  <2> QED BY <1>2, <1>4, <2>1 DEF Books, Listed
<1>7. AllSettled(t)'
  <2> SUFFICES ASSUME HasBudget, NEW k \in Present', store'[k].size # NoSize PROVE Settled(t, k)'
    BY DEF AllSettled
  <2>1. k \in Present /\ store'[k] = store[k] /\ Settled(t, k) /\ store'[k] # NoEntry
    BY <1>5 DEF Present, Books, AllSettled
  <2>2. CASE k = key[t]
    BY <1>3, <1>4, <2>1, <2>2 DEF Settled
  <2>3. CASE k # key[t]
    <3>1. k \in survivors \/ k \in Members(ledger) \/ TracksEntry(budget, k)
        BY <1>1, <2>1, <2>3 DEF Settled, ToEvict
    <3> QED BY <1>2, <1>4, <2>1, <3>1 DEF Settled, TracksEntry
  <2> QED BY <2>2, <2>3
<1>8. CommitTidy(t)'
  <2>1. Members(ledger) \cap Tracked(budget) = {}
    BY <1>1 DEF Books, CommitTidy, Evicting
  <2> QED BY <1>2, <2>1 DEF CommitTidy, Evicting, Draining
<1>9. OtherTidy(t)'
    BY <1>2 DEF OtherTidy, Forgetting
<1>10. OfThisCode(t)'
  <2>1. pc[t] \in Working
    BY <1>1 DEF Working, Labels, ClearLabels
  <2> QED BY <1>2, <1>3, <2>1, CommitKeepsCode
<1> QED BY <1>6, <1>7, <1>8, <1>9, <1>10 DEF Books

(* clear() has emptied the store; now the budget, then the registries.     *)
LEMMA ClearKeepsBooks ==
    ASSUME NEW t \in Threads, ClearStore(t) \/ ClearBudget(t) \/ ClearMarks(t), Tell(t),
           UNCHANGED code, KeptInv, StoreTyped', Books(t)
    PROVE  Books(t)'
<1>1. /\ FlightTypes /\ StoreTyped /\ dropped \subseteq Keys
      /\ pc[t] \in ClearLabels /\ pc'[t] \in {"clear_budget", "clear_marks", "idle"}
    BY BooksAreTyped DEF ClearStore, ClearBudget, ClearMarks, ClearLabels, FlightTypes, Goto
<1>2. Present' = {} /\ Erases
  <2>1. CASE ClearStore(t)
    BY <2>1 DEF ClearStore, Present, Erases, Books, OtherTidy
  <2>2. CASE ClearBudget(t) \/ ClearMarks(t)
    BY <2>2 DEF ClearBudget, ClearMarks, Present, Erases, Books, OtherTidy
  <2> QED BY <2>1, <2>2
<1>3. /\ dropped' \subseteq (dropped \union Dropped(t)) \ Present'
      /\ dropped' \subseteq Keys
    BY <1>1, Told
<1>4. Members(ledger) \cap Tracked(budget) = {}
    BY <1>1 DEF Books, CommitTidy, Evicting, ClearLabels
<1>5. Listed(t)'
  <2>1. Noted(t) = Members(evictMarks) /\ Noted(t)' = Members(evictMarks') /\ Dropped(t) = {}
    BY <1>1 DEF Noted, Dropped, ClearLabels
  <2>2. CASE ClearStore(t) \/ ClearBudget(t)
    <3>1. UNCHANGED <<ledger, evictMarks>>
        BY <2>2 DEF ClearStore, ClearBudget, marks
    <3> QED BY <1>3, <2>1, <3>1 DEF Books, Listed
  <2>3. CASE ClearMarks(t)
    <3>1. ledger' = <<>> /\ evictMarks' = <<>> /\ dropped' = {}
        BY <2>3 DEF ClearMarks, Tell
    <3>2. Members(<<>>) = {} /\ NoRepeats(<<>>)
        BY DEF Members, NoRepeats
    <3> QED BY <2>1, <3>1, <3>2 DEF Listed
  <2> QED BY <2>2, <2>3
<1>6. AllSettled(t)'
    BY <1>2 DEF AllSettled
<1>7. CommitTidy(t)'
  <2>1. Members(ledger') \cap Tracked(budget') = {}
    <3>1. CASE ClearStore(t)
        BY <1>4, <3>1 DEF ClearStore, marks
    <3>2. CASE ClearBudget(t)
        BY <3>2, EmptyTracksNothing DEF ClearBudget
    <3>3. CASE ClearMarks(t)
        BY <3>3 DEF ClearMarks, Members
    <3> QED BY <3>1, <3>2, <3>3
  <2> QED BY <1>1, <2>1 DEF CommitTidy, Evicting, Draining
<1>8. OtherTidy(t)'
    BY <1>1, <1>2 DEF OtherTidy, Forgetting
<1>9. OfThisCode(t)'
    BY <1>1, <1>2 DEF OfThisCode, Working, ClearLabels
<1> QED BY <1>5, <1>6, <1>7, <1>8, <1>9 DEF Books

LEMMA RunsKeepBooks ==
    ASSUME NEW t \in Threads, Threads = {t}, CapsSuffice, Runs, KeptInv, KeptInv', SoloInv(t)
    PROVE  SoloInv(t)'
<1>1. up /\ up' /\ UNCHANGED code /\ Books(t) /\ StoreTyped'
    BY DEF Runs, life, SoloInv, KeptInv, TypeInv, DataTypes, StoreTyped
<1>2. FlightTypes /\ StoreTyped /\ deleteFaults \in Nat
    BY <1>1, BooksAreTyped
<1>3. /\ \/ \E k \in Keys : CodeOf[k] = code
                           /\ (StartCall(t, k) \/ StartInvalidate(t, k) \/ StartProfile(t, k))
         \/ StartClear(t) \/ CallStep(t) \/ CommitStep(t) \/ VerifyStep(t) \/ ControlStep(t)
      /\ Tell(t)
    BY DEF Runs, Step
<1>4. Calm(t) => Books(t)'
    BY <1>1, <1>3, CalmKeepsBooks
<1>5. ASSUME CommitStep(t) PROVE Books(t)'
  <2>1. RecheckDeps(t) \/ SkipUnsized(t) \/ WriteFails(t) => Calm(t)
    BY <1>2, CommitIsCalm
  <2>2. Write(t) => Books(t)'
    BY <1>1, <1>3, WritesStore, StoreKeepsBooks
  <2> QED BY <1>1, <1>3, <1>4, <1>5, <2>1, <2>2, AdmitKeepsBooks, EvictKeepsBooks,
             RememberKeepsBooks, NoteKeepsBooks, SettleKeepsBooks, DrainKeepsBooks,
             DrainedKeepsBooks, FinishKeepsBooks
          DEF CommitStep
<1>6. ASSUME ControlStep(t) PROVE Books(t)'
  <2>1. ASSUME \/ InvalidateDelete(t) \/ InvalidateMark(t) \/ InvalidateQuarantine(t)
               \/ InvalidateReturns(t) \/ ClearRaises(t) \/ ProfileLookup(t)
               \/ ProfileWriteFails(t) \/ ClearEntry(t)
        PROVE  Books(t)'
    <3>1. ClearEntry(t) => Present \subseteq sweep[t] /\ sweep \in [Threads -> SUBSET Keys]
        BY <1>1 DEF ClearEntry, Books, OtherTidy, KeptInv, TypeInv, DataTypes
    <3> QED BY <1>2, <1>4, <2>1, <3>1, ControlIsCalm
  <2>2. ProfileWrite(t) => Books(t)'
    BY <1>1, <1>3, WritesStore, StoreKeepsBooks
  <2> QED BY <1>1, <1>3, <1>6, <2>1, <2>2, ProfileDeleteKeepsBooks, ClearKeepsBooks
          DEF ControlStep
<1>7. Books(t)'
  <2>1. sweep \in [Threads -> SUBSET Keys]
    BY DEF KeptInv, TypeInv, DataTypes
  <2> QED BY <1>2, <1>3, <1>4, <1>5, <1>6, <2>1, StartIsCalm, CallIsCalm, VerifyIsCalm
<1> QED BY <1>1, <1>7 DEF SoloInv

(* A decoration tracks, deletes or leaves over whatever it finds.          *)
LEMMA DecorateOpensBooks ==
    ASSUME NEW t \in Threads, Decorate, KeptInv, SoloInv(t)
    PROVE  SoloInv(t)'
<1>1. /\ StoreTyped /\ WellKept(budget', Keys) /\ ~ up /\ up' /\ UNCHANGED <<pc, key, code>>
      /\ ledger' = <<>> /\ evictMarks' = <<>> /\ dropped' = {} /\ pc[t] = "idle"
      /\ UNCHANGED todo
  <2>1. ~ up /\ UNCHANGED <<marks, locals, pc, code>> /\ up' /\ dropped' = {}
    BY DEF Decorate
  <2>2. KeptInv'
    BY DecorateKeeps
  <2> QED BY <2>1, <2>2 DEF SoloInv, NoBooks, marks, locals, KeptInv, TypeInv, DataTypes,
             StoreTyped, BudgetInv
<1> DEFINE purged == (Present \ Ours) \union (IF HasBudget THEN Rehydrated.deleted ELSE {})
<1>2. PICK failing \in SUBSET Keys :
        /\ store' = [k \in Keys |-> IF k \in purged \ failing THEN NoEntry ELSE store[k]]
        /\ survivors' = failing
    BY DEF Decorate
<1>3. ASSUME NEW k \in Present'
      PROVE  k \in Present /\ store'[k] = store[k] /\ (k \in survivors' \/ k \notin purged)
  <2> HIDE DEF purged
  <2> QED BY <1>2, <1>3 DEF Present
<1>4. Members(<<>>) = {} /\ NoRepeats(<<>>)
    BY DEF Members, NoRepeats
<1>5. Listed(t)'
    BY <1>1, <1>4 DEF Listed
<1>6. AllSettled(t)'
  <2> SUFFICES ASSUME HasBudget, NEW k \in Present', store'[k].size # NoSize, k \notin survivors'
               PROVE  Settled(t, k)'
    BY DEF AllSettled, Settled
  <2>1. store'[k] = store[k] /\ k \in Sized /\ k \notin Rehydrated.deleted
    BY <1>3 DEF Sized
  <2>2. budget' = Rehydrated.budget
    BY DEF Decorate
  <2>3. k \in Tracked(budget')
    BY <1>1, <2>1, <2>2, LoopSettlesRows
  <2>4. SizeOf(budget', k) = store[k].size
    BY <1>1, <2>2, <2>3, RehydratedTracks DEF KeepsNewest
  <2> QED BY <2>1, <2>3, <2>4 DEF Settled, TracksEntry
<1>7. CommitTidy(t)'
    BY <1>1, <1>4 DEF CommitTidy, Evicting, Draining
<1>8. OtherTidy(t)'
    BY <1>1 DEF OtherTidy, Forgetting
<1>9. OfThisCode(t)'
  <2>1. ASSUME NEW k \in (Present \ Ours)' PROVE k \in survivors'
    <3>1. k \in Present' /\ CodeOf[k] # code
        BY <1>1, <2>1 DEF Ours
    <3>2. k \in Present \ Ours
        BY <1>3, <3>1 DEF Ours
    <3> QED BY <1>3, <3>1, <3>2
  <2> QED BY <1>1, <2>1 DEF OfThisCode, Working
<1> QED BY <1>1, <1>5, <1>6, <1>7, <1>8, <1>9 DEF SoloInv, Books

LEMMA PersistentStepKeepsBooks ==
    ASSUME NEW t \in Threads, Threads = {t}, CapsSuffice, KeptInv, KeptInv', SoloInv(t),
           [PersistentNext]_allVars
    PROVE  SoloInv(t)'
<1>1. CASE Stop
  <2>1. ~ up' /\ pc'[t] = "idle" /\ ledger' = <<>> /\ evictMarks' = <<>> /\ dropped' = {}
    BY <1>1 DEF Stop
  <2> QED BY <2>1 DEF SoloInv, NoBooks
<1>2. CASE EarlierRun
  <2>1. ~ up /\ UNCHANGED <<up, pc, ledger, evictMarks, dropped>>
    BY <1>2 DEF EarlierRun, life, tales, marks
  <2> QED BY <2>1 DEF SoloInv, NoBooks
<1>3. CASE Edit
  <2>1. ~ up /\ UNCHANGED <<up, pc, ledger, evictMarks, dropped>>
    BY <1>3 DEF Edit, vars, tales, marks
  <2> QED BY <2>1 DEF SoloInv, NoBooks
<1>4. CASE (World /\ UNCHANGED <<life, tales>>) \/ UNCHANGED allVars
  <2>1. UNCHANGED <<up, code, store, budget, ledger, evictMarks, dropped, survivors, pc, key, todo,
                    bytes, sweep>>
    BY <1>4 DEF World, cacheVars, vars, life, tales, marks, locals, allVars
  <2>2. UNCHANGED <<Present, Ours, ToEvict(t), Noted(t)>>
    BY <2>1 DEF Present, Ours, ToEvict, Noted
  <2>3. Listed(t)' = Listed(t) /\ OtherTidy(t)' = OtherTidy(t) /\ OfThisCode(t)' = OfThisCode(t)
    BY <2>1, <2>2 DEF Listed, OtherTidy, OfThisCode
  <2>4. AllSettled(t)' = AllSettled(t)
    BY <2>1, <2>2 DEF AllSettled, Settled, TracksEntry
  <2>5. CommitTidy(t)' = CommitTidy(t)
    BY <2>1, <2>2 DEF CommitTidy, TracksEntry
  <2> QED BY <2>1, <2>3, <2>4, <2>5 DEF SoloInv, Books, NoBooks
<1> QED BY <1>1, <1>2, <1>3, <1>4, RunsKeepBooks, DecorateOpensBooks DEF PersistentNext

(* A program whose calls of the function do not overlap.                   *)
OneCaller == \E t : Threads = {t}

SoloBooks == \A t \in Threads : SoloInv(t)

LEMMA SoloInvariance ==
    ASSUME OneCaller, CapsSuffice
    PROVE  PersistentSpec => []SoloBooks
<1>0. PICK t : Threads = {t}
    BY DEF OneCaller
<1>1. PersistentInit => SoloBooks
  <2> SUFFICES ASSUME PersistentInit PROVE SoloInv(t)
    BY <1>0 DEF SoloBooks
  <2>1. ~ up /\ pc[t] = "idle" /\ ledger = <<>> /\ evictMarks = <<>> /\ dropped = {}
    BY <1>0 DEF PersistentInit, Init
  <2> QED BY <2>1 DEF SoloInv, NoBooks
<1>2. KeptInv /\ KeptInv' /\ SoloBooks /\ [PersistentNext]_allVars => SoloBooks'
    BY <1>0, PersistentStepKeepsBooks DEF SoloBooks
<1> QED BY <1>1, <1>2, KeptInvariance, PTL DEF PersistentSpec

(* Between two operations the books leave nothing to one.                  *)
LEMMA RestSettles ==
    ASSUME OneCaller, SoloBooks, UpAtRest
    PROVE  /\ HasBudget => \A k \in Present : store[k].size # NoSize =>
                k \in survivors \/ InSeq(k, ledger) \/ TracksEntry(budget, k)
           /\ \A k \in dropped : k \in Keys \ Present /\ InSeq(k, evictMarks)
<1>1. PICK t : Threads = {t}
    BY DEF OneCaller
<1>2. Books(t) /\ pc[t] = "idle"
    BY <1>1 DEF SoloBooks, SoloInv, UpAtRest, AtRest
<1>3. ToEvict(t) = {} /\ Noted(t) = Members(evictMarks)
    BY <1>2 DEF ToEvict, Noted
<1> QED BY <1>2, <1>3, InSeqIsMember DEF Books, AllSettled, Settled, Listed

(* The budget knows every entry it could evict: what is stored for this    *)
(* code, has a size and is no left-over of a failed delete is tracked with *)
(* its size, also after a program stopped between set and admit.           *)
THEOREM EveryEntryIsAccountedHolds ==
    ASSUME OneCaller, CapsSuffice
    PROVE  PersistentSpec => []EveryEntryIsAccounted
<1>1. SoloBooks => EveryEntryIsAccounted
  <2> SUFFICES ASSUME SoloBooks, HasBudget, UpAtRest, NEW k \in Sized \ survivors, ~ InSeq(k, ledger)
               PROVE  k \in Tracked(budget) /\ SizeOf(budget, k) = store[k].size
    BY DEF EveryEntryIsAccounted
  <2>1. k \in Present /\ store[k].size # NoSize
    BY DEF Sized, Ours
  <2> QED BY <2>1, RestSettles DEF TracksEntry
<1> QED BY <1>1, SoloInvariance, PTL

LEMMA WithinBudget ==
    ASSUME StoreTyped, WellKept(budget, Keys),
           NEW W \in SUBSET Keys, \A k \in W : store[k].size \in Nat,
           NEW L \in SUBSET W, \A k \in W \ L : TracksEntry(budget, k)
    PROVE  SizesOf(W) <= MaxBytes + SizesOf(L)
<1> DEFINE T == Tracked(budget)
           f == [k \in Keys |-> store[k].size]
           g == [k \in T |-> SizeOf(budget, k)]
<1>1. /\ budget.lru \in Seq(Items(Keys)) /\ OnePerKey(budget.lru)
      /\ budget.total = Weight(budget) /\ budget.total <= MaxBytes
    BY DEF WellKept, Consistent
<1>2. IsFiniteSet(T) /\ \A k \in T : g[k] \in Nat
    BY <1>1, TrackedIsFinite, TrackedKey
<1>3. budget.total = SumFunctionOnSet(g, T)
    BY <1>1 DEF Weight, SumFunction
<1>4. W \ L \in SUBSET T /\ \A k \in W \ L : f[k] = g[k]
    BY DEF TracksEntry
<1>5. IsFiniteSet(W) /\ IsFiniteSet(L) /\ IsFiniteSet(W \ L) /\ W \cap L = L
    BY PersistenceAssumption, FS_Subset
<1>6. \A k \in W : f[k] \in Nat /\ f[k] = store[k].size
    OBVIOUS
<1>7. ASSUME NEW S \in SUBSET W PROVE SizesOf(S) = SumFunctionOnSet(f, S)
  <2> DEFINE h == [k \in S |-> store[k].size]
  <2>1. SizesOf(S) = SumFunctionOnSet(h, S)
    BY DEF SizesOf, SumFunction
  <2>2. IsFiniteSet(S) /\ \A k \in S : h[k] \in Int /\ h[k] = f[k]
    BY <1>5, <1>6, FS_Subset
  <2> HIDE DEF f, h
  <2>3. SumFunctionOnSet(h, S) = SumFunctionOnSet(f, S)
    BY <2>2, SumAgrees
  <2> QED BY <2>1, <2>3
<1> HIDE DEF T, f, g
<1>8. SumFunctionOnSet(f, W) = SumFunctionOnSet(f, L) + SumFunctionOnSet(f, W \ L)
  <2>1. \A k \in W : f[k] \in Int
    BY <1>6
  <2>2. SumFunctionOnSet(f, W) = SumFunctionOnSet(f, W \cap L) + SumFunctionOnSet(f, W \ L)
    BY <1>5, <2>1, SumSplits
  <2> QED BY <1>5, <2>2
<1>9. SumFunctionOnSet(f, W \ L) = SumFunctionOnSet(g, W \ L)
    BY <1>4, <1>5, <1>6, SumAgrees
<1>10. SumFunctionOnSet(g, W \ L) <= SumFunctionOnSet(g, T)
    BY <1>2, <1>4, SumGrows
<1>11. /\ SumFunctionOnSet(f, L) \in Nat /\ SumFunctionOnSet(g, W \ L) \in Nat
       /\ SumFunctionOnSet(g, T) \in Nat
    BY <1>2, <1>4, <1>5, <1>6, SumIsNat
<1>12. SizesOf(W) = SumFunctionOnSet(f, W) /\ SizesOf(L) = SumFunctionOnSet(f, L)
    BY <1>7
<1> QED BY ONLY <1>1, <1>3, <1>8, <1>9, <1>10, <1>11, <1>12, MaxBytesAssumption

(* max_memory= holds across restarts, as stats() reports it: outside of    *)
(* any operation the entries of the namespace fit, those apart whose       *)
(* delete has failed.                                                      *)
THEOREM BoundHoldsAcrossRestartsHolds ==
    ASSUME OneCaller, CapsSuffice
    PROVE  PersistentSpec => []BoundHoldsAcrossRestarts
<1>1. KeptInv /\ SoloBooks => BoundHoldsAcrossRestarts
  <2> SUFFICES ASSUME KeptInv, SoloBooks, HasBudget, UpAtRest
               PROVE  CurrentBytes <= MaxBytes
                        + SizesOf({k \in Present : store[k].size # NoSize
                                                    /\ (k \in survivors \/ InSeq(k, ledger))})
    BY DEF BoundHoldsAcrossRestarts
  <2> DEFINE W == {k \in Present : store[k].size # NoSize}
             L == {k \in Present : store[k].size # NoSize /\ (k \in survivors \/ InSeq(k, ledger))}
  <2>1. StoreTyped /\ WellKept(budget, Keys)
    BY DEF KeptInv, TypeInv, DataTypes, StoreTyped, BudgetInv
  <2>2. W \in SUBSET Keys /\ L \in SUBSET W
    BY DEF Present
  <2>3. \A k \in W : store[k].size \in Nat
    BY <2>1 DEF StoreTyped
  <2>4. \A k \in W \ L : TracksEntry(budget, k)
    BY RestSettles
  <2>5. CurrentBytes = SizesOf(W)
    BY DEF CurrentBytes, SizesOf
  <2> HIDE DEF W, L
  <2>6. SizesOf(W) <= MaxBytes + SizesOf(L)
    BY <2>1, <2>2, <2>3, <2>4, WithinBudget
  <2> QED BY <2>5, <2>6 DEF L
<1> QED BY <1>1, KeptInvariance, SoloInvariance, PTL

(* explain(): an entry the budget dropped, whether at once or by a retry   *)
(* of the ledger, is reported as evicted until it is invalidated, cleared  *)
(* or forgotten by a restart.                                              *)
THEOREM EvictionsAreExplainedHolds ==
    ASSUME OneCaller, CapsSuffice
    PROVE  PersistentSpec => []EvictionsAreExplained
<1>1. SoloBooks => EvictionsAreExplained
  <2> SUFFICES ASSUME SoloBooks, UpAtRest, NEW k \in dropped
               PROVE  Explain(k) \in {"evicted", "invalidated"}
    BY DEF EvictionsAreExplained
  <2>1. store[k] = NoEntry /\ InSeq(k, evictMarks)
    BY RestSettles DEF Present
  <2> QED BY <2>1 DEF Explain
<1> QED BY <1>1, SoloInvariance, PTL

(* Of the steps of the caller, only the retried delete leads from the head *)
(* of the drain loop into it.                                              *)
LEMMA OnlyDrainDeletes ==
    ASSUME NEW t \in Threads, Threads = {t}, Runs, FlightTypes, StoreTyped, deleteFaults \in Nat,
           pc[t] = "drain", pc'[t] = "drained"
    PROVE  DrainDelete(t)
<1>1. \/ \E k \in Keys : CodeOf[k] = code
                        /\ (StartCall(t, k) \/ StartInvalidate(t, k) \/ StartProfile(t, k))
      \/ StartClear(t) \/ CallStep(t) \/ CommitStep(t) \/ VerifyStep(t) \/ ControlStep(t)
    BY DEF Runs, Step
<1>2. ~ Calm(t)
    BY DEF Calm, Booking, Draining
<1>3. CommitStep(t)
  <2>1. ~ ControlStep(t)
    BY DEF ControlStep, InvalidateDelete, InvalidateMark, InvalidateQuarantine,
           InvalidateReturns, ClearEntry, ClearStore, ClearRaises, ClearBudget, ClearMarks, ProfileLookup,
           ProfileWrite, ProfileWriteFails, ProfileDelete
  <2>2. /\ ~ StartClear(t)
        /\ \A k \in Keys : ~ (StartCall(t, k) \/ StartInvalidate(t, k) \/ StartProfile(t, k))
    BY DEF StartClear, StartCall, StartInvalidate, StartProfile
  <2> QED BY <1>1, <1>2, <2>1, <2>2, CallIsCalm, VerifyIsCalm
<1>4. FinishCommit(t) => pc'[t] = "returned"
    BY DEF FinishCommit, Conclude, Goto, FlightTypes
<1> QED BY <1>3, <1>4
        DEF CommitStep, RecheckDeps, SkipUnsized, Write, WriteFails, AdmitEntry, EvictDelete,
            RememberEviction, NoteEviction, Settle, DrainForget

(* drain_pending_evictions retries the delete of evicted keys: it removes  *)
(* no entry that the budget tracks.                                        *)
THEOREM DrainSparesLiveEntriesHolds ==
    ASSUME OneCaller, CapsSuffice
    PROVE  PersistentSpec => DrainSparesLiveEntries
<1> DEFINE SparesTracked == \A t \in Threads :
                (pc[t] = "drain" /\ pc'[t] = "drained" /\ store[Head(todo[t])] # NoEntry)
                    => Head(todo[t]) \notin Tracked(budget)
<1>1. KeptInv /\ SoloBooks /\ [PersistentNext]_allVars => [SparesTracked]_vars
  <2> SUFFICES ASSUME KeptInv, SoloBooks, [PersistentNext]_allVars,
                      NEW t \in Threads, pc[t] = "drain", pc'[t] = "drained"
               PROVE  Head(todo[t]) \notin Tracked(budget)
    BY DEF vars
  <2>1. Books(t)
    BY DEF SoloBooks, SoloInv, NoBooks
  <2>2. todo[t] # <<>>
    <3>1. Runs
      <4>1. UNCHANGED allVars \/ World \/ EarlierRun \/ Edit => UNCHANGED pc
        BY DEF allVars, vars, World, cacheVars, EarlierRun, Edit
      <4>2. Stop => pc'[t] = "idle"
        BY DEF Stop
      <4>3. Decorate => UNCHANGED pc
        BY DEF Decorate
      <4> QED BY <4>1, <4>2, <4>3 DEF PersistentNext
    <3>2. FlightTypes /\ StoreTyped /\ deleteFaults \in Nat
        BY <2>1, BooksAreTyped
    <3>3. Threads = {t}
        BY DEF OneCaller
    <3> QED BY <3>1, <3>2, <3>3, OnlyDrainDeletes DEF DrainDelete
  <2> QED BY <2>1, <2>2, NextKey DEF Draining
<1> QED BY <1>1, KeptInvariance, SoloInvariance, PTL DEF PersistentSpec, DrainSparesLiveEntries

-----------------------------------------------------------------------------
(* Part 6: what one caller is told, and what it is served.                 *)

(* The labels of a call that has not found out yet whether it hits, and    *)
(* those of them at which it has read the store.                           *)
Weighing == {"judge", "rejudge", "verify_judge"}
Asking == {"lookup", "lock", "relookup", "verify_lock", "verify_lookup"} \union Weighing

(* With a ttl=, a wall clock that does not step back is what the ratchet   *)
(* reads.                                                                  *)
SteadyClock == HasTTL => MaxClockBack = 0
TimeHolds == HasTTL => observed <= clock
Overdue(e) == HasTTL /\ clock >= e.expires

(* Nobody else writes: what the caller read is what the store holds.       *)
SeesTheStore(t) ==
    /\ pc[t] \in Asking \union Chosen => floor[t] = condemned[key[t]]
    /\ pc[t] \in Weighing \union Chosen =>
            got[t] = IF key[t] \in pending THEN NoEntry ELSE store[key[t]]
    /\ pc[t] = "delete_stale" => got[t] = store[key[t]]
    /\ pc[t] = "label_stale" => store[key[t]] \in {NoEntry, got[t]}
    /\ pc[t] = "clear_store" => Present \subseteq sweep[t]
    /\ pc[t] \in {"clear_budget", "clear_marks"} => Present = {}

(* An operation takes place while the function is decorated.               *)
SightInv ==
    /\ TimeHolds
    /\ \A t \in Threads : SeesTheStore(t) /\ (~ up => pc[t] = "idle")

LEMMA StepKeepsTime ==
    ASSUME SteadyClock, DataTypes, TimeHolds, [Next]_vars
    PROVE  /\ TimeHolds'
           /\ (\E t \in Threads : Start(t) \/ Step(t)) => UNCHANGED clock
           /\ HasTTL => clock <= clock'
<1> USE DEF DataTypes
<1>1. ASSUME NEW t \in Threads, Start(t) \/ Step(t)
      PROVE  UNCHANGED clock /\ observed' \in {observed, Now(clock)}
  <2> USE DEF frame, world
  <2>1. CASE Start(t)
    BY <2>1 DEF Start, StartCall, StartInvalidate, StartProfile, StartClear
  <2>2. CASE CallStep(t)
    BY <2>2 DEF CallStep, EnterFlight, Lookup, JudgeFast, JudgeLocked, Dated, ClassifyPending,
        ClassifyStale, ClassifyAbsent, RetryDelete, MissInvalidated, DeleteStale, LabelStale,
        RunReturns, RunRaises, Return
  <2>3. CASE CommitStep(t)
    BY <2>3 DEF CommitStep, RecheckDeps, SkipUnsized, Write, WriteFails, AdmitEntry, EvictDelete,
        RememberEviction, NoteEviction, Settle, DrainDelete, DrainForget, FinishCommit
  <2>4. CASE VerifyStep(t)
    BY <2>4 DEF VerifyStep, JudgeVerify, Dated, VerifyConfirms, VerifyRefutes, WarningRaises,
        DeleteRefuted, ForgetRefuted
  <2>5. CASE ControlStep(t)
    BY <2>5 DEF ControlStep, InvalidateDelete, InvalidateMark, InvalidateQuarantine,
        InvalidateReturns, ClearEntry, ClearStore, ClearRaises, ClearBudget, ClearMarks, ProfileLookup,
        ProfileWrite, ProfileWriteFails, ProfileDelete
  <2> QED BY <1>1, <2>1, <2>2, <2>3, <2>4, <2>5 DEF Step
<1>2. ASSUME NEW t \in Threads, Start(t) \/ Step(t) PROVE TimeHolds' /\ clock <= clock'
    BY <1>1, <1>2 DEF TimeHolds, Now, Later
<1>3. TimeHolds' /\ (HasTTL => clock <= clock')
  <2>1. CASE World
    <3>1. observed' = observed /\ clock' \in Nat /\ (HasTTL => clock <= clock')
        BY <2>1 DEF World, cacheVars, DependencyChanges, HiddenChanges, ClockTicks, ClockStepsBack,
            SteadyClock
    <3> QED BY <3>1 DEF TimeHolds
  <2>2. CASE UNCHANGED vars
    <3>1. observed' = observed /\ clock' = clock
        BY <2>2 DEF vars, world
    <3> QED BY <3>1 DEF TimeHolds
  <2> QED BY <1>2, <2>1, <2>2 DEF Next
<1> QED BY <1>1, <1>3

LEMMA StartSees ==
    ASSUME NEW t \in Threads, Start(t), FlightTypes, DataTypes, SeesTheStore(t)
    PROVE  SeesTheStore(t)'
<1> USE DEF FlightTypes, DataTypes, Goto, SeesTheStore, Asking, Weighing, Chosen
<1>1. ASSUME NEW k \in Keys, StartCall(t, k) PROVE SeesTheStore(t)'
    BY <1>1 DEF StartCall
<1>2. ASSUME NEW k \in Keys, StartInvalidate(t, k) PROVE SeesTheStore(t)'
    BY <1>2 DEF StartInvalidate
<1>3. ASSUME NEW k \in Keys, StartProfile(t, k) PROVE SeesTheStore(t)'
    BY <1>3 DEF StartProfile
<1>4. CASE StartClear(t)
    BY <1>4 DEF StartClear, Present
<1> QED BY <1>1, <1>2, <1>3, <1>4 DEF Start

LEMMA CallSees ==
    ASSUME NEW t \in Threads, CallStep(t), FlightTypes, DataTypes, SeesTheStore(t)
    PROVE  SeesTheStore(t)'
<1> USE DEF FlightTypes, DataTypes, Goto, SeesTheStore, Asking, Weighing, Chosen, marks
<1>1. CASE EnterFlight(t)
    BY <1>1 DEF EnterFlight, AfterLock, locals, past, history
<1>2. CASE Lookup(t)
    BY <1>2 DEF Lookup, AfterLookup, past, history
<1>3. CASE JudgeFast(t)
    BY <1>3 DEF JudgeFast, locals, history
<1>4. CASE JudgeLocked(t)
    BY <1>4 DEF JudgeLocked, locals, history
<1>5. CASE ClassifyStale(t)
    BY <1>5 DEF ClassifyStale
<1>6. CASE DeleteStale(t)
    BY <1>6 DEF DeleteStale, DeleteTried, Deleted, DeleteRaises, locals
<1>7. CASE ClassifyPending(t) \/ ClassifyAbsent(t)
    BY <1>7 DEF ClassifyPending, ClassifyAbsent
<1>8. CASE RetryDelete(t) \/ MissInvalidated(t) \/ LabelStale(t)
    BY <1>8 DEF RetryDelete, MissInvalidated, LabelStale
<1>9. CASE RunReturns(t) \/ RunRaises(t) \/ Return(t)
    BY <1>9 DEF RunReturns, RunRaises, Return
<1> QED BY <1>1, <1>2, <1>3, <1>4, <1>5, <1>6, <1>7, <1>8, <1>9 DEF CallStep

LEMMA CommitSees ==
    ASSUME NEW t \in Threads, CommitStep(t), FlightTypes
    PROVE  SeesTheStore(t)'
<1>1. pc'[t] \notin Asking \union Chosen \union {"delete_stale", "label_stale"} \union ClearLabels
    BY DEF FlightTypes, Goto, Asking, Weighing, Chosen, CommitStep, RecheckDeps, SkipUnsized, Write,
        WriteFails, AdmitEntry, EvictDelete, RememberEviction, NoteEviction, Settle, DrainDelete,
        DrainForget, FinishCommit, Conclude, ClearLabels
<1> QED BY <1>1 DEF SeesTheStore, Asking, ClearLabels

LEMMA VerifySees ==
    ASSUME NEW t \in Threads, VerifyStep(t), FlightTypes, DataTypes, SeesTheStore(t)
    PROVE  SeesTheStore(t)'
<1> USE DEF FlightTypes, DataTypes, Goto, SeesTheStore, Asking, Weighing, Chosen, marks
<1>1. CASE JudgeVerify(t)
    BY <1>1 DEF JudgeVerify, locals, past, history
<1>2. CASE VerifyConfirms(t)
    BY <1>2 DEF VerifyConfirms, locals, history
<1>3. CASE VerifyRefutes(t) \/ WarningRaises(t) \/ DeleteRefuted(t) \/ ForgetRefuted(t)
    BY <1>3 DEF VerifyRefutes, WarningRaises, DeleteRefuted, ForgetRefuted
<1> QED BY <1>1, <1>2, <1>3 DEF VerifyStep

LEMMA ControlSees ==
    ASSUME NEW t \in Threads, ControlStep(t), FlightTypes, DataTypes, SeesTheStore(t)
    PROVE  SeesTheStore(t)'
<1> USE DEF FlightTypes, DataTypes, Goto, SeesTheStore, Asking, Weighing, Chosen
<1>1. CASE ClearStore(t)
    BY <1>1 DEF ClearStore, Present
<1>2. CASE ClearBudget(t)
    BY <1>2 DEF ClearBudget, Present
<1>3. CASE InvalidateDelete(t) \/ InvalidateMark(t) \/ InvalidateQuarantine(t)
    BY <1>3 DEF InvalidateDelete, InvalidateMark, InvalidateQuarantine
<1>4. CASE InvalidateReturns(t) \/ ClearRaises(t) \/ ClearMarks(t)
    BY <1>4 DEF InvalidateReturns, ClearRaises, ClearMarks
<1>5. CASE ProfileLookup(t) \/ ProfileWriteFails(t)
    BY <1>5 DEF ProfileLookup, ProfileWriteFails, ProfileEnds
<1>6. CASE ProfileWrite(t)
    BY <1>6 DEF ProfileWrite
<1>7. CASE ProfileDelete(t)
    BY <1>7 DEF ProfileDelete, ProfileEnds
<1>8. CASE ClearEntry(t)
  <2>1. pc[t] = "clear_store" /\ pc'[t] = "clear_store"
    BY <1>8 DEF ClearEntry
  <2>2. PICK k \in Keys : Deleted(k) /\ sweep'[t] = sweep[t] \ {k}
    BY <1>8 DEF ClearEntry, Present
  <2>3. Present' \subseteq sweep'[t]
    BY <2>1, <2>2 DEF Deleted, Present
  <2> QED BY <2>1, <2>3
<1> QED BY <1>1, <1>2, <1>3, <1>4, <1>5, <1>6, <1>7, <1>8 DEF ControlStep

(* Outside of the engine's steps nobody is inside an operation, or nothing *)
(* that a caller can see moves.                                            *)
LEMMA IdleSees ==
    ASSUME NEW t \in Threads, pc'[t] = "idle"
    PROVE  SeesTheStore(t)'
BY DEF SeesTheStore, Asking, Weighing, Chosen

LEMMA PersistentStepKeepsSight ==
    ASSUME OneCaller, SteadyClock, KeptInv, KeptInv', SightInv, [PersistentNext]_allVars
    PROVE  SightInv'
<1>0. FlightTypes /\ DataTypes /\ FlightTypes' /\ DataTypes'
    BY DEF KeptInv, FlightInv, TypeInv
<1>1. PICK t : Threads = {t}
    BY DEF OneCaller
<1>2. CASE Runs
  <2>1. up' /\ (Start(t) \/ Step(t))
    BY <1>1, <1>2 DEF Runs, life, Start
  <2>2. SeesTheStore(t)'
    BY <1>0, <1>1, <2>1, StartSees, CallSees, CommitSees, VerifySees, ControlSees
    DEF SightInv, Step
  <2>3. TimeHolds'
    BY <1>0, <1>1, <2>1, StepKeepsTime DEF SightInv, Next
  <2> QED BY <1>1, <2>1, <2>2, <2>3 DEF SightInv
<1>3. CASE World /\ UNCHANGED <<life, tales>>
  <2>1. TimeHolds'
    BY <1>0, <1>3, StepKeepsTime DEF SightInv, Next
  <2>2. UNCHANGED <<store, pending, pc, key, got, sweep, condemned, floor, up>>
    BY <1>3 DEF World, cacheVars, marks, locals, past, history, life
  <2> QED BY <2>1, <2>2 DEF SightInv, SeesTheStore, Present
<1>4. CASE Stop
  <2>1. \A u \in Threads : pc'[u] = "idle"
    BY <1>4 DEF Stop
  <2>2. TimeHolds'
    BY <1>0, <1>4 DEF Stop, TimeHolds, world, DataTypes
  <2> QED BY <2>1, <2>2, IdleSees DEF SightInv
<1>5. CASE EarlierRun \/ Decorate
  <2>1. ~ up /\ UNCHANGED <<pc, observed, clock>>
    BY <1>5 DEF EarlierRun, Decorate, world
  <2>2. \A u \in Threads : pc'[u] = "idle"
    BY <2>1 DEF SightInv
  <2> QED BY <2>1, <2>2, IdleSees DEF SightInv, TimeHolds
<1>6. CASE Edit \/ UNCHANGED allVars
  <2>1. UNCHANGED <<store, pending, pc, key, got, sweep, condemned, floor, up, observed, clock>>
    BY <1>6 DEF Edit, allVars, vars, marks, locals, past, history, life, world
  <2> QED BY <2>1 DEF SightInv, SeesTheStore, Present, TimeHolds
<1> QED BY <1>2, <1>3, <1>4, <1>5, <1>6 DEF PersistentNext

LEMMA SightInvariance ==
    ASSUME OneCaller, SteadyClock
    PROVE  PersistentSpec => []SightInv
<1>1. PersistentInit => SightInv
  <2> SUFFICES ASSUME PersistentInit PROVE SightInv
    OBVIOUS
  <2>1. \A t \in Threads : pc[t] = "idle"
    BY DEF PersistentInit, Init
  <2>2. observed = 0 /\ clock = 0
    BY DEF PersistentInit, Init
  <2> QED BY <2>1, <2>2 DEF SightInv, TimeHolds, SeesTheStore, Asking, Weighing, Chosen
<1>2. KeptInv /\ KeptInv' /\ SightInv /\ [PersistentNext]_allVars => SightInv'
    BY PersistentStepKeepsSight
<1> QED BY <1>1, <1>2, KeptInvariance, PTL DEF PersistentSpec

(* What explain() said when the call began is still so until the call has  *)
(* found out: the key is quarantined, absent, stale or to be served.       *)
StillSo(t) ==
    \/ key[t] \in pending /\ forecast[t] = "invalidated"
    \/ /\ key[t] \notin pending /\ store[key[t]] = NoEntry
       /\ IF InSeq(key[t], invMarks) THEN forecast[t] = "invalidated"
          ELSE forecast[t] \in {"evicted", "not_found"}
    \/ /\ key[t] \notin pending /\ store[key[t]] # NoEntry
       /\ \/ forecast[t] = "expired" /\ Overdue(store[key[t]])
          \/ forecast[t] = "dependency_changed" /\ DepsDiffer(store[key[t]], snap[t])
          \/ forecast[t] = "found" /\ ~ DepsDiffer(store[key[t]], snap[t])

(* Time alone makes stale what explain() found.                            *)
Lapses(t) ==
    \/ forecast[t] \in {"found", "expired"} /\ Overdue(got[t])
    \/ forecast[t] = "dependency_changed"

Foretold(t) ==
    /\ pc[t] \in Asking \union {"classify"} => StillSo(t)
    /\ (pc[t] = "classify" /\ key[t] \notin pending /\ store[key[t]] # NoEntry) =>
            Overdue(store[key[t]]) \/ DepsDiffer(store[key[t]], snap[t])
    /\ pc[t] \in {"delete_stale", "label_stale"} => Lapses(t)
    /\ pc[t] \in {"retry_delete", "miss_invalidated"} => forecast[t] = "invalidated"
    /\ pc[t] = "verify_run" => forecast[t] = "found"

(* Of what is counted, the first is what was foretold.                     *)
CountsTold(t) == booked[t] # <<>> => Head(booked[t]) \in MayFollow(forecast[t])

ForetoldInv ==
    /\ TallyInv
    /\ forecast = [t \in Threads |-> forecast[t]]
    /\ \A t \in Threads : Foretold(t) /\ CountsTold(t)

LEMMA ClockDecides ==
    ASSUME TimeHolds, DataTypes, NEW e
    PROVE  Expired(e, Now(clock)) <=> Overdue(e)
BY DEF TimeHolds, DataTypes, Expired, Overdue, Now, Later

LEMMA WhatFollows ==
    /\ MayFollow("found") = {"hit", "miss_expired", "miss_verification_failed"}
    /\ MayFollow("invalidated") = {"miss_invalidated"}
    /\ MayFollow("expired") = {"miss_expired"}
    /\ MayFollow("dependency_changed") = {"miss_dependency_changed", "miss_expired"}
    /\ MayFollow("evicted") = {"miss_not_found"} /\ MayFollow("not_found") = {"miss_not_found"}
BY DEF MayFollow

(* The first count of a call.                                              *)
LEMMA FirstCount ==
    ASSUME NEW t \in Threads, TallyInv, booked[t] = <<>>, NEW name, Book(t, name),
           name \in MayFollow(forecast'[t])
    PROVE  CountsTold(t)'
<1>1. booked'[t] = Append(<<>>, name)
    BY DEF TallyInv, Book
<1>2. booked'[t] = <<name>>
    BY <1>1, AppendedTwice
<1>3. Head(<<name>>) = name
    OBVIOUS
<1> QED BY <1>2, <1>3 DEF CountsTold

(* The later ones leave the first alone.                                   *)
LEMMA LaterCounts ==
    ASSUME NEW t \in Threads, TallyInv, TallyMove(t), pc[t] \notin Undecided, CountsTold(t),
           pc'[t] # "idle" => forecast'[t] = forecast[t]
    PROVE  CountsTold(t)'
<1> USE DEF TallyInv, CountsTold
<1>1. CASE Resets(t)
    BY <1>1 DEF Resets
<1>2. CASE Proceeds(t) \/ Fails(t)
  <2>1. pc'[t] # "idle" /\ booked' = booked
    BY <1>2 DEF Proceeds, Fails, Goto, Undecided, Computing
  <2> QED BY <2>1
<1>3. CASE Ends(t)
  <2>1. PICK miss \in Misses, outcome \in Outcomes : booked[t] = <<miss>> /\ Book(t, outcome)
    BY <1>3 DEF Ends, BookedOK
  <2>2. booked'[t] = Append(<<miss>>, outcome)
    BY <2>1 DEF Book
  <2>3. booked'[t] = <<miss, outcome>> /\ pc'[t] # "idle"
    BY <1>3, <2>2, AppendedTwice DEF Ends, Goto
  <2>4. Head(<<miss, outcome>>) = miss /\ Head(<<miss>>) = miss /\ <<miss>> # <<>>
    OBVIOUS
  <2> QED BY <2>1, <2>3, <2>4
<1> QED BY <1>1, <1>2, <1>3 DEF TallyMove, CountsMiss, Hits

LEMMA StartForetells ==
    ASSUME NEW t \in Threads, Start(t), FlightTypes, DataTypes, TimeHolds, ForetoldInv
    PROVE  Foretold(t)' /\ CountsTold(t)'
<1> USE DEF FlightTypes, DataTypes, Goto
<1>0. booked[t] = <<>>
  <2>1. pc[t] = "idle"
    BY DEF Start, StartCall, StartInvalidate, StartProfile, StartClear
  <2> QED BY <2>1 DEF ForetoldInv, TallyInv, BookedOK, Undecided, Labels, Computing
<1>1. ASSUME NEW k \in Keys, StartCall(t, k) PROVE Foretold(t)' /\ booked' = booked
  <2>1. /\ UNCHANGED <<store, pending, invMarks, clock, booked>>
        /\ snap'[t] = dep /\ key'[t] = k
    BY <1>1 DEF StartCall, marks, world
  <2>2. forecast'[t] = Explain(k)
    BY <1>1 DEF StartCall, ForetoldInv
  <2>3. pc'[t] \in {"lookup", "verify_lock"}
    BY <1>1 DEF StartCall
  <2>4. StillSo(t)'
    <3>1. CASE k \in pending
        BY <2>1, <2>2, <3>1 DEF StillSo, Explain
    <3>2. CASE k \notin pending /\ store[k] = NoEntry
        BY <2>1, <2>2, <3>2 DEF StillSo, Explain, InSeq
    <3>3. CASE k \notin pending /\ store[k] # NoEntry
        <4>1. Explain(k) = IF Overdue(store[k]) THEN "expired"
                           ELSE IF DepsDiffer(store[k], dep) THEN "dependency_changed" ELSE "found"
            BY <3>3, ClockDecides DEF Explain
        <4>2. Overdue(store[k])' = Overdue(store[k])
            BY <2>1 DEF Overdue
        <4> QED BY <2>1, <2>2, <3>3, <4>1, <4>2 DEF StillSo, Overdue, DepsDiffer
    <3> QED BY <3>1, <3>2, <3>3
  <2> QED BY <2>1, <2>3, <2>4 DEF Foretold, Asking, Weighing
<1>2. CASE ~ \E k \in Keys : StartCall(t, k)
  <2>1. pc'[t] \in {"invalidate_lock", "profile_lookup", "clear_store"} /\ booked' = booked
    BY <1>2 DEF Start, StartInvalidate, StartProfile, StartClear, past
  <2> QED BY <1>0, <2>1 DEF Foretold, CountsTold, Asking, Weighing
<1> QED BY <1>0, <1>1, <1>2 DEF CountsTold

(* What a call goes by does not move while it asks.                        *)
Waits(t) == UNCHANGED <<store, pending, invMarks, snap, key, forecast, clock, booked>>

LEMMA WaitForetells ==
    ASSUME NEW t \in Threads, Waits(t), FlightTypes, Foretold(t), CountsTold(t), pc[t] \in Asking,
           pc'[t] \in Asking
    PROVE  Foretold(t)' /\ CountsTold(t)'
<1>1. StillSo(t)'
    BY DEF Foretold, Waits, StillSo, Overdue, DepsDiffer, InSeq
<1> QED BY <1>1 DEF Foretold, CountsTold, Waits, Asking, Weighing

LEMMA CallForetells ==
    ASSUME NEW t \in Threads, CallStep(t), pc[t] \in Undecided, FlightTypes, DataTypes, TimeHolds,
           SeesTheStore(t), HoldsEntry, ForetoldInv
    PROVE  Foretold(t)' /\ CountsTold(t)'
<1> USE DEF FlightTypes, DataTypes, Goto
<1>0. booked[t] = <<>> /\ Foretold(t) /\ CountsTold(t)
    BY DEF ForetoldInv, TallyInv, BookedOK
<1>1. CASE EnterFlight(t)
  <2>1. CASE pc[t] = "invalidate_lock"
    BY <1>0, <1>1, <2>1 DEF EnterFlight, AfterLock, Foretold, CountsTold, Asking, Weighing, past
  <2>2. CASE pc[t] # "invalidate_lock"
    BY <1>0, <1>1, <2>2, WaitForetells
    DEF EnterFlight, AfterLock, Waits, Asking, Weighing, locals, frame, world, past, history, marks
  <2> QED BY <2>1, <2>2
<1>2. CASE Lookup(t)
    BY <1>0, <1>2, WaitForetells
    DEF Lookup, AfterLookup, Waits, Asking, Weighing, frame, world, past, history, marks
<1>3. ASSUME pc[t] \in Weighing, Fresh(t) PROVE forecast[t] = "found"
  <2>1. got[t] # NoEntry /\ ~ Overdue(got[t]) /\ ~ DepsDiffer(got[t], snap[t])
        /\ key[t] \notin pending
    BY <1>3, ClockDecides DEF Fresh, Serves
  <2>2. got[t] = store[key[t]]
    BY <1>3, <2>1 DEF SeesTheStore
  <2> QED BY <1>0, <1>3, <2>1, <2>2 DEF Foretold, StillSo, Asking
<1>4. CASE JudgeFast(t)
  <2>1. CASE Fresh(t)
    BY <1>0, <1>3, <1>4, <2>1, FirstCount, WhatFollows
    DEF JudgeFast, history, ForetoldInv, Foretold, Asking, Weighing
  <2>2. CASE ~ Fresh(t)
    BY <1>0, <1>4, <2>2, WaitForetells
    DEF JudgeFast, Waits, Asking, Weighing, locals, frame, world, history, marks
  <2> QED BY <2>1, <2>2
<1>5. CASE JudgeLocked(t)
  <2>1. CASE Fresh(t)
    BY <1>0, <1>3, <1>5, <2>1, FirstCount, WhatFollows
    DEF JudgeLocked, history, ForetoldInv, Foretold, Asking, Weighing
  <2>2. CASE ~ Fresh(t)
    <3>1. Waits(t) /\ pc[t] = "rejudge" /\ pc'[t] = "classify" /\ got[t] = got'[t]
        BY <1>5, <2>2 DEF JudgeLocked, Waits, locals, frame, world, history, marks
    <3>2. StillSo(t)'
        BY <1>0, <3>1 DEF Foretold, Waits, StillSo, Overdue, DepsDiffer, InSeq, Asking, Weighing
    <3>3. ASSUME key[t] \notin pending, store[key[t]] # NoEntry
          PROVE  Overdue(store[key[t]]) \/ DepsDiffer(store[key[t]], snap[t])
        <4>1. got[t] = store[key[t]]
            BY <3>1, <3>3 DEF SeesTheStore, Weighing
        <4> QED BY <2>2, <3>3, <4>1, ClockDecides DEF Fresh, Serves
    <3> QED BY <1>0, <3>1, <3>2, <3>3
        DEF Foretold, CountsTold, Waits, Overdue, DepsDiffer, Asking, Weighing
  <2> QED BY <2>1, <2>2
<1>6. CASE ClassifyPending(t)
    BY <1>0, <1>6 DEF ClassifyPending, Foretold, StillSo, CountsTold, Asking, Weighing, past, history
<1>7. CASE ClassifyStale(t)
  <2>1. /\ got'[t] = store[key[t]] /\ pc[t] = "classify" /\ pc'[t] = "delete_stale"
        /\ store[key[t]] # NoEntry /\ key[t] \notin pending
        /\ UNCHANGED <<forecast, booked, clock>>
    BY <1>7 DEF ClassifyStale, frame, world, past, history
  <2>2. \/ forecast[t] \in {"found", "expired"} /\ Overdue(store[key[t]])
        \/ forecast[t] = "dependency_changed"
    BY <1>0, <2>1 DEF Foretold, StillSo
  <2> QED BY <1>0, <2>1, <2>2 DEF Foretold, CountsTold, Lapses, Overdue, Asking, Weighing
<1>8. CASE ClassifyAbsent(t)
  <2> DEFINE name == IF InSeq(key[t], invMarks) THEN "miss_invalidated" ELSE "miss_not_found"
  <2>1. Book(t, name) /\ pc[t] = "classify" /\ pc'[t] = "run" /\ forecast' = forecast
        /\ store[key[t]] = NoEntry /\ key[t] \notin pending
    BY <1>8 DEF ClassifyAbsent, history
  <2>2. name \in MayFollow(forecast[t])
    BY <1>0, <2>1, WhatFollows DEF Foretold, StillSo
  <2> QED BY <1>0, <2>1, <2>2, FirstCount DEF ForetoldInv, Foretold, Asking, Weighing
<1>9. CASE RetryDelete(t)
    BY <1>0, <1>9 DEF RetryDelete, Foretold, CountsTold, Asking, Weighing, past, history
<1>10. CASE MissInvalidated(t)
    BY <1>0, <1>10, FirstCount, WhatFollows
    DEF MissInvalidated, history, ForetoldInv, Foretold, Asking, Weighing
<1>11. CASE DeleteStale(t)
    BY <1>0, <1>11
    DEF DeleteStale, Foretold, CountsTold, Lapses, Overdue, Asking, Weighing, locals, past, history,
        world
<1>12. CASE LabelStale(t)
  <2>1. Lapses(t) /\ pc'[t] = "run" /\ forecast' = forecast
    BY <1>0, <1>12 DEF LabelStale, Foretold
  <2>2. \/ Overdue(got[t]) /\ Book(t, "miss_expired")
        \/ ~ Overdue(got[t]) /\ Book(t, "miss_dependency_changed")
    BY <1>12, ClockDecides DEF LabelStale
  <2>3. CountsTold(t)'
    BY <1>0, <2>1, <2>2, FirstCount, WhatFollows DEF Lapses, ForetoldInv
  <2> QED BY <2>1, <2>3 DEF Foretold, Asking, Weighing
<1>13. CASE RunRaises(t)
    BY <1>0, <1>13 DEF RunRaises, Foretold, CountsTold, Asking, Weighing, past
<1>14. CASE RunReturns(t) \/ Return(t)
    BY <1>14 DEF RunReturns, Return, Undecided, Computing
<1> QED BY <1>1, <1>2, <1>4, <1>5, <1>6, <1>7, <1>8, <1>9, <1>10, <1>11, <1>12, <1>13, <1>14
        DEF CallStep

LEMMA VerifyForetells ==
    ASSUME NEW t \in Threads, VerifyStep(t), pc[t] \in Undecided, FlightTypes, DataTypes, TimeHolds,
           SeesTheStore(t), ForetoldInv
    PROVE  Foretold(t)' /\ CountsTold(t)'
<1> USE DEF FlightTypes, DataTypes, Goto
<1>0. booked[t] = <<>> /\ Foretold(t) /\ CountsTold(t)
    BY DEF ForetoldInv, TallyInv, BookedOK
<1>1. CASE JudgeVerify(t)
  <2>1. CASE Fresh(t)
    <3>1. /\ got[t] # NoEntry /\ ~ Overdue(got[t]) /\ ~ DepsDiffer(got[t], snap[t])
          /\ key[t] \notin pending
        BY <2>1, ClockDecides DEF Fresh, Serves
    <3>2. got[t] = store[key[t]] /\ StillSo(t)
        BY <1>0, <1>1, <3>1 DEF JudgeVerify, SeesTheStore, Foretold, Weighing, Asking
    <3>3. forecast[t] = "found"
        BY <3>1, <3>2 DEF StillSo
    <3> QED BY <1>0, <1>1, <2>1, <3>3
        DEF JudgeVerify, Foretold, CountsTold, Asking, Weighing, past, history
  <2>2. CASE ~ Fresh(t)
    BY <1>0, <1>1, <2>2, WaitForetells
    DEF JudgeVerify, Waits, Asking, Weighing, locals, frame, world, past, history, marks
  <2> QED BY <2>1, <2>2
<1>2. CASE VerifyConfirms(t)
    BY <1>0, <1>2, FirstCount, WhatFollows
    DEF VerifyConfirms, history, ForetoldInv, Foretold, Asking, Weighing
<1>3. CASE VerifyRefutes(t)
    BY <1>0, <1>3, FirstCount, WhatFollows
    DEF VerifyRefutes, ForetoldInv, Foretold, Asking, Weighing
<1>4. CASE DeleteRefuted(t) \/ ForgetRefuted(t)
    BY <1>4 DEF DeleteRefuted, ForgetRefuted, Undecided, Computing
<1>5. CASE WarningRaises(t)
    BY <1>0, <1>5, FirstCount, WhatFollows
    DEF WarningRaises, history, ForetoldInv, Foretold, Asking, Weighing
<1> QED BY <1>1, <1>2, <1>3, <1>4, <1>5 DEF VerifyStep

LEMMA ControlForetells ==
    ASSUME NEW t \in Threads, ControlStep(t), FlightTypes, ForetoldInv
    PROVE  Foretold(t)' /\ CountsTold(t)'
<1> USE DEF FlightTypes, Goto
<1>1. /\ pc[t] \in Undecided /\ booked' = booked
      /\ pc'[t] \notin Asking \union {"classify", "delete_stale", "label_stale", "retry_delete",
                                       "miss_invalidated", "verify_run"}
    BY DEF ControlStep, InvalidateDelete, InvalidateMark, InvalidateQuarantine,
        InvalidateReturns, ClearEntry, ClearStore, ClearRaises, ClearBudget, ClearMarks, ProfileLookup,
        ProfileWrite, ProfileWriteFails, ProfileDelete, ProfileEnds, past, Undecided, Labels,
        InFlight, Computing, Asking, Weighing
<1>2. booked[t] = <<>>
    BY <1>1 DEF ForetoldInv, TallyInv, BookedOK
<1> QED BY <1>1, <1>2 DEF Foretold, CountsTold

(* A call that has counted its miss computes, commits and returns.         *)
LEMMA ComputingForetells ==
    ASSUME NEW t \in Threads, Step(t), pc[t] \notin Undecided, FlightTypes
    PROVE  Foretold(t)'
<1> USE DEF FlightTypes, Goto, Undecided, Computing, Labels, InFlight
<1>1. pc'[t] \notin Asking \union {"classify", "delete_stale", "label_stale", "retry_delete",
                                   "miss_invalidated", "verify_run"}
  <2>1. CASE CallStep(t)
    BY <2>1 DEF CallStep, EnterFlight, AfterLock, Lookup, AfterLookup, JudgeFast, JudgeLocked,
        ClassifyPending, ClassifyStale, ClassifyAbsent, RetryDelete, MissInvalidated,
        DeleteStale, LabelStale, RunReturns, RunRaises, Return, Asking, Weighing
  <2>2. CASE CommitStep(t)
    BY <2>2 DEF CommitStep, RecheckDeps, SkipUnsized, Write, WriteFails, AdmitEntry, EvictDelete,
        RememberEviction, NoteEviction, Settle, DrainDelete, DrainForget, FinishCommit, Conclude,
        Asking, Weighing
  <2>3. CASE VerifyStep(t)
    BY <2>3 DEF VerifyStep, JudgeVerify, VerifyConfirms, VerifyRefutes, WarningRaises,
        DeleteRefuted, ForgetRefuted, Asking, Weighing
  <2>4. CASE ControlStep(t)
    BY <2>4 DEF ControlStep, InvalidateDelete, InvalidateMark, InvalidateQuarantine,
        InvalidateReturns, ClearEntry, ClearStore, ClearRaises, ClearBudget, ClearMarks, ProfileLookup,
        ProfileWrite, ProfileWriteFails, ProfileDelete, ProfileEnds, Asking, Weighing
  <2> QED BY <2>1, <2>2, <2>3, <2>4 DEF Step
<1> QED BY <1>1 DEF Foretold

LEMMA ForecastStays ==
    ASSUME NEW t \in Threads, Start(t) \/ Step(t), FlightTypes
    PROVE  \/ UNCHANGED forecast
           \/ \E k \in Keys : StartCall(t, k) /\ forecast' = [forecast EXCEPT ![t] = Explain(k)]
           \/ pc'[t] = "idle" /\ forecast' = [forecast EXCEPT ![t] = "none"]
<1> USE DEF past, history
<1>1. CASE Start(t)
    BY <1>1 DEF Start, StartCall, StartInvalidate, StartProfile, StartClear
<1>2. CASE CallStep(t)
    BY <1>2 DEF FlightTypes, Goto, CallStep, EnterFlight, Lookup, JudgeFast, JudgeLocked,
        ClassifyPending, ClassifyStale, ClassifyAbsent, RetryDelete, MissInvalidated, DeleteStale,
        LabelStale, RunReturns, RunRaises, Return
<1>3. CASE CommitStep(t)
    BY <1>3 DEF CommitStep, RecheckDeps, SkipUnsized, Write, WriteFails, AdmitEntry, EvictDelete,
        RememberEviction, NoteEviction, Settle, DrainDelete, DrainForget, FinishCommit
<1>4. CASE VerifyStep(t)
    BY <1>4 DEF VerifyStep, JudgeVerify, VerifyConfirms, VerifyRefutes, WarningRaises,
        DeleteRefuted, ForgetRefuted
<1>5. CASE ControlStep(t)
    BY <1>5 DEF ControlStep, InvalidateDelete, InvalidateMark, InvalidateQuarantine,
        InvalidateReturns, ClearEntry, ClearStore, ClearRaises, ClearBudget, ClearMarks, ProfileLookup,
        ProfileWrite, ProfileWriteFails, ProfileDelete
<1> QED BY <1>1, <1>2, <1>3, <1>4, <1>5 DEF Step

LEMMA RunsForetell ==
    ASSUME NEW t \in Threads, Threads = {t}, Start(t) \/ Step(t), KeptInv, SightInv, ForetoldInv
    PROVE  ForetoldInv'
<1>0. FlightTypes /\ DataTypes /\ HoldsEntry /\ TimeHolds /\ SeesTheStore(t) /\ TallyInv
      /\ CountsTold(t)
    BY DEF KeptInv, FlightInv, TypeInv, SightInv, ForetoldInv
<1>1. TallyInv'
    BY <1>0, StepKeepsTallies DEF Next
<1>2. forecast' = [u \in Threads |-> forecast'[u]]
    BY <1>0, ForecastStays DEF ForetoldInv
<1>3. CASE Start(t)
    BY <1>0, <1>1, <1>2, <1>3, StartForetells DEF ForetoldInv
<1>4. CASE Step(t) /\ pc[t] \in Undecided
  <2>1. ~ CommitStep(t)
    BY <1>4 DEF CommitStep, RecheckDeps, SkipUnsized, Write, WriteFails, AdmitEntry,
        EvictDelete, RememberEviction, NoteEviction, Settle, DrainDelete, DrainForget,
        FinishCommit, Undecided, Computing
  <2>2. Foretold(t)' /\ CountsTold(t)'
    BY <1>0, <1>4, <2>1, CallForetells, VerifyForetells, ControlForetells DEF Step
  <2> QED BY <1>1, <1>2, <2>2 DEF ForetoldInv
<1>5. CASE Step(t) /\ pc[t] \notin Undecided
  <2>1. TallyMove(t)
    BY <1>0, <1>5, CallTallies, CommitTallies, VerifyTallies, ControlTallies DEF Step
  <2>2. pc'[t] # "idle" => forecast'[t] = forecast[t]
    <3>1. ~ \E k \in Keys : StartCall(t, k)
        BY <1>5 DEF StartCall, Undecided, Computing, Labels
    <3> QED BY <1>0, <1>5, <3>1, ForecastStays
  <2> QED BY <1>0, <1>1, <1>2, <1>5, <2>1, <2>2, LaterCounts, ComputingForetells DEF ForetoldInv
<1> QED BY <1>3, <1>4, <1>5

(* Between two operations nothing is foretold.                             *)
LEMMA IdleForetells ==
    ASSUME TallyInv, \A t \in Threads : pc[t] = "idle", forecast = [t \in Threads |-> forecast[t]]
    PROVE  ForetoldInv
<1>1. \A t \in Threads : booked[t] = <<>>
    BY DEF TallyInv, BookedOK, Undecided, Labels, Computing
<1> QED BY <1>1 DEF ForetoldInv, Foretold, CountsTold, Asking, Weighing

LEMMA PersistentStepForetells ==
    ASSUME OneCaller, SteadyClock, KeptInv, KeptInv', SightInv, ForetoldInv,
           [PersistentNext]_allVars
    PROVE  ForetoldInv'
<1>0. FlightTypes /\ DataTypes /\ DataTypes' /\ TimeHolds
    BY DEF KeptInv, FlightInv, TypeInv, SightInv
<1>1. PICK t : Threads = {t}
    BY DEF OneCaller
<1>2. CASE Runs
  <2>1. Start(t) \/ Step(t)
    BY <1>1, <1>2 DEF Runs, Start
  <2> QED BY <1>1, <2>1, RunsForetell
<1>3. CASE World /\ UNCHANGED <<life, tales>>
  <2>1. UNCHANGED <<store, pending, invMarks, snap, got, key, forecast, booked, pc>>
    BY <1>3 DEF World, cacheVars, marks, locals, past, history
  <2>2. \A e \in Entries : Overdue(e) => Overdue(e)'
    <3>1. (HasTTL => clock <= clock') /\ clock \in Nat /\ clock' \in Nat
        BY <1>0, <1>3, StepKeepsTime DEF Next, DataTypes
    <3>2. \A e \in Entries : e.expires \in Nat
        BY DEF Entries
    <3> QED BY <3>1, <3>2 DEF Overdue
  <2>3. TallyInv'
    BY <2>1 DEF ForetoldInv, TallyInv, BookedOK
  <2>4. /\ key[t] \in Keys /\ store[key[t]] \in Entries \union {NoEntry}
        /\ pc[t] \in {"delete_stale", "label_stale"} => got[t] \in Entries
    BY <1>0, <1>1 DEF FlightTypes, DataTypes, KeptInv, TypeInv, HoldsEntry, Held
  <2>5. StillSo(t) => StillSo(t)'
    BY <2>1, <2>2, <2>4 DEF StillSo, DepsDiffer, InSeq
  <2>6. Foretold(t) => Foretold(t)'
    BY <2>1, <2>2, <2>4, <2>5 DEF Foretold, DepsDiffer, Lapses
  <2> QED BY <1>1, <2>1, <2>3, <2>6 DEF ForetoldInv, CountsTold
<1>4. CASE Stop
  <2>1. /\ pc' = [u \in Threads |-> "idle"] /\ booked' = [u \in Threads |-> <<>>]
        /\ forecast' = [u \in Threads |-> "none"]
    BY <1>4 DEF Stop
  <2>2. TallyInv'
    BY <2>1 DEF TallyInv, BookedOK, Labels, InFlight, Undecided, Computing
  <2>3. ASSUME NEW u \in Threads PROVE Foretold(u)' /\ CountsTold(u)'
    BY <2>1 DEF Foretold, CountsTold, Asking, Weighing
  <2>4. forecast' = [u \in Threads |-> forecast'[u]]
    BY <2>1
  <2> QED BY <2>2, <2>3, <2>4 DEF ForetoldInv
<1>5. CASE EarlierRun \/ Decorate
  <2>1. ~ up /\ UNCHANGED <<pc, booked, forecast>>
    BY <1>5 DEF EarlierRun, Decorate, past, history
  <2>2. \A u \in Threads : pc[u] = "idle" /\ booked[u] = <<>>
    BY <2>1 DEF SightInv, ForetoldInv, TallyInv, BookedOK, Undecided, Labels, Computing
  <2>3. ASSUME NEW u \in Threads PROVE Foretold(u)' /\ CountsTold(u)' /\ BookedOK(u)'
    BY <2>1, <2>2 DEF ForetoldInv, TallyInv, BookedOK, Foretold, CountsTold, Asking, Weighing
  <2> QED BY <2>1, <2>3 DEF ForetoldInv, TallyInv
<1>6. CASE Edit \/ UNCHANGED allVars
  <2>1. UNCHANGED <<store, pending, invMarks, snap, got, key, forecast, booked, pc, clock>>
    BY <1>6 DEF Edit, allVars, vars, marks, locals, past, history, world
  <2>2. \A e : Overdue(e)' = Overdue(e)
    BY <2>1 DEF Overdue
  <2>3. TallyInv'
    BY <2>1 DEF ForetoldInv, TallyInv, BookedOK
  <2>4. StillSo(t)' = StillSo(t)
    BY <2>1, <2>2 DEF StillSo, DepsDiffer, InSeq
  <2>5. Foretold(t)' = Foretold(t)
    BY <2>1, <2>2, <2>4 DEF Foretold, DepsDiffer, Lapses
  <2> QED BY <1>1, <2>1, <2>3, <2>5 DEF ForetoldInv, CountsTold
<1> QED BY <1>2, <1>3, <1>4, <1>5, <1>6 DEF PersistentNext

(* explain() foretells the call that follows, as stats() counts it: across *)
(* restarts, failed deletes and writes, and changes of the world, for      *)
(* calls that no other operation interrupts and a wall clock that does not *)
(* step back.                                                              *)
THEOREM ExplainForecastsTheCallHolds ==
    ASSUME OneCaller, SteadyClock
    PROVE  PersistentSpec => []ExplainForecastsTheCall
<1>1. PersistentInit => ForetoldInv
  <2> SUFFICES ASSUME PersistentInit PROVE ForetoldInv
    OBVIOUS
  <2>1. /\ pc = [t \in Threads |-> "idle"] /\ booked = [t \in Threads |-> <<>>]
        /\ forecast = [t \in Threads |-> "none"]
    BY DEF PersistentInit, Init
  <2>2. TallyInv
    BY <2>1 DEF TallyInv, BookedOK, Labels, InFlight, Undecided, Computing
  <2> QED BY <2>1, <2>2, IdleForetells
<1>2. KeptInv /\ KeptInv' /\ SightInv /\ ForetoldInv /\ [PersistentNext]_allVars => ForetoldInv'
    BY PersistentStepForetells
<1>3. ForetoldInv => ExplainForecastsTheCall
  <2> SUFFICES ASSUME ForetoldInv, NEW t \in Threads, pc[t] \in {"served", "returned"}
               PROVE  Head(booked[t]) \in MayFollow(forecast[t])
    BY DEF ExplainForecastsTheCall
  <2>1. \E first, rest : booked[t] = <<first>> \/ booked[t] = <<first, rest>>
    BY DEF ForetoldInv, TallyInv, BookedOK
  <2>2. \A first, rest : <<first>> # <<>> /\ <<first, rest>> # <<>>
    OBVIOUS
  <2> QED BY <2>1, <2>2 DEF ForetoldInv, CountsTold
<1> QED BY <1>1, <1>2, <1>3, KeptInvariance, SightInvariance, PTL DEF PersistentSpec

-----------------------------------------------------------------------------
(* Deletes do not fail where verify= is used: a refuted entry whose delete *)
(* failed is served again, within the same run.                            *)
RefutedIsGone == TRUE \in VerifyCoin => MaxDeleteFaults = 0

(* What has been given up and is still there is quarantined, overdue, or   *)
(* was quarantined when the program stopped.                               *)
Excused(k) ==
    store[k] # NoEntry =>
        store[k].gen > condemned[k] \/ k \in pending \/ k \in lost \/ Overdue(store[k])

ChoiceIsExcused(t) ==
    (pc[t] \in Chosen /\ store[key[t]] # NoEntry) =>
        store[key[t]].gen > condemned[key[t]] \/ key[t] \in lost

(* Before its first decoration the function has given nothing up.          *)
NothingGivenUp ==
    /\ stops \in Nat
    /\ (~ up /\ stops = 0) =>
            \A k \in Keys : condemned[k] = 0 /\ \A t \in Threads : cut[t][k] = 0

QuarantineInv ==
    /\ Numbered
    /\ \A k \in Keys : Excused(k)
    /\ \A t \in Threads : ChoiceIsExcused(t)
    /\ \A t \in Threads : pc[t] \in VerifyLabels => TRUE \in VerifyCoin
    /\ NothingGivenUp

(* A call chooses the entry of the store, once it has found it fresh.      *)
ChoosesFresh(t) ==
    pc'[t] \in Chosen =>
        \/ pc[t] \in Chosen
        \/ /\ got[t] # NoEntry /\ got[t] = store[key[t]]
           /\ key[t] \notin pending /\ ~ Overdue(got[t])

LEMMA StepChoosesFresh ==
    ASSUME NEW t \in Threads, Start(t) \/ Step(t), FlightTypes, DataTypes, TimeHolds,
           SeesTheStore(t)
    PROVE  ChoosesFresh(t)
<1> USE DEF FlightTypes, Goto, Chosen
<1>1. ASSUME pc'[t] \in Chosen PROVE pc[t] \in Chosen \/ (pc[t] \in Weighing /\ Fresh(t))
  <2> USE <1>1
  <2>1. CASE Start(t)
    BY <2>1 DEF Start, StartCall, StartInvalidate, StartProfile, StartClear
  <2>2. CASE CallStep(t)
    BY <2>2 DEF CallStep, EnterFlight, AfterLock, Lookup, AfterLookup, JudgeFast, JudgeLocked,
        ClassifyPending, ClassifyStale, ClassifyAbsent, RetryDelete, MissInvalidated,
        DeleteStale, LabelStale, RunReturns, RunRaises, Return, Weighing
  <2>3. CASE CommitStep(t)
    BY <2>3 DEF CommitStep, RecheckDeps, SkipUnsized, Write, WriteFails, AdmitEntry, EvictDelete,
        RememberEviction, NoteEviction, Settle, DrainDelete, DrainForget, FinishCommit, Conclude
  <2>4. CASE VerifyStep(t)
    BY <2>4 DEF VerifyStep, JudgeVerify, VerifyConfirms, VerifyRefutes, WarningRaises,
        DeleteRefuted, ForgetRefuted, Weighing
  <2>5. CASE ControlStep(t)
    BY <2>5 DEF ControlStep, InvalidateDelete, InvalidateMark, InvalidateQuarantine,
        InvalidateReturns, ClearEntry, ClearStore, ClearRaises, ClearBudget, ClearMarks, ProfileLookup,
        ProfileWrite, ProfileWriteFails, ProfileDelete, ProfileEnds
  <2> QED BY <2>1, <2>2, <2>3, <2>4, <2>5 DEF Step
<1>2. ASSUME pc[t] \in Weighing, Fresh(t)
      PROVE  /\ got[t] # NoEntry /\ got[t] = store[key[t]]
             /\ key[t] \notin pending /\ ~ Overdue(got[t])
  <2>1. got[t] # NoEntry /\ key[t] \notin pending /\ ~ Overdue(got[t])
    BY <1>2, ClockDecides DEF Fresh, Serves
  <2> QED BY <1>2, <2>1 DEF SeesTheStore
<1> QED BY <1>1, <1>2 DEF ChoosesFresh

(* What the history and the clock do meanwhile.                            *)
KeepsTale ==
    /\ \A k \in lost : store'[k] = store[k] /\ store[k] # NoEntry => k \in lost' \union pending'
    /\ clock' = clock /\ TimeHolds'
    /\ \A t \in Threads : pc'[t] \in Chosen => key'[t] \notin pending'

LEMMA MoveKeepsExcuses ==
    ASSUME NEW t \in Threads, SafeMove(t), KeepsTale, ChoosesFresh(t), FlightInv, TypeInv, Readable,
           Readable', QuarantineInv
    PROVE  (\A k \in Keys : Excused(k)') /\ ChoiceIsExcused(t)'
<1> USE DEF Readable, KeepsTale, QuarantineInv, Excused, ChoiceIsExcused, Overdue, OthersStay
<1>1. CASE Passes(t)
  <2>1. \A k \in Keys : Excused(k)'
    BY <1>1 DEF Passes, Erases
  <2>2. ChoiceIsExcused(t)'
    BY <1>1 DEF Passes, Erases, ChoosesFresh
  <2> QED BY <2>1, <2>2
<1>2. ASSUME NEW k \in Keys, Starts(t, k) PROVE (\A j \in Keys : Excused(j)') /\ ChoiceIsExcused(t)'
    BY <1>2 DEF Starts
<1>3. CASE StartClear(t)
    BY <1>3 DEF StartClear, FlightInv, FlightTypes, Goto, Chosen, marks
<1>4. CASE Reads(t)
    BY <1>4 DEF Reads
<1>5. CASE Puts(t)
    BY <1>5 DEF Puts, Numbered, KeyIsNumbered
<1>6. CASE Lifts(t)
    BY <1>6 DEF Lifts, Numbered, CommitSafe
<1>7. CASE LabelStale(t)
  <2>1. Lapsed(got[t])' => Overdue(got[t])
    <3>1. got'[t] = got[t] /\ got[t] # NoEntry
        BY <1>7, LabelStaleGivesUp
    <3>2. clock \in Nat
        BY DEF TypeInv, DataTypes
    <3> QED BY <3>1, <3>2 DEF Lapsed, TimeHolds
  <2>2. ASSUME NEW k \in Keys PROVE Excused(k)'
    BY <1>7, <2>1, LabelStaleGivesUp DEF Numbered, ReadIsNumbered, Later
  <2>3. ChoiceIsExcused(t)'
    BY <1>7, LabelStaleGivesUp DEF Chosen
  <2> QED BY <2>2, <2>3
<1>8. CASE Returns(t)
  <2>1. ASSUME NEW k \in Keys PROVE Excused(k)'
    BY <1>8 DEF Returns, Numbered, CutSafe, Later
  <2>2. ChoiceIsExcused(t)'
    BY <1>8 DEF Returns, Chosen
  <2> QED BY <2>1, <2>2
<1>9. CASE Cuts(t)
    BY <1>9 DEF Cuts, Erases
<1> QED BY <1>1, <1>2, <1>3, <1>4, <1>5, <1>6, <1>7, <1>8, <1>9 DEF SafeMove

(* The last step of a clear() comes after the store was emptied.           *)
LEMMA ClearKeepsQuarantine ==
    ASSUME NEW t \in Threads, Threads = {t}, ClearMarks(t), FlightInv, TypeInv, SeesTheStore(t),
           Readable, QuarantineInv
    PROVE  Numbered' /\ (\A k \in Keys : Excused(k)') /\ ChoiceIsExcused(t)'
<1>1. /\ pc[t] = "clear_marks" /\ pc'[t] = "idle" /\ Present = {}
      /\ UNCHANGED <<store, gen, got, floor, key>>
      /\ condemned' = [k \in Keys |-> Later(condemned[k], cut[t][k])]
      /\ \A k \in Keys : cut'[t][k] = 0
    BY DEF ClearMarks, SeesTheStore, FlightInv, FlightTypes, TypeInv, DataTypes, Goto, locals
<1>2. \A k \in Keys : store'[k] = NoEntry
    BY <1>1 DEF Present
<1> USE DEF Readable, QuarantineInv
<1>3. ASSUME NEW k \in Keys PROVE KeyIsNumbered(k)'
    BY <1>1, <1>2 DEF Numbered, KeyIsNumbered, CutSafe, Later
<1>4. ReadIsNumbered(t)' /\ CommitSafe(t)'
    BY <1>1, <1>2 DEF Numbered, ReadIsNumbered, CommitSafe, Committing, NoCall, Later
<1>5. ASSUME NEW k \in Keys PROVE CutSafe(t, k)'
    BY <1>1, <1>2 DEF CutSafe
<1>6. ChoiceIsExcused(t)' /\ \A k \in Keys : Excused(k)'
    BY <1>1, <1>2 DEF ChoiceIsExcused, Excused
<1> QED BY <1>3, <1>4, <1>5, <1>6 DEF Numbered

LEMMA RunsKeepQuarantine ==
    ASSUME NEW t \in Threads, Threads = {t}, SteadyClock, RefutedIsGone, Runs, KeptInv, KeptInv',
           SightInv, QuarantineInv
    PROVE  QuarantineInv'
<1>0. /\ FlightInv /\ FlightInv' /\ TypeInv /\ TypeInv' /\ Readable /\ Readable'
      /\ FlightTypes /\ DataTypes /\ TimeHolds /\ SeesTheStore(t)
    BY TypedIsReadable, NextIsReadable DEF KeptInv, FlightInv, TypeInv, SightInv
<1>1. (Start(t) \/ Step(t)) /\ Tell(t) /\ up' /\ UNCHANGED stops
    BY DEF Runs, Start, life
<1>2. KeepsTale
  <2>1. TimeHolds' /\ clock' = clock
    BY <1>0, <1>1, StepKeepsTime DEF Next
  <2>2. ASSUME pc'[t] \in Chosen PROVE key'[t] \notin pending'
    <3>1. got'[t] # NoEntry
        BY <1>0, <2>2 DEF TypeInv, HoldsEntry, Held, Chosen
    <3>2. SightInv'
        BY PersistentStepKeepsSight DEF PersistentNext, OneCaller
    <3> QED BY <2>2, <3>1, <3>2 DEF SightInv, SeesTheStore
  <2> QED BY <1>1, <2>1, <2>2 DEF KeepsTale, Tell, Unchanged
<1>3. Numbered' /\ (\A k \in Keys : Excused(k)') /\ ChoiceIsExcused(t)'
  <2>1. CASE ClearMarks(t)
    BY <1>0, <2>1, ClearKeepsQuarantine
  <2>2. CASE ~ ClearMarks(t)
    <3>1. pc[t] = "delete_refuted" => MaxDeleteFaults = 0
        BY DEF QuarantineInv, VerifyLabels, RefutedIsGone
    <3>2. SafeMove(t)
        BY <1>0, <1>1, <2>2, <3>1, StartMovesSafely, CallMovesSafely, CommitMovesSafely,
           VerifyMovesSafely, ControlMovesSafely
        DEF Step, QuarantineInv
    <3>3. Numbered'
        BY <1>0, <3>2, MoveKeepsNumbers DEF QuarantineInv
    <3> QED BY <1>0, <1>1, <1>2, <3>2, <3>3, MoveKeepsExcuses, StepChoosesFresh
  <2> QED BY <2>1, <2>2
<1>4. pc'[t] \in VerifyLabels => TRUE \in VerifyCoin
    BY <1>0, <1>1, StepEnters DEF Enters, QuarantineInv
<1>5. NothingGivenUp'
    BY <1>1 DEF NothingGivenUp, QuarantineInv
<1> QED BY <1>3, <1>4, <1>5 DEF QuarantineInv

(* Where nobody is inside an operation, the store may lose entries.        *)
LEMMA RestKeepsNumbers ==
    ASSUME Numbered, Readable, \A u \in Threads : pc[u] = "idle" /\ pc'[u] = "idle", Erases,
           UNCHANGED <<gen, condemned, got, floor, key, cut>>
    PROVE  Numbered'
<1> USE DEF Readable, Erases, Numbered
<1>1. ASSUME NEW k \in Keys PROVE KeyIsNumbered(k)'
    BY DEF KeyIsNumbered
<1>2. ASSUME NEW u \in Threads PROVE ReadIsNumbered(u)' /\ CommitSafe(u)'
    BY DEF ReadIsNumbered, CommitSafe, Committing
<1>3. ASSUME NEW u \in Threads, NEW k \in Keys PROVE CutSafe(u, k)'
    BY DEF CutSafe, CutWaits
<1> QED BY <1>1, <1>2, <1>3

LEMMA DecorateKeepsQuarantine ==
    ASSUME Decorate, KeptInv, KeptInv', SightInv, QuarantineInv
    PROVE  QuarantineInv'
<1>0. Readable /\ \A u \in Threads : pc[u] = "idle"
    BY TypedIsReadable DEF KeptInv, FlightInv, TypeInv, SightInv, Decorate
<1> DEFINE purged == (Present \ Ours) \union (IF HasBudget THEN Rehydrated.deleted ELSE {})
<1>1. PICK failing \in SUBSET Keys :
        store' = [k \in Keys |-> IF k \in purged \ failing THEN NoEntry ELSE store[k]]
    BY DEF Decorate
<1> HIDE DEF purged
<1>2. /\ UNCHANGED <<gen, condemned, got, floor, key, cut, pc, pending, clock>> /\ up'
      /\ stops' = stops
      /\ lost' = {k \in lost : store'[k] # NoEntry}
    BY DEF Decorate, locals, past, history, marks, world
<1>3. Erases
    BY <1>1 DEF Erases
<1>4. Numbered'
    BY <1>0, <1>2, <1>3, RestKeepsNumbers DEF QuarantineInv
<1>5. ASSUME NEW k \in Keys PROVE Excused(k)'
    BY <1>2, <1>3 DEF QuarantineInv, Excused, Overdue, Erases
<1>6. NothingGivenUp'
    BY <1>2 DEF QuarantineInv, NothingGivenUp
<1> QED BY <1>0, <1>2, <1>4, <1>5, <1>6 DEF QuarantineInv, ChoiceIsExcused, Chosen, VerifyLabels

LEMMA StopKeepsQuarantine ==
    ASSUME Stop, KeptInv, KeptInv', QuarantineInv
    PROVE  QuarantineInv'
<1>0. Readable
    BY TypedIsReadable DEF KeptInv, FlightInv, TypeInv
<1>1. UNCHANGED store
    BY DEF Stop
<1>2. /\ UNCHANGED <<gen, condemned, key, clock>> /\ stops' = stops + 1
      /\ lost' = {k \in lost \union pending : store'[k] # NoEntry}
      /\ \A u \in Threads :
            /\ pc'[u] = "idle" /\ got'[u] = NoEntry /\ floor'[u] = 0
            /\ \A k \in Keys : cut'[u][k] = 0
    BY DEF Stop, world
<1>3. Erases
    BY <1>1 DEF Erases
<1> USE DEF Readable, Erases, QuarantineInv
<1>4. Numbered'
  <2>1. ASSUME NEW k \in Keys PROVE KeyIsNumbered(k)'
    BY <1>0, <1>2, <1>3 DEF Numbered, KeyIsNumbered
  <2>2. ASSUME NEW u \in Threads PROVE ReadIsNumbered(u)' /\ CommitSafe(u)'
    BY <1>0, <1>2, <1>3 DEF Numbered, ReadIsNumbered, CommitSafe, Committing
  <2>3. ASSUME NEW u \in Threads, NEW k \in Keys PROVE CutSafe(u, k)'
    BY <1>0, <1>2, <1>3 DEF Numbered, CutSafe, KeyIsNumbered
  <2> QED BY <2>1, <2>2, <2>3 DEF Numbered
<1>5. ASSUME NEW k \in Keys PROVE Excused(k)'
    BY <1>2, <1>3 DEF Excused, Overdue
<1>6. NothingGivenUp'
    BY <1>2 DEF NothingGivenUp
<1> QED BY <1>2, <1>4, <1>5, <1>6 DEF ChoiceIsExcused, Chosen, VerifyLabels

(* The entries of an earlier program are the first of their keys.          *)
LEMMA EarlierRunKeepsQuarantine ==
    ASSUME EarlierRun, KeptInv, KeptInv', SightInv, QuarantineInv
    PROVE  QuarantineInv'
<1>0. Readable /\ Readable' /\ \A u \in Threads : pc[u] = "idle"
    BY TypedIsReadable, NextIsReadable DEF KeptInv, FlightInv, TypeInv, SightInv, EarlierRun
<1>1. /\ UNCHANGED <<condemned, got, floor, key, cut, pc, pending, clock, stops, up, lost>>
      /\ gen' = [k \in Keys |-> IF store'[k] = NoEntry THEN 0 ELSE 1]
      /\ \A k \in Keys : store'[k] # NoEntry => store'[k].gen = 1
      /\ ~ up /\ stops = 0
    BY PersistenceAssumption DEF EarlierRun, locals, marks, world, life, tales
<1>2. \A k \in Keys : condemned[k] = 0 /\ \A u \in Threads : cut[u][k] = 0
    BY <1>1 DEF QuarantineInv, NothingGivenUp
<1>3. \A u \in Threads : got[u] = NoEntry /\ floor[u] = 0
    BY <1>0 DEF QuarantineInv, Numbered, ReadIsNumbered, NoCall
<1> USE DEF Readable
<1>4. Numbered'
  <2>1. ASSUME NEW k \in Keys PROVE KeyIsNumbered(k)'
    BY <1>0, <1>1, <1>2 DEF KeyIsNumbered
  <2>2. ASSUME NEW u \in Threads PROVE ReadIsNumbered(u)' /\ CommitSafe(u)'
    BY <1>0, <1>1, <1>2, <1>3 DEF ReadIsNumbered, CommitSafe, Committing
  <2>3. ASSUME NEW u \in Threads, NEW k \in Keys PROVE CutSafe(u, k)'
    BY <1>0, <1>1, <1>2 DEF CutSafe
  <2> QED BY <2>1, <2>2, <2>3 DEF Numbered
<1>5. ASSUME NEW k \in Keys PROVE Excused(k)'
    BY <1>1, <1>2 DEF Excused
<1> QED BY <1>0, <1>1, <1>2, <1>4, <1>5
        DEF QuarantineInv, ChoiceIsExcused, Chosen, VerifyLabels, NothingGivenUp

LEMMA PersistentStepKeepsQuarantine ==
    ASSUME OneCaller, SteadyClock, RefutedIsGone, KeptInv, KeptInv', SightInv, QuarantineInv,
           [PersistentNext]_allVars
    PROVE  QuarantineInv'
<1>1. PICK t : Threads = {t}
    BY DEF OneCaller
<1>2. CASE Runs
    BY <1>1, <1>2, RunsKeepQuarantine
<1>3. CASE (World /\ UNCHANGED <<life, tales>>) \/ Edit \/ UNCHANGED allVars
  <2>1. UNCHANGED <<store, gen, got, condemned, cut, floor, key, pending, pc, sweep, up, stops, lost>>
    BY <1>3 DEF World, cacheVars, Edit, allVars, vars, marks, locals, past, history, life, tales
  <2>2. Numbered'
    BY <2>1 DEF QuarantineInv, Numbered, KeyIsNumbered, ReadIsNumbered, CommitSafe, CutSafe, CutWaits
  <2>3. ASSUME NEW k \in Keys PROVE Excused(k)'
    <3>1. (HasTTL => clock <= clock') /\ clock \in Nat /\ clock' \in Nat
        <4>1. [Next]_vars
            BY <1>3 DEF Next, Edit, allVars
        <4> QED BY <4>1, StepKeepsTime DEF KeptInv, TypeInv, DataTypes, SightInv
    <3>2. store[k] # NoEntry => store[k].expires \in Nat
        BY TypedIsReadable DEF KeptInv, FlightInv, TypeInv, Readable
    <3> QED BY <2>1, <3>1, <3>2 DEF QuarantineInv, Excused, Overdue
  <2> QED BY <2>1, <2>2, <2>3 DEF QuarantineInv, ChoiceIsExcused, NothingGivenUp
<1> QED BY <1>2, <1>3, StopKeepsQuarantine, DecorateKeepsQuarantine, EarlierRunKeepsQuarantine
        DEF PersistentNext

(* A failed invalidate() keeps the entry from being served and listed;     *)
(* only a restart forgets that, and it forgets no more than that.          *)
THEOREM OnlyARestartLiftsTheQuarantineHolds ==
    ASSUME OneCaller, SteadyClock, RefutedIsGone
    PROVE  PersistentSpec => []OnlyARestartLiftsTheQuarantine
<1>1. PersistentInit => QuarantineInv
  <2> SUFFICES ASSUME PersistentInit PROVE QuarantineInv
    OBVIOUS
  <2> USE DEF PersistentInit, Init
  <2>1. Numbered
    BY DEF Numbered, KeyIsNumbered, ReadIsNumbered, CommitSafe, CutSafe, Committing
  <2>2. \A k \in Keys : Excused(k)
    BY DEF Excused
  <2>3. \A t \in Threads : ChoiceIsExcused(t) /\ pc[t] \notin VerifyLabels
    BY DEF ChoiceIsExcused, Chosen, VerifyLabels
  <2>4. NothingGivenUp
    BY DEF NothingGivenUp
  <2> QED BY <2>1, <2>2, <2>3, <2>4 DEF QuarantineInv
<1>2. KeptInv /\ KeptInv' /\ SightInv /\ QuarantineInv /\ [PersistentNext]_allVars => QuarantineInv'
    BY PersistentStepKeepsQuarantine
<1>3. KeptInv /\ SightInv /\ QuarantineInv => OnlyARestartLiftsTheQuarantine
  <2> SUFFICES ASSUME KeptInv, SightInv, QuarantineInv PROVE OnlyARestartLiftsTheQuarantine
    OBVIOUS
  <2>0. Readable /\ DataTypes
    BY TypedIsReadable DEF KeptInv, FlightInv, TypeInv
  <2>1. ASSUME NEW t \in Threads, pc[t] = "served", got[t].gen <= floor[t] PROVE key[t] \in lost
    <3>1. got[t] # NoEntry
        BY <2>1 DEF KeptInv, TypeInv, HoldsEntry, Held
    <3>2. got[t] = store[key[t]] /\ floor[t] = condemned[key[t]]
        BY <2>1, <3>1 DEF SightInv, SeesTheStore, Chosen
    <3> QED BY <2>0, <2>1, <3>1, <3>2 DEF Readable, QuarantineInv, ChoiceIsExcused, Chosen
  <2>2. ASSUME NEW k \in Inspect
        PROVE  store[k].gen > condemned[k] \/ Expired(store[k], Now(clock)) \/ k \in lost
    <3>1. k \in Keys /\ store[k] # NoEntry /\ k \notin pending
        BY DEF Inspect, Present
    <3> QED BY <2>0, <3>1, ClockDecides DEF QuarantineInv, Excused, SightInv
  <2> QED BY <2>1, <2>2 DEF OnlyARestartLiftsTheQuarantine
<1> QED BY <1>1, <1>2, <1>3, KeptInvariance, SightInvariance, PTL DEF PersistentSpec
=============================================================================
