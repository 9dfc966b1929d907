--------------------------- MODULE LRUBudgetProof ---------------------------
(***************************************************************************)
(* Proofs about the operators of LRUBudget, for any sequence of keys and   *)
(* sizes: what the budget keeps in agreement, and what each method returns.*)
(*                                                                         *)
(* Part 1 is about sums.  SumFunctionOnSet is a fold, defined by recursion *)
(* over the subsets of a finite set: that the recursion has a solution, and*)
(* only one, is proved first, by induction over the number of elements.    *)
(* The library's induction theorems take an operator as a parameter; here  *)
(* the induction is over a set of numbers, which needs none.               *)
(*                                                                         *)
(* Part 2: forget, touch and admit keep each key tracked once and the      *)
(* total equal to the sum of the sizes; admit keeps within the bound.      *)
(*                                                                         *)
(* Part 3: forget and touch keep the order of the other keys; what admit   *)
(* evicts is older than what stays, and no more than it must be.           *)
(***************************************************************************)
EXTENDS LRUBudget, FiniteSetTheorems, SequenceTheorems, WellFoundedInduction, TLAPS

LEMMA NatLeast ==
  ASSUME NEW T, T \subseteq Nat, T # {}
  PROVE \E m \in T : \A n \in T : m <= n
<1> DEFINE R == {ss \in Nat \X Nat : ss[1] < ss[2]}
<1>1. IsWellFoundedOn(R, Nat)
  BY NatLessThanWellFounded DEF OpToRel
<1>2. \E x \in T : \A y \in T : ~ (<<y, x>> \in R)
  <2> HIDE DEF R
  <2> QED BY <1>1, WFMin
<1>3. \A x, y \in T : <<y, x>> \notin R => x <= y
  OBVIOUS
<1> QED BY <1>2, <1>3
LEMMA NatSetInduction ==
  ASSUME NEW T, 0 \in T, \A n \in Nat : n \in T => n+1 \in T
  PROVE Nat \subseteq T
<1> DEFINE U == Nat \ T
<1> SUFFICES ASSUME U # {} PROVE FALSE
  OBVIOUS
<1>1. PICK m \in U : \A n \in U : m <= n
  BY NatLeast
<1>2. m # 0 /\ m-1 \in Nat /\ m - 1 \in T
  BY <1>1
<1> QED BY <1>2

AnyOf(s) == CHOOSE x \in s : TRUE

(* The functions that add f up, over every subset of S of at most n elements. *)
Small(S, n) == {s \in SUBSET S : Cardinality(s) <= n}
Adds(g, f, U) ==
    g = [s \in U |-> IF s = {} THEN 0 ELSE f[AnyOf(s)] + g[s \ {AnyOf(s)}]]

LEMMA AddsExists ==
    ASSUME NEW S, IsFiniteSet(S), NEW f
    PROVE  \E g : Adds(g, f, SUBSET S)
<1> DEFINE T == {n \in Nat : \E g : Adds(g, f, Small(S, n))}
<1>1. 0 \in T
  <2> DEFINE g == [s \in Small(S, 0) |-> 0]
  <2>1. \A s \in Small(S, 0) : s = {}
    BY FS_Subset, FS_CardinalityType, FS_EmptySet DEF Small
  <2>2. Adds(g, f, Small(S, 0))
    BY <2>1 DEF Adds
  <2> QED BY <2>2
<1>2. ASSUME NEW n \in Nat, n \in T PROVE n + 1 \in T
  <2>1. PICK g : Adds(g, f, Small(S, n))
    BY <1>2
  <2> DEFINE h == [s \in Small(S, n + 1) |->
                    IF s = {} THEN 0 ELSE f[AnyOf(s)] + g[s \ {AnyOf(s)}]]
  <2>2. ASSUME NEW s \in Small(S, n + 1), s # {}
        PROVE  s \ {AnyOf(s)} \in Small(S, n) /\ s \ {AnyOf(s)} \in Small(S, n + 1)
    <3>1. AnyOf(s) \in s
        BY <2>2 DEF AnyOf
    <3>2. s \in SUBSET S /\ IsFiniteSet(s) /\ Cardinality(s) \in Nat /\ Cardinality(s) <= n + 1
        BY FS_Subset, FS_CardinalityType DEF Small
    <3>3. Cardinality(s \ {AnyOf(s)}) = Cardinality(s) - 1
        BY <3>1, <3>2, FS_RemoveElement
    <3> QED BY <3>2, <3>3 DEF Small
  <2>3. \A s \in Small(S, n) : h[s] = g[s]
    <3>1. \A s \in Small(S, n) : s \in Small(S, n + 1)
        BY FS_Subset, FS_CardinalityType DEF Small
    <3> QED BY <2>1, <3>1 DEF Adds
  <2>4. Adds(h, f, Small(S, n + 1))
    BY <2>2, <2>3 DEF Adds
  <2> HIDE DEF h
  <2> QED BY <2>4
<1> HIDE DEF T
<1>3. Cardinality(S) \in T
    BY <1>1, <1>2, NatSetInduction, FS_CardinalityType
<1>4. Small(S, Cardinality(S)) = SUBSET S
    BY FS_Subset DEF Small
<1> QED BY <1>3, <1>4 DEF T

LEMMA SumUnfolds ==
    ASSUME NEW S, IsFiniteSet(S), NEW f
    PROVE \E g : Adds(g, f, SUBSET S) /\ SumFunctionOnSet(f, S) = g[S]
<1> DEFINE Def(g) == g = [s \in SUBSET S |-> IF s = {} THEN 0 ELSE f[CHOOSE x \in s : TRUE] + g[s \ {CHOOSE x \in s : TRUE}]]
           iter == CHOOSE g : Def(g)
<1>1. \A g : Adds(g, f, SUBSET S) <=> Def(g)
  BY Zenon DEF Adds, AnyOf
<1>2. SumFunctionOnSet(f, S) = iter[S]
  BY DEF SumFunctionOnSet, FoldFunctionOnSet, MapThenFoldSet
<1>3. Def(iter)
  <2> HIDE DEF Def
  <2>1. \E g : Def(g)
    BY <1>1, AddsExists
  <2> QED BY <2>1, Zenon
<1> HIDE DEF iter, Def
<1> QED BY <1>1, <1>2, <1>3

(* A function that adds f up over the subsets of S sums every subset.      *)
LEMMA AddsIsUnique ==
    ASSUME NEW S, IsFiniteSet(S), NEW f, NEW g, NEW h, Adds(g, f, SUBSET S), NEW s \in SUBSET S, Adds(h, f, SUBSET s)
    PROVE  g[s] = h[s]
<1> DEFINE T == {n \in Nat : \A u \in SUBSET s : Cardinality(u) <= n => g[u] = h[u]}
<1>1. 0 \in T
  BY FS_Subset, FS_EmptySet, FS_CardinalityType DEF Adds
<1>2. ASSUME NEW n \in Nat, n \in T PROVE n + 1 \in T
  <2> SUFFICES ASSUME NEW u \in SUBSET s, Cardinality(u) <= n + 1 PROVE g[u] = h[u]
    OBVIOUS
  <2>1. CASE u = {}
    BY <2>1 DEF Adds
  <2>2. CASE u # {}
    <3>1. AnyOf(u) \in u
        BY <2>2 DEF AnyOf
    <3>2. IsFiniteSet(u) /\ Cardinality(u) \in Nat
        BY FS_Subset, FS_CardinalityType
    <3>3. Cardinality(u \ {AnyOf(u)}) = Cardinality(u) - 1
        BY <3>1, <3>2, FS_RemoveElement
    <3>4. g[u \ {AnyOf(u)}] = h[u \ {AnyOf(u)}]
        BY <1>2, <3>2, <3>3
    <3>5. /\ g[u] = f[AnyOf(u)] + g[u \ {AnyOf(u)}]
          /\ h[u] = f[AnyOf(u)] + h[u \ {AnyOf(u)}]
        BY <2>2 DEF Adds
    <3> QED BY <3>4, <3>5
  <2> QED BY <2>1, <2>2
<1> HIDE DEF T
<1>3. Nat \subseteq T
    BY <1>1, <1>2, NatSetInduction
<1>4. IsFiniteSet(s) /\ Cardinality(s) \in Nat
    BY FS_Subset, FS_CardinalityType
<1> QED BY <1>3, <1>4 DEF T

LEMMA SumIsAdded ==
    ASSUME NEW S, IsFiniteSet(S), NEW f, NEW g, Adds(g, f, SUBSET S), NEW s \in SUBSET S
    PROVE  SumFunctionOnSet(f, s) = g[s]
<1>1. IsFiniteSet(s)
    BY FS_Subset
<1>2. PICK h : Adds(h, f, SUBSET s) /\ SumFunctionOnSet(f, s) = h[s]
    BY <1>1, SumUnfolds
<1> QED BY <1>2, AddsIsUnique

(* The sum over the empty set, and the sum without an arbitrary element.   *)
LEMMA SumSteps ==
    ASSUME NEW S, IsFiniteSet(S), NEW f
    PROVE  /\ SumFunctionOnSet(f, {}) = 0
           /\ S # {} => /\ AnyOf(S) \in S
                        /\ SumFunctionOnSet(f, S) = f[AnyOf(S)] + SumFunctionOnSet(f, S \ {AnyOf(S)})
<1>1. PICK g : Adds(g, f, SUBSET S)
    BY AddsExists
<1>2. \A s \in SUBSET S : SumFunctionOnSet(f, s) = g[s]
    BY <1>1, SumIsAdded
<1>3. S # {} => AnyOf(S) \in S
    BY DEF AnyOf
<1> QED BY <1>1, <1>2, <1>3 DEF Adds

LEMMA SumOfNothing == ASSUME NEW f PROVE SumFunctionOnSet(f, {}) = 0
    BY FS_EmptySet, SumSteps

(* Induction over the subsets of a finite set, one element at a time.      *)
LEMMA SubsetInduction ==
    ASSUME NEW S, IsFiniteSet(S), NEW T, {} \in T,
           \A u \in SUBSET S : (u # {} /\ IsFiniteSet(u) /\ \A x \in u : u \ {x} \in T) => u \in T
    PROVE  SUBSET S \subseteq T
<1> DEFINE N == {n \in Nat : \A u \in SUBSET S : Cardinality(u) = n => u \in T}
<1>1. 0 \in N
    BY FS_Subset, FS_EmptySet
<1>2. ASSUME NEW n \in Nat, n \in N PROVE n + 1 \in N
  <2> SUFFICES ASSUME NEW u \in SUBSET S, Cardinality(u) = n + 1 PROVE u \in T
    OBVIOUS
  <2>1. IsFiniteSet(u) /\ u # {}
    BY FS_Subset, FS_EmptySet
  <2>2. ASSUME NEW x \in u PROVE u \ {x} \in T
    <3>1. Cardinality(u \ {x}) = Cardinality(u) - 1
        BY <2>1, FS_RemoveElement
    <3>2. Cardinality(u \ {x}) = n
        BY <2>2, <3>1
    <3> QED BY <1>2, <3>2
  <2> QED BY <2>1, <2>2
<1> HIDE DEF N
<1>3. Nat \subseteq N
    BY <1>1, <1>2, NatSetInduction
<1> QED BY <1>3, FS_Subset, FS_CardinalityType DEF N

LEMMA SumIsInt ==
    ASSUME NEW S, IsFiniteSet(S), NEW f, \A x \in S : f[x] \in Int
    PROVE  SumFunctionOnSet(f, S) \in Int
<1> DEFINE T == {u \in SUBSET S : SumFunctionOnSet(f, u) \in Int}
<1>1. {} \in T
    BY SumOfNothing
<1>2. ASSUME NEW u \in SUBSET S, u # {}, IsFiniteSet(u), \A x \in u : u \ {x} \in T
      PROVE  u \in T
  <2>1. /\ AnyOf(u) \in u
        /\ SumFunctionOnSet(f, u) = f[AnyOf(u)] + SumFunctionOnSet(f, u \ {AnyOf(u)})
    BY <1>2, SumSteps
  <2>2. SumFunctionOnSet(f, u \ {AnyOf(u)}) \in Int /\ f[AnyOf(u)] \in Int
    BY <1>2, <2>1
  <2> QED BY <2>1, <2>2
<1> HIDE DEF T
<1>3. SUBSET S \subseteq T
    BY <1>1, <1>2, SubsetInduction
<1> QED BY <1>3 DEF T

(* Any element may be added last.                                          *)
LEMMA SumRemoves ==
    ASSUME NEW S, IsFiniteSet(S), NEW f, \A x \in S : f[x] \in Int, NEW x \in S
    PROVE  SumFunctionOnSet(f, S) = f[x] + SumFunctionOnSet(f, S \ {x})
<1> DEFINE T == {u \in SUBSET S : \A y \in u : SumFunctionOnSet(f, u) = f[y] + SumFunctionOnSet(f, u \ {y})}
<1>0. \A u \in SUBSET S : IsFiniteSet(u) /\ SumFunctionOnSet(f, u) \in Int
    BY FS_Subset, SumIsInt
<1>1. {} \in T
    OBVIOUS
<1>2. ASSUME NEW u \in SUBSET S, u # {}, IsFiniteSet(u), \A y \in u : u \ {y} \in T
      PROVE  u \in T
  <2> SUFFICES ASSUME NEW y \in u PROVE SumFunctionOnSet(f, u) = f[y] + SumFunctionOnSet(f, u \ {y})
    OBVIOUS
  <2> DEFINE a == AnyOf(u)
  <2>1. a \in u /\ SumFunctionOnSet(f, u) = f[a] + SumFunctionOnSet(f, u \ {a})
    BY <1>2, SumSteps
  <2> HIDE DEF a
  <2>2. CASE y = a
    BY <2>1, <2>2
  <2>3. CASE y # a
    <3>1. SumFunctionOnSet(f, u \ {a}) = f[y] + SumFunctionOnSet(f, (u \ {a}) \ {y})
        BY <1>2, <2>1, <2>3
    <3>2. SumFunctionOnSet(f, u \ {y}) = f[a] + SumFunctionOnSet(f, (u \ {y}) \ {a})
        BY <1>2, <2>1, <2>3
    <3>3. (u \ {a}) \ {y} = (u \ {y}) \ {a}
        OBVIOUS
    <3> DEFINE rest == SumFunctionOnSet(f, (u \ {y}) \ {a})
    <3>4. rest \in Int /\ f[a] \in Int /\ f[y] \in Int
        BY <1>0, <2>1
    <3>5. SumFunctionOnSet(f, u) = f[a] + (f[y] + rest)
        BY <2>1, <3>1, <3>3
    <3>6. SumFunctionOnSet(f, u \ {y}) = f[a] + rest
        BY <3>2
    <3> HIDE DEF rest
    <3> QED BY <3>4, <3>5, <3>6
  <2> QED BY <2>2, <2>3
<1> HIDE DEF T
<1>3. SUBSET S \subseteq T
    BY <1>1, <1>2, SubsetInduction
<1> QED BY <1>3 DEF T

(* Sums compare as their terms do; equal terms have equal sums.            *)
LEMMA SumIsMonotonic ==
    ASSUME NEW S, IsFiniteSet(S), NEW f, NEW h,
           \A x \in S : f[x] \in Int /\ h[x] \in Int /\ f[x] <= h[x]
    PROVE  SumFunctionOnSet(f, S) <= SumFunctionOnSet(h, S)
<1> DEFINE T == {u \in SUBSET S : SumFunctionOnSet(f, u) <= SumFunctionOnSet(h, u)}
<1>0. \A u \in SUBSET S : SumFunctionOnSet(f, u) \in Int /\ SumFunctionOnSet(h, u) \in Int
    BY FS_Subset, SumIsInt
<1>1. {} \in T
    BY SumOfNothing
<1>2. ASSUME NEW u \in SUBSET S, u # {}, IsFiniteSet(u), \A y \in u : u \ {y} \in T
      PROVE  u \in T
  <2> DEFINE a == AnyOf(u)
  <2>1. /\ a \in u
        /\ SumFunctionOnSet(f, u) = f[a] + SumFunctionOnSet(f, u \ {a})
        /\ SumFunctionOnSet(h, u) = h[a] + SumFunctionOnSet(h, u \ {a})
    BY <1>2, SumSteps
  <2> HIDE DEF a
  <2>2. SumFunctionOnSet(f, u \ {a}) <= SumFunctionOnSet(h, u \ {a})
    BY <1>2, <2>1
  <2>3. SumFunctionOnSet(f, u \ {a}) \in Int /\ SumFunctionOnSet(h, u \ {a}) \in Int
        /\ f[a] \in Int /\ h[a] \in Int /\ f[a] <= h[a]
    BY <1>0, <2>1
  <2> QED BY <2>1, <2>2, <2>3
<1> HIDE DEF T
<1>3. SUBSET S \subseteq T
    BY <1>1, <1>2, SubsetInduction
<1> QED BY <1>3 DEF T

LEMMA SumIsNat ==
    ASSUME NEW S, IsFiniteSet(S), NEW f, \A x \in S : f[x] \in Nat
    PROVE  SumFunctionOnSet(f, S) \in Nat
<1> DEFINE T == {u \in SUBSET S : SumFunctionOnSet(f, u) \in Nat}
<1>1. {} \in T
    BY SumOfNothing
<1>2. ASSUME NEW u \in SUBSET S, u # {}, IsFiniteSet(u), \A x \in u : u \ {x} \in T
      PROVE  u \in T
  <2>1. /\ AnyOf(u) \in u
        /\ SumFunctionOnSet(f, u) = f[AnyOf(u)] + SumFunctionOnSet(f, u \ {AnyOf(u)})
    BY <1>2, SumSteps
  <2>2. SumFunctionOnSet(f, u \ {AnyOf(u)}) \in Nat /\ f[AnyOf(u)] \in Nat
    BY <1>2, <2>1
  <2> QED BY <2>1, <2>2
<1> HIDE DEF T
<1>3. SUBSET S \subseteq T
    BY <1>1, <1>2, SubsetInduction
<1> QED BY <1>3 DEF T

(* A sum is that of a part and that of the rest.                           *)
LEMMA SumSplits ==
    ASSUME NEW S, IsFiniteSet(S), NEW f, \A x \in S : f[x] \in Int, NEW P
    PROVE  SumFunctionOnSet(f, S) = SumFunctionOnSet(f, S \cap P) + SumFunctionOnSet(f, S \ P)
<1> DEFINE T == {u \in SUBSET S : SumFunctionOnSet(f, u) = SumFunctionOnSet(f, u \cap P) + SumFunctionOnSet(f, u \ P)}
<1>0. \A u \in SUBSET S : IsFiniteSet(u) /\ SumFunctionOnSet(f, u) \in Int
    BY FS_Subset, SumIsInt
<1>1. {} \in T
    BY SumOfNothing
<1>2. ASSUME NEW u \in SUBSET S, u # {}, IsFiniteSet(u), \A y \in u : u \ {y} \in T
      PROVE  u \in T
  <2>0. \A z \in u : f[z] \in Int
    OBVIOUS
  <2> DEFINE a == AnyOf(u)
             v == u \ {a}
  <2>1. a \in u /\ SumFunctionOnSet(f, u) = f[a] + SumFunctionOnSet(f, v)
    BY <1>2, SumSteps
  <2>2. SumFunctionOnSet(f, v) = SumFunctionOnSet(f, v \cap P) + SumFunctionOnSet(f, v \ P)
    BY <1>2, <2>1
  <2>3. SumFunctionOnSet(f, v \cap P) \in Int /\ SumFunctionOnSet(f, v \ P) \in Int /\ f[a] \in Int
    <3>1. v \cap P \in SUBSET S /\ v \ P \in SUBSET S
        OBVIOUS
    <3> QED BY <1>0, <2>1, <3>1
  <2> HIDE DEF a
  <2>4. CASE a \in P
    <3>1. v \cap P = (u \cap P) \ {a} /\ v \ P = u \ P /\ a \in u \cap P
        BY <2>1, <2>4
    <3>2. SumFunctionOnSet(f, u \cap P) = f[a] + SumFunctionOnSet(f, (u \cap P) \ {a})
      <4>1. IsFiniteSet(u \cap P) /\ \A z \in u \cap P : f[z] \in Int
        BY <1>0
      <4> QED BY <3>1, <4>1, SumRemoves
    <3>3. SumFunctionOnSet(f, u \cap P) = f[a] + SumFunctionOnSet(f, v \cap P)
            /\ SumFunctionOnSet(f, v \ P) = SumFunctionOnSet(f, u \ P)
        BY <3>1, <3>2
    <3> HIDE DEF v
    <3> QED BY <2>1, <2>2, <2>3, <3>3
  <2>5. CASE a \notin P
    <3>1. v \ P = (u \ P) \ {a} /\ v \cap P = u \cap P /\ a \in u \ P
        BY <2>1, <2>5
    <3>2. SumFunctionOnSet(f, u \ P) = f[a] + SumFunctionOnSet(f, (u \ P) \ {a})
      <4>1. IsFiniteSet(u \ P) /\ \A z \in u \ P : f[z] \in Int
        BY <1>0
      <4> QED BY <3>1, <4>1, SumRemoves
    <3>3. SumFunctionOnSet(f, u \ P) = f[a] + SumFunctionOnSet(f, v \ P)
            /\ SumFunctionOnSet(f, v \cap P) = SumFunctionOnSet(f, u \cap P)
        BY <3>1, <3>2
    <3> HIDE DEF v
    <3> QED BY <2>1, <2>2, <2>3, <3>3
  <2> QED BY <2>4, <2>5
<1> HIDE DEF T
<1>3. SUBSET S \subseteq T
    BY <1>1, <1>2, SubsetInduction
<1> QED BY <1>3 DEF T

(* Terms may be renamed.                                                   *)
LEMMA SumRenames ==
    ASSUME NEW S, IsFiniteSet(S), NEW f, NEW p, NEW h,
           \A x \in S : f[x] \in Int /\ h[p[x]] = f[x],
           \A x, y \in S : p[x] = p[y] => x = y
    PROVE  SumFunctionOnSet(f, S) = SumFunctionOnSet(h, {p[x] : x \in S})
<1> DEFINE image(u) == {p[x] : x \in u}
           T == {u \in SUBSET S : IsFiniteSet(image(u)) /\ SumFunctionOnSet(f, u) = SumFunctionOnSet(h, image(u))}
<1>1. {} \in T
  <2>1. image({}) = {}
    OBVIOUS
  <2> HIDE DEF image
  <2> QED BY <2>1, SumOfNothing, FS_EmptySet
<1>2. ASSUME NEW u \in SUBSET S, u # {}, IsFiniteSet(u), \A y \in u : u \ {y} \in T
      PROVE  u \in T
  <2> DEFINE a == AnyOf(u)
  <2>1. a \in u /\ SumFunctionOnSet(f, u) = f[a] + SumFunctionOnSet(f, u \ {a})
    BY <1>2, SumSteps
  <2> HIDE DEF a
  <2>2. image(u) = image(u \ {a}) \cup {p[a]} /\ image(u \ {a}) = image(u) \ {p[a]}
    BY <2>1
  <2>3. IsFiniteSet(image(u \ {a}))
    BY <1>2, <2>1
  <2>4. IsFiniteSet(image(u))
    <3> HIDE DEF image
    <3>1. IsFiniteSet(image(u \ {a}) \cup {p[a]})
        BY <2>3, FS_AddElement
    <3> QED BY <2>2, <3>1
  <2>5. \A z \in image(u) : h[z] \in Int
    BY <2>1
  <2>6. p[a] \in image(u)
    BY <2>1
  <2>7. SumFunctionOnSet(h, image(u)) = h[p[a]] + SumFunctionOnSet(h, image(u \ {a}))
    <3> HIDE DEF image
    <3>1. SumFunctionOnSet(h, image(u)) = h[p[a]] + SumFunctionOnSet(h, image(u) \ {p[a]})
        BY <2>4, <2>5, <2>6, SumRemoves
    <3> QED BY <2>2, <3>1
  <2>8. SumFunctionOnSet(f, u \ {a}) = SumFunctionOnSet(h, image(u \ {a})) /\ h[p[a]] = f[a]
    BY <1>2, <2>1
  <2> HIDE DEF image
  <2> QED BY <2>1, <2>4, <2>7, <2>8
<1> HIDE DEF T
<1>3. SUBSET S \subseteq T
    BY <1>1, <1>2, SubsetInduction
<1> QED BY <1>3 DEF T

-----------------------------------------------------------------------------
(* Part 2: a budget and its items.                                         *)
Items(K) == [key : K, size : Nat]

(* Each key is tracked once, and the total is the sum of the sizes.        *)
OnePerKey(seq) == \A i, j \in DOMAIN seq : seq[i].key = seq[j].key => i = j

Weight(b) == SumFunction([k \in Tracked(b) |-> SizeOf(b, k)])

Consistent(b, K) ==
    /\ b = [lru |-> b.lru, total |-> b.total]
    /\ b.lru \in Seq(Items(K)) /\ OnePerKey(b.lru)
    /\ b.total = Weight(b)

WellKept(b, K) == Consistent(b, K) /\ b.total <= MaxBytes

LEMMA PoppedSeq ==
    ASSUME NEW S, NEW seq \in Seq(S), NEW i \in 1 .. Len(seq)
    PROVE  /\ Popped(seq, i) \in Seq(S)
           /\ Len(Popped(seq, i)) = Len(seq) - 1
           /\ \A j \in 1 .. Len(seq) - 1 :
                Popped(seq, i)[j] = IF j < i THEN seq[j] ELSE seq[j + 1]
<1>1. Len(seq) \in Nat /\ i \in Int
    BY LenProperties
<1> DEFINE front == SubSeq(seq, 1, i - 1)
           back == SubSeq(seq, i + 1, Len(seq))
<1>2. /\ front \in Seq(S) /\ Len(front) = i - 1
      /\ \A j \in 1 .. i - 1 : front[j] = seq[j]
    BY <1>1, SubSeqProperties, ElementOfSeq
<1>3. /\ back \in Seq(S) /\ Len(back) = Len(seq) - i
      /\ \A j \in 1 .. Len(seq) - i : back[j] = seq[i + j]
    BY <1>1, SubSeqProperties, ElementOfSeq
<1> HIDE DEF front, back
<1>4. /\ front \o back \in Seq(S)
      /\ Len(front \o back) = Len(front) + Len(back)
      /\ \A j \in 1 .. Len(front) + Len(back) :
            (front \o back)[j] = IF j <= Len(front) THEN front[j] ELSE back[j - Len(front)]
    BY <1>2, <1>3, ConcatProperties
<1>5. Popped(seq, i) = front \o back
    BY DEF Popped, front, back
<1>6. ASSUME NEW j \in 1 .. Len(seq) - 1
      PROVE  (front \o back)[j] = IF j < i THEN seq[j] ELSE seq[j + 1]
    BY <1>1, <1>2, <1>3, <1>4
<1> QED BY <1>1, <1>2, <1>3, <1>4, <1>5, <1>6

(* Looking a tracked key up finds its one item.                            *)
LEMMA PlaceOfKey ==
    ASSUME NEW b, OnePerKey(b.lru), NEW i \in DOMAIN b.lru
    PROVE  /\ Place(b, b.lru[i].key) = i
           /\ SizeOf(b, b.lru[i].key) = b.lru[i].size
<1>1. Place(b, b.lru[i].key) = i
    BY DEF Place, OnePerKey
<1> QED BY <1>1 DEF SizeOf

LEMMA TrackedKey ==
    ASSUME NEW K, NEW b, b.lru \in Seq(Items(K)), OnePerKey(b.lru), NEW k \in Tracked(b)
    PROVE  /\ Place(b, k) \in 1 .. Len(b.lru) /\ b.lru[Place(b, k)].key = k
           /\ k \in K /\ SizeOf(b, k) \in Nat
           /\ b.lru[Place(b, k)].size = SizeOf(b, k)
<1>1. PICK i \in DOMAIN b.lru : k = b.lru[i].key
    BY DEF Tracked
<1>2. i \in 1 .. Len(b.lru) /\ b.lru[i] \in Items(K)
    BY <1>1, LenProperties, ElementOfSeq
<1>3. Place(b, k) = i /\ SizeOf(b, k) = b.lru[i].size
    BY <1>1, PlaceOfKey
<1> QED BY <1>1, <1>2, <1>3 DEF Items

LEMMA TrackedIsFinite ==
    ASSUME NEW K, NEW b, b.lru \in Seq(Items(K))
    PROVE  IsFiniteSet(Tracked(b)) /\ Tracked(b) \subseteq K
<1>1. DOMAIN b.lru = 1 .. Len(b.lru) /\ Len(b.lru) \in Nat
    BY LenProperties
<1>2. IsFiniteSet(DOMAIN b.lru)
    BY <1>1, FS_Interval
<1> DEFINE f == [i \in DOMAIN b.lru |-> b.lru[i].key]
<1>3. f \in Surjection(DOMAIN b.lru, Tracked(b))
    BY DEF Surjection, Tracked
<1>4. IsFiniteSet(Tracked(b))
    BY <1>2, <1>3, FS_Surjection
<1>5. ASSUME NEW i \in DOMAIN b.lru PROVE b.lru[i].key \in K
  <2>1. b.lru[i] \in Items(K)
    BY <1>1, ElementOfSeq
  <2> QED BY <2>1 DEF Items
<1> QED BY <1>4, <1>5 DEF Tracked

(* Two consistent lists that hold the same items agree on every size.      *)
LEMMA SameItems ==
    ASSUME NEW K, NEW b, NEW c, OnePerKey(b.lru), OnePerKey(c.lru),
           NEW i \in DOMAIN b.lru, NEW j \in DOMAIN c.lru, b.lru[i] = c.lru[j]
    PROVE  SizeOf(b, b.lru[i].key) = SizeOf(c, b.lru[i].key)
BY PlaceOfKey

LEMMA SumAgrees ==
    ASSUME NEW S, IsFiniteSet(S), NEW f, NEW h, \A x \in S : f[x] \in Int /\ f[x] = h[x]
    PROVE  SumFunctionOnSet(f, S) = SumFunctionOnSet(h, S)
<1>1. SumFunctionOnSet(f, S) \in Int /\ SumFunctionOnSet(h, S) \in Int
    BY SumIsInt
<1>2. SumFunctionOnSet(f, S) <= SumFunctionOnSet(h, S)
    BY SumIsMonotonic
<1>3. SumFunctionOnSet(h, S) <= SumFunctionOnSet(f, S)
    BY SumIsMonotonic
<1> QED BY <1>1, <1>2, <1>3

LEMMA WeightIsNat ==
    ASSUME NEW K, NEW b, b.lru \in Seq(Items(K)), OnePerKey(b.lru)
    PROVE  Weight(b) \in Nat
<1> DEFINE f == [k \in Tracked(b) |-> SizeOf(b, k)]
<1>1. \A k \in Tracked(b) : f[k] \in Nat
    BY TrackedKey
<1>2. SumFunctionOnSet(f, Tracked(b)) \in Nat
  <2> HIDE DEF f
  <2> QED BY <1>1, TrackedIsFinite, SumIsNat
<1> QED BY <1>2 DEF Weight, SumFunction

LEMMA WeightWithout ==
    ASSUME NEW K, NEW b, b.lru \in Seq(Items(K)), OnePerKey(b.lru),
           NEW k \in Tracked(b), NEW c, Tracked(c) = Tracked(b) \ {k},
           \A j \in Tracked(c) : SizeOf(c, j) = SizeOf(b, j)
    PROVE  Weight(b) = SizeOf(b, k) + Weight(c)
<1> DEFINE f == [j \in Tracked(b) |-> SizeOf(b, j)]
           g == [j \in Tracked(c) |-> SizeOf(c, j)]
           S == Tracked(b)
<1>1. IsFiniteSet(S) /\ \A j \in S : f[j] \in Int
  <2>1. IsFiniteSet(S)
    BY TrackedIsFinite
  <2>2. \A j \in S : SizeOf(b, j) \in Nat
    BY TrackedKey
  <2> QED BY <2>1, <2>2
<1>2. f[k] = SizeOf(b, k) /\ \A j \in S \ {k} : f[j] = g[j]
    OBVIOUS
<1>3. Weight(b) = SumFunctionOnSet(f, S) /\ Weight(c) = SumFunctionOnSet(g, S \ {k})
    BY DEF Weight, SumFunction
<1> HIDE DEF f, g, S
<1>4. SumFunctionOnSet(f, S) = f[k] + SumFunctionOnSet(f, S \ {k})
    BY <1>1, SumRemoves DEF S
<1>5. SumFunctionOnSet(f, S \ {k}) = SumFunctionOnSet(g, S \ {k})
  <2>1. IsFiniteSet(S \ {k})
    BY <1>1, FS_RemoveElement
  <2> QED BY <1>1, <1>2, <2>1, SumAgrees
<1> QED BY <1>2, <1>3, <1>4, <1>5

(* forget(): the key is tracked no longer, the others as before.           *)
LEMMA WithoutKey ==
    ASSUME NEW K, NEW b, b.lru \in Seq(Items(K)), OnePerKey(b.lru), NEW k \in Tracked(b),
           NEW c, c.lru = Without(b, k)
    PROVE  /\ c.lru \in Seq(Items(K)) /\ OnePerKey(c.lru)
           /\ Tracked(c) = Tracked(b) \ {k}
           /\ \A j \in Tracked(c) : SizeOf(c, j) = SizeOf(b, j)
<1>0. Place(b, k) \in 1 .. Len(b.lru) /\ b.lru[Place(b, k)].key = k
    BY TrackedKey
<1> DEFINE p == Place(b, k)
<1>1. p \in 1 .. Len(b.lru) /\ b.lru[p].key = k
    BY <1>0
<1>2. Len(b.lru) \in Nat /\ DOMAIN b.lru = 1 .. Len(b.lru)
    BY LenProperties
<1>3. /\ c.lru \in Seq(Items(K))
      /\ Len(c.lru) = Len(b.lru) - 1
      /\ \A j \in 1 .. Len(b.lru) - 1 : c.lru[j] = IF j < p THEN b.lru[j] ELSE b.lru[j + 1]
    BY <1>1, PoppedSeq DEF Without
<1>4. DOMAIN c.lru = 1 .. Len(b.lru) - 1
    BY <1>3, LenProperties
<1> DEFINE from(j) == IF j < p THEN j ELSE j + 1
<1>5. \A j \in DOMAIN c.lru : from(j) \in DOMAIN b.lru /\ from(j) # p /\ c.lru[j] = b.lru[from(j)]
    BY <1>1, <1>2, <1>3, <1>4
<1>6. \A i \in DOMAIN b.lru : i # p => \E j \in DOMAIN c.lru : from(j) = i
  <2> SUFFICES ASSUME NEW i \in DOMAIN b.lru, i # p PROVE \E j \in DOMAIN c.lru : from(j) = i
    OBVIOUS
  <2> DEFINE j == IF i < p THEN i ELSE i - 1
  <2>1. j \in DOMAIN c.lru /\ from(j) = i
    BY <1>1, <1>2, <1>4
  <2> QED BY <2>1
<1>7. \A i, j \in DOMAIN c.lru : from(i) = from(j) => i = j
    BY <1>1, <1>2, <1>4
<1> HIDE DEF p, from
<1>8. OnePerKey(c.lru)
    BY <1>5, <1>7 DEF OnePerKey
<1>9. Tracked(c) = Tracked(b) \ {k}
    BY <1>1, <1>2, <1>5, <1>6 DEF Tracked, OnePerKey
<1>10. ASSUME NEW j \in Tracked(c) PROVE SizeOf(c, j) = SizeOf(b, j)
  <2>1. PICK i \in DOMAIN c.lru : j = c.lru[i].key
    BY DEF Tracked
  <2> QED BY <1>5, <1>8, <2>1, PlaceOfKey
<1> QED BY <1>3, <1>8, <1>9, <1>10

(* forget(): the key leaves the budget with its size; the total stays the  *)
(* sum of the sizes.                                                       *)
THEOREM ForgetIsConsistent ==
    ASSUME NEW K, NEW b, Consistent(b, K), NEW k
    PROVE  /\ Consistent(Forget(b, k), K)
           /\ Tracked(Forget(b, k)) = Tracked(b) \ {k}
           /\ \A j \in Tracked(b) \ {k} : SizeOf(Forget(b, k), j) = SizeOf(b, j)
           /\ Forget(b, k).total <= b.total
<1>0. b.lru \in Seq(Items(K)) /\ OnePerKey(b.lru) /\ b.total = Weight(b) /\ b.total \in Nat
    BY WeightIsNat DEF Consistent
<1>1. CASE k \notin Tracked(b)
    BY <1>0, <1>1 DEF Forget
<1>2. CASE k \in Tracked(b)
  <2> DEFINE c == Forget(b, k)
  <2>1. c = [lru |-> Without(b, k), total |-> b.total - SizeOf(b, k)]
    BY <1>2 DEF Forget
  <2>2. c.lru = Without(b, k) /\ c.total = b.total - SizeOf(b, k) /\ c = [lru |-> c.lru, total |-> c.total]
    BY <2>1
  <2> HIDE DEF c
  <2>3. /\ c.lru \in Seq(Items(K)) /\ OnePerKey(c.lru)
        /\ Tracked(c) = Tracked(b) \ {k}
        /\ \A j \in Tracked(c) : SizeOf(c, j) = SizeOf(b, j)
    BY <1>0, <1>2, <2>2, WithoutKey
  <2>4. Weight(b) = SizeOf(b, k) + Weight(c)
    BY <1>0, <1>2, <2>3, WeightWithout
  <2>5. Weight(c) \in Nat /\ SizeOf(b, k) \in Nat
    BY <1>0, <1>2, <2>3, WeightIsNat, TrackedKey
  <2>6. c.total = Weight(c) /\ c.total <= b.total
    BY <1>0, <2>2, <2>4, <2>5
  <2>7. Consistent(c, K)
    BY <2>2, <2>3, <2>6 DEF Consistent
  <2> QED BY <2>3, <2>6, <2>7 DEF c
<1> QED BY <1>1, <1>2

(* An item is added at the recent end.                                     *)
Appends(b, item, c) == c.lru = Append(b.lru, item)

LEMMA AppendedItem ==
    ASSUME NEW K, NEW b, b.lru \in Seq(Items(K)), OnePerKey(b.lru),
           NEW item \in Items(K), item.key \notin Tracked(b),
           NEW c, Appends(b, item, c)
    PROVE  /\ c.lru \in Seq(Items(K)) /\ OnePerKey(c.lru)
           /\ Tracked(c) = Tracked(b) \union {item.key}
           /\ \A j \in Tracked(b) : SizeOf(c, j) = SizeOf(b, j)
           /\ SizeOf(c, item.key) = item.size
           /\ Weight(c) = Weight(b) + item.size
<1> DEFINE n == Len(b.lru)
           k == item.key
           size == item.size
<1>0. n \in Nat /\ DOMAIN b.lru = 1 .. n /\ size \in Nat
    BY LenProperties DEF Items
<1>1. /\ c.lru \in Seq(Items(K)) /\ Len(c.lru) = n + 1
      /\ \A i \in 1 .. n : c.lru[i] = b.lru[i]
      /\ c.lru[n + 1] = item
    BY <1>0, AppendProperties DEF Appends
<1>2. DOMAIN c.lru = 1 .. n + 1
    BY <1>1, LenProperties
<1>3. item.key = k /\ item.size = size
    OBVIOUS
<1> HIDE DEF n, k, size
<1>4. \A i \in DOMAIN b.lru : i \in DOMAIN c.lru /\ c.lru[i] = b.lru[i]
    BY <1>0, <1>1, <1>2
<1>5. \A i \in DOMAIN c.lru : i = n + 1 \/ i \in DOMAIN b.lru
    BY <1>0, <1>2
<1>6. n + 1 \in DOMAIN c.lru
    BY <1>0, <1>2
<1>7. OnePerKey(c.lru)
    BY <1>1, <1>3, <1>4, <1>5 DEF OnePerKey, Tracked
<1>8. Tracked(c) = Tracked(b) \union {k}
    BY <1>1, <1>3, <1>4, <1>5, <1>6 DEF Tracked
<1>9. ASSUME NEW j \in Tracked(b) PROVE SizeOf(c, j) = SizeOf(b, j)
  <2>1. PICK i \in DOMAIN b.lru : j = b.lru[i].key
    BY DEF Tracked
  <2>2. i \in DOMAIN c.lru /\ c.lru[i] = b.lru[i]
    BY <1>4
  <2>3. SizeOf(c, c.lru[i].key) = c.lru[i].size
    BY <1>7, <2>2, PlaceOfKey
  <2>4. SizeOf(b, b.lru[i].key) = b.lru[i].size
    BY PlaceOfKey
  <2> QED BY <2>1, <2>2, <2>3, <2>4
<1>10. SizeOf(c, k) = size
    BY <1>1, <1>3, <1>6, <1>7, PlaceOfKey
<1>11. Weight(c) = SizeOf(c, k) + Weight(b)
  <2>1. k \in Tracked(c) /\ Tracked(b) = Tracked(c) \ {k}
    BY <1>3, <1>8
  <2>2. \A j \in Tracked(b) : SizeOf(b, j) = SizeOf(c, j)
    BY <1>9
  <2> QED BY <1>1, <1>7, <2>1, <2>2, WeightWithout
<1>12. Weight(b) \in Nat
    BY WeightIsNat
<1> QED BY <1>0, <1>1, <1>3, <1>7, <1>8, <1>9, <1>10, <1>11, <1>12 DEF k, size

(* touch(): the key becomes the most recently used; nothing else changes.  *)
THEOREM TouchIsConsistent ==
    ASSUME NEW K, NEW b, Consistent(b, K), NEW k
    PROVE  /\ Consistent(Touch(b, k), K)
           /\ Tracked(Touch(b, k)) = Tracked(b)
           /\ \A j \in Tracked(b) : SizeOf(Touch(b, k), j) = SizeOf(b, j)
           /\ Touch(b, k).total = b.total
<1>0. b.lru \in Seq(Items(K)) /\ OnePerKey(b.lru) /\ b.total = Weight(b)
      /\ b = [lru |-> b.lru, total |-> b.total]
    BY DEF Consistent
<1>1. CASE k \notin Tracked(b)
    BY <1>1 DEF Touch
<1>2. CASE k \in Tracked(b)
  <2> DEFINE a == [lru |-> Without(b, k)]
             c == Touch(b, k)
             item == [key |-> k, size |-> SizeOf(b, k)]
  <2>1. c = [b EXCEPT !.lru = Append(Without(b, k), [key |-> k, size |-> SizeOf(b, k)])]
    BY <1>2 DEF Touch
  <2>2. /\ Appends(a, item, c)
        /\ c.total = b.total /\ c = [lru |-> c.lru, total |-> c.total]
        /\ a.lru = Without(b, k) /\ item.key = k /\ item.size = SizeOf(b, k)
    BY <1>0, <2>1 DEF Appends
  <2>3. /\ a.lru \in Seq(Items(K)) /\ OnePerKey(a.lru)
        /\ Tracked(a) = Tracked(b) \ {k}
        /\ \A j \in Tracked(a) : SizeOf(a, j) = SizeOf(b, j)
    BY <1>0, <1>2, <2>2, WithoutKey
  <2>4. k \in K /\ SizeOf(b, k) \in Nat /\ k \notin Tracked(a) /\ item \in Items(K)
    BY <1>0, <1>2, <2>3, TrackedKey DEF Items
  <2> HIDE DEF c, a, item
  <2>5. /\ c.lru \in Seq(Items(K)) /\ OnePerKey(c.lru)
        /\ Tracked(c) = Tracked(a) \union {k}
        /\ \A j \in Tracked(a) : SizeOf(c, j) = SizeOf(a, j)
        /\ SizeOf(c, k) = SizeOf(b, k)
        /\ Weight(c) = Weight(a) + SizeOf(b, k)
    <3>1. item.key \notin Tracked(a)
        BY <2>2, <2>4
    <3>2. /\ c.lru \in Seq(Items(K)) /\ OnePerKey(c.lru)
          /\ Tracked(c) = Tracked(a) \union {item.key}
          /\ \A j \in Tracked(a) : SizeOf(c, j) = SizeOf(a, j)
          /\ SizeOf(c, item.key) = item.size
          /\ Weight(c) = Weight(a) + item.size
        BY <2>2, <2>3, <2>4, <3>1, AppendedItem
    <3> QED BY <2>2, <3>2
  <2>6. Weight(b) = SizeOf(b, k) + Weight(a) /\ Weight(a) \in Nat
    BY <1>0, <1>2, <2>3, WeightWithout, WeightIsNat
  <2>7. c.total = Weight(c)
    BY <1>0, <2>2, <2>4, <2>5, <2>6
  <2>8. Tracked(c) = Tracked(b) /\ \A j \in Tracked(b) : SizeOf(c, j) = SizeOf(b, j)
    BY <1>2, <2>3, <2>5
  <2>9. Consistent(c, K)
    BY <2>2, <2>5, <2>7 DEF Consistent
  <2> QED BY <2>2, <2>8, <2>9 DEF c
<1> QED BY <1>1, <1>2

(* The n oldest items leave.                                               *)
Rest(b, n) == [lru |-> SubSeq(b.lru, n + 1, Len(b.lru)), total |-> b.total - Freed(b, n)]

LEMMA OldestLeave ==
    ASSUME NEW K, NEW b, Consistent(b, K), NEW n \in 0 .. Len(b.lru)
    PROVE  /\ Consistent(Rest(b, n), K)
           /\ Tracked(Rest(b, n)) = Tracked(b) \ {b.lru[i].key : i \in 1 .. n}
           /\ \A j \in Tracked(Rest(b, n)) : SizeOf(Rest(b, n), j) = SizeOf(b, j)
           /\ Rest(b, n).total = b.total - Freed(b, n)
           /\ Freed(b, n) \in Nat /\ b.total \in Nat
           /\ n = Len(b.lru) => Rest(b, n).total = 0
<1> DEFINE c == Rest(b, n)
           T == Tracked(b)
           P == {b.lru[i].key : i \in 1 .. n}
<1>0. /\ b.lru \in Seq(Items(K)) /\ OnePerKey(b.lru) /\ b.total = Weight(b)
      /\ Len(b.lru) \in Nat /\ DOMAIN b.lru = 1 .. Len(b.lru) /\ n \in Nat
      /\ b.total \in Nat
    BY WeightIsNat, LenProperties DEF Consistent
<1>1. /\ c.lru \in Seq(Items(K)) /\ Len(c.lru) = Len(b.lru) - n
      /\ \A i \in 1 .. Len(b.lru) - n : c.lru[i] = b.lru[i + n]
  <2>1. \A i \in n + 1 .. Len(b.lru) : b.lru[i] \in Items(K)
    BY <1>0, ElementOfSeq
  <2>2. c.lru = SubSeq(b.lru, n + 1, Len(b.lru)) /\ n + 1 \in Int
    BY <1>0 DEF Rest
  <2> HIDE DEF c
  <2> QED BY <1>0, <2>1, <2>2, SubSeqProperties
<1>2. c.total = b.total - Freed(b, n) /\ c = [lru |-> c.lru, total |-> c.total]
    BY DEF Rest
<1> HIDE DEF c
<1>3. DOMAIN c.lru = 1 .. Len(b.lru) - n
    BY <1>1, LenProperties
<1>4. ASSUME NEW i \in DOMAIN c.lru
      PROVE  i + n \in DOMAIN b.lru /\ i + n > n /\ c.lru[i] = b.lru[i + n]
  <2>1. i \in 1 .. Len(b.lru) - n
    BY <1>3
  <2>2. i + n \in 1 .. Len(b.lru) /\ i + n > n
    BY <1>0, <2>1
  <2> QED BY <1>0, <1>1, <2>1, <2>2
<1>5. OnePerKey(c.lru)
  <2> SUFFICES ASSUME NEW i \in DOMAIN c.lru, NEW j \in DOMAIN c.lru, c.lru[i].key = c.lru[j].key
               PROVE  i = j
    BY DEF OnePerKey
  <2>0. i + n \in DOMAIN b.lru /\ j + n \in DOMAIN b.lru /\ b.lru[i + n].key = b.lru[j + n].key
    BY <1>4
  <2>1. i + n = j + n
    BY <1>0, <2>0 DEF OnePerKey
  <2> QED BY <1>0, <1>3, <2>1
<1>6. Tracked(c) = T \ P
  <2>1. ASSUME NEW i \in DOMAIN c.lru PROVE c.lru[i].key \in T \ P
    <3>1. c.lru[i].key \in T
        BY <1>4 DEF Tracked
    <3>2. ASSUME NEW j \in 1 .. n, b.lru[j].key = c.lru[i].key PROVE FALSE
      <4>1. j \in DOMAIN b.lru /\ i + n \in DOMAIN b.lru /\ j # i + n
        BY <1>0, <1>4
      <4> QED BY <1>0, <1>4, <3>2, <4>1 DEF OnePerKey
    <3> QED BY <3>1, <3>2
  <2>2. ASSUME NEW j \in DOMAIN b.lru, b.lru[j].key \notin P PROVE b.lru[j].key \in Tracked(c)
    <3>1. j - n \in DOMAIN c.lru
        BY <1>0, <1>3, <2>2
    <3>2. c.lru[j - n] = b.lru[j]
        BY <1>0, <1>4, <3>1
    <3> QED BY <3>1, <3>2 DEF Tracked
  <2> QED BY <2>1, <2>2 DEF Tracked
<1>7. ASSUME NEW j \in Tracked(c) PROVE SizeOf(c, j) = SizeOf(b, j)
  <2>1. PICK i \in DOMAIN c.lru : j = c.lru[i].key
    BY DEF Tracked
  <2>2. SizeOf(c, c.lru[i].key) = c.lru[i].size
    BY <1>5, PlaceOfKey
  <2>3. SizeOf(b, b.lru[i + n].key) = b.lru[i + n].size
    BY <1>0, <1>4, PlaceOfKey
  <2> QED BY <1>4, <2>1, <2>2, <2>3
<1> DEFINE f == [k \in T |-> SizeOf(b, k)]
<1>8. IsFiniteSet(T) /\ \A k \in T : f[k] \in Nat
  <2>1. IsFiniteSet(T)
    BY <1>0, TrackedIsFinite
  <2>2. \A k \in T : SizeOf(b, k) \in Nat
    BY <1>0, TrackedKey
  <2> QED BY <2>1, <2>2
<1>9. P \subseteq T
    BY <1>0 DEF Tracked
<1>10. Weight(b) = SumFunctionOnSet(f, P) + Weight(c)
  <2>1. Weight(b) = SumFunctionOnSet(f, T)
    BY DEF Weight, SumFunction
  <2>2. SumFunctionOnSet(f, T) = SumFunctionOnSet(f, T \cap P) + SumFunctionOnSet(f, T \ P)
    <3>1. IsFiniteSet(T) /\ \A k \in T : f[k] \in Int
        BY <1>8
    <3> HIDE DEF f, T, P, c
    <3>2. \A Q : SumFunctionOnSet(f, T) = SumFunctionOnSet(f, T \cap Q) + SumFunctionOnSet(f, T \ Q)
        BY ONLY <3>1, SumSplits
    <3> QED BY <3>2
  <2>3. T \cap P = P
    BY <1>9
  <2> DEFINE g == [k \in Tracked(c) |-> SizeOf(c, k)]
  <2>4. Weight(c) = SumFunctionOnSet(g, Tracked(c))
    BY DEF Weight, SumFunction
  <2>5. SumFunctionOnSet(f, T \ P) = SumFunctionOnSet(g, T \ P)
    <3>1. \A k \in T \ P : f[k] = g[k]
        BY <1>6, <1>7
    <3>2. IsFiniteSet(T \ P)
        BY <1>8, FS_Difference
    <3> HIDE DEF f, g, T, P
    <3> QED BY <1>8, <3>1, <3>2, SumAgrees
  <2> QED BY <1>6, <2>1, <2>2, <2>3, <2>4, <2>5
<1>11. Freed(b, n) = SumFunctionOnSet(f, P)
  <2> DEFINE z == [i \in 1 .. n |-> b.lru[i].size]
             q == [i \in 1 .. n |-> b.lru[i].key]
  <2>1. Freed(b, n) = SumFunctionOnSet(z, 1 .. n)
    BY DEF Freed, SumFunction
  <2>2. ASSUME NEW i \in 1 .. n PROVE z[i] \in Int /\ f[q[i]] = z[i]
    <3>1. i \in DOMAIN b.lru /\ b.lru[i] \in Items(K)
        BY <1>0, ElementOfSeq
    <3>2. SizeOf(b, b.lru[i].key) = b.lru[i].size
        BY <1>0, <3>1, PlaceOfKey
    <3>3. q[i] \in T
        BY <3>1 DEF Tracked
    <3> QED BY <3>1, <3>2, <3>3 DEF Items
  <2>3. \A i, j \in 1 .. n : q[i] = q[j] => i = j
    BY <1>0 DEF OnePerKey
  <2>4. IsFiniteSet(1 .. n)
    BY <1>0, FS_Interval
  <2>5. P = {q[i] : i \in 1 .. n}
    OBVIOUS
  <2>6. SumFunctionOnSet(z, 1 .. n) = SumFunctionOnSet(f, {q[i] : i \in 1 .. n})
    <3> DEFINE D == 1 .. n
    <3> HIDE DEF f, z, q, P, D
    <3>1. \A i \in D : z[i] \in Int /\ f[q[i]] = z[i]
        BY <2>2 DEF D
    <3>2. IsFiniteSet(D) /\ \A i, j \in D : q[i] = q[j] => i = j
        BY <2>3, <2>4 DEF D
    <3>3. SumFunctionOnSet(z, D) = SumFunctionOnSet(f, {q[i] : i \in D})
        BY <3>1, <3>2, SumRenames
    <3> QED BY <3>3 DEF D
  <2> QED BY <2>1, <2>5, <2>6
<1>12. Freed(b, n) \in Nat
  <2>1. IsFiniteSet(P)
    BY <1>8, <1>9, FS_Subset
  <2> HIDE DEF f, P, T
  <2> QED BY <1>8, <1>9, <1>11, <2>1, SumIsNat
<1>13. Weight(c) \in Nat
    BY <1>1, <1>5, WeightIsNat
<1>14. Consistent(c, K)
    BY <1>0, <1>1, <1>2, <1>5, <1>10, <1>11, <1>12, <1>13 DEF Consistent
<1>15. ASSUME n = Len(b.lru) PROVE c.total = 0
  <2>1. DOMAIN c.lru = {}
    BY <1>0, <1>3, <1>15
  <2>2. Tracked(c) = {}
    BY <2>1 DEF Tracked
  <2>3. Weight(c) = 0
    BY <2>2, SumOfNothing DEF Weight, SumFunction
  <2> QED BY <1>14, <2>3 DEF Consistent
<1> QED BY <1>0, <1>2, <1>6, <1>7, <1>12, <1>14, <1>15 DEF c

(* The loop stops at the first place where the new size fits, or when      *)
(* nothing is left.                                                        *)
Enough(b, size, n) == n = Len(b.lru) \/ ~ OverBound(b.total - Freed(b, n), size)

LEMMA EvictionsIsLeast ==
    ASSUME NEW K, NEW b, Consistent(b, K), NEW size
    PROVE  /\ Evictions(b, size) \in 0 .. Len(b.lru)
           /\ Enough(b, size, Evictions(b, size))
           /\ \A n \in 0 .. Len(b.lru) : Enough(b, size, n) => Evictions(b, size) <= n
<1> DEFINE S == {n \in 0 .. Len(b.lru) : Enough(b, size, n)}
<1>1. Len(b.lru) \in Nat
    BY LenProperties DEF Consistent
<1>2. S \subseteq Nat /\ Len(b.lru) \in S
    BY <1>1 DEF Enough
<1>3. \E m \in S : \A n \in S : m <= n
    BY <1>2, NatLeast
<1>4. Evictions(b, size) = Min(S)
    BY DEF Evictions, Enough
<1>5. Min(S) \in S /\ \A n \in S : Min(S) <= n
  <2> HIDE DEF S
  <2> QED BY <1>3 DEF Min
<1> QED BY <1>4, <1>5

Members(seq) == {seq[i] : i \in DOMAIN seq}

Admits(b, k, size, after, evicted) ==
    after = Admit(b, k, size).budget /\ evicted = Admit(b, k, size).evicted

(* admit(): the key is tracked with its size, within the bound; who leaves *)
(* was tracked and is returned, and the others keep their sizes.           *)
THEOREM AdmitIsWellKept ==
    ASSUME NEW K, NEW b, Consistent(b, K), NEW k \in K, NEW size \in Nat, size <= MaxBytes,
           NEW after, NEW evicted, Admits(b, k, size, after, evicted)
    PROVE  /\ WellKept(after, K)
           /\ evicted \in Seq(K) /\ Members(evicted) \subseteq Tracked(b) \ {k}
           /\ Tracked(after) = (Tracked(b) \ Members(evicted)) \union {k}
           /\ SizeOf(after, k) = size
           /\ \A j \in Tracked(b) \ (Members(evicted) \union {k}) : SizeOf(after, j) = SizeOf(b, j)
<1> DEFINE others == Forget(b, k)
           n == Evictions(others, size)
           rest == Rest(others, n)
           item == [key |-> k, size |-> size]
<1>1. /\ after = [lru |-> Append(rest.lru, item), total |-> rest.total + size]
      /\ evicted = [i \in 1 .. n |-> others.lru[i].key]
    BY DEF Admits, Admit, Rest
<1>2. /\ Consistent(others, K) /\ Tracked(others) = Tracked(b) \ {k}
      /\ \A j \in Tracked(b) \ {k} : SizeOf(others, j) = SizeOf(b, j)
    BY ForgetIsConsistent
<1>0. after = [lru |-> after.lru, total |-> after.total]
    BY <1>1
<1>3. /\ Appends(rest, item, after) /\ after.total = rest.total + size
      /\ item.key = k /\ item.size = size /\ item \in Items(K)
    BY <1>1 DEF Items, Appends
<1> HIDE DEF others, item
<1>4. n \in 0 .. Len(others.lru) /\ Enough(others, size, n)
    BY <1>2, EvictionsIsLeast
<1> HIDE DEF n
<1>5. /\ Consistent(rest, K)
      /\ Tracked(rest) = Tracked(others) \ {others.lru[i].key : i \in 1 .. n}
      /\ \A j \in Tracked(rest) : SizeOf(rest, j) = SizeOf(others, j)
      /\ rest.total = others.total - Freed(others, n)
      /\ Freed(others, n) \in Nat /\ others.total \in Nat
      /\ n = Len(others.lru) => rest.total = 0
    BY <1>2, <1>4, OldestLeave
<1> HIDE DEF rest
<1>6. rest.total + size <= MaxBytes
    BY <1>4, <1>5, MaxBytesAssumption DEF Enough, OverBound
<1>7. /\ others.lru \in Seq(Items(K)) /\ Len(others.lru) \in Nat
      /\ DOMAIN others.lru = 1 .. Len(others.lru)
    BY <1>2, LenProperties DEF Consistent
<1>8. \A i \in 1 .. n : others.lru[i].key \in K /\ i \in DOMAIN others.lru
  <2>1. \A i \in 1 .. n : i \in DOMAIN others.lru /\ others.lru[i] \in Items(K)
    BY <1>4, <1>7, ElementOfSeq
  <2> QED BY <2>1 DEF Items
<1>9. /\ evicted \in Seq(K)
      /\ Members(evicted) = {others.lru[i].key : i \in 1 .. n}
  <2>1. n \in Nat
    BY <1>4, <1>7
  <2>2. evicted = [i \in 1 .. n |-> others.lru[i].key]
    BY <1>1
  <2>3. evicted \in Seq(K)
    BY <1>8, <2>1, <2>2
  <2>4. DOMAIN evicted = 1 .. n /\ \A i \in 1 .. n : evicted[i] = others.lru[i].key
    BY <2>2
  <2> QED BY <2>3, <2>4 DEF Members
<1>10. Members(evicted) \subseteq Tracked(others)
    BY <1>8, <1>9 DEF Tracked
<1>11. rest.lru \in Seq(Items(K)) /\ OnePerKey(rest.lru) /\ rest.total = Weight(rest)
    BY <1>5 DEF Consistent
<1>12. item.key \notin Tracked(rest)
    BY <1>2, <1>3, <1>5
<1>13. /\ after.lru \in Seq(Items(K)) /\ OnePerKey(after.lru)
       /\ Tracked(after) = Tracked(rest) \union {item.key}
       /\ \A j \in Tracked(rest) : SizeOf(after, j) = SizeOf(rest, j)
       /\ SizeOf(after, item.key) = item.size
       /\ Weight(after) = Weight(rest) + item.size
    BY <1>3, <1>11, <1>12, AppendedItem
<1>14. WellKept(after, K)
    BY <1>0, <1>3, <1>6, <1>11, <1>13 DEF WellKept, Consistent
<1>15. Tracked(after) = (Tracked(b) \ Members(evicted)) \union {k}
    BY <1>2, <1>3, <1>5, <1>9, <1>10, <1>13
<1>16. ASSUME NEW j \in Tracked(b) \ (Members(evicted) \union {k})
       PROVE  SizeOf(after, j) = SizeOf(b, j)
  <2>1. j \in Tracked(rest) /\ j \in Tracked(b) \ {k}
    BY <1>2, <1>5, <1>9
  <2> QED BY <1>2, <1>5, <1>13, <2>1
<1> QED BY <1>2, <1>3, <1>9, <1>10, <1>13, <1>14, <1>15, <1>16


-----------------------------------------------------------------------------
(* Part 3: the order of use.                                               *)
OlderIn(b, a, c) ==
    \E i, j \in DOMAIN b.lru : i < j /\ b.lru[i].key = a /\ b.lru[j].key = c

Bytes(b, S) == SumFunction([j \in S |-> SizeOf(b, j)])

(* Of two tracked keys one is the older.                                   *)
LEMMA OneIsOlder ==
    ASSUME NEW K, NEW b, b.lru \in Seq(Items(K)), NEW a \in Tracked(b), NEW c \in Tracked(b),
           a # c
    PROVE  OlderIn(b, a, c) \/ OlderIn(b, c, a)
<1>1. PICK i \in DOMAIN b.lru, j \in DOMAIN b.lru : a = b.lru[i].key /\ c = b.lru[j].key
    BY DEF Tracked
<1>2. DOMAIN b.lru \subseteq Nat
    BY LenProperties
<1>3. i < j \/ j < i
    BY <1>1, <1>2
<1> QED BY <1>1, <1>3 DEF OlderIn

(* What is left of the list keeps its order.                               *)
LEMMA WithoutKeepsOrder ==
    ASSUME NEW K, NEW b, b.lru \in Seq(Items(K)), OnePerKey(b.lru), NEW k \in Tracked(b),
           NEW d, d.lru = Without(b, k), NEW a, NEW c, OlderIn(d, a, c)
    PROVE  OlderIn(b, a, c) /\ a # k /\ c # k
<1> DEFINE p == Place(b, k)
<1>1. p \in 1 .. Len(b.lru) /\ Len(b.lru) \in Nat /\ DOMAIN b.lru = 1 .. Len(b.lru)
    BY TrackedKey, LenProperties
<1> HIDE DEF p
<1>2. /\ d.lru \in Seq(Items(K)) /\ Len(d.lru) = Len(b.lru) - 1
      /\ \A j \in 1 .. Len(b.lru) - 1 : d.lru[j] = IF j < p THEN b.lru[j] ELSE b.lru[j + 1]
    BY <1>1, PoppedSeq DEF Without, p
<1>3. DOMAIN d.lru = 1 .. Len(b.lru) - 1
    BY <1>2, LenProperties
<1>4. PICK i \in DOMAIN d.lru, j \in DOMAIN d.lru :
            i < j /\ d.lru[i].key = a /\ d.lru[j].key = c
    BY DEF OlderIn
<1> DEFINE from(l) == IF l < p THEN l ELSE l + 1
<1>5. \A l \in DOMAIN d.lru : from(l) \in DOMAIN b.lru /\ d.lru[l] = b.lru[from(l)]
    BY <1>1, <1>2, <1>3
<1>6. from(i) < from(j)
    BY <1>1, <1>3, <1>4
<1> HIDE DEF from
<1>7. OlderIn(b, a, c)
    BY <1>4, <1>5, <1>6 DEF OlderIn
<1>8. Tracked(d) = Tracked(b) \ {k}
    BY WithoutKey
<1>9. a \in Tracked(d) /\ c \in Tracked(d)
    BY <1>4 DEF Tracked
<1> QED BY <1>7, <1>8, <1>9

LEMMA ForgetKeepsOrder ==
    ASSUME NEW K, NEW b, Consistent(b, K), NEW k, NEW a, NEW c, OlderIn(Forget(b, k), a, c)
    PROVE  OlderIn(b, a, c) /\ a # k /\ c # k
<1>1. CASE k \in Tracked(b)
  <2> DEFINE d == Forget(b, k)
  <2>1. d.lru = Without(b, k)
    BY <1>1 DEF Forget
  <2> HIDE DEF d
  <2> QED BY <1>1, <2>1, WithoutKeepsOrder DEF Consistent, d
<1>2. CASE k \notin Tracked(b)
    BY <1>2 DEF Forget, OlderIn, Tracked
<1> QED BY <1>1, <1>2

LEMMA AppendKeepsOrder ==
    ASSUME NEW K, NEW b, b.lru \in Seq(Items(K)), NEW item \in Items(K), NEW d,
           Appends(b, item, d), NEW a, NEW c, OlderIn(d, a, c)
    PROVE  OlderIn(b, a, c) \/ (c = item.key /\ a \in Tracked(b))
<1> DEFINE n == Len(b.lru)
<1>1. n \in Nat /\ DOMAIN b.lru = 1 .. n
    BY LenProperties
<1>2. /\ d.lru \in Seq(Items(K)) /\ Len(d.lru) = n + 1 /\ d.lru[n + 1] = item
      /\ \A i \in 1 .. n : d.lru[i] = b.lru[i]
    BY AppendProperties DEF Appends
<1>3. DOMAIN d.lru = 1 .. n + 1
    BY <1>2, LenProperties
<1> HIDE DEF n
<1>4. PICK i \in DOMAIN d.lru, j \in DOMAIN d.lru :
            i < j /\ d.lru[i].key = a /\ d.lru[j].key = c
    BY DEF OlderIn
<1>5. i \in DOMAIN b.lru /\ d.lru[i] = b.lru[i]
    BY <1>1, <1>2, <1>3, <1>4
<1>6. j = n + 1 \/ j \in DOMAIN b.lru
    BY <1>1, <1>3
<1>7. CASE j = n + 1
    BY <1>2, <1>4, <1>5, <1>7 DEF Tracked
<1>8. CASE j \in DOMAIN b.lru
    BY <1>1, <1>2, <1>4, <1>5, <1>8 DEF OlderIn
<1> QED BY <1>6, <1>7, <1>8

LEMMA TouchKeepsOrder ==
    ASSUME NEW K, NEW b, Consistent(b, K), NEW k, NEW a, NEW c, OlderIn(Touch(b, k), a, c)
    PROVE  \/ OlderIn(b, a, c) /\ a # k /\ c # k
           \/ c = k /\ a \in Tracked(b) \ {k}
<1>1. CASE k \in Tracked(b)
  <2> DEFINE d == [lru |-> Without(b, k)]
             item == [key |-> k, size |-> SizeOf(b, k)]
             e == Touch(b, k)
  <2>1. d.lru = Without(b, k) /\ e.lru = Append(d.lru, item) /\ item.key = k
    BY <1>1 DEF Touch, Consistent
  <2>2. item \in Items(K)
    BY <1>1, TrackedKey DEF Items, Consistent
  <2> HIDE DEF d, item, e
  <2>3. d.lru \in Seq(Items(K)) /\ Tracked(d) = Tracked(b) \ {k}
    BY <1>1, <2>1, WithoutKey DEF Consistent
  <2>4. OlderIn(d, a, c) \/ (c = item.key /\ a \in Tracked(d))
    BY <2>1, <2>2, <2>3, AppendKeepsOrder DEF Appends, e
  <2> QED BY <1>1, <2>1, <2>3, <2>4, WithoutKeepsOrder DEF Consistent
<1>2. CASE k \notin Tracked(b)
    BY <1>2 DEF Touch, OlderIn, Tracked
<1> QED BY <1>1, <1>2

LEMMA RestKeepsOrder ==
    ASSUME NEW K, NEW b, Consistent(b, K), NEW n \in 0 .. Len(b.lru), NEW a, NEW c,
           OlderIn(Rest(b, n), a, c)
    PROVE  OlderIn(b, a, c)
<1> DEFINE d == Rest(b, n)
<1>1. /\ b.lru \in Seq(Items(K)) /\ Len(b.lru) \in Nat /\ DOMAIN b.lru = 1 .. Len(b.lru)
      /\ n \in Nat
    BY LenProperties DEF Consistent
<1>2. /\ d.lru \in Seq(Items(K)) /\ Len(d.lru) = Len(b.lru) - n
      /\ \A i \in 1 .. Len(b.lru) - n : d.lru[i] = b.lru[i + n]
  <2>1. \A i \in n + 1 .. Len(b.lru) : b.lru[i] \in Items(K)
    BY <1>1, ElementOfSeq
  <2>2. d.lru = SubSeq(b.lru, n + 1, Len(b.lru)) /\ n + 1 \in Int
    BY <1>1 DEF Rest
  <2> HIDE DEF d
  <2> QED BY <1>1, <2>1, <2>2, SubSeqProperties
<1> HIDE DEF d
<1>3. DOMAIN d.lru = 1 .. Len(b.lru) - n
    BY <1>2, LenProperties
<1>4. PICK i \in DOMAIN d.lru, j \in DOMAIN d.lru :
            i < j /\ d.lru[i].key = a /\ d.lru[j].key = c
    BY DEF OlderIn, d
<1>5. /\ i + n \in DOMAIN b.lru /\ j + n \in DOMAIN b.lru /\ i + n < j + n
      /\ d.lru[i] = b.lru[i + n] /\ d.lru[j] = b.lru[j + n]
  <2>1. i \in 1 .. Len(b.lru) - n /\ j \in 1 .. Len(b.lru) - n
    BY <1>3
  <2>2. i + n \in 1 .. Len(b.lru) /\ j + n \in 1 .. Len(b.lru) /\ i + n < j + n
    BY <1>1, <1>4, <2>1
  <2> QED BY <1>1, <1>2, <2>1, <2>2
<1> QED BY <1>4, <1>5 DEF OlderIn

(* Consistent lists with the same sizes weigh the same as those sizes.     *)
LEMMA WeightIsBytes ==
    ASSUME NEW K, NEW b, NEW c, b.lru \in Seq(Items(K)), OnePerKey(b.lru),
           \A j \in Tracked(b) : SizeOf(b, j) = SizeOf(c, j)
    PROVE  Weight(b) = Bytes(c, Tracked(b))
<1> DEFINE S == Tracked(b)
           f == [j \in S |-> SizeOf(b, j)]
           g == [j \in S |-> SizeOf(c, j)]
<1>1. f = g
    OBVIOUS
<1> QED BY <1>1, Zenon DEF Weight, Bytes, SumFunction

(* admit(): from the least recently used on, keys leave only while what is *)
(* left would not fit with the new size; the key is the most recent after. *)
THEOREM AdmitEvictsTheOldest ==
    ASSUME NEW K, NEW b, Consistent(b, K), NEW k \in K, NEW size \in Nat,
           NEW after, NEW evicted, Admits(b, k, size, after, evicted)
    PROVE  /\ \A i, j \in DOMAIN evicted : i < j => OlderIn(b, evicted[i], evicted[j])
           /\ \A j \in Members(evicted), s \in Tracked(b) \ (Members(evicted) \union {k}) :
                OlderIn(b, j, s)
           /\ \A p \in DOMAIN evicted :
                Bytes(b, (Tracked(b) \ {k}) \ {evicted[i] : i \in 1 .. p - 1}) + size > MaxBytes
           /\ \A a, c : OlderIn(after, a, c) =>
                \/ OlderIn(b, a, c) /\ a # k /\ c # k
                \/ c = k /\ a \in Tracked(b) \ {k}
<1> DEFINE others == Forget(b, k)
           n == Evictions(others, size)
           rest == Rest(others, n)
           item == [key |-> k, size |-> size]
<1>1. /\ after = [lru |-> Append(rest.lru, item), total |-> rest.total + size]
      /\ evicted = [i \in 1 .. n |-> others.lru[i].key]
      /\ item.key = k /\ item \in Items(K)
    BY DEF Admits, Admit, Rest, Items
<1>2. /\ Consistent(others, K) /\ Tracked(others) = Tracked(b) \ {k}
      /\ \A j \in Tracked(b) \ {k} : SizeOf(others, j) = SizeOf(b, j)
    BY ForgetIsConsistent
<1>3. \A a, c : OlderIn(others, a, c) => OlderIn(b, a, c) /\ a # k /\ c # k
    BY ForgetKeepsOrder
<1> HIDE DEF others, item
<1>4. /\ n \in 0 .. Len(others.lru)
      /\ \A m \in 0 .. Len(others.lru) : Enough(others, size, m) => n <= m
    BY <1>2, EvictionsIsLeast
<1>5. /\ others.lru \in Seq(Items(K)) /\ Len(others.lru) \in Nat /\ OnePerKey(others.lru)
      /\ DOMAIN others.lru = 1 .. Len(others.lru)
    BY <1>2, LenProperties DEF Consistent
<1> HIDE DEF n
<1>6. /\ Consistent(rest, K)
      /\ Tracked(rest) = Tracked(others) \ {others.lru[i].key : i \in 1 .. n}
    BY <1>2, <1>4, OldestLeave
<1>7. /\ DOMAIN evicted = 1 .. n /\ n \in Nat /\ 1 .. n \subseteq DOMAIN others.lru
      /\ \A i \in 1 .. n : evicted[i] = others.lru[i].key
    BY <1>1, <1>4, <1>5
<1>8. ASSUME NEW i \in DOMAIN evicted, NEW j \in DOMAIN evicted, i < j
      PROVE  OlderIn(b, evicted[i], evicted[j])
  <2>1. OlderIn(others, evicted[i], evicted[j])
    BY <1>7, <1>8 DEF OlderIn
  <2> QED BY <1>3, <2>1
<1>9. ASSUME NEW i \in DOMAIN evicted, NEW s \in Tracked(b) \ (Members(evicted) \union {k})
      PROVE  OlderIn(b, evicted[i], s)
  <2>1. PICK q \in DOMAIN others.lru : s = others.lru[q].key
    BY <1>2 DEF Tracked
  <2>2. q \notin 1 .. n
    BY <1>7, <2>1 DEF Members
  <2>3. i < q
    BY <1>5, <1>7, <2>2
  <2>4. OlderIn(others, evicted[i], s)
    BY <1>7, <2>1, <2>3 DEF OlderIn
  <2> QED BY <1>3, <2>4
<1>10. ASSUME NEW p \in DOMAIN evicted
       PROVE  Bytes(b, (Tracked(b) \ {k}) \ {evicted[i] : i \in 1 .. p - 1}) + size > MaxBytes
  <2> DEFINE left == Rest(others, p - 1)
  <2>1. p - 1 \in 0 .. Len(others.lru) /\ ~ (n <= p - 1) /\ 1 .. p - 1 \subseteq 1 .. n
    BY <1>4, <1>5, <1>7
  <2>2. /\ Consistent(left, K)
        /\ Tracked(left) = Tracked(others) \ {others.lru[i].key : i \in 1 .. p - 1}
        /\ \A j \in Tracked(left) : SizeOf(left, j) = SizeOf(others, j)
        /\ left.total = others.total - Freed(others, p - 1)
    BY <1>2, <2>1, OldestLeave
  <2>3. ~ Enough(others, size, p - 1)
    BY <1>4, <2>1
  <2> HIDE DEF left
  <2>4. left.total + size > MaxBytes
    BY <2>2, <2>3 DEF Enough, OverBound
  <2>5. Tracked(left) = (Tracked(b) \ {k}) \ {evicted[i] : i \in 1 .. p - 1}
    <3>1. {others.lru[i].key : i \in 1 .. p - 1} = {evicted[i] : i \in 1 .. p - 1}
        BY <1>7, <2>1
    <3> QED BY <1>2, <2>2, <3>1
  <2>6. \A j \in Tracked(left) : SizeOf(left, j) = SizeOf(b, j)
    BY <1>2, <2>2
  <2>7. left.total = Bytes(b, Tracked(left))
    BY <2>2, <2>6, WeightIsBytes DEF Consistent
  <2> QED BY <2>4, <2>5, <2>7
<1>11. ASSUME NEW a, NEW c, OlderIn(after, a, c)
       PROVE  \/ OlderIn(b, a, c) /\ a # k /\ c # k
              \/ c = k /\ a \in Tracked(b) \ {k}
  <2> HIDE DEF rest
  <2>1. Appends(rest, item, after)
    BY <1>1 DEF Appends
  <2>2. OlderIn(rest, a, c) \/ (c = item.key /\ a \in Tracked(rest))
    BY <1>1, <1>6, <1>11, <2>1, AppendKeepsOrder DEF Consistent
  <2>3. OlderIn(rest, a, c) => OlderIn(others, a, c)
    BY <1>2, <1>4, RestKeepsOrder DEF rest
  <2> QED BY <1>1, <1>2, <1>3, <1>6, <2>2, <2>3
<1> QED BY <1>8, <1>9, <1>10, <1>11 DEF Members
=============================================================================
