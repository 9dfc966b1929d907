-------------------------- MODULE KeyedLocksProof ---------------------------
(***************************************************************************)
(* Proofs about KeyedLocks, for any finite set of threads, any keys and    *)
(* any slots, however many interrupts fall wherever they may.              *)
(***************************************************************************)
EXTENDS KeyedLocks, FiniteSetTheorems, TLAPS

(* A call that is not idle refers to the slot registered for its key.      *)
RefersToRegistered ==
    \A t \in Threads :
        /\ slot[t] = NoSlot <=> pc[t] = "idle"
        /\ pc[t] # "idle" => slots[key[t]] = slot[t]

(* A registered slot has a user or was left behind by an interrupt, and no *)
(* slot serves two keys.                                                   *)
RegisteredIsUsed ==
    /\ \A k \in Keys : slots[k] # NoSlot =>
            \/ \E t \in Threads : slot[t] = slots[k]
            \/ KeptByAStray(slots[k])
    /\ \A j, k \in Keys : (slots[j] = slots[k] /\ slots[j] # NoSlot) => j = k

CountIsUsers ==
    \A k \in Keys : slots[k] # NoSlot =>
        count[slots[k]] = Cardinality(Users(slots[k])) + lost[slots[k]]

(* Only a registered slot can be one that was not popped.                  *)
UnpoppedIsRegistered == \A s \in unpopped : \E k \in Keys : slots[k] = s

HoldersOwn == \A t \in Threads : pc[t] = "holding" => owner[slot[t]] = t

IInv ==
    /\ TypeOK
    /\ RefersToRegistered
    /\ RegisteredIsUsed
    /\ CountIsUsers
    /\ UnpoppedIsRegistered
    /\ HoldersOwn

-----------------------------------------------------------------------------
(* The users of a slot are a finite set, so their number is a natural.     *)
LEMMA UsersFinite ==
    ASSUME NEW s
    PROVE  IsFiniteSet(Users(s)) /\ Cardinality(Users(s)) \in Nat
<1>1. Users(s) \in SUBSET Threads
    BY DEF Users
<1>2. IsFiniteSet(Users(s))
    BY <1>1, ThreadsAssumption, FS_Subset
<1> QED BY <1>2, FS_CardinalityType

LEMMA InitIInv == Init => IInv
<1> SUFFICES ASSUME Init PROVE IInv
    OBVIOUS
<1>1. TypeOK
  <2>1. strays \in 0..MaxStrays
    BY StraysAssumption DEF Init
  <2> QED BY <2>1 DEF Init, TypeOK
<1>2. /\ RefersToRegistered /\ RegisteredIsUsed /\ CountIsUsers
      /\ UnpoppedIsRegistered /\ HoldersOwn
    BY DEF Init, RefersToRegistered, RegisteredIsUsed, CountIsUsers, UnpoppedIsRegistered,
           HoldersOwn
<1> QED BY <1>1, <1>2 DEF IInv

(* A step that changes neither the registry nor anyone's slot keeps what   *)
(* IInv says of them; only the mutexes and program counters may differ.    *)
LEMMA RegistryUntouched ==
    ASSUME IInv, UNCHANGED <<slots, count, key, slot, lost, unpopped>>,
           \A t \in Threads : pc'[t] = "idle" <=> pc[t] = "idle"
    PROVE  RefersToRegistered' /\ RegisteredIsUsed' /\ CountIsUsers' /\ UnpoppedIsRegistered'
BY DEF IInv, RefersToRegistered, RegisteredIsUsed, CountIsUsers, UnpoppedIsRegistered,
       KeptByAStray, Users

LEMMA EnterFreshIInv ==
    ASSUME IInv, NEW t \in Threads, NEW k \in Keys, Enter(t, k), slots[k] = NoSlot
    PROVE  IInv'
<1> USE DEF IInv
<1>1. PICK s \in Slots :
        /\ Unreferenced(s)
        /\ slots' = [slots EXCEPT ![k] = s]
        /\ count' = [count EXCEPT ![s] = 1]
        /\ owner' = [owner EXCEPT ![s] = NoThread]
        /\ lost' = [lost EXCEPT ![s] = 0]
        /\ slot' = [slot EXCEPT ![t] = s]
    BY DEF Enter, EnterFresh, Allocate
<1>2. /\ pc[t] = "idle" /\ slot[t] = NoSlot
      /\ pc' = [pc EXCEPT ![t] = "acquiring"]
      /\ key' = [key EXCEPT ![t] = k]
      /\ UNCHANGED <<late, unpopped, strays>>
    BY DEF Enter, RefersToRegistered
<1>3. s # NoSlot
    BY SlotsAssumption
<1>4. TypeOK'
    BY <1>1, <1>2 DEF TypeOK
<1>5. RefersToRegistered'
  <2> SUFFICES ASSUME NEW u \in Threads
               PROVE  /\ slot'[u] = NoSlot <=> pc'[u] = "idle"
                      /\ pc'[u] # "idle" => slots'[key'[u]] = slot'[u]
    BY DEF RefersToRegistered
  <2>1. CASE u = t
    BY <1>1, <1>2, <1>3, <2>1 DEF TypeOK
  <2>2. CASE u # t
    <3>1. slot'[u] = slot[u] /\ pc'[u] = pc[u] /\ key'[u] = key[u]
        BY <1>1, <1>2, <2>2 DEF TypeOK
    <3>2. pc[u] # "idle" => key[u] # k
        BY DEF RefersToRegistered
    <3> QED BY <1>1, <3>1, <3>2 DEF TypeOK, RefersToRegistered
  <2> QED BY <2>1, <2>2
<1>6. RegisteredIsUsed'
  <2>1. ASSUME NEW j \in Keys, slots'[j] # NoSlot
        PROVE  (\E u \in Threads : slot'[u] = slots'[j]) \/ KeptByAStray(slots[j])'
    <3>1. CASE j = k
        BY <1>1, <3>1 DEF TypeOK
    <3>2. CASE j # k
      <4>1. slots'[j] = slots[j] /\ slots[j] # NoSlot /\ slots[j] # s
        BY <1>1, <2>1, <3>2 DEF TypeOK, Unreferenced
      <4>2. CASE \E u \in Threads : slot[u] = slots[j]
        BY <1>1, <1>2, <4>1, <4>2 DEF TypeOK
      <4>3. CASE KeptByAStray(slots[j])
        BY <1>1, <1>2, <4>1, <4>3 DEF TypeOK, KeptByAStray
      <4> QED BY <4>1, <4>2, <4>3 DEF RegisteredIsUsed
    <3> QED BY <3>1, <3>2
  <2>2. ASSUME NEW i \in Keys, NEW j \in Keys, slots'[i] = slots'[j], slots'[i] # NoSlot
        PROVE  i = j
    BY <1>1, <2>2 DEF TypeOK, RegisteredIsUsed, Unreferenced
  <2> QED BY <2>1, <2>2 DEF RegisteredIsUsed
<1>7. CountIsUsers'
  <2> SUFFICES ASSUME NEW j \in Keys, slots'[j] # NoSlot
               PROVE  count'[slots'[j]] =
                        Cardinality({u \in Threads : slot'[u] = slots'[j]}) + lost'[slots'[j]]
    BY DEF CountIsUsers, Users
  <2>1. CASE j = k
    <3>1. slots'[j] = s /\ {u \in Threads : slot'[u] = s} = {t}
        BY <1>1, <2>1 DEF TypeOK, Users, Unreferenced
    <3>2. Cardinality({t}) = 1
        BY FS_Singleton
    <3>3. count'[s] = 1 /\ lost'[s] = 0
        BY <1>1 DEF TypeOK
    <3> QED BY <3>1, <3>2, <3>3
  <2>2. CASE j # k
    <3>1. slots'[j] = slots[j] /\ slots[j] # s /\ slots[j] \in Slots
        BY <1>1, <2>2 DEF TypeOK, Unreferenced
    <3>2. {u \in Threads : slot'[u] = slots[j]} = Users(slots[j])
        BY <1>1, <1>2, <3>1, SlotsAssumption DEF TypeOK, Users
    <3>3. count'[slots[j]] = count[slots[j]] /\ lost'[slots[j]] = lost[slots[j]]
        BY <1>1, <3>1 DEF TypeOK
    <3> QED BY <3>1, <3>2, <3>3, SlotsAssumption DEF CountIsUsers, Users
  <2> QED BY <2>1, <2>2
<1>8. HoldersOwn'
    BY <1>1, <1>2 DEF TypeOK, HoldersOwn, Unreferenced
<1>9. UnpoppedIsRegistered'
    BY <1>1, <1>2, SlotsAssumption DEF TypeOK, UnpoppedIsRegistered
<1> QED BY <1>4, <1>5, <1>6, <1>7, <1>8, <1>9

(* An interrupt under the guard of a new key: nobody uses the slot it      *)
(* leaves registered.                                                      *)
LEMMA EnterUncountedIInv ==
    ASSUME IInv, NEW t \in Threads, NEW k \in Keys, EnterUncounted(t, k)
    PROVE  IInv'
<1> USE DEF IInv
<1>1. PICK s \in Slots :
        /\ Unreferenced(s)
        /\ slots' = [slots EXCEPT ![k] = s]
        /\ count' = [count EXCEPT ![s] = 0]
        /\ owner' = [owner EXCEPT ![s] = NoThread]
        /\ lost' = [lost EXCEPT ![s] = 0]
        /\ unpopped' = unpopped \union {s}
    BY DEF EnterUncounted, Allocate
<1>2. /\ slots[k] = NoSlot /\ UNCHANGED <<pc, key, slot, late>>
      /\ strays < MaxStrays /\ strays' = strays + 1
    BY DEF EnterUncounted, Stray
<1>3. s # NoSlot
    BY SlotsAssumption
<1>4. TypeOK'
    BY <1>1, <1>2, StraysAssumption DEF TypeOK
<1>5. RefersToRegistered'
    BY <1>1, <1>2 DEF TypeOK, RefersToRegistered
<1>6. RegisteredIsUsed'
  <2>1. ASSUME NEW j \in Keys, slots'[j] # NoSlot
        PROVE  (\E u \in Threads : slot'[u] = slots'[j]) \/ KeptByAStray(slots[j])'
    <3>1. CASE j = k
        BY <1>1, <3>1 DEF TypeOK, KeptByAStray
    <3>2. CASE j # k
      <4>1. slots'[j] = slots[j] /\ slots[j] # NoSlot /\ slots[j] # s
        BY <1>1, <2>1, <3>2 DEF TypeOK, Unreferenced
      <4>2. CASE \E u \in Threads : slot[u] = slots[j]
        BY <1>1, <1>2, <4>1, <4>2 DEF TypeOK
      <4>3. CASE KeptByAStray(slots[j])
        BY <1>1, <1>2, <4>1, <4>3 DEF TypeOK, KeptByAStray
      <4> QED BY <4>1, <4>2, <4>3 DEF RegisteredIsUsed
    <3> QED BY <3>1, <3>2
  <2>2. ASSUME NEW i \in Keys, NEW j \in Keys, slots'[i] = slots'[j], slots'[i] # NoSlot
        PROVE  i = j
    BY <1>1, <2>2 DEF TypeOK, RegisteredIsUsed, Unreferenced
  <2> QED BY <2>1, <2>2 DEF RegisteredIsUsed
<1>7. CountIsUsers'
  <2> SUFFICES ASSUME NEW j \in Keys, slots'[j] # NoSlot
               PROVE  count'[slots'[j]] =
                        Cardinality({u \in Threads : slot'[u] = slots'[j]}) + lost'[slots'[j]]
    BY DEF CountIsUsers, Users
  <2>1. CASE j = k
    <3>1. slots'[j] = s /\ {u \in Threads : slot'[u] = s} = {}
        BY <1>1, <1>2, <2>1 DEF TypeOK, Unreferenced
    <3>2. Cardinality({}) = 0
        BY FS_EmptySet
    <3>3. count'[s] = 0 /\ lost'[s] = 0
        BY <1>1 DEF TypeOK
    <3> QED BY <3>1, <3>2, <3>3
  <2>2. CASE j # k
    <3>1. slots'[j] = slots[j] /\ slots[j] # s /\ slots[j] \in Slots
        BY <1>1, <2>2 DEF TypeOK, Unreferenced
    <3>2. count'[slots[j]] = count[slots[j]] /\ lost'[slots[j]] = lost[slots[j]]
        BY <1>1, <3>1 DEF TypeOK
    <3> QED BY <1>2, <3>1, <3>2, SlotsAssumption DEF CountIsUsers, Users
  <2> QED BY <2>1, <2>2
<1>8. HoldersOwn'
    BY <1>1, <1>2 DEF TypeOK, HoldersOwn, Unreferenced, RefersToRegistered
<1>9. UnpoppedIsRegistered'
    BY <1>1, <1>2, SlotsAssumption DEF TypeOK, UnpoppedIsRegistered
<1> QED BY <1>4, <1>5, <1>6, <1>7, <1>8, <1>9

LEMMA EnterSharedIInv ==
    ASSUME IInv, NEW t \in Threads, NEW k \in Keys, Enter(t, k), slots[k] # NoSlot
    PROVE  IInv'
<1> USE DEF IInv
<1> DEFINE s == slots[k]
<1>1. /\ s \in Slots
      /\ pc[t] = "idle" /\ slot[t] = NoSlot
      /\ pc' = [pc EXCEPT ![t] = "acquiring"]
      /\ key' = [key EXCEPT ![t] = k]
      /\ count' = [count EXCEPT ![s] = count[s] + 1]
      /\ slot' = [slot EXCEPT ![t] = s]
      /\ UNCHANGED <<slots, owner, late, lost, unpopped, strays>>
    BY DEF Enter, EnterShared, RefersToRegistered, TypeOK
<1>2. TypeOK'
    BY <1>1 DEF TypeOK
<1>3. RefersToRegistered'
    BY <1>1, SlotsAssumption DEF TypeOK, RefersToRegistered
<1>4. RegisteredIsUsed'
    BY <1>1 DEF TypeOK, RegisteredIsUsed, KeptByAStray
<1>5. CountIsUsers'
  <2> SUFFICES ASSUME NEW j \in Keys, slots'[j] # NoSlot
               PROVE  count'[slots'[j]] =
                        Cardinality({u \in Threads : slot'[u] = slots'[j]}) + lost'[slots'[j]]
    BY DEF CountIsUsers, Users
  <2>1. CASE j = k
    <3>1. {u \in Threads : slot'[u] = s} = Users(s) \union {t} /\ t \notin Users(s)
        BY <1>1, SlotsAssumption DEF TypeOK, Users
    <3>2. Cardinality(Users(s) \union {t}) = Cardinality(Users(s)) + 1
        BY <3>1, UsersFinite, FS_AddElement
    <3>3. /\ count'[s] = count[s] + 1 /\ count[s] = Cardinality(Users(s)) + lost[s]
          /\ lost[s] \in Nat /\ Cardinality(Users(s)) \in Nat
        BY <1>1, UsersFinite DEF TypeOK, CountIsUsers
    <3>4. slots'[j] = s /\ lost'[s] = lost[s]
        BY <1>1, <2>1
    <3>5. Cardinality({u \in Threads : slot'[u] = s}) = Cardinality(Users(s)) + 1
        BY <3>1, <3>2
    <3> QED BY <3>3, <3>4, <3>5
  <2>2. CASE j # k
    <3>1. slots'[j] = slots[j] /\ slots[j] # s /\ slots[j] # NoSlot /\ slots[j] \in Slots
        BY <1>1, <2>2 DEF TypeOK, RegisteredIsUsed
    <3>2. {u \in Threads : slot'[u] = slots[j]} = Users(slots[j])
        BY <1>1, <3>1 DEF TypeOK, Users
    <3> QED BY <1>1, <3>1, <3>2 DEF TypeOK, CountIsUsers, Users
  <2> QED BY <2>1, <2>2
<1>6. HoldersOwn'
    BY <1>1 DEF TypeOK, HoldersOwn
<1>7. UnpoppedIsRegistered'
    BY <1>1 DEF UnpoppedIsRegistered
<1> QED BY <1>2, <1>3, <1>4, <1>5, <1>6, <1>7

LEMMA MutexStepIInv ==
    ASSUME IInv, NEW t \in Threads,
           Acquire(t) \/ Interrupt(t) \/ LateInterrupt(t) \/ Release(t)
    PROVE  IInv'
<1> USE DEF IInv
<1>1. /\ UNCHANGED <<slots, count, key, slot, lost, unpopped, strays>>
      /\ pc[t] \in {"acquiring", "holding"} /\ slot[t] \in Slots
      /\ \E next \in {"holding", "unwinding", "releasing"} : pc' = [pc EXCEPT ![t] = next]
      /\ \E o \in {t, NoThread} : owner' = [owner EXCEPT ![slot[t]] = o] \/ owner' = owner
      /\ late' \in BOOLEAN
    BY DEF Acquire, Interrupt, LateInterrupt, Release, TypeOK, RefersToRegistered
<1>2. TypeOK'
    BY <1>1 DEF TypeOK
<1>3. \A u \in Threads : pc'[u] = "idle" <=> pc[u] = "idle"
    BY <1>1 DEF TypeOK
<1>4. RefersToRegistered' /\ RegisteredIsUsed' /\ CountIsUsers' /\ UnpoppedIsRegistered'
    BY <1>1, <1>3, RegistryUntouched
<1>5. HoldersOwn'
  <2>1. CASE Acquire(t)
    BY <1>1, <2>1, ThreadsAssumption DEF Acquire, LockFree, TypeOK, HoldersOwn, RefersToRegistered
  <2>2. CASE Interrupt(t)
    BY <2>2 DEF Interrupt, TypeOK, HoldersOwn
  <2>3. CASE LateInterrupt(t)
    BY <1>1, <2>3, ThreadsAssumption DEF LateInterrupt, LockFree, TypeOK, HoldersOwn
  <2>4. CASE Release(t)
    BY <1>1, <2>4 DEF Release, TypeOK, HoldersOwn
  <2> QED BY <2>1, <2>2, <2>3, <2>4
<1> QED BY <1>2, <1>4, <1>5

(* A call that ends gives its reference back or loses it for good.  When   *)
(* it was the only user, the slot leaves the registry or stays as one kept *)
(* by an interrupt; otherwise it stays, and keeps its other users.         *)
LEMMA LeavingIInv ==
    ASSUME IInv, TypeOK', NEW t \in Threads, pc[t] # "idle",
           slot' = [slot EXCEPT ![t] = NoSlot],
           pc' = [pc EXCEPT ![t] = "idle"],
           UNCHANGED <<owner, key>>,
           \A r \in Slots \ {slot[t]} : count'[r] = count[r] /\ lost'[r] = lost[r],
           count'[slot[t]] - lost'[slot[t]] = count[slot[t]] - lost[slot[t]] - 1,
           \/ /\ slots' = slots
              /\ unpopped \subseteq unpopped' /\ unpopped' \subseteq unpopped \union {slot[t]}
              /\ Users(slot[t]) = {t} => slot[t] \in unpopped' \/ lost'[slot[t]] > 0
              /\ lost'[slot[t]] >= lost[slot[t]]
           \/ /\ slots' = [slots EXCEPT ![key[t]] = NoSlot]
              /\ unpopped' = unpopped \ {slot[t]}
              /\ Users(slot[t]) = {t}
    PROVE  IInv'
<1> USE DEF IInv
<1> DEFINE s == slot[t]
           k == key[t]
           Kept == slots' = slots
           Popped == /\ slots' = [slots EXCEPT ![k] = NoSlot]
                     /\ unpopped' = unpopped \ {s}
                     /\ Users(s) = {t}
<1>1. s \in Slots /\ k \in Keys /\ slots[k] = s /\ s # NoSlot /\ t \in Users(s)
    BY SlotsAssumption DEF RefersToRegistered, TypeOK, Users
<1>2. Kept \/ Popped
    OBVIOUS
<1>3. ASSUME NEW j \in Keys, slots'[j] # NoSlot
      PROVE  slots'[j] = slots[j] /\ (slots[j] = s => Kept)
    BY <1>1, <1>2, <1>3 DEF TypeOK, RegisteredIsUsed
<1>4. RefersToRegistered'
  <2> SUFFICES ASSUME NEW u \in Threads
               PROVE  /\ slot'[u] = NoSlot <=> pc'[u] = "idle"
                      /\ pc'[u] # "idle" => slots'[key'[u]] = slot'[u]
    BY DEF RefersToRegistered
  <2>1. CASE u = t
    BY <2>1 DEF TypeOK
  <2>2. CASE u # t
    <3>1. slot'[u] = slot[u] /\ pc'[u] = pc[u] /\ key'[u] = key[u]
        BY <2>2 DEF TypeOK
    <3>2. (Popped /\ pc[u] # "idle") => key[u] # k
        BY <1>1, <2>2 DEF RefersToRegistered, Users
    <3> QED BY <1>1, <1>2, <3>1, <3>2 DEF TypeOK, RefersToRegistered
  <2> QED BY <2>1, <2>2
<1>5. RegisteredIsUsed'
  <2>1. ASSUME NEW j \in Keys, slots'[j] # NoSlot
        PROVE  (\E u \in Threads : slot'[u] = slots'[j]) \/ KeptByAStray(slots[j])'
    <3>1. slots'[j] = slots[j] /\ (slots[j] = s => Kept)
        BY <1>3, <2>1
    <3>2. CASE slots[j] = s /\ Users(s) = {t}
        BY <1>1, <3>1, <3>2 DEF KeptByAStray, TypeOK
    <3>3. CASE slots[j] = s /\ Users(s) # {t}
        <4>1. PICK u \in Users(s) : u # t
            BY <1>1, <3>3
        <4> QED BY <1>1, <3>1, <3>3, <4>1 DEF Users, TypeOK
    <3>4. CASE slots[j] # s
        <4>1. CASE \E u \in Threads : slot[u] = slots[j]
            BY <1>1, <3>1, <3>4, <4>1 DEF TypeOK
        <4>2. CASE KeptByAStray(slots[j])
            BY <1>1, <1>2, <3>1, <3>4, <4>2 DEF TypeOK, KeptByAStray
        <4> QED BY <2>1, <3>1, <4>1, <4>2 DEF RegisteredIsUsed
    <3> QED BY <3>2, <3>3, <3>4
  <2>2. ASSUME NEW i \in Keys, NEW j \in Keys, slots'[i] = slots'[j], slots'[i] # NoSlot
        PROVE  i = j
    BY <1>3, <2>2 DEF RegisteredIsUsed
  <2> QED BY <2>1, <2>2 DEF RegisteredIsUsed
<1>6. CountIsUsers'
  <2> SUFFICES ASSUME NEW j \in Keys, slots'[j] # NoSlot
               PROVE  count'[slots'[j]] =
                        Cardinality({u \in Threads : slot'[u] = slots'[j]}) + lost'[slots'[j]]
    BY DEF CountIsUsers, Users
  <2>1. slots'[j] = slots[j] /\ slots[j] \in Slots
    BY <1>3 DEF TypeOK
  <2>2. CASE slots[j] = s
    <3>1. {u \in Threads : slot'[u] = s} = Users(s) \ {t}
        BY <1>1 DEF TypeOK, Users
    <3>2. Cardinality(Users(s) \ {t}) = Cardinality(Users(s)) - 1
        BY <1>1, UsersFinite, FS_RemoveElement
    <3>3. /\ Cardinality(Users(s)) \in Nat /\ count[s] = Cardinality(Users(s)) + lost[s]
          /\ count[s] \in Nat /\ lost[s] \in Nat /\ count'[s] \in Nat /\ lost'[s] \in Nat
        BY <1>1, UsersFinite DEF CountIsUsers, TypeOK
    <3>4. Cardinality({u \in Threads : slot'[u] = s}) = Cardinality(Users(s)) - 1
        BY <3>1, <3>2
    <3>5. count'[s] = Cardinality(Users(s)) - 1 + lost'[s]
        BY <3>3
    <3> QED BY <2>1, <2>2, <3>4, <3>5
  <2>3. CASE slots[j] # s
    <3>1. {u \in Threads : slot'[u] = slots[j]} = Users(slots[j])
        BY <2>1, <2>3, SlotsAssumption DEF TypeOK, Users
    <3>2. count'[slots[j]] = count[slots[j]] /\ lost'[slots[j]] = lost[slots[j]]
        BY <2>1, <2>3
    <3>3. slots[j] # NoSlot
        BY <2>1, SlotsAssumption
    <3>4. count[slots[j]] = Cardinality(Users(slots[j])) + lost[slots[j]]
        BY <3>3 DEF CountIsUsers
    <3> QED BY <2>1, <3>1, <3>2, <3>4
  <2> QED BY <2>2, <2>3
<1>7. HoldersOwn'
    BY DEF TypeOK, HoldersOwn
<1>8. UnpoppedIsRegistered'
    BY <1>1 DEF TypeOK, UnpoppedIsRegistered
<1> QED BY <1>4, <1>5, <1>6, <1>7, <1>8

(* The count of a call's slot covers the call itself.                      *)
LEMMA CountCoversTheCall ==
    ASSUME IInv, NEW t \in Threads, pc[t] # "idle"
    PROVE  /\ slot[t] \in Slots /\ key[t] \in Keys /\ count[slot[t]] - 1 \in Nat
           /\ count[slot[t]] \in Nat /\ lost[slot[t]] \in Nat
           /\ count[slot[t]] = 1 => Users(slot[t]) = {t}
           /\ count[slot[t]] # 1 /\ Users(slot[t]) = {t} => lost[slot[t]] > 0
<1> DEFINE s == slot[t]
<1>1. /\ s \in Slots /\ key[t] \in Keys /\ slots[key[t]] = s /\ s # NoSlot /\ t \in Users(s)
      /\ count[s] = Cardinality(Users(s)) + lost[s] /\ count[s] \in Nat /\ lost[s] \in Nat
    BY SlotsAssumption DEF IInv, RefersToRegistered, CountIsUsers, TypeOK, Users
<1>2. IsFiniteSet(Users(s)) /\ Cardinality(Users(s)) \in Nat
    BY UsersFinite
<1>3. /\ Cardinality(Users(s) \ {t}) = Cardinality(Users(s)) - 1
      /\ IsFiniteSet(Users(s) \ {t}) /\ Cardinality(Users(s) \ {t}) \in Nat
    BY <1>1, <1>2, FS_RemoveElement, FS_CardinalityType
<1>4. Cardinality(Users(s)) = 1 <=> Users(s) \ {t} = {}
    BY <1>2, <1>3, FS_EmptySet
<1> QED BY <1>1, <1>2, <1>3, <1>4

LEMMA ReleaseRefIInv ==
    ASSUME IInv, NEW t \in Threads, ReleaseRef(t) \/ ReleaseUnpopped(t)
    PROVE  IInv'
<1> USE DEF IInv
<1>1. pc[t] # "idle"
    BY DEF ReleaseRef, ReleaseUnpopped
<1>2. /\ slot[t] \in Slots /\ key[t] \in Keys /\ count[slot[t]] - 1 \in Nat
      /\ count[slot[t]] \in Nat /\ lost[slot[t]] \in Nat
      /\ count[slot[t]] = 1 => Users(slot[t]) = {t}
      /\ count[slot[t]] # 1 /\ Users(slot[t]) = {t} => lost[slot[t]] > 0
    BY <1>1, CountCoversTheCall
<1>3. /\ count' = [count EXCEPT ![slot[t]] = count[slot[t]] - 1]
      /\ slot' = [slot EXCEPT ![t] = NoSlot] /\ pc' = [pc EXCEPT ![t] = "idle"]
      /\ UNCHANGED <<owner, key, late, lost>>
    BY DEF ReleaseRef, ReleaseUnpopped
<1>4. \/ /\ slots' = slots
         /\ unpopped \subseteq unpopped' /\ unpopped' \subseteq unpopped \union {slot[t]}
         /\ Users(slot[t]) = {t} => slot[t] \in unpopped' \/ lost'[slot[t]] > 0
         /\ lost'[slot[t]] >= lost[slot[t]]
      \/ /\ slots' = [slots EXCEPT ![key[t]] = NoSlot]
         /\ unpopped' = unpopped \ {slot[t]}
         /\ Users(slot[t]) = {t}
  <2>1. CASE ReleaseRef(t)
    BY <1>2, <1>3, <2>1 DEF ReleaseRef, LastUser
  <2>2. CASE ReleaseUnpopped(t)
    BY <1>2, <1>3, <2>2 DEF ReleaseUnpopped
  <2> QED BY <2>1, <2>2
<1>5. TypeOK'
    BY <1>2, <1>3, StraysAssumption
    DEF TypeOK, ReleaseRef, ReleaseUnpopped, Stray
<1>6. /\ \A r \in Slots \ {slot[t]} : count'[r] = count[r] /\ lost'[r] = lost[r]
      /\ count'[slot[t]] = count[slot[t]] - 1 /\ lost'[slot[t]] = lost[slot[t]]
    BY <1>2, <1>3 DEF TypeOK
<1>7. count'[slot[t]] - lost'[slot[t]] = count[slot[t]] - lost[slot[t]] - 1
    BY <1>2, <1>6
<1> QED BY <1>1, <1>3, <1>4, <1>5, <1>6, <1>7, LeavingIInv

LEMMA AbandonIInv ==
    ASSUME IInv, NEW t \in Threads, Abandon(t) \/ AbandonLocked(t)
    PROVE  IInv'
<1> USE DEF IInv
<1>1. /\ pc[t] # "idle"
      /\ slot' = [slot EXCEPT ![t] = NoSlot] /\ pc' = [pc EXCEPT ![t] = "idle"]
      /\ lost' = [lost EXCEPT ![slot[t]] = lost[slot[t]] + 1]
      /\ UNCHANGED <<slots, count, owner, key, unpopped>>
      /\ late' \in BOOLEAN /\ strays < MaxStrays /\ strays' = strays + 1
    BY DEF Abandon, AbandonLocked, LoseReference, Stray, TypeOK
<1>2. slot[t] \in Slots /\ count[slot[t]] \in Nat /\ lost[slot[t]] \in Nat
    BY <1>1, CountCoversTheCall
<1>3. TypeOK'
    BY <1>1, <1>2, StraysAssumption DEF TypeOK
<1>4. /\ \A r \in Slots \ {slot[t]} : count'[r] = count[r] /\ lost'[r] = lost[r]
      /\ count'[slot[t]] = count[slot[t]] /\ lost'[slot[t]] = lost[slot[t]] + 1
    BY <1>1, <1>2 DEF TypeOK
<1>5. count'[slot[t]] - lost'[slot[t]] = count[slot[t]] - lost[slot[t]] - 1
    BY <1>2, <1>4
<1>6. lost'[slot[t]] > 0 /\ lost'[slot[t]] >= lost[slot[t]]
    BY <1>2, <1>4
<1> QED BY <1>1, <1>3, <1>4, <1>5, <1>6, LeavingIInv

LEMMA NextIInv == IInv /\ [Next]_vars => IInv'
<1> SUFFICES ASSUME IInv, [Next]_vars PROVE IInv'
    OBVIOUS
<1>1. ASSUME NEW t \in Threads, Step(t) PROVE IInv'
  <2>1. ASSUME NEW k \in Keys, Enter(t, k) PROVE IInv'
    BY <2>1, EnterFreshIInv, EnterSharedIInv
  <2>2. CASE Acquire(t) \/ Interrupt(t) \/ LateInterrupt(t) \/ Release(t)
    BY <2>2, MutexStepIInv
  <2>3. CASE ReleaseRef(t) \/ ReleaseUnpopped(t)
    BY <2>3, ReleaseRefIInv
  <2>4. CASE Abandon(t) \/ AbandonLocked(t)
    BY <2>4, AbandonIInv
  <2>5. ASSUME NEW k \in Keys, EnterUncounted(t, k) PROVE IInv'
    BY <2>5, EnterUncountedIInv
  <2> QED BY <1>1, <2>1, <2>2, <2>3, <2>4, <2>5 DEF Step
<1>2. CASE UNCHANGED vars
    BY <1>2 DEF vars, IInv, TypeOK, RefersToRegistered, RegisteredIsUsed, CountIsUsers,
                UnpoppedIsRegistered, HoldersOwn, KeptByAStray, Users
<1> QED BY <1>1, <1>2 DEF Next

(* The registry's invariant holds in every state.                          *)
THEOREM Invariance == Spec => []IInv
BY InitIInv, NextIInv, PTL DEF Spec

(* Every variable has its type, for any set of threads and keys.           *)
THEOREM TypeOKHolds == Spec => []TypeOK
<1>1. IInv => TypeOK
    BY DEF IInv
<1> QED BY <1>1, Invariance, PTL

-----------------------------------------------------------------------------
(* flight.py: same-key callers never compute at once, whatever the number  *)
(* of threads and however interrupts fall.                                 *)
THEOREM MutualExclusionHolds == Spec => []MutualExclusion
<1>1. IInv => MutualExclusion
    BY DEF IInv, RefersToRegistered, HoldersOwn, MutualExclusion
<1> QED BY <1>1, Invariance, PTL

(* flight.py: a key stays registered while a call of it is in flight, and  *)
(* afterwards only if an interrupt outside every `try` kept it; the count  *)
(* is the calls in flight and the references lost to such interrupts.      *)
THEOREM RegistryIsExactHolds == Spec => []RegistryIsExact
<1>1. IInv => RegistryIsExact
  <2> SUFFICES ASSUME IInv PROVE RegistryIsExact
    OBVIOUS
  <2>1. ASSUME NEW k \in Keys, slots[k] # NoSlot
        PROVE  (\E t \in Threads : pc[t] # "idle" /\ key[t] = k) \/ KeptByAStray(slots[k])
    BY <2>1 DEF IInv, TypeOK, RefersToRegistered, RegisteredIsUsed
  <2>2. ASSUME NEW k \in Keys, NEW t \in Threads, pc[t] # "idle", key[t] = k
        PROVE  slots[k] # NoSlot
    BY <2>2 DEF IInv, RefersToRegistered
  <2>3. ASSUME NEW k \in Keys, KeptByAStray(slots[k]) PROVE slots[k] # NoSlot
    BY <2>3, SlotsAssumption DEF IInv, TypeOK, KeptByAStray
  <2> QED BY <2>1, <2>2, <2>3 DEF IInv, RegistryIsExact, ActiveKeys, CountIsUsers
<1> QED BY <1>1, Invariance, PTL

(* flight.py: calls contend for one mutex exactly when their keys agree.   *)
THEOREM OneMutexPerKeyHolds == Spec => []OneMutexPerKey
<1>1. IInv => OneMutexPerKey
    BY DEF IInv, TypeOK, RefersToRegistered, RegisteredIsUsed, OneMutexPerKey
<1> QED BY <1>1, Invariance, PTL

-----------------------------------------------------------------------------
(* The refinement mapping reads the holder off the program counters.       *)
HolderMapping ==
    \A k \in Keys :
        /\ \A t \in Threads : (pc[t] = "holding" /\ key[t] = k) => HolderOf(k) = t
        /\ (\A t \in Threads : ~ (pc[t] = "holding" /\ key[t] = k)) => HolderOf(k) = NoThread

LEMMA HolderMappingHolds == IInv => HolderMapping
<1> SUFFICES ASSUME IInv, NEW k \in Keys
             PROVE  /\ \A t \in Threads : (pc[t] = "holding" /\ key[t] = k) => HolderOf(k) = t
                    /\ (\A t \in Threads : ~ (pc[t] = "holding" /\ key[t] = k))
                            => HolderOf(k) = NoThread
    BY DEF HolderMapping
<1>1. ASSUME NEW t \in Threads, pc[t] = "holding", key[t] = k
      PROVE  HolderOf(k) = t
  <2>1. HolderOf(k) = CHOOSE u \in Threads : pc[u] = "holding" /\ key[u] = k
    BY <1>1 DEF HolderOf
  <2>2. \A u \in Threads : (pc[u] = "holding" /\ key[u] = k) => u = t
    BY <1>1 DEF IInv, RefersToRegistered, HoldersOwn
  <2> QED BY <1>1, <2>1, <2>2
<1> QED BY <1>1 DEF HolderOf

(* A step that leaves everybody's holding as it was maps to a stutter.     *)
LEMMA SameHolders ==
    ASSUME HolderMapping, HolderMapping',
           \A u \in Threads : (pc[u] = "holding" \/ pc'[u] = "holding")
                                => (pc'[u] = pc[u] /\ key'[u] = key[u])
    PROVE  UNCHANGED [k \in Keys |-> HolderOf(k)]
<1> SUFFICES ASSUME NEW k \in Keys PROVE HolderOf(k)' = HolderOf(k)
    OBVIOUS
<1>1. CASE \E u \in Threads : pc[u] = "holding" /\ key[u] = k
    BY <1>1 DEF HolderMapping
<1>2. CASE \A u \in Threads : ~ (pc[u] = "holding" /\ key[u] = k)
    BY <1>2 DEF HolderMapping
<1> QED BY <1>1, <1>2

LEMMA AcquireImplements ==
    ASSUME IInv, HolderMapping, HolderMapping', NEW t \in Threads, Acquire(t)
    PROVE  Mutex!Acquire(t, key[t])
<1> DEFINE k == key[t]
<1>1. /\ k \in Keys /\ pc[t] = "acquiring" /\ owner[slot[t]] = NoThread
      /\ pc' = [pc EXCEPT ![t] = "holding"] /\ key' = key
    BY DEF IInv, TypeOK, Acquire, LockFree
<1>2. \A u \in Threads : pc[u] = "holding" => key[u] # k
    BY <1>1, ThreadsAssumption DEF IInv, RefersToRegistered, HoldersOwn
<1>3. HolderOf(k) = NoThread
    BY <1>1, <1>2 DEF HolderMapping
<1>4. HolderOf(k)' = t
    BY <1>1 DEF HolderMapping, IInv, TypeOK
<1>5. ASSUME NEW j \in Keys, j # k PROVE HolderOf(j)' = HolderOf(j)
  <2>1. \A u \in Threads : (pc'[u] = "holding" /\ key'[u] = j)
                              <=> (pc[u] = "holding" /\ key[u] = j)
    BY <1>1, <1>5 DEF IInv, TypeOK
  <2> QED BY <2>1 DEF HolderMapping
<1> QED BY <1>1, <1>3, <1>4, <1>5 DEF Mutex!Acquire

LEMMA ReleaseImplements ==
    ASSUME IInv, HolderMapping, HolderMapping', NEW t \in Threads,
           Release(t) \/ AbandonLocked(t)
    PROVE  Mutex!Release(t, key[t])
<1> DEFINE k == key[t]
<1>1. /\ k \in Keys /\ pc[t] = "holding" /\ key' = key
      /\ \E next \in {"releasing", "idle"} : pc' = [pc EXCEPT ![t] = next]
    BY DEF IInv, TypeOK, Release, AbandonLocked, LoseReference
<1>2. HolderOf(k) = t
    BY <1>1 DEF HolderMapping
<1>3. HolderOf(k)' = NoThread
  <2>1. \A u \in Threads : ~ (pc'[u] = "holding" /\ key'[u] = k)
    BY <1>1 DEF IInv, TypeOK, RefersToRegistered, HoldersOwn
  <2> QED BY <2>1, <1>1 DEF HolderMapping
<1>4. ASSUME NEW j \in Keys, j # k PROVE HolderOf(j)' = HolderOf(j)
  <2>1. \A u \in Threads : (pc'[u] = "holding" /\ key'[u] = j)
                              <=> (pc[u] = "holding" /\ key[u] = j)
    BY <1>1, <1>4 DEF IInv, TypeOK
  <2> QED BY <2>1 DEF HolderMapping
<1> QED BY <1>1, <1>2, <1>3, <1>4 DEF Mutex!Release

(* flight.py: the refcounted registry implements one mutex per key.        *)
THEOREM KeyedLocksImplementKeyedMutex == Spec => ImplementsKeyedMutex
<1>1. Init => Mutex!Init
    BY DEF Init, Mutex!Init, HolderOf
<1>2. IInv /\ HolderMapping /\ HolderMapping' /\ [Next]_vars
        => [Mutex!Next]_([k \in Keys |-> HolderOf(k)])
  <2> SUFFICES ASSUME IInv, HolderMapping, HolderMapping', [Next]_vars
               PROVE  Mutex!Next \/ UNCHANGED [k \in Keys |-> HolderOf(k)]
    OBVIOUS
  <2>1. ASSUME NEW t \in Threads, Acquire(t) PROVE Mutex!Next
    BY <2>1, AcquireImplements DEF Mutex!Next, IInv, TypeOK
  <2>2. ASSUME NEW t \in Threads, Release(t) \/ AbandonLocked(t) PROVE Mutex!Next
    BY <2>2, ReleaseImplements DEF Mutex!Next, IInv, TypeOK
  <2>3. ASSUME NEW t \in Threads, NEW k \in Keys, Enter(t, k)
        PROVE  UNCHANGED [j \in Keys |-> HolderOf(j)]
    BY <2>3, SameHolders DEF Enter, IInv, TypeOK
  <2>4. ASSUME NEW t \in Threads, Interrupt(t) \/ LateInterrupt(t)
        PROVE  UNCHANGED [j \in Keys |-> HolderOf(j)]
    BY <2>4, SameHolders DEF Interrupt, LateInterrupt, IInv, TypeOK
  <2>5. ASSUME NEW t \in Threads, ReleaseRef(t) \/ ReleaseUnpopped(t) \/ Abandon(t)
        PROVE  UNCHANGED [j \in Keys |-> HolderOf(j)]
    BY <2>5, SameHolders
    DEF ReleaseRef, ReleaseUnpopped, Abandon, LoseReference, IInv, TypeOK
  <2>6. CASE UNCHANGED vars
    BY <2>6, SameHolders DEF vars
  <2>7. ASSUME NEW t \in Threads, NEW k \in Keys, EnterUncounted(t, k)
        PROVE  UNCHANGED [j \in Keys |-> HolderOf(j)]
    BY <2>7, SameHolders DEF EnterUncounted
  <2> QED BY <2>1, <2>2, <2>3, <2>4, <2>5, <2>6, <2>7 DEF Next, Step
<1> QED BY <1>1, <1>2, Invariance, HolderMappingHolds, PTL
        DEF Spec, ImplementsKeyedMutex, Mutex!Spec
=============================================================================
