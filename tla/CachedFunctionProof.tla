------------------------ MODULE CachedFunctionProof -------------------------
(***************************************************************************)
(* Proofs about CachedFunction, for any threads, keys, sizes and bounds,   *)
(* that need neither the contents of the store nor those of the budget.    *)
(*                                                                         *)
(* Part 1: single flight.  Every step of the engine is, as far as the lock *)
(* is concerned, one of four moves of one thread; each move keeps the lock *)
(* and the program counters in agreement.                                  *)
(*                                                                         *)
(* Part 2: every variable that holds data is typed.                        *)
(*                                                                         *)
(* Part 3: an entry was computed from the dependencies it is stored under, *)
(* and a hit returns a value computed from the dependencies its caller     *)
(* saw.  Assumed: profile() is not used.  It fingerprints the dependencies *)
(* after the run it measures and its entry may survive a failed delete, so *)
(* with it neither statement holds: profile() may stamp an old value.      *)
(*                                                                         *)
(* Part 4: what stats() counts.  Every step of the engine is, as far as    *)
(* the tallies of its caller go, one of six moves, and each keeps what is  *)
(* booked in agreement with where the caller is.                           *)
(***************************************************************************)
EXTENDS CachedFunction, SequenceTheorems, TLAPS

Control == <<pc, key, holder>>

FlightTypes ==
    /\ pc \in [Threads -> Labels]
    /\ key \in [Threads -> Keys]
    /\ holder \in [Keys -> Threads \union {NoThread}]

(* The holder of a key is the thread inside the flight of that key.        *)
HolderIsInFlight ==
    \A t \in Threads, k \in Keys : holder[k] = t <=> (pc[t] \in InFlight /\ key[t] = k)

FlightInv == FlightTypes /\ HolderIsInFlight

(* The four moves: to start an operation, to take the lock, to leave it,   *)
(* and to go on on the same side of it.                                    *)
Begins(t) ==
    \E k \in Keys, label \in Labels \ InFlight :
        /\ pc[t] = "idle" /\ Goto(t, label)
        /\ key' = [key EXCEPT ![t] = k]
        /\ UNCHANGED holder

Takes(t) ==
    \E label \in InFlight :
        /\ pc[t] \notin InFlight /\ Goto(t, label)
        /\ Flights!Acquire(t, key[t])
        /\ UNCHANGED key

Leaves(t) ==
    \E label \in Labels \ InFlight :
        /\ pc[t] \in InFlight /\ Goto(t, label)
        /\ Flights!Release(t, key[t])
        /\ UNCHANGED key

GoesOn(t) ==
    \E label \in Labels :
        /\ label \in InFlight <=> pc[t] \in InFlight
        /\ Goto(t, label)
        /\ UNCHANGED <<key, holder>>

FlightMove(t) == Begins(t) \/ Takes(t) \/ Leaves(t) \/ GoesOn(t)

-----------------------------------------------------------------------------
LEMMA StartMoves ==
    ASSUME NEW t \in Threads, Start(t), FlightTypes
    PROVE  FlightMove(t)
<1> USE DEF FlightMove, Goto, Labels, InFlight, FlightTypes
<1>1. ASSUME NEW k \in Keys, StartCall(t, k) PROVE Begins(t)
    BY <1>1 DEF StartCall, Begins
<1>2. ASSUME NEW k \in Keys, StartInvalidate(t, k) PROVE Begins(t)
    BY <1>2 DEF StartInvalidate, Begins
<1>3. ASSUME NEW k \in Keys, StartProfile(t, k) PROVE Begins(t)
    BY <1>3 DEF StartProfile, Begins
<1>4. CASE StartClear(t)
    BY <1>4 DEF StartClear, GoesOn, locals
<1> QED BY <1>1, <1>2, <1>3, <1>4 DEF Start

LEMMA CallMoves ==
    ASSUME NEW t \in Threads, CallStep(t), FlightTypes
    PROVE  FlightMove(t)
<1> USE DEF FlightMove, GoesOn, Goto, Labels, InFlight, FlightTypes
<1>1. CASE EnterFlight(t)
    BY <1>1 DEF EnterFlight, AfterLock, Takes, locals
<1>2. CASE Lookup(t)
    BY <1>2 DEF Lookup, AfterLookup
<1>3. CASE JudgeFast(t)
    BY <1>3 DEF JudgeFast, locals
<1>4. CASE JudgeLocked(t)
    BY <1>4 DEF JudgeLocked, Leaves, locals
<1>5. CASE ClassifyPending(t)
    BY <1>5 DEF ClassifyPending, locals
<1>6. CASE ClassifyStale(t)
    BY <1>6 DEF ClassifyStale
<1>7. CASE ClassifyAbsent(t)
    BY <1>7 DEF ClassifyAbsent, locals
<1>8. CASE RetryDelete(t)
    BY <1>8 DEF RetryDelete, locals
<1>9. CASE MissInvalidated(t)
    BY <1>9 DEF MissInvalidated, locals
<1>10. CASE DeleteStale(t)
    BY <1>10 DEF DeleteStale, locals
<1>11. CASE LabelStale(t)
    BY <1>11 DEF LabelStale, locals
<1>12. CASE RunReturns(t)
    BY <1>12 DEF RunReturns
<1>13. CASE RunRaises(t)
    BY <1>13 DEF RunRaises, Leaves, locals
<1>14. CASE Return(t)
    BY <1>14 DEF Return
<1> QED BY <1>1, <1>2, <1>3, <1>4, <1>5, <1>6, <1>7, <1>8, <1>9, <1>10, <1>11, <1>12,
           <1>13, <1>14 DEF CallStep

LEMMA CommitMoves ==
    ASSUME NEW t \in Threads, CommitStep(t), FlightTypes
    PROVE  FlightMove(t)
<1> USE DEF FlightMove, GoesOn, Goto, Labels, InFlight, FlightTypes
<1>1. CASE RecheckDeps(t)
    BY <1>1 DEF RecheckDeps, Conclude, Leaves, locals
<1>2. CASE SkipUnsized(t)
    BY <1>2 DEF SkipUnsized, Conclude, Leaves, locals
<1>3. CASE Write(t)
    BY <1>3 DEF Write
<1>4. CASE WriteFails(t)
    BY <1>4 DEF WriteFails, Conclude, Leaves, locals
<1>5. CASE AdmitEntry(t)
    BY <1>5 DEF AdmitEntry
<1>6. CASE EvictDelete(t)
    BY <1>6 DEF EvictDelete, locals
<1>7. CASE RememberEviction(t)
    BY <1>7 DEF RememberEviction, locals
<1>8. CASE NoteEviction(t)
    BY <1>8 DEF NoteEviction
<1>9. CASE Settle(t)
    BY <1>9 DEF Settle
<1>10. CASE DrainDelete(t)
  <2>1. CASE Goto(t, "drained")
    BY <1>10, <2>1 DEF DrainDelete
  <2>2. CASE UNCHANGED pc
    <3>1. pc' = [pc EXCEPT ![t] = "drain"]
        BY <1>10, <2>2 DEF DrainDelete
    <3> QED BY <1>10, <3>1 DEF DrainDelete
  <2> QED BY <1>10, <2>1, <2>2 DEF DrainDelete
<1>11. CASE DrainForget(t)
    BY <1>11 DEF DrainForget
<1>12. CASE FinishCommit(t)
    BY <1>12 DEF FinishCommit, Conclude, Leaves, locals
<1> QED BY <1>1, <1>2, <1>3, <1>4, <1>5, <1>6, <1>7, <1>8, <1>9, <1>10, <1>11, <1>12
        DEF CommitStep

LEMMA VerifyMoves ==
    ASSUME NEW t \in Threads, VerifyStep(t), FlightTypes
    PROVE  FlightMove(t)
<1> USE DEF FlightMove, GoesOn, Goto, Labels, InFlight, FlightTypes
<1>1. CASE JudgeVerify(t)
    BY <1>1 DEF JudgeVerify, locals
<1>2. CASE VerifyConfirms(t)
    BY <1>2 DEF VerifyConfirms, Leaves, locals
<1>3. CASE VerifyRefutes(t)
    BY <1>3 DEF VerifyRefutes
<1>4. CASE DeleteRefuted(t)
    BY <1>4 DEF DeleteRefuted, locals
<1>5. CASE ForgetRefuted(t)
    BY <1>5 DEF ForgetRefuted, locals
<1>6. CASE WarningRaises(t)
    BY <1>6 DEF WarningRaises, Leaves, locals
<1> QED BY <1>1, <1>2, <1>3, <1>4, <1>5, <1>6 DEF VerifyStep

LEMMA ControlMoves ==
    ASSUME NEW t \in Threads, ControlStep(t), FlightTypes
    PROVE  FlightMove(t)
<1> USE DEF FlightMove, GoesOn, Goto, Labels, InFlight, FlightTypes
<1>1. CASE InvalidateDelete(t)
    BY <1>1 DEF InvalidateDelete, locals
<1>2. CASE InvalidateMark(t)
    BY <1>2 DEF InvalidateMark, locals
<1>3. CASE InvalidateQuarantine(t)
    BY <1>3 DEF InvalidateQuarantine, locals
<1>4. CASE InvalidateReturns(t)
    BY <1>4 DEF InvalidateReturns, Leaves, locals
<1>5. CASE ClearStore(t)
    BY <1>5 DEF ClearStore, locals
<1>6. CASE ClearRaises(t)
    BY <1>6 DEF ClearRaises, locals
<1>7. CASE ClearBudget(t)
    BY <1>7 DEF ClearBudget, locals
<1>8. CASE ClearMarks(t)
    BY <1>8 DEF ClearMarks, locals
<1>9. CASE ProfileLookup(t)
    BY <1>9 DEF ProfileLookup, ProfileEnds
<1>10. CASE ProfileWrite(t)
    BY <1>10 DEF ProfileWrite, locals
<1>11. CASE ProfileWriteFails(t)
    BY <1>11 DEF ProfileWriteFails, ProfileEnds
<1>12. CASE ProfileDelete(t)
    BY <1>12 DEF ProfileDelete, ProfileEnds
<1>13. CASE ClearEntry(t)
  <2>1. pc' = [pc EXCEPT ![t] = "clear_store"] /\ UNCHANGED <<key, holder>>
    BY <1>13 DEF ClearEntry
  <2> QED BY <1>13, <2>1 DEF ClearEntry
<1> QED BY <1>1, <1>2, <1>3, <1>4, <1>5, <1>6, <1>7, <1>8, <1>9, <1>10, <1>11, <1>12, <1>13
        DEF ControlStep

LEMMA EveryStepIsAFlightMove ==
    ASSUME FlightTypes, [Next]_vars
    PROVE  UNCHANGED Control \/ \E t \in Threads : FlightMove(t)
<1>1. ASSUME NEW t \in Threads, Start(t) \/ Step(t) PROVE FlightMove(t)
    BY <1>1, StartMoves, CallMoves, CommitMoves, VerifyMoves, ControlMoves DEF Step
<1>2. CASE World
    BY <1>2 DEF World, cacheVars, locals, Control
<1>3. CASE UNCHANGED vars
    BY <1>3 DEF vars, locals, Control
<1> QED BY <1>1, <1>2, <1>3 DEF Next

(* A move keeps the lock and the program counters in agreement.            *)
LEMMA MoveKeepsFlightInv ==
    ASSUME FlightInv, NEW t \in Threads, FlightMove(t)
    PROVE  FlightInv'
<1> USE DEF FlightInv, Goto
<1>0. NoThread \notin Threads /\ "idle" \notin InFlight
    BY NoThreadAssumption DEF InFlight
<1>1. FlightTypes'
  <2>1. CASE Begins(t)
    BY <2>1 DEF FlightTypes, Begins
  <2>2. CASE Takes(t)
    <3>1. PICK label \in InFlight : Goto(t, label)
        BY <2>2 DEF Takes
    <3>2. label \in Labels
        BY DEF Labels
    <3> QED BY <2>2, <3>1, <3>2 DEF FlightTypes, Takes, Flights!Acquire
  <2>3. CASE Leaves(t)
    BY <2>3 DEF FlightTypes, Leaves, Flights!Release
  <2>4. CASE GoesOn(t)
    BY <2>4 DEF FlightTypes, GoesOn
  <2> QED BY <2>1, <2>2, <2>3, <2>4 DEF FlightMove
<1> SUFFICES ASSUME NEW u \in Threads, NEW k \in Keys
             PROVE  holder'[k] = u <=> (pc'[u] \in InFlight /\ key'[u] = k)
    BY <1>1 DEF HolderIsInFlight
<1>2. CASE Begins(t)
    BY <1>0, <1>2 DEF Begins, FlightTypes, HolderIsInFlight
<1>3. CASE Takes(t)
    BY <1>0, <1>3 DEF Takes, FlightTypes, HolderIsInFlight, Flights!Acquire
<1>4. CASE Leaves(t)
    BY <1>0, <1>4 DEF Leaves, FlightTypes, HolderIsInFlight, Flights!Release
<1>5. CASE GoesOn(t)
    BY <1>5 DEF GoesOn, FlightTypes, HolderIsInFlight
<1> QED BY <1>2, <1>3, <1>4, <1>5 DEF FlightMove

(* The lock and the program counters agree in every reachable state.       *)
THEOREM FlightInvariance == Spec => []FlightInv
<1>1. Init => FlightInv
    BY NoThreadAssumption
    DEF Init, FlightInv, FlightTypes, HolderIsInFlight, Labels, InFlight, Flights!Init
<1>2. FlightInv /\ [Next]_vars => FlightInv'
  <2> SUFFICES ASSUME FlightInv, [Next]_vars PROVE FlightInv'
    OBVIOUS
  <2>1. CASE UNCHANGED Control
    BY <2>1 DEF Control, FlightInv, FlightTypes, HolderIsInFlight
  <2>2. ASSUME NEW t \in Threads, FlightMove(t) PROVE FlightInv'
    BY <2>2, MoveKeepsFlightInv
  <2> QED BY <2>1, <2>2, EveryStepIsAFlightMove DEF FlightInv
<1> QED BY <1>1, <1>2, PTL DEF Spec

(* Two threads are never inside the flight of one key: no key is computed  *)
(* twice at once, and no invalidate() meets a commit of its key.           *)
THEOREM SingleFlightHolds == Spec => []SingleFlight
<1>1. FlightInv => SingleFlight
    BY DEF FlightInv, FlightTypes, HolderIsInFlight, SingleFlight
<1> QED BY <1>1, FlightInvariance, PTL

-----------------------------------------------------------------------------
(* Part 2.                                                                 *)
DataTypes ==
    /\ store \in [Keys -> Entries \union {NoEntry}]
    /\ got \in [Threads -> Entries \union {NoEntry}]
    /\ val \in [Threads -> Values]
    /\ bytes \in [Threads -> Int]
    /\ sweep \in [Threads -> SUBSET Keys]
    /\ snap \in [Threads -> Nat]
    /\ dep \in Nat /\ hidden \in Nat /\ clock \in Nat /\ observed \in Nat
    /\ ops \in Nat /\ clockBack \in Nat /\ deleteFaults \in Nat /\ writeFaults \in Nat
    /\ gen \in [Keys -> Nat] /\ condemned \in [Keys -> Nat]
    /\ floor \in [Threads -> Nat] /\ cut \in [Threads -> [Keys -> Nat]]

(* Where an entry that was read is used, one was read.                     *)
Held == {"delete_stale", "label_stale", "verify_run", "served"}
HoldsEntry == \A t \in Threads : pc[t] \in Held => got[t] # NoEntry

TypeInv == DataTypes /\ HoldsEntry

(* What a write stores is an entry, whatever the size estimate answered.   *)
LEMMA EntryIsTyped ==
    ASSUME NEW k \in Keys, NEW value \in Values, NEW deps \in Nat, NEW now \in Nat,
           NEW n \in Int, gen[k] \in Nat
    PROVE  EntryOf(k, value, deps, now, n) \in Entries /\ gen[k] + 1 \in Nat
<1>1. TTL \in Nat
    BY NumbersAssumption
<1>2. now + TTL \in Nat /\ gen[k] + 1 \in Nat /\ 0 \in Nat
    BY <1>1
<1>3. /\ (IF HasDeps THEN deps ELSE 0) \in Nat
      /\ (IF HasTTL THEN now + TTL ELSE 0) \in Nat
    BY <1>2, ZenonT(60)
<1> QED BY <1>2, <1>3 DEF EntryOf, Entries

LEMMA SizesAreInts == Storable \subseteq Int /\ Sizes \subseteq Int
<1>1. Sizes \subseteq Int /\ NoSize \in Int
    BY NumbersAssumption DEF NoSize
<1> QED BY <1>1, ZenonT(60) DEF Storable

(* A write of one entry keeps the store and the numbering typed.           *)
LEMMA PutIsTyped ==
    ASSUME DataTypes, NEW k \in Keys, NEW value \in Values, NEW deps \in Nat, NEW n \in Int,
           StorePut(k, EntryOf(k, value, deps, Now(clock), n))
    PROVE  /\ store' \in [Keys -> Entries \union {NoEntry}]
           /\ gen' \in [Keys -> Nat]
           /\ Now(clock) \in Nat
<1>1. Now(clock) \in Nat /\ gen[k] \in Nat
    BY DEF DataTypes, Now, Later
<1>2. EntryOf(k, value, deps, Now(clock), n) \in Entries /\ gen[k] + 1 \in Nat
    BY <1>1, EntryIsTyped
<1>3. /\ store' = [store EXCEPT ![k] = EntryOf(k, value, deps, Now(clock), n)]
      /\ gen' = [gen EXCEPT ![k] = gen[k] + 1]
    BY DEF StorePut
<1> HIDE DEF Now
<1> QED BY <1>1, <1>2, <1>3 DEF DataTypes

(* A delete, whether it fails or not, keeps the store typed.               *)
LEMMA DeleteIsTyped ==
    ASSUME DataTypes, NEW k, DeleteTried(k)
    PROVE  store' \in [Keys -> Entries \union {NoEntry}] /\ deleteFaults' \in Nat
<1>1. CASE Deleted(k)
    BY <1>1 DEF DataTypes, Deleted
<1>2. CASE DeleteRaises(k)
    BY <1>2 DEF DataTypes, DeleteRaises
<1> QED BY <1>1, <1>2 DEF DeleteTried

LEMMA NoValueIsTyped == NoValue \in Values
BY DEF NoValue, Values

LEMMA StartTypes ==
    ASSUME NEW t \in Threads, Start(t), FlightTypes, TypeInv
    PROVE  TypeInv'
<1> USE DEF FlightTypes, TypeInv, DataTypes, HoldsEntry, Held, Goto
<1>1. ASSUME NEW k \in Keys, StartCall(t, k) PROVE TypeInv'
    BY <1>1 DEF StartCall, world, faults
<1>2. ASSUME NEW k \in Keys, StartInvalidate(t, k) PROVE TypeInv'
    BY <1>2 DEF StartInvalidate, past, history, world, faults
<1>3. ASSUME NEW k \in Keys, StartProfile(t, k) PROVE TypeInv'
    BY <1>3 DEF StartProfile, Values, past, history, world, faults
<1>4. CASE StartClear(t)
    BY <1>4 DEF StartClear, Present, world, faults
<1> QED BY <1>1, <1>2, <1>3, <1>4 DEF Start

LEMMA CallTypes ==
    ASSUME NEW t \in Threads, CallStep(t), FlightTypes, TypeInv
    PROVE  TypeInv'
<1> USE DEF FlightTypes, TypeInv, DataTypes, HoldsEntry, Held, Goto
<1>1. CASE EnterFlight(t)
    BY <1>1 DEF EnterFlight, AfterLock, locals, frame, world, faults, past, history
<1>2. CASE Lookup(t)
    BY <1>2 DEF Lookup, AfterLookup, frame, world, faults, past, history
<1>3. CASE JudgeFast(t)
    BY <1>3 DEF JudgeFast, Dated, Now, Later, Fresh, Serves, Book, locals, frame, world,
        faults, history
<1>4. CASE JudgeLocked(t)
    BY <1>4 DEF JudgeLocked, Dated, Now, Later, Fresh, Serves, Book, locals, frame, world,
        faults, history
<1>5. CASE ClassifyPending(t)
    BY <1>5 DEF ClassifyPending, locals, frame, world, faults, past, history
<1>6. CASE ClassifyStale(t)
    BY <1>6 DEF ClassifyStale, frame, world, faults, past, history
<1>7. CASE ClassifyAbsent(t)
    BY <1>7 DEF ClassifyAbsent, locals, frame, world, faults, history
<1>8. CASE RetryDelete(t)
  <2>1. UNCHANGED <<observed, sweep, bytes, snap, got, val, gen, floor, condemned, cut, dep, hidden,
                    clock, clockBack, ops, writeFaults>>
    BY <1>8 DEF RetryDelete, locals, world, past, history
  <2>2. DeleteTried(key[t])
    BY <1>8 DEF RetryDelete, DeleteTried
  <2>3. HoldsEntry'
    BY <1>8, <2>1 DEF RetryDelete
  <2> QED BY <2>1, <2>2, <2>3, DeleteIsTyped
<1>9. CASE MissInvalidated(t)
    BY <1>9 DEF MissInvalidated, locals, frame, world, faults, history
<1>10. CASE DeleteStale(t)
  <2>1. UNCHANGED <<observed, sweep, bytes, snap, got, val, gen, floor, condemned, cut, dep, hidden,
                    clock, clockBack, ops, writeFaults>>
    BY <1>10 DEF DeleteStale, locals, world, past, history
  <2>2. DeleteTried(key[t])
    BY <1>10 DEF DeleteStale
  <2>3. HoldsEntry'
    BY <1>10, <2>1 DEF DeleteStale
  <2> QED BY <2>1, <2>2, <2>3, DeleteIsTyped
<1>11. CASE LabelStale(t)
  <2>1. UNCHANGED <<store, bytes, sweep, snap, got, val, gen, floor, cut, dep, hidden, clock, clockBack,
                    ops, deleteFaults, writeFaults>>
    BY <1>11 DEF LabelStale, locals, frame, world, faults
  <2>2. observed' \in Nat
    BY <1>11 DEF LabelStale, Now, Later
  <2>3. HoldsEntry'
    BY <1>11, <2>1 DEF LabelStale
  <2>4. condemned' \in [Keys -> Nat]
    <3>1. got[t] \in Entries /\ got[t].gen \in Nat
        BY <1>11 DEF LabelStale, Entries
    <3> QED BY <1>11, <3>1 DEF LabelStale, Condemn, Later
  <2> QED BY <2>1, <2>2, <2>3, <2>4
<1>12. CASE RunReturns(t)
    BY <1>12 DEF RunReturns, Values, frame, world, faults, past, history
<1>13. CASE RunRaises(t)
    BY <1>13 DEF RunRaises, locals, frame, world, faults, past, history
<1>14. CASE Return(t)
    BY <1>14 DEF Return, Values, NoValue, Condemn, Later, frame, world, faults
<1> QED BY <1>1, <1>2, <1>3, <1>4, <1>5, <1>6, <1>7, <1>8, <1>9, <1>10, <1>11, <1>12, <1>13,
        <1>14
        DEF CallStep

LEMMA CommitTypes ==
    ASSUME NEW t \in Threads, CommitStep(t), FlightTypes, TypeInv
    PROVE  TypeInv'
<1> USE DEF FlightTypes, TypeInv, DataTypes, HoldsEntry, Held, Goto
<1>1. CASE RecheckDeps(t)
    BY <1>1 DEF RecheckDeps, Conclude, locals, frame, world, faults, history
<1>2. CASE SkipUnsized(t)
    BY <1>2 DEF SkipUnsized, Conclude, Now, Later, locals, frame, world, faults, history
<1>3. CASE Write(t)
  <2>1. PICK n \in Storable :
            /\ bytes' = [bytes EXCEPT ![t] = n]
            /\ StorePut(key[t], EntryOf(key[t], val[t], snap[t], Now(clock), n))
    BY <1>3 DEF Write
  <2>2. key[t] \in Keys /\ val[t] \in Values /\ snap[t] \in Nat /\ n \in Int
    BY SizesAreInts
  <2>3. store' \in [Keys -> Entries \union {NoEntry}] /\ gen' \in [Keys -> Nat] /\ Now(clock) \in Nat
    BY <2>1, <2>2, PutIsTyped
  <2>4. bytes' \in [Threads -> Int]
    BY <2>1, <2>2
  <2>5. /\ observed' = Now(clock)
        /\ UNCHANGED <<snap, sweep, got, val, floor, condemned, cut, dep, hidden, clock,
                       clockBack, ops, deleteFaults, writeFaults>>
    BY <1>3 DEF Write, frame, world, faults
  <2>6. HoldsEntry'
    BY <1>3, <2>5 DEF Write
  <2> QED BY <2>3, <2>4, <2>5, <2>6
<1>4. CASE WriteFails(t)
    BY <1>4 DEF WriteFails, Conclude, Now, Later, locals, world, history
<1>5. CASE AdmitEntry(t)
    BY <1>5 DEF AdmitEntry, frame, world, faults, past, history
<1>6. CASE EvictDelete(t)
  <2>1. UNCHANGED <<observed, sweep, bytes, snap, got, val, gen, floor, condemned, cut, dep, hidden,
                    clock, clockBack, ops, writeFaults>>
    BY <1>6 DEF EvictDelete, locals, world, past, history
  <2>2. DeleteTried(Head(todo[t]))
    BY <1>6 DEF EvictDelete, DeleteTried
  <2>3. HoldsEntry'
    BY <1>6, <2>1 DEF EvictDelete
  <2> QED BY <2>1, <2>2, <2>3, DeleteIsTyped
<1>7. CASE RememberEviction(t)
    BY <1>7 DEF RememberEviction, locals, frame, world, faults, past, history
<1>8. CASE NoteEviction(t)
    BY <1>8 DEF NoteEviction, frame, world, faults, past, history
<1>9. CASE Settle(t)
    BY <1>9 DEF Settle, frame, world, faults, past, history
<1>10. CASE DrainDelete(t)
  <2>1. UNCHANGED <<observed, sweep, bytes, snap, got, val, gen, floor, condemned, cut, dep, hidden,
                    clock, clockBack, ops, writeFaults>>
    BY <1>10 DEF DrainDelete, world, past, history
  <2>2. DeleteTried(Head(todo[t]))
    BY <1>10 DEF DrainDelete, DeleteTried
  <2>3. store' \in [Keys -> Entries \union {NoEntry}] /\ deleteFaults' \in Nat
    BY <2>2, DeleteIsTyped
  <2>4. HoldsEntry'
    BY <1>10, <2>1 DEF DrainDelete
  <2> QED BY <2>1, <2>3, <2>4
<1>11. CASE DrainForget(t)
    BY <1>11 DEF DrainForget, frame, world, faults, past, history
<1>12. CASE FinishCommit(t)
    BY <1>12 DEF FinishCommit, Conclude, locals, frame, world, faults, history
<1> QED BY <1>1, <1>2, <1>3, <1>4, <1>5, <1>6, <1>7, <1>8, <1>9, <1>10, <1>11, <1>12
        DEF CommitStep

LEMMA VerifyTypes ==
    ASSUME NEW t \in Threads, VerifyStep(t), FlightTypes, TypeInv
    PROVE  TypeInv'
<1> USE DEF FlightTypes, TypeInv, DataTypes, HoldsEntry, Held, Goto
<1>1. CASE JudgeVerify(t)
    BY <1>1 DEF JudgeVerify, Dated, Now, Later, Fresh, Serves, locals, frame, world, faults,
        past, history
<1>2. CASE VerifyConfirms(t)
    BY <1>2 DEF VerifyConfirms, locals, frame, world, faults, history
<1>3. CASE VerifyRefutes(t)
    BY <1>3 DEF VerifyRefutes, Values, Entries, frame, world, faults
<1>4. CASE DeleteRefuted(t)
  <2>1. UNCHANGED <<observed, sweep, bytes, snap, got, val, gen, floor, condemned, cut, dep, hidden,
                    clock, clockBack, ops, writeFaults>>
    BY <1>4 DEF DeleteRefuted, locals, world, past, history
  <2>2. DeleteTried(key[t])
    BY <1>4 DEF DeleteRefuted
  <2>3. HoldsEntry'
    BY <1>4, <2>1 DEF DeleteRefuted
  <2> QED BY <2>1, <2>2, <2>3, DeleteIsTyped
<1>5. CASE ForgetRefuted(t)
    BY <1>5 DEF ForgetRefuted, locals, frame, world, faults, past, history
<1>6. CASE WarningRaises(t)
    BY <1>6 DEF WarningRaises, locals, frame, world, faults, history
<1> QED BY <1>1, <1>2, <1>3, <1>4, <1>5, <1>6
        DEF VerifyStep

LEMMA ControlTypes ==
    ASSUME NEW t \in Threads, ControlStep(t), FlightTypes, TypeInv
    PROVE  TypeInv'
<1> USE DEF FlightTypes, TypeInv, DataTypes, HoldsEntry, Held, Goto
<1>1. CASE InvalidateDelete(t)
  <2>1. UNCHANGED <<observed, sweep, bytes, snap, got, val, gen, floor, condemned, dep, hidden, clock,
                    clockBack, ops, writeFaults>>
    BY <1>1 DEF InvalidateDelete, locals, world
  <2>2. DeleteTried(key[t])
    BY <1>1 DEF InvalidateDelete, DeleteTried
  <2>3. cut' \in [Threads -> [Keys -> Nat]]
    BY <1>1 DEF InvalidateDelete
  <2>4. HoldsEntry'
    BY <1>1, <2>1 DEF InvalidateDelete
  <2> QED BY <2>1, <2>2, <2>3, <2>4, DeleteIsTyped
<1>2. CASE InvalidateMark(t)
    BY <1>2 DEF InvalidateMark, locals, frame, world, faults, past, history
<1>3. CASE InvalidateQuarantine(t)
    BY <1>3 DEF InvalidateQuarantine, locals, frame, world, faults, past, history
<1>4. CASE InvalidateReturns(t)
    BY <1>4 DEF InvalidateReturns, Condemn, Later, locals, frame, world, faults
<1>5. CASE ClearStore(t)
    BY <1>5 DEF ClearStore, locals, frame, world, faults, past, history
<1>6. CASE ClearRaises(t)
  <2>1. UNCHANGED <<observed, bytes, snap, got, val, gen, floor, condemned, dep, hidden, clock,
                    clockBack, ops, writeFaults>>
    BY <1>6 DEF ClearRaises, world
  <2>2. store' = store /\ deleteFaults' \in Nat
    BY <1>6 DEF ClearRaises, DeleteRaises
  <2>3. cut' \in [Threads -> [Keys -> Nat]] /\ HoldsEntry'
    BY <1>6, <2>1 DEF ClearRaises
  <2>4. sweep' \in [Threads -> SUBSET Keys]
    BY <1>6 DEF ClearRaises
  <2> QED BY <2>1, <2>2, <2>3, <2>4
<1>7. CASE ClearBudget(t)
    BY <1>7 DEF ClearBudget, locals, frame, world, faults, past, history
<1>8. CASE ClearMarks(t)
    BY <1>8 DEF ClearMarks, Later, locals, frame, world, faults
<1>13. CASE ClearEntry(t)
  <2>1. UNCHANGED <<pc, observed, bytes, snap, got, val, gen, floor, condemned, cut, dep, hidden,
                    clock, clockBack, ops, writeFaults>>
    BY <1>13 DEF ClearEntry, world, past, history
  <2>2. PICK k \in Keys \union sweep[t] : DeleteTried(k)
    BY <1>13 DEF ClearEntry, DeleteTried, Present
  <2>3. store' \in [Keys -> Entries \union {NoEntry}] /\ deleteFaults' \in Nat
    BY <2>2, DeleteIsTyped
  <2>4. HoldsEntry'
    BY <2>1
  <2>5. sweep' \in [Threads -> SUBSET Keys]
    BY <1>13 DEF ClearEntry
  <2> QED BY <2>1, <2>3, <2>4, <2>5
<1>9. CASE ProfileLookup(t)
  <2>1. UNCHANGED <<store, observed, sweep, bytes, snap, got, gen, floor, condemned, cut, dep, hidden,
                    clock, clockBack, ops, deleteFaults, writeFaults>>
    BY <1>9 DEF ProfileLookup, frame, world, faults, past, history
  <2>2. val' \in [Threads -> Values]
    BY <1>9, NoValueIsTyped DEF ProfileLookup, ProfileEnds
  <2>3. HoldsEntry'
    BY <1>9, <2>1 DEF ProfileLookup, ProfileEnds
  <2> QED BY <2>1, <2>2, <2>3
<1>10. CASE ProfileWrite(t)
  <2>1. PICK n \in Sizes : StorePut(key[t], EntryOf(key[t], val[t], dep, Now(clock), n))
    BY <1>10 DEF ProfileWrite
  <2>2. key[t] \in Keys /\ val[t] \in Values /\ n \in Int
    BY SizesAreInts
  <2>3. store' \in [Keys -> Entries \union {NoEntry}] /\ gen' \in [Keys -> Nat]
    BY <2>1, <2>2, PutIsTyped
  <2>4. UNCHANGED <<observed, sweep, bytes, snap, got, val, floor, condemned, cut, dep, hidden, clock,
                    clockBack, ops, deleteFaults, writeFaults>>
    BY <1>10 DEF ProfileWrite, locals, frame, world, faults
  <2>5. HoldsEntry'
    BY <1>10, <2>4 DEF ProfileWrite
  <2> QED BY <2>3, <2>4, <2>5
<1>11. CASE ProfileWriteFails(t)
    BY <1>11 DEF ProfileWriteFails, ProfileEnds, Values, NoValue, world, past, history
<1>12. CASE ProfileDelete(t)
  <2>1. UNCHANGED <<observed, sweep, bytes, snap, got, gen, floor, condemned, cut, dep, hidden,
                    clock, clockBack, ops, writeFaults>>
    BY <1>12 DEF ProfileDelete, world, past, history
  <2>2. store' \in [Keys -> Entries \union {NoEntry}] /\ deleteFaults' \in Nat
    BY <1>12 DEF ProfileDelete, DeleteTried, Deleted, DeleteRaises
  <2>3. val' \in [Threads -> Values] /\ HoldsEntry'
    BY <1>12, <2>1, NoValueIsTyped DEF ProfileDelete, ProfileEnds
  <2> QED BY <2>1, <2>2, <2>3
<1> QED BY <1>1, <1>2, <1>3, <1>4, <1>5, <1>6, <1>7, <1>8, <1>9, <1>10, <1>11, <1>12, <1>13
        DEF ControlStep

LEMMA WorldTypes ==
    ASSUME World, TypeInv
    PROVE  TypeInv'
<1>1. UNCHANGED <<store, pc, bytes, sweep, snap, got, val, gen, condemned, floor, cut, observed, ops,
                  deleteFaults, writeFaults>>
    BY DEF World, cacheVars, locals, past, history, faults
<1>2. dep' \in Nat /\ hidden' \in Nat /\ clock' \in Nat /\ clockBack' \in Nat
    BY DEF World, DependencyChanges, HiddenChanges, ClockTicks, ClockStepsBack, TypeInv,
        DataTypes
<1> QED BY <1>1, <1>2 DEF TypeInv, DataTypes, HoldsEntry

LEMMA StepKeepsTypes ==
    ASSUME FlightTypes, TypeInv, [Next]_vars
    PROVE  TypeInv'
<1>1. ASSUME NEW t \in Threads, Start(t) \/ Step(t) PROVE TypeInv'
    BY <1>1, StartTypes, CallTypes, CommitTypes, VerifyTypes, ControlTypes DEF Step
<1>2. CASE UNCHANGED vars
    BY <1>2 DEF vars, locals, world, faults, past, history, TypeInv, DataTypes, HoldsEntry
<1> QED BY <1>1, <1>2, WorldTypes DEF Next

LEMMA InitTypes == Init => TypeInv
BY DEF Init, TypeInv, DataTypes, HoldsEntry, Held, Values, NoValue

(* Every variable that holds data is typed in every reachable state.       *)
THEOREM TypeInvariance == Spec => []TypeInv
<1>1. FlightInv /\ TypeInv /\ [Next]_vars => TypeInv'
    BY StepKeepsTypes DEF FlightInv
<1> QED BY <1>1, InitTypes, FlightInvariance, PTL DEF Spec

-----------------------------------------------------------------------------
(* Part 3.                                                                 *)
ProfileLabels == {"profile_lookup", "profile_write", "profile_delete"}
NeverProfiles == \A t \in Threads : pc[t] \notin ProfileLabels

(* The locals of a call, against its snapshot of the dependencies and the  *)
(* dependencies now.  Where a result waits for its commit it was computed  *)
(* between the two; once they have been found equal, it was computed from  *)
(* the snapshot, because a dependency never returns to an old version.     *)
ReadIsFaithful(t) == (HasDeps /\ got[t] # NoEntry) => got[t].deps = got[t].val.dep
ResultIsBetween(t) ==
    pc[t] \in {"recheck", "delete_refuted", "forget_refuted"} =>
        snap[t] <= val[t].dep /\ val[t].dep <= dep
ResultIsOfSnapshot(t) == (HasDeps /\ pc[t] = "write") => val[t].dep = snap[t]
ReadIsOfSnapshot(t) ==
    (HasDeps /\ pc[t] \in {"served", "verify_run"}) =>
        got[t] # NoEntry /\ got[t].deps = snap[t]

CallIsFaithful(t) ==
    /\ snap[t] <= dep
    /\ ReadIsFaithful(t)
    /\ ResultIsBetween(t)
    /\ ResultIsOfSnapshot(t)
    /\ ReadIsOfSnapshot(t)

DepsInv ==
    /\ DataTypes
    /\ NeverProfiles
    /\ EntriesAreFaithful
    /\ \A t \in Threads : CallIsFaithful(t)

-----------------------------------------------------------------------------
(* The labels at which CallIsFaithful says something of the locals.        *)
Loaded == {"recheck", "delete_refuted", "forget_refuted", "write", "served", "verify_run"}

Erases == \A k \in Keys : store'[k] \in {store[k], NoEntry}

(* A step that only removes entries and goes to a label that is not loaded;*)
(* every other step of a call is one of the actions below.                 *)
Silent(t) ==
    /\ Erases
    /\ pc'[t] \notin Loaded \union ProfileLabels
    /\ \A u \in Threads \ {t} : pc'[u] = pc[u]
    /\ UNCHANGED <<snap, got, val, dep>>

DataMove(t) ==
    \/ Silent(t)
    \/ \E k \in Keys : StartCall(t, k)
    \/ Lookup(t) \/ ClassifyStale(t) \/ Return(t)
    \/ JudgeFast(t) \/ JudgeLocked(t) \/ JudgeVerify(t) \/ VerifyConfirms(t)
    \/ RunReturns(t) \/ VerifyRefutes(t) \/ DeleteRefuted(t) \/ ForgetRefuted(t)
    \/ RecheckDeps(t) \/ Write(t)

LEMMA StartData ==
    ASSUME NEW t \in Threads, Start(t), "profile" \notin Operations,
           FlightTypes, DataTypes, NeverProfiles
    PROVE  DataMove(t)
<1> USE DEF FlightTypes, DataTypes, NeverProfiles, ProfileLabels, Silent, Erases, Loaded,
            Goto
<1>1. ASSUME NEW k \in Keys, StartInvalidate(t, k) PROVE Silent(t)
    BY <1>1 DEF StartInvalidate, past, history, world, faults
<1>2. ASSUME StartClear(t) PROVE Silent(t)
    BY <1>2 DEF StartClear, locals, world, faults
<1> QED BY <1>1, <1>2 DEF Start, StartProfile, DataMove

LEMMA CallData ==
    ASSUME NEW t \in Threads, CallStep(t), FlightTypes, DataTypes, NeverProfiles
    PROVE  DataMove(t)
<1> USE DEF FlightTypes, DataTypes, NeverProfiles, ProfileLabels, Silent, Erases, Loaded,
            Goto
<1>1. ASSUME EnterFlight(t) PROVE Silent(t)
    BY <1>1 DEF EnterFlight, AfterLock, locals, frame, world, past, history
<1>2. ASSUME ClassifyPending(t) PROVE Silent(t)
    BY <1>2 DEF ClassifyPending, locals, frame, world, past, history
<1>3. ASSUME ClassifyAbsent(t) PROVE Silent(t)
    BY <1>3 DEF ClassifyAbsent, locals, frame, world, history
<1>4. ASSUME RetryDelete(t) PROVE Silent(t)
    BY <1>4 DEF RetryDelete, Deleted, DeleteRaises, locals, past, history, world
<1>5. ASSUME MissInvalidated(t) PROVE Silent(t)
    BY <1>5 DEF MissInvalidated, locals, frame, world, history
<1>6. ASSUME DeleteStale(t) PROVE Silent(t)
    BY <1>6 DEF DeleteStale, DeleteTried, Deleted, DeleteRaises, locals, past, history,
        world
<1>7. ASSUME LabelStale(t) PROVE Silent(t)
    BY <1>7 DEF LabelStale, locals, frame, world
<1>8. ASSUME RunRaises(t) PROVE Silent(t)
    BY <1>8 DEF RunRaises, locals, frame, world, past, history
<1> QED BY <1>1, <1>2, <1>3, <1>4, <1>5, <1>6, <1>7, <1>8
        DEF CallStep, DataMove

LEMMA CommitData ==
    ASSUME NEW t \in Threads, CommitStep(t), FlightTypes, DataTypes, NeverProfiles
    PROVE  DataMove(t)
<1> USE DEF FlightTypes, DataTypes, NeverProfiles, ProfileLabels, Silent, Erases, Loaded,
            Goto
<1>1. ASSUME SkipUnsized(t) PROVE Silent(t)
    BY <1>1 DEF SkipUnsized, Conclude, locals, frame, world, history
<1>2. ASSUME WriteFails(t) PROVE Silent(t)
    BY <1>2 DEF WriteFails, Conclude, Storable, locals, world, history
<1>3. ASSUME AdmitEntry(t) PROVE Silent(t)
    BY <1>3 DEF AdmitEntry, frame, world, past, history
<1>4. ASSUME EvictDelete(t) PROVE Silent(t)
    BY <1>4 DEF EvictDelete, Deleted, DeleteRaises, locals, past, history, world
<1>5. ASSUME RememberEviction(t) PROVE Silent(t)
    BY <1>5 DEF RememberEviction, locals, frame, world, past, history
<1>6. ASSUME NoteEviction(t) PROVE Silent(t)
    BY <1>6 DEF NoteEviction, frame, world, past, history
<1>7. ASSUME Settle(t) PROVE Silent(t)
    BY <1>7 DEF Settle, frame, world, past, history
<1>8. ASSUME DrainDelete(t) PROVE Silent(t)
    BY <1>8 DEF DrainDelete, Deleted, DeleteRaises, past, history, world
<1>9. ASSUME DrainForget(t) PROVE Silent(t)
    BY <1>9 DEF DrainForget, frame, world, past, history
<1>10. ASSUME FinishCommit(t) PROVE Silent(t)
    BY <1>10 DEF FinishCommit, Conclude, locals, frame, world, history
<1> QED BY <1>1, <1>2, <1>3, <1>4, <1>5, <1>6, <1>7, <1>8, <1>9, <1>10
        DEF CommitStep, DataMove

LEMMA VerifyData ==
    ASSUME NEW t \in Threads, VerifyStep(t), FlightTypes, DataTypes, NeverProfiles
    PROVE  DataMove(t)
<1> USE DEF FlightTypes, DataTypes, NeverProfiles, ProfileLabels, Silent, Erases, Loaded,
            Goto
<1>1. ASSUME WarningRaises(t) PROVE Silent(t)
    BY <1>1 DEF WarningRaises, locals, frame, world, history
<1> QED BY <1>1 DEF VerifyStep, DataMove

LEMMA ControlData ==
    ASSUME NEW t \in Threads, ControlStep(t), FlightTypes, DataTypes, NeverProfiles
    PROVE  DataMove(t)
<1> USE DEF FlightTypes, DataTypes, NeverProfiles, ProfileLabels, Silent, Erases, Loaded,
            Goto
<1>1. ASSUME InvalidateDelete(t) PROVE Silent(t)
    BY <1>1 DEF InvalidateDelete, Deleted, DeleteRaises, locals, world
<1>2. ASSUME InvalidateMark(t) PROVE Silent(t)
    BY <1>2 DEF InvalidateMark, locals, frame, world, past, history
<1>3. ASSUME InvalidateQuarantine(t) PROVE Silent(t)
    BY <1>3 DEF InvalidateQuarantine, locals, frame, world, past, history
<1>4. ASSUME InvalidateReturns(t) PROVE Silent(t)
    BY <1>4 DEF InvalidateReturns, locals, frame, world
<1>5. ASSUME ClearStore(t) PROVE Silent(t)
    BY <1>5 DEF ClearStore, locals, frame, world, past, history
<1>6. ASSUME ClearRaises(t) PROVE Silent(t)
    BY <1>6 DEF ClearRaises, DeleteRaises, world
<1>7. ASSUME ClearBudget(t) PROVE Silent(t)
    BY <1>7 DEF ClearBudget, locals, frame, world, past, history
<1>8. ASSUME ClearMarks(t) PROVE Silent(t)
    BY <1>8 DEF ClearMarks, locals, frame, world
<1>9. ASSUME ClearEntry(t) PROVE Silent(t)
    BY <1>9 DEF ClearEntry, Deleted, past, history, world
<1> QED BY <1>1, <1>2, <1>3, <1>4, <1>5, <1>6, <1>7, <1>8, <1>9
        DEF ControlStep, ProfileLookup, ProfileWrite, ProfileWriteFails, ProfileDelete,
        DataMove

-----------------------------------------------------------------------------
(* What a step of t leaves alone, and what it keeps of its own call.       *)
OthersUntouched(t) ==
    /\ dep' = dep
    /\ \A u \in Threads \ {t} :
            pc'[u] = pc[u] /\ snap'[u] = snap[u] /\ got'[u] = got[u] /\ val'[u] = val[u]

KeepsFaith(t) ==
    /\ OthersUntouched(t)
    /\ pc'[t] \notin ProfileLabels
    /\ EntriesAreFaithful'
    /\ CallIsFaithful(t)'

LEMMA NatOrder ==
    /\ \A n \in Nat : n <= n /\ 0 <= n
    /\ \A m, n \in Nat : m <= n /\ n <= m => m = n
    /\ \A l, m, n \in Nat : l <= m /\ m <= n => l <= n
OBVIOUS

LEMMA MoveKeepsFaith ==
    ASSUME FlightTypes, DepsInv, NEW t \in Threads, DataMove(t), DataTypes'
    PROVE  KeepsFaith(t)
<1> USE DEF FlightTypes, DepsInv, DataTypes, Goto, ProfileLabels, KeepsFaith, OthersUntouched,
            CallIsFaithful, EntriesAreFaithful, ReadIsFaithful, ResultIsBetween,
            ResultIsOfSnapshot, ReadIsOfSnapshot
<1>1. CASE Silent(t)
    BY <1>1 DEF Silent, Erases, Loaded
<1>2. ASSUME NEW k \in Keys, StartCall(t, k) PROVE KeepsFaith(t)
  <2>1. OthersUntouched(t) /\ pc'[t] \notin ProfileLabels /\ EntriesAreFaithful'
    BY <1>2 DEF StartCall, world, faults
  <2>2. snap'[t] <= dep'
    <3>1. snap'[t] = dep /\ dep' = dep /\ dep \in Nat
        BY <1>2 DEF StartCall, world, faults
    <3> QED BY <3>1, NatOrder, ZenonT(60)
  <2>3. ReadIsFaithful(t)' /\ ReadIsOfSnapshot(t)'
    BY <1>2 DEF StartCall, world, faults
  <2>4. ResultIsBetween(t)'
    BY <1>2 DEF StartCall, world, faults
  <2>5. ResultIsOfSnapshot(t)'
    BY <1>2 DEF StartCall, world, faults
  <2> QED BY <2>1, <2>2, <2>3, <2>4, <2>5
<1>3. CASE Lookup(t)
    BY <1>3 DEF Lookup, AfterLookup, frame, world, past, history
<1>4. CASE ClassifyStale(t)
    BY <1>4 DEF ClassifyStale, frame, world, past, history
<1>5. CASE Return(t)
  <2>1. OthersUntouched(t) /\ pc'[t] \notin ProfileLabels /\ EntriesAreFaithful'
    BY <1>5 DEF Return, frame, world, NoValue, Values
  <2>2. snap'[t] <= dep'
    <3>1. snap'[t] = 0 /\ dep' = dep /\ dep \in Nat
        BY <1>5 DEF Return, frame, world
    <3> QED BY <3>1, NatOrder, ZenonT(60)
  <2>3. ReadIsFaithful(t)' /\ ReadIsOfSnapshot(t)'
    BY <1>5 DEF Return, frame, world, NoValue, Values
  <2>4. ResultIsBetween(t)'
    BY <1>5 DEF Return, frame, world, NoValue, Values
  <2>5. ResultIsOfSnapshot(t)'
    BY <1>5 DEF Return, frame, world, NoValue, Values
  <2> QED BY <2>1, <2>2, <2>3, <2>4, <2>5
<1>6. CASE JudgeFast(t)
    BY <1>6 DEF JudgeFast, Fresh, Serves, DepsDiffer, locals, frame, world, history
<1>7. CASE JudgeLocked(t)
    BY <1>7 DEF JudgeLocked, Fresh, Serves, DepsDiffer, locals, frame, world, history
<1>8. CASE JudgeVerify(t)
    BY <1>8 DEF JudgeVerify, Fresh, Serves, DepsDiffer, locals, frame, world, past, history
<1>9. CASE VerifyConfirms(t)
    BY <1>9 DEF VerifyConfirms, Matches, locals, frame, world, history
<1>10. CASE RunReturns(t)
  <2>1. OthersUntouched(t) /\ pc'[t] \notin ProfileLabels /\ EntriesAreFaithful'
    BY <1>10 DEF RunReturns, frame, world, past, history
  <2>2. snap'[t] <= dep'
    BY <1>10 DEF RunReturns, frame, world, past, history
  <2>3. ReadIsFaithful(t)' /\ ReadIsOfSnapshot(t)'
    BY <1>10 DEF RunReturns, frame, world, past, history
  <2>4. ResultIsBetween(t)'
    <3>1. val'[t].dep = dep /\ snap'[t] = snap[t] /\ dep' = dep
        BY <1>10 DEF RunReturns, frame, world, past, history
    <3>2. snap[t] <= dep /\ dep <= dep
        BY NatOrder
    <3> QED BY <3>1, <3>2, ZenonT(60)
  <2>5. ResultIsOfSnapshot(t)'
    BY <1>10 DEF RunReturns, frame, world, past, history
  <2> QED BY <2>1, <2>2, <2>3, <2>4, <2>5
<1>11. CASE VerifyRefutes(t)
  <2>1. OthersUntouched(t) /\ pc'[t] \notin ProfileLabels /\ EntriesAreFaithful'
    BY <1>11 DEF VerifyRefutes, Matches, frame, world
  <2>2. snap'[t] <= dep'
    BY <1>11 DEF VerifyRefutes, Matches, frame, world
  <2>3. ReadIsFaithful(t)' /\ ReadIsOfSnapshot(t)'
    BY <1>11 DEF VerifyRefutes, Matches, frame, world
  <2>4. ResultIsBetween(t)'
    <3>1. val'[t].dep = dep /\ snap'[t] = snap[t] /\ dep' = dep
        BY <1>11 DEF VerifyRefutes, Matches, frame, world
    <3>2. snap[t] <= dep /\ dep <= dep
        BY NatOrder
    <3> QED BY <3>1, <3>2, ZenonT(60)
  <2>5. ResultIsOfSnapshot(t)'
    BY <1>11 DEF VerifyRefutes, Matches, frame, world
  <2> QED BY <2>1, <2>2, <2>3, <2>4, <2>5
<1>12. CASE DeleteRefuted(t)
    BY <1>12 DEF DeleteRefuted, DeleteTried, Deleted, DeleteRaises, locals, past, history,
        world
<1>13. CASE ForgetRefuted(t)
    BY <1>13 DEF ForgetRefuted, locals, frame, world, past, history
<1>14. CASE RecheckDeps(t)
  <2>1. OthersUntouched(t) /\ pc'[t] \notin ProfileLabels /\ EntriesAreFaithful'
    BY <1>14 DEF RecheckDeps, Conclude, DepsMoved, locals, frame, world, history
  <2>2. snap'[t] <= dep'
    BY <1>14 DEF RecheckDeps, Conclude, DepsMoved, locals, frame, world, history
  <2>3. ReadIsFaithful(t)' /\ ReadIsOfSnapshot(t)'
    BY <1>14 DEF RecheckDeps, Conclude, DepsMoved, locals, frame, world, history
  <2>4. ResultIsBetween(t)'
    BY <1>14 DEF RecheckDeps, Conclude, DepsMoved, locals, frame, world, history
  <2>5. ResultIsOfSnapshot(t)'
    <3> SUFFICES ASSUME HasDeps, pc'[t] = "write" PROVE val'[t].dep = snap'[t]
        OBVIOUS
    <3>1. dep = snap[t] /\ UNCHANGED <<val, snap>>
        BY <1>14 DEF RecheckDeps, Conclude, DepsMoved, locals
    <3>2. snap[t] <= val[t].dep /\ val[t].dep <= dep
        BY <1>14 DEF RecheckDeps
    <3>3. snap[t] \in Nat /\ val[t].dep \in Nat
        BY DEF Values
    <3>4. val[t].dep <= snap[t]
        BY <3>1, <3>2
    <3>5. val[t].dep = snap[t]
        BY ONLY <3>2, <3>3, <3>4, NatOrder
    <3> QED BY <3>1, <3>5
  <2> QED BY <2>1, <2>2, <2>3, <2>4, <2>5
<1>15. CASE Write(t)
  <2>1. OthersUntouched(t) /\ pc'[t] \notin ProfileLabels /\ EntriesAreFaithful'
    <3>1. OthersUntouched(t) /\ pc'[t] \notin ProfileLabels
        BY <1>15 DEF Write, frame, world
    <3> DEFINE entry(n) == EntryOf(key[t], val[t], snap[t], Now(clock), n)
    <3>2. PICK n : store' = [store EXCEPT ![key[t]] = entry(n)]
        BY <1>15 DEF Write, StorePut
    <3>3. (HasDeps => entry(n).deps = snap[t]) /\ entry(n).val = val[t]
        BY DEF EntryOf
    <3>4. HasDeps => val[t].dep = snap[t]
        BY <1>15 DEF Write
    <3>5. EntriesAreFaithful'
        BY <3>2, <3>3, <3>4
    <3> QED BY <3>1, <3>5
  <2>2. snap'[t] <= dep'
    BY <1>15 DEF Write, StorePut, EntryOf, frame, world
  <2>3. ReadIsFaithful(t)' /\ ReadIsOfSnapshot(t)'
    BY <1>15 DEF Write, StorePut, EntryOf, frame, world
  <2>4. ResultIsBetween(t)'
    BY <1>15 DEF Write, StorePut, EntryOf, frame, world
  <2>5. ResultIsOfSnapshot(t)'
    BY <1>15 DEF Write, StorePut, EntryOf, frame, world
  <2> QED BY <2>1, <2>2, <2>3, <2>4, <2>5
<1> QED BY <1>1, <1>2, <1>3, <1>4, <1>5, <1>6, <1>7, <1>8, <1>9, <1>10, <1>11, <1>12,
        <1>13, <1>14, <1>15 DEF DataMove

LEMMA StepKeepsDeps ==
    ASSUME "profile" \notin Operations, FlightInv, TypeInv', DepsInv, [Next]_vars
    PROVE  DepsInv'
<1>1. ASSUME NEW t \in Threads, Start(t) \/ Step(t) PROVE DepsInv'
  <2>1. DataTypes'
    BY DEF TypeInv
  <2>2. DataMove(t)
    BY <1>1, StartData, CallData, CommitData, VerifyData, ControlData
    DEF Step, FlightInv, DepsInv
  <2>3. KeepsFaith(t)
    BY <2>1, <2>2, MoveKeepsFaith DEF FlightInv
  <2>4. ASSUME NEW u \in Threads PROVE pc'[u] \notin ProfileLabels /\ CallIsFaithful(u)'
    <3>1. CASE u = t
        BY <2>3, <3>1 DEF KeepsFaith
    <3>2. CASE u # t
        BY <2>3, <3>2 DEF KeepsFaith, OthersUntouched, DepsInv, NeverProfiles, CallIsFaithful,
            ReadIsFaithful, ResultIsBetween, ResultIsOfSnapshot, ReadIsOfSnapshot
    <3> QED BY <3>1, <3>2
  <2> QED BY <2>1, <2>3, <2>4 DEF DepsInv, NeverProfiles, KeepsFaith
<1>2. CASE World
  <2>1. UNCHANGED <<store, pc, snap, got, val, gen, observed>>
    BY <1>2 DEF World, cacheVars, locals, past, history
  <2>2. dep' \in Nat /\ hidden' \in Nat /\ clock' \in Nat /\ dep <= dep'
    BY <1>2 DEF World, DependencyChanges, HiddenChanges, ClockTicks, ClockStepsBack,
                DepsInv, DataTypes
  <2>3. DataTypes' /\ NeverProfiles' /\ EntriesAreFaithful'
    BY <2>1 DEF TypeInv, DepsInv, NeverProfiles, EntriesAreFaithful
  <2>4. ASSUME NEW u \in Threads PROVE CallIsFaithful(u)'
    <3>1. CallIsFaithful(u)
        BY DEF DepsInv
    <3>2. snap[u] \in Nat /\ val[u].dep \in Nat /\ dep \in Nat
        BY DEF DepsInv, DataTypes, Values
    <3>3. snap[u] <= dep'
        BY <2>2, <3>1, <3>2, NatOrder, ZenonT(60) DEF CallIsFaithful
    <3>4. val[u].dep <= dep => val[u].dep <= dep'
        BY <2>2, <3>2, NatOrder, ZenonT(60)
    <3> QED BY <2>1, <3>1, <3>3, <3>4, ZenonT(60) DEF CallIsFaithful, ReadIsFaithful,
        ResultIsBetween, ResultIsOfSnapshot, ReadIsOfSnapshot
  <2> QED BY <2>3, <2>4 DEF DepsInv
<1>3. CASE UNCHANGED vars
    BY <1>3 DEF vars, locals, world, past, history, TypeInv, DepsInv, NeverProfiles,
        EntriesAreFaithful, CallIsFaithful, ReadIsFaithful, ResultIsBetween,
        ResultIsOfSnapshot, ReadIsOfSnapshot
<1> QED BY <1>1, <1>2, <1>3 DEF Next

LEMMA InitDeps == Init => DepsInv
<1> SUFFICES ASSUME Init PROVE DepsInv
    OBVIOUS
<1>1. DataTypes
    BY InitTypes DEF TypeInv
<1>2. NeverProfiles /\ EntriesAreFaithful /\ \A t \in Threads : CallIsFaithful(t)
    BY DEF Init, NeverProfiles, ProfileLabels, EntriesAreFaithful, CallIsFaithful,
        ReadIsFaithful, ResultIsBetween, ResultIsOfSnapshot, ReadIsOfSnapshot
<1> QED BY <1>1, <1>2 DEF DepsInv

(* Entries, results and hits agree with the dependencies they came from in *)
(* every reachable state.                                                  *)
THEOREM DepsInvariance ==
    ASSUME "profile" \notin Operations
    PROVE  Spec => []DepsInv
<1>1. FlightInv /\ TypeInv' /\ DepsInv /\ [Next]_vars => DepsInv'
    BY StepKeepsDeps
<1> QED BY <1>1, InitDeps, FlightInvariance, TypeInvariance, PTL DEF Spec

(* What is stored under a dependency fingerprint was computed from it.     *)
THEOREM EntriesAreFaithfulHolds ==
    ASSUME "profile" \notin Operations
    PROVE  Spec => []EntriesAreFaithful
<1>1. DepsInv => EntriesAreFaithful
    BY DEF DepsInv
<1> QED BY <1>1, DepsInvariance, PTL

(* The value a hit returns was computed from the dependencies its caller   *)
(* saw when it called.                                                     *)
THEOREM HitReflectsDependenciesHolds ==
    ASSUME "profile" \notin Operations
    PROVE  Spec => []HitReflectsDependencies
<1>1. DepsInv => HitReflectsDependencies
    BY DEF DepsInv, CallIsFaithful, ReadIsFaithful, ReadIsOfSnapshot, HitReflectsDependencies
<1> QED BY <1>1, DepsInvariance, PTL

-----------------------------------------------------------------------------
(* Part 4.                                                                 *)
(* A call that computes has counted its miss and not yet its outcome.      *)
Computing ==
    {"run", "recheck", "write", "admit", "evict", "remember_eviction", "note_eviction", "settle",
     "drain", "drained", "delete_refuted", "forget_refuted"}
Undecided == Labels \ (Computing \union {"served", "returned", "raised"})

BookedOK(t) ==
    /\ pc[t] \in Undecided => booked[t] = <<>>
    /\ pc[t] \in Computing => \E miss \in Misses : booked[t] = <<miss>>
    /\ pc[t] = "served" => booked[t] = <<"hit">>
    /\ pc[t] = "returned" => \E miss \in Misses, outcome \in Outcomes : booked[t] = <<miss, outcome>>

TallyInv ==
    /\ pc \in [Threads -> Labels]
    /\ booked = [t \in Threads |-> booked[t]]
    /\ \A t \in Threads : BookedOK(t)

-----------------------------------------------------------------------------
(* The moves.                                                              *)
Proceeds(t) ==
    /\ \E label \in Labels :
        /\ Goto(t, label)
        /\ pc[t] \in Undecided => label \in Undecided
        /\ pc[t] \in Computing => label \in Computing
        /\ pc[t] \in Undecided \union Computing
    /\ UNCHANGED booked

CountsMiss(t) ==
    /\ pc[t] \in Undecided
    /\ \E label \in Computing, miss \in Misses : Goto(t, label) /\ Book(t, miss)

Hits(t) == pc[t] \in Undecided /\ Goto(t, "served") /\ Book(t, "hit")
Ends(t) == pc[t] \in Computing /\ Goto(t, "returned") /\ \E outcome \in Outcomes : Book(t, outcome)
Fails(t) ==
    /\ Goto(t, "raised")
    /\ UNCHANGED booked \/ (pc[t] \in Undecided /\ \E name \in Misses : Book(t, name))
Resets(t) == Goto(t, "idle") /\ booked' = [booked EXCEPT ![t] = <<>>]

TallyMove(t) == Proceeds(t) \/ CountsMiss(t) \/ Hits(t) \/ Ends(t) \/ Fails(t) \/ Resets(t)

LEMMA AppendedTwice ==
    ASSUME NEW miss, NEW outcome
    PROVE  Append(<<>>, miss) = <<miss>> /\ Append(<<miss>>, outcome) = <<miss, outcome>>
<1> DEFINE Names == {miss, outcome}
           longer == Append(<<miss>>, outcome)
<1>1. Append(<<>>, miss) = <<miss>>
  OBVIOUS
<1>2. <<miss>> \in Seq(Names) /\ <<miss, outcome>> \in Seq(Names)
  OBVIOUS
<1>3. longer \in Seq(Names) /\ Len(longer) = 2 /\ longer[1] = miss /\ longer[2] = outcome
  BY <1>2, AppendProperties
<1>4. longer = <<miss, outcome>>
  <2>1. Len(<<miss, outcome>>) = 2 /\ <<miss, outcome>>[1] = miss /\ <<miss, outcome>>[2] = outcome
    OBVIOUS
  <2>2. \A i \in 1 .. 2 : i = 1 \/ i = 2
    OBVIOUS
  <2>3. \A i \in 1 .. 2 : longer[i] = <<miss, outcome>>[i]
    BY <1>3, <2>1, <2>2
  <2> HIDE DEF longer
  <2> QED BY <1>2, <1>3, <2>1, <2>3, SeqEqual
<1> QED BY <1>1, <1>4

LEMMA MoveKeepsTallies ==
    ASSUME TallyInv, NEW t \in Threads, TallyMove(t)
    PROVE  TallyInv'
<1> USE DEF TallyInv, Goto, Book
<1>1. {"idle", "served", "returned", "raised"} \subseteq Labels /\ Computing \subseteq Labels
  BY DEF Labels, InFlight, Computing
<1>2. pc' \in [Threads -> Labels] /\ booked' = [u \in Threads |-> booked'[u]]
  BY <1>1 DEF TallyMove, Proceeds, CountsMiss, Hits, Ends, Fails, Resets
<1>3. ASSUME NEW u \in Threads, u # t PROVE BookedOK(u)'
  <2>1. pc'[u] = pc[u] /\ booked'[u] = booked[u]
    BY <1>3 DEF TallyMove, Proceeds, CountsMiss, Hits, Ends, Fails, Resets
  <2> QED BY <2>1 DEF BookedOK
<1>4. BookedOK(t)'
  <2>1. CASE Proceeds(t)
    <3>1. booked'[t] = booked[t] /\ pc'[t] \notin {"served", "returned", "raised"}
          /\ (pc'[t] \in Undecided => pc[t] \in Undecided)
          /\ (pc'[t] \in Computing => pc[t] \in Computing)
      BY <2>1 DEF Proceeds, Undecided, Computing
    <3> QED BY <3>1 DEF BookedOK
  <2>2. CASE CountsMiss(t)
    <3>1. PICK miss \in Misses : Book(t, miss)
      BY <2>2 DEF CountsMiss
    <3>2. booked[t] = <<>>
      BY <2>2 DEF BookedOK, CountsMiss
    <3>3. booked'[t] = Append(<<>>, miss)
      BY <3>1, <3>2
    <3>4. booked'[t] = <<miss>>
      BY <3>3, AppendedTwice
    <3>5. pc'[t] \in Computing
      BY <2>2 DEF CountsMiss
    <3> QED BY <3>4, <3>5 DEF BookedOK, Undecided, Computing
  <2>3. CASE Hits(t)
    <3>1. booked[t] = <<>> /\ pc'[t] = "served"
      BY <2>3 DEF BookedOK, Hits
    <3>2. booked'[t] = Append(<<>>, "hit")
      BY <2>3, <3>1 DEF Hits
    <3>3. booked'[t] = <<"hit">>
      BY <3>2, AppendedTwice
    <3> QED BY <3>1, <3>3 DEF BookedOK, Undecided, Computing
  <2>4. CASE Ends(t)
    <3>1. PICK miss \in Misses, outcome \in Outcomes : booked[t] = <<miss>> /\ Book(t, outcome)
      BY <2>4 DEF BookedOK, Ends
    <3>2. booked'[t] = Append(<<miss>>, outcome)
      BY <3>1
    <3>3. booked'[t] = <<miss, outcome>>
      BY <3>2, AppendedTwice
    <3>4. pc'[t] = "returned"
      BY <2>4 DEF Ends
    <3> QED BY <3>3, <3>4 DEF BookedOK, Undecided, Computing
  <2>5. CASE Fails(t)
    <3>1. pc'[t] = "raised"
      BY <2>5 DEF Fails
    <3> QED BY <3>1 DEF BookedOK, Undecided, Computing
  <2>6. CASE Resets(t)
    <3>1. pc'[t] = "idle" /\ booked'[t] = <<>>
      BY <2>6 DEF Resets
    <3> QED BY <3>1 DEF BookedOK, Undecided, Computing
  <2> QED BY <2>1, <2>2, <2>3, <2>4, <2>5, <2>6 DEF TallyMove
<1> QED BY <1>2, <1>3, <1>4

-----------------------------------------------------------------------------
LEMMA StartTallies ==
    ASSUME NEW t \in Threads, Start(t), TallyInv
    PROVE  Proceeds(t)
<1> USE DEF Proceeds, Goto, Labels, InFlight, Undecided, Computing, TallyInv
<1>1. ASSUME NEW k \in Keys, StartCall(t, k) PROVE Proceeds(t)
  BY <1>1 DEF StartCall
<1>2. ASSUME NEW k \in Keys, StartInvalidate(t, k) PROVE Proceeds(t)
  BY <1>2 DEF StartInvalidate, past
<1>3. ASSUME NEW k \in Keys, StartProfile(t, k) PROVE Proceeds(t)
  BY <1>3 DEF StartProfile, past
<1>4. CASE StartClear(t)
  BY <1>4 DEF StartClear
<1> QED BY <1>1, <1>2, <1>3, <1>4 DEF Start

LEMMA CallTallies ==
    ASSUME NEW t \in Threads, CallStep(t), TallyInv
    PROVE  TallyMove(t)
<1> USE DEF TallyMove, Proceeds, Goto, Labels, InFlight, Undecided, Computing, past, TallyInv
<1>1. CASE EnterFlight(t)
  BY <1>1 DEF EnterFlight, AfterLock
<1>2. CASE Lookup(t)
  BY <1>2 DEF Lookup, AfterLookup
<1>3. CASE JudgeFast(t)
  BY <1>3 DEF JudgeFast, Hits
<1>4. CASE JudgeLocked(t)
  BY <1>4 DEF JudgeLocked, Hits
<1>5. CASE ClassifyPending(t)
  BY <1>5 DEF ClassifyPending
<1>6. CASE ClassifyStale(t)
  BY <1>6 DEF ClassifyStale
<1>7. CASE ClassifyAbsent(t)
  BY <1>7 DEF ClassifyAbsent, CountsMiss, Misses
<1>8. CASE RetryDelete(t)
  BY <1>8 DEF RetryDelete
<1>9. CASE MissInvalidated(t)
  BY <1>9 DEF MissInvalidated, CountsMiss, Misses
<1>10. CASE DeleteStale(t)
  BY <1>10 DEF DeleteStale
<1>11. CASE LabelStale(t)
  BY <1>11 DEF LabelStale, CountsMiss, Misses
<1>12. CASE RunReturns(t)
  BY <1>12 DEF RunReturns
<1>13. CASE RunRaises(t)
  BY <1>13 DEF RunRaises, Fails
<1>14. CASE Return(t)
  BY <1>14 DEF Return, Resets
<1> QED BY <1>1, <1>2, <1>3, <1>4, <1>5, <1>6, <1>7, <1>8, <1>9, <1>10, <1>11, <1>12,
           <1>13, <1>14 DEF CallStep

LEMMA CommitTallies ==
    ASSUME NEW t \in Threads, CommitStep(t), TallyInv
    PROVE  TallyMove(t)
<1> USE DEF TallyMove, Proceeds, Goto, Labels, InFlight, Undecided, Computing, past, TallyInv,
        Conclude, Outcomes
<1>1. CASE RecheckDeps(t)
  BY <1>1 DEF RecheckDeps, Ends
<1>2. CASE SkipUnsized(t)
  BY <1>2 DEF SkipUnsized, Ends
<1>3. CASE Write(t)
  BY <1>3 DEF Write
<1>4. CASE WriteFails(t)
  BY <1>4 DEF WriteFails, Ends
<1>5. CASE AdmitEntry(t)
  BY <1>5 DEF AdmitEntry
<1>6. CASE EvictDelete(t)
  BY <1>6 DEF EvictDelete
<1>7. CASE RememberEviction(t)
  BY <1>7 DEF RememberEviction
<1>8. CASE NoteEviction(t)
  BY <1>8 DEF NoteEviction
<1>9. CASE Settle(t)
  BY <1>9 DEF Settle
<1>10. CASE DrainDelete(t)
  <2>1. Goto(t, "drained") \/ Goto(t, "drain")
    BY <1>10 DEF DrainDelete
  <2> QED BY <1>10, <2>1 DEF DrainDelete
<1>11. CASE DrainForget(t)
  BY <1>11 DEF DrainForget
<1>12. CASE FinishCommit(t)
  BY <1>12 DEF FinishCommit, Ends
<1> QED BY <1>1, <1>2, <1>3, <1>4, <1>5, <1>6, <1>7, <1>8, <1>9, <1>10, <1>11, <1>12
        DEF CommitStep

LEMMA VerifyTallies ==
    ASSUME NEW t \in Threads, VerifyStep(t), TallyInv
    PROVE  TallyMove(t)
<1> USE DEF TallyMove, Proceeds, Goto, Labels, InFlight, Undecided, Computing, past, TallyInv
<1>1. CASE JudgeVerify(t)
  BY <1>1 DEF JudgeVerify
<1>2. CASE VerifyConfirms(t)
  BY <1>2 DEF VerifyConfirms, Hits
<1>3. CASE VerifyRefutes(t)
  BY <1>3 DEF VerifyRefutes, CountsMiss, Misses
<1>4. CASE DeleteRefuted(t)
  BY <1>4 DEF DeleteRefuted
<1>5. CASE ForgetRefuted(t)
  BY <1>5 DEF ForgetRefuted
<1>6. CASE WarningRaises(t)
  BY <1>6 DEF WarningRaises, Fails, Misses
<1> QED BY <1>1, <1>2, <1>3, <1>4, <1>5, <1>6 DEF VerifyStep

LEMMA ControlTallies ==
    ASSUME NEW t \in Threads, ControlStep(t), TallyInv
    PROVE  TallyMove(t)
<1> USE DEF TallyMove, Proceeds, Goto, Labels, InFlight, Undecided, Computing, past, TallyInv
<1>1. CASE InvalidateDelete(t)
  BY <1>1 DEF InvalidateDelete
<1>2. CASE InvalidateMark(t)
  BY <1>2 DEF InvalidateMark
<1>3. CASE InvalidateQuarantine(t)
  BY <1>3 DEF InvalidateQuarantine
<1>4. CASE InvalidateReturns(t)
  BY <1>4 DEF InvalidateReturns
<1>5. CASE ClearStore(t)
  BY <1>5 DEF ClearStore
<1>6. CASE ClearRaises(t)
  BY <1>6 DEF ClearRaises
<1>7. CASE ClearBudget(t)
  BY <1>7 DEF ClearBudget
<1>8. CASE ClearMarks(t)
  BY <1>8 DEF ClearMarks
<1>9. CASE ProfileLookup(t)
  BY <1>9 DEF ProfileLookup, ProfileEnds
<1>10. CASE ProfileWrite(t)
  BY <1>10 DEF ProfileWrite
<1>11. CASE ProfileWriteFails(t)
  BY <1>11 DEF ProfileWriteFails, ProfileEnds
<1>12. CASE ProfileDelete(t)
  BY <1>12 DEF ProfileDelete, ProfileEnds
<1>13. CASE ClearEntry(t)
  <2>1. Goto(t, "clear_store")
    BY <1>13 DEF ClearEntry
  <2> QED BY <1>13, <2>1 DEF ClearEntry
<1> QED BY <1>1, <1>2, <1>3, <1>4, <1>5, <1>6, <1>7, <1>8, <1>9, <1>10, <1>11, <1>12, <1>13
        DEF ControlStep

LEMMA StepKeepsTallies ==
    ASSUME TallyInv, [Next]_vars
    PROVE  TallyInv'
<1>1. ASSUME NEW t \in Threads, Start(t) \/ Step(t) PROVE TallyMove(t)
  BY <1>1, StartTallies, CallTallies, CommitTallies, VerifyTallies, ControlTallies
     DEF Step, TallyMove
<1>2. CASE UNCHANGED <<pc, booked>>
  BY <1>2 DEF TallyInv, BookedOK
<1>3. World => UNCHANGED <<pc, booked>>
  BY DEF World, cacheVars, past
<1>4. UNCHANGED vars => UNCHANGED <<pc, booked>>
  BY DEF vars, past
<1> QED BY <1>1, <1>2, <1>3, <1>4, MoveKeepsTallies DEF Next

(* stats(): however calls, invalidations, clears and failures interleave,  *)
(* a call that returns has been counted as one hit, or as one miss with    *)
(* one outcome.                                                            *)
THEOREM EveryCallIsBookedOnceHolds == Spec => []EveryCallIsBookedOnce
<1>1. Init => TallyInv
  BY DEF Init, TallyInv, BookedOK, Labels, InFlight, Undecided, Computing
<1>2. TallyInv => EveryCallIsBookedOnce
  BY DEF TallyInv, BookedOK, EveryCallIsBookedOnce
<1> QED BY <1>1, <1>2, StepKeepsTallies, PTL DEF Spec
=============================================================================
