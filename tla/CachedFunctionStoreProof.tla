---------------------- MODULE CachedFunctionStoreProof ----------------------
(***************************************************************************)
(* Proofs about CachedFunction that need what is in the store and in the   *)
(* budget, for any threads, keys, sizes and bounds.                        *)
(*                                                                         *)
(* Part 1: a call never returns an entry given up before the call began.   *)
(* Assumed: deletes do not fail where clear() or verify= is used.          *)
(* Otherwise it is false.  An invalidate() that fails between the first and*)
(* the last step of a clear() loses its quarantine to that last step; and a*)
(* refuted entry whose delete failed is served again.                      *)
(*                                                                         *)
(* Part 2: the registries are typed and capped, the budget is consistent   *)
(* and within its bound, whatever fails.                                   *)
(*                                                                         *)
(* Part 3: what the classification of a miss deletes is stale.  Assumed:   *)
(* profile() is not used, which writes without the lock of the key; deletes*)
(* do not fail where clear() is used, as in Part 1.                        *)
(*                                                                         *)
(* Part 4: at rest what is stored is within max_memory.  Assumed: no delete*)
(* fails, because the ledger of failed deletes is bounded, and clear() is  *)
(* not used, which resets the budget after a concurrent commit admitted.   *)
(***************************************************************************)
EXTENDS CachedFunctionProof, LRUBudgetProof

-----------------------------------------------------------------------------
(* Part 1.                                                                 *)

(* The labels of a thread that is not inside a call; those at which an     *)
(* entry has been chosen to be returned; those between the write of an     *)
(* entry and the end of its commit.                                        *)
NoCall ==
    {"idle", "invalidate_lock", "invalidate", "mark_invalidated", "quarantine",
     "forget_invalidated", "clear_store", "clear_budget", "clear_marks", "profile_lookup",
     "profile_write", "profile_delete"}
Chosen == {"served", "verify_run"}
Committing ==
    {"admit", "evict", "remember_eviction", "note_eviction", "settle", "drain", "drained"}

ClearLabels == {"clear_store", "clear_budget", "clear_marks"}
VerifyLabels == {"verify_lock", "verify_lookup", "verify_judge", "verify_run", "delete_refuted"}

(* Which labels and which quarantine the constants allow.                  *)
Allowed ==
    /\ MaxDeleteFaults = 0 => pending = {} /\ \A t \in Threads : pc[t] # "quarantine"
    /\ \A t \in Threads : pc[t] \in ClearLabels => "clear" \in Operations
    /\ \A t \in Threads : pc[t] \in VerifyLabels => TRUE \in VerifyCoin

(* Past this reading of the ratchet no call serves the entry again.        *)
Lapsed(e) == HasTTL /\ e.expires <= observed

(* Entries are numbered in the order they are written; a thread holds no   *)
(* entry that is newer than the one in the store.                          *)
KeyIsNumbered(k) ==
    /\ condemned[k] <= gen[k]
    /\ store[k] # NoEntry => 1 <= store[k].gen /\ store[k].gen <= gen[k]

ReadIsNumbered(t) ==
    /\ floor[t] <= condemned[key[t]]
    /\ got[t] # NoEntry => got[t].gen <= gen[key[t]]
    /\ (got[t] # NoEntry /\ store[key[t]] # NoEntry) =>
            got[t].gen < store[key[t]].gen \/ got[t] = store[key[t]]
    /\ pc[t] \in NoCall => got[t] = NoEntry /\ floor[t] = 0

(* An entry that has been given up is gone, quarantined or lapsed; one that*)
(* a call has read was read before that, or it has lapsed.                 *)
StoreSafe(k) ==
    store[k] # NoEntry => store[k].gen > condemned[k] \/ k \in pending \/ Lapsed(store[k])

ReadSafe(t) ==
    got[t] # NoEntry => got[t].gen > floor[t] \/ (Lapsed(got[t]) /\ pc[t] \notin Chosen)

(* What a commit wrote has not been given up when it lifts the quarantine. *)
CommitSafe(t) ==
    (pc[t] \in Committing /\ store[key[t]] # NoEntry) => store[key[t]].gen > condemned[key[t]]

(* What an operation will give up when it returns has already left the     *)
(* store, except where its delete is still to come or has failed.          *)
CutWaits(t, k) ==
    \/ pc[t] = "clear_store" /\ k \in sweep[t]
    \/ pc[t] \in {"delete_refuted", "quarantine"} /\ k = key[t]
    \/ pc[t] = "forget_invalidated" /\ k = key[t] /\ k \in pending

CutSafe(t, k) ==
    /\ cut[t][k] <= gen[k]
    /\ store[k] # NoEntry => store[k].gen > cut[t][k] \/ CutWaits(t, k)

(* The numbers of entries, reads, commits and cuts agree.                  *)
Numbered ==
    /\ \A k \in Keys : KeyIsNumbered(k)
    /\ \A t \in Threads : ReadIsNumbered(t) /\ CommitSafe(t)
    /\ \A t \in Threads, k \in Keys : CutSafe(t, k)

SafeInv ==
    /\ Numbered
    /\ \A k \in Keys : StoreSafe(k)
    /\ \A t \in Threads : ReadSafe(t)

CondInv == Allowed /\ SafeInv

-----------------------------------------------------------------------------
(* The types, as the arithmetic below needs them.                          *)
Readable ==
    /\ \A k \in Keys : gen[k] \in Nat /\ condemned[k] \in Nat
    /\ \A k \in Keys : store[k] # NoEntry => store[k].gen \in Nat /\ store[k].expires \in Nat
    /\ \A t \in Threads : key[t] \in Keys /\ floor[t] \in Nat
    /\ \A t \in Threads : got[t] # NoEntry => got[t].gen \in Nat /\ got[t].expires \in Nat
    /\ \A t \in Threads, k \in Keys : cut[t][k] \in Nat
    /\ observed \in Nat

LEMMA TypedIsReadable == FlightTypes /\ DataTypes => Readable
<1>1. \A e \in Entries : e.gen \in Nat /\ e.expires \in Nat
    BY DEF Entries
<1> QED BY <1>1 DEF FlightTypes, DataTypes, Readable

LEMMA NextIsReadable == (FlightTypes /\ DataTypes)' => Readable'
BY TypedIsReadable, PTL

(* The steps that give nothing up, read nothing and write nothing: they may*)
(* remove entries, advance the ratchet and choose an entry that is fresh.  *)
OthersStay(t) ==
    \A u \in Threads \ {t} :
        /\ pc'[u] = pc[u] /\ key'[u] = key[u] /\ got'[u] = got[u]
        /\ floor'[u] = floor[u] /\ cut'[u] = cut[u] /\ sweep'[u] = sweep[u]

Passes(t) ==
    /\ Erases /\ OthersStay(t)
    /\ UNCHANGED <<gen, got, condemned, cut, floor, key, pending>>
    /\ observed <= observed'
    /\ pc[t] \notin {"clear_store", "delete_refuted", "quarantine", "forget_invalidated"}
    /\ pc'[t] \in NoCall => pc[t] \in NoCall
    /\ pc'[t] \in Committing => pc[t] \in Committing
    /\ pc'[t] \in Chosen => pc[t] \in Chosen \/ (got[t] # NoEntry => ~ Lapsed(got[t]))

LEMMA PassKeepsNumbers ==
    ASSUME NEW t \in Threads, Passes(t), Readable, Readable', Numbered
    PROVE  Numbered'
<1> USE DEF Readable, OthersStay, Passes, Erases
<1>1. ASSUME NEW k \in Keys PROVE KeyIsNumbered(k)'
    BY DEF Numbered, KeyIsNumbered
<1>2. ASSUME NEW u \in Threads PROVE ReadIsNumbered(u)'
    BY DEF Numbered, ReadIsNumbered
<1>3. ASSUME NEW u \in Threads PROVE CommitSafe(u)'
    BY DEF Numbered, CommitSafe
<1>4. ASSUME NEW u \in Threads, NEW k \in Keys PROVE CutSafe(u, k)'
    BY DEF Numbered, CutSafe, CutWaits
<1> QED BY <1>1, <1>2, <1>3, <1>4 DEF Numbered

LEMMA PassKeepsSafe ==
    ASSUME NEW t \in Threads, Passes(t), Readable, Readable', SafeInv
    PROVE  SafeInv'
<1> USE DEF Readable, OthersStay, Passes, Erases
<1>0. Numbered'
    BY PassKeepsNumbers DEF SafeInv
<1>1. ASSUME NEW k \in Keys PROVE StoreSafe(k)'
    BY DEF SafeInv, StoreSafe, Lapsed
<1>2. ASSUME NEW u \in Threads PROVE ReadSafe(u)'
    BY DEF SafeInv, ReadSafe, Lapsed
<1> QED BY <1>0, <1>1, <1>2 DEF SafeInv

(* An operation starts.                                                    *)
Starts(t, k) ==
    /\ pc[t] = "idle" /\ pc'[t] \notin Chosen \union Committing \union ClearLabels
    /\ pc'[t] \notin {"delete_refuted", "quarantine", "forget_invalidated"}
    /\ key'[t] = k /\ floor'[t] \in {floor[t], condemned[k]}
    /\ pc'[t] \in NoCall => floor'[t] = floor[t]
    /\ OthersStay(t)
    /\ UNCHANGED <<store, gen, got, condemned, cut, pending, observed>>

LEMMA StartKeepsNumbers ==
    ASSUME NEW t \in Threads, NEW k \in Keys, Starts(t, k), Readable, Readable', Numbered
    PROVE  Numbered'
<1> USE DEF Readable, OthersStay, Starts
<1>0. "idle" \in NoCall
    BY DEF NoCall
<1>1. ASSUME NEW j \in Keys PROVE KeyIsNumbered(j)'
    BY DEF Numbered, KeyIsNumbered
<1>2. ASSUME NEW u \in Threads PROVE ReadIsNumbered(u)'
    BY <1>0 DEF Numbered, ReadIsNumbered, KeyIsNumbered
<1>3. ASSUME NEW u \in Threads PROVE CommitSafe(u)'
    BY DEF Numbered, CommitSafe
<1>4. ASSUME NEW u \in Threads, NEW j \in Keys PROVE CutSafe(u, j)'
    BY DEF Numbered, CutSafe, CutWaits, ClearLabels
<1> QED BY <1>1, <1>2, <1>3, <1>4 DEF Numbered

LEMMA StartKeepsSafe ==
    ASSUME NEW t \in Threads, NEW k \in Keys, Starts(t, k), Readable, Readable', SafeInv
    PROVE  SafeInv'
<1> USE DEF Readable, OthersStay, Starts
<1>0. "idle" \in NoCall /\ Numbered'
    BY StartKeepsNumbers DEF NoCall, SafeInv
<1>1. ASSUME NEW j \in Keys PROVE StoreSafe(j)'
    BY DEF SafeInv, StoreSafe, Lapsed
<1>2. ASSUME NEW u \in Threads PROVE ReadSafe(u)'
    BY <1>0 DEF SafeInv, Numbered, ReadIsNumbered, ReadSafe, Lapsed
<1> QED BY <1>0, <1>1, <1>2 DEF SafeInv

(* clear() starts: it will give up every entry written so far.             *)
LEMMA StartClearKeepsNumbers ==
    ASSUME NEW t \in Threads, StartClear(t), FlightTypes, DataTypes, Readable, Numbered
    PROVE  Numbered'
<1>1. /\ UNCHANGED <<store, gen, got, condemned, floor, key, pending, observed>>
      /\ \A u \in Threads \ {t} : pc'[u] = pc[u] /\ cut'[u] = cut[u] /\ sweep'[u] = sweep[u]
      /\ pc[t] = "idle" /\ pc'[t] = "clear_store" /\ cut'[t] = gen /\ sweep'[t] = Present
    BY DEF StartClear, FlightTypes, DataTypes, Goto, locals, marks
<1>2. ASSUME NEW k \in Keys PROVE KeyIsNumbered(k)'
    BY <1>1 DEF Numbered, KeyIsNumbered
<1>3. ASSUME NEW u \in Threads PROVE (ReadIsNumbered(u) /\ CommitSafe(u))'
    BY <1>1 DEF Numbered, ReadIsNumbered, CommitSafe, NoCall, Committing
<1>4. ASSUME NEW u \in Threads, NEW k \in Keys PROVE CutSafe(u, k)'
    BY <1>1 DEF Numbered, CutSafe, CutWaits, Readable, Present
<1> QED BY <1>2, <1>3, <1>4 DEF Numbered

LEMMA StartClearKeepsSafe ==
    ASSUME NEW t \in Threads, StartClear(t), FlightTypes, DataTypes, Readable, SafeInv
    PROVE  SafeInv'
<1>1. /\ UNCHANGED <<store, gen, got, condemned, floor, key, pending, observed>>
      /\ \A u \in Threads \ {t} : pc'[u] = pc[u] /\ cut'[u] = cut[u] /\ sweep'[u] = sweep[u]
      /\ pc[t] = "idle" /\ pc'[t] = "clear_store" /\ cut'[t] = gen /\ sweep'[t] = Present
    BY DEF StartClear, FlightTypes, DataTypes, Goto, locals, marks
<1>2. Numbered'
    BY StartClearKeepsNumbers DEF SafeInv
<1>3. ASSUME NEW k \in Keys PROVE StoreSafe(k)'
    BY <1>1 DEF SafeInv, StoreSafe, Lapsed
<1>4. ASSUME NEW u \in Threads PROVE ReadSafe(u)'
    BY <1>1 DEF SafeInv, ReadSafe, Lapsed, Chosen
<1> QED BY <1>2, <1>3, <1>4 DEF SafeInv

(* A call reads the entry of its key, unless the key is quarantined.       *)
Reads(t) ==
    /\ got'[t] = NoEntry \/ (key[t] \notin pending /\ got'[t] = store[key[t]])
    /\ pc[t] \notin NoCall /\ pc'[t] \notin NoCall \union Chosen \union Committing
    /\ pc[t] # "delete_refuted" /\ pc'[t] # "delete_refuted"
    /\ OthersStay(t)
    /\ UNCHANGED <<store, gen, condemned, cut, floor, key, pending, observed>>

LEMMA ReadKeepsNumbers ==
    ASSUME NEW t \in Threads, Reads(t), Readable, Readable', Numbered
    PROVE  Numbered'
<1> USE DEF Readable, OthersStay, Reads
<1>1. ASSUME NEW k \in Keys PROVE KeyIsNumbered(k)'
    BY DEF Numbered, KeyIsNumbered
<1>2. ASSUME NEW u \in Threads PROVE ReadIsNumbered(u)'
    BY DEF Numbered, ReadIsNumbered, KeyIsNumbered
<1>3. ASSUME NEW u \in Threads PROVE CommitSafe(u)'
    BY DEF Numbered, CommitSafe
<1>4. ASSUME NEW u \in Threads, NEW k \in Keys PROVE CutSafe(u, k)'
    BY DEF Numbered, CutSafe, CutWaits, NoCall
<1> QED BY <1>1, <1>2, <1>3, <1>4 DEF Numbered

LEMMA ReadKeepsSafe ==
    ASSUME NEW t \in Threads, Reads(t), Readable, Readable', SafeInv
    PROVE  SafeInv'
<1> USE DEF Readable, OthersStay, Reads
<1>0. Numbered'
    BY ReadKeepsNumbers DEF SafeInv
<1>1. ASSUME NEW k \in Keys PROVE StoreSafe(k)'
    BY DEF SafeInv, StoreSafe, Lapsed
<1>2. ASSUME NEW u \in Threads PROVE ReadSafe(u)'
    BY DEF SafeInv, Numbered, ReadIsNumbered, ReadSafe, StoreSafe, Lapsed
<1> QED BY <1>0, <1>1, <1>2 DEF SafeInv

(* An entry is written: it is newer than anything given up or about to be. *)
Puts(t) ==
    /\ store'[key[t]] # NoEntry /\ store'[key[t]].gen = gen[key[t]] + 1
    /\ gen'[key[t]] = gen[key[t]] + 1
    /\ \A k \in Keys \ {key[t]} : store'[k] = store[k] /\ gen'[k] = gen[k]
    /\ pc[t] \notin {"clear_store", "delete_refuted", "quarantine", "forget_invalidated"}
    /\ pc'[t] \in NoCall => pc[t] \in NoCall
    /\ pc'[t] \notin Chosen
    /\ OthersStay(t) /\ observed <= observed'
    /\ UNCHANGED <<got, condemned, cut, floor, key, pending>>

LEMMA PutKeepsNumbers ==
    ASSUME NEW t \in Threads, Puts(t), Readable, Readable', Numbered
    PROVE  Numbered'
<1> USE DEF Readable, OthersStay, Puts
<1>1. ASSUME NEW k \in Keys PROVE KeyIsNumbered(k)'
    BY DEF Numbered, KeyIsNumbered
<1>2. ASSUME NEW u \in Threads PROVE ReadIsNumbered(u)'
    BY DEF Numbered, ReadIsNumbered
<1>3. ASSUME NEW u \in Threads PROVE CommitSafe(u)'
    BY DEF Numbered, CommitSafe, KeyIsNumbered
<1>4. ASSUME NEW u \in Threads, NEW k \in Keys PROVE CutSafe(u, k)'
    BY DEF Numbered, CutSafe, CutWaits
<1> QED BY <1>1, <1>2, <1>3, <1>4 DEF Numbered

LEMMA PutKeepsSafe ==
    ASSUME NEW t \in Threads, Puts(t), Readable, Readable', SafeInv
    PROVE  SafeInv'
<1> USE DEF Readable, OthersStay, Puts
<1>0. Numbered'
    BY PutKeepsNumbers DEF SafeInv
<1>1. ASSUME NEW k \in Keys PROVE StoreSafe(k)'
    BY DEF SafeInv, Numbered, KeyIsNumbered, StoreSafe, Lapsed
<1>2. ASSUME NEW u \in Threads PROVE ReadSafe(u)'
    BY DEF SafeInv, ReadSafe, Lapsed
<1> QED BY <1>0, <1>1, <1>2 DEF SafeInv

(* The quarantine of a key is lifted by the thread in its flight, once its *)
(* entry is gone or is the one that was just committed.                    *)
Lifts(t) ==
    /\ store'[key[t]] \in {NoEntry, store[key[t]]}
    /\ store'[key[t]] = NoEntry \/ pc[t] \in Committing
    /\ \A k \in Keys \ {key[t]} : store'[k] = store[k]
    /\ pending' = pending \ {key[t]}
    /\ pc[t] \in InFlight \ NoCall /\ pc'[t] \notin NoCall \union Chosen \union Committing
    /\ pc[t] # "delete_refuted" /\ pc'[t] # "delete_refuted"
    /\ OthersStay(t)
    /\ UNCHANGED <<gen, got, condemned, cut, floor, key, observed>>

LEMMA LiftKeepsNumbers ==
    ASSUME NEW t \in Threads, Lifts(t), Readable, Readable', Numbered, FlightInv
    PROVE  Numbered'
<1> USE DEF Readable, OthersStay, Lifts
<1>0. \A u \in Threads \ {t} : key[u] = key[t] => pc[u] \notin InFlight
    BY DEF FlightInv, FlightTypes, HolderIsInFlight
<1>1. ASSUME NEW k \in Keys PROVE KeyIsNumbered(k)'
    BY DEF Numbered, KeyIsNumbered
<1>2. ASSUME NEW u \in Threads PROVE ReadIsNumbered(u)'
    BY DEF Numbered, ReadIsNumbered
<1>3. ASSUME NEW u \in Threads PROVE CommitSafe(u)'
    BY DEF Numbered, CommitSafe
<1>4. ASSUME NEW u \in Threads, NEW k \in Keys PROVE CutSafe(u, k)'
    BY <1>0 DEF Numbered, CutSafe, CutWaits, NoCall, InFlight
<1> QED BY <1>1, <1>2, <1>3, <1>4 DEF Numbered

LEMMA LiftKeepsSafe ==
    ASSUME NEW t \in Threads, Lifts(t), Readable, Readable', SafeInv, FlightInv
    PROVE  SafeInv'
<1> USE DEF Readable, OthersStay, Lifts
<1>0. Numbered'
    BY LiftKeepsNumbers DEF SafeInv
<1>1. ASSUME NEW k \in Keys PROVE StoreSafe(k)'
    BY DEF SafeInv, Numbered, StoreSafe, CommitSafe, Lapsed
<1>2. ASSUME NEW u \in Threads PROVE ReadSafe(u)'
    BY DEF SafeInv, ReadSafe, Lapsed
<1> QED BY <1>0, <1>1, <1>2 DEF SafeInv

(* A call counts the entry it has read as expired: it gives it up.         *)
LEMMA LabelStaleGivesUp ==
    ASSUME NEW t \in Threads, LabelStale(t), FlightInv, TypeInv, Readable
    PROVE  /\ UNCHANGED <<store, gen, got, floor, cut, key, pending>>
           /\ \A u \in Threads \ {t} : pc'[u] = pc[u] /\ sweep'[u] = sweep[u]
           /\ pc[t] = "label_stale" /\ pc'[t] = "run"
           /\ \A k \in Keys \ {key[t]} : condemned'[k] = condemned[k]
           /\ got[t] # NoEntry /\ observed <= observed'
           /\ \/ condemned'[key[t]] = condemned[key[t]]
              \/ Lapsed(got[t])' /\ condemned'[key[t]] = Later(condemned[key[t]], got[t].gen)
<1>1. /\ UNCHANGED <<store, gen, got, floor, cut, key, pending>>
      /\ \A u \in Threads \ {t} : pc'[u] = pc[u] /\ sweep'[u] = sweep[u]
      /\ pc[t] = "label_stale" /\ pc'[t] = "run"
      /\ \A k \in Keys \ {key[t]} : condemned'[k] = condemned[k]
    BY DEF LabelStale, Condemn, FlightInv, FlightTypes, TypeInv, DataTypes, Goto, locals, marks
<1>2. got[t] # NoEntry /\ observed <= observed'
  <2>1. got[t] # NoEntry
      BY <1>1 DEF TypeInv, HoldsEntry, Held
  <2>2. observed' = Later(observed, clock)
      BY DEF LabelStale, Now
  <2>3. observed \in Nat /\ clock \in Nat
      BY DEF TypeInv, DataTypes
  <2> QED BY <2>1, <2>2, <2>3 DEF Later
<1>3. \/ condemned'[key[t]] = condemned[key[t]]
      \/ Lapsed(got[t])' /\ condemned'[key[t]] = Later(condemned[key[t]], got[t].gen)
  <2>1. CASE Expired(got[t], Now(clock))
    <3>1. condemned'[key[t]] = Later(condemned[key[t]], got[t].gen)
        BY <2>1 DEF LabelStale, Condemn, FlightInv, FlightTypes, TypeInv, DataTypes
    <3>2. Lapsed(got[t])'
        BY <1>1, <2>1 DEF LabelStale, Expired, Lapsed
    <3> QED BY <3>1, <3>2
  <2>2. CASE ~ Expired(got[t], Now(clock))
    BY <2>2 DEF LabelStale
  <2> QED BY <2>1, <2>2
<1> QED BY <1>1, <1>2, <1>3

LEMMA LabelStaleKeepsNumbers ==
    ASSUME NEW t \in Threads, LabelStale(t), FlightInv, TypeInv, Readable, Readable', Numbered
    PROVE  Numbered'
<1>1. \A u \in Threads \ {t} : key[u] = key[t] => pc[u] \notin InFlight
    BY LabelStaleGivesUp DEF FlightInv, FlightTypes, HolderIsInFlight, InFlight
<1> USE DEF Readable
<1>2. ASSUME NEW k \in Keys PROVE KeyIsNumbered(k)'
    BY LabelStaleGivesUp DEF Numbered, KeyIsNumbered, ReadIsNumbered, Later
<1>3. ASSUME NEW u \in Threads PROVE ReadIsNumbered(u)'
    BY LabelStaleGivesUp DEF Numbered, ReadIsNumbered, Later, NoCall
<1>4. ASSUME NEW u \in Threads PROVE CommitSafe(u)'
    BY LabelStaleGivesUp, <1>1 DEF Numbered, CommitSafe, Committing, InFlight
<1>5. ASSUME NEW u \in Threads, NEW k \in Keys PROVE CutSafe(u, k)'
    BY LabelStaleGivesUp DEF Numbered, CutSafe, CutWaits
<1> QED BY <1>2, <1>3, <1>4, <1>5 DEF Numbered

LEMMA LabelStaleKeepsSafe ==
    ASSUME NEW t \in Threads, LabelStale(t), FlightInv, TypeInv, Readable, Readable', SafeInv
    PROVE  SafeInv'
<1>1. Numbered'
    BY LabelStaleKeepsNumbers DEF SafeInv
<1> USE DEF Readable
<1>2. ASSUME NEW k \in Keys PROVE StoreSafe(k)'
  <2>1. CASE k # key[t]
    BY LabelStaleGivesUp, <2>1 DEF SafeInv, StoreSafe, Lapsed
  <2>2. CASE k = key[t]
    BY LabelStaleGivesUp, <2>2
    DEF SafeInv, Numbered, StoreSafe, ReadIsNumbered, Lapsed, Later
  <2> QED BY <2>1, <2>2
<1>3. ASSUME NEW u \in Threads PROVE ReadSafe(u)'
    BY LabelStaleGivesUp DEF SafeInv, ReadSafe, Lapsed, Chosen
<1> QED BY <1>1, <1>2, <1>3 DEF SafeInv

(* An operation returns, and what it cut is given up; the wrapper drops its*)
(* locals.                                                                 *)
Returns(t) ==
    /\ \A k \in Keys :
        /\ condemned'[k] \in {condemned[k], Later(condemned[k], cut[t][k])}
        /\ condemned'[k] # condemned[k] => ~ CutWaits(t, k) \/ k \in pending
        /\ cut'[t][k] \in {cut[t][k], 0}
        /\ CutWaits(t, k) => cut'[t][k] = 0
    /\ pc'[t] = "idle" /\ pc[t] \notin Committing
    /\ pc[t] = "clear_store" => UNCHANGED condemned
    /\ \/ pc[t] \in NoCall /\ UNCHANGED <<got, floor>>
       \/ got'[t] = NoEntry /\ floor'[t] = 0
    /\ \A u \in Threads \ {t} : key[u] = key[t] => ~ (pc[t] \in InFlight /\ pc[u] \in InFlight)
    /\ \A u \in Threads \ {t} :
        /\ pc'[u] = pc[u] /\ got'[u] = got[u] /\ floor'[u] = floor[u] /\ cut'[u] = cut[u]
        /\ sweep'[u] = sweep[u]
    /\ UNCHANGED <<store, gen, key, pending, observed>>

LEMMA ReturnKeepsNumbers ==
    ASSUME NEW t \in Threads, Returns(t), Readable, Readable', Numbered
    PROVE  Numbered'
<1> USE DEF Readable, Returns
<1>1. ASSUME NEW k \in Keys PROVE KeyIsNumbered(k)'
    BY DEF Numbered, KeyIsNumbered, CutSafe, Later
<1>2. ASSUME NEW u \in Threads PROVE ReadIsNumbered(u)'
  <2>1. floor'[u] <= condemned'[key[u]]
    BY DEF Numbered, ReadIsNumbered, Later
  <2> QED BY <2>1 DEF Numbered, ReadIsNumbered
<1>3. ASSUME NEW u \in Threads PROVE CommitSafe(u)'
  <2>1. CASE u = t
    BY <2>1 DEF CommitSafe, Committing
  <2>2. CASE u # t /\ pc[u] \in Committing /\ store[key[u]] # NoEntry
    <3>1. store[key[u]].gen > condemned[key[u]]
        BY <2>2 DEF Numbered, CommitSafe
    <3>2. store[key[u]].gen > cut[t][key[u]] \/ CutWaits(t, key[u])
        BY <2>2 DEF Numbered, CutSafe
    <3>3. CutWaits(t, key[u]) => pc[t] = "clear_store"
        BY <2>2 DEF CutWaits, InFlight, Committing
    <3> QED BY <2>2, <3>1, <3>2, <3>3 DEF CommitSafe, Later, CutWaits
  <2> QED BY <2>1, <2>2 DEF CommitSafe
<1>4. ASSUME NEW u \in Threads, NEW k \in Keys PROVE CutSafe(u, k)'
    BY DEF Numbered, CutSafe, CutWaits, KeyIsNumbered
<1> QED BY <1>1, <1>2, <1>3, <1>4 DEF Numbered

LEMMA ReturnKeepsSafe ==
    ASSUME NEW t \in Threads, Returns(t), Readable, Readable', SafeInv
    PROVE  SafeInv'
<1> USE DEF Readable, Returns
<1>1. Numbered'
    BY ReturnKeepsNumbers DEF SafeInv
<1>2. ASSUME NEW k \in Keys PROVE StoreSafe(k)'
    BY DEF SafeInv, Numbered, StoreSafe, CutSafe, Later, Lapsed
<1>3. ASSUME NEW u \in Threads PROVE ReadSafe(u)'
    BY DEF SafeInv, ReadSafe, Lapsed, Chosen
<1> QED BY <1>1, <1>2, <1>3 DEF SafeInv

(* Entries that are to be given up leave the store, or their key goes into *)
(* the quarantine.                                                         *)
Cuts(t) ==
    /\ Erases
    /\ \A k \in Keys :
        /\ cut'[t][k] <= gen[k]
        /\ store'[k] # NoEntry => store'[k].gen > cut'[t][k] \/ CutWaits(t, k)'
    /\ pending \subseteq pending'
    /\ pc[t] \in NoCall <=> pc'[t] \in NoCall
    /\ pc'[t] \notin Chosen \union Committing
    /\ \A u \in Threads \ {t} : pc'[u] = pc[u] /\ cut'[u] = cut[u] /\ sweep'[u] = sweep[u]
    /\ UNCHANGED <<gen, got, condemned, floor, key, observed>>

LEMMA CutKeepsNumbers ==
    ASSUME NEW t \in Threads, Cuts(t), Readable, Readable', Numbered
    PROVE  Numbered'
<1> USE DEF Readable, Cuts, Erases
<1>1. ASSUME NEW k \in Keys PROVE KeyIsNumbered(k)'
    BY DEF Numbered, KeyIsNumbered
<1>2. ASSUME NEW u \in Threads PROVE ReadIsNumbered(u)'
    BY DEF Numbered, ReadIsNumbered
<1>3. ASSUME NEW u \in Threads PROVE CommitSafe(u)'
    BY DEF Numbered, CommitSafe
<1>4. ASSUME NEW u \in Threads, NEW k \in Keys PROVE CutSafe(u, k)'
    BY DEF Numbered, CutSafe, CutWaits
<1> QED BY <1>1, <1>2, <1>3, <1>4 DEF Numbered

LEMMA CutKeepsSafe ==
    ASSUME NEW t \in Threads, Cuts(t), Readable, Readable', SafeInv
    PROVE  SafeInv'
<1> USE DEF Readable, Cuts, Erases
<1>0. Numbered'
    BY CutKeepsNumbers DEF SafeInv
<1>1. ASSUME NEW k \in Keys PROVE StoreSafe(k)'
    BY DEF SafeInv, StoreSafe, Lapsed
<1>2. ASSUME NEW u \in Threads PROVE ReadSafe(u)'
    BY DEF SafeInv, ReadSafe, Lapsed
<1> QED BY <1>0, <1>1, <1>2 DEF SafeInv

-----------------------------------------------------------------------------
(* Every step of a thread is one of these moves.                           *)
SafeMove(t) ==
    \/ Passes(t) \/ (\E k \in Keys : Starts(t, k)) \/ StartClear(t) \/ Reads(t) \/ Puts(t)
    \/ Lifts(t) \/ LabelStale(t) \/ Returns(t) \/ Cuts(t)

(* Deletes do not fail where clear() or verify= is used.                   *)
SafelyFaulty ==
    ("clear" \in Operations \/ TRUE \in VerifyCoin) => MaxDeleteFaults = 0

LEMMA FreshHasNotLapsed ==
    ASSUME NEW t \in Threads, Readable, clock \in Nat, Fresh(t)
    PROVE  got[t] # NoEntry /\ ~ Lapsed(got[t])
BY DEF Readable, Fresh, Serves, Expired, Lapsed, Now, Later

LEMMA DatedAdvances ==
    ASSUME NEW t \in Threads, observed \in Nat, clock \in Nat, Dated(t)
    PROVE  observed <= observed'
BY DEF Dated, Now, Later

LEMMA StartMovesSafely ==
    ASSUME NEW t \in Threads, Start(t), FlightTypes, DataTypes
    PROVE  SafeMove(t)
<1> USE DEF FlightTypes, DataTypes, Goto, NoCall, Chosen, Committing, ClearLabels, marks,
            Starts, OthersStay
<1>1. ASSUME NEW k \in Keys, StartCall(t, k) PROVE Starts(t, k)
    BY <1>1 DEF StartCall
<1>2. ASSUME NEW k \in Keys, StartInvalidate(t, k) PROVE Starts(t, k)
    BY <1>2 DEF StartInvalidate, past, history
<1>3. ASSUME NEW k \in Keys, StartProfile(t, k) PROVE Starts(t, k)
    BY <1>3 DEF StartProfile, past, history
<1> QED BY <1>1, <1>2, <1>3 DEF Start, SafeMove

LEMMA CallMovesSafely ==
    ASSUME NEW t \in Threads, CallStep(t), FlightTypes, DataTypes, Readable
    PROVE  SafeMove(t)
<1> USE DEF FlightTypes, DataTypes, Goto, NoCall, Chosen, Committing, marks, OthersStay,
            Erases, SafeMove
<1>0. observed <= Now(clock) /\ observed <= observed
    BY DEF Now, Later
<1>1. CASE EnterFlight(t)
    BY <1>1, <1>0 DEF EnterFlight, AfterLock, Passes, locals, past, history
<1>2. CASE Lookup(t)
    BY <1>2 DEF Lookup, AfterLookup, Reads, past, history
<1>3. CASE JudgeFast(t)
    BY <1>3, DatedAdvances, FreshHasNotLapsed DEF JudgeFast, Passes, locals, history
<1>4. CASE JudgeLocked(t)
    BY <1>4, DatedAdvances, FreshHasNotLapsed DEF JudgeLocked, Passes, locals, history
<1>5. CASE ClassifyPending(t)
    BY <1>5, <1>0 DEF ClassifyPending, Passes, locals, past, history
<1>6. CASE ClassifyStale(t)
    BY <1>6 DEF ClassifyStale, Reads, past, history
<1>7. CASE ClassifyAbsent(t)
    BY <1>7, <1>0 DEF ClassifyAbsent, Passes, locals, history
<1>8. CASE RetryDelete(t)
  <2>1. CASE Deleted(key[t]) /\ pending' = pending \ {key[t]}
    BY <1>8, <2>1 DEF RetryDelete, Deleted, Lifts, InFlight, locals, past, history
  <2>2. CASE DeleteRaises(key[t]) /\ UNCHANGED pending
    BY <1>8, <1>0, <2>2 DEF RetryDelete, DeleteRaises, Passes, locals, past, history
  <2> QED BY <1>8, <2>1, <2>2 DEF RetryDelete
<1>9. CASE MissInvalidated(t)
    BY <1>9, <1>0 DEF MissInvalidated, Passes, locals, history
<1>10. CASE DeleteStale(t)
    BY <1>10, <1>0 DEF DeleteStale, DeleteTried, Deleted, DeleteRaises, Passes, locals, past,
        history
<1>11. CASE LabelStale(t)
    BY <1>11
<1>12. CASE RunReturns(t)
    BY <1>12, <1>0 DEF RunReturns, Passes, past, history
<1>13. CASE RunRaises(t)
    BY <1>13, <1>0 DEF RunRaises, Passes, locals, past, history
<1>14. CASE Return(t)
    BY <1>14 DEF Return, Condemn, Returns, CutWaits, InFlight
<1> QED BY <1>1, <1>2, <1>3, <1>4, <1>5, <1>6, <1>7, <1>8, <1>9, <1>10, <1>11, <1>12, <1>13,
           <1>14
        DEF CallStep

LEMMA CommitMovesSafely ==
    ASSUME NEW t \in Threads, CommitStep(t), FlightTypes, DataTypes
    PROVE  SafeMove(t)
<1> USE DEF FlightTypes, DataTypes, Goto, NoCall, Chosen, Committing, marks, OthersStay,
            Erases, SafeMove
<1>0. observed <= Now(clock) /\ observed <= observed
    BY DEF Now, Later
<1>1. CASE RecheckDeps(t)
    BY <1>1, <1>0 DEF RecheckDeps, Conclude, Passes, locals, history
<1>2. CASE SkipUnsized(t)
    BY <1>2, <1>0 DEF SkipUnsized, Conclude, Passes, locals, history
<1>3. CASE Write(t)
  <2>1. PICK n \in Storable :
            StorePut(key[t], EntryOf(key[t], val[t], snap[t], Now(clock), n))
    BY <1>3 DEF Write
  <2>2. /\ store' = [store EXCEPT ![key[t]] = EntryOf(key[t], val[t], snap[t], Now(clock), n)]
        /\ gen' = [gen EXCEPT ![key[t]] = gen[key[t]] + 1]
    BY <2>1 DEF StorePut
  <2>3. EntryOf(key[t], val[t], snap[t], Now(clock), n).gen = gen[key[t]] + 1
    BY DEF EntryOf
  <2>4. EntryOf(key[t], val[t], snap[t], Now(clock), n) # NoEntry
    BY EntryIsTyped, SizesAreInts, NoEntryAssumption DEF Now, Later
  <2> QED BY <1>3, <1>0, <2>2, <2>3, <2>4 DEF Write, Puts
<1>4. CASE WriteFails(t)
    BY <1>4, <1>0 DEF WriteFails, Conclude, Passes, locals, history
<1>5. CASE AdmitEntry(t)
    BY <1>5, <1>0 DEF AdmitEntry, Passes, past, history
<1>6. CASE EvictDelete(t)
    BY <1>6, <1>0 DEF EvictDelete, Deleted, DeleteRaises, Passes, locals, past, history
<1>7. CASE RememberEviction(t)
    BY <1>7, <1>0 DEF RememberEviction, Passes, locals, past, history
<1>8. CASE NoteEviction(t)
    BY <1>8, <1>0 DEF NoteEviction, Passes, past, history
<1>9. CASE Settle(t)
    BY <1>9, <1>0 DEF Settle, Passes, past, history
<1>10. CASE DrainDelete(t)
    BY <1>10, <1>0 DEF DrainDelete, Deleted, DeleteRaises, Passes, past, history
<1>11. CASE DrainForget(t)
    BY <1>11, <1>0 DEF DrainForget, Passes, past, history
<1>12. CASE FinishCommit(t)
    BY <1>12 DEF FinishCommit, Conclude, Lifts, InFlight, locals, history
<1> QED BY <1>1, <1>2, <1>3, <1>4, <1>5, <1>6, <1>7, <1>8, <1>9, <1>10, <1>11, <1>12
        DEF CommitStep

LEMMA VerifyMovesSafely ==
    ASSUME NEW t \in Threads, VerifyStep(t), FlightTypes, TypeInv, Readable, Numbered,
           pc[t] = "delete_refuted" => MaxDeleteFaults = 0
    PROVE  SafeMove(t)
<1> USE DEF FlightTypes, TypeInv, DataTypes, Goto, NoCall, Chosen, Committing, marks,
            OthersStay, Erases, SafeMove
<1>0. observed <= Now(clock) /\ observed <= observed
    BY DEF Now, Later
<1>1. CASE JudgeVerify(t)
    BY <1>1, DatedAdvances, FreshHasNotLapsed DEF JudgeVerify, Passes, locals, past, history
<1>2. CASE VerifyConfirms(t)
    BY <1>2, <1>0 DEF VerifyConfirms, Passes, locals, history
<1>3. CASE VerifyRefutes(t)
  <2>1. got[t] # NoEntry
    BY <1>3 DEF VerifyRefutes, HoldsEntry, Held
  <2>2. /\ UNCHANGED <<store, gen, got, condemned, floor, key, pending, observed>>
        /\ \A u \in Threads \ {t} : pc'[u] = pc[u] /\ cut'[u] = cut[u] /\ sweep'[u] = sweep[u]
        /\ pc[t] = "verify_run" /\ pc'[t] = "delete_refuted"
        /\ cut'[t][key[t]] = got[t].gen
        /\ \A k \in Keys \ {key[t]} : cut'[t][k] = cut[t][k]
    BY <1>3 DEF VerifyRefutes
  <2>3. \A k \in Keys : cut'[t][k] <= gen[k]
    BY <2>1, <2>2 DEF Numbered, ReadIsNumbered, CutSafe
  <2>4. \A k \in Keys : store[k] # NoEntry => store[k].gen > cut'[t][k] \/ CutWaits(t, k)'
    BY <2>2 DEF Numbered, CutSafe, CutWaits
  <2> QED BY <2>2, <2>3, <2>4 DEF Cuts
<1>4. CASE DeleteRefuted(t)
  <2>1. ~ DeleteRaises(key[t])
    BY <1>4 DEF DeleteRefuted, DeleteRaises
  <2>2. /\ UNCHANGED <<gen, got, condemned, floor, cut, key, pending, observed>>
        /\ \A u \in Threads \ {t} : pc'[u] = pc[u] /\ sweep'[u] = sweep[u]
        /\ pc[t] = "delete_refuted" /\ pc'[t] = "forget_refuted"
        /\ store' = [store EXCEPT ![key[t]] = NoEntry]
    BY <1>4, <2>1 DEF DeleteRefuted, DeleteTried, Deleted, locals, past, history
  <2>3. \A k \in Keys :
            /\ cut'[t][k] <= gen[k]
            /\ store'[k] # NoEntry => store'[k].gen > cut'[t][k] \/ CutWaits(t, k)'
    BY <2>2 DEF Numbered, CutSafe, CutWaits
  <2> QED BY <2>2, <2>3 DEF Cuts
<1>5. CASE ForgetRefuted(t)
    BY <1>5, <1>0 DEF ForgetRefuted, Passes, locals, past, history
<1>6. CASE WarningRaises(t)
    BY <1>6, <1>0 DEF WarningRaises, Passes, locals, history
<1> QED BY <1>1, <1>2, <1>3, <1>4, <1>5, <1>6 DEF VerifyStep

LEMMA ControlMovesSafely ==
    ASSUME NEW t \in Threads, ControlStep(t), FlightInv, DataTypes, Readable, Numbered,
           ClearMarks(t) => pending = {}
    PROVE  SafeMove(t)
<1> USE DEF FlightInv, FlightTypes, DataTypes, Goto, NoCall, Chosen, Committing, marks,
            OthersStay, Erases, SafeMove
<1>0. observed <= Now(clock) /\ observed <= observed
    BY DEF Now, Later
<1>1. CASE InvalidateDelete(t)
  <2>0. /\ pc[t] = "invalidate"
        /\ \/ Deleted(key[t]) /\ Goto(t, "mark_invalidated")
           \/ DeleteRaises(key[t]) /\ Goto(t, "quarantine")
        /\ cut' = [cut EXCEPT ![t][key[t]] = gen[key[t]]]
        /\ UNCHANGED <<gen, got, condemned, floor, key, sweep, pending, observed>>
    BY <1>1 DEF InvalidateDelete, locals, marks
  <2>1. /\ UNCHANGED <<gen, got, condemned, floor, key, sweep, pending, observed>>
        /\ \A u \in Threads \ {t} : pc'[u] = pc[u] /\ cut'[u] = cut[u]
        /\ cut'[t][key[t]] = gen[key[t]]
        /\ \A k \in Keys \ {key[t]} : cut'[t][k] = cut[t][k] /\ store'[k] = store[k]
        /\ pc[t] = "invalidate" /\ pc'[t] \in {"mark_invalidated", "quarantine"}
        /\ \/ store'[key[t]] = NoEntry
           \/ pc'[t] = "quarantine" /\ store'[key[t]] = store[key[t]]
    BY <2>0 DEF Deleted, DeleteRaises
  <2>2. key[t] \in Keys /\ \A k \in Keys : cut[t][k] <= gen[k] /\ gen[k] <= gen[k]
    BY DEF Numbered, CutSafe, Readable
  <2>3. \A k \in Keys : cut'[t][k] <= gen[k]
    BY ONLY <2>1, <2>2
  <2>4. \A k \in Keys : store'[k] # NoEntry => store'[k].gen > cut'[t][k] \/ CutWaits(t, k)'
    BY <2>1 DEF Numbered, CutSafe, CutWaits
  <2> QED BY <2>1, <2>3, <2>4 DEF Cuts
<1>2. CASE InvalidateMark(t)
    BY <1>2, <1>0 DEF InvalidateMark, Passes, locals, past, history
<1>3. CASE InvalidateQuarantine(t)
  <2>1. /\ UNCHANGED <<store, gen, got, condemned, floor, cut, key, sweep, observed>>
        /\ \A u \in Threads \ {t} : pc'[u] = pc[u]
        /\ pc[t] = "quarantine" /\ pc'[t] = "forget_invalidated"
        /\ pending' = pending \union {key[t]}
    BY <1>3 DEF InvalidateQuarantine, locals, past, history
  <2>2. \A k \in Keys :
            /\ cut'[t][k] <= gen[k]
            /\ store'[k] # NoEntry => store'[k].gen > cut'[t][k] \/ CutWaits(t, k)'
    BY <2>1 DEF Numbered, CutSafe, CutWaits
  <2> QED BY <2>1, <2>2 DEF Cuts
<1>4. CASE InvalidateReturns(t)
    BY <1>4 DEF InvalidateReturns, Condemn, Returns, CutWaits, HolderIsInFlight, locals
<1>5. CASE ClearStore(t)
  <2>1. /\ UNCHANGED <<store, gen, got, condemned, floor, cut, key, sweep, pending, observed>>
        /\ \A u \in Threads \ {t} : pc'[u] = pc[u]
        /\ pc[t] = "clear_store" /\ pc'[t] \in {"clear_budget", "clear_marks"}
        /\ sweep[t] = {}
    BY <1>5 DEF ClearStore, locals, past, history
  <2> QED BY <2>1 DEF Cuts, Numbered, CutSafe, CutWaits
<1>6. CASE ClearRaises(t)
  <2>1. /\ UNCHANGED <<store, gen, got, condemned, floor, key, pending, observed>>
        /\ \A u \in Threads \ {t} : pc'[u] = pc[u] /\ cut'[u] = cut[u] /\ sweep'[u] = sweep[u]
        /\ pc[t] = "clear_store" /\ pc'[t] = "idle"
        /\ \A k \in Keys : cut'[t][k] = 0
    BY <1>6 DEF ClearRaises, DeleteRaises
  <2> QED BY <2>1 DEF Cuts, Numbered, KeyIsNumbered, Readable
<1>13. CASE ClearEntry(t)
  <2>1. PICK j \in sweep[t] \union Present :
            Deleted(j) /\ sweep' = [sweep EXCEPT ![t] = @ \ {j}]
    BY <1>13 DEF ClearEntry
  <2>2. /\ UNCHANGED <<gen, got, condemned, floor, cut, key, pc, pending, observed>>
        /\ pc[t] = "clear_store"
    BY <1>13 DEF ClearEntry, past, history
  <2>3. /\ \A k \in Keys : store'[k] = IF k = j THEN NoEntry ELSE store[k]
        /\ sweep'[t] = sweep[t] \ {j}
        /\ \A u \in Threads \ {t} : sweep'[u] = sweep[u]
    BY <2>1 DEF Deleted
  <2> QED BY <2>2, <2>3 DEF Cuts, Numbered, CutSafe, CutWaits
<1>7. CASE ClearBudget(t)
    BY <1>7, <1>0 DEF ClearBudget, Passes, locals, past, history
<1>8. CASE ClearMarks(t)
  <2>1. pending = {} /\ pending' = {}
    BY <1>8 DEF ClearMarks
  <2> QED BY <1>8, <2>1 DEF ClearMarks, Returns, CutWaits, InFlight, locals
<1>9. CASE ProfileLookup(t)
    BY <1>9, <1>0 DEF ProfileLookup, ProfileEnds, Passes, past, history
<1>10. CASE ProfileWrite(t)
  <2>1. PICK n \in Sizes :
            StorePut(key[t], EntryOf(key[t], val[t], dep, Now(clock), n))
    BY <1>10 DEF ProfileWrite
  <2>2. /\ store' = [store EXCEPT ![key[t]] = EntryOf(key[t], val[t], dep, Now(clock), n)]
        /\ gen' = [gen EXCEPT ![key[t]] = gen[key[t]] + 1]
    BY <2>1 DEF StorePut
  <2>3. EntryOf(key[t], val[t], dep, Now(clock), n).gen = gen[key[t]] + 1
    BY DEF EntryOf
  <2>4. EntryOf(key[t], val[t], dep, Now(clock), n) # NoEntry
    BY EntryIsTyped, SizesAreInts, NoEntryAssumption DEF Now, Later
  <2> QED BY <1>10, <1>0, <2>2, <2>3, <2>4 DEF ProfileWrite, Puts, locals
<1>11. CASE ProfileWriteFails(t)
    BY <1>11, <1>0 DEF ProfileWriteFails, ProfileEnds, Passes, past, history
<1>12. CASE ProfileDelete(t)
    BY <1>12, <1>0 DEF ProfileDelete, ProfileEnds, DeleteTried, Deleted, DeleteRaises, Passes,
        past, history
<1> QED BY <1>1, <1>2, <1>3, <1>4, <1>5, <1>6, <1>7, <1>8, <1>9, <1>10, <1>11, <1>12, <1>13
        DEF ControlStep

-----------------------------------------------------------------------------
(* The labels and the quarantine stay within what the constants allow.     *)
Enters(t) ==
    /\ pending' \subseteq pending \/ pc[t] = "quarantine"
    /\ \A u \in Threads \ {t} : pc'[u] = pc[u]
    /\ pc'[t] = "quarantine" => MaxDeleteFaults # 0
    /\ pc'[t] \in ClearLabels => pc[t] \in ClearLabels \/ "clear" \in Operations
    /\ pc'[t] \in VerifyLabels => pc[t] \in VerifyLabels \/ TRUE \in VerifyCoin

LEMMA EntersAllowed ==
    ASSUME NEW t \in Threads, Enters(t), Allowed
    PROVE  Allowed'
BY DEF Enters, Allowed

LEMMA StepEnters ==
    ASSUME NEW t \in Threads, Start(t) \/ Step(t), FlightTypes, DataTypes
    PROVE  Enters(t)
<1> USE DEF FlightTypes, Enters, ClearLabels, VerifyLabels, Goto, marks
<1>1. ASSUME NEW k \in Keys, StartCall(t, k) PROVE Enters(t)
  <2>1. PICK verify \in VerifyCoin : Goto(t, IF verify THEN "verify_lock" ELSE "lookup")
    BY <1>1 DEF StartCall
  <2>2. verify = TRUE \/ verify = FALSE
    BY FlagsAssumption
  <2> QED BY <1>1, <2>1, <2>2 DEF StartCall
<1>2. CASE Start(t) /\ ~ \E k \in Keys : StartCall(t, k)
    BY <1>2 DEF Start, StartInvalidate, StartProfile, StartClear
<1>3. CASE CallStep(t)
    BY <1>3 DEF CallStep, EnterFlight, AfterLock, Lookup, AfterLookup, JudgeFast, JudgeLocked,
        ClassifyPending, ClassifyStale, ClassifyAbsent, RetryDelete, MissInvalidated,
        DeleteStale, LabelStale, RunReturns, RunRaises, Return
<1>4. CASE CommitStep(t)
    BY <1>4 DEF CommitStep, RecheckDeps, SkipUnsized, Write, WriteFails, AdmitEntry,
        EvictDelete, RememberEviction, NoteEviction, Settle, DrainDelete, DrainForget,
        FinishCommit, Conclude
<1>5. CASE VerifyStep(t)
    BY <1>5 DEF VerifyStep, JudgeVerify, VerifyConfirms, VerifyRefutes, WarningRaises,
        DeleteRefuted, ForgetRefuted
<1>6. CASE InvalidateDelete(t)
  <2>1. pc'[t] = "quarantine" => DeleteRaises(key[t])
    BY <1>6 DEF InvalidateDelete
  <2>2. DeleteRaises(key[t]) => MaxDeleteFaults # 0
    BY DEF DeleteRaises, DataTypes
  <2> QED BY <1>6, <2>1, <2>2 DEF InvalidateDelete
<1>7. CASE ControlStep(t) /\ ~ InvalidateDelete(t)
    BY <1>7 DEF ControlStep, InvalidateMark, InvalidateQuarantine, InvalidateReturns, ClearEntry,
        ClearStore, ClearRaises, ClearBudget, ClearMarks, ProfileLookup, ProfileWrite, ProfileWriteFails,
        ProfileDelete, ProfileEnds
<1> QED BY <1>1, <1>2, <1>3, <1>4, <1>5, <1>6, <1>7 DEF Start, Step

-----------------------------------------------------------------------------
(* The invariant, and what it is for.                                      *)
LEMMA MoveKeepsNumbers ==
    ASSUME NEW t \in Threads, SafeMove(t), FlightInv, FlightInv', TypeInv, TypeInv', Numbered
    PROVE  Numbered'
<1>1. Readable /\ Readable'
    BY TypedIsReadable, NextIsReadable DEF FlightInv, TypeInv
<1>2. ASSUME NEW k \in Keys, Starts(t, k) PROVE Numbered'
    BY <1>1, <1>2, StartKeepsNumbers
<1>3. CASE StartClear(t)
    BY <1>1, <1>3, StartClearKeepsNumbers DEF FlightInv, TypeInv
<1> QED BY <1>1, <1>2, <1>3, PassKeepsNumbers, ReadKeepsNumbers, PutKeepsNumbers, LiftKeepsNumbers,
           LabelStaleKeepsNumbers, ReturnKeepsNumbers, CutKeepsNumbers
        DEF SafeMove

LEMMA MoveKeepsSafe ==
    ASSUME NEW t \in Threads, SafeMove(t), FlightInv, FlightInv', TypeInv, TypeInv', SafeInv
    PROVE  SafeInv'
<1>1. Readable /\ Readable'
    BY TypedIsReadable, NextIsReadable DEF FlightInv, TypeInv
<1>2. ASSUME NEW k \in Keys, Starts(t, k) PROVE SafeInv'
    BY <1>1, <1>2, StartKeepsSafe
<1>3. CASE StartClear(t)
    BY <1>1, <1>3, StartClearKeepsSafe DEF FlightInv, TypeInv
<1> QED BY <1>1, <1>2, <1>3, PassKeepsSafe, ReadKeepsSafe, PutKeepsSafe, LiftKeepsSafe,
           LabelStaleKeepsSafe, ReturnKeepsSafe, CutKeepsSafe
        DEF SafeMove

LEMMA StepKeepsCond ==
    ASSUME FlightInv, FlightInv', TypeInv, TypeInv', CondInv, [Next]_vars, SafelyFaulty
    PROVE  CondInv'
<1>1. ASSUME NEW t \in Threads, Start(t) \/ Step(t) PROVE CondInv'
  <2>0. /\ pc[t] = "delete_refuted" => MaxDeleteFaults = 0
        /\ ClearMarks(t) => pending = {}
    BY DEF CondInv, Allowed, VerifyLabels, ClearLabels, ClearMarks, SafelyFaulty
  <2>1. SafeMove(t)
    BY <1>1, <2>0, TypedIsReadable, StartMovesSafely, CallMovesSafely, CommitMovesSafely,
       VerifyMovesSafely, ControlMovesSafely
        DEF Step, FlightInv, TypeInv, CondInv, SafeInv
  <2> QED BY <1>1, <2>1, MoveKeepsSafe, StepEnters, EntersAllowed DEF FlightInv, TypeInv, CondInv
<1>2. CASE World \/ UNCHANGED vars
  <2>1. UNCHANGED <<store, gen, got, condemned, cut, floor, key, sweep, pending, observed, pc>>
    BY <1>2 DEF World, cacheVars, vars, marks, locals, past, history
  <2> QED BY <2>1 DEF CondInv, Allowed, SafeInv, Numbered, KeyIsNumbered, StoreSafe, ReadIsNumbered,
        ReadSafe, CommitSafe, CutSafe, CutWaits, Lapsed
<1> QED BY <1>1, <1>2 DEF Next

LEMMA InitCond == Init => CondInv
<1> SUFFICES ASSUME Init PROVE CondInv
    OBVIOUS
<1> USE DEF Init
<1>1. Allowed
    BY DEF Allowed, ClearLabels, VerifyLabels
<1>2. SafeInv
    BY DEF SafeInv, Numbered, KeyIsNumbered, StoreSafe, ReadIsNumbered, ReadSafe, CommitSafe, CutSafe,
        Committing
<1> QED BY <1>1, <1>2 DEF CondInv

(* What has been given up is gone, quarantined or lapsed, and what a call  *)
(* holds of it was read before that, in every reachable state.             *)
THEOREM CondInvariance ==
    ASSUME SafelyFaulty
    PROVE  Spec => []CondInv
<1>1. FlightInv /\ FlightInv' /\ TypeInv /\ TypeInv' /\ CondInv /\ [Next]_vars => CondInv'
    BY StepKeepsCond
<1> QED BY <1>1, InitCond, FlightInvariance, TypeInvariance, PTL DEF Spec

(* A call never returns an entry that had been given up before it began:   *)
(* invalidated, cleared, refuted by verify=, or counted as expired.        *)
THEOREM NeverServesCondemnedHolds ==
    ASSUME SafelyFaulty
    PROVE  Spec => []NeverServesCondemned
<1>1. FlightInv /\ TypeInv /\ CondInv => NeverServesCondemned
    BY DEF TypeInv, HoldsEntry, Held, CondInv, SafeInv, ReadSafe, NeverServesCondemned, Chosen
<1> QED BY <1>1, FlightInvariance, TypeInvariance, CondInvariance, PTL

-----------------------------------------------------------------------------
(* Part 2: the registries of keys and the budget.                          *)

(* The labels at which a thread has keys left to go through, and the size  *)
(* of what it wrote to admit.                                              *)
HasKeys == {"evict", "remember_eviction", "note_eviction", "drained"}

MarksTyped ==
    /\ pending \subseteq Keys
    /\ invMarks \in Seq(Keys) /\ Len(invMarks) <= MarkerCap
    /\ evictMarks \in Seq(Keys) /\ Len(evictMarks) <= MarkerCap
    /\ ledger \in Seq(Keys) /\ Len(ledger) <= MarkerCap

TodoTyped ==
    /\ todo \in [Threads -> Seq(Keys)]
    /\ \A t \in Threads : pc[t] \in HasKeys => todo[t] # <<>>

AdmitReady ==
    \A t \in Threads : pc[t] = "admit" => HasBudget /\ bytes[t] \in Nat /\ bytes[t] <= MaxBytes

BudgetInv == MarksTyped /\ TodoTyped /\ AdmitReady /\ WellKept(budget, Keys)

(* Leaving a registry and entering it.                                     *)
LEMMA DropIsTyped ==
    ASSUME NEW S, NEW seq \in Seq(S), NEW x
    PROVE  /\ Drop(seq, x) \in Seq(S) /\ Len(Drop(seq, x)) <= Len(seq)
           /\ \A y : y # x /\ InSeq(y, seq) => InSeq(y, Drop(seq, x))
<1>1. CASE ~ InSeq(x, seq)
    BY <1>1 DEF Drop
<1>2. CASE InSeq(x, seq)
  <2> DEFINE i == CHOOSE i \in DOMAIN seq : seq[i] = x
             p == Popped(seq, i)
  <2>1. i \in 1 .. Len(seq) /\ seq[i] = x
    BY <1>2 DEF InSeq
  <2>2. Drop(seq, x) = p
    BY <1>2 DEF Drop
  <2> HIDE DEF i, p
  <2>3. /\ p \in Seq(S) /\ Len(p) = Len(seq) - 1
        /\ \A j \in 1 .. Len(seq) - 1 : p[j] = IF j < i THEN seq[j] ELSE seq[j + 1]
    BY <2>1, PoppedSeq DEF p
  <2>4. ASSUME NEW y, y # x, InSeq(y, seq) PROVE InSeq(y, p)
    <3>1. PICK j \in 1 .. Len(seq) : seq[j] = y
        BY <2>4 DEF InSeq
    <3>2. CASE j < i
        BY <2>1, <2>3, <3>1, <3>2 DEF InSeq
    <3>3. CASE i < j
      <4>1. j - 1 \in 1 .. Len(seq) - 1 /\ ~ (j - 1 < i) /\ (j - 1) + 1 = j
        BY <2>1, <3>1, <3>3
      <4>2. p[j - 1] = seq[j]
        BY <2>3, <4>1
      <4> QED BY <2>3, <3>1, <4>1, <4>2 DEF InSeq
    <3> QED BY <2>1, <2>4, <3>1, <3>2, <3>3
  <2>5. Len(p) <= Len(seq)
    BY <2>3
  <2> QED BY <2>2, <2>3, <2>4, <2>5
<1> QED BY <1>1, <1>2

LEMMA RememberIsTyped ==
    ASSUME NEW S, NEW seq \in Seq(S), NEW x \in S, Len(seq) <= MarkerCap
    PROVE  Remember(seq, x) \in Seq(S) /\ Len(Remember(seq, x)) <= MarkerCap
<1> DEFINE d == Drop(seq, x)
           moved == Append(d, x)
<1>1. d \in Seq(S) /\ Len(d) <= MarkerCap /\ MarkerCap \in Nat
    BY DropIsTyped, NumbersAssumption
<1> HIDE DEF d
<1>2. moved \in Seq(S) /\ Len(moved) = Len(d) + 1
    BY <1>1
<1> HIDE DEF moved
<1>3. moved # <<>>
    BY <1>1, <1>2
<1>4. Tail(moved) \in Seq(S) /\ Len(Tail(moved)) = Len(moved) - 1
    BY <1>2, <1>3, HeadTailProperties
<1>5. Remember(seq, x) = IF Len(moved) > MarkerCap THEN Tail(moved) ELSE moved
    BY DEF Remember, moved, d
<1> QED BY <1>1, <1>2, <1>4, <1>5

LEMMA FirstOfIsTyped ==
    ASSUME NEW S, NEW seq \in Seq(S), NEW n \in Nat
    PROVE  FirstOf(seq, n) \in Seq(S)
<1> DEFINE m == IF Len(seq) < n THEN Len(seq) ELSE n
<1>1. m \in 0 .. Len(seq)
    OBVIOUS
<1> HIDE DEF m
<1>2. FirstOf(seq, n) = SubSeq(seq, 1, m)
    BY DEF FirstOf, m
<1> QED BY <1>1, <1>2, SubSeqProperties

(* A registry after one step of a thread; so all of them, and the budget.  *)
Marked(m, n, k) == n \in {m, <<>>, Drop(m, k), Remember(m, k)}

Registers(k) ==
    /\ Marked(invMarks, invMarks', k) /\ Marked(evictMarks, evictMarks', k)
    /\ Marked(ledger, ledger', k)
    /\ pending' \subseteq pending \union {k}

BudgetMoves(k) == budget' \in {budget, EmptyBudget, Forget(budget, k), Touch(budget, k)}

LEMMA MarkedIsTyped ==
    ASSUME NEW m \in Seq(Keys), Len(m) <= MarkerCap, NEW k \in Keys, NEW n, Marked(m, n, k)
    PROVE  n \in Seq(Keys) /\ Len(n) <= MarkerCap
<1>1. <<>> \in Seq(Keys) /\ Len(<<>>) = 0 /\ MarkerCap \in Nat /\ 0 <= MarkerCap
    BY NumbersAssumption
<1>2. Drop(m, k) \in Seq(Keys) /\ Len(Drop(m, k)) <= MarkerCap
    BY <1>1, DropIsTyped
<1> QED BY <1>1, <1>2, RememberIsTyped DEF Marked

LEMMA RegistersKeepsMarks ==
    ASSUME MarksTyped, NEW k \in Keys, Registers(k)
    PROVE  MarksTyped'
BY MarkedIsTyped DEF MarksTyped, Registers

LEMMA EmptyIsWellKept == WellKept(EmptyBudget, Keys)
<1> DEFINE b == EmptyBudget
<1>1. b = [lru |-> <<>>, total |-> 0]
    BY DEF EmptyBudget
<1>2. b.lru = <<>> /\ b.total = 0 /\ b = [lru |-> b.lru, total |-> b.total]
    BY <1>1
<1>3. b.lru \in Seq(Items(Keys)) /\ OnePerKey(b.lru) /\ Tracked(b) = {}
    BY <1>2 DEF OnePerKey, Tracked
<1>4. Weight(b) = 0
  <2>1. Weight(b) = SumFunctionOnSet([k \in Tracked(b) |-> SizeOf(b, k)], Tracked(b))
    BY DEF Weight, SumFunction
  <2> QED BY <1>3, <2>1, SumOfNothing
<1> QED BY <1>2, <1>3, <1>4, MaxBytesAssumption DEF WellKept, Consistent

LEMMA BudgetStaysWellKept ==
    ASSUME WellKept(budget, Keys), NEW k \in Keys, BudgetMoves(k)
    PROVE  WellKept(budget', Keys)
<1> DEFINE Kept(b) == WellKept(b, Keys)
<1>1. budget.total \in Int /\ MaxBytes \in Int
    BY WeightIsNat, MaxBytesAssumption DEF WellKept, Consistent
<1>2. Kept(Forget(budget, k))
  <2>1. Consistent(Forget(budget, k), Keys) /\ Forget(budget, k).total <= budget.total
    BY ForgetIsConsistent DEF WellKept
  <2>2. Forget(budget, k).total \in Int
    BY <2>1, WeightIsNat DEF Consistent
  <2> QED BY <1>1, <2>1, <2>2 DEF WellKept
<1>3. Kept(Touch(budget, k))
    BY TouchIsConsistent DEF WellKept
<1>4. Kept(EmptyBudget)
    BY EmptyIsWellKept
<1> HIDE DEF Kept
<1>5. Kept(budget)
    BY DEF Kept
<1>6. Kept(budget')
    BY <1>2, <1>3, <1>4, <1>5 DEF BudgetMoves
<1> QED BY <1>6 DEF Kept

-----------------------------------------------------------------------------
(* A step of a thread, as far as the registries and the budget go.         *)
Keeps(t) ==
    /\ Registers(key[t]) \/ (todo[t] # <<>> /\ Registers(Head(todo[t])))
    /\ BudgetMoves(key[t]) \/ WellKept(budget', Keys)
    /\ todo' \in [Threads -> Seq(Keys)]
    /\ \A u \in Threads \ {t} : pc'[u] = pc[u] /\ bytes'[u] = bytes[u] /\ todo'[u] = todo[u]
    /\ pc'[t] \in HasKeys => todo'[t] # <<>>
    /\ pc'[t] = "admit" => HasBudget /\ bytes'[t] \in Nat /\ bytes'[t] <= MaxBytes

LEMMA StepKeepsBudgetInv ==
    ASSUME NEW t \in Threads, Keeps(t), FlightTypes, BudgetInv
    PROVE  BudgetInv'
<1>1. key[t] \in Keys /\ (todo[t] # <<>> => Head(todo[t]) \in Keys)
    BY HeadTailProperties DEF FlightTypes, BudgetInv, TodoTyped
<1>2. MarksTyped'
    BY <1>1, RegistersKeepsMarks DEF Keeps, BudgetInv
<1>3. WellKept(budget', Keys)
    BY <1>1, BudgetStaysWellKept DEF Keeps, BudgetInv
<1>4. TodoTyped' /\ AdmitReady'
    BY DEF Keeps, BudgetInv, TodoTyped, AdmitReady
<1> QED BY <1>2, <1>3, <1>4 DEF BudgetInv

(* What leaves everything of this kind alone.                              *)
LEMMA MarksStay ==
    ASSUME UNCHANGED marks, NEW k
    PROVE  Registers(k)
BY DEF marks, Registers, Marked

LEMMA BudgetStays ==
    ASSUME UNCHANGED budget, NEW k
    PROVE  BudgetMoves(k)
BY DEF BudgetMoves

LEMMA BudgetForgetsOrTouches ==
    ASSUME NEW k, BudgetForgets(k) \/ BudgetTouches(k)
    PROVE  BudgetMoves(k)
BY DEF BudgetForgets, BudgetTouches, BudgetMoves

LEMMA StartKeeps ==
    ASSUME NEW t \in Threads, Start(t), FlightTypes, BudgetInv
    PROVE  Keeps(t)
<1> USE MarksStay, BudgetStays DEF FlightTypes, BudgetInv, TodoTyped, HasKeys, Keeps, Goto
<1>1. ASSUME NEW k \in Keys, StartCall(t, k) PROVE Keeps(t)
    BY <1>1 DEF StartCall
<1>2. ASSUME NEW k \in Keys, StartInvalidate(t, k) PROVE Keeps(t)
    BY <1>2 DEF StartInvalidate
<1>3. ASSUME NEW k \in Keys, StartProfile(t, k) PROVE Keeps(t)
    BY <1>3 DEF StartProfile
<1>4. CASE StartClear(t)
    BY <1>4 DEF StartClear, locals
<1> QED BY <1>1, <1>2, <1>3, <1>4 DEF Start

LEMMA CallKeeps ==
    ASSUME NEW t \in Threads, CallStep(t), FlightTypes, DataTypes, BudgetInv
    PROVE  Keeps(t)
<1> USE MarksStay, BudgetStays, BudgetForgetsOrTouches
        DEF FlightTypes, BudgetInv, TodoTyped, HasKeys, Keeps, Goto
<1>1. CASE EnterFlight(t)
    BY <1>1 DEF EnterFlight, AfterLock, locals
<1>2. CASE Lookup(t)
    BY <1>2 DEF Lookup, AfterLookup
<1>3. CASE JudgeFast(t)
    BY <1>3 DEF JudgeFast, locals
<1>4. CASE JudgeLocked(t)
    BY <1>4 DEF JudgeLocked, locals
<1>5. CASE ClassifyPending(t)
    BY <1>5 DEF ClassifyPending, locals
<1>6. CASE ClassifyStale(t)
    BY <1>6 DEF ClassifyStale
<1>7. CASE ClassifyAbsent(t)
    BY <1>7 DEF ClassifyAbsent, Registers, Marked, locals
<1>8. CASE RetryDelete(t)
    BY <1>8 DEF RetryDelete, Registers, Marked, locals
<1>9. CASE MissInvalidated(t)
    BY <1>9 DEF MissInvalidated, locals
<1>10. CASE DeleteStale(t)
    BY <1>10 DEF DeleteStale, locals
<1>11. CASE LabelStale(t)
    BY <1>11 DEF LabelStale, locals
<1>12. CASE RunReturns(t)
    BY <1>12 DEF RunReturns
<1>13. CASE RunRaises(t)
    BY <1>13 DEF RunRaises, locals
<1>14. CASE Return(t)
    BY <1>14 DEF Return, DataTypes
<1> QED BY <1>1, <1>2, <1>3, <1>4, <1>5, <1>6, <1>7, <1>8, <1>9, <1>10, <1>11, <1>12, <1>13,
           <1>14
        DEF CallStep

LEMMA CommitKeeps ==
    ASSUME NEW t \in Threads, CommitStep(t), FlightTypes, DataTypes, BudgetInv
    PROVE  Keeps(t)
<1> USE MarksStay, BudgetStays DEF FlightTypes, BudgetInv, TodoTyped, HasKeys, Keeps, Goto
<1>0. /\ todo[t] # <<>> => Tail(todo[t]) \in Seq(Keys) /\ Len(Tail(todo[t])) = Len(todo[t]) - 1
      /\ Len(todo[t]) \in Nat
    BY HeadTailProperties
<1>1. CASE RecheckDeps(t)
    BY <1>1 DEF RecheckDeps, Conclude, locals
<1>2. CASE SkipUnsized(t)
    BY <1>2 DEF SkipUnsized, Conclude, locals
<1>3. CASE Write(t)
  <2>1. PICK n \in Storable : bytes' = [bytes EXCEPT ![t] = n]
    BY <1>3 DEF Write
  <2>2. HasBudget => n \in Nat /\ n <= MaxBytes
    BY NumbersAssumption DEF Storable, Fits
  <2>3. bytes'[t] = n /\ \A u \in Threads \ {t} : bytes'[u] = bytes[u]
    BY <2>1 DEF DataTypes
  <2> QED BY <1>3, <2>2, <2>3 DEF Write
<1>4. CASE WriteFails(t)
    BY <1>4 DEF WriteFails, Conclude, locals
<1>5. CASE AdmitEntry(t)
  <2> DEFINE after == Admit(budget, key[t], bytes[t]).budget
             evicted == Admit(budget, key[t], bytes[t]).evicted
  <2>1. bytes[t] \in Nat /\ bytes[t] <= MaxBytes /\ key[t] \in Keys
    BY <1>5 DEF AdmitEntry, AdmitReady
  <2>2. Admits(budget, key[t], bytes[t], after, evicted)
    BY DEF Admits
  <2>3. /\ budget' = after /\ todo' = [todo EXCEPT ![t] = evicted]
        /\ pc' = [pc EXCEPT ![t] = IF evicted = <<>> THEN "settle" ELSE "evict"]
    BY <1>5 DEF AdmitEntry
  <2>4. UNCHANGED <<bytes, marks>>
    BY <1>5 DEF AdmitEntry
  <2> HIDE DEF after, evicted
  <2>5. WellKept(after, Keys) /\ evicted \in Seq(Keys)
    BY <2>1, <2>2, AdmitIsWellKept DEF WellKept
  <2> QED BY <2>3, <2>4, <2>5
<1>6. CASE EvictDelete(t)
    BY <1>6 DEF EvictDelete, locals
<1>7. CASE RememberEviction(t)
    BY <1>7 DEF RememberEviction, Registers, Marked, locals
<1>8. CASE NoteEviction(t)
  <2>1. todo[t] # <<>> /\ todo'[t] = Tail(todo[t])
    BY <1>8 DEF NoteEviction
  <2>2. pc'[t] = "evict" => Len(Tail(todo[t])) # 0
    BY <1>8, <1>0, <2>1 DEF NoteEviction
  <2>3. pc'[t] \in {"settle", "evict"} /\ (pc'[t] = "evict" => todo'[t] # <<>>)
    <3>1. pc'[t] \in {"settle", "evict"}
        BY <1>8 DEF NoteEviction
    <3>2. Len(<<>>) = 0
        OBVIOUS
    <3> QED BY <2>1, <2>2, <3>1, <3>2, Zenon
  <2>4. Registers(Head(todo[t]))
    BY <1>8 DEF NoteEviction, Registers, Marked
  <2>5. /\ todo' \in [Threads -> Seq(Keys)]
        /\ \A u \in Threads \ {t} : pc'[u] = pc[u] /\ todo'[u] = todo[u]
        /\ UNCHANGED <<bytes, budget>>
    BY <1>8, <1>0, <2>1 DEF NoteEviction
  <2> QED BY <2>1, <2>3, <2>4, <2>5
<1>9. CASE Settle(t)
  <2>1. FirstOf(Drop(ledger, key[t]), RetryBatch) \in Seq(Keys)
    BY DropIsTyped, FirstOfIsTyped, NumbersAssumption DEF MarksTyped
  <2>2. Registers(key[t])
    BY <1>9 DEF Settle, Registers, Marked
  <2> QED BY <1>9, <2>1, <2>2 DEF Settle
<1>10. CASE DrainDelete(t)
    BY <1>10, <1>0 DEF DrainDelete
<1>11. CASE DrainForget(t)
    BY <1>11, <1>0 DEF DrainForget, Registers, Marked
<1>12. CASE FinishCommit(t)
    BY <1>12 DEF FinishCommit, Conclude, Registers, Marked, locals
<1> QED BY <1>1, <1>2, <1>3, <1>4, <1>5, <1>6, <1>7, <1>8, <1>9, <1>10, <1>11, <1>12
        DEF CommitStep

LEMMA VerifyKeeps ==
    ASSUME NEW t \in Threads, VerifyStep(t), FlightTypes, BudgetInv
    PROVE  Keeps(t)
<1> USE MarksStay, BudgetStays, BudgetForgetsOrTouches
        DEF FlightTypes, BudgetInv, TodoTyped, HasKeys, Keeps, Goto
<1>1. CASE JudgeVerify(t)
    BY <1>1 DEF JudgeVerify, locals
<1>2. CASE VerifyConfirms(t)
    BY <1>2 DEF VerifyConfirms, locals
<1>3. CASE VerifyRefutes(t)
    BY <1>3 DEF VerifyRefutes
<1>4. CASE DeleteRefuted(t)
    BY <1>4 DEF DeleteRefuted, locals
<1>5. CASE ForgetRefuted(t)
    BY <1>5 DEF ForgetRefuted, locals
<1>6. CASE WarningRaises(t)
    BY <1>6 DEF WarningRaises, locals
<1> QED BY <1>1, <1>2, <1>3, <1>4, <1>5, <1>6 DEF VerifyStep

LEMMA ControlKeeps ==
    ASSUME NEW t \in Threads, ControlStep(t), FlightTypes, BudgetInv
    PROVE  Keeps(t)
<1> USE MarksStay, BudgetStays, BudgetForgetsOrTouches
        DEF FlightTypes, BudgetInv, TodoTyped, HasKeys, Keeps, Goto
<1>1. CASE InvalidateDelete(t)
    BY <1>1 DEF InvalidateDelete, locals
<1>2. CASE InvalidateMark(t)
    BY <1>2 DEF InvalidateMark, Registers, Marked, locals
<1>3. CASE InvalidateQuarantine(t)
    BY <1>3 DEF InvalidateQuarantine, Registers, Marked, locals
<1>4. CASE InvalidateReturns(t)
    BY <1>4 DEF InvalidateReturns, locals
<1>5. CASE ClearStore(t)
    BY <1>5 DEF ClearStore, locals
<1>6. CASE ClearRaises(t)
    BY <1>6 DEF ClearRaises
<1>7. CASE ClearBudget(t)
    BY <1>7 DEF ClearBudget, BudgetMoves, locals
<1>8. CASE ClearMarks(t)
    BY <1>8 DEF ClearMarks, Registers, Marked, locals
<1>9. CASE ProfileLookup(t)
    BY <1>9 DEF ProfileLookup, ProfileEnds
<1>10. CASE ProfileWrite(t)
    BY <1>10 DEF ProfileWrite, locals
<1>11. CASE ProfileWriteFails(t)
    BY <1>11 DEF ProfileWriteFails, ProfileEnds
<1>12. CASE ProfileDelete(t)
    BY <1>12 DEF ProfileDelete, ProfileEnds
<1>13. CASE ClearEntry(t)
    BY <1>13 DEF ClearEntry
<1> QED BY <1>1, <1>2, <1>3, <1>4, <1>5, <1>6, <1>7, <1>8, <1>9, <1>10, <1>11, <1>12, <1>13
        DEF ControlStep

LEMMA NextKeepsBudgetInv ==
    ASSUME FlightTypes, DataTypes, BudgetInv, [Next]_vars
    PROVE  BudgetInv'
<1>1. ASSUME NEW t \in Threads, Start(t) \/ Step(t) PROVE BudgetInv'
    BY <1>1, StartKeeps, CallKeeps, CommitKeeps, VerifyKeeps, ControlKeeps, StepKeepsBudgetInv
        DEF Step
<1>2. CASE World \/ UNCHANGED vars
  <2>1. UNCHANGED <<marks, todo, pc, bytes, budget>>
    BY <1>2 DEF World, cacheVars, vars, locals
  <2>2. MarksTyped' /\ TodoTyped' /\ AdmitReady'
    BY <2>1 DEF marks, BudgetInv, MarksTyped, TodoTyped, AdmitReady
  <2> QED BY <2>1, <2>2 DEF BudgetInv
<1> QED BY <1>1, <1>2 DEF Next

LEMMA InitBudgetInv == Init => BudgetInv
<1> SUFFICES ASSUME Init PROVE BudgetInv
    OBVIOUS
<1>1. MarksTyped
    BY NumbersAssumption DEF Init, MarksTyped
<1>2. TodoTyped /\ AdmitReady
    BY DEF Init, TodoTyped, AdmitReady, HasKeys
<1> QED BY <1>1, <1>2, EmptyIsWellKept DEF Init, BudgetInv

(* The registries hold keys and stay within their caps; the budget tracks  *)
(* each key once, its total is the sum of the sizes and within the bound.  *)
THEOREM BudgetInvariance == Spec => []BudgetInv
<1>1. FlightInv /\ TypeInv /\ BudgetInv /\ [Next]_vars => BudgetInv'
    BY NextKeepsBudgetInv DEF FlightInv, TypeInv
<1> QED BY <1>1, InitBudgetInv, FlightInvariance, TypeInvariance, PTL DEF Spec

(* Every variable is typed in every reachable state.                       *)
THEOREM TypeOKHolds == Spec => []TypeOK
<1>1. FlightInv /\ TypeInv /\ BudgetInv => TypeOK
  <2> SUFFICES ASSUME FlightInv, TypeInv, BudgetInv PROVE TypeOK
    OBVIOUS
  <2>1. budget \in Budgets
    <3>1. budget.total \in Nat
        BY WeightIsNat DEF BudgetInv, WellKept, Consistent
    <3>2. budget.lru \in Seq([key : Keys, size : Int])
      <4>1. Items(Keys) \subseteq [key : Keys, size : Int]
        BY DEF Items
      <4>2. budget.lru \in Seq(Items(Keys))
        BY DEF BudgetInv, WellKept, Consistent
      <4> QED BY ONLY <4>1, <4>2, SeqMonotonic
    <3> QED BY <3>1, <3>2 DEF BudgetInv, WellKept, Consistent, Budgets
  <2>2. Flights!TypeOK
    BY DEF FlightInv, FlightTypes, Flights!TypeOK
  <2>3. \A marked \in {invMarks, evictMarks, ledger} :
            marked \in Seq(Keys) /\ Len(marked) <= MarkerCap
    BY DEF BudgetInv, MarksTyped
  <2>4. /\ store \in [Keys -> Entries \union {NoEntry}] /\ pending \subseteq Keys
        /\ pc \in [Threads -> Labels] /\ key \in [Threads -> Keys]
        /\ got \in [Threads -> Entries \union {NoEntry}] /\ val \in [Threads -> Values]
        /\ bytes \in [Threads -> Int] /\ todo \in [Threads -> Seq(Keys)]
        /\ sweep \in [Threads -> SUBSET Keys]
    BY DEF FlightInv, FlightTypes, TypeInv, DataTypes, BudgetInv, MarksTyped, TodoTyped
  <2>5. /\ {observed, dep, hidden, clock, ops, clockBack, deleteFaults, writeFaults} \subseteq Nat
        /\ snap \in [Threads -> Nat] /\ floor \in [Threads -> Nat]
        /\ gen \in [Keys -> Nat] /\ condemned \in [Keys -> Nat]
        /\ cut \in [Threads -> [Keys -> Nat]]
    BY DEF TypeInv, DataTypes
  <2> QED BY <2>1, <2>2, <2>3, <2>4, <2>5 DEF TypeOK
<1> QED BY <1>1, FlightInvariance, TypeInvariance, BudgetInvariance, PTL

-----------------------------------------------------------------------------
(* Part 3: what _classify_and_compute deletes is stale.                    *)

(* Between the look under the lock and the classification the entry can    *)
(* only disappear: nobody else writes the key or lifts its quarantine.     *)
Outdated(e, t) == Lapsed(e) \/ DepsDiffer(e, snap[t])

Judging == {"rejudge", "classify", "delete_stale"}

JudgedStale(t) ==
    /\ pc[t] = "rejudge" => store[key[t]] \in {got[t], NoEntry} \/ key[t] \in pending
    /\ pc[t] = "classify" =>
            store[key[t]] = NoEntry \/ key[t] \in pending \/ Outdated(store[key[t]], t)
    /\ pc[t] = "delete_stale" => Outdated(got[t], t)

StaleInv == \A t \in Threads : JudgedStale(t)

(* A step of a thread, as far as the others that are judging an entry go.  *)
Spares(t) ==
    /\ \A k \in Keys :
        /\ store'[k] \in {store[k], NoEntry} \/ (k = key[t] /\ pc[t] \in InFlight)
        /\ k \in pending => k \in pending' \/ (k = key[t] /\ pc[t] \in InFlight)
    /\ observed <= observed'
    /\ \A u \in Threads \ {t} :
        pc'[u] = pc[u] /\ key'[u] = key[u] /\ got'[u] = got[u] /\ snap'[u] = snap[u]

LEMMA StartSpares ==
    ASSUME NEW t \in Threads, Start(t), FlightTypes, DataTypes
    PROVE  Spares(t) /\ pc'[t] \notin Judging
<1> USE DEF FlightTypes, DataTypes, Spares, Judging, Goto, marks
<1>1. ASSUME NEW k \in Keys, StartCall(t, k) PROVE Spares(t) /\ pc'[t] \notin Judging
    BY <1>1 DEF StartCall
<1>2. ASSUME NEW k \in Keys, StartInvalidate(t, k) \/ StartProfile(t, k)
      PROVE  Spares(t) /\ pc'[t] \notin Judging
    BY <1>2 DEF StartInvalidate, StartProfile
<1>3. CASE StartClear(t)
    BY <1>3 DEF StartClear, locals
<1> QED BY <1>1, <1>2, <1>3 DEF Start

LEMMA CallSpares ==
    ASSUME NEW t \in Threads, CallStep(t), FlightTypes, DataTypes
    PROVE  /\ Spares(t)
           /\ pc'[t] \notin Judging \/ Lookup(t) \/ JudgeLocked(t) \/ ClassifyStale(t)
<1> USE DEF FlightTypes, DataTypes, Spares, Judging, InFlight, Goto, marks
<1>0. observed <= Now(clock) /\ observed <= observed
    BY DEF Now, Later
<1>1. CASE EnterFlight(t)
    BY <1>1, <1>0 DEF EnterFlight, AfterLock, locals
<1>2. CASE Lookup(t)
    BY <1>2, <1>0 DEF Lookup
<1>3. CASE JudgeFast(t) \/ JudgeLocked(t)
    BY <1>3, DatedAdvances DEF JudgeFast, JudgeLocked, locals
<1>4. CASE ClassifyPending(t) \/ ClassifyAbsent(t)
    BY <1>4, <1>0 DEF ClassifyPending, ClassifyAbsent, locals
<1>5. CASE ClassifyStale(t)
    BY <1>5, <1>0 DEF ClassifyStale
<1>6. CASE RetryDelete(t)
    BY <1>6, <1>0 DEF RetryDelete, Deleted, DeleteRaises, locals
<1>7. CASE MissInvalidated(t)
    BY <1>7, <1>0 DEF MissInvalidated, locals
<1>8. CASE DeleteStale(t)
    BY <1>8, <1>0 DEF DeleteStale, DeleteTried, Deleted, DeleteRaises, locals
<1>9. CASE LabelStale(t)
    BY <1>9, <1>0 DEF LabelStale, locals
<1>10. CASE RunReturns(t) \/ RunRaises(t) \/ Return(t)
    BY <1>10, <1>0 DEF RunReturns, RunRaises, Return, locals
<1> QED BY <1>1, <1>2, <1>3, <1>4, <1>5, <1>6, <1>7, <1>8, <1>9, <1>10 DEF CallStep

LEMMA CommitSpares ==
    ASSUME NEW t \in Threads, CommitStep(t), FlightTypes, DataTypes
    PROVE  Spares(t) /\ pc'[t] \notin Judging
<1> USE DEF FlightTypes, DataTypes, Spares, Judging, InFlight, Goto, marks
<1>0. observed <= Now(clock) /\ observed <= observed
    BY DEF Now, Later
<1>1. CASE RecheckDeps(t) \/ SkipUnsized(t) \/ WriteFails(t)
    BY <1>1, <1>0 DEF RecheckDeps, SkipUnsized, WriteFails, Conclude, locals
<1>2. CASE Write(t)
    BY <1>2, <1>0 DEF Write, StorePut
<1>3. CASE AdmitEntry(t) \/ RememberEviction(t) \/ NoteEviction(t) \/ Settle(t) \/ DrainForget(t)
    BY <1>3, <1>0 DEF AdmitEntry, RememberEviction, NoteEviction, Settle, DrainForget, locals
<1>4. CASE EvictDelete(t)
    BY <1>4, <1>0 DEF EvictDelete, Deleted, DeleteRaises, locals
<1>5. CASE DrainDelete(t)
    BY <1>5, <1>0 DEF DrainDelete, Deleted, DeleteRaises
<1>6. CASE FinishCommit(t)
    BY <1>6, <1>0 DEF FinishCommit, Conclude, locals
<1> QED BY <1>1, <1>2, <1>3, <1>4, <1>5, <1>6 DEF CommitStep

LEMMA VerifySpares ==
    ASSUME NEW t \in Threads, VerifyStep(t), FlightTypes, DataTypes
    PROVE  Spares(t) /\ pc'[t] \notin Judging
<1> USE DEF FlightTypes, DataTypes, Spares, Judging, Goto, marks
<1>0. observed <= observed
    OBVIOUS
<1>1. CASE JudgeVerify(t)
    BY <1>1, DatedAdvances DEF JudgeVerify, locals
<1>2. CASE VerifyConfirms(t) \/ VerifyRefutes(t) \/ WarningRaises(t) \/ ForgetRefuted(t)
    BY <1>2, <1>0 DEF VerifyConfirms, VerifyRefutes, WarningRaises, ForgetRefuted, locals
<1>3. CASE DeleteRefuted(t)
    BY <1>3, <1>0 DEF DeleteRefuted, DeleteTried, Deleted, DeleteRaises, locals
<1> QED BY <1>1, <1>2, <1>3 DEF VerifyStep

LEMMA ControlSpares ==
    ASSUME NEW t \in Threads, ControlStep(t), FlightTypes, DataTypes, Allowed, NeverProfiles,
           "clear" \in Operations => MaxDeleteFaults = 0
    PROVE  Spares(t) /\ pc'[t] \notin Judging
<1> USE DEF FlightTypes, DataTypes, Spares, Judging, Goto, marks
<1>0. observed <= observed
    OBVIOUS
<1>1. CASE InvalidateDelete(t)
    BY <1>1, <1>0 DEF InvalidateDelete, Deleted, DeleteRaises, locals
<1>2. CASE InvalidateMark(t) \/ InvalidateQuarantine(t) \/ InvalidateReturns(t)
    BY <1>2, <1>0 DEF InvalidateMark, InvalidateQuarantine, InvalidateReturns, locals
<1>3. CASE ClearStore(t) \/ ClearRaises(t) \/ ClearBudget(t)
    BY <1>3, <1>0 DEF ClearStore, ClearRaises, DeleteRaises, ClearBudget, locals
<1>6. CASE ClearEntry(t)
    BY <1>6, <1>0 DEF ClearEntry, Deleted
<1>4. CASE ClearMarks(t)
  <2>1. pending = {}
    BY <1>4 DEF ClearMarks, Allowed, ClearLabels
  <2> QED BY <1>4, <1>0, <2>1 DEF ClearMarks, locals
<1>5. ~ (ProfileLookup(t) \/ ProfileWrite(t) \/ ProfileWriteFails(t) \/ ProfileDelete(t))
    BY DEF ProfileLookup, ProfileWrite, ProfileWriteFails, ProfileDelete, NeverProfiles,
        ProfileLabels
<1> QED BY <1>1, <1>2, <1>3, <1>4, <1>5, <1>6 DEF ControlStep

(* The three steps that lead to a judging label.                           *)
LEMMA JudgeMoves ==
    ASSUME NEW t \in Threads, Lookup(t) \/ JudgeLocked(t) \/ ClassifyStale(t), FlightTypes,
           DataTypes, Readable, JudgedStale(t)
    PROVE  JudgedStale(t)'
<1> USE DEF FlightTypes, DataTypes, Goto, marks, JudgedStale, Outdated
<1>1. CASE Lookup(t)
    BY <1>1 DEF Lookup, AfterLookup
<1>2. CASE JudgeLocked(t)
  <2>1. /\ UNCHANGED <<store, pending, key, snap, got>>
        /\ pc[t] = "rejudge" /\ pc'[t] \in {"served", "classify"}
        /\ pc'[t] = "classify" => ~ Fresh(t)
    BY <1>2 DEF JudgeLocked, locals
  <2>2. got[t] # NoEntry /\ Expired(got[t], Now(clock)) => Lapsed(got[t])'
    BY <1>2, <2>1 DEF JudgeLocked, Dated, Expired, Lapsed
  <2>3. CASE pc'[t] = "classify"
    <3>1. \/ got[t] = NoEntry \/ key[t] \in pending
          \/ Lapsed(got[t])' \/ DepsDiffer(got[t], snap[t])
        BY <2>1, <2>2, <2>3 DEF Fresh, Serves
    <3> QED BY <2>1, <2>3, <3>1 DEF DepsDiffer, Lapsed
  <2> QED BY <2>1, <2>3
<1>3. CASE ClassifyStale(t)
  <2>1. /\ UNCHANGED <<store, pending, key, snap, observed>>
        /\ pc[t] = "classify" /\ pc'[t] = "delete_stale" /\ got'[t] = store[key[t]]
        /\ key[t] \notin pending /\ store[key[t]] # NoEntry
    BY <1>3 DEF ClassifyStale
  <2> QED BY <2>1 DEF DepsDiffer, Lapsed
<1> QED BY <1>1, <1>2, <1>3

LEMMA SpareKeepsStale ==
    ASSUME NEW t \in Threads, Spares(t), pc'[t] \notin Judging \/ JudgedStale(t)',
           FlightInv, HoldsEntry, Readable, Readable', StaleInv
    PROVE  StaleInv'
<1> SUFFICES ASSUME NEW u \in Threads, u # t, pc[u] \in Judging
             PROVE  JudgedStale(u)'
  <2>1. \A u \in Threads : pc'[u] \notin Judging => JudgedStale(u)'
    BY DEF JudgedStale, Judging
  <2> QED BY <2>1 DEF StaleInv, Spares
<1>1. JudgedStale(u) /\ key[u] \in Keys
    BY DEF StaleInv, Readable
<1>2. ~ (key[u] = key[t] /\ pc[t] \in InFlight)
    BY DEF FlightInv, FlightTypes, HolderIsInFlight, Judging, InFlight
<1>3. \A e : e # NoEntry /\ Lapsed(e) /\ e.expires \in Nat => Lapsed(e)'
    BY DEF Spares, Readable, Lapsed
<1>4. /\ store'[key[u]] \in {store[key[u]], NoEntry}
      /\ key[u] \in pending => key[u] \in pending'
      /\ pc'[u] = pc[u] /\ key'[u] = key[u] /\ got'[u] = got[u] /\ snap'[u] = snap[u]
    BY <1>1, <1>2 DEF Spares
<1>5. ASSUME NEW e, e # NoEntry, e.expires \in Nat, Outdated(e, u) PROVE Outdated(e, u)'
    BY <1>3, <1>4, <1>5 DEF Outdated, DepsDiffer
<1>6. CASE pc[u] = "rejudge"
    BY <1>1, <1>4, <1>6 DEF JudgedStale
<1>7. CASE pc[u] = "classify"
    BY <1>1, <1>4, <1>5, <1>7 DEF JudgedStale, Readable
<1>8. CASE pc[u] = "delete_stale"
    BY <1>1, <1>4, <1>5, <1>8 DEF JudgedStale, Readable, HoldsEntry, Held
<1> QED BY <1>6, <1>7, <1>8 DEF Judging

LEMMA StepKeepsStale ==
    ASSUME FlightInv, FlightInv', TypeInv, TypeInv', Allowed, NeverProfiles, StaleInv, [Next]_vars,
           "clear" \in Operations => MaxDeleteFaults = 0
    PROVE  StaleInv'
<1>1. Readable /\ Readable'
    BY TypedIsReadable, NextIsReadable DEF FlightInv, TypeInv
<1>2. ASSUME NEW t \in Threads, Start(t) \/ Step(t) PROVE StaleInv'
  <2>1. /\ Spares(t)
        /\ pc'[t] \notin Judging \/ Lookup(t) \/ JudgeLocked(t) \/ ClassifyStale(t)
    BY <1>2, StartSpares, CallSpares, CommitSpares, VerifySpares, ControlSpares
        DEF Step, FlightInv, TypeInv
  <2>2. pc'[t] \notin Judging \/ JudgedStale(t)'
    BY <1>1, <2>1, JudgeMoves DEF FlightInv, TypeInv, StaleInv
  <2> QED BY <1>1, <2>1, <2>2, SpareKeepsStale DEF TypeInv
<1>3. CASE World \/ UNCHANGED vars
  <2>1. UNCHANGED <<store, got, snap, key, pending, observed, pc>>
    BY <1>3 DEF World, cacheVars, vars, marks, locals
  <2> QED BY <2>1 DEF StaleInv, JudgedStale, Outdated, Lapsed, DepsDiffer
<1> QED BY <1>2, <1>3 DEF Next

(* Without delete faults nothing is ever quarantined, and no thread is     *)
(* inside an operation that is not used.                                   *)
THEOREM AllowedInvariance == Spec => []Allowed
<1>1. Init => Allowed
    BY DEF Init, Allowed, ClearLabels, VerifyLabels
<1>2. FlightInv /\ TypeInv /\ Allowed /\ [Next]_vars => Allowed'
  <2> SUFFICES ASSUME FlightInv, TypeInv, Allowed, [Next]_vars PROVE Allowed'
    OBVIOUS
  <2>1. ASSUME NEW t \in Threads, Start(t) \/ Step(t) PROVE Allowed'
    BY <2>1, StepEnters, EntersAllowed DEF FlightInv, TypeInv
  <2>2. CASE World \/ UNCHANGED vars
    BY <2>2 DEF World, cacheVars, vars, marks, Allowed
  <2> QED BY <2>1, <2>2 DEF Next
<1> QED BY <1>1, <1>2, FlightInvariance, TypeInvariance, PTL DEF Spec

(* An entry that the classification of a miss deletes has expired or was   *)
(* computed from other dependencies than the caller saw, although it looks *)
(* the entry up once more after it was judged.                             *)
THEOREM OnlyStaleIsDeletedHolds ==
    ASSUME "profile" \notin Operations, "clear" \in Operations => MaxDeleteFaults = 0
    PROVE  Spec => []OnlyStaleIsDeleted
<1>1. Init => StaleInv
    BY DEF Init, StaleInv, JudgedStale
<1>2. FlightInv /\ FlightInv' /\ TypeInv /\ TypeInv' /\ Allowed /\ DepsInv /\ StaleInv
        /\ [Next]_vars => StaleInv'
    BY StepKeepsStale DEF DepsInv
<1>3. FlightInv /\ TypeInv /\ StaleInv => OnlyStaleIsDeleted
  <2> SUFFICES ASSUME FlightInv, TypeInv, StaleInv, NEW t \in Threads, pc[t] = "delete_stale"
               PROVE  Expired(got[t], Now(clock)) \/ DepsDiffer(got[t], snap[t])
    BY DEF OnlyStaleIsDeleted
  <2>1. Outdated(got[t], t) /\ got[t] # NoEntry
    BY DEF StaleInv, JudgedStale, TypeInv, HoldsEntry, Held
  <2>2. got[t].expires \in Nat /\ observed \in Nat /\ clock \in Nat
    BY <2>1, TypedIsReadable DEF FlightInv, TypeInv, DataTypes, Readable
  <2> QED BY <2>1, <2>2 DEF Outdated, Lapsed, Expired, Now, Later
<1> QED BY <1>1, <1>2, <1>3, FlightInvariance, TypeInvariance, AllowedInvariance,
           DepsInvariance, PTL
        DEF Spec

-----------------------------------------------------------------------------
(* Part 4: at rest the store is within max_memory.                         *)

(* Every stored entry is tracked with its size, or the thread that will    *)
(* track it or remove it is on its way.                                    *)
Profiled(k) == \E u \in Threads : pc[u] = "profile_delete" /\ key[u] = k

(* The thread t will still track or delete what is stored for k.           *)
Owes(t, k) ==
    \/ pc[t] = "admit" /\ key[t] = k
    \/ pc[t] = "evict" /\ k \in Members(todo[t])
    \/ pc[t] = "note_eviction" /\ k \in Members(Tail(todo[t]))
    \/ pc[t] = "profile_delete" /\ key[t] = k

TracksEntry(b, k) == k \in Tracked(b) /\ SizeOf(b, k) = store[k].size

Accounted(k) ==
    store[k] # NoEntry => TracksEntry(budget, k) \/ \E t \in Threads : Owes(t, k)

(* Where a thread is about to forget its key, the entry is gone, unless    *)
(* profile() has just put its own there.                                   *)
Emptying ==
    {"miss_invalidated", "label_stale", "forget_refuted", "mark_invalidated",
     "forget_invalidated"}

Emptied(t) == (pc[t] \in Emptying /\ store[key[t]] # NoEntry) => Profiled(key[t])

AdmitMatches(t) ==
    (pc[t] = "admit" /\ store[key[t]] # NoEntry) =>
        store[key[t]].size = bytes[t] \/ Profiled(key[t])

AccountInv ==
    /\ \A k \in Keys : Accounted(k)
    /\ \A t \in Threads : Emptied(t) /\ AdmitMatches(t) /\ pc[t] # "remember_eviction"

(* The steps that leave the sizes alone: they may remove entries and touch *)
(* keys, and lead to no label that stands for something above.             *)
Owing == {"admit", "evict", "remember_eviction", "note_eviction", "profile_delete"}

LeavesSizes(t) ==
    /\ Erases
    /\ UNCHANGED budget \/ \E k \in Keys : budget' = Touch(budget, k)
    /\ pc[t] \notin Owing /\ pc'[t] \notin Owing
    /\ pc'[t] \in Emptying => store'[key[t]] = NoEntry \/ pc[t] \in Emptying
    /\ \A u \in Threads \ {t} :
        pc'[u] = pc[u] /\ key'[u] = key[u] /\ todo'[u] = todo[u] /\ bytes'[u] = bytes[u]
    /\ pc'[t] \in Emptying => key'[t] = key[t]

LEMMA TouchTracks ==
    ASSUME WellKept(budget, Keys), UNCHANGED budget \/ \E k \in Keys : budget' = Touch(budget, k),
           NEW k \in Keys
    PROVE  /\ k \in Tracked(budget) => k \in Tracked(budget')
           /\ k \in Tracked(budget) => SizeOf(budget', k) = SizeOf(budget, k)
<1>1. ASSUME NEW j \in Keys, budget' = Touch(budget, j)
      PROVE  /\ k \in Tracked(budget) => k \in Tracked(budget')
             /\ k \in Tracked(budget) => SizeOf(budget', k) = SizeOf(budget, k)
    BY <1>1, TouchIsConsistent DEF WellKept
<1> QED BY <1>1

LEMMA LeaveKeepsAccounts ==
    ASSUME NEW t \in Threads, LeavesSizes(t), FlightTypes, WellKept(budget, Keys), AccountInv
    PROVE  AccountInv'
<1>1. \A k \in Keys : Profiled(k) => Profiled(k)'
    BY DEF Profiled, LeavesSizes, Owing
<1>2. \A k \in Keys, u \in Threads : Owes(u, k) => Owes(u, k)'
    BY DEF Owes, LeavesSizes, Owing
<1>3. ASSUME NEW k \in Keys PROVE Accounted(k)'
  <2>1. TracksEntry(budget, k) /\ store'[k] = store[k] => TracksEntry(budget, k)'
    BY TouchTracks DEF TracksEntry, LeavesSizes
  <2> QED BY <1>2, <2>1 DEF AccountInv, Accounted, LeavesSizes, Erases
<1>4. ASSUME NEW u \in Threads
      PROVE  (Emptied(u) /\ AdmitMatches(u) /\ pc[u] # "remember_eviction")'
    BY <1>1 DEF AccountInv, Emptied, AdmitMatches, LeavesSizes, Erases, Owing, FlightTypes
<1> QED BY <1>3, <1>4 DEF AccountInv

(* A key that a thread has emptied is forgotten.                           *)
ForgetsKey(t) ==
    /\ pc[t] \in Emptying /\ pc'[t] \notin Owing \union Emptying
    /\ budget' = Forget(budget, key[t])
    /\ \A u \in Threads \ {t} : pc'[u] = pc[u]
    /\ UNCHANGED <<store, key, todo, bytes>>

LEMMA ForgetKeepsAccounts ==
    ASSUME NEW t \in Threads, ForgetsKey(t), FlightTypes, WellKept(budget, Keys), AccountInv
    PROVE  AccountInv'
<1>0. key[t] \in Keys /\ pc[t] \notin Owing
    BY DEF FlightTypes, ForgetsKey, Emptying, Owing
<1>1. \A k \in Keys : Profiled(k) => Profiled(k)'
    BY <1>0 DEF Profiled, ForgetsKey, Owing
<1>2. \A k \in Keys, u \in Threads : Owes(u, k) => Owes(u, k)'
    BY <1>0 DEF Owes, ForgetsKey, Owing
<1>3. ASSUME NEW k \in Keys, k # key[t] PROVE TracksEntry(budget, k) => TracksEntry(budget, k)'
    BY <1>0, <1>3, ForgetIsConsistent DEF TracksEntry, ForgetsKey, WellKept
<1>4. ASSUME NEW k \in Keys PROVE Accounted(k)'
  <2>1. CASE k = key[t]
    <3>1. store[k] # NoEntry => \E u \in Threads : Owes(u, k)
        BY <2>1 DEF AccountInv, Emptied, ForgetsKey, Profiled, Owes
    <3> QED BY <1>2, <3>1 DEF Accounted, ForgetsKey
  <2>2. CASE k # key[t]
    BY <1>2, <1>3, <2>2 DEF AccountInv, Accounted, ForgetsKey
  <2> QED BY <2>1, <2>2
<1>5. ASSUME NEW u \in Threads
      PROVE  (Emptied(u) /\ AdmitMatches(u) /\ pc[u] # "remember_eviction")'
    BY <1>0, <1>1 DEF AccountInv, Emptied, AdmitMatches, ForgetsKey, Owing, FlightTypes
<1> QED BY <1>4, <1>5 DEF AccountInv

(* An entry is written, to be admitted or, by profile(), to be removed.    *)
PutsSized(t) ==
    /\ \A k \in Keys \ {key[t]} : store'[k] = store[k]
    /\ pc[t] \notin Owing
    /\ \/ pc'[t] = "admit" /\ pc[t] \in InFlight /\ store'[key[t]].size = bytes'[t]
       \/ pc'[t] = "profile_delete"
    /\ \A u \in Threads \ {t} : pc'[u] = pc[u] /\ bytes'[u] = bytes[u]
    /\ UNCHANGED <<budget, key, todo>>

LEMMA PutKeepsAccounts ==
    ASSUME NEW t \in Threads, PutsSized(t), FlightInv, AccountInv
    PROVE  AccountInv'
<1>0. key[t] \in Keys /\ \A u \in Threads : key[u] \in Keys
    BY DEF FlightInv, FlightTypes
<1>1. \A k \in Keys : Profiled(k) => Profiled(k)'
    BY <1>0 DEF Profiled, PutsSized, Owing
<1>2. \A k \in Keys, u \in Threads : Owes(u, k) => Owes(u, k)'
    BY <1>0 DEF Owes, PutsSized, Owing
<1>3. Owes(t, key[t])'
    BY DEF PutsSized, Owes
<1>4. ASSUME NEW k \in Keys PROVE Accounted(k)'
  <2>1. CASE k = key[t]
    BY <1>3, <2>1 DEF Accounted, PutsSized
  <2>2. CASE k # key[t]
    BY <1>2, <2>2 DEF AccountInv, Accounted, TracksEntry, PutsSized
  <2> QED BY <2>1, <2>2
<1>5. ASSUME NEW u \in Threads
      PROVE  (Emptied(u) /\ AdmitMatches(u) /\ pc[u] # "remember_eviction")'
  <2>1. CASE u = t
    BY <2>1 DEF Emptied, AdmitMatches, PutsSized, Emptying
  <2>2. CASE u # t /\ key[u] # key[t]
    BY <1>0, <1>1, <2>2 DEF AccountInv, Emptied, AdmitMatches, PutsSized
  <2>3. CASE u # t /\ key[u] = key[t] /\ pc'[t] = "profile_delete"
    <3>1. Profiled(key[u])'
        BY <2>3 DEF Profiled, PutsSized
    <3> QED BY <2>3, <3>1 DEF AccountInv, Emptied, AdmitMatches, PutsSized
  <2>4. CASE u # t /\ key[u] = key[t] /\ pc[t] \in InFlight
    <3>1. pc[u] \notin InFlight
        BY <2>4 DEF FlightInv, FlightTypes, HolderIsInFlight
    <3> QED BY <2>4, <3>1 DEF AccountInv, Emptied, AdmitMatches, PutsSized, Emptying, InFlight
  <2> QED BY <2>1, <2>2, <2>3, <2>4 DEF PutsSized
<1> QED BY <1>4, <1>5 DEF AccountInv

(* An entry that a thread owes for is deleted.                             *)
DeletesOwed(t) ==
    /\ \E k \in Keys :
        /\ \A j \in Keys : store'[j] = IF j = k THEN NoEntry ELSE store[j]
        /\ \A j \in Keys \ {k} : Owes(t, j) => Owes(t, j)'
        /\ pc[t] = "profile_delete" => k = key[t]
    /\ pc'[t] \notin {"admit", "remember_eviction"} \union Emptying
    /\ \A u \in Threads \ {t} : pc'[u] = pc[u]
    /\ UNCHANGED <<budget, key, todo, bytes>>

LEMMA DeleteKeepsAccounts ==
    ASSUME NEW t \in Threads, DeletesOwed(t), FlightTypes, AccountInv
    PROVE  AccountInv'
<1>1. PICK k \in Keys :
        /\ \A j \in Keys : store'[j] = IF j = k THEN NoEntry ELSE store[j]
        /\ \A j \in Keys \ {k} : Owes(t, j) => Owes(t, j)'
        /\ pc[t] = "profile_delete" => k = key[t]
    BY DEF DeletesOwed
<1>2. ASSUME NEW j \in Keys, j # k, NEW u \in Threads, Owes(u, j) PROVE Owes(u, j)'
  <2>1. CASE u = t
    BY <1>1, <1>2, <2>1
  <2>2. CASE u # t
    BY <1>2, <2>2 DEF DeletesOwed, Owes
  <2> QED BY <2>1, <2>2
<1>3. ASSUME NEW j \in Keys, j # k, Profiled(j) PROVE Profiled(j)'
  <2>1. PICK u \in Threads : pc[u] = "profile_delete" /\ key[u] = j
    BY <1>3 DEF Profiled
  <2>2. u # t
    BY <1>1, <1>3, <2>1
  <2> QED BY <2>1, <2>2 DEF Profiled, DeletesOwed
<1>4. ASSUME NEW j \in Keys PROVE Accounted(j)'
  <2>1. CASE j = k
    BY <1>1, <2>1 DEF Accounted
  <2>2. CASE j # k
    BY <1>1, <1>2, <2>2 DEF AccountInv, Accounted, TracksEntry, DeletesOwed
  <2> QED BY <2>1, <2>2
<1>5. ASSUME NEW u \in Threads
      PROVE  (Emptied(u) /\ AdmitMatches(u) /\ pc[u] # "remember_eviction")'
  <2>1. CASE u = t
    BY <2>1 DEF Emptied, AdmitMatches, DeletesOwed
  <2>2. CASE u # t
    <3>1. key[u] \in Keys
        BY DEF FlightTypes
    <3> QED BY <1>1, <1>3, <2>2, <3>1 DEF AccountInv, Emptied, AdmitMatches, DeletesOwed
  <2> QED BY <2>1, <2>2
<1> QED BY <1>4, <1>5 DEF AccountInv

(* The entry that was written is admitted: what is evicted is owed for.    *)
LEMMA AdmitKeepsAccounts ==
    ASSUME NEW t \in Threads, AdmitEntry(t), FlightTypes, BudgetInv, AccountInv
    PROVE  AccountInv'
<1> DEFINE after == Admit(budget, key[t], bytes[t]).budget
           evicted == Admit(budget, key[t], bytes[t]).evicted
<1>1. /\ budget' = after /\ todo' = [todo EXCEPT ![t] = evicted]
      /\ pc' = [pc EXCEPT ![t] = IF evicted = <<>> THEN "settle" ELSE "evict"]
      /\ pc[t] = "admit"
      /\ UNCHANGED <<store, key, bytes>>
    BY DEF AdmitEntry, Goto
<1>2. bytes[t] \in Nat /\ bytes[t] <= MaxBytes /\ key[t] \in Keys
    BY <1>1 DEF BudgetInv, AdmitReady, FlightTypes
<1>3. Admits(budget, key[t], bytes[t], after, evicted)
    BY DEF Admits
<1> HIDE DEF after, evicted
<1>4. /\ evicted \in Seq(Keys)
      /\ Tracked(after) = (Tracked(budget) \ Members(evicted)) \union {key[t]}
      /\ SizeOf(after, key[t]) = bytes[t]
      /\ \A j \in Tracked(budget) \ (Members(evicted) \union {key[t]}) :
            SizeOf(after, j) = SizeOf(budget, j)
    BY <1>2, <1>3, AdmitIsWellKept DEF BudgetInv, WellKept
<1>5. todo'[t] = evicted /\ \A u \in Threads \ {t} : todo'[u] = todo[u] /\ pc'[u] = pc[u]
    BY <1>1 DEF BudgetInv, TodoTyped, FlightTypes
<1>6. pc'[t] = IF evicted = <<>> THEN "settle" ELSE "evict"
    BY <1>1 DEF FlightTypes
<1>7. evicted = <<>> => Members(evicted) = {}
    BY DEF Members
<1>8. \A k \in Members(evicted) : Owes(t, k)'
    BY <1>5, <1>6, <1>7 DEF Owes
<1>9. \A k \in Keys : Profiled(k) => Profiled(k)'
    BY <1>1, <1>5 DEF Profiled
<1>10. \A k \in Keys, u \in Threads \ {t} : Owes(u, k) => Owes(u, k)'
    BY <1>1, <1>5 DEF Owes
<1>11. ASSUME NEW k \in Keys PROVE Accounted(k)'
  <2>1. CASE k = key[t]
    <3>1. store[k] # NoEntry /\ store[k].size # bytes[t] => Profiled(k)'
        BY <1>1, <1>9, <2>1 DEF AccountInv, AdmitMatches
    <3>2. Profiled(k)' => \E u \in Threads : Owes(u, k)'
        BY DEF Profiled, Owes
    <3> QED BY <1>1, <1>4, <2>1, <3>1, <3>2 DEF Accounted, TracksEntry
  <2>2. CASE k # key[t]
    <3>1. \A u \in Threads : Owes(u, k) => u # t
        BY <1>1, <2>2 DEF Owes
    <3>2. TracksEntry(budget, k) /\ k \notin Members(evicted) => TracksEntry(budget, k)'
        BY <1>1, <1>4, <2>2 DEF TracksEntry
    <3> QED BY <1>1, <1>8, <1>10, <3>1, <3>2 DEF AccountInv, Accounted
  <2> QED BY <2>1, <2>2
<1>12. ASSUME NEW u \in Threads
       PROVE  (Emptied(u) /\ AdmitMatches(u) /\ pc[u] # "remember_eviction")'
    BY <1>1, <1>5, <1>6, <1>9 DEF AccountInv, Emptied, AdmitMatches, Emptying, FlightTypes
<1> QED BY <1>11, <1>12 DEF AccountInv

LEMMA MembersOfTail ==
    ASSUME NEW S, NEW seq \in Seq(S), seq # <<>>, NEW x \in Members(seq), x # Head(seq)
    PROVE  x \in Members(Tail(seq))
<1>1. /\ Len(Tail(seq)) = Len(seq) - 1 /\ Head(seq) = seq[1]
      /\ \A i \in 1 .. Len(Tail(seq)) : Tail(seq)[i] = seq[i + 1]
      /\ Tail(seq) \in Seq(S)
    BY HeadTailProperties
<1>2. PICK i \in 1 .. Len(seq) : seq[i] = x
    BY DEF Members
<1>3. i - 1 \in 1 .. Len(Tail(seq)) /\ (i - 1) + 1 = i
    BY <1>1, <1>2
<1>4. Tail(seq)[i - 1] = x
    BY <1>1, <1>2, <1>3
<1>5. i - 1 \in DOMAIN Tail(seq)
    BY <1>1, <1>3
<1> QED BY ONLY <1>4, <1>5 DEF Members

(* The next evicted key is done.                                           *)
LEMMA NoteKeepsAccounts ==
    ASSUME NEW t \in Threads, NoteEviction(t), FlightTypes, BudgetInv, AccountInv
    PROVE  AccountInv'
<1>1. /\ pc[t] = "note_eviction" /\ todo[t] \in Seq(Keys) /\ todo[t] # <<>>
      /\ todo'[t] = Tail(todo[t])
      /\ pc'[t] = IF Len(todo[t]) = 1 THEN "settle" ELSE "evict"
      /\ \A u \in Threads \ {t} : pc'[u] = pc[u] /\ todo'[u] = todo[u]
      /\ UNCHANGED <<store, budget, key, bytes>>
    BY DEF NoteEviction, Goto, FlightTypes, BudgetInv, TodoTyped, HasKeys
<1>2. Len(todo[t]) = 1 => Members(Tail(todo[t])) = {}
  <2>1. Tail(todo[t]) \in Seq(Keys) /\ Len(Tail(todo[t])) = Len(todo[t]) - 1
    BY <1>1, HeadTailProperties
  <2>2. Len(todo[t]) = 1 => Len(Tail(todo[t])) = 0
    BY <2>1
  <2>3. Len(Tail(todo[t])) = 0 => Tail(todo[t]) = <<>>
    BY <2>1, EmptySeq
  <2> QED BY <2>2, <2>3 DEF Members
<1>3. \A k \in Keys : Profiled(k) => Profiled(k)'
    BY <1>1 DEF Profiled
<1>4. \A k \in Keys, u \in Threads : Owes(u, k) => Owes(u, k)'
    BY <1>1, <1>2 DEF Owes
<1>5. ASSUME NEW k \in Keys PROVE Accounted(k)'
    BY <1>1, <1>4 DEF AccountInv, Accounted, TracksEntry
<1>6. ASSUME NEW u \in Threads
      PROVE  (Emptied(u) /\ AdmitMatches(u) /\ pc[u] # "remember_eviction")'
    BY <1>1, <1>3 DEF AccountInv, Emptied, AdmitMatches, Emptying, FlightTypes
<1> QED BY <1>5, <1>6 DEF AccountInv

-----------------------------------------------------------------------------
(* Every step of a thread is one of these moves, where there is a budget,  *)
(* no delete fails and clear() is not used.                                *)
Unfailing == HasBudget /\ MaxDeleteFaults = 0 /\ "clear" \notin Operations

AccountMove(t) ==
    \/ LeavesSizes(t) \/ ForgetsKey(t) \/ PutsSized(t) \/ DeletesOwed(t)
    \/ AdmitEntry(t) \/ NoteEviction(t)

LEMMA DeletesSucceed ==
    ASSUME Unfailing, DataTypes, NEW k
    PROVE  ~ DeleteRaises(k)
BY DEF Unfailing, DataTypes, DeleteRaises

LEMMA BudgetActs ==
    ASSUME Unfailing, NEW k
    PROVE  /\ BudgetForgets(k) => budget' = Forget(budget, k)
           /\ BudgetTouches(k) => budget' = Touch(budget, k)
BY DEF Unfailing, BudgetForgets, BudgetTouches

LEMMA StartAccounts ==
    ASSUME NEW t \in Threads, Start(t), FlightTypes, DataTypes
    PROVE  LeavesSizes(t)
<1> USE DEF FlightTypes, DataTypes, Goto, LeavesSizes, Erases, Owing, Emptying
<1>1. ASSUME NEW k \in Keys, StartCall(t, k) PROVE LeavesSizes(t)
    BY <1>1 DEF StartCall
<1>2. ASSUME NEW k \in Keys, StartInvalidate(t, k) \/ StartProfile(t, k) PROVE LeavesSizes(t)
    BY <1>2 DEF StartInvalidate, StartProfile
<1>3. CASE StartClear(t)
    BY <1>3 DEF StartClear, locals
<1> QED BY <1>1, <1>2, <1>3 DEF Start

LEMMA CallAccounts ==
    ASSUME NEW t \in Threads, CallStep(t), FlightTypes, DataTypes, Unfailing
    PROVE  AccountMove(t)
<1> USE DEF FlightTypes, DataTypes, Goto, AccountMove, LeavesSizes, Erases, Owing, Emptying
<1>1. CASE EnterFlight(t)
    BY <1>1 DEF EnterFlight, AfterLock, locals
<1>2. CASE Lookup(t)
    BY <1>2 DEF Lookup, AfterLookup
<1>3. CASE JudgeFast(t) \/ JudgeLocked(t)
  <2>1. /\ pc[t] \in {"judge", "rejudge"} /\ UNCHANGED <<store, locals>>
        /\ \E label \in {"served", "lock", "classify"} : Goto(t, label)
        /\ BudgetTouches(key[t]) \/ UNCHANGED budget
    BY <1>3 DEF JudgeFast, JudgeLocked
  <2>2. UNCHANGED <<key, todo, got, bytes>>
    BY <2>1 DEF locals
  <2> QED BY <2>1, <2>2, BudgetActs
<1>4. CASE ClassifyPending(t) \/ ClassifyStale(t) \/ ClassifyAbsent(t)
    BY <1>4 DEF ClassifyPending, ClassifyStale, ClassifyAbsent, locals
<1>5. CASE RetryDelete(t)
    BY <1>5, DeletesSucceed DEF RetryDelete, Deleted, locals
<1>6. CASE MissInvalidated(t)
    BY <1>6, BudgetActs DEF MissInvalidated, ForgetsKey, locals
<1>7. CASE DeleteStale(t)
    BY <1>7, DeletesSucceed DEF DeleteStale, DeleteTried, Deleted, locals
<1>8. CASE LabelStale(t)
    BY <1>8, BudgetActs DEF LabelStale, ForgetsKey, locals
<1>9. CASE RunReturns(t)
    BY <1>9 DEF RunReturns
<1>10. CASE RunRaises(t)
    BY <1>10 DEF RunRaises, locals
<1>11. CASE Return(t)
    BY <1>11 DEF Return
<1> QED BY <1>1, <1>2, <1>3, <1>4, <1>5, <1>6, <1>7, <1>8, <1>9, <1>10, <1>11 DEF CallStep

LEMMA CommitAccounts ==
    ASSUME NEW t \in Threads, CommitStep(t), FlightTypes, DataTypes, BudgetInv, AccountInv,
           Unfailing
    PROVE  AccountMove(t)
<1> USE DEF FlightTypes, DataTypes, Goto, AccountMove, Owing, Emptying
<1>1. CASE RecheckDeps(t) \/ SkipUnsized(t) \/ WriteFails(t)
    BY <1>1 DEF RecheckDeps, SkipUnsized, WriteFails, Conclude, LeavesSizes, Erases, locals
<1>2. CASE Write(t)
  <2>1. PICK n \in Storable :
            /\ bytes' = [bytes EXCEPT ![t] = n]
            /\ StorePut(key[t], EntryOf(key[t], val[t], snap[t], Now(clock), n))
    BY <1>2 DEF Write
  <2>2. /\ bytes'[t] = n /\ \A u \in Threads \ {t} : bytes'[u] = bytes[u]
        /\ store' = [store EXCEPT ![key[t]] = EntryOf(key[t], val[t], snap[t], Now(clock), n)]
    BY <2>1 DEF StorePut
  <2>3. EntryOf(key[t], val[t], snap[t], Now(clock), n).size = n
    BY DEF EntryOf
  <2> HIDE DEF EntryOf
  <2>4. /\ \A k \in Keys \ {key[t]} : store'[k] = store[k]
        /\ store'[key[t]].size = bytes'[t]
    BY <2>2, <2>3
  <2> QED BY <1>2, <2>2, <2>4 DEF Write, PutsSized, Unfailing, InFlight
<1>3. CASE AdmitEntry(t) \/ NoteEviction(t)
    BY <1>3
<1>4. CASE EvictDelete(t)
  <2>1. /\ pc[t] = "evict" /\ pc'[t] = "note_eviction"
        /\ store' = [store EXCEPT ![Head(todo[t])] = NoEntry]
        /\ \A u \in Threads \ {t} : pc'[u] = pc[u]
        /\ UNCHANGED <<budget, key, todo, bytes>>
    BY <1>4, DeletesSucceed DEF EvictDelete, Deleted, locals
  <2>2. todo[t] \in Seq(Keys) /\ todo[t] # <<>>
    BY <2>1 DEF BudgetInv, TodoTyped, HasKeys
  <2>3. Head(todo[t]) \in Keys
    BY <2>2, HeadTailProperties
  <2>4. \A j \in Members(todo[t]) : j # Head(todo[t]) => j \in Members(Tail(todo[t]))
    BY <2>2, MembersOfTail
  <2>5. \A j \in Keys \ {Head(todo[t])} : Owes(t, j) => Owes(t, j)'
    BY <2>1, <2>4 DEF Owes
  <2>6. \A j \in Keys : store'[j] = IF j = Head(todo[t]) THEN NoEntry ELSE store[j]
    BY <2>1
  <2> QED BY <2>1, <2>3, <2>5, <2>6 DEF DeletesOwed
<1>5. CASE RememberEviction(t)
    BY <1>5 DEF RememberEviction, AccountInv
<1>6. CASE Settle(t) \/ DrainForget(t) \/ FinishCommit(t)
    BY <1>6 DEF Settle, DrainForget, FinishCommit, Conclude, LeavesSizes, Erases, BudgetInv,
        TodoTyped, locals
<1>7. CASE DrainDelete(t)
    BY <1>7, DeletesSucceed DEF DrainDelete, Deleted, LeavesSizes, Erases
<1> QED BY <1>1, <1>2, <1>3, <1>4, <1>5, <1>6, <1>7 DEF CommitStep

LEMMA VerifyAccounts ==
    ASSUME NEW t \in Threads, VerifyStep(t), FlightTypes, DataTypes, Unfailing
    PROVE  AccountMove(t)
<1> USE DEF FlightTypes, DataTypes, Goto, AccountMove, LeavesSizes, Erases, Owing, Emptying
<1>1. CASE JudgeVerify(t) \/ VerifyConfirms(t) \/ VerifyRefutes(t) \/ WarningRaises(t)
    BY <1>1, BudgetActs DEF JudgeVerify, VerifyConfirms, VerifyRefutes, WarningRaises, locals
<1>2. CASE DeleteRefuted(t)
    BY <1>2, DeletesSucceed DEF DeleteRefuted, DeleteTried, Deleted, locals
<1>3. CASE ForgetRefuted(t)
    BY <1>3, BudgetActs DEF ForgetRefuted, ForgetsKey, locals
<1> QED BY <1>1, <1>2, <1>3 DEF VerifyStep

LEMMA ControlAccounts ==
    ASSUME NEW t \in Threads, ControlStep(t), FlightTypes, DataTypes, Allowed, Unfailing
    PROVE  AccountMove(t)
<1> USE DEF FlightTypes, DataTypes, Goto, AccountMove, LeavesSizes, Erases, Owing, Emptying
<1>1. CASE InvalidateDelete(t)
    BY <1>1, DeletesSucceed DEF InvalidateDelete, Deleted, locals
<1>2. CASE InvalidateMark(t) \/ InvalidateQuarantine(t)
    BY <1>2 DEF InvalidateMark, InvalidateQuarantine, Allowed, Unfailing, locals
<1>3. CASE InvalidateReturns(t)
    BY <1>3, BudgetActs DEF InvalidateReturns, ForgetsKey, locals
<1>4. ~ (ClearEntry(t) \/ ClearStore(t) \/ ClearRaises(t) \/ ClearBudget(t) \/ ClearMarks(t))
    BY DEF ClearEntry, ClearStore, ClearRaises, ClearBudget, ClearMarks, Allowed, ClearLabels, Unfailing
<1>5. CASE ProfileLookup(t) \/ ProfileWriteFails(t)
    BY <1>5 DEF ProfileLookup, ProfileWriteFails, ProfileEnds
<1>6. CASE ProfileWrite(t)
    BY <1>6 DEF ProfileWrite, StorePut, PutsSized, locals
<1>7. CASE ProfileDelete(t)
  <2>1. /\ pc[t] = "profile_delete" /\ pc'[t] = "idle"
        /\ store' = [store EXCEPT ![key[t]] = NoEntry]
        /\ \A u \in Threads \ {t} : pc'[u] = pc[u]
        /\ UNCHANGED <<budget, key, todo, bytes>>
    BY <1>7, DeletesSucceed DEF ProfileDelete, ProfileEnds, DeleteTried, Deleted
  <2>2. \A j \in Keys \ {key[t]} : Owes(t, j) => Owes(t, j)'
    BY <2>1 DEF Owes
  <2>3. \A j \in Keys : store'[j] = IF j = key[t] THEN NoEntry ELSE store[j]
    BY <2>1
  <2> QED BY <2>1, <2>2, <2>3 DEF DeletesOwed
<1> QED BY <1>1, <1>2, <1>3, <1>4, <1>5, <1>6, <1>7 DEF ControlStep

LEMMA MoveKeepsAccounts ==
    ASSUME NEW t \in Threads, AccountMove(t), FlightInv, BudgetInv, AccountInv
    PROVE  AccountInv'
BY LeaveKeepsAccounts, ForgetKeepsAccounts, PutKeepsAccounts, DeleteKeepsAccounts,
   AdmitKeepsAccounts, NoteKeepsAccounts
    DEF AccountMove, FlightInv, BudgetInv

LEMMA StepKeepsAccounts ==
    ASSUME FlightInv, DataTypes, Allowed, BudgetInv, AccountInv, [Next]_vars, Unfailing
    PROVE  AccountInv'
<1>1. ASSUME NEW t \in Threads, Start(t) \/ Step(t) PROVE AccountInv'
  <2>1. AccountMove(t)
    BY <1>1, StartAccounts, CallAccounts, CommitAccounts, VerifyAccounts, ControlAccounts
        DEF Step, FlightInv, AccountMove
  <2> QED BY <2>1, MoveKeepsAccounts
<1>2. CASE World \/ UNCHANGED vars
  <2>1. UNCHANGED <<store, budget, key, pc, todo, bytes>>
    BY <1>2 DEF World, cacheVars, vars, locals
  <2> QED BY <2>1 DEF AccountInv, Accounted, Emptied, AdmitMatches, TracksEntry, Owes, Profiled
<1> QED BY <1>1, <1>2 DEF Next

(* What is stored at rest is tracked with its size, so it weighs no more   *)
(* than the total.                                                         *)
LEMMA StoredBytesAreTracked ==
    ASSUME DataTypes, WellKept(budget, Keys),
           \A k \in Keys : store[k] # NoEntry => TracksEntry(budget, k)
    PROVE  StoredBytes <= MaxBytes
<1> DEFINE kept == {k \in Present : store[k].size >= 0 /\ ~ InSeq(k, ledger)}
           T == Tracked(budget)
           f == [k \in kept |-> store[k].size]
           g == [k \in T |-> SizeOf(budget, k)]
<1>1. /\ budget.lru \in Seq(Items(Keys)) /\ OnePerKey(budget.lru)
      /\ budget.total = Weight(budget) /\ budget.total <= MaxBytes
    BY DEF WellKept, Consistent
<1>2. IsFiniteSet(T) /\ \A k \in T : SizeOf(budget, k) \in Nat
    BY <1>1, TrackedIsFinite, TrackedKey
<1>3. kept \subseteq T /\ \A k \in kept : store[k].size = SizeOf(budget, k)
    BY DEF TracksEntry, Present
<1>4. StoredBytes = SumFunctionOnSet(f, kept) /\ Weight(budget) = SumFunctionOnSet(g, T)
    BY DEF StoredBytes, Weight, SumFunction
<1> HIDE DEF T, kept
<1>5. \A k \in T : g[k] \in Nat
    BY <1>2
<1>6. \A k \in kept : f[k] \in Nat /\ f[k] = g[k]
    BY <1>2, <1>3
<1> HIDE DEF f, g
<1>7. IsFiniteSet(kept) /\ T \cap kept = kept
    BY <1>2, <1>3, FS_Subset
<1>8. SumFunctionOnSet(f, kept) = SumFunctionOnSet(g, kept)
    BY <1>6, <1>7, SumAgrees
<1>9. SumFunctionOnSet(g, T) = SumFunctionOnSet(g, T \cap kept) + SumFunctionOnSet(g, T \ kept)
    BY <1>2, <1>5, SumSplits
<1>10. SumFunctionOnSet(g, T \ kept) \in Nat /\ SumFunctionOnSet(g, kept) \in Nat
    BY <1>2, <1>3, <1>5, <1>7, FS_Difference, SumIsNat
<1>11. budget.total = StoredBytes + SumFunctionOnSet(g, T \ kept)
    BY <1>1, <1>4, <1>7, <1>8, <1>9
<1>12. StoredBytes \in Nat
    BY <1>4, <1>8, <1>10
<1> QED BY ONLY <1>1, <1>10, <1>11, <1>12, MaxBytesAssumption

(* max_memory bounds what is stored whenever no operation is under way.    *)
THEOREM BoundHoldsAtRestHolds ==
    ASSUME MaxDeleteFaults = 0, "clear" \notin Operations
    PROVE  Spec => []BoundHoldsAtRest
<1>1. CASE HasBudget
  <2>1. Unfailing
    BY <1>1 DEF Unfailing
  <2>2. Init => AccountInv
    BY DEF Init, AccountInv, Accounted, Emptied, AdmitMatches
  <2>3. FlightInv /\ TypeInv /\ Allowed /\ BudgetInv /\ AccountInv /\ [Next]_vars => AccountInv'
    BY <2>1, StepKeepsAccounts DEF TypeInv
  <2>4. TypeInv /\ BudgetInv /\ AccountInv => BoundHoldsAtRest
    <3> SUFFICES ASSUME TypeInv, BudgetInv, AccountInv, AtRest PROVE StoredBytes <= MaxBytes
        BY DEF BoundHoldsAtRest
    <3>1. \A t \in Threads, k \in Keys : ~ Owes(t, k)
        BY DEF AtRest, Owes
    <3>2. \A k \in Keys : store[k] # NoEntry => TracksEntry(budget, k)
        BY <3>1 DEF AccountInv, Accounted
    <3> QED BY <3>2, StoredBytesAreTracked DEF TypeInv, BudgetInv
  <2> QED BY <2>2, <2>3, <2>4, FlightInvariance, TypeInvariance, AllowedInvariance,
             BudgetInvariance, PTL
          DEF Spec
<1>2. CASE ~ HasBudget
  <2>1. BoundHoldsAtRest
    BY <1>2 DEF BoundHoldsAtRest
  <2> QED BY <2>1, PTL
<1> QED BY <1>1, <1>2

=============================================================================
