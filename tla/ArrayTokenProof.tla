--------------------------- MODULE ArrayTokenProof ---------------------------
(***************************************************************************)
(* ArrayToken for any number of objects, addresses and threads: a token is *)
(* the digest of the object it was asked for, and no entry of a dead       *)
(* object is left without a callback that is going to remove it.           *)
(***************************************************************************)
EXTENDS ArrayToken, TLAPS

WasBorn(o) == address[o] # "unborn"

\* Whatever is remembered describes an object that was born, and a call in
\* progress keeps its object alive.
Describes(e) ==
    e # NoHit => /\ e.ref \in Objects /\ WasBorn(e.ref)
                 /\ e.digest = DigestOf(content[e.ref])

ThreadOK(t) ==
    /\ thread[t].pc # "idle" => thread[t].object \in Objects /\ Live(thread[t].object)
    /\ Describes(thread[t].hit)
    /\ thread[t].pc \in {"insert", "done"} =>
          thread[t].token = DigestOf(content[thread[t].object])

TokenInv ==
    /\ \A o \in Objects : WasBorn(o) => content[o] \in Contents
    /\ \A a \in Addresses : Describes(memo[a])
    /\ \A t \in Threads : ThreadOK(t)

\* An entry is at the address its object has or had, which is the key its
\* callback was made with; only a dead object's callback runs.
EntryOK(a) ==
    memo[a] # NoHit =>
        /\ Live(memo[a].ref) => address[memo[a].ref] = a
        /\ callback[memo[a].ref].pc # "idle" => callback[memo[a].ref].key = a
        /\ ~Live(memo[a].ref) => callback[memo[a].ref].pc # "idle"

PruneInv ==
    /\ \A a \in Addresses : EntryOK(a)
    /\ \A o \in Objects : callback[o].pc # "idle" => address[o] = "dead"

TokenIInv == TokenTypeOK /\ TokenInv

LEMMA TokenStart == TokenInit => TokenIInv
  BY TokenAssumption
  DEF TokenInit, TokenIInv, TokenTypeOK, TokenInv, Describes, ThreadOK, Entries, NoHit,
      Calls, Idle, WasBorn

\* A step of one call changes its own record only.
LEMMA CallStep ==
  ASSUME TokenIInv, NEW t \in Threads, NEW r \in Calls,
         thread' = [thread EXCEPT ![t] = r], UNCHANGED <<address, content>>,
         r.pc # "idle" => r.object \in Objects /\ Live(r.object),
         Describes(r.hit),
         r.pc \in {"insert", "done"} => r.token = DigestOf(content[r.object])
  PROVE  /\ thread' \in [Threads -> Calls]
         /\ \A u \in Threads : ThreadOK(u)'
         /\ (\A p \in Objects : WasBorn(p) => content[p] \in Contents)'
<1>1. thread \in [Threads -> Calls] /\ \A u \in Threads : ThreadOK(u)
  BY DEF TokenIInv, TokenTypeOK, TokenInv
<1>2. thread' \in [Threads -> Calls]
  BY <1>1
<1>3. ASSUME NEW u \in Threads PROVE ThreadOK(u)'
  <2>1. CASE u = t
    BY <1>1, <2>1 DEF ThreadOK, Describes, Live, WasBorn
  <2>2. CASE u # t
    BY <1>1, <2>2 DEF ThreadOK, Describes, Live, WasBorn
  <2> QED BY <2>1, <2>2
<1>4. (\A p \in Objects : WasBorn(p) => content[p] \in Contents)'
  BY DEF TokenIInv, TokenInv, WasBorn
<1> QED BY <1>2, <1>3, <1>4

LEMMA MemoKept ==
  ASSUME TokenIInv, UNCHANGED <<address, content, memo>>
  PROVE  (\A a \in Addresses : Describes(memo[a]))'
  BY DEF TokenIInv, TokenInv, Describes, WasBorn

LEMMA TokenStep == TokenIInv /\ [TokenNext]_tokenVars => TokenIInv'
<1> SUFFICES ASSUME TokenIInv, [TokenNext]_tokenVars PROVE TokenIInv'
  OBVIOUS
<1>0. TokenTypeOK /\ TokenInv
  BY DEF TokenIInv
<1>1. ASSUME NEW o \in Objects, NEW a \in Addresses, NEW c \in Contents, Born(o, a, c)
      PROVE  TokenIInv'
  <2>1. TokenTypeOK'
    BY <1>0, <1>1 DEF Born, TokenTypeOK
  <2>2. ASSUME NEW e \in Entries, Describes(e) PROVE Describes(e)'
    BY <1>0, <1>1, <2>2, TokenAssumption DEF Born, TokenTypeOK, Describes, WasBorn, NoHit
  <2>3. \A b \in Addresses : Describes(memo[b])'
    BY <1>0, <1>1, <2>2 DEF Born, TokenTypeOK, TokenInv
  <2>4. ASSUME NEW u \in Threads PROVE ThreadOK(u)'
    <3>1. thread[u] \in Calls /\ thread'[u] = thread[u] /\ thread[u].hit \in Entries
      BY <1>0, <1>1 DEF Born, TokenTypeOK, Calls
    <3>2. Describes(thread[u].hit)'
      BY <1>0, <1>1, <2>2, <3>1 DEF TokenInv, ThreadOK, Born
    <3>3. thread[u].pc # "idle" => thread[u].object # o
      BY <1>0, <1>1, TokenAssumption DEF TokenInv, ThreadOK, Live, Born
    <3> QED
      BY <1>0, <1>1, <3>1, <3>2, <3>3 DEF TokenInv, ThreadOK, Live, Born, TokenTypeOK
  <2>5. (\A p \in Objects : WasBorn(p) => content[p] \in Contents)'
    BY <1>0, <1>1 DEF Born, TokenTypeOK, TokenInv, WasBorn
  <2> QED BY <2>1, <2>3, <2>4, <2>5 DEF TokenIInv, TokenInv
<1>2. ASSUME NEW t \in Threads, NEW o \in Objects, Call(t, o) PROVE TokenIInv'
  <2> DEFINE r == [Idle EXCEPT !.pc = "get", !.object = o]
  <2>1. r \in Calls /\ r.pc = "get" /\ r.object = o /\ r.hit = NoHit
    BY DEF Calls, Idle, Entries, NoHit
  <2>2. thread' = [thread EXCEPT ![t] = r] /\ UNCHANGED <<address, content, memo, callback>>
    BY <1>2 DEF Call
  <2>3. Live(o)
    BY <1>2 DEF Call
  <2> HIDE DEF r
  <2>4. /\ thread' \in [Threads -> Calls] /\ \A u \in Threads : ThreadOK(u)'
        /\ (\A p \in Objects : WasBorn(p) => content[p] \in Contents)'
    BY <2>1, <2>2, <2>3, CallStep DEF Describes
  <2> QED BY <1>0, <2>2, <2>4, MemoKept DEF TokenIInv, TokenInv, TokenTypeOK
<1>3. ASSUME NEW t \in Threads, Get(t) PROVE TokenIInv'
  <2> DEFINE r == [thread[t] EXCEPT !.pc = "check", !.hit = memo[address[thread[t].object]]]
  <2>0. thread[t] \in Calls /\ thread[t].object \in Objects /\ Live(thread[t].object)
    BY <1>0, <1>3 DEF Get, TokenTypeOK, TokenInv, ThreadOK
  <2>1. /\ r \in Calls /\ r.pc = "check" /\ r.object = thread[t].object
        /\ r.hit = memo[address[thread[t].object]]
    BY <1>0, <2>0 DEF Calls, TokenTypeOK, Live
  <2>2. thread' = [thread EXCEPT ![t] = r] /\ UNCHANGED <<address, content, memo, callback>>
    BY <1>0, <1>3 DEF Get, TokenTypeOK, Calls
  <2>3. Describes(r.hit)
    BY <1>0, <2>0, <2>1 DEF TokenInv, Live
  <2> HIDE DEF r
  <2>4. /\ thread' \in [Threads -> Calls] /\ \A u \in Threads : ThreadOK(u)'
        /\ (\A p \in Objects : WasBorn(p) => content[p] \in Contents)'
    BY <2>0, <2>1, <2>2, <2>3, CallStep
  <2> QED BY <1>0, <2>2, <2>4, MemoKept DEF TokenIInv, TokenInv, TokenTypeOK
<1>4. ASSUME NEW t \in Threads, Hit(t) PROVE TokenIInv'
  <2> DEFINE r == [thread[t] EXCEPT !.pc = "done", !.token = thread[t].hit.digest]
  <2>0. thread[t] \in Calls /\ thread[t].object \in Objects /\ Live(thread[t].object)
    BY <1>0, <1>4 DEF Hit, TokenTypeOK, TokenInv, ThreadOK
  <2>1. /\ r \in Calls /\ r.pc = "done" /\ r.object = thread[t].object
        /\ r.hit = thread[t].hit /\ r.token = thread[t].hit.digest
    <3>1. thread[t].hit \in Entries
      BY <2>0 DEF Calls
    <3>2. thread[t].hit.digest \in {DigestOf(c) : c \in Contents} \union {NoOne}
      BY <3>1 DEF Entries, NoHit
    <3> QED BY <2>0, <3>2 DEF Calls
  <2>2. thread' = [thread EXCEPT ![t] = r] /\ UNCHANGED <<address, content, memo, callback>>
    BY <1>0, <1>4 DEF Hit, TokenTypeOK, Calls
  <2>3. Describes(r.hit) /\ r.token = DigestOf(content[r.object])
    BY <1>0, <1>4, <2>0, <2>1, TokenAssumption
    DEF TokenInv, ThreadOK, Hit, IsTheObject, Describes, NoHit
  <2> HIDE DEF r
  <2>4. /\ thread' \in [Threads -> Calls] /\ \A u \in Threads : ThreadOK(u)'
        /\ (\A p \in Objects : WasBorn(p) => content[p] \in Contents)'
    BY <2>0, <2>1, <2>2, <2>3, CallStep
  <2> QED BY <1>0, <2>2, <2>4, MemoKept DEF TokenIInv, TokenInv, TokenTypeOK
<1>5. ASSUME NEW t \in Threads, Miss(t) PROVE TokenIInv'
  <2> DEFINE r == [thread[t] EXCEPT !.pc = "hash"]
  <2>0. thread[t] \in Calls /\ thread[t].object \in Objects /\ Live(thread[t].object)
    BY <1>0, <1>5 DEF Miss, TokenTypeOK, TokenInv, ThreadOK
  <2>1. r \in Calls /\ r.pc = "hash" /\ r.object = thread[t].object /\ r.hit = thread[t].hit
    BY <2>0 DEF Calls
  <2>2. thread' = [thread EXCEPT ![t] = r] /\ UNCHANGED <<address, content, memo, callback>>
    BY <1>0, <1>5 DEF Miss, TokenTypeOK, Calls
  <2>3. Describes(r.hit)
    BY <1>0, <2>1 DEF TokenInv, ThreadOK
  <2> HIDE DEF r
  <2>4. /\ thread' \in [Threads -> Calls] /\ \A u \in Threads : ThreadOK(u)'
        /\ (\A p \in Objects : WasBorn(p) => content[p] \in Contents)'
    BY <2>0, <2>1, <2>2, <2>3, CallStep
  <2> QED BY <1>0, <2>2, <2>4, MemoKept DEF TokenIInv, TokenInv, TokenTypeOK
<1>6. ASSUME NEW t \in Threads, Hash(t) PROVE TokenIInv'
  <2> DEFINE r == [thread[t] EXCEPT
                     !.pc = IF thread[t].object \in Referable THEN "insert" ELSE "done",
                     !.token = DigestOf(content[thread[t].object])]
  <2>0. thread[t] \in Calls /\ thread[t].object \in Objects /\ Live(thread[t].object)
    BY <1>0, <1>6 DEF Hash, TokenTypeOK, TokenInv, ThreadOK
  <2>1. content[thread[t].object] \in Contents
    BY <1>0, <2>0, TokenAssumption DEF TokenInv, Live, WasBorn
  <2>2. /\ r \in Calls /\ r.pc \in {"insert", "done"} /\ r.object = thread[t].object
        /\ r.hit = thread[t].hit /\ r.token = DigestOf(content[r.object])
    BY <2>0, <2>1 DEF Calls
  <2>3. thread' = [thread EXCEPT ![t] = r] /\ UNCHANGED <<address, content, memo, callback>>
    BY <1>0, <1>6 DEF Hash, TokenTypeOK, Calls
  <2>4. Describes(r.hit)
    BY <1>0, <2>2 DEF TokenInv, ThreadOK
  <2> HIDE DEF r
  <2>5. /\ thread' \in [Threads -> Calls] /\ \A u \in Threads : ThreadOK(u)'
        /\ (\A p \in Objects : WasBorn(p) => content[p] \in Contents)'
    BY <2>0, <2>2, <2>3, <2>4, CallStep
  <2> QED BY <1>0, <2>3, <2>5, MemoKept DEF TokenIInv, TokenInv, TokenTypeOK
<1>7. ASSUME NEW t \in Threads, Insert(t) PROVE TokenIInv'
  <2> DEFINE r == [thread[t] EXCEPT !.pc = "done"]
             o == thread[t].object
             e == [ref |-> o, digest |-> thread[t].token]
  <2>0. thread[t] \in Calls /\ o \in Objects /\ Live(o) /\ thread[t].token = DigestOf(content[o])
    BY <1>0, <1>7 DEF Insert, TokenTypeOK, TokenInv, ThreadOK
  <2>1. content[o] \in Contents
    BY <1>0, <2>0, TokenAssumption DEF TokenInv, Live, WasBorn
  <2>2. /\ r \in Calls /\ r.pc = "done" /\ r.object = o
        /\ r.hit = thread[t].hit /\ r.token = DigestOf(content[r.object])
    BY <2>0 DEF Calls
  <2>3. /\ thread' = [thread EXCEPT ![t] = r] /\ UNCHANGED <<address, content, callback>>
        /\ memo' = [memo EXCEPT ![address[o]] = e]
    BY <1>0, <1>7 DEF Insert, TokenTypeOK, Calls
  <2>4. Describes(r.hit)
    BY <1>0, <2>2 DEF TokenInv, ThreadOK
  <2>5. e \in Entries /\ Describes(e)
    BY <2>0, <2>1, TokenAssumption DEF Entries, Describes, WasBorn, Live
  <2> HIDE DEF r, e
  <2>6. /\ thread' \in [Threads -> Calls] /\ \A u \in Threads : ThreadOK(u)'
        /\ (\A p \in Objects : WasBorn(p) => content[p] \in Contents)'
    BY <2>0, <2>2, <2>3, <2>4, CallStep
  <2>7. memo' \in [Addresses -> Entries] /\ \A a \in Addresses : Describes(memo'[a])
    BY <1>0, <2>0, <2>3, <2>5 DEF TokenTypeOK, TokenInv, Live
  <2>8. (\A a \in Addresses : Describes(memo[a]))'
    BY <2>3, <2>7 DEF Describes, WasBorn
  <2> QED BY <1>0, <2>3, <2>6, <2>7, <2>8 DEF TokenIInv, TokenInv, TokenTypeOK
<1>8. ASSUME NEW t \in Threads, Return(t) PROVE TokenIInv'
  <2>1. Idle \in Calls /\ Idle.pc = "idle" /\ Idle.hit = NoHit
    BY DEF Calls, Idle, Entries, NoHit
  <2>2. thread' = [thread EXCEPT ![t] = Idle] /\ UNCHANGED <<address, content, memo, callback>>
    BY <1>8 DEF Return
  <2>3. /\ thread' \in [Threads -> Calls] /\ \A u \in Threads : ThreadOK(u)'
        /\ (\A p \in Objects : WasBorn(p) => content[p] \in Contents)'
    BY <2>1, <2>2, CallStep DEF Describes
  <2> QED BY <1>0, <2>2, <2>3, MemoKept DEF TokenIInv, TokenInv, TokenTypeOK
<1>9. ASSUME NEW o \in Objects, Die(o) PROVE TokenIInv'
  <2>1. TokenTypeOK'
    BY <1>0, <1>9 DEF Die, TokenTypeOK, Live
  <2>2. ASSUME NEW e \in Entries, Describes(e) PROVE Describes(e)'
    BY <1>0, <1>9, <2>2 DEF Die, TokenTypeOK, Describes, WasBorn, Entries
  <2>3. \A a \in Addresses : Describes(memo[a])'
    BY <1>0, <1>9, <2>2 DEF Die, TokenTypeOK, TokenInv
  <2>4. ASSUME NEW u \in Threads PROVE ThreadOK(u)'
    <3>1. thread[u] \in Calls /\ thread'[u] = thread[u] /\ thread[u].hit \in Entries
      BY <1>0, <1>9 DEF Die, TokenTypeOK, Calls
    <3>2. Describes(thread[u].hit)'
      BY <1>0, <1>9, <2>2, <3>1 DEF TokenInv, ThreadOK, Die
    <3> QED
      BY <1>0, <1>9, <3>1, <3>2 DEF TokenInv, ThreadOK, Live, Die, Held, TokenTypeOK
  <2>5. (\A p \in Objects : WasBorn(p) => content[p] \in Contents)'
    BY <1>0, <1>9, TokenAssumption DEF Die, TokenTypeOK, TokenInv, WasBorn, Live
  <2> QED BY <2>1, <2>3, <2>4, <2>5 DEF TokenIInv, TokenInv
<1>10. ASSUME NEW o \in Objects, PruneGet(o) PROVE TokenIInv'
  BY <1>0, <1>10, MemoKept
  DEF PruneGet, TokenIInv, TokenTypeOK, TokenInv, ThreadOK, Describes, Live, WasBorn
<1>11. ASSUME NEW o \in Objects, PruneDel(o) PROVE TokenIInv'
  BY <1>0, <1>11
  DEF PruneDel, TokenIInv, TokenTypeOK, TokenInv, ThreadOK, Describes, Live, WasBorn, Entries
<1>12. CASE UNCHANGED tokenVars
  BY <1>0, <1>12
  DEF tokenVars, TokenIInv, TokenTypeOK, TokenInv, ThreadOK, Describes, Live, WasBorn
<1> QED
  BY <1>1, <1>2, <1>3, <1>4, <1>5, <1>6, <1>7, <1>8, <1>9, <1>10, <1>11, <1>12 DEF TokenNext

LEMMA TokenInvariant == TokenSpec => []TokenIInv
  BY TokenStart, TokenStep, PTL DEF TokenSpec

\* tokens.py:12-16: the memo is safe by identity.  Whatever dies, is born at the
\* same address and is pruned meanwhile, a call returns the digest of the object
\* it was given.
THEOREM TokenSafety == TokenSpec => []TokensDescribeContents
<1>1. TokenIInv => TokensDescribeContents
  BY DEF TokenIInv, TokenInv, ThreadOK, TokensDescribeContents
<1> QED BY <1>1, TokenInvariant, PTL

----------------------------------------------------------------------------
\* The second half: pruning, on top of TokenIInv.

LEMMA PruneStart == TokenInit => PruneInv
  BY DEF TokenInit, PruneInv, EntryOK, NoHit

\* Steps that leave addresses, the memo and the callbacks alone.
LEMMA PruneKept ==
  ASSUME PruneInv, UNCHANGED <<address, memo, callback>> PROVE PruneInv'
  BY DEF PruneInv, EntryOK, Live

LEMMA PruneStep == TokenIInv /\ PruneInv /\ [TokenNext]_tokenVars => PruneInv'
<1> SUFFICES ASSUME TokenIInv, PruneInv, [TokenNext]_tokenVars PROVE PruneInv'
  OBVIOUS
<1>0. TokenTypeOK /\ TokenInv
  BY DEF TokenIInv
<1>a. ASSUME NEW a \in Addresses, memo[a] # NoHit
      PROVE  memo[a].ref \in Objects /\ address[memo[a].ref] # "unborn"
  BY <1>0, <1>a DEF TokenInv, Describes, WasBorn
<1>1. ASSUME NEW o \in Objects, NEW a \in Addresses, NEW c \in Contents, Born(o, a, c)
      PROVE  PruneInv'
  BY <1>0, <1>1, <1>a, TokenAssumption DEF Born, PruneInv, EntryOK, Live, TokenTypeOK
<1>2. ASSUME NEW t \in Threads,
             (\E o \in Objects : Call(t, o)) \/ Get(t) \/ Hit(t) \/ Miss(t) \/ Hash(t) \/ Return(t)
      PROVE  PruneInv'
  BY <1>2, PruneKept DEF Call, Get, Hit, Miss, Hash, Return
<1>3. ASSUME NEW t \in Threads, Insert(t) PROVE PruneInv'
  <2> DEFINE o == thread[t].object
             e == [ref |-> o, digest |-> thread[t].token]
  <2>1. o \in Objects /\ Live(o) /\ callback[o].pc = "idle"
    BY <1>0, <1>3, TokenAssumption DEF Insert, TokenInv, ThreadOK, PruneInv, Live
  <2>2. /\ UNCHANGED <<address, callback>>
        /\ memo' = [memo EXCEPT ![address[o]] = e]
    BY <1>3 DEF Insert
  <2>3. ASSUME NEW a \in Addresses PROVE EntryOK(a)'
    BY <1>0, <2>1, <2>2 DEF PruneInv, EntryOK, Live, TokenTypeOK
  <2> QED BY <2>2, <2>3 DEF PruneInv
<1>4. ASSUME NEW o \in Objects, Die(o) PROVE PruneInv'
  <2>1. address' = [address EXCEPT ![o] = "dead"] /\ memo' = memo /\ address[o] \in Addresses
    BY <1>4 DEF Die, Live
  <2>2. ASSUME NEW p \in Objects, p # o
        PROVE  callback'[p] = callback[p] /\ address'[p] = address[p]
    BY <1>0, <1>4, <2>2 DEF Die, TokenTypeOK
  <2>3. address'[o] = "dead"
    BY <1>0, <2>1 DEF TokenTypeOK
  <2>4. ASSUME NEW a \in Addresses PROVE EntryOK(a)'
    <3>1. CASE memo[a] = NoHit
      BY <2>1, <3>1 DEF EntryOK
    <3>2. CASE memo[a] # NoHit /\ memo[a].ref # o
      BY <1>a, <2>1, <2>2, <3>2 DEF PruneInv, EntryOK, Live
    <3>3. CASE memo[a] # NoHit /\ memo[a].ref = o
      <4>1. address[o] = a
        BY <2>1, <3>3 DEF PruneInv, EntryOK, Live
      <4>2. callback'[o] = [pc |-> "get", key |-> a]
        BY <1>0, <1>4, <3>3, <4>1 DEF Die, TokenTypeOK
      <4> QED BY <2>1, <2>3, <3>3, <4>2, TokenAssumption DEF EntryOK, Live
    <3> QED BY <3>1, <3>2, <3>3
  <2> QED BY <2>2, <2>3, <2>4 DEF PruneInv
<1>5. ASSUME NEW o \in Objects, PruneGet(o) PROVE PruneInv'
  <2>1. UNCHANGED <<address, memo>> /\ callback[o].pc = "get"
    BY <1>5 DEF PruneGet
  <2>2. ASSUME NEW p \in Objects, p # o PROVE callback'[p] = callback[p]
    BY <1>0, <1>5, <2>2 DEF PruneGet, TokenTypeOK
  <2>3. callback'[o].key = callback[o].key /\ (PruneFindsItself(o) => callback'[o].pc = "del")
    BY <1>0, <1>5 DEF PruneGet, TokenTypeOK
  <2>4. ASSUME NEW a \in Addresses PROVE EntryOK(a)'
    BY <1>a, <2>1, <2>2, <2>3 DEF PruneInv, EntryOK, Live, PruneFindsItself
  <2> QED BY <2>1, <2>2, <2>4 DEF PruneInv
<1>6. ASSUME NEW o \in Objects, PruneDel(o) PROVE PruneInv'
  <2>1. UNCHANGED address /\ callback[o].pc = "del" /\ address[o] = "dead"
    BY <1>6 DEF PruneDel, PruneInv
  <2>2. memo' = [memo EXCEPT ![callback[o].key] = NoHit]
    BY <1>6 DEF PruneDel
  <2>3. ASSUME NEW p \in Objects, p # o PROVE callback'[p] = callback[p]
    BY <1>0, <1>6, <2>3 DEF PruneDel, TokenTypeOK
  <2>4. ASSUME NEW a \in Addresses PROVE EntryOK(a)'
    <3>1. CASE a = callback[o].key
      BY <1>0, <2>2, <3>1 DEF EntryOK, TokenTypeOK
    <3>2. CASE a # callback[o].key
      BY <1>0, <1>a, <2>1, <2>2, <2>3, <3>2 DEF PruneInv, EntryOK, Live, TokenTypeOK
    <3> QED BY <3>1, <3>2
  <2> QED BY <2>1, <2>3, <2>4 DEF PruneInv
<1>7. CASE UNCHANGED tokenVars
  BY <1>7, PruneKept DEF tokenVars
<1> QED
  BY <1>1, <1>2, <1>3, <1>4, <1>5, <1>6, <1>7 DEF TokenNext

\* tokens.py:14-16 and 68-81: the memo holds no entry of a dead object that no
\* callback is on its way to remove, so it does not grow with the program's life.
THEOREM TokenMemoIsPruned == TokenSpec => []DeadEntriesAreBeingPruned
<1>1. PruneInv => DeadEntriesAreBeingPruned
  BY DEF PruneInv, EntryOK, DeadEntriesAreBeingPruned
<1>2. TokenSpec => []PruneInv
  BY PruneStart, PruneStep, TokenInvariant, PTL DEF TokenSpec
<1> QED BY <1>1, <1>2, PTL
=============================================================================
