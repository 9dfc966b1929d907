--------------------------- MODULE DiskStoreProof ---------------------------
(***************************************************************************)
(* Theorems about DiskStore, for any number of processes, keys, namespaces *)
(* and temporary names, and any number of faults.                          *)
(***************************************************************************)
EXTENDS DiskStore, TLAPS

Scopes == Namespaces \union {"all", NoFile}

OperationNames == {"none", "set", "get", "peek", "delete", "clear", "clear_all", "scan"}
AllLabels ==
    {"idle", "open", "write", "rename", "sync", "read", "parse", "cleanup", "temps", "sweep",
     "list", "next", "unlink", "done", "raised", "broken"}

Calls ==
    [pc : AllLabels, op : OperationNames, key : Keys \union {NoFile}, scope : Scopes,
     mine : Temps \union {0}, got : Contents \union {NoFile}, todo : SUBSET (Keys \union Temps),
     rows : SUBSET Keys, answer : Nat \union {NoFile}, began : Nat, strays : SUBSET Temps,
     unread : SUBSET (Keys \union Temps)]

(* What a process at each of its steps knows, from its own call alone.     *)
Consistent(c) ==
    /\ c.op \in Operations \union {"none"}
    /\ c.pc \in LabelsOf(c.op)
    /\ c.op = "none" => c.key = NoFile /\ c.scope = NoFile /\ c.strays = {}
    /\ c.op \in {"set", "get", "peek", "delete"} \/ c.pc = "unlink" => c.key \in Keys
    /\ c.op = "set" => c.mine # 0
    /\ c.op # "set" => c.mine = 0
    /\ c.op = "clear_all" => c.scope = "all"
    /\ c.op = "clear" => c.scope \in Namespaces
    /\ c.op = "clear" /\ c.pc = "unlink" => NsOf[c.key] = c.scope
    /\ c.op \in {"set", "get", "peek", "delete", "scan"} => c.scope = NoFile
    /\ c.pc = "read" => c.got = NoFile
    /\ c.pc = "sync" => c.got # NoFile
    /\ c.pc = "cleanup" => ~ Reads(c.got)
    /\ c.pc # "done" => c.answer = NoFile

TypeInv ==
    /\ file \in [Keys -> Contents \union {NoFile}]
    /\ back \in [Keys -> SUBSET (Contents \union {NoFile})]
    /\ temp \in [Temps -> {"none", "open", "flushed"}]
    /\ proc \in [Procs -> Calls]
    /\ safe \in [Keys -> Nat] /\ orphans \subseteq Temps
    /\ landed \in Nat /\ ops \in Nat /\ events \in Nat
    /\ \A p \in Procs : Consistent(proc[p])

-----------------------------------------------------------------------------
(* A step of one process replaces its call by a consistent one.            *)
LEMMA MovesKeepsCalls ==
    ASSUME TypeInv, NEW p \in Procs, NEW to, Moves(p, to), to \in Calls, Consistent(to)
    PROVE  proc' \in [Procs -> Calls] /\ \A q \in Procs : Consistent(proc'[q])
BY DEF TypeInv, Moves

(* The path of a key keeps its type.                                       *)
LEMMA PathKeepsTypes ==
    ASSUME TypeInv, NEW k \in Keys, NEW c \in Contents \union {NoFile}, Path(k, c)
    PROVE  /\ file' \in [Keys -> Contents \union {NoFile}]
           /\ back' \in [Keys -> SUBSET (Contents \union {NoFile})]
BY DEF TypeInv, Path

LEMMA Labels ==
    /\ LabelsOf("set") = {"open", "write", "rename", "sync", "done", "raised"}
    /\ LabelsOf("get") = {"read", "parse", "cleanup", "done"}
    /\ LabelsOf("peek") = {"read", "parse", "done"}
    /\ LabelsOf("delete") = {"unlink", "done", "raised"}
    /\ LabelsOf("clear") = {"list", "next", "unlink", "done", "raised", "broken"}
    /\ LabelsOf("clear_all") = {"temps", "sweep", "list", "next", "unlink", "done", "raised"}
    /\ LabelsOf("scan") = {"list", "next", "done", "broken"}
    /\ LabelsOf("none") = {"idle"}
BY DEF LabelsOf

LEMMA IdleIsConsistent == Idle \in Calls /\ Consistent(Idle)
<1>1. Idle \in Calls
  BY DEF Idle, Calls, Scopes, AllLabels, OperationNames
<1>2. Consistent(Idle)
  BY Labels DEF Idle, Consistent
<1> QED BY <1>1, <1>2

LEMMA TypeInvInitially == Init => TypeInv
<1> SUFFICES ASSUME Init PROVE TypeInv
  OBVIOUS
<1>1. proc \in [Procs -> Calls] /\ \A p \in Procs : Consistent(proc[p])
  BY IdleIsConsistent DEF Init
<1> QED BY <1>1 DEF Init, TypeInv

(* The operation a process is at, from its step.                           *)
LEMMA OperationOfStep ==
    ASSUME NEW c \in Calls, Consistent(c)
    PROVE  /\ c.pc = "idle" <=> c.op = "none"
           /\ c.pc \in {"open", "write", "rename", "sync"} => c.op = "set"
           /\ c.pc \in {"read", "parse"} => c.op \in {"get", "peek"}
           /\ c.pc = "cleanup" => c.op = "get"
           /\ c.pc \in {"temps", "sweep"} => c.op = "clear_all"
           /\ c.pc \in {"list", "next"} => c.op \in {"clear", "clear_all", "scan"}
           /\ c.pc = "unlink" => c.op \in {"delete", "clear", "clear_all"}
           /\ c.pc = "raised" => c.op \in {"set", "delete", "clear", "clear_all"}
           /\ c.pc = "broken" => c.op \in {"clear", "scan"}
<1>1. c.op \in OperationNames /\ c.pc \in LabelsOf(c.op)
  BY DEF Consistent, Calls
<1> QED BY <1>1, Labels DEF OperationNames

(* A call that goes on to another step of its operation stays consistent.  *)
LEMMA GotoKeepsCalls ==
    ASSUME TypeInv, NEW p \in Procs, NEW label \in LabelsOf(proc[p].op), Goto(p, label),
           label \in {"unlink", "sync", "cleanup"} => proc[p].pc = label,
           ~ At(p, "done"), label # "read"
    PROVE  proc' \in [Procs -> Calls] /\ \A q \in Procs : Consistent(proc'[q])
<1> DEFINE to == [proc[p] EXCEPT !.pc = label]
<1>1. proc[p] \in Calls /\ Consistent(proc[p])
  BY DEF TypeInv
<1>2. label \in AllLabels
  BY <1>1, Labels DEF Calls, OperationNames, AllLabels
<1>3. to \in Calls
  BY <1>1, <1>2 DEF Calls
<1>4. Consistent(to)
  BY <1>1 DEF Calls, Consistent, At
<1> QED BY <1>3, <1>4, MovesKeepsCalls DEF Goto

(* A listing or a header that fails leaves more unread, and the call goes  *)
(* on.                                                                     *)
LooksAway(c, to) ==
    /\ to \in Calls /\ Consistent(to) /\ to.op = c.op /\ to.scope = c.scope
    /\ to.mine = c.mine /\ to.got = c.got /\ to.answer = c.answer /\ to.began = c.began
    /\ to.strays = c.strays /\ to.rows = c.rows
    /\ \/ c.pc = "temps" /\ to.pc = "sweep" /\ to.unread = Temps
       \/ /\ c.pc \in {"list", "next"} /\ to.pc = "next" /\ c.unread \subseteq to.unread
          /\ c.pc = "list" => Keys \subseteq to.unread
          /\ c.pc = "next" => c.todo \subseteq to.todo \union to.unread

LEMMA LookingAway ==
    ASSUME TypeInv, NEW p \in Procs, ListFails(p) \/ \E k \in Keys : Overlooks(p, k)
    PROVE  /\ \E to : Moves(p, to) /\ LooksAway(proc[p], to)
           /\ UNCHANGED <<file, back, temp, landed, safe, orphans, ops>> /\ events' \in Nat
<1>1. proc[p] \in Calls /\ Consistent(proc[p])
  BY DEF TypeInv
<1>2. UNCHANGED <<file, back, temp, landed, safe, orphans, ops>> /\ events' \in Nat
  <2>1. CASE ListFails(p)
    BY <2>1 DEF ListFails, Event, files, past, TypeInv
  <2>2. ASSUME NEW k \in Keys, Overlooks(p, k)
        PROVE  UNCHANGED <<file, back, temp, landed, safe, orphans, ops>> /\ events' \in Nat
    <3>1. UNCHANGED <<files, past>> /\ Event
      BY <2>2 DEF Overlooks
    <3> QED BY <3>1 DEF Event, files, past, TypeInv
  <2> QED BY <2>1, <2>2
<1>3. CASE At(p, "temps") /\ Moves(p, [proc[p] EXCEPT !.pc = "sweep", !.unread = Temps])
  <2> DEFINE to == [proc[p] EXCEPT !.pc = "sweep", !.unread = Temps]
  <2>1. to \in Calls /\ to.pc = "sweep" /\ to.unread = Temps
    BY <1>1 DEF Calls, AllLabels
  <2>2. /\ to.op = proc[p].op /\ to.scope = proc[p].scope /\ to.mine = proc[p].mine
        /\ to.got = proc[p].got /\ to.answer = proc[p].answer /\ to.began = proc[p].began
        /\ to.strays = proc[p].strays /\ to.rows = proc[p].rows /\ to.key = proc[p].key
    BY <1>1 DEF Calls
  <2>3. proc[p].pc = "temps" /\ proc[p].op = "clear_all"
    BY <1>1, <1>3, OperationOfStep DEF At
  <2>4. Consistent(to)
    <3> HIDE DEF to
    <3> QED BY <1>1, <2>1, <2>2, <2>3, Labels DEF Consistent
  <2>5. LooksAway(proc[p], to)
    <3> HIDE DEF to
    <3> QED BY <2>1, <2>2, <2>3, <2>4 DEF LooksAway
  <2> QED BY <1>2, <1>3, <2>5
<1>4. CASE At(p, "list") /\ Moves(p, [proc[p] EXCEPT !.pc = "next", !.unread = @ \union Keys])
  <2> DEFINE to == [proc[p] EXCEPT !.pc = "next", !.unread = @ \union Keys]
  <2>1. to \in Calls /\ to.pc = "next" /\ to.unread = proc[p].unread \union Keys
    BY <1>1 DEF Calls, AllLabels
  <2>2. /\ to.op = proc[p].op /\ to.scope = proc[p].scope /\ to.mine = proc[p].mine
        /\ to.got = proc[p].got /\ to.answer = proc[p].answer /\ to.began = proc[p].began
        /\ to.strays = proc[p].strays /\ to.rows = proc[p].rows /\ to.key = proc[p].key
    BY <1>1 DEF Calls
  <2>3. proc[p].pc = "list" /\ proc[p].op \in {"clear", "clear_all", "scan"}
    BY <1>1, <1>4, OperationOfStep DEF At
  <2>4. Consistent(to)
    <3> HIDE DEF to
    <3> QED BY <1>1, <2>1, <2>2, <2>3, Labels DEF Consistent
  <2>5. LooksAway(proc[p], to)
    <3> HIDE DEF to
    <3> QED BY <2>1, <2>2, <2>3, <2>4 DEF LooksAway
  <2> QED BY <1>2, <1>4, <2>5
<1>5. ASSUME NEW k \in Keys, Overlooks(p, k)
      PROVE  \E to : Moves(p, to) /\ LooksAway(proc[p], to)
  <2> DEFINE to == [proc[p] EXCEPT !.key = k, !.todo = @ \ {k}, !.unread = @ \union {k}]
  <2>1. /\ to \in Calls /\ to.pc = proc[p].pc /\ to.unread = proc[p].unread \union {k}
        /\ to.todo = proc[p].todo \ {k}
    BY <1>1 DEF Calls
  <2>2. /\ to.op = proc[p].op /\ to.scope = proc[p].scope /\ to.mine = proc[p].mine
        /\ to.got = proc[p].got /\ to.answer = proc[p].answer /\ to.began = proc[p].began
        /\ to.strays = proc[p].strays /\ to.rows = proc[p].rows /\ to.key = k
    BY <1>1 DEF Calls
  <2>3. proc[p].pc = "next" /\ proc[p].op \in {"clear", "clear_all", "scan"}
    BY <1>1, <1>5, OperationOfStep DEF At, Overlooks
  <2>4. Consistent(to)
    <3> HIDE DEF to
    <3> QED BY <1>1, <2>1, <2>2, <2>3, Labels DEF Consistent
  <2>5. LooksAway(proc[p], to)
    <3> HIDE DEF to
    <3> QED BY <2>1, <2>2, <2>3, <2>4 DEF LooksAway
  <2> QED BY <1>5, <2>5 DEF Overlooks
<1> QED BY <1>2, <1>3, <1>4, <1>5 DEF ListFails

-----------------------------------------------------------------------------
(* Every step keeps the types and the consistency of every call.           *)
LEMMA BeginKeepsTypes ==
    ASSUME TypeInv, NEW p \in Procs, Begins(p)
    PROVE  TypeInv'
<1>1. PICK to : Start(p, to) /\ to \in Calls /\ Consistent(to)
  <2>1. CASE StartSet(p)
    <3>1. PICK k \in Keys, n \in Temps :
             Start(p, [Idle EXCEPT !.op = "set", !.pc = "open", !.key = k, !.mine = n])
      BY <2>1 DEF StartSet
    <3> DEFINE to == [Idle EXCEPT !.op = "set", !.pc = "open", !.key = k, !.mine = n]
    <3>2. to \in Calls
      BY IdleIsConsistent DEF Calls, OperationNames, AllLabels
    <3>3. n # 0
      <4>1. MaxTemps \in Nat
        BY BoundsAssumption
      <4> QED BY <4>1 DEF Temps
    <3>4. Consistent(to)
      BY <3>1, <3>3, Labels DEF Idle, Consistent, Start
    <3> QED BY <3>1, <3>2, <3>4
  <2>2. CASE StartRead(p)
    <3>1. PICK name \in {"get", "peek"}, k \in Keys :
             Start(p, [Idle EXCEPT !.op = name, !.pc = "read", !.key = k])
      BY <2>2 DEF StartRead
    <3> DEFINE to == [Idle EXCEPT !.op = name, !.pc = "read", !.key = k]
    <3>2. to \in Calls
      BY IdleIsConsistent DEF Calls, OperationNames, AllLabels
    <3>3. Consistent(to)
      BY <3>1, Labels DEF Idle, Consistent, Start
    <3> QED BY <3>1, <3>2, <3>3
  <2>3. CASE StartDelete(p)
    <3>1. PICK k \in Keys : Start(p, [Idle EXCEPT !.op = "delete", !.pc = "unlink", !.key = k])
      BY <2>3 DEF StartDelete
    <3> DEFINE to == [Idle EXCEPT !.op = "delete", !.pc = "unlink", !.key = k]
    <3>2. to \in Calls
      BY IdleIsConsistent DEF Calls, OperationNames, AllLabels
    <3>3. Consistent(to)
      BY <3>1, Labels DEF Idle, Consistent, Start
    <3> QED BY <3>1, <3>2, <3>3
  <2>4. CASE StartClear(p)
    <3>1. PICK ns \in Namespaces :
             Start(p, [Idle EXCEPT !.op = "clear", !.pc = "list", !.scope = ns, !.began = landed])
      BY <2>4 DEF StartClear
    <3> DEFINE to == [Idle EXCEPT !.op = "clear", !.pc = "list", !.scope = ns, !.began = landed]
    <3>2. to \in Calls
      BY IdleIsConsistent DEF Calls, OperationNames, AllLabels, Scopes, TypeInv
    <3>3. Consistent(to)
      BY <3>1, Labels DEF Idle, Consistent, Start
    <3> QED BY <3>1, <3>2, <3>3
  <2>5. CASE StartClearAll(p)
    <3> DEFINE to == [Idle EXCEPT !.op = "clear_all", !.pc = "temps", !.scope = "all",
                                  !.began = landed, !.strays = Ownerless]
    <3>1. Start(p, to)
      BY <2>5 DEF StartClearAll
    <3>2. to \in Calls
      BY IdleIsConsistent DEF Calls, OperationNames, AllLabels, Scopes, TypeInv, Ownerless
    <3>3. Consistent(to)
      BY <3>1, Labels DEF Idle, Consistent, Start
    <3> QED BY <3>1, <3>2, <3>3
  <2>6. CASE StartScan(p)
    <3> DEFINE to == [Idle EXCEPT !.op = "scan", !.pc = "list", !.began = landed]
    <3>1. Start(p, to)
      BY <2>6 DEF StartScan
    <3>2. to \in Calls
      BY IdleIsConsistent DEF Calls, OperationNames, AllLabels, TypeInv
    <3>3. Consistent(to)
      BY <3>1, Labels DEF Idle, Consistent, Start
    <3> QED BY <3>1, <3>2, <3>3
  <2> QED BY <2>1, <2>2, <2>3, <2>4, <2>5, <2>6 DEF Begins
<1>2. proc' \in [Procs -> Calls] /\ \A q \in Procs : Consistent(proc'[q])
  BY <1>1, MovesKeepsCalls DEF Start
<1>3. UNCHANGED <<file, back, temp, landed, safe, orphans, events>> /\ ops' = ops + 1
  BY <1>1 DEF Start, files, past
<1> QED BY <1>2, <1>3 DEF TypeInv

LEMMA SetStepKeepsTypes ==
    ASSUME TypeInv, NEW p \in Procs, SetStep(p)
    PROVE  TypeInv'
<1> DEFINE ProcTyped == proc' \in [Procs -> Calls] /\ \A q \in Procs : Consistent(proc'[q])
<1> USE DEF files, past, bounds
<1>1. proc[p] \in Calls /\ Consistent(proc[p])
  BY DEF TypeInv
<1>2. proc[p].op = "set" /\ proc[p].key \in Keys /\ proc[p].mine \in Temps
  BY <1>1, OperationOfStep DEF SetStep, SetOpens, SetFlushes, SetRenames, SetRaises, SetSyncs,
     SetSyncFails, SetEnds, At, Consistent, Calls
<1>3. CASE SetOpens(p)
  <2>1. ProcTyped
    BY <1>3, <1>2, Labels, GotoKeepsCalls DEF SetOpens, At
  <2> QED BY <1>3, <2>1, <1>2 DEF SetOpens, TypeInv
<1>4. CASE SetFlushes(p)
  <2>1. ProcTyped
    BY <1>4, <1>2, Labels, GotoKeepsCalls DEF SetFlushes, At
  <2> QED BY <1>4, <2>1, <1>2 DEF SetFlushes, TypeInv
<1>5. CASE SetRenames(p)
  <2> DEFINE new == [num |-> landed + 1, form |-> "whole",
                     flushed |-> temp[proc[p].mine] = "flushed"]
             to == [proc[p] EXCEPT !.pc = "sync", !.got = new]
  <2>1. new \in Contents
    BY DEF Contents, Forms, TypeInv
  <2>2. to \in Calls
    BY <1>1, <2>1 DEF Calls, AllLabels
  <2>3. Consistent(to)
    BY <1>1, <1>2, <1>5, <2>1, Labels, NoFileAssumption DEF Consistent, SetRenames, At, Calls
  <2>4. ProcTyped
    BY <1>5, <2>2, <2>3, MovesKeepsCalls DEF SetRenames
  <2>5. /\ file' \in [Keys -> Contents \union {NoFile}]
        /\ back' \in [Keys -> SUBSET (Contents \union {NoFile})]
    BY <1>5, <1>2, <2>1, PathKeepsTypes DEF SetRenames
  <2> QED BY <1>5, <2>4, <2>5, <1>2 DEF SetRenames, TypeInv
<1>6. CASE SetRaises(p)
  <2>1. ProcTyped
    BY <1>6, <1>2, Labels, GotoKeepsCalls DEF SetRaises, At
  <2>2. ops' \in Nat /\ events' \in Nat
    BY <1>6 DEF SetRaises, Event, TypeInv
  <2> QED BY <1>6, <2>1, <2>2, <1>2 DEF SetRaises, RemovesTemp, RemovalFails, TypeInv
<1>7. CASE SetSyncs(p)
  <2>1. ProcTyped
    BY <1>7, <1>2, Labels, GotoKeepsCalls DEF SetSyncs, SetEnds, At
  <2>2. proc[p].got.num \in Nat
    BY <1>7, <1>1 DEF SetSyncs, SetEnds, At, Calls, Consistent, Contents
  <2> QED BY <1>7, <2>1, <2>2 DEF SetSyncs, SetEnds, TypeInv
<1>8. CASE SetSyncFails(p)
  <2>1. ProcTyped
    BY <1>8, <1>2, Labels, GotoKeepsCalls DEF SetSyncFails, At
  <2> QED BY <1>8, <2>1 DEF SetSyncFails, Event, TypeInv
<1> QED BY <1>3, <1>4, <1>5, <1>6, <1>7, <1>8 DEF SetStep

LEMMA ReadStepKeepsTypes ==
    ASSUME TypeInv, NEW p \in Procs, ReadStep(p)
    PROVE  TypeInv'
<1> DEFINE ProcTyped == proc' \in [Procs -> Calls] /\ \A q \in Procs : Consistent(proc'[q])
<1> USE DEF files, past, bounds
<1>1. proc[p] \in Calls /\ Consistent(proc[p])
  BY DEF TypeInv
<1>2. proc[p].op \in {"get", "peek"} /\ proc[p].key \in Keys
  BY <1>1, OperationOfStep DEF ReadStep, ReadFile, Parse, CleanUp, At, Consistent
<1>3. CASE ReadFile(p)
  <2>1. ASSUME Moves(p, [proc[p] EXCEPT !.pc = "parse", !.got = file[proc[p].key]])
        PROVE  ProcTyped
    <3> DEFINE to == [proc[p] EXCEPT !.pc = "parse", !.got = file[proc[p].key]]
    <3>1. to \in Calls
      BY <1>1, <1>2 DEF Calls, AllLabels, TypeInv
    <3>2. Consistent(to)
      BY <1>1, <1>2, <1>3, Labels DEF Consistent, ReadFile, At, Calls
    <3> QED BY <2>1, <3>1, <3>2, MovesKeepsCalls
  <2>2. ASSUME Goto(p, "parse") PROVE ProcTyped
    BY <2>2, <1>2, <1>3, Labels, GotoKeepsCalls DEF ReadFile, At
  <2>3. ops' \in Nat /\ events' \in Nat
    BY <1>3 DEF ReadFile, Event, TypeInv
  <2>4. ProcTyped
    BY <1>3, <2>1, <2>2 DEF ReadFile
  <2> QED BY <1>3, <2>3, <2>4 DEF ReadFile, TypeInv
<1>4. CASE Parse(p)
  <2>1. PICK to : to \in Calls /\ Consistent(to) /\ Moves(p, to)
    <3>1. CASE proc[p].got # NoFile /\ ~ Reads(proc[p].got) /\ RemovesCorrupt(p)
      <4> DEFINE to == [proc[p] EXCEPT !.pc = "cleanup"]
      <4>1. to \in Calls
        BY <1>1 DEF Calls, AllLabels
      <4>2. Consistent(to)
        BY <1>1, <1>2, <1>4, <3>1, Labels DEF Consistent, Parse, At, Calls, RemovesCorrupt
      <4> QED BY <1>4, <3>1, <4>1, <4>2 DEF Parse, Goto
    <3>2. CASE ~ (proc[p].got # NoFile /\ ~ Reads(proc[p].got) /\ RemovesCorrupt(p))
      <4> DEFINE to == [proc[p] EXCEPT !.pc = "done", !.answer = Loaded(proc[p].got)]
      <4>1. Loaded(proc[p].got) \in Nat \union {NoFile}
        BY <1>1 DEF Loaded, Reads, Calls, Contents
      <4>2. to \in Calls
        BY <1>1, <4>1 DEF Calls, AllLabels
      <4>3. Consistent(to)
        BY <1>1, <1>2, Labels DEF Consistent, Calls
      <4> QED BY <1>4, <3>2, <4>2, <4>3 DEF Parse
    <3> QED BY <3>1, <3>2
  <2> QED BY <1>4, <2>1, MovesKeepsCalls DEF Parse, TypeInv
<1>5. CASE CleanUp(p)
  <2>1. ProcTyped
    BY <1>2, <1>5, OperationOfStep, <1>1, Labels, GotoKeepsCalls DEF CleanUp, At
  <2>2. /\ file' \in [Keys -> Contents \union {NoFile}]
        /\ back' \in [Keys -> SUBSET (Contents \union {NoFile})]
        /\ UNCHANGED <<temp, landed>> /\ ops' \in Nat /\ events' \in Nat
    BY <1>2, <1>5, PathKeepsTypes DEF CleanUp, Unlinked, Event, TypeInv
  <2> QED BY <1>5, <2>1, <2>2 DEF CleanUp, TypeInv
<1> QED BY <1>3, <1>4, <1>5 DEF ReadStep

LEMMA ListStepKeepsTypes ==
    ASSUME TypeInv, NEW p \in Procs, ListStep(p)
    PROVE  TypeInv'
<1> DEFINE ProcTyped == proc' \in [Procs -> Calls] /\ \A q \in Procs : Consistent(proc'[q])
<1> USE DEF files, past, bounds
<1>1. proc[p] \in Calls /\ Consistent(proc[p])
  BY DEF TypeInv
<1>2. CASE ListTemps(p)
  <2> DEFINE to == [proc[p] EXCEPT !.pc = "sweep", !.todo = {n \in Temps : temp[n] # "none"}]
  <2>1. to \in Calls
    BY <1>1 DEF Calls, AllLabels
  <2>2. Consistent(to)
    BY <1>1, <1>2, OperationOfStep, Labels DEF Consistent, ListTemps, At, Calls
  <2> QED BY <1>2, <2>1, <2>2, MovesKeepsCalls DEF ListTemps, TypeInv
<1>3. CASE SweepTemp(p)
  <2>1. PICK n \in proc[p].todo :
           /\ temp' = [temp EXCEPT ![n] = "none"]
           /\ proc' = [q \in Procs |->
                   [proc[q] EXCEPT !.strays = @ \ {n}, !.todo = IF q = p THEN @ \ {n} ELSE @]]
           /\ orphans' = orphans \ {n}
    BY <1>3 DEF SweepTemp
  <2>2. ASSUME NEW q \in Procs
        PROVE  proc'[q] \in Calls /\ Consistent(proc'[q])
    <3>1. proc[q] \in Calls /\ Consistent(proc[q])
      BY DEF TypeInv
    <3>2. proc'[q] \in Calls
      BY <2>1, <3>1 DEF Calls
    <3>3. Consistent(proc'[q])
      BY <2>1, <3>1 DEF Calls, Consistent
    <3> QED BY <3>2, <3>3
  <2>3. proc' \in [Procs -> Calls]
    BY <2>1, <2>2
  <2>4. temp' \in [Temps -> {"none", "open", "flushed"}] /\ orphans' \subseteq Temps
    BY <2>1 DEF TypeInv
  <2> QED BY <1>3, <2>2, <2>3, <2>4 DEF SweepTemp, TypeInv
<1>4. CASE SweepEnds(p)
  BY <1>1, <1>4, OperationOfStep, Labels, GotoKeepsCalls DEF SweepEnds, At, TypeInv
<1>5. CASE List(p)
  <2> DEFINE to == [proc[p] EXCEPT !.pc = "next", !.todo = {k \in Keys : file[k] # NoFile}]
  <2>1. to \in Calls
    BY <1>1 DEF Calls, AllLabels
  <2>2. Consistent(to)
    <3>1. proc[p].op \in {"clear", "clear_all", "scan"}
      BY <1>1, <1>5, OperationOfStep DEF List, At
    <3> QED BY <3>1, <1>1, <1>5, Labels DEF Consistent, List, At, Calls
  <2> QED BY <1>5, <2>1, <2>2, MovesKeepsCalls DEF List, TypeInv
<1>6. CASE Unlinks(p)
  <2>1. proc[p].op \in {"delete", "clear", "clear_all"} /\ proc[p].key \in Keys
    BY <1>1, <1>6, OperationOfStep DEF Unlinks, At, Consistent
  <2>2. ProcTyped
    BY <1>6, <2>1, Labels, GotoKeepsCalls DEF Unlinks, At
  <2> QED BY <1>6, <2>1, <2>2, PathKeepsTypes DEF Unlinks, Unlinked, TypeInv
<1>7. CASE UnlinkRaises(p)
  <2>1. proc[p].op \in {"delete", "clear", "clear_all"}
    BY <1>1, <1>7, OperationOfStep DEF UnlinkRaises, At
  <2>2. ProcTyped
    BY <1>7, <2>1, Labels, GotoKeepsCalls DEF UnlinkRaises, At
  <2> QED BY <1>7, <2>2 DEF UnlinkRaises, Event, TypeInv
<1>8. CASE ListEnds(p)
  <2>1. ProcTyped
    <3>1. proc[p].op \in {"clear", "clear_all", "scan"}
      BY <1>1, <1>8, OperationOfStep DEF ListEnds, At
    <3> QED BY <1>8, <3>1, Labels, GotoKeepsCalls DEF ListEnds, At
  <2> QED BY <1>8, <2>1 DEF ListEnds, TypeInv
<1>9. ASSUME NEW k \in Keys, ListNext(p, k) PROVE TypeInv'
  <2>1. proc[p].op \in {"clear", "clear_all", "scan"} /\ proc[p].pc = "next"
    BY <1>1, <1>9, OperationOfStep DEF ListNext, At
  <2> DEFINE call == [proc[p] EXCEPT !.key = k, !.todo = @ \ {k}]
  <2>2. call \in Calls /\ Consistent(call)
    <3>1. call \in Calls
      BY <1>1 DEF Calls
    <3>2. Consistent(call)
      BY <1>1, <2>1 DEF Consistent, Calls
    <3> QED BY <3>1, <3>2
  <2>3. CASE Breaks(p, k)
    BY <1>9, <2>1, <2>3, Labels, GotoKeepsCalls DEF ListNext, Follows, Breaks, At, TypeInv
  <2>4. CASE ~ Breaks(p, k)
    <3>1. PICK to : to \in Calls /\ Consistent(to) /\ Moves(p, to)
      <4>1. CASE proc[p].op = "scan" /\ HasHeader(file[k])
        <5> DEFINE to == [call EXCEPT !.rows = @ \union {k}]
        <5>1. to \in Calls
          BY <2>2 DEF Calls
        <5>2. /\ to.pc = call.pc /\ to.op = call.op /\ to.key = call.key /\ to.scope = call.scope
              /\ to.mine = call.mine /\ to.got = call.got /\ to.answer = call.answer
              /\ to.strays = call.strays
          BY <2>2 DEF Calls
        <5>3. Consistent(to)
          <6> HIDE DEF to, call
          <6> QED BY <2>2, <5>2 DEF Consistent
        <5> QED BY <1>9, <2>4, <4>1, <5>1, <5>3 DEF ListNext, Follows
      <4>2. CASE proc[p].op # "scan" /\ Condemned(p, k)
        <5> DEFINE to == [call EXCEPT !.pc = "unlink"]
        <5>1. to \in Calls
          BY <2>2 DEF Calls, AllLabels
        <5>2. proc[p].op = "clear" => NsOf[k] = proc[p].scope
          BY <4>2 DEF Condemned
        <5>3. Consistent(to)
          BY <2>1, <2>2, <4>2, <5>2, <1>1, Labels DEF Consistent, Calls
        <5> QED BY <1>9, <2>4, <4>2, <5>1, <5>3 DEF ListNext, Follows
      <4>3. CASE /\ ~ (proc[p].op = "scan" /\ HasHeader(file[k]))
                 /\ ~ (proc[p].op # "scan" /\ Condemned(p, k))
        BY <1>9, <2>2, <2>4, <4>3 DEF ListNext, Follows
      <4> QED BY <4>1, <4>2, <4>3
    <3> QED BY <1>9, <3>1, MovesKeepsCalls DEF ListNext, TypeInv
  <2> QED BY <2>3, <2>4
<1>10. CASE ListFails(p) \/ \E k \in Keys : Overlooks(p, k)
  BY <1>10, LookingAway, MovesKeepsCalls DEF LooksAway, TypeInv
<1> QED BY <1>2, <1>3, <1>4, <1>5, <1>6, <1>7, <1>8, <1>9, <1>10 DEF ListStep

LEMMA RestKeepsTypes ==
    ASSUME TypeInv, \/ \E p \in Procs : Return(p) \/ Crash(p)
                    \/ \E k \in Keys : Damage(k)
                    \/ PowerLoss
                    \/ UNCHANGED vars
    PROVE  TypeInv'
<1> USE DEF files, past, bounds
<1>1. ASSUME NEW p \in Procs, Return(p) PROVE TypeInv'
  BY <1>1, IdleIsConsistent, MovesKeepsCalls DEF Return, TypeInv
<1>2. ASSUME NEW p \in Procs, Crash(p) PROVE TypeInv'
  BY <1>2, IdleIsConsistent, MovesKeepsCalls DEF Crash, LeftBehind, Event, TypeInv
<1>3. ASSUME NEW k \in Keys, Damage(k) PROVE TypeInv'
  <2>1. PICK form \in Damages : file' = [file EXCEPT ![k].form = form]
    BY <1>3 DEF Damage
  <2>2. file[k] \in Contents
    BY <1>3 DEF Damage, TypeInv
  <2>3. form \in Forms
    BY BoundsAssumption DEF Forms
  <2>4. [file[k] EXCEPT !.form = form] \in Contents
    BY <2>2, <2>3 DEF Contents
  <2>5. file' \in [Keys -> Contents \union {NoFile}]
    BY <2>1, <2>4 DEF TypeInv
  <2> QED BY <1>3, <2>5 DEF Damage, Event, TypeInv
<1>4. CASE PowerLoss
  <2>1. PICK f \in [Keys -> UNION {back[k] \union {file[k]} : k \in Keys}] :
           /\ \A k \in Keys : f[k] \in back[k] \union {file[k]}
           /\ file' = [k \in Keys |-> Restored(f[k])]
    BY <1>4 DEF PowerLoss
  <2>2. ASSUME NEW k \in Keys PROVE Restored(f[k]) \in Contents \union {NoFile}
    <3>1. f[k] \in Contents \union {NoFile}
      BY <2>1 DEF TypeInv
    <3> QED BY <3>1 DEF Restored, Contents, Forms
  <2>3. file' \in [Keys -> Contents \union {NoFile}]
    BY <2>1, <2>2
  <2>4. orphans' \subseteq Temps
    BY <1>4 DEF PowerLoss, LeftBehind, TypeInv
  <2> QED BY <1>4, <2>3, <2>4, IdleIsConsistent DEF PowerLoss, Event, TypeInv
<1>5. CASE UNCHANGED vars
  BY <1>5 DEF vars, TypeInv
<1> QED BY <1>1, <1>2, <1>3, <1>4, <1>5

LEMMA StepKeepsTypes ==
    ASSUME TypeInv, [Next]_vars
    PROVE  TypeInv'
BY BeginKeepsTypes, SetStepKeepsTypes, ReadStepKeepsTypes, ListStepKeepsTypes, RestKeepsTypes
   DEF Next

(* The types, and what each call knows at its step, hold in every state.   *)
THEOREM TypesAlways == Spec => []TypeInv
BY TypeInvInitially, StepKeepsTypes, PTL DEF Spec

(* The types and labels of DiskStore.                                      *)
THEOREM TypeOKHolds == Spec => []TypeOK
<1>1. TypeInv => TypeOK
  BY DEF TypeInv, TypeOK, Consistent, Calls
<1> QED BY <1>1, TypesAlways, PTL

-----------------------------------------------------------------------------
(* Contents.  Whatever is at a path, or may come back there, was flushed   *)
(* and renamed once, is whole but for the environment's damage, and is no  *)
(* older than the last entry of the key that was synchronised.             *)
SoundContent(k, c) ==
    c # NoFile => /\ c.form \in {"whole"} \union Damages /\ c.flushed
                  /\ safe[k] <= c.num /\ c.num <= landed

(* Between its rename and its synchronisation an entry is superseded only  *)
(* by later ones.                                                          *)
AwaitsSync(p) ==
    At(p, "sync") =>
        /\ proc[p].got.num <= landed
        /\ LET there == file[proc[p].key] IN there # NoFile => proc[p].got.num <= there.num

(* A temporary file is renamed with its bytes flushed, or is gone.         *)
FlushedAtRename(p) == At(p, "rename") => temp[proc[p].mine] # "open"

NamesAreUnique ==
    \A p, q \in Procs : proc[p].mine = proc[q].mine /\ proc[p].mine # 0 => p = q

PathInv ==
    /\ \A k \in Keys : safe[k] <= landed
    /\ \A k \in Keys : \A c \in back[k] \union {file[k]} : SoundContent(k, c)
    /\ \A p \in Procs : AwaitsSync(p)

TempInv ==
    /\ \A p \in Procs : FlushedAtRename(p)
    /\ NamesAreUnique
    /\ TemporariesHaveAnOwner

(* Steps that neither touch a path nor reach a rename.                     *)
Quiet ==
    /\ UNCHANGED <<file, back, landed, safe>>
    /\ \A q \in Procs :
        At(q, "sync")' => At(q, "sync") /\ UNCHANGED <<proc[q].got, proc[q].key>>

LEMMA GotoIsQuiet ==
    ASSUME TypeInv, NEW p \in Procs, NEW to, Moves(p, to), to.pc # "sync",
           UNCHANGED <<file, back, landed, safe>>
    PROVE  Quiet
BY DEF Quiet, Moves, At, TypeInv

LEMMA StartsAreQuiet ==
    ASSUME TypeInv, NEW p \in Procs, Begins(p)
    PROVE  Quiet
<1>1. ASSUME NEW to, Start(p, to), to.pc # "sync"
      PROVE  Quiet
  BY <1>1, GotoIsQuiet DEF Start, files, past
<1>2. CASE StartSet(p)
  BY <1>1, <1>2 DEF StartSet, Idle
<1>3. CASE StartRead(p)
  BY <1>1, <1>3 DEF StartRead, Idle
<1>4. CASE StartDelete(p)
  BY <1>1, <1>4 DEF StartDelete, Idle
<1>5. CASE StartClear(p)
  BY <1>1, <1>5 DEF StartClear, Idle
<1>6. CASE StartClearAll(p)
  BY <1>1, <1>6 DEF StartClearAll, Idle
<1>7. CASE StartScan(p)
  BY <1>1, <1>7 DEF StartScan, Idle
<1> QED BY <1>2, <1>3, <1>4, <1>5, <1>6, <1>7 DEF Begins

(* A sweep leaves every call as it is, but for what is left to sweep.      *)
LEMMA SweepTouchesLittle ==
    ASSUME TypeInv, NEW p \in Procs, SweepTemp(p), NEW q \in Procs
    PROVE  /\ UNCHANGED <<proc[q].pc, proc[q].op, proc[q].key, proc[q].scope, proc[q].mine,
                          proc[q].got, proc[q].rows, proc[q].answer, proc[q].began,
                          proc[q].unread>>
           /\ q # p => UNCHANGED proc[q].todo
<1>1. PICK n \in proc[p].todo :
         proc' = [r \in Procs |->
                 [proc[r] EXCEPT !.strays = @ \ {n}, !.todo = IF r = p THEN @ \ {n} ELSE @]]
  BY DEF SweepTemp
<1>2. proc[q] \in Calls
  BY DEF TypeInv
<1>3. proc'[q] = [proc[q] EXCEPT !.strays = @ \ {n}, !.todo = IF q = p THEN @ \ {n} ELSE @]
  BY <1>1
<1> QED BY <1>2, <1>3 DEF Calls

LEMMA QuietSteps ==
    ASSUME TypeInv, NEW p \in Procs,
           \/ SetOpens(p) \/ SetFlushes(p) \/ SetRaises(p) \/ SetSyncFails(p)
           \/ ReadFile(p) \/ Parse(p)
           \/ ListTemps(p) \/ SweepTemp(p) \/ SweepEnds(p) \/ List(p) \/ UnlinkRaises(p)
           \/ ListEnds(p) \/ (\E k \in Keys : ListNext(p, k))
           \/ ListFails(p) \/ (\E k \in Keys : Overlooks(p, k))
           \/ Return(p) \/ Crash(p)
    PROVE  Quiet
<1> USE DEF files, past, bounds
<1>0. proc[p] \in Calls
  BY DEF TypeInv
<1>1. ASSUME NEW label, Goto(p, label), label # "sync", UNCHANGED <<file, back, landed, safe>>
      PROVE  Quiet
  <2>1. [proc[p] EXCEPT !.pc = label].pc # "sync"
    BY <1>0, <1>1 DEF Calls
  <2> QED BY <1>1, <2>1, GotoIsQuiet DEF Goto
<1>2. CASE SetOpens(p) \/ SetFlushes(p) \/ SetRaises(p) \/ SetSyncFails(p)
  BY <1>1, <1>2 DEF SetOpens, SetFlushes, SetRaises, SetSyncFails
<1>3. CASE ReadFile(p)
  <2>1. [proc[p] EXCEPT !.pc = "parse", !.got = file[proc[p].key]].pc # "sync"
    BY <1>0 DEF Calls
  <2> QED BY <1>1, <1>3, <2>1, GotoIsQuiet DEF ReadFile
<1>4. CASE Parse(p)
  <2>1. [proc[p] EXCEPT !.pc = "done", !.answer = Loaded(proc[p].got)].pc # "sync"
    BY <1>0 DEF Calls
  <2> QED BY <1>1, <1>4, <2>1, GotoIsQuiet DEF Parse
<1>5. CASE ListTemps(p)
  <2>1. [proc[p] EXCEPT !.pc = "sweep", !.todo = {n \in Temps : temp[n] # "none"}].pc # "sync"
    BY <1>0 DEF Calls
  <2> QED BY <1>5, <2>1, GotoIsQuiet DEF ListTemps
<1>6. CASE SweepTemp(p)
  BY <1>6, SweepTouchesLittle DEF SweepTemp, Quiet, At
<1>7. CASE SweepEnds(p) \/ UnlinkRaises(p) \/ ListEnds(p)
  BY <1>1, <1>7 DEF SweepEnds, UnlinkRaises, ListEnds
<1>8. CASE List(p)
  <2>1. [proc[p] EXCEPT !.pc = "next", !.todo = {k \in Keys : file[k] # NoFile}].pc # "sync"
    BY <1>0 DEF Calls
  <2> QED BY <1>8, <2>1, GotoIsQuiet DEF List
<1>9. ASSUME NEW k \in Keys, ListNext(p, k) PROVE Quiet
  <2> DEFINE call == [proc[p] EXCEPT !.key = k, !.todo = @ \ {k}]
  <2>1. /\ call.pc # "sync" /\ [call EXCEPT !.rows = @ \union {k}].pc # "sync"
        /\ [call EXCEPT !.pc = "unlink"].pc # "sync"
    BY <1>0, <1>9 DEF Calls, ListNext, At
  <2> QED BY <1>1, <1>9, <2>1, GotoIsQuiet DEF ListNext, Follows
<1>11. CASE ListFails(p) \/ \E k \in Keys : Overlooks(p, k)
  BY <1>11, LookingAway, GotoIsQuiet DEF LooksAway
<1>10. CASE Return(p) \/ Crash(p)
  <2>1. Idle.pc # "sync"
    BY DEF Idle
  <2> QED BY <1>10, <2>1, GotoIsQuiet DEF Return, Crash
<1> QED BY <1>2, <1>3, <1>4, <1>5, <1>6, <1>7, <1>8, <1>9, <1>10, <1>11

LEMMA QuietKeepsPaths ==
    ASSUME TypeInv, PathInv, Quiet
    PROVE  PathInv'
BY DEF PathInv, Quiet, SoundContent, AwaitsSync

(* A path that is unlinked may get its content back from a power loss.     *)
LEMMA UnlinkKeepsPaths ==
    ASSUME TypeInv, PathInv, NEW p \in Procs, NEW k \in Keys, Path(k, NoFile),
           NEW label, Goto(p, label), label # "sync", UNCHANGED <<landed, safe>>
    PROVE  PathInv'
<1>1. proc'[p].pc = label /\ \A q \in Procs \ {p} : proc'[q] = proc[q]
  BY DEF Goto, Moves, TypeInv, Calls
<1>2. /\ file' = [file EXCEPT ![k] = NoFile]
      /\ \A j \in Keys : back'[j] \subseteq back[j] \union {file[j]}
  BY DEF Path, TypeInv
<1>3. \A j \in Keys : file'[j] \in {file[j], NoFile}
  BY <1>2 DEF TypeInv
<1>4. \A j \in Keys : \A c \in back'[j] \union {file'[j]} : SoundContent(j, c)'
  BY <1>2, <1>3 DEF PathInv, SoundContent
<1>5. \A q \in Procs : AwaitsSync(q)'
  <2> SUFFICES ASSUME NEW q \in Procs, proc'[q].pc = "sync"
               PROVE  /\ proc'[q].got.num <= landed'
                      /\ file'[proc'[q].key] # NoFile =>
                            proc'[q].got.num <= file'[proc'[q].key].num
    BY DEF AwaitsSync, At
  <2>1. proc'[q] = proc[q] /\ proc[q] \in Calls /\ Consistent(proc[q])
    BY <1>1 DEF TypeInv
  <2>2. proc[q].key \in Keys
    BY <2>1, OperationOfStep DEF Consistent
  <2> QED BY <1>3, <2>1, <2>2 DEF PathInv, AwaitsSync, At
<1> QED BY <1>4, <1>5 DEF PathInv

LEMMA RenameKeepsPaths ==
    ASSUME TypeInv, PathInv, TempInv, NEW p \in Procs, SetRenames(p)
    PROVE  PathInv'
<1> USE DEF past
<1>0. PICK k, new : k = proc[p].key /\ new = [num |-> landed + 1, form |-> "whole",
                                               flushed |-> temp[proc[p].mine] = "flushed"]
  OBVIOUS
<1>1. /\ proc[p] \in Calls /\ k \in Keys /\ proc[p].mine \in Temps /\ new.flushed
      /\ landed' = landed + 1 /\ landed \in Nat /\ safe' = safe /\ safe \in [Keys -> Nat]
  <2>1. proc[p] \in Calls /\ Consistent(proc[p]) /\ proc[p].pc = "rename"
    BY DEF TypeInv, SetRenames, At
  <2>2. proc[p].op = "set"
    BY <2>1, OperationOfStep
  <2>3. k \in Keys /\ proc[p].mine \in Temps
    BY <1>0, <2>1, <2>2 DEF Consistent, Calls
  <2>4. temp[proc[p].mine] = "flushed"
    BY <2>1, <2>3 DEF TypeInv, TempInv, FlushedAtRename, At, SetRenames
  <2> QED BY <1>0, <2>1, <2>3, <2>4 DEF SetRenames, TypeInv
<1>2. /\ file'[k] = new
      /\ \A j \in Keys : /\ j # k => file'[j] = file[j]
                        /\ back'[j] \subseteq back[j] \union {file[j]}
  BY <1>0, <1>1 DEF SetRenames, Path, TypeInv
<1>3. /\ proc'[p].pc = "sync" /\ proc'[p].got = new /\ proc'[p].key = k
      /\ \A q \in Procs \ {p} : proc'[q] = proc[q]
  BY <1>0, <1>1 DEF SetRenames, Moves, TypeInv, Calls
<1>4. \A j \in Keys : safe[j] <= landed'
  BY <1>1 DEF PathInv
<1>5. \A j \in Keys : \A c \in Contents \union {NoFile} : SoundContent(j, c) => SoundContent(j, c)'
  BY <1>1 DEF SoundContent, Contents
<1>6. SoundContent(k, new)'
  BY <1>0, <1>1, <1>4 DEF SoundContent
<1>7. ASSUME NEW j \in Keys, NEW c \in back'[j] \union {file'[j]}
      PROVE  SoundContent(j, c)'
  <2>1. CASE c \in back[j] \union {file[j]}
    BY <1>5, <2>1 DEF PathInv, TypeInv
  <2>2. CASE j = k /\ c = new
    BY <1>6, <2>2
  <2> QED BY <1>2, <2>1, <2>2
<1>8. ASSUME NEW q \in Procs, proc'[q].pc = "sync"
      PROVE  /\ proc'[q].got.num <= landed'
             /\ file'[proc'[q].key] # NoFile => proc'[q].got.num <= file'[proc'[q].key].num
  <2>1. CASE q = p
    BY <1>0, <1>1, <1>2, <1>3, <2>1
  <2>2. CASE q # p
    <3>1. proc'[q] = proc[q] /\ proc[q] \in Calls /\ Consistent(proc[q])
      BY <1>3, <2>2 DEF TypeInv
    <3>2. proc[q].key \in Keys /\ proc[q].got \in Contents
      BY <1>8, <3>1, OperationOfStep DEF Consistent, Calls
    <3>3. AwaitsSync(q)
      BY DEF PathInv
    <3> QED BY <1>0, <1>1, <1>2, <1>8, <3>1, <3>2, <3>3 DEF AwaitsSync, At, Contents
  <2> QED BY <2>1, <2>2
<1> QED BY <1>1, <1>4, <1>7, <1>8 DEF PathInv, AwaitsSync, At

LEMMA SyncKeepsPaths ==
    ASSUME TypeInv, PathInv, NEW p \in Procs, SetSyncs(p)
    PROVE  PathInv'
<1> DEFINE k == proc[p].key
<1> USE DEF bounds
<1>1. proc[p] \in Calls /\ Consistent(proc[p]) /\ proc[p].pc = "sync"
  BY DEF TypeInv, SetSyncs, SetEnds, At
<1>2. k \in Keys /\ proc[p].got \in Contents
  BY <1>1, OperationOfStep DEF Consistent, Calls
<1>3. /\ UNCHANGED <<file, landed>> /\ landed \in Nat
      /\ \A j \in Keys : back'[j] = {}
      /\ \A j \in Keys : safe'[j] = IF j = k /\ proc[p].got.num > safe[j]
                                   THEN proc[p].got.num ELSE safe[j]
  BY <1>2 DEF SetSyncs, SetEnds, TypeInv
<1>4. AwaitsSync(p)
  BY DEF PathInv
<1>5. \A j \in Keys : safe'[j] <= landed
  BY <1>1, <1>3, <1>4 DEF PathInv, AwaitsSync, At
<1>6. \A j \in Keys : SoundContent(j, file[j])'
  BY <1>1, <1>3, <1>4, <1>5 DEF PathInv, AwaitsSync, At, SoundContent
<1>7. ASSUME NEW q \in Procs PROVE AwaitsSync(q)'
  <2>1. proc'[p].pc = "done" /\ \A r \in Procs \ {p} : proc'[r] = proc[r]
    BY DEF SetSyncs, SetEnds, Goto, Moves, TypeInv, Calls
  <2> QED BY <1>3, <2>1 DEF PathInv, AwaitsSync, At
<1> QED BY <1>3, <1>5, <1>6, <1>7 DEF PathInv

LEMMA DamageKeepsPaths ==
    ASSUME TypeInv, PathInv, NEW k \in Keys, Damage(k)
    PROVE  PathInv'
<1> USE DEF past
<1>1. PICK form \in Damages : file' = [file EXCEPT ![k].form = form]
  BY DEF Damage
<1>2. file[k] \in Contents /\ UNCHANGED <<back, landed, proc, safe>>
  BY DEF Damage, TypeInv
<1>3. /\ file'[k] = [file[k] EXCEPT !.form = form]
      /\ \A j \in Keys \ {k} : file'[j] = file[j]
  BY <1>1 DEF TypeInv
<1>4. file'[k].num = file[k].num /\ file'[k].flushed = file[k].flushed /\ file'[k].form = form
  BY <1>2, <1>3 DEF Contents
<1>5. file[k] # NoFile
  BY DEF Damage
<1>6. \A j \in Keys : \A c \in back'[j] \union {file'[j]} : SoundContent(j, c)'
  BY <1>2, <1>3, <1>4, <1>5 DEF PathInv, SoundContent
<1>7. \A q \in Procs : AwaitsSync(q)'
  <2> SUFFICES ASSUME NEW q \in Procs, At(q, "sync"), file'[proc[q].key] # NoFile
               PROVE  proc[q].got.num <= file'[proc[q].key].num
    BY <1>2 DEF PathInv, AwaitsSync, At
  <2>1. proc[q].key \in Keys
    BY OperationOfStep DEF TypeInv, Consistent, At
  <2> QED BY <1>3, <1>4, <1>5, <2>1 DEF PathInv, AwaitsSync
<1> QED BY <1>2, <1>6, <1>7 DEF PathInv

LEMMA PowerLossKeepsPaths ==
    ASSUME TypeInv, PathInv, PowerLoss
    PROVE  PathInv'
<1> USE DEF past
<1>1. PICK f \in [Keys -> UNION {back[k] \union {file[k]} : k \in Keys}] :
         /\ \A k \in Keys : f[k] \in back[k] \union {file[k]}
         /\ file' = [k \in Keys |-> Restored(f[k])]
  BY DEF PowerLoss
<1>2. \A k \in Keys : back'[k] = {} /\ UNCHANGED <<landed, safe>>
  BY DEF PowerLoss
<1>3. \A k \in Keys : file'[k] = f[k]
  BY <1>1 DEF PathInv, SoundContent, Restored
<1>4. \A q \in Procs : AwaitsSync(q)'
  BY DEF PowerLoss, Idle, AwaitsSync, At
<1>5. UNCHANGED <<landed, safe>>
  BY DEF PowerLoss
<1> QED BY <1>1, <1>2, <1>3, <1>4, <1>5 DEF PathInv, SoundContent

(* One process moves; it is not writing a temporary file, before or after. *)
LEMMA OthersMoveKeepsTemps ==
    ASSUME TypeInv, TempInv, NEW p \in Procs, UNCHANGED <<temp, orphans>>,
           \A q \in Procs \ {p} : proc'[q] = proc[q],
           proc[p].pc \notin {"write", "rename"}, proc'[p].pc \notin {"write", "rename"},
           proc'[p].mine \in {0, proc[p].mine}
    PROVE  TempInv'
<1>1. \A q \in Procs : FlushedAtRename(q)'
  BY DEF TempInv, FlushedAtRename, At
<1>2. NamesAreUnique'
  BY DEF TempInv, NamesAreUnique
<1>3. TemporariesHaveAnOwner'
  BY DEF TempInv, TemporariesHaveAnOwner
<1> QED BY <1>1, <1>2, <1>3 DEF TempInv

LEMMA GotoKeepsTemps ==
    ASSUME TypeInv, TempInv, NEW p \in Procs, NEW to, Moves(p, to), UNCHANGED <<temp, orphans>>,
           proc[p].pc \notin {"write", "rename"}, to.pc \notin {"write", "rename"},
           to.mine \in {0, proc[p].mine}
    PROVE  TempInv'
<1>1. proc'[p] = to /\ \A q \in Procs \ {p} : proc'[q] = proc[q]
  BY DEF Moves, TypeInv
<1> QED BY <1>1, OthersMoveKeepsTemps

LEMMA OtherStepsKeepTemps ==
    ASSUME TypeInv, TempInv, NEW p \in Procs,
           \/ StartRead(p) \/ StartDelete(p) \/ StartClear(p) \/ StartClearAll(p) \/ StartScan(p)
           \/ SetSyncs(p) \/ SetSyncFails(p)
           \/ ReadStep(p)
           \/ ListTemps(p) \/ SweepEnds(p) \/ List(p) \/ Unlinks(p) \/ UnlinkRaises(p)
           \/ ListEnds(p) \/ (\E k \in Keys : ListNext(p, k))
           \/ ListFails(p) \/ (\E k \in Keys : Overlooks(p, k))
           \/ Return(p)
    PROVE  TempInv'
<1> USE DEF files, past, bounds
<1>0. proc[p] \in Calls
  BY DEF TypeInv
<1>1. ASSUME NEW label, Goto(p, label), label \notin {"write", "rename"},
             proc[p].pc \notin {"write", "rename"}, UNCHANGED <<temp, orphans>>
      PROVE  TempInv'
  <2>1. /\ [proc[p] EXCEPT !.pc = label].pc = label
        /\ [proc[p] EXCEPT !.pc = label].mine = proc[p].mine
    BY <1>0 DEF Calls
  <2> QED BY <1>1, <2>1, GotoKeepsTemps DEF Goto
<1>2. ASSUME NEW to, Start(p, to), to.pc \notin {"write", "rename"}, to.mine = 0
      PROVE  TempInv'
  BY <1>2, GotoKeepsTemps DEF Start, At
<1>3. CASE StartRead(p)
  BY <1>2, <1>3 DEF StartRead, Idle
<1>4. CASE StartDelete(p)
  BY <1>2, <1>4 DEF StartDelete, Idle
<1>5. CASE StartClear(p)
  BY <1>2, <1>5 DEF StartClear, Idle
<1>6. CASE StartClearAll(p)
  BY <1>2, <1>6 DEF StartClearAll, Idle
<1>7. CASE StartScan(p)
  BY <1>2, <1>7 DEF StartScan, Idle
<1>8. CASE SetSyncs(p) \/ SetSyncFails(p)
  BY <1>1, <1>8 DEF SetSyncs, SetSyncFails, SetEnds, At
<1>9. CASE ReadFile(p)
  <2> DEFINE to == [proc[p] EXCEPT !.pc = "parse", !.got = file[proc[p].key]]
  <2>1. to.pc = "parse" /\ to.mine = proc[p].mine
    BY <1>0 DEF Calls
  <2> QED BY <1>1, <1>9, <2>1, GotoKeepsTemps DEF ReadFile, At
<1>10. CASE Parse(p)
  <2> DEFINE to == [proc[p] EXCEPT !.pc = "done", !.answer = Loaded(proc[p].got)]
  <2>1. to.pc = "done" /\ to.mine = proc[p].mine
    BY <1>0 DEF Calls
  <2> QED BY <1>1, <1>10, <2>1, GotoKeepsTemps DEF Parse, At
<1>11. CASE CleanUp(p)
  BY <1>1, <1>11 DEF CleanUp, Unlinked, At
<1>12. CASE ListTemps(p)
  <2> DEFINE to == [proc[p] EXCEPT !.pc = "sweep", !.todo = {n \in Temps : temp[n] # "none"}]
  <2>1. to.pc = "sweep" /\ to.mine = proc[p].mine
    BY <1>0 DEF Calls
  <2> QED BY <1>12, <2>1, GotoKeepsTemps DEF ListTemps, At
<1>13. CASE SweepEnds(p) \/ UnlinkRaises(p) \/ ListEnds(p)
  BY <1>1, <1>13 DEF SweepEnds, UnlinkRaises, ListEnds, At
<1>14. CASE List(p)
  <2> DEFINE to == [proc[p] EXCEPT !.pc = "next", !.todo = {k \in Keys : file[k] # NoFile}]
  <2>1. to.pc = "next" /\ to.mine = proc[p].mine
    BY <1>0 DEF Calls
  <2> QED BY <1>14, <2>1, GotoKeepsTemps DEF List, At
<1>15. CASE Unlinks(p)
  BY <1>1, <1>15 DEF Unlinks, Unlinked, At
<1>16. ASSUME NEW k \in Keys, ListNext(p, k) PROVE TempInv'
  <2> DEFINE call == [proc[p] EXCEPT !.key = k, !.todo = @ \ {k}]
  <2>1. /\ proc[p].pc = "next"
        /\ call.pc = "next" /\ call.mine = proc[p].mine
        /\ [call EXCEPT !.rows = @ \union {k}].pc = "next"
        /\ [call EXCEPT !.rows = @ \union {k}].mine = proc[p].mine
        /\ [call EXCEPT !.pc = "unlink"].pc = "unlink"
        /\ [call EXCEPT !.pc = "unlink"].mine = proc[p].mine
    BY <1>0, <1>16 DEF Calls, ListNext, At
  <2> QED BY <1>1, <1>16, <2>1, GotoKeepsTemps DEF ListNext, Follows
<1>17. CASE Return(p)
  <2>1. Idle.pc = "idle" /\ Idle.mine = 0
    BY DEF Idle
  <2> QED BY <1>17, <2>1, GotoKeepsTemps DEF Return
<1>18. CASE ListFails(p) \/ \E k \in Keys : Overlooks(p, k)
  BY <1>18, LookingAway, GotoKeepsTemps DEF LooksAway
<1> QED BY <1>3, <1>4, <1>5, <1>6, <1>7, <1>8, <1>9, <1>10, <1>11, <1>12, <1>13, <1>14, <1>15,
           <1>16, <1>17, <1>18 DEF ReadStep

(* What a set does with its temporary file.                                *)
LEMMA SetStepsKeepTemps ==
    ASSUME TypeInv, TempInv, NEW p \in Procs,
           StartSet(p) \/ SetOpens(p) \/ SetFlushes(p) \/ SetRenames(p) \/ SetRaises(p)
    PROVE  TempInv'
<1> USE DEF files, past, bounds
<1>0. proc[p] \in Calls /\ Consistent(proc[p]) /\ temp \in [Temps -> {"none", "open", "flushed"}]
  BY DEF TypeInv
<1>1. CASE StartSet(p)
  <2>1. PICK k \in Keys, n \in Temps :
           /\ temp[n] = "none" /\ \A q \in Procs : proc[q].mine # n
           /\ Start(p, [Idle EXCEPT !.op = "set", !.pc = "open", !.key = k, !.mine = n])
    BY <1>1 DEF StartSet
  <2>2. proc'[p].pc = "open" /\ proc'[p].mine = n /\ proc[p].pc = "idle"
    BY <2>1 DEF Start, Moves, Idle, At, TypeInv
  <2>3. (\A q \in Procs \ {p} : proc'[q] = proc[q]) /\ UNCHANGED <<temp, orphans>>
    BY <2>1 DEF Start, Moves, TypeInv
  <2>4. \A q \in Procs : FlushedAtRename(q)'
    BY <2>2, <2>3 DEF TempInv, FlushedAtRename, At
  <2>5. NamesAreUnique'
    BY <2>1, <2>2, <2>3 DEF TempInv, NamesAreUnique
  <2>6. TemporariesHaveAnOwner'
    BY <2>2, <2>3 DEF TempInv, TemporariesHaveAnOwner
  <2> QED BY <2>4, <2>5, <2>6 DEF TempInv
<1>2. CASE SetOpens(p) \/ SetFlushes(p) \/ SetRenames(p) \/ SetRaises(p)
  <2>1. proc[p].mine \in Temps
    BY <1>0, <1>2, OperationOfStep DEF SetOpens, SetFlushes, SetRenames, SetRaises, At, Consistent,
       Calls
  <2>2. proc[p].mine # 0
    BY <1>0, <1>2, OperationOfStep DEF SetOpens, SetFlushes, SetRenames, SetRaises, At, Consistent
  <2>3. PICK status : temp' = [temp EXCEPT ![proc[p].mine] = status]
    <3>1. temp = [temp EXCEPT ![proc[p].mine] = temp[proc[p].mine]]
      BY <1>0, <2>1
    <3> QED BY <1>2, <3>1 DEF SetOpens, SetFlushes, SetRenames, SetRaises, RemovesTemp,
            RemovalFails
  <2>4. temp'[proc[p].mine] = status /\ \A n \in Temps : n # proc[p].mine => temp'[n] = temp[n]
    BY <1>0, <2>1, <2>3
  <2>5. (\A q \in Procs \ {p} : proc'[q] = proc[q]) /\ orphans \subseteq orphans'
    BY <1>2 DEF SetOpens, SetFlushes, SetRenames, SetRaises, RemovesTemp, RemovalFails, Goto,
       Moves, TypeInv
  <2>6. proc'[p].mine = proc[p].mine
    <3>1. CASE SetRenames(p)
      BY <1>0, <3>1 DEF SetRenames, Moves, TypeInv, Calls
    <3>2. CASE SetOpens(p) \/ SetFlushes(p) \/ SetRaises(p)
      <4>1. PICK label : Goto(p, label)
        BY <3>2 DEF SetOpens, SetFlushes, SetRaises
      <4> QED BY <1>0, <4>1 DEF Goto, Moves, TypeInv, Calls
    <3> QED BY <1>2, <3>1, <3>2
  <2>7. /\ proc'[p].pc = "rename" => status # "open"
        /\ status # "none" => proc'[p].pc \in {"write", "rename"} \/ proc[p].mine \in orphans'
    <3>1. CASE SetOpens(p)
      BY <1>0, <3>1 DEF SetOpens, Goto, Moves, TypeInv, Calls
    <3>2. CASE SetFlushes(p)
      <4>1. temp'[proc[p].mine] # "open"
        BY <1>0, <2>1, <3>2 DEF SetFlushes
      <4>2. proc'[p].pc = "rename"
        BY <1>0, <3>2 DEF SetFlushes, Goto, Moves, TypeInv, Calls
      <4> QED BY <2>4, <4>1, <4>2
    <3>3. CASE SetRenames(p)
      <4>1. temp'[proc[p].mine] = "none"
        BY <1>0, <2>1, <3>3 DEF SetRenames
      <4> QED BY <2>4, <4>1
    <3>4. CASE SetRaises(p)
      <4>1. temp'[proc[p].mine] = "none" \/ proc[p].mine \in orphans'
        BY <1>0, <2>1, <3>4 DEF SetRaises, RemovesTemp, RemovalFails
      <4>2. proc'[p].pc = "raised"
        BY <1>0, <3>4 DEF SetRaises, Goto, Moves, TypeInv, Calls
      <4> QED BY <2>4, <4>1, <4>2
    <3> QED BY <1>2, <3>1, <3>2, <3>3, <3>4
  <2>8. ASSUME NEW q \in Procs, proc'[q].pc = "rename"
        PROVE  temp'[proc'[q].mine] # "open"
    <3>1. CASE q = p
      BY <2>4, <2>6, <2>7, <2>8, <3>1
    <3>2. CASE q # p
      <4>1. proc'[q] = proc[q] /\ proc[q] \in Calls /\ Consistent(proc[q])
        BY <2>5, <3>2 DEF TypeInv
      <4>2. proc[q].mine \in Temps /\ proc[q].mine # proc[p].mine
        BY <2>2, <2>8, <3>2, <4>1, OperationOfStep DEF TempInv, NamesAreUnique, Consistent, Calls
      <4> QED BY <2>4, <2>8, <4>1, <4>2 DEF TempInv, FlushedAtRename, At
    <3> QED BY <3>1, <3>2
  <2>9. NamesAreUnique'
    BY <2>5, <2>6 DEF TempInv, NamesAreUnique
  <2>10. TemporariesHaveAnOwner'
    <3> SUFFICES ASSUME NEW n \in Temps, temp'[n] # "none", n \notin orphans'
                 PROVE  \E q \in Procs : proc'[q].mine = n /\ proc'[q].pc \in {"write", "rename"}
      BY DEF TemporariesHaveAnOwner
    <3>1. CASE n = proc[p].mine
      BY <2>4, <2>6, <2>7, <3>1
    <3>2. CASE n # proc[p].mine
      <4>1. PICK q \in Procs : proc[q].mine = n /\ proc[q].pc \in {"write", "rename"}
        BY <2>4, <2>5, <3>2 DEF TempInv, TemporariesHaveAnOwner
      <4> QED BY <2>5, <3>2, <4>1
    <3> QED BY <3>1, <3>2
  <2> QED BY <2>8, <2>9, <2>10 DEF TempInv, FlushedAtRename, At
<1> QED BY <1>1, <1>2

LEMMA RestKeepsTemps ==
    ASSUME TypeInv, TempInv,
           \/ \E p \in Procs : SweepTemp(p) \/ Crash(p)
           \/ \E k \in Keys : Damage(k)
           \/ PowerLoss
    PROVE  TempInv'
<1> USE DEF files, past, bounds
<1>1. ASSUME NEW p \in Procs, SweepTemp(p) PROVE TempInv'
  <2>1. PICK n : temp' = [temp EXCEPT ![n] = "none"] /\ orphans' = orphans \ {n}
    BY <1>1 DEF SweepTemp
  <2>2. \A q \in Procs : UNCHANGED <<proc[q].pc, proc[q].mine>>
    BY <1>1, SweepTouchesLittle
  <2>3. \A m \in Temps : temp'[m] \in {"none", temp[m]}
    BY <2>1 DEF TypeInv
  <2>4. ASSUME NEW q \in Procs, proc'[q].pc = "rename" PROVE temp'[proc'[q].mine] # "open"
    <3>1. proc[q] \in Calls /\ Consistent(proc[q]) /\ proc[q].pc = "rename"
      BY <2>2, <2>4 DEF TypeInv
    <3>2. proc[q].mine \in Temps
      BY <3>1, OperationOfStep DEF Consistent, Calls
    <3> QED BY <2>2, <2>3, <2>4, <3>2 DEF TempInv, FlushedAtRename, At
  <2>5. NamesAreUnique'
    BY <2>2 DEF TempInv, NamesAreUnique
  <2>6. TemporariesHaveAnOwner'
    <3> SUFFICES ASSUME NEW m \in Temps, temp'[m] # "none", m \notin orphans'
                 PROVE  \E q \in Procs : proc'[q].mine = m /\ proc'[q].pc \in {"write", "rename"}
      BY DEF TemporariesHaveAnOwner
    <3>1. temp[m] # "none" /\ m \notin orphans
      BY <2>1, <2>3 DEF TypeInv
    <3>2. PICK q \in Procs : proc[q].mine = m /\ proc[q].pc \in {"write", "rename"}
      BY <3>1 DEF TempInv, TemporariesHaveAnOwner
    <3> QED BY <2>2, <3>2
  <2> QED BY <2>4, <2>5, <2>6 DEF TempInv, FlushedAtRename, At
<1>2. ASSUME NEW p \in Procs, Crash(p) PROVE TempInv'
  <2>1. proc'[p] = Idle /\ \A q \in Procs \ {p} : proc'[q] = proc[q]
    BY <1>2 DEF Crash, Moves, TypeInv
  <2>2. temp' = temp /\ orphans' = orphans \union LeftBehind(p)
    BY <1>2 DEF Crash
  <2>3. Idle.pc = "idle" /\ Idle.mine = 0
    BY DEF Idle
  <2>4. TemporariesHaveAnOwner'
    BY <2>1, <2>2 DEF TempInv, TemporariesHaveAnOwner, LeftBehind
  <2> QED BY <2>1, <2>2, <2>3, <2>4 DEF TempInv, FlushedAtRename, At, NamesAreUnique
<1>3. ASSUME NEW k \in Keys, Damage(k) PROVE TempInv'
  BY <1>3 DEF Damage, TempInv, FlushedAtRename, At, NamesAreUnique, TemporariesHaveAnOwner
<1>4. CASE PowerLoss
  <2>1. \A q \in Procs : proc'[q] = Idle
    BY <1>4 DEF PowerLoss
  <2>2. temp' = temp /\ orphans' = orphans \union UNION {LeftBehind(p) : p \in Procs}
    BY <1>4 DEF PowerLoss
  <2>3. Idle.pc = "idle" /\ Idle.mine = 0
    BY DEF Idle
  <2>4. TemporariesHaveAnOwner'
    BY <2>2 DEF TempInv, TemporariesHaveAnOwner, LeftBehind
  <2> QED BY <2>1, <2>2, <2>3, <2>4 DEF TempInv, FlushedAtRename, At, NamesAreUnique
<1> QED BY <1>1, <1>2, <1>3, <1>4

IInv == TypeInv /\ PathInv /\ TempInv

LEMMA IInvInitially == Init => IInv
<1> SUFFICES ASSUME Init PROVE IInv
  OBVIOUS
<1>1. PathInv
  BY DEF Init, PathInv, SoundContent, AwaitsSync, At, Idle
<1>2. TempInv
  BY DEF Init, TempInv, FlushedAtRename, At, Idle, NamesAreUnique, TemporariesHaveAnOwner
<1> QED BY <1>1, <1>2, TypeInvInitially DEF IInv

LEMMA StepKeepsPaths ==
    ASSUME IInv, Next
    PROVE  PathInv'
<1> USE DEF IInv
<1>1. ASSUME NEW p \in Procs, Begins(p) PROVE PathInv'
  BY <1>1, StartsAreQuiet, QuietKeepsPaths
<1>2. ASSUME NEW p \in Procs, SetStep(p) PROVE PathInv'
  BY <1>2, QuietSteps, QuietKeepsPaths, RenameKeepsPaths, SyncKeepsPaths DEF SetStep
<1>3. ASSUME NEW p \in Procs, ReadStep(p) PROVE PathInv'
  <2>1. CASE ReadFile(p) \/ Parse(p)
    BY <2>1, QuietSteps, QuietKeepsPaths
  <2>2. CASE CleanUp(p)
    <3>1. proc[p].key \in Keys
      BY <2>2, OperationOfStep DEF TypeInv, CleanUp, At, Consistent
    <3>2. UNCHANGED safe /\ Goto(p, "done")
      BY <2>2 DEF CleanUp, past
    <3>3. CASE Unlinked(proc[p].key)
      BY <3>1, <3>2, <3>3, UnlinkKeepsPaths DEF Unlinked
    <3>4. CASE UNCHANGED files
      <4>1. [proc[p] EXCEPT !.pc = "done"].pc # "sync"
        BY DEF TypeInv, Calls
      <4> QED BY <3>2, <3>4, <4>1, GotoIsQuiet, QuietKeepsPaths DEF files, Goto
    <3> QED BY <2>2, <3>3, <3>4 DEF CleanUp
  <2> QED BY <1>3, <2>1, <2>2 DEF ReadStep
<1>4. ASSUME NEW p \in Procs, ListStep(p) PROVE PathInv'
  <2>1. CASE Unlinks(p)
    <3>1. proc[p].key \in Keys
      BY <2>1 DEF TypeInv, Unlinks, At, Consistent
    <3> QED BY <2>1, <3>1, UnlinkKeepsPaths DEF Unlinks, Unlinked, past
  <2> QED BY <1>4, <2>1, QuietSteps, QuietKeepsPaths DEF ListStep
<1>5. ASSUME NEW p \in Procs, Return(p) \/ Crash(p) PROVE PathInv'
  BY <1>5, QuietSteps, QuietKeepsPaths
<1> QED BY <1>1, <1>2, <1>3, <1>4, <1>5, DamageKeepsPaths, PowerLossKeepsPaths DEF Next

LEMMA StepKeepsTemps ==
    ASSUME IInv, Next
    PROVE  TempInv'
BY OtherStepsKeepTemps, SetStepsKeepTemps, RestKeepsTemps
   DEF IInv, Next, Begins, SetStep, ReadStep, ListStep

LEMMA StepKeepsIInv ==
    ASSUME IInv, [Next]_vars
    PROVE  IInv'
<1>1. CASE Next
  BY <1>1, StepKeepsTypes, StepKeepsPaths, StepKeepsTemps DEF IInv
<1>2. CASE UNCHANGED vars
  <2>1. Quiet
    BY <1>2 DEF vars, files, past, Quiet, At
  <2>2. TempInv'
    BY <1>2 DEF IInv, vars, files, past, TempInv, FlushedAtRename, At, NamesAreUnique,
       TemporariesHaveAnOwner
  <2> QED BY <2>1, <2>2, StepKeepsTypes, QuietKeepsPaths DEF IInv
<1> QED BY <1>1, <1>2

(* The inductive invariant of paths and temporary files holds always.      *)
THEOREM IInvAlways == Spec => []IInv
BY IInvInitially, StepKeepsIInv, PTL DEF Spec

(* No path ever holds half of an entry, whoever is killed when and whether *)
(* or not the power is lost: bytes are flushed before the rename, and a    *)
(* rename puts nothing else at a path.                                     *)
THEOREM EntriesAreNeverTornHolds == Spec => []EntriesAreNeverTorn
<1>1. IInv => EntriesAreNeverTorn
  BY BoundsAssumption DEF IInv, PathInv, SoundContent, EntriesAreNeverTorn, DamagedForms
<1> QED BY <1>1, IInvAlways, PTL

(* Every temporary file is being written, or its own writer was killed or  *)
(* failed to remove it.                                                    *)
THEOREM TemporariesHaveAnOwnerHolds == Spec => []TemporariesHaveAnOwner
<1>1. IInv => TemporariesHaveAnOwner
  BY DEF IInv, TempInv
<1> QED BY <1>1, IInvAlways, PTL

(* A set that returned with its directory synchronised is never superseded *)
(* by an older entry, power losses included.                               *)
THEOREM SyncedSetSurvivesHolds == Spec => []SyncedSetSurvives
<1>1. IInv => SyncedSetSurvives
  BY DEF IInv, PathInv, SoundContent, SyncedSetSurvives, TypeInv
<1> QED BY <1>1, IInvAlways, PTL

-----------------------------------------------------------------------------
(* Clears and scans.  An entry that was there when one began stays on its  *)
(* list, or in its rows, or is about to be unlinked, or was not looked at. *)
Left(k, b) == HeaderIntact(file[k]) /\ file[k].num <= b

Pending(c, k) == k \in c.todo \/ (c.pc = "unlink" /\ k = c.key)

ListOK(c) ==
    /\ c.began <= landed
    /\ c.op \in {"clear", "clear_all"} /\ c.pc \in {"next", "unlink", "done"} =>
          \A k \in Keys \ c.unread :
              c.scope \in {"all", NsOf[k]} /\ Left(k, c.began) => Pending(c, k)
    /\ c.op = "scan" /\ c.pc \in {"next", "done"} =>
          \A k \in Keys \ c.unread : Left(k, c.began) => k \in c.todo \union c.rows
    /\ c.op \in {"clear", "clear_all", "scan"} /\ c.pc = "done" => c.todo = {}

ListInv == \A p \in Procs : ListOK(proc[p])

(* No step but a power loss brings an old entry back.                      *)
LEMMA OldEntriesStayAway ==
    ASSUME IInv, Next, ~ PowerLoss, NEW k \in Keys, NEW b \in Nat, b <= landed, Left(k, b)'
    PROVE  Left(k, b)
<1> USE DEF files, past, bounds
<1>0. TypeInv
  BY DEF IInv
<1>1. CASE file'[k] = file[k]
  BY <1>1 DEF Left, HeaderIntact
<1>2. CASE file'[k] = NoFile
  BY <1>2 DEF Left, HeaderIntact
<1>3. ASSUME NEW p \in Procs, SetRenames(p), file'[k] # file[k] PROVE FALSE
  <2>1. file'[k].num = landed + 1
    BY <1>0, <1>3 DEF SetRenames, Path, TypeInv
  <2> QED BY <1>0, <2>1 DEF Left, TypeInv
<1>4. ASSUME NEW j \in Keys, Damage(j), file'[k] # file[k] PROVE Left(k, b)
  <2>1. PICK form \in Damages : file' = [file EXCEPT ![j].form = form]
    BY <1>4 DEF Damage
  <2>2. file[k] \in Contents /\ file[k].form = "whole" /\ file[k] # NoFile
    BY <1>0, <1>4, <2>1 DEF Damage, TypeInv
  <2>3. file'[k].num = file[k].num
    BY <1>0, <1>4, <2>1, <2>2 DEF TypeInv, Contents
  <2> QED BY <2>2, <2>3 DEF Left, HeaderIntact
<1>5. ASSUME NEW p \in Procs, Unlinked(proc[p].key), file'[k] # file[k] PROVE file'[k] = NoFile
  BY <1>0, <1>5 DEF Unlinked, Path, TypeInv
<1>6. ASSUME Quiet PROVE file'[k] = file[k]
  BY <1>6 DEF Quiet
<1>7. ASSUME NEW p \in Procs, Begins(p) PROVE file'[k] = file[k]
  BY <1>0, <1>6, <1>7, StartsAreQuiet
<1>8. ASSUME NEW p \in Procs, SetStep(p) PROVE Left(k, b)
  BY <1>0, <1>1, <1>3, <1>6, <1>8, QuietSteps DEF SetStep, SetSyncs, SetEnds
<1>9. ASSUME NEW p \in Procs, ReadStep(p) PROVE Left(k, b)
  BY <1>0, <1>1, <1>2, <1>5, <1>6, <1>9, QuietSteps DEF ReadStep, CleanUp
<1>10. ASSUME NEW p \in Procs, ListStep(p) PROVE Left(k, b)
  BY <1>0, <1>1, <1>2, <1>5, <1>6, <1>10, QuietSteps DEF ListStep, Unlinks
<1>11. ASSUME NEW p \in Procs, Return(p) \/ Crash(p) PROVE Left(k, b)
  BY <1>0, <1>1, <1>6, <1>11, QuietSteps
<1> QED BY <1>1, <1>4, <1>7, <1>8, <1>9, <1>10, <1>11 DEF Next

LEMMA LandedGrows ==
    ASSUME TypeInv, Next
    PROVE  landed' \in Nat /\ landed <= landed'
<1> USE DEF files, past, bounds
<1>1. TypeInv'
  BY StepKeepsTypes
<1>2. UNCHANGED landed \/ landed' = landed + 1
  <2>1. ASSUME NEW p \in Procs, SetStep(p) PROVE UNCHANGED landed \/ landed' = landed + 1
    BY <2>1 DEF SetStep, SetOpens, SetFlushes, SetRenames, SetRaises, SetSyncs, SetEnds, SetSyncFails
  <2>2. ASSUME NEW p \in Procs, Begins(p) PROVE UNCHANGED landed
    BY <2>2, StartsAreQuiet DEF Quiet
  <2>3. ASSUME NEW p \in Procs, ReadStep(p) PROVE UNCHANGED landed
    BY <2>3 DEF ReadStep, ReadFile, Parse, CleanUp, Unlinked
  <2>4. ASSUME NEW p \in Procs, ListStep(p) PROVE UNCHANGED landed
    BY <2>4, QuietSteps DEF ListStep, Unlinks, Unlinked, Quiet
  <2> QED BY <2>1, <2>2, <2>3, <2>4 DEF Next, Return, Crash, Damage, PowerLoss
<1> QED BY <1>1, <1>2 DEF TypeInv

(* Whoever does not move keeps what its list covers.                       *)
LEMMA StillListOK ==
    ASSUME IInv, Next, ~ PowerLoss, NEW c \in Calls, ListOK(c)
    PROVE  ListOK(c)'
<1>1. \A k \in Keys : Left(k, c.began)' => Left(k, c.began)
  BY OldEntriesStayAway DEF ListOK, Calls
<1>2. landed' \in Nat /\ landed <= landed' /\ landed \in Nat /\ c.began \in Nat
  BY LandedGrows DEF IInv, TypeInv, Calls
<1>3. c.began <= landed'
  <2>1. c.began <= landed
    BY DEF ListOK
  <2> QED BY <1>2, <2>1
<1>4. c.op \in {"clear", "clear_all", "scan"} /\ c.pc = "done" => c.todo = {}
  BY DEF ListOK
<1>5. c.op \in {"clear", "clear_all"} /\ c.pc \in {"next", "unlink", "done"} =>
         \A k \in Keys \ c.unread :
             c.scope \in {"all", NsOf[k]} /\ Left(k, c.began)' => Pending(c, k)
  BY <1>1 DEF ListOK
<1>6. c.op = "scan" /\ c.pc \in {"next", "done"} =>
         \A k \in Keys \ c.unread : Left(k, c.began)' => k \in c.todo \union c.rows
  BY <1>1 DEF ListOK
<1> QED BY <1>3, <1>4, <1>5, <1>6 DEF ListOK

(* A step by which p moves on: its new call must cover what is left of the *)
(* files as they are after the step.                                       *)
LEMMA MoveKeepsList ==
    ASSUME IInv, ListInv, Next, ~ PowerLoss, NEW p \in Procs, NEW to \in Calls,
           Moves(p, to), ListOK(to)
    PROVE  ListInv'
<1>1. proc'[p] = to /\ \A q \in Procs \ {p} : proc'[q] = proc[q]
  BY DEF Moves, IInv, TypeInv
<1>2. ASSUME NEW q \in Procs PROVE ListOK(proc[q])'
  <2>1. PICK c \in Calls : c = proc'[q] /\ ListOK(c)
    BY <1>1 DEF ListInv, IInv, TypeInv
  <2>2. ListOK(c)'
    BY <2>1, StillListOK
  <2> QED BY <2>1, <2>2 DEF ListOK, Pending
<1> QED BY <1>2 DEF ListInv

(* A call that is not at the end of a clear or a scan, nor amid their      *)
(* list, covers all it has to.                                             *)
LEMMA NoListIsOK ==
    ASSUME NEW c \in Calls, c.began <= landed,
           \/ c.op \notin {"clear", "clear_all", "scan"}
           \/ c.pc \notin {"next", "unlink", "done"}
    PROVE  ListOK(c)
BY DEF ListOK

(* What Goto leaves alone.                                                 *)
LEMMA GotoFields ==
    ASSUME NEW c \in Calls, NEW label
    PROVE  LET to == [c EXCEPT !.pc = label]
           IN  /\ to.pc = label /\ to.op = c.op /\ to.began = c.began /\ to.todo = c.todo
               /\ to.rows = c.rows /\ to.key = c.key /\ to.scope = c.scope
               /\ to.got = c.got /\ to.mine = c.mine /\ to.answer = c.answer
               /\ to.strays = c.strays /\ to.unread = c.unread
               /\ label \in AllLabels => to \in Calls
BY DEF Calls

LEMMA GotoKeepsList ==
    ASSUME IInv, ListInv, Next, ~ PowerLoss, NEW p \in Procs, NEW label \in AllLabels,
           Goto(p, label),
           \/ proc[p].op \notin {"clear", "clear_all", "scan"}
           \/ label \notin {"next", "unlink", "done"}
    PROVE  ListInv'
<1> DEFINE to == [proc[p] EXCEPT !.pc = label]
<1>1. proc[p] \in Calls /\ ListOK(proc[p])
  BY DEF IInv, TypeInv, ListInv
<1>2. to \in Calls /\ to.began <= landed /\ to.pc = label /\ to.op = proc[p].op
  BY <1>1, GotoFields DEF ListOK
<1>3. ListOK(to)
  BY <1>2, NoListIsOK
<1> QED BY <1>2, <1>3, MoveKeepsList DEF Goto

LEMMA StartsKeepList ==
    ASSUME IInv, ListInv, Next, ~ PowerLoss, NEW p \in Procs, Begins(p)
    PROVE  ListInv'
<1>1. ASSUME NEW to, Start(p, to), to.began = 0 \/ to.began = landed,
             \/ to.op \notin {"clear", "clear_all", "scan"}
             \/ to.pc \notin {"next", "unlink", "done"}
      PROVE  ListInv'
  <2>1. to = proc'[p]
    BY <1>1 DEF Start, Moves, IInv, TypeInv
  <2>2. to \in Calls
    BY <2>1, StepKeepsTypes DEF IInv, TypeInv
  <2>3. to.began <= landed
    <3>1. landed \in Nat
      BY DEF IInv, TypeInv
    <3>2. to.began = 0 \/ to.began = landed
      BY <1>1
    <3> QED BY <3>1, <3>2
  <2>4. ListOK(to)
    BY <1>1, <2>2, <2>3, NoListIsOK
  <2> QED BY <1>1, <2>2, <2>4, MoveKeepsList DEF Start
<1>2. CASE StartSet(p)
  BY <1>1, <1>2 DEF StartSet, Idle
<1>3. CASE StartRead(p)
  BY <1>1, <1>3 DEF StartRead, Idle
<1>4. CASE StartDelete(p)
  BY <1>1, <1>4 DEF StartDelete, Idle
<1>5. CASE StartClear(p)
  BY <1>1, <1>5 DEF StartClear, Idle
<1>6. CASE StartClearAll(p)
  BY <1>1, <1>6 DEF StartClearAll, Idle
<1>7. CASE StartScan(p)
  BY <1>1, <1>7 DEF StartScan, Idle
<1> QED BY <1>2, <1>3, <1>4, <1>5, <1>6, <1>7 DEF Begins

LEMMA SetAndReadKeepList ==
    ASSUME IInv, ListInv, Next, ~ PowerLoss, NEW p \in Procs, SetStep(p) \/ ReadStep(p)
    PROVE  ListInv'
<1>1. proc[p] \in Calls /\ Consistent(proc[p]) /\ ListOK(proc[p]) /\ proc'[p] \in Calls
  BY StepKeepsTypes DEF IInv, TypeInv, ListInv
<1>2. proc[p].op \in {"set", "get", "peek"}
  BY <1>1, OperationOfStep DEF SetStep, SetOpens, SetFlushes, SetRenames, SetRaises, SetSyncs,
     SetEnds, SetSyncFails, ReadStep, ReadFile, Parse, CleanUp, At
<1>3. ASSUME NEW label \in AllLabels, Goto(p, label) PROVE ListInv'
  BY <1>2, <1>3, GotoKeepsList
<1>4. CASE SetOpens(p) \/ SetFlushes(p) \/ SetRaises(p) \/ SetSyncs(p) \/ SetSyncFails(p) \/ CleanUp(p)
  BY <1>3, <1>4 DEF SetOpens, SetFlushes, SetRaises, SetSyncs, SetEnds, SetSyncFails, CleanUp,
     AllLabels
<1>5. ASSUME NEW to, Moves(p, to), to.op = proc[p].op, to.began = proc[p].began
      PROVE  ListInv'
  <2>1. to = proc'[p]
    BY <1>5 DEF Moves, IInv, TypeInv
  <2>2. ListOK(to)
    BY <1>1, <1>2, <1>5, <2>1, NoListIsOK DEF ListOK
  <2> QED BY <1>1, <1>5, <2>1, <2>2, MoveKeepsList
<1>6. CASE SetRenames(p)
  <2>1. PICK new : Moves(p, [proc[p] EXCEPT !.pc = "sync", !.got = new])
    BY <1>6 DEF SetRenames
  <2> DEFINE to == [proc[p] EXCEPT !.pc = "sync", !.got = new]
  <2>2. to.op = proc[p].op /\ to.began = proc[p].began
    BY <1>1 DEF Calls
  <2> QED BY <1>5, <2>1, <2>2
<1>7. CASE ReadFile(p)
  <2> DEFINE to == [proc[p] EXCEPT !.pc = "parse", !.got = file[proc[p].key]]
  <2>1. to.op = proc[p].op /\ to.began = proc[p].began
    BY <1>1 DEF Calls
  <2> QED BY <1>3, <1>5, <1>7, <2>1 DEF ReadFile, AllLabels
<1>8. CASE Parse(p)
  <2> DEFINE to == [proc[p] EXCEPT !.pc = "done", !.answer = Loaded(proc[p].got)]
  <2>1. to.op = proc[p].op /\ to.began = proc[p].began
    BY <1>1 DEF Calls
  <2> QED BY <1>3, <1>5, <1>8, <2>1 DEF Parse, AllLabels
<1> QED BY <1>4, <1>6, <1>7, <1>8 DEF SetStep, ReadStep

LEMMA SweepKeepsList ==
    ASSUME IInv, ListInv, Next, ~ PowerLoss, NEW p \in Procs, SweepTemp(p)
    PROVE  ListInv'
<1>1. TypeInv /\ TypeInv' /\ UNCHANGED <<file, landed>> /\ proc[p].pc = "sweep"
  BY StepKeepsTypes DEF IInv, SweepTemp, At
<1>2. ASSUME NEW q \in Procs PROVE ListOK(proc[q])'
  <2>1. /\ ListOK(proc[q])
        /\ UNCHANGED <<proc[q].pc, proc[q].op, proc[q].key, proc[q].scope, proc[q].rows,
                       proc[q].began, proc[q].unread>>
        /\ q # p => UNCHANGED proc[q].todo
    BY <1>1, SweepTouchesLittle DEF ListInv
  <2>2. CASE q # p
    BY <1>1, <2>1, <2>2 DEF ListOK, Pending, Left
  <2>3. CASE q = p
    BY <1>1, <2>1, <2>3 DEF ListOK
  <2> QED BY <2>2, <2>3
<1> QED BY <1>2 DEF ListInv

LEMMA ListStepsKeepList ==
    ASSUME IInv, ListInv, Next, ~ PowerLoss, NEW p \in Procs, ListStep(p)
    PROVE  ListInv'
<1>1. proc[p] \in Calls /\ Consistent(proc[p]) /\ ListOK(proc[p]) /\ proc'[p] \in Calls
  BY StepKeepsTypes DEF IInv, TypeInv, ListInv
<1>2. ASSUME NEW to, Moves(p, to), ListOK(to) PROVE ListInv'
  <2>1. to = proc'[p]
    BY <1>2 DEF Moves, IInv, TypeInv
  <2> QED BY <1>1, <1>2, <2>1, MoveKeepsList
<1>3. CASE ListTemps(p)
  <2> DEFINE to == [proc[p] EXCEPT !.pc = "sweep", !.todo = {n \in Temps : temp[n] # "none"}]
  <2>1. to.pc = "sweep" /\ to.began = proc[p].began
    BY <1>1 DEF Calls
  <2>2. ListOK(to)
    BY <1>1, <2>1 DEF ListOK
  <2> QED BY <1>2, <1>3, <2>2 DEF ListTemps
<1>4. CASE SweepEnds(p)
  BY <1>4, GotoKeepsList DEF SweepEnds, AllLabels
<1>5. CASE UnlinkRaises(p)
  BY <1>5, GotoKeepsList DEF UnlinkRaises, AllLabels
<1>6. CASE List(p)
  <2> DEFINE to == [proc[p] EXCEPT !.pc = "next", !.todo = {k \in Keys : file[k] # NoFile}]
  <2>1. to.pc = "next" /\ to.began = proc[p].began /\ to.todo = {k \in Keys : file[k] # NoFile}
    BY <1>1 DEF Calls
  <2>2. \A k \in Keys, b \in Nat : Left(k, b) => k \in to.todo
    BY <2>1 DEF Left, HeaderIntact
  <2>3. ListOK(to)
    <3>1. to.began <= landed /\ to.began \in Nat
      BY <1>1, <2>1 DEF ListOK, Calls
    <3> HIDE DEF to
    <3> QED BY <2>1, <2>2, <3>1 DEF ListOK, Pending
  <2> QED BY <1>2, <1>6, <2>3 DEF List
<1>7. CASE ListEnds(p)
  <2> DEFINE to == [proc[p] EXCEPT !.pc = "done"]
  <2>1. proc[p].pc = "next" /\ proc[p].todo = {}
    BY <1>7 DEF ListEnds, At
  <2>2. ListOK(to)
    <3>1. /\ to.pc = "done" /\ to.op = proc[p].op /\ to.began = proc[p].began /\ to.todo = {}
          /\ to.rows = proc[p].rows /\ to.scope = proc[p].scope /\ to.unread = proc[p].unread
      BY <1>1, <2>1, GotoFields
    <3> HIDE DEF to
    <3> QED BY <1>1, <2>1, <3>1 DEF ListOK, Pending
  <2> QED BY <1>2, <1>7, <2>2 DEF ListEnds, Goto
<1>8. CASE Unlinks(p)
  <2> DEFINE to == [proc[p] EXCEPT !.pc = IF proc[p].op = "delete" THEN "done" ELSE "next"]
  <2>1. proc[p].pc = "unlink" /\ proc[p].key \in Keys /\ proc'[p] = to
    BY <1>1, <1>8 DEF Unlinks, At, Goto, Moves, IInv, TypeInv, Consistent
  <2>2. \A q \in Procs \ {p} : proc'[q] = proc[q]
    BY <1>8 DEF Unlinks, Goto, Moves, IInv, TypeInv
  <2>3. ASSUME NEW q \in Procs, q # p PROVE ListOK(proc[q])'
    <3>1. PICK c \in Calls : c = proc'[q] /\ ListOK(c)
      BY <2>2, <2>3 DEF ListInv, IInv, TypeInv
    <3>2. ListOK(c)'
      BY <3>1, StillListOK
    <3> QED BY <3>1, <3>2 DEF ListOK, Pending
  <2>4. ListOK(proc[p])'
    <3>1. PICK c \in Calls : c = proc[p] /\ ListOK(c)
      BY <1>1
    <3>2. ListOK(c)'
      BY <3>1, StillListOK
    <3>3. file'[c.key] = NoFile
      BY <1>8, <2>1, <3>1 DEF Unlinks, Unlinked, Path, IInv, TypeInv
    <3>4. ~ Left(c.key, c.began)'
      BY <3>3 DEF Left, HeaderIntact
    <3>5. /\ proc'[p].began = c.began /\ proc'[p].op = c.op /\ proc'[p].todo = c.todo
          /\ proc'[p].rows = c.rows /\ proc'[p].key = c.key /\ proc'[p].scope = c.scope
          /\ proc'[p].unread = c.unread
          /\ proc'[p].pc = IF c.op = "delete" THEN "done" ELSE "next"
      BY <2>1, <3>1, GotoFields
    <3>6. c.pc = "unlink" /\ c.op \in {"delete", "clear", "clear_all"}
      BY <1>1, <2>1, <3>1, OperationOfStep
    <3> QED BY <2>1, <3>2, <3>4, <3>5, <3>6 DEF ListOK, Pending
  <2> QED BY <2>3, <2>4 DEF ListInv
<1>9. ASSUME NEW k \in Keys, ListNext(p, k) PROVE ListInv'
  <2>1. /\ proc[p].pc = "next" /\ k \in proc[p].todo
        /\ proc[p].op \in {"clear", "clear_all", "scan"}
    BY <1>1, <1>9, OperationOfStep DEF ListNext, At
  <2> DEFINE call == [proc[p] EXCEPT !.key = k, !.todo = @ \ {k}]
  <2>2. /\ call.pc = "next" /\ call.op = proc[p].op /\ call.began = proc[p].began
        /\ call.scope = proc[p].scope /\ call.todo = proc[p].todo \ {k} /\ call.key = k
        /\ call.rows = proc[p].rows /\ call.unread = proc[p].unread /\ call \in Calls
    BY <1>1, <2>1 DEF Calls
  <2>3. CASE Breaks(p, k)
    BY <1>9, <2>3, GotoKeepsList DEF ListNext, Follows, AllLabels
  <2>4. CASE /\ ~ Breaks(p, k)
             /\ proc[p].op = "scan" /\ HasHeader(file[k])
    <3> DEFINE to == [call EXCEPT !.rows = @ \union {k}]
    <3>1. /\ to.pc = "next" /\ to.op = "scan" /\ to.began = proc[p].began
          /\ to.todo = proc[p].todo \ {k} /\ to.rows = proc[p].rows \union {k}
          /\ to.unread = proc[p].unread
      BY <2>2, <2>4 DEF Calls
    <3>2. ListOK(to)
      BY <1>1, <2>1, <2>4, <3>1 DEF ListOK
    <3> QED BY <1>2, <1>9, <2>4, <3>2 DEF ListNext, Follows
  <2>5. CASE /\ ~ Breaks(p, k)
             /\ proc[p].op # "scan" /\ Condemned(p, k)
    <3> DEFINE to == [call EXCEPT !.pc = "unlink"]
    <3>1. /\ to.pc = "unlink" /\ to.op = proc[p].op /\ to.began = proc[p].began
          /\ to.todo = proc[p].todo \ {k} /\ to.key = k /\ to.scope = proc[p].scope
          /\ to.unread = proc[p].unread
      BY <2>2 DEF Calls
    <3>2. ListOK(to)
      BY <1>1, <2>1, <2>5, <3>1 DEF ListOK, Pending
    <3> QED BY <1>2, <1>9, <2>5, <3>2 DEF ListNext, Follows
  <2>6. CASE /\ ~ Breaks(p, k)
             /\ ~ (proc[p].op = "scan" /\ HasHeader(file[k]))
             /\ ~ (proc[p].op # "scan" /\ Condemned(p, k))
    <3>1. HeaderIntact(file[k]) => HasHeader(file[k])
      BY BoundsAssumption DEF IInv, PathInv, SoundContent, DamagedForms, HeaderIntact, HasHeader
    <3>2. proc[p].op = "scan" => ~ Left(k, proc[p].began)
      BY <2>6, <3>1 DEF Left
    <3>3. proc[p].op # "scan" =>
             ~ (proc[p].scope \in {"all", NsOf[k]} /\ Left(k, proc[p].began))
      BY <1>1, <2>1, <2>6, <3>1, NsOfAssumption DEF Left, Condemned, Consistent
    <3>4. ListOK(call)
      BY <1>1, <2>1, <2>2, <3>2, <3>3 DEF ListOK, Pending
    <3> QED BY <1>2, <1>9, <2>6, <3>4 DEF ListNext, Follows
  <2> QED BY <2>3, <2>4, <2>5, <2>6
<1>10. CASE ListFails(p) \/ \E k \in Keys : Overlooks(p, k)
  <2>1. PICK to : Moves(p, to) /\ LooksAway(proc[p], to)
    BY <1>10, LookingAway DEF IInv
  <2>2. ListOK(to)
    <3>1. to.began <= landed /\ to.pc # "done" /\ to.pc # "unlink"
      BY <1>1, <2>1 DEF ListOK, LooksAway
    <3>2. CASE to.pc # "next"
      BY <3>1, <3>2 DEF ListOK
    <3>3. CASE to.pc = "next" /\ proc[p].pc = "list"
      BY <2>1, <3>1, <3>3 DEF ListOK, LooksAway
    <3>4. CASE to.pc = "next" /\ proc[p].pc = "next"
      <4>1. /\ proc[p].unread \subseteq to.unread /\ to.rows = proc[p].rows
            /\ proc[p].todo \subseteq to.todo \union to.unread
            /\ to.op = proc[p].op /\ to.scope = proc[p].scope /\ to.began = proc[p].began
        BY <2>1, <3>4 DEF LooksAway
      <4> QED BY <1>1, <3>1, <3>4, <4>1 DEF ListOK, Pending
    <3> QED BY <2>1, <3>2, <3>3, <3>4 DEF LooksAway
  <2> QED BY <1>2, <2>1, <2>2
<1> QED BY <1>3, <1>4, <1>5, <1>6, <1>7, <1>8, <1>9, <1>10, SweepKeepsList DEF ListStep

LEMMA StepKeepsList ==
    ASSUME IInv, ListInv, [Next]_vars
    PROVE  ListInv'
<1>1. ListOK(Idle)
  <2>1. 0 <= landed
    BY DEF IInv, TypeInv
  <2> QED BY <2>1 DEF ListOK, Idle
<1>2. CASE UNCHANGED vars
  BY <1>2 DEF vars, files, ListInv, ListOK, Pending, Left
<1>3. CASE PowerLoss
  <2>1. \A q \in Procs : proc'[q] = Idle
    BY <1>3 DEF PowerLoss
  <2>2. 0 <= landed'
    <3>1. landed' \in Nat
      BY <1>3, StepKeepsTypes DEF IInv, TypeInv, Next
    <3> QED BY <3>1
  <2>3. /\ Idle.began = 0 /\ Idle.pc = "idle" /\ Idle.op = "none"
    BY DEF Idle
  <2> QED BY <2>1, <2>2, <2>3 DEF ListInv, ListOK
<1>4. CASE Next /\ ~ PowerLoss
  <2>1. ASSUME NEW p \in Procs, Return(p) \/ Crash(p) PROVE ListInv'
    BY <1>1, <1>4, <2>1, MoveKeepsList, IdleIsConsistent DEF Return, Crash
  <2>2. ASSUME NEW k \in Keys, Damage(k) PROVE ListInv'
    <3> SUFFICES ASSUME NEW q \in Procs PROVE ListOK(proc[q])'
      BY DEF ListInv
    <3>1. PICK c \in Calls : c = proc[q] /\ c = proc'[q] /\ ListOK(c)
      BY <2>2 DEF Damage, ListInv, IInv, TypeInv
    <3>2. ListOK(c)'
      BY <1>4, <3>1, StillListOK
    <3> QED BY <3>1, <3>2 DEF ListOK, Pending
  <2> QED BY <1>4, <2>1, <2>2, StartsKeepList, SetAndReadKeepList, ListStepsKeepList DEF Next
<1> QED BY <1>2, <1>3, <1>4

LEMMA ListInvInitially == Init => ListInv
<1> SUFFICES ASSUME Init PROVE ListInv
  OBVIOUS
<1>1. \A p \in Procs : proc[p] = Idle
  BY DEF Init
<1>2. Idle.began = 0 /\ Idle.pc = "idle" /\ Idle.op = "none" /\ landed = 0
  BY DEF Idle, Init
<1>3. Idle.began <= landed
  BY <1>2
<1> QED BY <1>1, <1>2, <1>3 DEF ListInv, ListOK

(* What a clear or scan must still see is before it, in every state.       *)
THEOREM ListInvAlways == Spec => []ListInv
BY ListInvInitially, StepKeepsList, IInvAlways, PTL DEF Spec

LEMMA NaturalsAreOrdered == \A x, y \in Nat : ~ (x <= y) => x > y
OBVIOUS

(* When a clear returns, nothing is left of its scope that was set before  *)
(* it began, whatever the other processes did in the meantime, but for     *)
(* entries it could not list or whose header it could not read.            *)
THEOREM ClearForgetsWhatWasThereHolds == Spec => []ClearForgetsWhatWasThere
<1>1. IInv /\ ListInv => ClearForgetsWhatWasThere
  <2> SUFFICES ASSUME IInv, ListInv, NEW p \in Procs,
                      proc[p].op \in {"clear", "clear_all"}, proc[p].pc = "done",
                      NEW k \in Keys \ proc[p].unread,
                      proc[p].scope \in {"all", NsOf[k]}, HeaderIntact(file[k])
               PROVE  file[k].num > proc[p].began
    BY DEF ClearForgetsWhatWasThere, At
  <2>1. ListOK(proc[p])
    BY DEF ListInv
  <2>2. ~ Left(k, proc[p].began)
    BY <2>1 DEF ListOK, Pending
  <2>3. file[k].num \in Nat /\ proc[p].began \in Nat
    BY DEF IInv, TypeInv, Calls, Contents, HeaderIntact
  <2>4. ~ (file[k].num <= proc[p].began)
    BY <2>2 DEF Left
  <2> QED BY <2>3, <2>4, NaturalsAreOrdered, Zenon
<1> QED BY <1>1, IInvAlways, ListInvAlways, PTL

(* A scan lists every entry that was there before it began and still is,   *)
(* but for those it could not list or whose header it could not read.      *)
THEOREM ScanSeesWhatWasThereHolds == Spec => []ScanSeesWhatWasThere
<1>1. IInv /\ ListInv => ScanSeesWhatWasThere
  BY DEF ListInv, ListOK, Left, ScanSeesWhatWasThere, At
<1> QED BY <1>1, IInvAlways, ListInvAlways, PTL

-----------------------------------------------------------------------------
(* A full clear and the temporary files it found without an owner.         *)
StraysOK(p) ==
    /\ At(p, "temps") => proc[p].strays \subseteq Ownerless
    /\ At(p, "sweep") => proc[p].strays \subseteq proc[p].todo \union proc[p].unread
    /\ proc[p].op = "clear_all" /\ proc[p].pc \in {"list", "next", "unlink", "done"} =>
          proc[p].strays \subseteq proc[p].unread

StraysInv == \A p \in Procs : StraysOK(p)

(* Nobody takes a name that is in use and has no owner, and nobody but a   *)
(* sweep, which strikes it off every call, removes such a file.            *)
LEMMA OwnerlessStay ==
    ASSUME IInv, Next, NEW n \in Ownerless,
           \A p \in Procs : SweepTemp(p) => \E q \in Procs : n \in proc'[q].strays
    PROVE  n \in Ownerless'
<1> USE DEF files, past, bounds
<1>0. /\ n \in Temps /\ temp[n] # "none" /\ \A q \in Procs : proc[q].mine # n
      /\ TypeInv /\ n # 0
  <2>1. MaxTemps \in Nat
    BY BoundsAssumption
  <2> QED BY <2>1 DEF Ownerless, IInv, Temps
<1>1. SUFFICES temp'[n] # "none" /\ \A q \in Procs : proc'[q].mine # n
  BY <1>0 DEF Ownerless
<1>2. ASSUME NEW p \in Procs, NEW to, Moves(p, to), to.mine \in {0, proc[p].mine}
      PROVE  \A q \in Procs : proc'[q].mine # n
  BY <1>0, <1>2 DEF Moves, TypeInv
<1>3. ASSUME NEW p \in Procs, NEW label, Goto(p, label)
      PROVE  \A q \in Procs : proc'[q].mine # n
  <2>1. [proc[p] EXCEPT !.pc = label].mine = proc[p].mine
    BY <1>0 DEF TypeInv, Calls
  <2> QED BY <1>2, <1>3, <2>1 DEF Goto
<1>4. ASSUME NEW p \in Procs, Begins(p)
      PROVE  temp'[n] # "none" /\ \A q \in Procs : proc'[q].mine # n
  <2>1. ASSUME NEW to, Start(p, to), to.mine # n
        PROVE  temp'[n] # "none" /\ \A q \in Procs : proc'[q].mine # n
    BY <1>0, <2>1 DEF Start, Moves, TypeInv
  <2>2. CASE StartSet(p)
    BY <1>0, <2>1, <2>2 DEF StartSet, Idle
  <2>3. CASE StartRead(p)
    BY <1>0, <2>1, <2>3 DEF StartRead, Idle
  <2>4. CASE StartDelete(p)
    BY <1>0, <2>1, <2>4 DEF StartDelete, Idle
  <2>5. CASE StartClear(p)
    BY <1>0, <2>1, <2>5 DEF StartClear, Idle
  <2>6. CASE StartClearAll(p)
    BY <1>0, <2>1, <2>6 DEF StartClearAll, Idle
  <2>7. CASE StartScan(p)
    BY <1>0, <2>1, <2>7 DEF StartScan, Idle
  <2> QED BY <1>4, <2>2, <2>3, <2>4, <2>5, <2>6, <2>7 DEF Begins
<1>5. ASSUME NEW p \in Procs, SetStep(p)
      PROVE  temp'[n] # "none" /\ \A q \in Procs : proc'[q].mine # n
  <2>1. temp'[n] = temp[n]
    BY <1>0, <1>5 DEF SetStep, SetOpens, SetFlushes, SetRenames, SetRaises, RemovesTemp,
       RemovalFails, SetSyncs, SetEnds, SetSyncFails, TypeInv
  <2>2. CASE SetRenames(p)
    <3>1. PICK new : Moves(p, [proc[p] EXCEPT !.pc = "sync", !.got = new])
      BY <2>2 DEF SetRenames
    <3>2. [proc[p] EXCEPT !.pc = "sync", !.got = new].mine = proc[p].mine
      BY <1>0 DEF TypeInv, Calls
    <3> QED BY <1>0, <1>2, <2>1, <3>1, <3>2
  <2>3. CASE SetOpens(p) \/ SetFlushes(p) \/ SetRaises(p) \/ SetSyncs(p) \/ SetSyncFails(p)
    BY <1>0, <1>3, <2>1, <2>3 DEF SetOpens, SetFlushes, SetRaises, SetSyncs, SetEnds, SetSyncFails
  <2> QED BY <1>5, <2>2, <2>3 DEF SetStep
<1>6. ASSUME NEW p \in Procs, ReadStep(p)
      PROVE  temp'[n] # "none" /\ \A q \in Procs : proc'[q].mine # n
  <2>1. UNCHANGED temp
    BY <1>6 DEF ReadStep, ReadFile, Parse, CleanUp, Unlinked
  <2>2. /\ [proc[p] EXCEPT !.pc = "parse", !.got = file[proc[p].key]].mine = proc[p].mine
        /\ [proc[p] EXCEPT !.pc = "done", !.answer = Loaded(proc[p].got)].mine = proc[p].mine
    BY <1>0 DEF TypeInv, Calls
  <2> QED BY <1>0, <1>2, <1>3, <1>6, <2>1, <2>2 DEF ReadStep, ReadFile, Parse, CleanUp
<1>7. ASSUME NEW p \in Procs, SweepTemp(p)
      PROVE  temp'[n] # "none" /\ \A q \in Procs : proc'[q].mine # n
  <2>1. PICK m \in proc[p].todo :
           /\ temp' = [temp EXCEPT ![m] = "none"]
           /\ proc' = [q \in Procs |->
                   [proc[q] EXCEPT !.strays = @ \ {m}, !.todo = IF q = p THEN @ \ {m} ELSE @]]
    BY <1>7 DEF SweepTemp
  <2>2. \A q \in Procs : proc'[q].strays = proc[q].strays \ {m}
    <3> SUFFICES ASSUME NEW q \in Procs PROVE proc'[q].strays = proc[q].strays \ {m}
      OBVIOUS
    <3>1. proc[q] \in Calls
      BY <1>0 DEF TypeInv
    <3> QED BY <2>1, <3>1 DEF Calls
  <2>3. m # n
    BY <1>7, <2>2
  <2> QED BY <1>0, <1>7, <2>1, <2>3, SweepTouchesLittle DEF TypeInv
<1>8. ASSUME NEW p \in Procs, ListStep(p), ~ SweepTemp(p)
      PROVE  temp'[n] # "none" /\ \A q \in Procs : proc'[q].mine # n
  <2>1. UNCHANGED temp
    BY <1>8 DEF ListStep, ListTemps, SweepEnds, List, Unlinks, Unlinked, UnlinkRaises, ListEnds,
       ListNext, ListFails, Overlooks
  <2> DEFINE call(k) == [proc[p] EXCEPT !.key = k, !.todo = @ \ {k}]
  <2>2. /\ [proc[p] EXCEPT !.pc = "sweep", !.todo = {m \in Temps : temp[m] # "none"}].mine
               = proc[p].mine
        /\ [proc[p] EXCEPT !.pc = "next", !.todo = {k \in Keys : file[k] # NoFile}].mine
               = proc[p].mine
        /\ \A k \in Keys :
              /\ call(k).mine = proc[p].mine
              /\ [call(k) EXCEPT !.rows = @ \union {k}].mine = proc[p].mine
              /\ [call(k) EXCEPT !.pc = "unlink"].mine = proc[p].mine
    BY <1>0 DEF TypeInv, Calls
  <2>3. ASSUME NEW k \in Keys, ListNext(p, k) PROVE \A q \in Procs : proc'[q].mine # n
    BY <1>2, <1>3, <2>2, <2>3 DEF ListNext, Follows
  <2>4. CASE ListFails(p) \/ \E k \in Keys : Overlooks(p, k)
    BY <1>0, <1>2, <2>1, <2>4, LookingAway DEF LooksAway
  <2> QED BY <1>0, <1>2, <1>3, <1>8, <2>1, <2>2, <2>3, <2>4
          DEF ListStep, ListTemps, SweepEnds, List, Unlinks, UnlinkRaises, ListEnds
<1>9. ASSUME NEW p \in Procs, Return(p) \/ Crash(p)
      PROVE  temp'[n] # "none" /\ \A q \in Procs : proc'[q].mine # n
  <2>1. Idle.mine = 0
    BY DEF Idle
  <2> QED BY <1>0, <1>2, <1>9, <2>1 DEF Return, Crash
<1>10. ASSUME NEW k \in Keys, Damage(k)
       PROVE  temp'[n] # "none" /\ \A q \in Procs : proc'[q].mine # n
  BY <1>0, <1>10 DEF Damage
<1>11. CASE PowerLoss
  BY <1>0, <1>11 DEF PowerLoss, Idle
<1> QED BY <1>4, <1>5, <1>6, <1>7, <1>8, <1>9, <1>10, <1>11 DEF Next

(* Calls that do not move keep their strays.                               *)
LEMMA OthersKeepStrays ==
    ASSUME IInv, StraysInv, Next, \A p \in Procs : ~ SweepTemp(p),
           NEW q \in Procs, UNCHANGED proc[q]
    PROVE  StraysOK(q)'
BY OwnerlessStay DEF StraysInv, StraysOK, At

LEMMA MoveKeepsStrays ==
    ASSUME IInv, StraysInv, Next, \A p \in Procs : ~ SweepTemp(p),
           NEW p \in Procs, NEW to, Moves(p, to),
           to.pc = "temps" => to.strays \subseteq Ownerless,
           to.pc = "sweep" => to.strays \subseteq to.todo \union to.unread,
           to.op = "clear_all" /\ to.pc \in {"list", "next", "unlink", "done"} =>
               to.strays \subseteq to.unread
    PROVE  StraysInv'
<1>1. proc'[p] = to /\ \A q \in Procs \ {p} : proc'[q] = proc[q]
  BY DEF Moves, IInv, TypeInv
<1>2. to.pc = "temps" => to.strays \subseteq Ownerless'
  BY OwnerlessStay
<1>3. StraysOK(p)'
  BY <1>1, <1>2 DEF StraysOK, At
<1>4. \A q \in Procs \ {p} : StraysOK(q)'
  BY <1>1, OthersKeepStrays
<1> QED BY <1>3, <1>4 DEF StraysInv

LEMMA GotoKeepsStrays ==
    ASSUME IInv, StraysInv, Next, \A p \in Procs : ~ SweepTemp(p),
           NEW p \in Procs, NEW label, Goto(p, label), label \notin {"temps", "sweep"},
           \/ proc[p].op # "clear_all" \/ proc[p].strays \subseteq proc[p].unread
           \/ label \notin {"list", "next", "unlink", "done"}
    PROVE  StraysInv'
<1> DEFINE to == [proc[p] EXCEPT !.pc = label]
<1>1. /\ to.pc = label /\ to.op = proc[p].op /\ to.strays = proc[p].strays
      /\ to.unread = proc[p].unread
  BY DEF IInv, TypeInv, Calls
<1> QED BY <1>1, MoveKeepsStrays DEF Goto

LEMMA StartsKeepStrays ==
    ASSUME IInv, StraysInv, Next, NEW p \in Procs, Begins(p)
    PROVE  StraysInv'
<1>1. \A q \in Procs : ~ SweepTemp(q)
  <2> SUFFICES ASSUME NEW q \in Procs, SweepTemp(q) PROVE FALSE
    OBVIOUS
  <2>1. UNCHANGED ops
    BY DEF SweepTemp, bounds
  <2>2. ops' = ops + 1
    BY DEF Begins, StartSet, StartRead, StartDelete, StartClear, StartClearAll, StartScan, Start
  <2> QED BY <2>1, <2>2 DEF IInv, TypeInv
<1>2. ASSUME NEW to, Start(p, to), to.strays = {} \/ (to.pc = "temps" /\ to.strays = Ownerless)
      PROVE  StraysInv'
  BY <1>1, <1>2, MoveKeepsStrays DEF Start
<1>3. CASE StartSet(p)
  BY <1>2, <1>3 DEF StartSet, Idle
<1>4. CASE StartRead(p)
  BY <1>2, <1>4 DEF StartRead, Idle
<1>5. CASE StartDelete(p)
  BY <1>2, <1>5 DEF StartDelete, Idle
<1>6. CASE StartClear(p)
  BY <1>2, <1>6 DEF StartClear, Idle
<1>7. CASE StartClearAll(p)
  BY <1>2, <1>7 DEF StartClearAll, Idle
<1>8. CASE StartScan(p)
  BY <1>2, <1>8 DEF StartScan, Idle
<1> QED BY <1>3, <1>4, <1>5, <1>6, <1>7, <1>8 DEF Begins

LEMMA SweepKeepsStrays ==
    ASSUME IInv, StraysInv, Next, NEW p \in Procs, SweepTemp(p)
    PROVE  StraysInv'
<1>1. PICK n \in proc[p].todo :
         proc' = [q \in Procs |->
                 [proc[q] EXCEPT !.strays = @ \ {n}, !.todo = IF q = p THEN @ \ {n} ELSE @]]
  BY DEF SweepTemp
<1>2. ASSUME NEW q \in Procs
      PROVE  /\ proc'[q].strays = proc[q].strays \ {n}
             /\ proc'[q].todo = IF q = p THEN proc[q].todo \ {n} ELSE proc[q].todo
             /\ UNCHANGED <<proc[q].pc, proc[q].op, proc[q].unread>>
  <2>1. proc[q] \in Calls
    BY DEF IInv, TypeInv
  <2>2. proc'[q] = [proc[q] EXCEPT !.strays = @ \ {n}, !.todo = IF q = p THEN @ \ {n} ELSE @]
    BY <1>1
  <2> QED BY <2>1, <2>2 DEF Calls
<1>3. Ownerless \ {n} \subseteq Ownerless'
  <2> SUFFICES ASSUME NEW m \in Ownerless, m # n PROVE m \in Ownerless'
    OBVIOUS
  <2>1. /\ m \in Temps /\ temp[m] # "none" /\ \A q \in Procs : proc[q].mine # m
    BY DEF Ownerless
  <2>2. \A q \in Procs : proc'[q].mine = proc[q].mine
    BY SweepTouchesLittle DEF IInv
  <2>3. temp'[m] = temp[m]
    <3>1. PICK l \in proc[p].todo :
             /\ temp' = [temp EXCEPT ![l] = "none"]
             /\ proc' = [q \in Procs |->
                     [proc[q] EXCEPT !.strays = @ \ {l}, !.todo = IF q = p THEN @ \ {l} ELSE @]]
      BY DEF SweepTemp
    <3>2. proc[p] \in Calls
      BY DEF IInv, TypeInv
    <3>3. proc'[p].todo = proc[p].todo \ {l} /\ proc'[p].todo = proc[p].todo \ {n}
      BY <1>2, <3>1, <3>2 DEF Calls
    <3>4. l = n
      BY <3>1, <3>3
    <3> QED BY <2>1, <3>1, <3>4 DEF IInv, TypeInv
  <2> QED BY <2>1, <2>2, <2>3 DEF Ownerless
<1>4. ASSUME NEW q \in Procs PROVE StraysOK(q)'
  <2>1. StraysOK(q)
    BY DEF StraysInv
  <2>2. At(q, "temps") => proc'[q].strays \subseteq Ownerless'
    BY <1>2, <1>3, <2>1 DEF StraysOK
  <2> QED BY <1>2, <2>1, <2>2 DEF StraysOK, At
<1> QED BY <1>4 DEF StraysInv

LEMMA StepKeepsStrays ==
    ASSUME IInv, StraysInv, [Next]_vars
    PROVE  StraysInv'
<1> USE DEF files, past, bounds
<1>1. CASE UNCHANGED vars
  BY <1>1 DEF vars, StraysInv, StraysOK, At, Ownerless
<1>2. CASE \E p \in Procs : SweepTemp(p)
  BY <1>2, SweepKeepsStrays DEF Next, ListStep
<1>3. CASE Next /\ \A p \in Procs : ~ SweepTemp(p)
  <2>1. ASSUME NEW p \in Procs, SetStep(p) \/ ReadStep(p) PROVE StraysInv'
    <3>1. proc[p] \in Calls /\ Consistent(proc[p])
      BY DEF IInv, TypeInv
    <3>2. proc[p].op # "clear_all"
      BY <2>1, <3>1, OperationOfStep DEF SetStep, SetOpens, SetFlushes, SetRenames, SetRaises,
         SetSyncs, SetEnds, SetSyncFails, ReadStep, ReadFile, Parse, CleanUp, At
    <3>3. ASSUME NEW label \in {"write", "rename", "raised", "done", "parse", "cleanup"}, Goto(p, label)
          PROVE  StraysInv'
      BY <1>3, <3>2, <3>3, GotoKeepsStrays
    <3>4. CASE SetOpens(p) \/ SetFlushes(p) \/ SetRaises(p) \/ SetSyncs(p) \/ SetSyncFails(p)
               \/ CleanUp(p)
      BY <3>3, <3>4 DEF SetOpens, SetFlushes, SetRaises, SetSyncs, SetEnds, SetSyncFails, CleanUp
    <3>5. CASE SetRenames(p)
      <4>1. PICK new : Moves(p, [proc[p] EXCEPT !.pc = "sync", !.got = new])
        BY <3>5 DEF SetRenames
      <4> DEFINE to == [proc[p] EXCEPT !.pc = "sync", !.got = new]
      <4>2. to.pc = "sync" /\ to.op = proc[p].op
        BY <3>1 DEF Calls
      <4> QED BY <1>3, <3>2, <4>1, <4>2, MoveKeepsStrays
    <3>6. CASE ReadFile(p)
      <4> DEFINE to == [proc[p] EXCEPT !.pc = "parse", !.got = file[proc[p].key]]
      <4>1. to.pc = "parse" /\ to.op = proc[p].op
        BY <3>1 DEF Calls
      <4> QED BY <1>3, <3>2, <3>3, <3>6, <4>1, MoveKeepsStrays DEF ReadFile
    <3>7. CASE Parse(p)
      <4> DEFINE to == [proc[p] EXCEPT !.pc = "done", !.answer = Loaded(proc[p].got)]
      <4>1. to.pc = "done" /\ to.op = proc[p].op
        BY <3>1 DEF Calls
      <4> QED BY <1>3, <3>2, <3>3, <3>7, <4>1, MoveKeepsStrays DEF Parse
    <3> QED BY <2>1, <3>4, <3>5, <3>6, <3>7 DEF SetStep, ReadStep
  <2>2. ASSUME NEW p \in Procs, ListStep(p) PROVE StraysInv'
    <3>1. proc[p] \in Calls /\ Consistent(proc[p]) /\ StraysOK(p)
      BY DEF IInv, TypeInv, StraysInv
    <3>2. ASSUME proc[p].pc \in {"list", "next", "unlink"}
          PROVE  proc[p].op # "clear_all" \/ proc[p].strays \subseteq proc[p].unread
      BY <3>1, <3>2 DEF StraysOK
    <3>3. CASE ListTemps(p)
      <4> DEFINE to == [proc[p] EXCEPT !.pc = "sweep", !.todo = {n \in Temps : temp[n] # "none"}]
      <4>1. to.pc = "sweep" /\ to.strays = proc[p].strays /\ to.todo = {n \in Temps : temp[n] # "none"}
        BY <3>1 DEF Calls
      <4>2. to.strays \subseteq to.todo
        BY <3>1, <3>3, <4>1 DEF ListTemps, StraysOK, Ownerless
      <4> QED BY <1>3, <3>3, <4>1, <4>2, MoveKeepsStrays DEF ListTemps
    <3>4. CASE SweepEnds(p)
      <4>1. proc[p].strays \subseteq proc[p].unread
        BY <3>1, <3>4 DEF SweepEnds, StraysOK
      <4> QED BY <1>3, <3>4, <4>1, GotoKeepsStrays DEF SweepEnds
    <3>5. CASE List(p)
      <4> DEFINE to == [proc[p] EXCEPT !.pc = "next", !.todo = {k \in Keys : file[k] # NoFile}]
      <4>1. /\ to.pc = "next" /\ to.strays = proc[p].strays /\ to.op = proc[p].op
            /\ to.unread = proc[p].unread
        BY <3>1 DEF Calls
      <4> QED BY <1>3, <3>2, <3>5, <4>1, MoveKeepsStrays DEF List, At
    <3>6. CASE Unlinks(p)
      BY <1>3, <3>2, <3>6, GotoKeepsStrays DEF Unlinks, At
    <3>7. CASE UnlinkRaises(p)
      BY <1>3, <3>7, GotoKeepsStrays DEF UnlinkRaises
    <3>8. CASE ListEnds(p)
      BY <1>3, <3>2, <3>8, GotoKeepsStrays DEF ListEnds, At
    <3>9. ASSUME NEW k \in Keys, ListNext(p, k) PROVE StraysInv'
      <4> DEFINE call == [proc[p] EXCEPT !.key = k, !.todo = @ \ {k}]
                 scanned == [call EXCEPT !.rows = @ \union {k}]
                 unlinks == [call EXCEPT !.pc = "unlink"]
      <4>1. proc[p].op # "clear_all" \/ proc[p].strays \subseteq proc[p].unread
        BY <3>2, <3>9 DEF ListNext, At
      <4>2. \A c \in {call, scanned, unlinks} :
               /\ c.pc \in {"next", "unlink"} /\ c.op = proc[p].op /\ c.strays = proc[p].strays
               /\ c.unread = proc[p].unread
        BY <3>1, <3>9 DEF Calls, ListNext, At
      <4>3. Goto(p, "broken") \/ \E c \in {call, scanned, unlinks} : Moves(p, c)
        BY <3>9 DEF ListNext, Follows
      <4>4. ASSUME NEW c \in {call, scanned, unlinks}, Moves(p, c) PROVE StraysInv'
        BY <1>3, <4>1, <4>2, <4>4, MoveKeepsStrays
      <4> QED BY <1>3, <4>3, <4>4, GotoKeepsStrays
    <3>10. CASE ListFails(p) \/ \E k \in Keys : Overlooks(p, k)
      <4>1. PICK to : Moves(p, to) /\ LooksAway(proc[p], to)
        BY <3>10, LookingAway DEF IInv
      <4>2. to.pc = "sweep" => to.strays \subseteq to.unread
        BY <3>1, <4>1 DEF LooksAway, StraysOK, At, Ownerless
      <4>3. to.op = "clear_all" /\ to.pc = "next" => to.strays \subseteq to.unread
        BY <3>2, <4>1 DEF LooksAway
      <4>4. to.pc \in {"sweep", "next"}
        BY <4>1 DEF LooksAway
      <4> QED BY <1>3, <4>1, <4>2, <4>3, <4>4, MoveKeepsStrays
    <3> QED BY <1>3, <2>2, <3>3, <3>4, <3>5, <3>6, <3>7, <3>8, <3>9, <3>10 DEF ListStep
  <2>3. ASSUME NEW p \in Procs, Return(p) \/ Crash(p) PROVE StraysInv'
    BY <1>3, <2>3, MoveKeepsStrays DEF Return, Crash, Idle
  <2>4. ASSUME NEW k \in Keys, Damage(k) PROVE StraysInv'
    BY <1>3, <2>4, OthersKeepStrays DEF Damage, StraysInv
  <2>5. CASE PowerLoss
    BY <2>5 DEF PowerLoss, StraysInv, StraysOK, At, Idle
  <2> QED BY <1>3, <2>1, <2>2, <2>3, <2>4, <2>5, StartsKeepStrays DEF Next
<1> QED BY <1>1, <1>2, <1>3

(* A full clear that returns has removed what nobody was writing when it   *)
(* began, unless it could not list the directory.                          *)
THEOREM FullClearSweepsStraysHolds == Spec => []FullClearSweepsStrays
<1>1. Init => StraysInv
  <2>1. Idle.pc = "idle"
    BY DEF Idle
  <2> QED BY <2>1 DEF Init, StraysInv, StraysOK, At
<1>2. StraysInv => FullClearSweepsStrays
  BY DEF StraysInv, StraysOK, FullClearSweepsStrays, At
<1> QED BY <1>1, <1>2, StepKeepsStrays, IInvAlways, PTL DEF Spec

-----------------------------------------------------------------------------
(* DiskStore implements AtomicStore.                                       *)
Entries == [k \in Keys |-> Loaded(file[k])]
Undoable == [k \in Keys |-> {Loaded(c) : c \in back[k]}]
AbstractCalls == [p \in Procs |-> AbstractCall(p)]

(* AbstractCall as a function of the record of the call.                   *)
PhaseOf(c) ==
    CASE c.pc \in {"parse", "cleanup"} -> "read"
      [] c.pc = "sync" -> "landed"
      [] c.pc \in {"raised", "broken"} -> "raised"
      [] c.pc \in {"idle", "done"} -> c.pc
      [] OTHER -> "pending"

Abstracted(c) ==
    [op |-> IF c.op = "clear_all" THEN "clear" ELSE c.op,
     key |-> IF c.op \in {"set", "get", "peek", "delete"} THEN c.key ELSE NoFile,
     scope |-> c.scope,
     phase |-> PhaseOf(c),
     answer |-> IF PhaseOf(c) = "read" THEN Loaded(c.got) ELSE c.answer]

LEMMA Phases ==
    ASSUME NEW c
    PROVE  /\ c.pc \in {"parse", "cleanup"} => PhaseOf(c) = "read"
           /\ c.pc = "sync" => PhaseOf(c) = "landed"
           /\ c.pc \in {"raised", "broken"} => PhaseOf(c) = "raised"
           /\ c.pc \in {"idle", "done"} => PhaseOf(c) = c.pc
           /\ c.pc \in {"open", "write", "rename", "read", "temps", "sweep", "list", "next", "unlink"}
                 => PhaseOf(c) = "pending"
BY DEF PhaseOf

LEMMA AbstractCallsAre == AbstractCalls = [p \in Procs |-> Abstracted(proc[p])]
BY DEF AbstractCalls, AbstractCall, Abstracted, Phase, PhaseOf, At

LEMMA AbstractMove ==
    ASSUME TypeInv, NEW p \in Procs, NEW to, Moves(p, to)
    PROVE  AbstractCalls' = [AbstractCalls EXCEPT ![p] = Abstracted(to)]
<1>1. proc' = [proc EXCEPT ![p] = to] /\ proc \in [Procs -> Calls]
  BY DEF Moves, TypeInv
<1>2. AbstractCalls' = [q \in Procs |-> Abstracted(proc'[q])]
  BY DEF AbstractCalls, AbstractCall, Abstracted, Phase, PhaseOf, At
<1>3. \A q \in Procs : Abstracted(proc'[q]) = IF q = p THEN Abstracted(to) ELSE Abstracted(proc[q])
  BY <1>1
<1> QED BY <1>2, <1>3, AbstractCallsAre

(* What is done to a path is done to the entry of its key.                 *)
LEMMA AbstractPath ==
    ASSUME TypeInv, NEW k \in Keys, NEW c, Path(k, c)
    PROVE  Abstract!Becomes(k, Loaded(c))
<1>1. Entries' = [Entries EXCEPT ![k] = Loaded(c)]
  BY DEF Path, Entries, TypeInv
<1>2. Undoable' = [Undoable EXCEPT ![k] = @ \union {Entries[k]}]
  <2>1. \A j \in Keys : {Loaded(d) : d \in back'[j]} =
           IF j = k THEN {Loaded(d) : d \in back[j]} \union {Loaded(file[j])}
                    ELSE {Loaded(d) : d \in back[j]}
    BY DEF Path, TypeInv
  <2> QED BY <2>1 DEF Undoable, Entries
<1> QED BY <1>1, <1>2 DEF Abstract!Becomes, Entries, Undoable

AbstractStep == Abstract!Next \/ UNCHANGED Abstract!vars

(* A process whose abstract call does not change makes no abstract step.   *)
LEMMA Stutters ==
    ASSUME TypeInv, NEW p \in Procs, NEW to, Moves(p, to), Abstracted(to) = Abstracted(proc[p]),
           UNCHANGED <<file, back, landed>>
    PROVE  AbstractStep
<1>1. AbstractCalls' = AbstractCalls
  BY AbstractMove, AbstractCallsAre
<1> QED BY <1>1 DEF AbstractStep, Abstract!vars, AbstractCalls

(* The call of p, as the abstract store has it, and the store as it is.    *)
LEMMA AbstractCallIs ==
    ASSUME TypeInv, NEW p \in Procs
    PROVE  AbstractCalls[p] = Abstracted(proc[p])
BY AbstractCallsAre

LEMMA IdleIsIdle ==
    ASSUME TypeInv, NEW p \in Procs, At(p, "idle")
    PROVE  AbstractCalls[p] = Abstract!Idle
<1>1. proc[p] \in Calls /\ Consistent(proc[p]) /\ proc[p].pc = "idle"
  BY DEF TypeInv, At
<1>2. /\ proc[p].op = "none" /\ proc[p].key = NoFile /\ proc[p].scope = NoFile
      /\ proc[p].answer = NoFile
  BY <1>1, OperationOfStep DEF Consistent
<1>3. PhaseOf(proc[p]) = "idle"
  BY <1>1, Phases
<1> QED BY <1>2, <1>3, AbstractCallIs DEF Abstracted, Abstract!Idle, Abstract!Call

LEMMA BeginsAbstractly ==
    ASSUME TypeInv, NEW p \in Procs, Begins(p)
    PROVE  AbstractStep
<1>1. At(p, "idle") /\ UNCHANGED <<file, back, landed>>
  BY DEF Begins, StartSet, StartRead, StartDelete, StartClear, StartClearAll, StartScan, Start, files
<1>2. AbstractCalls[p] = Abstract!Idle
  BY <1>1, IdleIsIdle
<1>3. ASSUME NEW to, Start(p, to), to.pc \in {"open", "read", "unlink", "list", "temps"},
             to.answer = NoFile,
             \/ to.op \in {"set", "get", "peek", "delete"} /\ to.key \in Keys /\ to.scope = NoFile
             \/ to.op = "clear" /\ to.scope \in Namespaces
             \/ to.op = "clear_all" /\ to.scope = "all"
             \/ to.op = "scan" /\ to.scope = NoFile
      PROVE  AbstractStep
  <2>1. PhaseOf(to) = "pending"
    BY <1>3, Phases
  <2>2. AbstractCalls' = [AbstractCalls EXCEPT ![p] = Abstracted(to)]
    BY <1>3, AbstractMove DEF Start
  <2>3. Abstracted(to) \in Abstract!Beginnings
    <3>1. CASE to.op \in {"set", "get", "peek", "delete"} /\ to.key \in Keys /\ to.scope = NoFile
      <4>1. Abstracted(to) = Abstract!Call(to.op, to.key, NoFile, "pending")
        BY <1>3, <2>1, <3>1 DEF Abstracted, Abstract!Call
      <4>2. Abstracted(to) \in
               {Abstract!Call(op, k, NoFile, "pending") : op \in Abstract!Keyed, k \in Keys}
        BY <3>1, <4>1 DEF Abstract!Keyed
      <4> QED BY <4>2 DEF Abstract!Beginnings
    <3>2. CASE to.op \in {"clear", "clear_all"} /\ to.scope \in Namespaces \union {"all"}
      <4>1. Abstracted(to) = Abstract!Call("clear", NoFile, to.scope, "pending")
        BY <1>3, <2>1, <3>2 DEF Abstracted, Abstract!Call
      <4>2. Abstracted(to) \in {Abstract!Call("clear", NoFile, scope, "pending") :
                                scope \in Namespaces \union {"all"}}
        BY <3>2, <4>1
      <4> QED BY <4>2 DEF Abstract!Beginnings
    <3>3. CASE to.op = "scan" /\ to.scope = NoFile
      <4>1. Abstracted(to) = Abstract!Call("scan", NoFile, NoFile, "pending")
        BY <1>3, <2>1, <3>3 DEF Abstracted, Abstract!Call
      <4> QED BY <4>1 DEF Abstract!Beginnings
    <3> QED BY <1>3, <3>1, <3>2, <3>3
  <2>4. Abstract!Begin(p)
    BY <1>1, <1>2, <2>2, <2>3 DEF Abstract!Begin, AbstractCalls
  <2> QED BY <2>4 DEF AbstractStep, Abstract!Next
<1>4. CASE StartSet(p)
  BY <1>3, <1>4 DEF StartSet, Idle
<1>5. CASE StartRead(p)
  BY <1>3, <1>5 DEF StartRead, Idle
<1>6. CASE StartDelete(p)
  BY <1>3, <1>6 DEF StartDelete, Idle
<1>7. CASE StartClear(p)
  BY <1>3, <1>7 DEF StartClear, Idle
<1>8. CASE StartClearAll(p)
  BY <1>3, <1>8 DEF StartClearAll, Idle
<1>9. CASE StartScan(p)
  BY <1>3, <1>9 DEF StartScan, Idle
<1> QED BY <1>4, <1>5, <1>6, <1>7, <1>8, <1>9 DEF Begins

(* An abstract call that goes on to another phase.                         *)
LEMMA NextPhase ==
    ASSUME NEW o, NEW k, NEW s, NEW f, NEW a, NEW how, NEW c,
           c = [op |-> o, key |-> k, scope |-> s, phase |-> f, answer |-> a]
    PROVE  [c EXCEPT !.phase = how] = [op |-> o, key |-> k, scope |-> s, phase |-> how, answer |-> a]
OBVIOUS

Same(c, to) == to.op = c.op /\ to.scope = c.scope
              /\ (c.op \in {"set", "get", "peek", "delete"} => to.key = c.key)

LEMMA AbstractEnds ==
    ASSUME TypeInv, NEW p \in Procs, NEW to, Moves(p, to), Same(proc[p], to),
           PhaseOf(proc[p]) # "read", PhaseOf(to) # "read", to.answer = proc[p].answer
    PROVE  AbstractCalls' = [AbstractCalls EXCEPT ![p].phase = PhaseOf(to)]
<1>1. Abstracted(to) = [Abstracted(proc[p]) EXCEPT !.phase = PhaseOf(to)]
  <2>1. PICK o, k : /\ o = IF proc[p].op = "clear_all" THEN "clear" ELSE proc[p].op
                    /\ k = IF proc[p].op \in {"set", "get", "peek", "delete"}
                           THEN proc[p].key ELSE NoFile
    OBVIOUS
  <2>2. Abstracted(proc[p]) = [op |-> o, key |-> k, scope |-> proc[p].scope,
                               phase |-> PhaseOf(proc[p]), answer |-> proc[p].answer]
    BY <2>1 DEF Abstracted
  <2>3. Abstracted(to) = [op |-> o, key |-> k, scope |-> proc[p].scope,
                          phase |-> PhaseOf(to), answer |-> proc[p].answer]
    BY <2>1 DEF Abstracted, Same
  <2> QED BY <2>2, <2>3, NextPhase
<1>2. AbstractCalls' = [AbstractCalls EXCEPT ![p] = Abstracted(to)]
  BY AbstractMove
<1> QED BY <1>1, <1>2, AbstractCallIs

LEMMA AbstractFields ==
    ASSUME TypeInv, NEW p \in Procs
    PROVE  /\ AbstractCalls[p].op = IF proc[p].op = "clear_all" THEN "clear" ELSE proc[p].op
           /\ proc[p].op \in {"set", "get", "peek", "delete"} => AbstractCalls[p].key = proc[p].key
           /\ AbstractCalls[p].scope = proc[p].scope
           /\ AbstractCalls[p].phase = PhaseOf(proc[p])
           /\ AbstractCalls[p].answer = IF PhaseOf(proc[p]) = "read" THEN Loaded(proc[p].got)
                                        ELSE proc[p].answer
<1>1. PICK c : c = proc[p]
  OBVIOUS
<1>2. PICK o, k, f, a :
         /\ o = IF c.op = "clear_all" THEN "clear" ELSE c.op
         /\ k = IF c.op \in {"set", "get", "peek", "delete"} THEN c.key ELSE NoFile
         /\ f = PhaseOf(c) /\ a = IF f = "read" THEN Loaded(c.got) ELSE c.answer
  OBVIOUS
<1>3. AbstractCalls[p] = [op |-> o, key |-> k, scope |-> c.scope, phase |-> f, answer |-> a]
  BY <1>1, <1>2, AbstractCallIs DEF Abstracted
<1>4. /\ AbstractCalls[p].op = o /\ AbstractCalls[p].key = k /\ AbstractCalls[p].scope = c.scope
      /\ AbstractCalls[p].phase = f /\ AbstractCalls[p].answer = a
  BY <1>3
<1>5. AbstractCalls[p].op = IF proc[p].op = "clear_all" THEN "clear" ELSE proc[p].op
  BY <1>1, <1>2, <1>4
<1>6. proc[p].op \in {"set", "get", "peek", "delete"} => AbstractCalls[p].key = proc[p].key
  BY <1>1, <1>2, <1>4
<1>7. AbstractCalls[p].scope = proc[p].scope /\ AbstractCalls[p].phase = PhaseOf(proc[p])
  BY <1>1, <1>2, <1>4
<1>8. AbstractCalls[p].answer = IF PhaseOf(proc[p]) = "read" THEN Loaded(proc[p].got)
                               ELSE proc[p].answer
  BY <1>1, <1>2, <1>4
<1> QED BY <1>5, <1>6, <1>7, <1>8

(* Goto is a stutter within a phase, or ends the phase.                    *)
LEMMA GotoAbstractly ==
    ASSUME TypeInv, NEW p \in Procs, NEW label, Goto(p, label),
           PhaseOf(proc[p]) # "read"
    PROVE  LET to == [proc[p] EXCEPT !.pc = label]
           IN  /\ PhaseOf(to) = PhaseOf(proc[p]) /\ UNCHANGED <<file, back, landed>> => AbstractStep
               /\ PhaseOf(to) # "read" =>
                     AbstractCalls' = [AbstractCalls EXCEPT ![p].phase = PhaseOf(to)]
<1> DEFINE to == [proc[p] EXCEPT !.pc = label]
<1>1. proc[p] \in Calls
  BY DEF TypeInv
<1>2. Same(proc[p], to) /\ to.answer = proc[p].answer
  BY <1>1, GotoFields DEF Same
<1>3. PhaseOf(to) = PhaseOf(proc[p]) => Abstracted(to) = Abstracted(proc[p])
  BY <1>2 DEF Abstracted, Same
<1>4. Moves(p, to)
  BY DEF Goto
<1> HIDE DEF to
<1>5. PhaseOf(to) = PhaseOf(proc[p]) /\ UNCHANGED <<file, back, landed>> => AbstractStep
  BY <1>3, <1>4, Stutters
<1>6. PhaseOf(to) # "read" => AbstractCalls' = [AbstractCalls EXCEPT ![p].phase = PhaseOf(to)]
  BY <1>2, <1>4, AbstractEnds
<1> QED BY <1>5, <1>6 DEF to

LEMMA SetAbstractly ==
    ASSUME IInv, NEW p \in Procs, SetStep(p)
    PROVE  AbstractStep
<1> USE DEF files, past, bounds
<1>0. TypeInv /\ proc[p] \in Calls /\ Consistent(proc[p])
  BY DEF IInv, TypeInv
<1>1. proc[p].op = "set" /\ proc[p].key \in Keys /\ proc[p].answer = NoFile
  BY <1>0, OperationOfStep DEF SetStep, SetOpens, SetFlushes, SetRenames, SetRaises, SetSyncs,
     SetSyncFails, SetEnds, At, Consistent
<1>2. ASSUME NEW label
      PROVE  LET to == [proc[p] EXCEPT !.pc = label]
             IN  /\ label \in {"write", "rename"} => PhaseOf(to) = "pending"
                 /\ label \in {"done", "raised"} => PhaseOf(to) = label
  <2> DEFINE to == [proc[p] EXCEPT !.pc = label]
  <2>1. to.pc = label
    BY <1>0 DEF Calls
  <2> HIDE DEF to
  <2>2. /\ label \in {"write", "rename"} => PhaseOf(to) = "pending"
        /\ label \in {"done", "raised"} => PhaseOf(to) = label
    BY <2>1, Phases
  <2> QED BY <2>2 DEF to
<1>3. CASE SetOpens(p) \/ SetFlushes(p)
  <2>1. PICK label \in {"write", "rename"} : Goto(p, label)
    BY <1>3 DEF SetOpens, SetFlushes
  <2>2. PhaseOf(proc[p]) = "pending" /\ UNCHANGED <<file, back, landed>>
    BY <1>3, Phases DEF SetOpens, SetFlushes, At
  <2> DEFINE to == [proc[p] EXCEPT !.pc = label]
  <2>3. PhaseOf(to) = "pending"
    BY <1>2, <2>1
  <2> HIDE DEF to
  <2>4. PhaseOf(to) = PhaseOf(proc[p])
    BY <2>2, <2>3
  <2> QED BY <1>0, <2>1, <2>2, <2>4, GotoAbstractly DEF to
<1>4. CASE SetRaises(p)
  <2>1. PhaseOf(proc[p]) = "pending"
    BY <1>4, Phases DEF SetRaises, At
  <2>2. AbstractCalls' = [AbstractCalls EXCEPT ![p].phase = "raised"]
    BY <1>0, <1>2, <1>4, <2>1, GotoAbstractly DEF SetRaises
  <2>3. Entries' = Entries /\ Undoable' = Undoable /\ landed' = landed
    BY <1>4 DEF SetRaises, Entries, Undoable
  <2>4. Abstract!Raise(p)
    BY <1>0, <1>1, <2>1, <2>2, <2>3, AbstractFields DEF Abstract!Raise, Abstract!Doing, Abstract!Ends,
       AbstractCalls, Entries, Undoable
  <2> QED BY <2>4 DEF AbstractStep, Abstract!Next
<1>5. CASE SetRenames(p)
  <2>1. PICK new : /\ new = [num |-> landed + 1, form |-> "whole",
                              flushed |-> temp[proc[p].mine] = "flushed"]
                   /\ Path(proc[p].key, new) /\ landed' = landed + 1
                   /\ Moves(p, [proc[p] EXCEPT !.pc = "sync", !.got = new])
    BY <1>5 DEF SetRenames
  <2> DEFINE to == [proc[p] EXCEPT !.pc = "sync", !.got = new]
  <2>2. Loaded(new) = landed + 1
    <3>1. new \in Contents
      BY <1>0, <2>1 DEF Contents, Forms, TypeInv
    <3> QED BY <2>1, <3>1, NoFileAssumption DEF Loaded, Reads
  <2>3. Abstract!Becomes(proc[p].key, landed + 1)
    <3>1. Abstract!Becomes(proc[p].key, Loaded(new))
      BY <1>0, <1>1, <2>1, AbstractPath
    <3> QED BY <2>2, <3>1 DEF Abstract!Becomes
  <2>4. Same(proc[p], to) /\ to.answer = proc[p].answer /\ to.pc = "sync"
    BY <1>0 DEF Same, Calls
  <2>5. PhaseOf(to) = "landed" /\ PhaseOf(proc[p]) = "pending"
    <3> HIDE DEF to
    <3> QED BY <1>5, <2>4, Phases DEF SetRenames, At
  <2>6. AbstractCalls' = [AbstractCalls EXCEPT ![p].phase = "landed"]
    BY <1>0, <2>1, <2>4, <2>5, AbstractEnds
  <2>7. Abstract!Set(p)
    BY <1>0, <1>1, <2>1, <2>3, <2>5, <2>6, AbstractFields DEF Abstract!Set, Abstract!Doing,
       AbstractCalls
  <2> QED BY <2>7 DEF AbstractStep, Abstract!Next
<1>6. CASE SetSyncs(p) \/ SetSyncFails(p)
  <2>1. PhaseOf(proc[p]) = "landed" /\ Goto(p, "done")
    BY <1>6, Phases DEF SetSyncs, SetSyncFails, SetEnds, At
  <2>2. AbstractCalls' = [AbstractCalls EXCEPT ![p].phase = "done"]
    BY <1>0, <1>2, <2>1, GotoAbstractly
  <2>3. Undoable' \in {Undoable, [k \in Keys |-> {}]} /\ Entries' = Entries /\ landed' = landed
    BY <1>6 DEF SetSyncs, SetSyncFails, SetEnds, Undoable, Entries
  <2>4. Abstract!Synchronise(p)
    BY <1>0, <2>1, <2>2, <2>3, AbstractFields DEF Abstract!Synchronise, Abstract!Ends, AbstractCalls,
       Entries, Undoable
  <2> QED BY <2>4 DEF AbstractStep, Abstract!Next
<1> QED BY <1>3, <1>4, <1>5, <1>6 DEF SetStep

LEMMA ReadAbstractly ==
    ASSUME IInv, NEW p \in Procs, ReadStep(p)
    PROVE  AbstractStep
<1> USE DEF files, past, bounds
<1>0. TypeInv /\ proc[p] \in Calls /\ Consistent(proc[p])
  BY DEF IInv, TypeInv
<1>1. /\ proc[p].op \in {"get", "peek"} /\ proc[p].key \in Keys /\ proc[p].answer = NoFile
      /\ proc[p].scope = NoFile
  BY <1>0, OperationOfStep DEF ReadStep, ReadFile, Parse, CleanUp, At, Consistent
(* The call of p, before and after the step.                               *)
<1>2. ASSUME NEW to, Moves(p, to), Same(proc[p], to)
      PROVE  LET answer == IF PhaseOf(to) = "read" THEN Loaded(to.got) ELSE to.answer
             IN  /\ AbstractCalls' = [AbstractCalls EXCEPT ![p].phase = PhaseOf(to),
                                                           ![p].answer = answer]
                 /\ answer = AbstractCalls[p].answer =>
                       AbstractCalls' = [AbstractCalls EXCEPT ![p].phase = PhaseOf(to)]
  <2>1. PICK f, a : f = PhaseOf(to) /\ a = IF f = "read" THEN Loaded(to.got) ELSE to.answer
    OBVIOUS
  <2>2. PICK g, b : g = PhaseOf(proc[p]) /\ b = IF g = "read" THEN Loaded(proc[p].got) ELSE proc[p].answer
    OBVIOUS
  <2>3. PICK o, k, s : o = proc[p].op /\ k = proc[p].key /\ s = proc[p].scope
    OBVIOUS
  <2>4. Abstracted(to) = [op |-> o, key |-> k, scope |-> s, phase |-> f, answer |-> a]
    BY <1>1, <1>2, <2>1, <2>3 DEF Abstracted, Same
  <2>5. Abstracted(proc[p]) = [op |-> o, key |-> k, scope |-> s, phase |-> g, answer |-> b]
    BY <1>1, <2>2, <2>3 DEF Abstracted
  <2>6. AbstractCalls[p] = Abstracted(proc[p]) /\ AbstractCalls[p].answer = b
    BY <1>0, <2>5, AbstractCallIs
  <2>7. AbstractCalls' = [AbstractCalls EXCEPT ![p] = Abstracted(to)]
    BY <1>0, <1>2, AbstractMove
  <2>8. PICK d : d = [Abstracted(proc[p]) EXCEPT !.phase = f, !.answer = a]
    OBVIOUS
  <2>9. d = Abstracted(to)
    <3>1. PICK e : e = [Abstracted(proc[p]) EXCEPT !.phase = f]
      OBVIOUS
    <3>2. e = [op |-> o, key |-> k, scope |-> s, phase |-> f, answer |-> b]
      BY <2>5, <3>1, NextPhase
    <3>3. [e EXCEPT !.answer = a] = [op |-> o, key |-> k, scope |-> s, phase |-> f, answer |-> a]
      BY <3>2
    <3> QED BY <2>4, <2>8, <3>1, <3>3
  <2>10. a = b => Abstracted(to) = [Abstracted(proc[p]) EXCEPT !.phase = f]
    BY <2>4, <2>5, NextPhase
  <2>11. AbstractCalls' = [AbstractCalls EXCEPT ![p].phase = f, ![p].answer = a]
    BY <2>6, <2>7, <2>8, <2>9
  <2>12. a = b => AbstractCalls' = [AbstractCalls EXCEPT ![p].phase = f]
    BY <2>6, <2>7, <2>10
  <2> QED BY <2>1, <2>6, <2>11, <2>12
<1>3. CASE ReadFile(p)
  <2>1. PICK to : /\ Moves(p, to) /\ Same(proc[p], to) /\ to.pc = "parse"
                  /\ to.got \in {file[proc[p].key], NoFile}
    <3>1. CASE Moves(p, [proc[p] EXCEPT !.pc = "parse", !.got = file[proc[p].key]])
      <4> DEFINE to == [proc[p] EXCEPT !.pc = "parse", !.got = file[proc[p].key]]
      <4>1. Same(proc[p], to) /\ to.pc = "parse" /\ to.got = file[proc[p].key]
        BY <1>0 DEF Calls, Same
      <4> HIDE DEF to
      <4> QED BY <3>1, <4>1 DEF to
    <3>2. CASE Goto(p, "parse")
      <4> DEFINE to == [proc[p] EXCEPT !.pc = "parse"]
      <4>1. Same(proc[p], to) /\ to.pc = "parse" /\ to.got = proc[p].got
        BY <1>0, GotoFields DEF Same
      <4>2. proc[p].got = NoFile
        BY <1>0, <1>3 DEF Consistent, ReadFile, At
      <4>3. Moves(p, to)
        BY <3>2 DEF Goto
      <4> HIDE DEF to
      <4> QED BY <4>1, <4>2, <4>3
    <3> QED BY <1>3, <3>1, <3>2 DEF ReadFile
  <2>2. PhaseOf(to) = "read" /\ PhaseOf(proc[p]) = "pending"
    BY <1>3, <2>1, Phases DEF ReadFile, At
  <2>3. AbstractCalls' = [AbstractCalls EXCEPT ![p].phase = "read", ![p].answer = Loaded(to.got)]
    BY <1>2, <2>1, <2>2
  <2>4. Loaded(to.got) \in {Entries[proc[p].key], NoFile}
    BY <1>1, <2>1 DEF Entries, Loaded, Reads
  <2>5. Entries' = Entries /\ Undoable' = Undoable /\ landed' = landed
    BY <1>3 DEF ReadFile, Entries, Undoable
  <2>6. /\ AbstractCalls[p].op = proc[p].op /\ AbstractCalls[p].key = proc[p].key
        /\ AbstractCalls[p].phase = "pending"
    BY <1>0, <1>1, <2>2, AbstractFields
  <2>7. \E answer \in {Entries[AbstractCalls[p].key], NoFile} :
           AbstractCalls' = [AbstractCalls EXCEPT ![p].phase = "read", ![p].answer = answer]
    BY <2>3, <2>4, <2>6
  <2>8. Abstract!Read(p)
    BY <1>1, <2>5, <2>6, <2>7 DEF Abstract!Read, Abstract!Doing, AbstractCalls, Entries, Undoable
  <2> QED BY <2>8 DEF AbstractStep, Abstract!Next
<1>4. CASE Parse(p)
  <2>1. PhaseOf(proc[p]) = "read" /\ UNCHANGED <<file, back, landed>>
    BY <1>4, Phases DEF Parse, At
  <2>2. CASE Goto(p, "cleanup")
    <3> DEFINE to == [proc[p] EXCEPT !.pc = "cleanup"]
    <3>1. Same(proc[p], to) /\ to.pc = "cleanup" /\ to.got = proc[p].got
      BY <1>0, GotoFields DEF Same
    <3>2. Moves(p, to)
      BY <2>2 DEF Goto
    <3> HIDE DEF to
    <3>3. Abstracted(to) = Abstracted(proc[p])
      BY <2>1, <3>1, Phases DEF Abstracted, Same
    <3> QED BY <1>0, <2>1, <3>2, <3>3, Stutters
  <2>3. CASE Moves(p, [proc[p] EXCEPT !.pc = "done", !.answer = Loaded(proc[p].got)])
    <3> DEFINE to == [proc[p] EXCEPT !.pc = "done", !.answer = Loaded(proc[p].got)]
    <3>1. Same(proc[p], to) /\ to.pc = "done" /\ to.answer = Loaded(proc[p].got)
      BY <1>0 DEF Same, Calls
    <3>5. Moves(p, to)
      BY <2>3
    <3> HIDE DEF to
    <3>2. PhaseOf(to) = "done" /\ to.answer = AbstractCalls[p].answer
          /\ AbstractCalls[p].phase = "read"
      BY <1>0, <2>1, <3>1, Phases, AbstractFields
    <3>6. AbstractCalls' = [AbstractCalls EXCEPT ![p].phase = PhaseOf(to)]
      <4>1. PhaseOf(to) # "read"
        BY <3>2
      <4> QED BY <1>2, <3>5, <3>1, <3>2, <4>1
    <3>3. AbstractCalls' = [AbstractCalls EXCEPT ![p].phase = "done"]
      BY <3>2, <3>6
    <3>4. Abstract!ReadEnds(p)
      BY <2>1, <3>2, <3>3 DEF Abstract!ReadEnds, AbstractCalls
    <3> QED BY <3>4 DEF AbstractStep, Abstract!Next
  <2> QED BY <1>4, <2>2, <2>3 DEF Parse
<1>5. CASE CleanUp(p)
  <2> DEFINE to == [proc[p] EXCEPT !.pc = "done"]
  <2>1. Same(proc[p], to) /\ to.pc = "done" /\ to.answer = NoFile /\ Moves(p, to)
    BY <1>0, <1>1, <1>5, GotoFields DEF Same, CleanUp, Goto
  <2> HIDE DEF to
  <2>2. PhaseOf(proc[p]) = "read" /\ PhaseOf(to) = "done" /\ Loaded(proc[p].got) = NoFile
    BY <1>0, <1>5, <2>1, Phases DEF CleanUp, At, Consistent, Loaded
  <2>3. /\ AbstractCalls[p].op = "get" /\ AbstractCalls[p].answer = NoFile
        /\ AbstractCalls[p].key = proc[p].key /\ AbstractCalls[p].phase = "read"
    <3>1. proc[p].op = "get"
      BY <1>0, <1>5, OperationOfStep DEF CleanUp, At
    <3> QED BY <1>0, <2>2, <3>1, AbstractFields
  <2>4. AbstractCalls' = [AbstractCalls EXCEPT ![p].phase = "done"]
    <3>1. to.answer = AbstractCalls[p].answer
      BY <2>1, <2>3
    <3>2. (IF PhaseOf(to) = "read" THEN Loaded(to.got) ELSE to.answer) = AbstractCalls[p].answer
      BY <2>2, <3>1
    <3>3. AbstractCalls' = [AbstractCalls EXCEPT ![p].phase = PhaseOf(to)]
      BY <1>2, <2>1, <3>2
    <3> QED BY <2>2, <3>3
  <2>5. landed' = landed /\ (UNCHANGED <<file, back>> \/ Abstract!Becomes(proc[p].key, NoFile))
    <3>1. CASE Unlinked(proc[p].key)
      <4>1. Abstract!Becomes(proc[p].key, Loaded(NoFile))
        BY <1>0, <1>1, <3>1, AbstractPath DEF Unlinked
      <4>2. Loaded(NoFile) = NoFile
        BY DEF Loaded, Reads
      <4> QED BY <3>1, <4>1, <4>2 DEF Unlinked, Abstract!Becomes
    <3> QED BY <1>5, <3>1 DEF CleanUp
  <2>6. Abstract!ReadEnds(p)
    BY <2>3, <2>4, <2>5 DEF Abstract!ReadEnds, AbstractCalls
  <2> QED BY <2>6 DEF AbstractStep, Abstract!Next
<1> QED BY <1>3, <1>4, <1>5 DEF ReadStep

(* A sweep only removes temporary files, which the abstract store has not. *)
LEMMA SweepAbstractly ==
    ASSUME TypeInv, NEW p \in Procs, SweepTemp(p)
    PROVE  AbstractStep
<1>1. ASSUME NEW q \in Procs PROVE Abstracted(proc'[q]) = Abstracted(proc[q])
  <2>1. PICK c, d : c = proc[q] /\ d = proc'[q]
    OBVIOUS
  <2>2. /\ d.pc = c.pc /\ d.op = c.op /\ d.key = c.key /\ d.scope = c.scope
        /\ d.got = c.got /\ d.answer = c.answer
    BY <2>1, SweepTouchesLittle
  <2>3. PhaseOf(d) = PhaseOf(c)
    BY <2>2 DEF PhaseOf
  <2>4. Abstracted(d) = Abstracted(c)
    BY <2>2, <2>3 DEF Abstracted
  <2> QED BY <2>1, <2>4
<1>2. AbstractCalls' = [q \in Procs |-> Abstracted(proc'[q])]
  BY DEF AbstractCalls, AbstractCall, Abstracted, Phase, PhaseOf, At
<1>3. AbstractCalls' = AbstractCalls
  BY <1>1, <1>2, AbstractCallsAre
<1>4. UNCHANGED <<file, back, landed>>
  BY DEF SweepTemp
<1> QED BY <1>3, <1>4 DEF AbstractStep, Abstract!vars, AbstractCalls

(* A clear or scan that goes on to another step is the same abstract call. *)
SameCall(c, to) == to.op = c.op /\ to.scope = c.scope /\ to.answer = c.answer

LEMMA GoesOn ==
    ASSUME NEW c, NEW to, c.op \in {"clear", "clear_all", "scan"}, SameCall(c, to),
           c.pc \in {"temps", "sweep", "list", "next", "unlink"},
           to.pc \in {"temps", "sweep", "list", "next", "unlink"}
    PROVE  Abstracted(to) = Abstracted(c) /\ PhaseOf(to) = "pending"
<1>1. PhaseOf(to) = "pending" /\ PhaseOf(c) = "pending"
  BY Phases
<1> QED BY <1>1 DEF Abstracted, SameCall

LEMMA UnlinkAbstractly ==
    ASSUME IInv, NEW p \in Procs, Unlinks(p)
    PROVE  AbstractStep
<1> USE DEF files, past, bounds
<1>0. TypeInv /\ proc[p] \in Calls /\ Consistent(proc[p])
  BY DEF IInv, TypeInv
<1>1. /\ proc[p].pc = "unlink" /\ proc[p].key \in Keys
      /\ proc[p].op \in {"delete", "clear", "clear_all"}
  BY <1>0, OperationOfStep DEF Unlinks, At, Consistent
<1>2. PhaseOf(proc[p]) = "pending"
  BY <1>1, Phases
<1>3. Abstract!Becomes(proc[p].key, NoFile) /\ landed' = landed
  <2>1. Abstract!Becomes(proc[p].key, Loaded(NoFile))
    BY <1>0, <1>1, AbstractPath DEF Unlinks, Unlinked
  <2>2. Loaded(NoFile) = NoFile
    BY DEF Loaded, Reads
  <2> QED BY <2>1, <2>2 DEF Abstract!Becomes, Unlinks, Unlinked
<1>4. CASE proc[p].op = "delete"
  <2> DEFINE to == [proc[p] EXCEPT !.pc = "done"]
  <2>1. Moves(p, to) /\ Same(proc[p], to) /\ to.pc = "done" /\ to.answer = proc[p].answer
    BY <1>0, <1>4, GotoFields DEF Unlinks, Goto, Same
  <2> HIDE DEF to
  <2>2. PhaseOf(to) = "done"
    BY <2>1, Phases
  <2>3. AbstractCalls' = [AbstractCalls EXCEPT ![p].phase = "done"]
    BY <1>0, <1>2, <2>1, <2>2, AbstractEnds
  <2>4. Abstract!Delete(p)
    BY <1>0, <1>2, <1>3, <1>4, <2>3, AbstractFields DEF Abstract!Delete, Abstract!Doing,
       Abstract!Ends, AbstractCalls
  <2> QED BY <2>4 DEF AbstractStep, Abstract!Next
<1>5. CASE proc[p].op # "delete"
  <2> DEFINE to == [proc[p] EXCEPT !.pc = "next"]
  <2>1. Moves(p, to) /\ to.pc = "next" /\ SameCall(proc[p], to)
    BY <1>0, <1>5, GotoFields DEF Unlinks, Goto, SameCall
  <2> HIDE DEF to
  <2>2. Abstracted(to) = Abstracted(proc[p])
    BY <1>0, <1>1, <1>5, <2>1, GoesOn
  <2>3. AbstractCalls' = AbstractCalls
    BY <1>0, <2>1, <2>2, AbstractMove, AbstractCallsAre
  <2>4. Abstract!InScope(proc[p].scope, proc[p].key)
    BY <1>0, <1>1, <1>5 DEF Abstract!InScope, Consistent
  <2>5. AbstractCalls[p].scope = proc[p].scope /\ AbstractCalls[p].op = "clear"
        /\ AbstractCalls[p].phase = "pending"
    BY <1>0, <1>1, <1>2, <1>5, AbstractFields
  <2>6. Abstract!Clear(p)
    BY <1>1, <1>3, <2>3, <2>4, <2>5 DEF Abstract!Clear, Abstract!Doing, AbstractCalls
  <2> QED BY <2>6 DEF AbstractStep, Abstract!Next
<1> QED BY <1>4, <1>5

LEMMA ListAbstractly ==
    ASSUME IInv, NEW p \in Procs, ListStep(p)
    PROVE  AbstractStep
<1> USE DEF files, past, bounds
<1>0. TypeInv /\ proc[p] \in Calls /\ Consistent(proc[p])
  BY DEF IInv, TypeInv
(* Within a clear or scan.                                                 *)
<1>1. ASSUME NEW to, Moves(p, to), SameCall(proc[p], to),
             to.pc \in {"sweep", "list", "next", "unlink"},
             proc[p].pc \in {"temps", "sweep", "list", "next"}, UNCHANGED <<file, back, landed>>
      PROVE  AbstractStep
  <2>1. proc[p].op \in {"clear", "clear_all", "scan"}
    BY <1>0, <1>1, OperationOfStep
  <2>2. Abstracted(to) = Abstracted(proc[p])
    BY <1>0, <1>1, <2>1, GoesOn
  <2> QED BY <1>0, <1>1, <2>2, Stutters
<1>2. CASE ListTemps(p)
  <2> DEFINE to == [proc[p] EXCEPT !.pc = "sweep", !.todo = {n \in Temps : temp[n] # "none"}]
  <2>1. SameCall(proc[p], to) /\ to.pc = "sweep"
    BY <1>0 DEF Calls, SameCall
  <2>2. Moves(p, to) /\ proc[p].pc = "temps" /\ UNCHANGED <<file, back, landed>>
    BY <1>2 DEF ListTemps, At
  <2> HIDE DEF to
  <2> QED BY <1>1, <2>1, <2>2
<1>3. CASE SweepTemp(p)
  BY <1>0, <1>3, SweepAbstractly
<1>4. CASE SweepEnds(p)
  <2> DEFINE to == [proc[p] EXCEPT !.pc = "list"]
  <2>1. SameCall(proc[p], to) /\ to.pc = "list"
    BY <1>0, GotoFields DEF SameCall
  <2>2. Moves(p, to) /\ proc[p].pc = "sweep" /\ UNCHANGED <<file, back, landed>>
    BY <1>4 DEF SweepEnds, At, Goto
  <2> HIDE DEF to
  <2> QED BY <1>1, <2>1, <2>2
<1>5. CASE List(p)
  <2> DEFINE to == [proc[p] EXCEPT !.pc = "next", !.todo = {k \in Keys : file[k] # NoFile}]
  <2>1. SameCall(proc[p], to) /\ to.pc = "next"
    BY <1>0 DEF Calls, SameCall
  <2>2. Moves(p, to) /\ proc[p].pc = "list" /\ UNCHANGED <<file, back, landed>>
    BY <1>5 DEF List, At
  <2> HIDE DEF to
  <2> QED BY <1>1, <2>1, <2>2
<1>6. CASE Unlinks(p)
  BY <1>6, UnlinkAbstractly
<1>7. ASSUME NEW label \in {"raised", "broken"}, Goto(p, label),
             proc[p].pc \in {"unlink", "sweep", "next"}, UNCHANGED <<file, back, landed>>
      PROVE  AbstractStep
  <2> DEFINE to == [proc[p] EXCEPT !.pc = label]
  <2>1. Moves(p, to) /\ Same(proc[p], to) /\ to.pc = label /\ to.answer = proc[p].answer
    BY <1>0, <1>7, GotoFields DEF Goto, Same
  <2> HIDE DEF to
  <2>2. PhaseOf(to) = "raised" /\ PhaseOf(proc[p]) = "pending"
    BY <1>7, <2>1, Phases
  <2>3. AbstractCalls' = [AbstractCalls EXCEPT ![p].phase = "raised"]
    BY <1>0, <2>1, <2>2, AbstractEnds
  <2>4. proc[p].op \in {"delete", "clear", "clear_all", "scan"}
    BY <1>0, <1>7, OperationOfStep
  <2>5. AbstractCalls[p].op \in {"delete", "clear", "scan"} /\ AbstractCalls[p].phase = "pending"
    BY <1>0, <2>2, <2>4, AbstractFields
  <2>6. Abstract!Raise(p)
    BY <1>7, <2>3, <2>5 DEF Abstract!Raise, Abstract!Doing, Abstract!Ends, AbstractCalls
  <2> QED BY <2>6 DEF AbstractStep, Abstract!Next
<1>10. CASE UnlinkRaises(p)
  BY <1>7, <1>10 DEF UnlinkRaises, At
<1>8. CASE ListEnds(p)
  <2> DEFINE to == [proc[p] EXCEPT !.pc = "done"]
  <2>1. Moves(p, to) /\ Same(proc[p], to) /\ to.pc = "done" /\ to.answer = proc[p].answer
    BY <1>0, <1>8, GotoFields DEF ListEnds, Goto, Same
  <2> HIDE DEF to
  <2>2. PhaseOf(to) = "done" /\ PhaseOf(proc[p]) = "pending"
    BY <1>8, <2>1, Phases DEF ListEnds, At
  <2>3. AbstractCalls' = [AbstractCalls EXCEPT ![p].phase = "done"]
    BY <1>0, <2>1, <2>2, AbstractEnds
  <2>4. proc[p].op \in {"clear", "clear_all", "scan"}
    BY <1>0, <1>8, OperationOfStep DEF ListEnds, At
  <2>5. AbstractCalls[p].op \in {"clear", "scan"} /\ AbstractCalls[p].phase = "pending"
    BY <1>0, <2>2, <2>4, AbstractFields
  <2>6. UNCHANGED <<file, back, landed>>
    BY <1>8 DEF ListEnds
  <2>7. Abstract!Completed(p)
    BY <2>3, <2>5, <2>6 DEF Abstract!Completed, Abstract!Doing, Abstract!Ends, AbstractCalls
  <2> QED BY <2>7 DEF AbstractStep, Abstract!Next
<1>9. ASSUME NEW k \in Keys, ListNext(p, k) PROVE AbstractStep
  <2> DEFINE call == [proc[p] EXCEPT !.key = k, !.todo = @ \ {k}]
             scanned == [call EXCEPT !.rows = @ \union {k}]
             unlinks == [call EXCEPT !.pc = "unlink"]
  <2>1. proc[p].pc = "next" /\ UNCHANGED <<file, back, landed>>
    BY <1>9 DEF ListNext, At
  <2>4. call.pc = "next" /\ SameCall(proc[p], call)
    BY <1>0, <2>1 DEF Calls, SameCall
  <2>5. scanned.pc = "next" /\ SameCall(proc[p], scanned)
    BY <1>0, <2>1 DEF Calls, SameCall
  <2>6. unlinks.pc = "unlink" /\ SameCall(proc[p], unlinks)
    BY <1>0, <2>1 DEF Calls, SameCall
  <2>2. \A c \in {call, scanned, unlinks} :
           c.pc \in {"next", "unlink"} /\ SameCall(proc[p], c)
    <3> HIDE DEF call, scanned, unlinks
    <3> QED BY <2>4, <2>5, <2>6
  <2>3. Goto(p, "broken") \/ \E c \in {call, scanned, unlinks} : Moves(p, c)
    BY <1>9 DEF ListNext, Follows
  <2> HIDE DEF call, scanned, unlinks
  <2> QED BY <1>1, <1>7, <2>1, <2>2, <2>3
<1>11. CASE ListFails(p) \/ \E k \in Keys : Overlooks(p, k)
  BY <1>0, <1>1, <1>11, LookingAway DEF LooksAway, SameCall
<1> QED BY <1>2, <1>3, <1>4, <1>5, <1>6, <1>8, <1>9, <1>10, <1>11 DEF ListStep

-----------------------------------------------------------------------------
(* The other steps: a call returns, a process is killed, a file is         *)
(* damaged, power is lost.                                                 *)
LEMMA AbstractedIdle == Abstracted(Idle) = Abstract!Idle
<1>1. /\ Idle.op = "none" /\ Idle.scope = NoFile /\ Idle.pc = "idle" /\ Idle.answer = NoFile
  BY DEF Idle
<1>2. PhaseOf(Idle) = "idle"
  BY <1>1, Phases
<1> QED BY <1>1, <1>2 DEF Abstracted, Abstract!Idle, Abstract!Call

LEMMA ReturnsAbstractly ==
    ASSUME TypeInv, NEW p \in Procs, Return(p) \/ Crash(p)
    PROVE  AbstractStep
<1> USE DEF files
<1>1. AbstractCalls' = [AbstractCalls EXCEPT ![p] = Abstract!Idle]
  BY AbstractMove, AbstractedIdle DEF Return, Crash
<1>2. UNCHANGED <<file, back, landed>>
  BY DEF Return, Crash
<1>3. CASE Return(p)
  <2>1. proc[p].pc \in {"done", "raised", "broken"}
    BY <1>3 DEF Return
  <2>2. AbstractCalls[p].phase \in {"done", "raised"}
    BY <2>1, Phases, AbstractFields
  <2>3. Abstract!Return(p)
    BY <1>1, <1>2, <2>2 DEF Abstract!Return, AbstractCalls
  <2> QED BY <2>3 DEF AbstractStep, Abstract!Next
<1>4. CASE Crash(p)
  <2>1. Abstract!Crash(p)
    BY <1>1, <1>2 DEF Abstract!Crash, AbstractCalls
  <2> QED BY <2>1 DEF AbstractStep, Abstract!Next
<1> QED BY <1>3, <1>4

LEMMA DamageAbstractly ==
    ASSUME TypeInv, NEW k \in Keys, Damage(k)
    PROVE  AbstractStep
<1>1. PICK form \in Damages : file' = [file EXCEPT ![k].form = form]
  BY DEF Damage
<1>2. /\ file[k] \in Contents /\ file'[k] = [file[k] EXCEPT !.form = form]
      /\ file'[k].form = form
  BY <1>1 DEF Damage, TypeInv, Contents
<1>3. form \in DamagedForms
  BY BoundsAssumption
<1>4. Loaded(file'[k]) = NoFile
  BY <1>2, <1>3 DEF Loaded, Reads, DamagedForms
<1>5. Entries' = [Entries EXCEPT ![k] = NoFile]
  BY <1>1, <1>4 DEF Entries, TypeInv
<1>6. AbstractCalls' = AbstractCalls /\ UNCHANGED <<back, landed>>
  BY DEF Damage, AbstractCalls, AbstractCall, Phase, At
<1>7. Abstract!Lose(k)
  BY <1>5, <1>6 DEF Abstract!Lose, Entries, AbstractCalls
<1> QED BY <1>7 DEF AbstractStep, Abstract!Next

LEMMA PowerLossAbstractly ==
    ASSUME TypeInv, PathInv, PowerLoss
    PROVE  AbstractStep
<1>1. PICK f \in [Keys -> UNION {back[k] \union {file[k]} : k \in Keys}] :
         /\ \A k \in Keys : f[k] \in back[k] \union {file[k]}
         /\ file' = [k \in Keys |-> Restored(f[k])]
  BY DEF PowerLoss
<1>2. \A k \in Keys : file'[k] = f[k]
  BY <1>1 DEF PathInv, SoundContent, Restored
<1>3. \A k \in Keys : Entries'[k] \in Undoable[k] \union {Entries[k]}
  BY <1>1, <1>2 DEF Entries, Undoable
<1>4. Entries' \in [Keys -> UNION {Undoable[k] \union {Entries[k]} : k \in Keys}]
  BY <1>3 DEF Entries
<1>5. Undoable' = [k \in Keys |-> {}]
  BY DEF PowerLoss, Undoable
<1>6. AbstractCalls' = [p \in Procs |-> Abstract!Idle]
  <2>1. AbstractCalls' = [p \in Procs |-> Abstracted(proc'[p])]
    BY DEF AbstractCalls, AbstractCall, Abstracted, Phase, PhaseOf, At
  <2>2. \A p \in Procs : proc'[p] = Idle
    BY DEF PowerLoss
  <2> QED BY <2>1, <2>2, AbstractedIdle
<1>7. landed' = landed
  BY DEF PowerLoss
<1>8. Abstract!PowerLoss
  BY <1>3, <1>4, <1>5, <1>6, <1>7 DEF Abstract!PowerLoss, Entries, Undoable, AbstractCalls
<1> QED BY <1>8 DEF AbstractStep, Abstract!Next

LEMMA InitAbstractly == Init => Abstract!Init
<1> SUFFICES ASSUME Init PROVE Abstract!Init
  OBVIOUS
<1>1. Entries = [k \in Keys |-> NoFile] /\ Undoable = [k \in Keys |-> {}] /\ landed = 0
  BY DEF Init, Entries, Undoable, Loaded, Reads
<1>2. AbstractCalls = [p \in Procs |-> Abstract!Idle]
  BY AbstractCallsAre, AbstractedIdle DEF Init
<1> QED BY <1>1, <1>2 DEF Abstract!Init, Entries, Undoable, AbstractCalls

LEMMA StepIsAbstract ==
    ASSUME IInv, [Next]_vars
    PROVE  [Abstract!Next]_(Abstract!vars)
<1>0. TypeInv /\ PathInv
  BY DEF IInv
<1>1. CASE UNCHANGED vars
  BY <1>1 DEF vars, files, Abstract!vars, AbstractCall, Phase, At
<1>2. ASSUME NEW p \in Procs,
             Begins(p) \/ SetStep(p) \/ ReadStep(p) \/ ListStep(p) \/ Return(p) \/ Crash(p)
      PROVE  AbstractStep
  BY <1>0, <1>2, BeginsAbstractly, SetAbstractly, ReadAbstractly, ListAbstractly, ReturnsAbstractly
<1>3. ASSUME NEW k \in Keys, Damage(k) PROVE AbstractStep
  BY <1>0, <1>3, DamageAbstractly
<1>4. CASE PowerLoss
  BY <1>0, <1>4, PowerLossAbstractly DEF AbstractStep
<1> QED BY <1>1, <1>2, <1>3, <1>4 DEF Next, AbstractStep

(* The store implements the one the engine relies on, for any number of    *)
(* processes, keys and faults, whatever the damage: each call takes effect *)
(* at one instant, a set that raises has not landed, get and peek never    *)
(* raise, and only get's clean-up may cost an entry.                       *)
THEOREM DiskStoreImplementsAtomicStore == Spec => ImplementsAtomicStore
<1>1. IInv /\ [Next]_vars => [Abstract!Next]_(Abstract!vars)
  BY StepIsAbstract
<1> QED BY <1>1, InitAbstractly, IInvAlways, PTL
        DEF Spec, ImplementsAtomicStore, Abstract!Spec
=============================================================================
