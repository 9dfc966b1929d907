------------------------------ MODULE DiskStore -----------------------------
(***************************************************************************)
(* DiskBackend of src/src/cachau/disk.py: one directory shared by          *)
(* processes, one file per key, written to a temporary file that is        *)
(* renamed over it.  A step is one system call on a path that others see;  *)
(* building and parsing bytes is merged into the call next to it.          *)
(*                                                                         *)
(* The path of a key is the hash of the key, so a path stands for its key; *)
(* a file that holds another key there is a collision or a foreign file.   *)
(* An entry is the number of the set that landed it.  The content of a     *)
(* file is what its reader can make of it: `form`.                         *)
(***************************************************************************)
EXTENDS Naturals, FiniteSets

CONSTANTS
    Procs, Keys, Namespaces,
    NsOf,           \* the namespace of each key, which its key begins with
    NoFile,
    Operations,     \* which operations processes use
    Damages,        \* what may happen to a file: some of DamagedForms
    MaxTemps,       \* how many temporary names there are
    MaxOps, MaxEvents   \* bounds: operations begun; faults and moves of the environment

(* "header": the magic, version or JSON of the header is unreadable, or it *)
(* names no key or namespace (a JSON null does not).  "shape": it is JSON, *)
(* but neither an object nor null.  "huge": a time in it is an integer too *)
(* large for a float.  "field": a number or the dependency map in it has   *)
(* the wrong type.  "payload": it does not unpickle.  "foreign": an intact *)
(* entry of another key of the namespace.                                  *)
DamagedForms == {"header", "shape", "huge", "field", "payload", "foreign"}
Forms == {"whole", "torn"} \union DamagedForms

ASSUME NsOfAssumption == NsOf \in [Keys -> Namespaces] /\ "all" \notin Namespaces
ASSUME BoundsAssumption ==
    /\ Operations \subseteq {"set", "get", "peek", "delete", "clear", "clear_all", "scan"}
    /\ Damages \subseteq DamagedForms
    /\ {MaxTemps, MaxOps, MaxEvents} \subseteq Nat

Temps == 1..MaxTemps
Contents == [num : Nat, form : Forms, flushed : BOOLEAN]
ASSUME NoFileAssumption == NoFile \notin Contents

VARIABLES
    file,       \* the content at the path of each key
    back,       \* what a power loss may bring back there
    temp,       \* each temporary file: "none", "open" or "flushed"
    landed,     \* number of renames so far: the entries are numbered by them
    proc,       \* what each process is doing
    safe,       \* history: the last entry of each key that was synchronised
    orphans,    \* history: files whose writer was killed, or failed to remove them
    ops, events \* what the bounds bound

files == <<file, back, temp, landed>>
past == <<safe, orphans>>
bounds == <<ops, events>>
vars == <<files, proc, past, bounds>>

(* `began`, `strays` and `unread` are history: the renames done when a     *)
(* clear or scan began, the ownerless temporary files there were then, and *)
(* the files it could not look at.                                         *)
Idle ==
    [pc |-> "idle", op |-> "none", key |-> NoFile, scope |-> NoFile, mine |-> 0,
     got |-> NoFile, todo |-> {}, rows |-> {}, answer |-> NoFile, began |-> 0, strays |-> {},
     unread |-> {}]

Init ==
    /\ file = [k \in Keys |-> NoFile]
    /\ back = [k \in Keys |-> {}]
    /\ temp = [n \in Temps |-> "none"]
    /\ landed = 0
    /\ proc = [p \in Procs |-> Idle]
    /\ safe = [k \in Keys |-> 0] /\ orphans = {}
    /\ ops = 0 /\ events = 0

-----------------------------------------------------------------------------
(* What a reader makes of a content.                                       *)

(* Mutant: metadata is taken from readable entries only.                   *)
HasHeaderIfWhole(c) == c # NoFile /\ c.form \in {"whole", "foreign", "shape", "huge"}

(* _parse_header, _read_metadata: the header can be read.                  *)
HasHeader(c) == c # NoFile /\ c.form \notin {"header", "torn"}

(* _read_entry, _entry_from_metadata: header, payload and fields are good. *)
Reads(c) == c # NoFile /\ c.form \in {"whole", "foreign"}

(* _load: an entry that says it belongs to another key is not trusted.     *)
Loaded(c) == IF Reads(c) /\ c.form # "foreign" THEN c.num ELSE NoFile

-----------------------------------------------------------------------------
At(p, label) == proc[p].pc = label
Moves(p, to) == proc' = [proc EXCEPT ![p] = to]
Goto(p, label) == Moves(p, [proc[p] EXCEPT !.pc = label])
Event == events < MaxEvents /\ events' = events + 1 /\ UNCHANGED ops

(* The path of k gets a content, or none; what was there may come back.    *)
Path(k, content) ==
    /\ file' = [file EXCEPT ![k] = content]
    /\ back' = [back EXCEPT ![k] = @ \union {file[k]}]
Unlinked(k) == Path(k, NoFile) /\ UNCHANGED <<temp, landed>>

Start(p, to) ==
    /\ to.op \in Operations
    /\ At(p, "idle") /\ ops < MaxOps
    /\ ops' = ops + 1
    /\ Moves(p, to)
    /\ UNCHANGED <<files, past, events>>

(* set: a temporary file with a unique name, flushed, renamed.             *)
StartSet(p) ==
    \E k \in Keys, n \in Temps :
        /\ temp[n] = "none" /\ \A q \in Procs : proc[q].mine # n
        /\ Start(p, [Idle EXCEPT !.op = "set", !.pc = "open", !.key = k, !.mine = n])

SetOpens(p) ==
    /\ At(p, "open")
    /\ temp' = [temp EXCEPT ![proc[p].mine] = "open"]
    /\ Goto(p, "write")
    /\ UNCHANGED <<file, back, landed, past, bounds>>

(* Mutant: the bytes are not fsynced.                                      *)
SetFlushesNot(p) == At(p, "write") /\ Goto(p, "rename") /\ UNCHANGED <<files, past, bounds>>

(* Header and payload are written and fsynced.  A temporary file that a    *)
(* clear() has unlinked meanwhile is written all the same.                 *)
SetFlushes(p) ==
    /\ At(p, "write")
    /\ temp' = [temp EXCEPT ![proc[p].mine] = IF @ = "open" THEN "flushed" ELSE @]
    /\ Goto(p, "rename")
    /\ UNCHANGED <<file, back, landed, past, bounds>>

SetRenames(p) ==
    LET new == [num |-> landed + 1, form |-> "whole",
                flushed |-> temp[proc[p].mine] = "flushed"]
    IN  /\ At(p, "rename") /\ temp[proc[p].mine] # "none"
        /\ landed' = landed + 1
        /\ Path(proc[p].key, new)
        /\ temp' = [temp EXCEPT ![proc[p].mine] = "none"]
        /\ Moves(p, [proc[p] EXCEPT !.pc = "sync", !.got = new])
        /\ UNCHANGED <<past, bounds>>

(* Mutant: a set that fails leaves its temporary file.                     *)
LeavesTemp(p) == UNCHANGED <<temp, orphans>>

(* `finally: temp_path.unlink(missing_ok=True)`, which may fail if there   *)
(* is a file.                                                              *)
RemovesTemp(p) == temp' = [temp EXCEPT ![proc[p].mine] = "none"] /\ UNCHANGED orphans
RemovalFails(p) ==
    /\ temp[proc[p].mine] # "none"
    /\ orphans' = orphans \union {proc[p].mine}
    /\ UNCHANGED temp

(* Opening, writing or renaming raises, as it does when the temporary file *)
(* is gone: the set raises.                                                *)
SetRaises(p) ==
    /\ \/ proc[p].pc \in {"open", "write", "rename"} /\ Event
       \/ At(p, "rename") /\ temp[proc[p].mine] = "none" /\ UNCHANGED bounds
    /\ RemovesTemp(p) \/ RemovalFails(p)
    /\ Goto(p, "raised")
    /\ UNCHANGED <<file, back, landed, safe>>

SetEnds(p) ==
    /\ At(p, "sync")
    /\ safe' = [safe EXCEPT ![proc[p].key] = IF proc[p].got.num > @ THEN proc[p].got.num ELSE @]
    /\ Goto(p, "done")
    /\ UNCHANGED <<file, temp, landed, orphans, bounds>>

(* Mutant: the directory is not fsynced.                                   *)
SetSyncsNot(p) == SetEnds(p) /\ UNCHANGED back

(* _fsync_directory: the renames and unlinks so far are on the disk.       *)
SetSyncs(p) == SetEnds(p) /\ back' = [k \in Keys |-> {}]

(* It is best effort.                                                      *)
SetSyncFails(p) == At(p, "sync") /\ Event /\ Goto(p, "done") /\ UNCHANGED <<files, past>>

-----------------------------------------------------------------------------
(* get and peek.                                                           *)
StartRead(p) ==
    \E name \in {"get", "peek"}, k \in Keys :
        Start(p, [Idle EXCEPT !.op = name, !.pc = "read", !.key = k])

(* path.read_bytes(): the content there now, or nothing if it cannot.      *)
ReadFile(p) ==
    /\ At(p, "read")
    /\ \/ Moves(p, [proc[p] EXCEPT !.pc = "parse", !.got = file[proc[p].key]]) /\ UNCHANGED bounds
       \/ Goto(p, "parse") /\ Event
    /\ UNCHANGED <<files, past>>

(* Mutant: peek cleans up as well.                                         *)
RemovesCorruptAlways(p) == TRUE

(* `if remove_corrupt`: get cleans up, peek does not.                      *)
RemovesCorrupt(p) == proc[p].op = "get"

Parse(p) ==
    LET got == proc[p].got
    IN  /\ At(p, "parse")
        /\ IF got # NoFile /\ ~ Reads(got) /\ RemovesCorrupt(p)
           THEN Goto(p, "cleanup")
           ELSE Moves(p, [proc[p] EXCEPT !.pc = "done", !.answer = Loaded(got)])
        /\ UNCHANGED <<files, past, bounds>>

(* The path is unlinked, whatever is there by now; a failure is swallowed. *)
CleanUp(p) ==
    /\ At(p, "cleanup")
    /\ \/ Unlinked(proc[p].key) /\ UNCHANGED bounds
       \/ Event /\ UNCHANGED files
    /\ Goto(p, "done")
    /\ UNCHANGED past

-----------------------------------------------------------------------------
(* delete, clear and the metadata scan.                                    *)
StartDelete(p) ==
    \E k \in Keys : Start(p, [Idle EXCEPT !.op = "delete", !.pc = "unlink", !.key = k])

StartClear(p) ==
    \E ns \in Namespaces :
        Start(p, [Idle EXCEPT !.op = "clear", !.pc = "list", !.scope = ns, !.began = landed])

(* Temporary files nobody is writing any more.                             *)
Ownerless == {n \in Temps : temp[n] # "none" /\ \A q \in Procs : proc[q].mine # n}

StartClearAll(p) ==
    Start(p, [Idle EXCEPT !.op = "clear_all", !.pc = "temps", !.scope = "all",
                          !.began = landed, !.strays = Ownerless])

StartScan(p) == Start(p, [Idle EXCEPT !.op = "scan", !.pc = "list", !.began = landed])

(* Mutant: a full clear leaves the temporary files.                        *)
ListNoTemps(p) == At(p, "temps") /\ Goto(p, "sweep") /\ UNCHANGED <<files, past, bounds>>

(* glob("*.tmp"): the temporary files there now, live ones too.  (The lock *)
(* files, which it removes as well, are in ProcessFlight.)                 *)
ListTemps(p) ==
    /\ At(p, "temps")
    /\ Moves(p, [proc[p] EXCEPT !.pc = "sweep", !.todo = {n \in Temps : temp[n] # "none"}])
    /\ UNCHANGED <<files, past, bounds>>

SweepTemp(p) ==
    /\ At(p, "sweep")
    /\ \E n \in proc[p].todo :
        /\ temp' = [temp EXCEPT ![n] = "none"]
        /\ proc' = [q \in Procs |->
                [proc[q] EXCEPT !.strays = @ \ {n}, !.todo = IF q = p THEN @ \ {n} ELSE @]]
        /\ orphans' = orphans \ {n}
    /\ UNCHANGED <<file, back, landed, safe, bounds>>

SweepEnds(p) ==
    /\ At(p, "sweep") /\ proc[p].todo = {}
    /\ Goto(p, "list")
    /\ UNCHANGED <<files, past, bounds>>

(* glob("*.cachau"): the paths that are there now.                         *)
List(p) ==
    /\ At(p, "list")
    /\ Moves(p, [proc[p] EXCEPT !.pc = "next", !.todo = {k \in Keys : file[k] # NoFile}])
    /\ UNCHANGED <<files, past, bounds>>

(* A glob finds nothing in a directory that it may not list.               *)
ListFails(p) ==
    /\ \/ At(p, "temps") /\ Moves(p, [proc[p] EXCEPT !.pc = "sweep", !.unread = Temps])
       \/ At(p, "list") /\ Moves(p, [proc[p] EXCEPT !.pc = "next", !.unread = @ \union Keys])
    /\ Event
    /\ UNCHANGED <<files, past>>

(* The next path of the list.  A full clear does not look into the file; a *)
(* header that names the namespace condemns it to clear(namespace); the    *)
(* scan makes a row of each header that can be read, in which a size or a  *)
(* time that is no number degrades to None.  A row stands for its path.    *)
Condemned(p, k) == proc[p].op = "clear_all" \/ (HasHeader(file[k]) /\ NsOf[k] = proc[p].scope)

(* `metadata.get` of no object is an AttributeError; `float` of a number   *)
(* too large, which only the scan takes, is an OverflowError.              *)
Breaks(p, k) ==
    /\ proc[p].op # "clear_all" /\ file[k] # NoFile
    /\ \/ file[k].form = "shape"
       \/ file[k].form = "huge" /\ proc[p].op = "scan"

Follows(p, k) ==
    LET call == [proc[p] EXCEPT !.key = k, !.todo = @ \ {k}]
        scan == proc[p].op = "scan"
    IN  IF Breaks(p, k) THEN Goto(p, "broken")
        ELSE Moves(p,
            IF scan /\ HasHeader(file[k]) THEN [call EXCEPT !.rows = @ \union {k}]
            ELSE IF ~ scan /\ Condemned(p, k) THEN [call EXCEPT !.pc = "unlink"]
            ELSE call)

ListNext(p, k) ==
    /\ At(p, "next") /\ k \in proc[p].todo
    /\ Follows(p, k)
    /\ UNCHANGED <<files, past, bounds>>

(* _read_metadata: a header that cannot be opened or read is no header.    *)
Overlooks(p, k) ==
    /\ At(p, "next") /\ k \in proc[p].todo /\ proc[p].op # "clear_all"
    /\ Event
    /\ Moves(p, [proc[p] EXCEPT !.key = k, !.todo = @ \ {k}, !.unread = @ \union {k}])
    /\ UNCHANGED <<files, past>>

Unlinks(p) ==
    /\ At(p, "unlink")
    /\ Unlinked(proc[p].key)
    /\ Goto(p, IF proc[p].op = "delete" THEN "done" ELSE "next")
    /\ UNCHANGED <<past, bounds>>

UnlinkRaises(p) ==
    /\ At(p, "unlink") \/ (At(p, "sweep") /\ proc[p].todo # {})
    /\ Event
    /\ Goto(p, "raised")
    /\ UNCHANGED <<files, past>>

ListEnds(p) ==
    /\ At(p, "next") /\ proc[p].todo = {}
    /\ Goto(p, "done")
    /\ UNCHANGED <<files, past, bounds>>

Return(p) ==
    /\ proc[p].pc \in {"done", "raised", "broken"}
    /\ Moves(p, Idle)
    /\ UNCHANGED <<files, past, bounds>>

-----------------------------------------------------------------------------
(* The environment.                                                        *)
Damage(k) ==
    /\ Event
    /\ file[k] # NoFile /\ file[k].form = "whole"
    /\ \E form \in Damages : file' = [file EXCEPT ![k].form = form]
    /\ UNCHANGED <<back, temp, landed, proc, past>>

(* A process is killed; its temporary file stays.                          *)
LeftBehind(p) == {n \in Temps : temp[n] # "none" /\ proc[p].mine = n}

Crash(p) ==
    /\ Event
    /\ ~ At(p, "idle")
    /\ Moves(p, Idle)
    /\ orphans' = orphans \union LeftBehind(p)
    /\ UNCHANGED <<files, safe>>

(* After a power loss each path is as it was at some moment since the last *)
(* synchronisation, and bytes that were not fsynced are torn.              *)
Restored(c) == IF c # NoFile /\ ~ c.flushed THEN [c EXCEPT !.form = "torn"] ELSE c

PowerLoss ==
    /\ Event
    /\ \E f \in [Keys -> UNION {back[k] \union {file[k]} : k \in Keys}] :
        /\ \A k \in Keys : f[k] \in back[k] \union {file[k]}
        /\ file' = [k \in Keys |-> Restored(f[k])]
    /\ back' = [k \in Keys |-> {}]
    /\ proc' = [p \in Procs |-> Idle]
    /\ orphans' = orphans \union UNION {LeftBehind(p) : p \in Procs}
    /\ UNCHANGED <<temp, landed, safe>>

SetStep(p) ==
    \/ SetOpens(p) \/ SetFlushes(p) \/ SetRenames(p) \/ SetRaises(p)
    \/ SetSyncs(p) \/ SetSyncFails(p)
ReadStep(p) == ReadFile(p) \/ Parse(p) \/ CleanUp(p)
ListStep(p) ==
    \/ ListTemps(p) \/ SweepTemp(p) \/ SweepEnds(p) \/ List(p) \/ ListFails(p)
    \/ Unlinks(p) \/ UnlinkRaises(p) \/ ListEnds(p)
    \/ \E k \in Keys : ListNext(p, k) \/ Overlooks(p, k)
Begins(p) ==
    \/ StartSet(p) \/ StartRead(p) \/ StartDelete(p) \/ StartClear(p) \/ StartClearAll(p)
    \/ StartScan(p)

Next ==
    \/ \E p \in Procs :
        Begins(p) \/ SetStep(p) \/ ReadStep(p) \/ ListStep(p) \/ Return(p) \/ Crash(p)
    \/ \E k \in Keys : Damage(k)
    \/ PowerLoss

Spec == Init /\ [][Next]_vars

-----------------------------------------------------------------------------
(* Properties.                                                             *)
LabelsOf(name) ==
    CASE name = "set" -> {"open", "write", "rename", "sync", "done", "raised"}
      [] name = "get" -> {"read", "parse", "cleanup", "done"}
      [] name = "peek" -> {"read", "parse", "done"}
      [] name = "delete" -> {"unlink", "done", "raised"}
      [] name = "clear" -> {"list", "next", "unlink", "done", "raised", "broken"}
      [] name = "clear_all" -> {"temps", "sweep", "list", "next", "unlink", "done", "raised"}
      [] name = "scan" -> {"list", "next", "done", "broken"}
      [] name = "none" -> {"idle"}

(* The types; a process is at a step of its operation.                     *)
TypeOK ==
    /\ file \in [Keys -> Contents \union {NoFile}]
    /\ back \in [Keys -> SUBSET (Contents \union {NoFile})]
    /\ temp \in [Temps -> {"none", "open", "flushed"}]
    /\ \A p \in Procs :
        /\ proc[p].op \in Operations \union {"none"}
        /\ proc[p].pc \in LabelsOf(proc[p].op)
        /\ proc[p].key \in Keys \union {NoFile}
        /\ proc[p].mine \in Temps \union {0}
        /\ proc[p].got \in Contents \union {NoFile} /\ proc[p].answer \in Nat \union {NoFile}
        /\ proc[p].todo \subseteq Keys \union Temps /\ proc[p].rows \subseteq Keys
        /\ proc[p].unread \subseteq Keys \union Temps
    /\ safe \in [Keys -> Nat] /\ orphans \subseteq Temps
    /\ {landed, ops, events} \subseteq Nat

(* disk.py: a reader never sees a half-written entry, and after a kill or  *)
(* a power loss what a path holds is an entry somebody finished writing.   *)
EntriesAreNeverTorn == \A k \in Keys : file[k] # NoFile => file[k].form # "torn"

(* set(): each temporary file is being written, or its own writer was      *)
(* killed or could not remove it; whoever else is killed or fails, a set   *)
(* that raises leaves none behind.                                         *)
TemporariesHaveAnOwner ==
    \A n \in Temps : temp[n] # "none" =>
        \/ n \in orphans
        \/ \E p \in Procs : proc[p].mine = n /\ proc[p].pc \in {"write", "rename"}

(* clear(): a full clear that returns has removed every temporary file     *)
(* nobody was writing when it began, if it could list the directory.       *)
FullClearSweepsStrays ==
    \A p \in Procs :
        (proc[p].op = "clear_all" /\ At(p, "done")) => proc[p].strays \subseteq proc[p].unread

(* _fsync_directory: an entry whose set returned with the directory synced *)
(* is never superseded by an older one, also by a power loss.              *)
SyncedSetSurvives == \A k \in Keys : file[k] # NoFile => file[k].num >= safe[k]

HeaderIntact(c) == c # NoFile /\ c.form \notin {"header", "shape"}

(* clear(): when it returns, no entry of its scope is left that had been   *)
(* set before it began - whatever else writes, reads and deletes, and also *)
(* if the payload of the entry is damaged - as long as its header says     *)
(* whose it is, and but for the entries it could not list or look into,    *)
(* over which it returns all the same.                                     *)
ClearForgetsWhatWasThere ==
    \A p \in Procs :
        (proc[p].op \in {"clear", "clear_all"} /\ At(p, "done")) =>
            \A k \in Keys \ proc[p].unread :
                (proc[p].scope \in {"all", NsOf[k]} /\ HeaderIntact(file[k]))
                    => file[k].num > proc[p].began

(* iter_metadata(): the scan lists every entry that was there before it    *)
(* began and still is, so that maintenance can reclaim a damaged one, but  *)
(* for those it could not list or look into.                               *)
ScanSeesWhatWasThere ==
    \A p \in Procs :
        (proc[p].op = "scan" /\ At(p, "done")) =>
            \A k \in Keys \ proc[p].unread :
                (HeaderIntact(file[k]) /\ file[k].num <= proc[p].began) => k \in proc[p].rows

(* disk.py: "Corruption is never a user-facing error."                     *)
CorruptionIsNeverAnError == \A p \in Procs : ~ At(p, "broken")

(* The store implements the one the engine relies on: each call takes      *)
(* effect at one instant (a set when it renames, a read when it reads),    *)
(* a set that raises has not landed, get and peek never raise, peek and    *)
(* the scan change nothing, and only get's clean-up may cost an entry.     *)
Phase(p) ==
    CASE proc[p].pc \in {"parse", "cleanup"} -> "read"
      [] At(p, "sync") -> "landed"
      [] proc[p].pc \in {"raised", "broken"} -> "raised"
      [] proc[p].pc \in {"idle", "done"} -> proc[p].pc
      [] OTHER -> "pending"

AbstractCall(p) ==
    [op |-> IF proc[p].op = "clear_all" THEN "clear" ELSE proc[p].op,
     key |-> IF proc[p].op \in {"set", "get", "peek", "delete"} THEN proc[p].key ELSE NoFile,
     scope |-> proc[p].scope,
     phase |-> Phase(p),
     answer |-> IF Phase(p) = "read" THEN Loaded(proc[p].got) ELSE proc[p].answer]

Abstract == INSTANCE AtomicStore WITH
    NoEntry <- NoFile,
    store <- [k \in Keys |-> Loaded(file[k])],
    undo <- [k \in Keys |-> {Loaded(c) : c \in back[k]}],
    call <- [p \in Procs |-> AbstractCall(p)]

ImplementsAtomicStore == Abstract!Spec
=============================================================================
