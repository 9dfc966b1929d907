-------------------------- MODULE ProcessFlightProof --------------------------
(***************************************************************************)
(* Proofs about ProcessFlight, for any processes, clocks, deadlines and    *)
(* bounds: the work of a lock holder is not undone by the next one, and a  *)
(* healthy holder loses its lock only in the windows the code names.       *)
(*                                                                         *)
(* The first rests on who can own the file at the path: file identities    *)
(* are never reused, so at most one process does, and a commit is lawful   *)
(* only while its process does.  The second rests on time: while its owner *)
(* keeps up, the file is no older than the owner's last duty.              *)
(***************************************************************************)
EXTENDS ProcessFlight, TLAPS

Step(p) == Coordinate(p) \/ Flight(p) \/ Beat(p) \/ Join(p) \/ Crash(p) \/ FallsBehind(p)

(* Who refers to which file.                                               *)
Outside == Waiting \union {"idle"}

FilesAreNumbered ==
    /\ file # NoFile => file.id <= made
    /\ \A p \in Processes : own[p] <= made /\ seen[p] <= made

OwnersDiffer ==
    \A p, q \in Processes : (own[p] = own[q] /\ own[p] # 0) => p = q

IsInside(p) ==
    /\ pc[p] \in Outside => own[p] = 0
    /\ held[p] => /\ own[p] # 0
                  /\ pc[p] \in {"recheck", "classify", "delete", "compute", "release"}
    /\ pc[p] \in {"write token", "cleanup", "release unlink"}
            => own[p] # 0 /\ seen[p] = own[p]
    /\ pc[p] = "unlink" => seen[p] # 0

OwnersAreInside == \A p \in Processes : IsInside(p)

(* What a holder whose lock is intact has seen in the store stays true.    *)
LawfulWorkIsSeen ==
    \A p \in Processes :
        (pc[p] \in {"classify", "delete", "compute"} /\ held[p] /\ Owns(p))
            => ~ (stored = "fresh" /\ under = "lock")

(* The age of a file whose owner keeps up, and what a breaker concludes.   *)
AgeMeasuresSilence ==
    \A p \in Processes :
        (Owns(p) /\ ~ late[p]) => file.age <= since[p] /\ since[p] <= Heartbeat

JudgedIsLate ==
    \A p, q \in Processes :
        (pc[q] = "unlink" /\ Ahead[q] = 0 /\ seen[q] = own[p]) => late[p]

OwnerInv == FilesAreNumbered /\ OwnersDiffer /\ OwnersAreInside

IInv == TypeOK /\ OwnerInv /\ LawfulWorkIsSeen /\ AgeMeasuresSilence /\ JudgedIsLate

-----------------------------------------------------------------------------

(* Where a process is.                                                     *)
LEMMA LabelFacts ==
    /\ Outside \subseteq Labels
    /\ "idle" \in Outside /\ Waiting \subseteq Outside
    /\ "probe" \in Waiting /\ "create" \in Waiting /\ "measure" \in Waiting
    /\ "break" \in Waiting /\ "unlink" \in Waiting /\ "deadline" \in Waiting
    /\ \A l \in {"write token", "cleanup", "recheck", "classify", "delete", "compute",
                  "release", "release unlink", "done"} : l \in Labels /\ l \notin Outside
BY DEF Labels, Outside, Waiting

(* What a lock file is, and what may become of it.                         *)
LEMMA FileFields ==
    ASSUME NEW f \in Files
    PROVE  f # NoFile /\ f.id \in Nat \ {0} /\ f.token \in Nat /\ f.age \in Nat
BY NoFileAssumption, TimesAssumption DEF Files

LEMMA FileCreated ==
    ASSUME NEW n \in Nat, NEW f, f = [id |-> n + 1, token |-> 0, age |-> 0]
    PROVE  f \in Files /\ f.id = n + 1 /\ f.token = 0 /\ f.age = 0
BY TimesAssumption DEF Files

LEMMA FileWritten ==
    ASSUME NEW f \in Files, NEW n \in Nat, NEW g, g = [f EXCEPT !.token = n, !.age = 0]
    PROVE  g \in Files /\ g.id = f.id /\ g.age = 0
<1>1. g = [id |-> f.id, token |-> n, age |-> 0]
    BY DEF Files
<1> QED BY <1>1, TimesAssumption DEF Files

LEMMA FileTouched ==
    ASSUME NEW f \in Files, NEW g, g = [f EXCEPT !.age = 0]
    PROVE  g \in Files /\ g.id = f.id /\ g.age = 0
BY TimesAssumption DEF Files

LEMMA FileAged ==
    ASSUME NEW f \in Files, ~ f.age > StaleAfter, NEW g, g = [f EXCEPT !.age = @ + 1]
    PROVE  g \in Files /\ g.id = f.id /\ g.age = f.age + 1
BY TimesAssumption DEF Files

(* What the steps that change the file do to it, and to who refers to it.  *)
Created(p) ==
    /\ made \in Nat /\ made' \in Nat /\ made' = made + 1
    /\ file = NoFile /\ file' \in Files /\ file' # NoFile
    /\ file'.id = made' /\ file'.age = 0
    /\ own' = [own EXCEPT ![p] = made'] /\ seen' = [seen EXCEPT ![p] = made']

Written(p) ==
    /\ file = NoFile => file' = NoFile
    /\ file # NoFile => file' \in Files /\ file' # NoFile /\ file'.id = file.id
    /\ Owns(p) => file'.age = 0
    /\ ~ Owns(p) => file' = file
    /\ own' = own /\ seen' = [seen EXCEPT ![p] = 0] /\ made' = made

Touched(p) ==
    /\ file # NoFile /\ file' \in Files /\ file' # NoFile
    /\ file'.id = file.id /\ file'.age = 0
    /\ own' = own /\ since' = [since EXCEPT ![p] = 0] /\ late' = late

Aged ==
    /\ file = NoFile => file' = NoFile
    /\ file # NoFile => /\ file' \in Files /\ file' # NoFile /\ file'.id = file.id
                        /\ file'.age = file.age \/ file'.age = file.age + 1

LEMMA Creation == ASSUME TypeOK, NEW p \in Processes, CreateWins(p) PROVE Created(p)
<1>1. made \in Nat
    BY DEF TypeOK
<1>2. /\ file = NoFile /\ made' = made + 1
      /\ file' = [id |-> made + 1, token |-> 0, age |-> 0]
      /\ own' = [own EXCEPT ![p] = made + 1] /\ seen' = [seen EXCEPT ![p] = made + 1]
    BY DEF CreateWins, Sees
<1>3. file' \in Files /\ file'.id = made + 1 /\ file'.age = 0
    BY <1>1, <1>2, FileCreated
<1> QED BY <1>1, <1>2, <1>3, FileFields DEF Created

LEMMA Writing == ASSUME TypeOK, NEW p \in Processes, WriteToken(p) PROVE Written(p)
<1>1. file' = IF Owns(p) THEN [file EXCEPT !.token = own[p], !.age = 0] ELSE file
    BY DEF WriteToken
<1>2. CASE Owns(p)
  <2>1. file \in Files /\ own[p] \in Nat /\ file # NoFile
    BY <1>2 DEF TypeOK, Owns
  <2>2. file' \in Files /\ file'.id = file.id /\ file'.age = 0
    BY <1>1, <1>2, <2>1, FileWritten
  <2> QED BY <1>2, <2>1, <2>2, FileFields DEF Written, WriteToken, Goto, Sees, duties
<1>3. CASE ~ Owns(p)
  <2>1. file' = file
    BY <1>1, <1>3
  <2> QED BY <1>3, <2>1 DEF Written, WriteToken, Goto, Sees, duties, TypeOK
<1> QED BY <1>2, <1>3

(* The token written, p gives its lock up.                                 *)
GivesUp(p) ==
    /\ file = NoFile => file' = NoFile
    /\ file # NoFile => file' \in Files /\ file' # NoFile /\ file'.id = file.id
    /\ ~ Owns(p) => file' = file
    /\ own' = [own EXCEPT ![p] = 0] /\ seen' = [seen EXCEPT ![p] = 0]
    /\ late' = [late EXCEPT ![p] = FALSE] /\ made' = made

LEMMA GivingUp == ASSUME TypeOK, NEW p \in Processes, HeartbeatFails(p) PROVE GivesUp(p)
<1>1. file' = IF Owns(p) THEN [file EXCEPT !.token = own[p], !.age = 0] ELSE file
    BY DEF HeartbeatFails
<1>2. CASE Owns(p)
  <2>1. file \in Files /\ own[p] \in Nat /\ file # NoFile
    BY <1>2 DEF TypeOK, Owns
  <2>2. file' \in Files /\ file'.id = file.id
    BY <1>1, <1>2, <2>1, FileWritten
  <2> QED BY <1>2, <2>1, <2>2, FileFields DEF GivesUp, HeartbeatFails, Sees
<1>3. CASE ~ Owns(p)
  <2>1. file' = file
    BY <1>1, <1>3
  <2> QED BY <1>3, <2>1 DEF GivesUp, HeartbeatFails, Sees, TypeOK
<1> QED BY <1>2, <1>3

LEMMA Touching == ASSUME TypeOK, NEW p \in Processes, Touch(p) PROVE Touched(p)
<1>1. file \in Files /\ file # NoFile /\ file' = [file EXCEPT !.age = 0]
    BY DEF Touch, TypeOK
<1>2. file' \in Files /\ file'.id = file.id /\ file'.age = 0
    BY <1>1, FileTouched
<1> QED BY <1>1, <1>2, FileFields DEF Touch, Touched

LEMMA Ageing == ASSUME TypeOK, Tick PROVE Aged
<1>1. CASE file = NoFile \/ file.age > StaleAfter
    BY <1>1, FileFields DEF Tick, TypeOK, Aged
<1>2. CASE file # NoFile /\ ~ file.age > StaleAfter
  <2>1. file \in Files /\ file' = [file EXCEPT !.age = @ + 1]
    BY <1>2 DEF Tick, TypeOK
  <2>2. file' \in Files /\ file'.id = file.id /\ file'.age = file.age + 1
    BY <1>2, <2>1, FileAged
  <2> QED BY <1>2, <2>2, FileFields DEF Aged
<1> QED BY <1>1, <1>2

(* The parts of the type invariant that the steps below need.              *)
Refs == made \in Nat /\ own \in [Processes -> Nat] /\ seen \in [Processes -> Nat]
Places ==
    /\ pc \in [Processes -> Labels] /\ held \in [Processes -> BOOLEAN]
    /\ late \in [Processes -> BOOLEAN] /\ since \in [Processes -> Nat]

LEMMA TypeParts == TypeOK => Refs /\ Places
BY DEF TypeOK, Refs, Places

(* A step of p leaves the others where they are.                           *)
Elsewhere(p) ==
    \A q \in Processes \ {p} :
        /\ pc'[q] = pc[q] /\ own'[q] = own[q] /\ held'[q] = held[q]
        /\ seen'[q] = seen[q] /\ late'[q] = late[q] /\ since'[q] = since[q]

LEMMA Locality == ASSUME TypeOK, NEW p \in Processes, Step(p) PROVE Elsewhere(p)
<1>1. own \in [Processes -> Nat] /\ seen \in [Processes -> Nat] /\ Places
    BY TypeParts DEF Refs
<1>2. CASE Coordinate(p)
    BY <1>1, <1>2 DEF Places, Elsewhere, Coordinate, Goto, Sees, duties, Probe, CreateWins,
        CreateLoses, CreateFails, WriteToken, HeartbeatFails, WriteFails, Cleanup, Measure,
        BreakRecheck, BreakUnlinks, BreakFails, Deadline
<1>3. CASE Flight(p)
    BY <1>1, <1>3 DEF Places, Elsewhere, Flight, Goto, Sees, duties, Recheck, Classify,
        DeleteStale, Commit, CommitSkipped, ReleaseReads, ReleaseUnlinks, Return
<1>4. CASE Beat(p)
    BY <1>1, <1>4 DEF Places, Elsewhere, Beat, Wake, Touch, TouchFails
<1>5. CASE Join(p) \/ Crash(p) \/ FallsBehind(p)
    BY <1>1, <1>5 DEF Places, Elsewhere, Join, Crash, FallsBehind, Goto, Sees, duties
<1> QED BY <1>2, <1>3, <1>4, <1>5 DEF Step


LEMMA OneOwner ==
    ASSUME OwnerInv, NEW p \in Processes, NEW q \in Processes \ {p}, Owns(p), Owns(q),
           TypeOK
    PROVE  FALSE
BY FileFields DEF OwnerInv, OwnersDiffer, Owns, TypeOK

LEMMA OwnersOwn == ASSUME TypeOK, NEW p \in Processes, Owns(p) PROVE own[p] # 0
BY FileFields DEF Owns, TypeOK

(* A step of p is about p alone.                                           *)
LEMMA OthersStayInside ==
    ASSUME OwnersAreInside, NEW p \in Processes, Elsewhere(p), IsInside(p)'
    PROVE  OwnersAreInside'
<1> SUFFICES ASSUME NEW q \in Processes PROVE IsInside(q)'
    BY DEF OwnersAreInside
<1>1. CASE q = p
    BY <1>1
<1>2. CASE q # p
  <2>1. IsInside(q)
    BY DEF OwnersAreInside
  <2> QED BY <1>2, <2>1 DEF Elsewhere, IsInside
<1> QED BY <1>1, <1>2

(* The initial state satisfies the invariant.                              *)
LEMMA InitIInv == Init => IInv
BY TimesAssumption, NoFileAssumption DEF Init, IInv, TypeOK, Labels, OwnerInv,
    FilesAreNumbered,
    OwnersDiffer, OwnersAreInside, IsInside, Outside, Waiting, LawfulWorkIsSeen,
        AgeMeasuresSilence,
    JudgedIsLate, Owns

(* Types are kept.                                                         *)
LEMMA TypeStep == ASSUME TypeOK, [Next]_vars PROVE TypeOK'
<1> USE DEF TypeOK, counters, duties
<1>1. ASSUME NEW p \in Processes, Step(p) PROVE TypeOK'
  <2>1. CASE Join(p)
    <3>1. pc' \in [Processes -> Labels]
        BY <2>1, LabelFacts DEF Join, Goto
    <3>2. joins' \in Nat /\ waited' \in [Processes -> Nat]
        BY <2>1, BoundsAssumption DEF Join
    <3> QED BY <2>1, <3>1, <3>2 DEF Join
  <2>2. CASE Probe(p)
    BY <2>2, LabelFacts DEF Probe, Goto
  <2>3. CASE CreateWins(p)
    <3>1. Created(p) /\ Refs
        BY <2>3, Creation, TypeParts
    <3>2. pc' \in [Processes -> Labels] /\ since' \in [Processes -> Nat]
        BY <2>3, LabelFacts DEF CreateWins, Goto
    <3>3. made' \in Nat /\ own' \in [Processes -> Nat] /\ seen' \in [Processes -> Nat]
        BY <3>1 DEF Created, Refs
    <3>4. file' \in Files
        BY <3>1 DEF Created
    <3> QED BY <2>3, <3>2, <3>3, <3>4 DEF CreateWins
  <2>4. CASE CreateLoses(p)
    BY <2>4, LabelFacts DEF CreateLoses, Goto
  <2>5. CASE CreateFails(p)
    BY <2>5, LabelFacts DEF CreateFails, Goto
  <2>6. CASE WriteToken(p)
    BY <2>6, FileWritten, LabelFacts DEF WriteToken, Goto, Sees, Owns
  <2>7. CASE WriteFails(p)
    BY <2>7, LabelFacts DEF WriteFails, Goto
  <2>27. CASE HeartbeatFails(p)
    <3>1. GivesUp(p) /\ Refs
        BY <2>27, GivingUp, TypeParts
    <3>2. file' \in Files \union {NoFile}
        BY <3>1 DEF GivesUp
    <3>3. own' \in [Processes -> Nat] /\ seen' \in [Processes -> Nat] /\ made' \in Nat
        BY <3>1 DEF GivesUp, Refs
    <3>4. late' \in [Processes -> BOOLEAN] /\ since' \in [Processes -> Nat]
        BY <2>27 DEF HeartbeatFails
    <3>5. pc' \in [Processes -> Labels]
        BY <2>27, LabelFacts DEF HeartbeatFails, Goto
    <3> QED BY <2>27, <3>2, <3>3, <3>4, <3>5 DEF HeartbeatFails
  <2>8. CASE Cleanup(p)
    BY <2>8, LabelFacts DEF Cleanup, Goto, Sees, Unlinked, NotUnlinked
  <2>9. CASE Measure(p)
    BY <2>9, LabelFacts DEF Measure, Goto
  <2>10. CASE BreakRecheck(p)
    <3>1. pc' \in [Processes -> Labels]
        BY <2>10, LabelFacts DEF BreakRecheck, Goto
    <3>2. file # NoFile => file.id \in Nat
        BY FileFields
    <3>3. seen' \in [Processes -> Nat]
        BY <2>10, <3>2 DEF BreakRecheck, Sees, LooksStale
    <3> QED BY <2>10, <3>1, <3>3 DEF BreakRecheck
  <2>11. CASE BreakUnlinks(p)
    BY <2>11, LabelFacts DEF BreakUnlinks, Goto, Sees, Unlinked
  <2>12. CASE BreakFails(p)
    BY <2>12, LabelFacts DEF BreakFails, Goto, Sees
  <2>13. CASE Deadline(p)
    BY <2>13, LabelFacts DEF Deadline, Goto
  <2>14. CASE Recheck(p)
    BY <2>14, LabelFacts DEF Recheck, Goto
  <2>15. CASE Classify(p)
    BY <2>15, LabelFacts DEF Classify, Goto
  <2>16. CASE DeleteStale(p)
    BY <2>16, LabelFacts DEF DeleteStale, Goto
  <2>17. CASE Commit(p)
    BY <2>17, LabelFacts DEF Commit, Goto, Owns
  <2>18. CASE CommitSkipped(p)
    BY <2>18, LabelFacts DEF CommitSkipped, Goto
  <2>19. CASE ReleaseReads(p)
    <3>1. pc' \in [Processes -> Labels]
        BY <2>19, LabelFacts DEF ReleaseReads, Goto
    <3>2. held' \in [Processes -> BOOLEAN] /\ seen' \in [Processes -> Nat]
        BY <2>19 DEF ReleaseReads, Sees
    <3>3. beat' \in [Processes -> {"off", "asleep", "due"}]
        BY <2>19 DEF ReleaseReads, BeatStopped
    <3> QED BY <2>19, <3>1, <3>2, <3>3 DEF ReleaseReads
  <2>20. CASE ReleaseUnlinks(p)
    BY <2>20, LabelFacts DEF ReleaseUnlinks, Goto, Unlinked, NotUnlinked
  <2>21. CASE Return(p)
    BY <2>21, LabelFacts DEF Return, Goto, Sees
  <2>22. CASE Wake(p)
    BY <2>22 DEF Wake
  <2>23. CASE Touch(p)
    BY <2>23, FileTouched DEF Touch
  <2>24. CASE TouchFails(p)
    BY <2>24 DEF TouchFails
  <2>25. CASE Crash(p)
    <3>1. pc' \in [Processes -> Labels]
        BY <2>25, LabelFacts DEF Crash, Goto
    <3>2. events' \in Nat
        BY <2>25, BoundsAssumption DEF Crash
    <3>3. /\ own' \in [Processes -> Nat] /\ since' \in [Processes -> Nat]
          /\ seen' \in [Processes -> Nat] /\ waited' \in [Processes -> Nat]
        BY <2>25 DEF Crash, Sees
    <3>4. /\ held' \in [Processes -> BOOLEAN] /\ late' \in [Processes -> BOOLEAN]
          /\ beat' \in [Processes -> {"off", "asleep", "due"}]
        BY <2>25 DEF Crash
    <3> QED BY <2>25, <3>1, <3>2, <3>3, <3>4 DEF Crash
  <2>26. CASE FallsBehind(p)
    BY <2>26, BoundsAssumption DEF FallsBehind
  <2> QED BY <1>1, <2>1, <2>2, <2>3, <2>4, <2>5, <2>6, <2>7, <2>8, <2>9, <2>10, <2>11,
      <2>12, <2>13, <2>14, <2>15, <2>16, <2>17, <2>18, <2>19, <2>20, <2>21, <2>22, <2>23,
      <2>24, <2>25, <2>26, <2>27 DEF Step, Coordinate, Flight, Beat
<1>2. CASE Tick
    BY <1>2, FileAged, TimesAssumption DEF Tick
<1>3. CASE LockSwept
    BY <1>3, BoundsAssumption DEF LockSwept, Unlinked
<1>4. CASE Expires
    BY <1>4, BoundsAssumption DEF Expires
<1>5. CASE UNCHANGED vars
    BY <1>5 DEF vars
<1> QED BY <1>1, <1>2, <1>3, <1>4, <1>5 DEF Next, Step, vars

(* No two processes own one file, and only those inside a flight own one.  *)
LEMMA OwnerStep == ASSUME TypeOK, OwnerInv, [Next]_vars PROVE OwnerInv'
<1> USE DEF TypeOK, counters, duties, OwnerInv, FilesAreNumbered, OwnersDiffer,
        OwnersAreInside, IsInside
<1>1. ASSUME NEW p \in Processes, Step(p) PROVE OwnerInv'
  <2>1. CASE Join(p)
    BY <2>1, FileFields, LabelFacts DEF Join, Goto
  <2>2. CASE Probe(p)
    BY <2>2, FileFields, LabelFacts DEF Probe, Goto
  <2>3. CASE CreateWins(p)
    <3> HIDE DEF TypeOK, counters, duties, OwnerInv, FilesAreNumbered, OwnersDiffer,
        OwnersAreInside, IsInside
    <3>1. Created(p) /\ Refs /\ Places /\ Elsewhere(p)
        BY <2>3, Creation, TypeParts, Locality DEF Step, Coordinate
    <3>2. FilesAreNumbered'
        BY <3>1 DEF Created, Refs, OwnerInv, FilesAreNumbered
    <3>3. OwnersDiffer'
        BY <3>1 DEF Created, Refs, OwnerInv, FilesAreNumbered, OwnersDiffer
    <3>4. ~ held[p] /\ pc'[p] = "write token" /\ held' = held
        BY <2>3, <3>1, LabelFacts DEF CreateWins, Goto, Places, OwnerInv, OwnersAreInside,
            IsInside
    <3>5. own'[p] # 0 /\ seen'[p] = own'[p]
        BY <3>1 DEF Created, Refs
    <3>6. IsInside(p)'
        BY <3>1, <3>4, <3>5 DEF Outside, Waiting, OwnerInv, OwnersAreInside, IsInside
    <3>7. OwnersAreInside'
        BY <3>1, <3>6, OthersStayInside DEF OwnerInv
    <3> QED BY <3>2, <3>3, <3>7 DEF OwnerInv
  <2>4. CASE CreateLoses(p)
    BY <2>4, FileFields, LabelFacts DEF CreateLoses, Goto
  <2>5. CASE CreateFails(p)
    BY <2>5, FileFields, LabelFacts DEF CreateFails, Goto
  <2>6. CASE WriteToken(p)
    <3> HIDE DEF TypeOK, counters, duties, OwnerInv, FilesAreNumbered, OwnersDiffer,
        OwnersAreInside, IsInside
    <3>1. Written(p) /\ Refs /\ Places /\ Elsewhere(p)
        BY <2>6, Writing, TypeParts, Locality DEF Step, Coordinate
    <3>2. FilesAreNumbered'
        BY <3>1, FileFields DEF Written, Refs, OwnerInv, FilesAreNumbered
    <3>3. OwnersDiffer'
        BY <3>1 DEF Written, OwnerInv, OwnersDiffer
    <3>4. own[p] # 0 /\ own'[p] # 0 /\ pc'[p] = "recheck"
        BY <2>6, <3>1 DEF Written, WriteToken, Goto, Places, OwnerInv, OwnersAreInside,
            IsInside
    <3>5. IsInside(p)'
        BY <3>1, <3>4, LabelFacts DEF OwnerInv, OwnersAreInside, IsInside
    <3>6. OwnersAreInside'
        BY <3>1, <3>5, OthersStayInside DEF OwnerInv
    <3> QED BY <3>2, <3>3, <3>6 DEF OwnerInv
  <2>7. CASE WriteFails(p)
    BY <2>7, FileFields, LabelFacts DEF WriteFails, Goto
  <2>27. CASE HeartbeatFails(p)
    <3> HIDE DEF TypeOK, counters, duties, OwnerInv, FilesAreNumbered, OwnersDiffer,
        OwnersAreInside, IsInside
    <3>1. GivesUp(p) /\ Refs /\ Places /\ Elsewhere(p)
        BY <2>27, GivingUp, TypeParts, Locality DEF Step, Coordinate
    <3>2. FilesAreNumbered'
        BY <3>1, FileFields DEF GivesUp, Refs, OwnerInv, FilesAreNumbered
    <3>3. OwnersDiffer'
        BY <3>1 DEF GivesUp, Refs, OwnerInv, OwnersDiffer
    <3>4. own'[p] = 0 /\ ~ held'[p] /\ pc'[p] = "done"
        BY <2>27, <3>1 DEF GivesUp, Refs, Places, HeartbeatFails, Goto, OwnerInv,
            OwnersAreInside, IsInside
    <3>5. IsInside(p)'
        BY <3>1, <3>4, LabelFacts DEF OwnerInv, OwnersAreInside, IsInside
    <3>6. OwnersAreInside'
        BY <3>1, <3>5, OthersStayInside DEF OwnerInv
    <3> QED BY <3>2, <3>3, <3>6 DEF OwnerInv
  <2>8. CASE Cleanup(p)
    <3> HIDE DEF TypeOK, counters, duties, OwnerInv, FilesAreNumbered, OwnersDiffer,
        OwnersAreInside, IsInside
    <3>1. Refs /\ Places /\ Elsewhere(p)
        BY <2>8, TypeParts, Locality DEF Step, Coordinate
    <3>2. FilesAreNumbered'
        BY <2>8, <3>1 DEF Refs, OwnerInv, FilesAreNumbered, Cleanup, Unlinked, NotUnlinked,
            Sees
    <3>3. OwnersDiffer'
        BY <2>8, <3>1 DEF Refs, OwnerInv, OwnersDiffer, Cleanup
    <3>4. own'[p] = 0 /\ ~ held'[p] /\ pc'[p] = "recheck"
        BY <2>8, <3>1 DEF Refs, Places, Cleanup, Goto, OwnerInv, OwnersAreInside, IsInside
    <3>5. IsInside(p)'
        BY <3>1, <3>4, LabelFacts DEF OwnerInv, OwnersAreInside, IsInside
    <3>6. OwnersAreInside'
        BY <3>1, <3>5, OthersStayInside DEF OwnerInv
    <3> QED BY <3>2, <3>3, <3>6 DEF OwnerInv
  <2>9. CASE Measure(p)
    BY <2>9, FileFields, LabelFacts DEF Measure, Goto
  <2>10. CASE BreakRecheck(p)
    <3> HIDE DEF TypeOK, counters, duties, OwnerInv, FilesAreNumbered, OwnersDiffer,
        OwnersAreInside, IsInside
    <3>1. Refs /\ Places /\ Elsewhere(p)
        BY <2>10, TypeParts, Locality DEF Step, Coordinate
    <3>2. file' = file /\ own' = own /\ made' = made /\ held' = held /\ pc[p] = "break"
        BY <2>10 DEF BreakRecheck
    <3>3. file # NoFile => file.id # 0
        BY FileFields DEF TypeOK
    <3>4. \/ pc'[p] = "deadline" /\ seen' = seen
          \/ pc'[p] = "unlink" /\ file # NoFile /\ seen'[p] = file.id
        BY <2>10, <3>1 DEF BreakRecheck, Refs, Places, Goto, Sees, LooksStale
    <3>5. FilesAreNumbered'
        BY <3>1, <3>2, <3>4 DEF Elsewhere, OwnerInv, FilesAreNumbered
    <3>6. OwnersDiffer'
        BY <3>2 DEF OwnerInv, OwnersDiffer
    <3>7. IsInside(p)'
        BY <3>1, <3>2, <3>3, <3>4, LabelFacts DEF OwnerInv, OwnersAreInside, IsInside
    <3>8. OwnersAreInside'
        BY <3>1, <3>7, OthersStayInside DEF OwnerInv
    <3> QED BY <3>5, <3>6, <3>8 DEF OwnerInv
  <2>11. CASE BreakUnlinks(p)
    BY <2>11, FileFields, LabelFacts DEF BreakUnlinks, Goto, Sees, Unlinked
  <2>12. CASE BreakFails(p)
    BY <2>12, FileFields, LabelFacts DEF BreakFails, Goto, Sees
  <2>13. CASE Deadline(p)
    BY <2>13, FileFields, LabelFacts DEF Deadline, Goto
  <2>14. CASE Recheck(p)
    BY <2>14, FileFields, LabelFacts DEF Recheck, Goto
  <2>15. CASE Classify(p)
    BY <2>15, FileFields, LabelFacts DEF Classify, Goto
  <2>16. CASE DeleteStale(p)
    BY <2>16, FileFields, LabelFacts DEF DeleteStale, Goto
  <2>17. CASE Commit(p)
    BY <2>17, FileFields, LabelFacts DEF Commit, Goto, Owns
  <2>18. CASE CommitSkipped(p)
    BY <2>18, FileFields, LabelFacts DEF CommitSkipped, Goto
  <2>19. CASE ReleaseReads(p)
    <3> HIDE DEF TypeOK, counters, duties, OwnerInv, FilesAreNumbered, OwnersDiffer,
        OwnersAreInside, IsInside
    <3>1. Refs /\ Places /\ Elsewhere(p)
        BY <2>19, TypeParts, Locality DEF Step, Flight
    <3>2. file' = file /\ own' = own /\ made' = made /\ pc[p] = "release"
        BY <2>19 DEF ReleaseReads
    <3>3. /\ ~ held'[p]
          /\ seen'[p] \in {own[p], seen[p]}
          /\ \/ pc'[p] = "done"
             \/ pc'[p] = "release unlink" /\ held[p] /\ seen'[p] = own[p]
        BY <2>19, <3>1 DEF ReleaseReads, Refs, Places, Goto, Sees
    <3>4. FilesAreNumbered'
        BY <3>1, <3>2, <3>3 DEF Elsewhere, OwnerInv, FilesAreNumbered
    <3>5. OwnersDiffer'
        BY <3>2 DEF OwnerInv, OwnersDiffer
    <3>6. IsInside(p)'
        BY <3>1, <3>2, <3>3, LabelFacts DEF OwnerInv, OwnersAreInside, IsInside
    <3>7. OwnersAreInside'
        BY <3>1, <3>6, OthersStayInside DEF OwnerInv
    <3> QED BY <3>4, <3>5, <3>7 DEF OwnerInv
  <2>20. CASE ReleaseUnlinks(p)
    BY <2>20, FileFields, LabelFacts DEF ReleaseUnlinks, Goto, Unlinked, NotUnlinked
  <2>21. CASE Return(p)
    <3> HIDE DEF TypeOK, counters, duties, OwnerInv, FilesAreNumbered, OwnersDiffer,
        OwnersAreInside, IsInside
    <3>1. Refs /\ Places /\ Elsewhere(p)
        BY <2>21, TypeParts, Locality DEF Step, Flight
    <3>2. FilesAreNumbered'
        BY <2>21, <3>1 DEF Refs, OwnerInv, FilesAreNumbered, Return, Sees
    <3>3. OwnersDiffer'
        BY <2>21, <3>1 DEF Refs, OwnerInv, OwnersDiffer, Return
    <3>4. own'[p] = 0 /\ ~ held'[p] /\ pc'[p] = "idle"
        BY <2>21, <3>1 DEF Refs, Places, Return, Goto, OwnerInv, OwnersAreInside, IsInside
    <3>5. IsInside(p)'
        BY <3>1, <3>4, LabelFacts DEF OwnerInv, OwnersAreInside, IsInside
    <3>6. OwnersAreInside'
        BY <3>1, <3>5, OthersStayInside DEF OwnerInv
    <3> QED BY <3>2, <3>3, <3>6 DEF OwnerInv
  <2>22. CASE Wake(p)
    BY <2>22, FileFields DEF Wake
  <2>23. CASE Touch(p)
    BY <2>23, FileFields, FileTouched DEF Touch
  <2>24. CASE TouchFails(p)
    BY <2>24, FileFields DEF TouchFails
  <2>25. CASE Crash(p)
    <3> HIDE DEF TypeOK, counters, duties, OwnerInv, FilesAreNumbered, OwnersDiffer,
        OwnersAreInside, IsInside
    <3>1. Refs /\ Places /\ Elsewhere(p)
        BY <2>25, TypeParts, Locality DEF Step
    <3>2. FilesAreNumbered'
        BY <2>25, <3>1 DEF Refs, OwnerInv, FilesAreNumbered, Crash, Sees
    <3>3. OwnersDiffer'
        BY <2>25, <3>1 DEF Refs, OwnerInv, OwnersDiffer, Crash
    <3>4. own'[p] = 0 /\ ~ held'[p] /\ pc'[p] = "idle"
        BY <2>25, <3>1 DEF Refs, Places, Crash, Goto, OwnerInv, OwnersAreInside, IsInside
    <3>5. IsInside(p)'
        BY <3>1, <3>4, LabelFacts DEF OwnerInv, OwnersAreInside, IsInside
    <3>6. OwnersAreInside'
        BY <3>1, <3>5, OthersStayInside DEF OwnerInv
    <3> QED BY <3>2, <3>3, <3>6 DEF OwnerInv
  <2>26. CASE FallsBehind(p)
    BY <2>26, FileFields DEF FallsBehind
  <2> QED BY <1>1, <2>1, <2>2, <2>3, <2>4, <2>5, <2>6, <2>7, <2>8, <2>9, <2>10, <2>11,
      <2>12, <2>13, <2>14, <2>15, <2>16, <2>17, <2>18, <2>19, <2>20, <2>21, <2>22, <2>23,
      <2>24, <2>25, <2>26, <2>27 DEF Step, Coordinate, Flight, Beat
<1>2. CASE Tick
    BY <1>2, FileFields, FileAged DEF Tick
<1>3. CASE LockSwept
    BY <1>3, FileFields DEF LockSwept, Unlinked
<1>4. CASE Expires
    BY <1>4, FileFields DEF Expires
<1>5. CASE UNCHANGED vars
    BY <1>5, FileFields DEF vars
<1> QED BY <1>1, <1>2, <1>3, <1>4, <1>5 DEF Next, Step, vars

(* A commit is lawful only for the one process that owns the file.         *)
LEMMA LawfulStep ==
    ASSUME TypeOK, OwnerInv, LawfulWorkIsSeen, [Next]_vars PROVE LawfulWorkIsSeen'
<1> USE DEF TypeOK, counters, duties, OwnerInv, FilesAreNumbered, OwnersDiffer,
        OwnersAreInside, IsInside, LawfulWorkIsSeen, Owns
<1>1. ASSUME NEW p \in Processes, Step(p) PROVE LawfulWorkIsSeen'
  <2>1. CASE Join(p)
    BY <2>1, FileFields, LabelFacts DEF Join, Goto
  <2>2. CASE Probe(p)
    BY <2>2, FileFields, LabelFacts DEF Probe, Goto
  <2>3. CASE CreateWins(p)
    <3> HIDE DEF TypeOK, counters, duties, OwnerInv, FilesAreNumbered, OwnersDiffer,
        OwnersAreInside, IsInside, LawfulWorkIsSeen, Owns
    <3>1. Created(p) /\ Refs /\ Places /\ Elsewhere(p)
        BY <2>3, Creation, TypeParts, Locality DEF Step, Coordinate
    <3>2. \A q \in Processes \ {p} : own[q] <= made
        BY DEF OwnerInv, FilesAreNumbered
    <3>3. \A q \in Processes \ {p} : own'[q] # made'
        BY <3>1, <3>2 DEF Created, Refs
    <3>4. \A q \in Processes \ {p} : ~ Owns(q)'
        BY <3>1, <3>3 DEF Created, Owns
    <3>5. pc'[p] = "write token"
        BY <2>3, <3>1 DEF CreateWins, Goto, Places
    <3> QED BY <3>4, <3>5 DEF LawfulWorkIsSeen
  <2>4. CASE CreateLoses(p)
    BY <2>4, FileFields, LabelFacts DEF CreateLoses, Goto
  <2>5. CASE CreateFails(p)
    BY <2>5, FileFields, LabelFacts DEF CreateFails, Goto
  <2>6. CASE WriteToken(p)
    <3> HIDE DEF TypeOK, counters, duties, OwnerInv, FilesAreNumbered, OwnersDiffer,
        OwnersAreInside, IsInside, LawfulWorkIsSeen, Owns
    <3>1. Written(p) /\ Places /\ Elsewhere(p)
        BY <2>6, Writing, TypeParts, Locality DEF Step, Coordinate
    <3>2. \A q \in Processes : Owns(q)' <=> Owns(q)
        BY <3>1 DEF Written, Owns
    <3>3. pc'[p] = "recheck" /\ stored' = stored /\ under' = under
        BY <2>6, <3>1 DEF WriteToken, Goto, Places
    <3> QED BY <3>1, <3>2, <3>3 DEF Elsewhere, LawfulWorkIsSeen
  <2>7. CASE WriteFails(p)
    BY <2>7, FileFields, LabelFacts DEF WriteFails, Goto
  <2>27. CASE HeartbeatFails(p)
    <3> HIDE DEF TypeOK, counters, duties, OwnerInv, FilesAreNumbered, OwnersDiffer,
        OwnersAreInside, IsInside, LawfulWorkIsSeen, Owns
    <3>1. GivesUp(p) /\ Refs /\ Places /\ Elsewhere(p)
        BY <2>27, GivingUp, TypeParts, Locality DEF Step, Coordinate
    <3>2. \A q \in Processes \ {p} : Owns(q)' <=> Owns(q)
        BY <3>1 DEF GivesUp, Owns, Elsewhere
    <3>3. pc'[p] = "done" /\ stored' = stored /\ under' = under
        BY <2>27, <3>1 DEF HeartbeatFails, Goto, Places
    <3> QED BY <3>1, <3>2, <3>3 DEF Elsewhere, LawfulWorkIsSeen
  <2>8. CASE Cleanup(p)
    BY <2>8, FileFields, LabelFacts DEF Cleanup, Goto, Sees, Unlinked, NotUnlinked
  <2>9. CASE Measure(p)
    BY <2>9, FileFields, LabelFacts DEF Measure, Goto
  <2>10. CASE BreakRecheck(p)
    BY <2>10, FileFields, LabelFacts DEF BreakRecheck, Goto, Sees, LooksStale
  <2>11. CASE BreakUnlinks(p)
    BY <2>11, FileFields, LabelFacts DEF BreakUnlinks, Goto, Sees, Unlinked
  <2>12. CASE BreakFails(p)
    BY <2>12, FileFields, LabelFacts DEF BreakFails, Goto, Sees
  <2>13. CASE Deadline(p)
    BY <2>13, FileFields, LabelFacts DEF Deadline, Goto
  <2>14. CASE Recheck(p)
    BY <2>14, FileFields, LabelFacts DEF Recheck, Goto
  <2>15. CASE Classify(p)
    BY <2>15, FileFields, LabelFacts DEF Classify, Goto
  <2>16. CASE DeleteStale(p)
    BY <2>16, FileFields, LabelFacts DEF DeleteStale, Goto
  <2>17. CASE Commit(p)
    <3> HIDE DEF TypeOK, counters, duties, OwnerInv, FilesAreNumbered, OwnersDiffer,
        OwnersAreInside, IsInside, LawfulWorkIsSeen, Owns
    <3>1. Places /\ Elsewhere(p) /\ file' = file /\ own' = own /\ pc'[p] = "release"
        BY <2>17, TypeParts, Locality DEF Commit, Goto, Places, Step, Flight
    <3>2. ASSUME NEW q \in Processes, pc'[q] \in {"classify", "delete", "compute"},
                 held'[q], Owns(q)'
          PROVE  ~ (stored' = "fresh" /\ under' = "lock")
      <4>1. q # p /\ Owns(q) /\ q \in Processes \ {p}
          BY <3>1, <3>2 DEF Owns
      <4>2. ~ Owns(p)
          BY <4>1, OneOwner
      <4> QED BY <2>17, <4>2 DEF Commit
    <3> QED BY <3>2 DEF LawfulWorkIsSeen
  <2>18. CASE CommitSkipped(p)
    BY <2>18, FileFields, LabelFacts DEF CommitSkipped, Goto
  <2>19. CASE ReleaseReads(p)
    BY <2>19, FileFields, LabelFacts DEF ReleaseReads, Goto, Sees, BeatStopped
  <2>20. CASE ReleaseUnlinks(p)
    BY <2>20, FileFields, LabelFacts DEF ReleaseUnlinks, Goto, Unlinked, NotUnlinked
  <2>21. CASE Return(p)
    BY <2>21, FileFields, LabelFacts DEF Return, Goto, Sees
  <2>22. CASE Wake(p)
    BY <2>22, FileFields DEF Wake
  <2>23. CASE Touch(p)
    BY <2>23, FileFields, FileTouched DEF Touch
  <2>24. CASE TouchFails(p)
    BY <2>24, FileFields DEF TouchFails
  <2>25. CASE Crash(p)
    BY <2>25, FileFields, LabelFacts DEF Crash, Goto, Sees
  <2>26. CASE FallsBehind(p)
    BY <2>26, FileFields DEF FallsBehind
  <2> QED BY <1>1, <2>1, <2>2, <2>3, <2>4, <2>5, <2>6, <2>7, <2>8, <2>9, <2>10, <2>11,
      <2>12, <2>13, <2>14, <2>15, <2>16, <2>17, <2>18, <2>19, <2>20, <2>21, <2>22, <2>23,
      <2>24, <2>25, <2>26, <2>27 DEF Step, Coordinate, Flight, Beat
<1>2. CASE Tick
    BY <1>2, FileFields, FileAged DEF Tick
<1>3. CASE LockSwept
    BY <1>3, FileFields DEF LockSwept, Unlinked
<1>4. CASE Expires
    BY <1>4, FileFields DEF Expires
<1>5. CASE UNCHANGED vars
    BY <1>5, FileFields DEF vars
<1> QED BY <1>1, <1>2, <1>3, <1>4, <1>5 DEF Next, Step, vars

(* Time passes only while those who keep up have done their duties.        *)
LEMMA AgeStep ==
    ASSUME TypeOK, OwnerInv, AgeMeasuresSilence, [Next]_vars PROVE AgeMeasuresSilence'
<1> USE DEF TypeOK, counters, duties, OwnerInv, FilesAreNumbered, OwnersDiffer,
        OwnersAreInside, IsInside, AgeMeasuresSilence, Owns
<1>1. ASSUME NEW p \in Processes, Step(p) PROVE AgeMeasuresSilence'
  <2>1. CASE Join(p)
    BY <2>1, FileFields, LabelFacts, TimesAssumption DEF Join, Goto
  <2>2. CASE Probe(p)
    BY <2>2, FileFields, LabelFacts, TimesAssumption DEF Probe, Goto
  <2>3. CASE CreateWins(p)
    <3> HIDE DEF TypeOK, counters, duties, OwnerInv, FilesAreNumbered, OwnersDiffer,
        OwnersAreInside, IsInside, AgeMeasuresSilence, Owns
    <3>1. Created(p) /\ Refs /\ Places /\ Elsewhere(p)
        BY <2>3, Creation, TypeParts, Locality DEF Step, Coordinate
    <3>2. \A q \in Processes \ {p} : own[q] <= made
        BY DEF OwnerInv, FilesAreNumbered
    <3>3. \A q \in Processes \ {p} : own'[q] # made'
        BY <3>1, <3>2 DEF Created, Refs
    <3>4. \A q \in Processes \ {p} : ~ Owns(q)'
        BY <3>1, <3>3 DEF Created, Owns
    <3>5. since'[p] = 0 /\ file'.age = 0
        BY <2>3, <3>1 DEF CreateWins, Created, Places
    <3> QED BY <3>4, <3>5, TimesAssumption DEF AgeMeasuresSilence
  <2>4. CASE CreateLoses(p)
    BY <2>4, FileFields, LabelFacts, TimesAssumption DEF CreateLoses, Goto
  <2>5. CASE CreateFails(p)
    BY <2>5, FileFields, LabelFacts, TimesAssumption DEF CreateFails, Goto
  <2>6. CASE WriteToken(p)
    <3> HIDE DEF TypeOK, counters, duties, OwnerInv, FilesAreNumbered, OwnersDiffer,
        OwnersAreInside, IsInside, AgeMeasuresSilence, Owns
    <3>1. Written(p) /\ Refs /\ Places /\ Elsewhere(p)
        BY <2>6, Writing, TypeParts, Locality DEF Step, Coordinate
    <3>2. \A q \in Processes : Owns(q)' <=> Owns(q)
        BY <3>1 DEF Written, Owns
    <3>3. since'[p] = 0 /\ (Owns(p) => file'.age = 0)
        BY <2>6, <3>1 DEF WriteToken, Written, Places
    <3>4. \A q \in Processes \ {p} : Owns(q) => file' = file
        BY <3>1, OneOwner DEF Written
    <3> QED BY <3>1, <3>2, <3>3, <3>4, TimesAssumption DEF Elsewhere, AgeMeasuresSilence
  <2>7. CASE WriteFails(p)
    BY <2>7, FileFields, LabelFacts, TimesAssumption DEF WriteFails, Goto
  <2>27. CASE HeartbeatFails(p)
    <3> HIDE DEF TypeOK, counters, duties, OwnerInv, FilesAreNumbered, OwnersDiffer,
        OwnersAreInside, IsInside, AgeMeasuresSilence, Owns
    <3>1. GivesUp(p) /\ Refs /\ Places /\ Elsewhere(p)
        BY <2>27, GivingUp, TypeParts, Locality DEF Step, Coordinate
    <3>2. ~ Owns(p)' /\ \A q \in Processes \ {p} : Owns(q)' <=> Owns(q)
        BY <3>1, FileFields DEF GivesUp, Refs, Owns, Elsewhere
    <3>3. \A q \in Processes \ {p} : Owns(q) => file' = file
        BY <3>1, OneOwner DEF GivesUp
    <3> QED BY <3>1, <3>2, <3>3, TimesAssumption DEF Elsewhere, AgeMeasuresSilence
  <2>8. CASE Cleanup(p)
    BY <2>8, FileFields, LabelFacts, TimesAssumption DEF Cleanup, Goto, Sees, Unlinked,
        NotUnlinked
  <2>9. CASE Measure(p)
    BY <2>9, FileFields, LabelFacts, TimesAssumption DEF Measure, Goto
  <2>10. CASE BreakRecheck(p)
    BY <2>10, FileFields, LabelFacts, TimesAssumption DEF BreakRecheck, Goto, Sees,
        LooksStale
  <2>11. CASE BreakUnlinks(p)
    BY <2>11, FileFields, LabelFacts, TimesAssumption DEF BreakUnlinks, Goto, Sees, Unlinked
  <2>12. CASE BreakFails(p)
    BY <2>12, FileFields, LabelFacts, TimesAssumption DEF BreakFails, Goto, Sees
  <2>13. CASE Deadline(p)
    BY <2>13, FileFields, LabelFacts, TimesAssumption DEF Deadline, Goto
  <2>14. CASE Recheck(p)
    BY <2>14, FileFields, LabelFacts, TimesAssumption DEF Recheck, Goto
  <2>15. CASE Classify(p)
    BY <2>15, FileFields, LabelFacts, TimesAssumption DEF Classify, Goto
  <2>16. CASE DeleteStale(p)
    BY <2>16, FileFields, LabelFacts, TimesAssumption DEF DeleteStale, Goto
  <2>17. CASE Commit(p)
    BY <2>17, FileFields, LabelFacts, TimesAssumption DEF Commit, Goto, Owns
  <2>18. CASE CommitSkipped(p)
    BY <2>18, FileFields, LabelFacts, TimesAssumption DEF CommitSkipped, Goto
  <2>19. CASE ReleaseReads(p)
    BY <2>19, FileFields, LabelFacts, TimesAssumption DEF ReleaseReads, Goto, Sees,
        BeatStopped
  <2>20. CASE ReleaseUnlinks(p)
    BY <2>20, FileFields, LabelFacts, TimesAssumption DEF ReleaseUnlinks, Goto, Unlinked,
        NotUnlinked
  <2>21. CASE Return(p)
    BY <2>21, FileFields, LabelFacts, TimesAssumption DEF Return, Goto, Sees
  <2>22. CASE Wake(p)
    BY <2>22, FileFields, TimesAssumption DEF Wake
  <2>23. CASE Touch(p)
    <3> HIDE DEF TypeOK, counters, duties, OwnerInv, FilesAreNumbered, OwnersDiffer,
        OwnersAreInside, IsInside, AgeMeasuresSilence, Owns
    <3>1. Touched(p) /\ Places /\ Elsewhere(p)
        BY <2>23, Touching, TypeParts, Locality DEF Step, Beat
    <3>2. \A q \in Processes : Owns(q)' <=> Owns(q)
        BY <3>1 DEF Touched, Owns
    <3>3. since'[p] = 0 /\ file'.age = 0
        BY <2>23, <3>1 DEF Touch, Touched, Places
    <3>4. \A q \in Processes : since[q] \in Nat
        BY <3>1 DEF Places
    <3> QED BY <3>1, <3>2, <3>3, <3>4, TimesAssumption DEF Elsewhere, AgeMeasuresSilence
  <2>24. CASE TouchFails(p)
    BY <2>24, FileFields, TimesAssumption DEF TouchFails
  <2>25. CASE Crash(p)
    BY <2>25, FileFields, LabelFacts, TimesAssumption DEF Crash, Goto, Sees
  <2>26. CASE FallsBehind(p)
    BY <2>26, FileFields, TimesAssumption DEF FallsBehind
  <2> QED BY <1>1, <2>1, <2>2, <2>3, <2>4, <2>5, <2>6, <2>7, <2>8, <2>9, <2>10, <2>11,
      <2>12, <2>13, <2>14, <2>15, <2>16, <2>17, <2>18, <2>19, <2>20, <2>21, <2>22, <2>23,
      <2>24, <2>25, <2>26, <2>27 DEF Step, Coordinate, Flight, Beat
<1>2. CASE Tick
  <2> HIDE DEF TypeOK, counters, duties, OwnerInv, FilesAreNumbered, OwnersDiffer,
      OwnersAreInside, IsInside, AgeMeasuresSilence, Owns
  <2>1. Aged /\ Places /\ own' = own /\ late' = late
    BY <1>2, Ageing, TypeParts DEF Tick
  <2>2. \A q \in Processes : Owns(q)' <=> Owns(q)
    BY <2>1 DEF Aged, Owns
  <2>3. \A q \in Processes : (Owns(q) /\ ~ late[q]) =>
            since'[q] = since[q] + 1 /\ since[q] < Heartbeat
    BY <1>2, <2>1, OwnersOwn DEF Tick, duties
  <2>4. \A q \in Processes : Owns(q) =>
            file.age \in Nat /\ (file'.age = file.age \/ file'.age = file.age + 1)
    BY <2>1, FileFields DEF Aged, Owns, TypeOK
  <2>5. \A q \in Processes : since[q] \in Nat
    BY <2>1 DEF Places
  <2> QED BY <2>1, <2>2, <2>3, <2>4, <2>5, TimesAssumption DEF AgeMeasuresSilence
<1>3. CASE LockSwept
    BY <1>3, FileFields, TimesAssumption DEF LockSwept, Unlinked
<1>4. CASE Expires
    BY <1>4, FileFields, TimesAssumption DEF Expires
<1>5. CASE UNCHANGED vars
    BY <1>5, FileFields, TimesAssumption DEF vars
<1> QED BY <1>1, <1>2, <1>3, <1>4, <1>5 DEF Next, Step, vars

(* A breaker whose clock is right has judged a file whose owner is late.   *)
LEMMA JudgedStep ==
    ASSUME TypeOK, OwnerInv, AgeMeasuresSilence, JudgedIsLate,
        [Next]_vars PROVE JudgedIsLate'
<1> USE DEF TypeOK, counters, duties, OwnerInv, FilesAreNumbered, OwnersDiffer,
        OwnersAreInside, IsInside, AgeMeasuresSilence, JudgedIsLate, Owns
<1>1. ASSUME NEW p \in Processes, Step(p) PROVE JudgedIsLate'
  <2>1. CASE Join(p)
    BY <2>1, FileFields, LabelFacts DEF Join, Goto
  <2>2. CASE Probe(p)
    BY <2>2, FileFields, LabelFacts DEF Probe, Goto
  <2>3. CASE CreateWins(p)
    <3> HIDE DEF TypeOK, counters, duties, OwnerInv, FilesAreNumbered, OwnersDiffer,
        OwnersAreInside, IsInside, AgeMeasuresSilence, JudgedIsLate, Owns
    <3>1. Created(p) /\ Refs /\ Places /\ Elsewhere(p)
        BY <2>3, Creation, TypeParts, Locality DEF Step, Coordinate
    <3>2. \A q \in Processes : seen[q] <= made
        BY DEF OwnerInv, FilesAreNumbered
    <3>3. \A q \in Processes \ {p} : seen'[q] # made'
        BY <3>1, <3>2 DEF Created, Refs
    <3>4. own'[p] = made' /\ pc'[p] = "write token" /\ late' = late
        BY <2>3, <3>1 DEF Created, Refs, Places, CreateWins, Goto, duties
    <3>5. ASSUME NEW o \in Processes, NEW q \in Processes,
                 pc'[q] = "unlink", Ahead[q] = 0, seen'[q] = own'[o]
          PROVE  late'[o]
      <4>1. q # p /\ o # p
        BY <3>3, <3>4, <3>5
      <4> QED BY <3>1, <3>4, <3>5, <4>1 DEF Elsewhere, JudgedIsLate
    <3> QED BY <3>5 DEF JudgedIsLate
  <2>4. CASE CreateLoses(p)
    BY <2>4, FileFields, LabelFacts DEF CreateLoses, Goto
  <2>5. CASE CreateFails(p)
    BY <2>5, FileFields, LabelFacts DEF CreateFails, Goto
  <2>6. CASE WriteToken(p)
    <3> HIDE DEF TypeOK, counters, duties, OwnerInv, FilesAreNumbered, OwnersDiffer,
        OwnersAreInside, IsInside, AgeMeasuresSilence, JudgedIsLate, Owns
    <3>1. Written(p) /\ Places /\ Elsewhere(p)
        BY <2>6, Writing, TypeParts, Locality DEF Step, Coordinate
    <3>2. pc'[p] = "recheck" /\ own' = own /\ late' = late
        BY <2>6, <3>1 DEF WriteToken, Goto, Places, duties
    <3> QED BY <3>1, <3>2 DEF Elsewhere, JudgedIsLate
  <2>7. CASE WriteFails(p)
    BY <2>7, FileFields, LabelFacts DEF WriteFails, Goto
  <2>27. CASE HeartbeatFails(p)
    <3> HIDE DEF TypeOK, counters, duties, OwnerInv, FilesAreNumbered, OwnersDiffer,
        OwnersAreInside, IsInside, AgeMeasuresSilence, JudgedIsLate, Owns
    <3>1. GivesUp(p) /\ Refs /\ Places /\ Elsewhere(p)
        BY <2>27, GivingUp, TypeParts, Locality DEF Step, Coordinate
    <3>2. own'[p] = 0 /\ pc'[p] = "done"
        BY <2>27, <3>1 DEF GivesUp, Refs, Places, HeartbeatFails, Goto
    <3>3. ASSUME NEW o \in Processes, NEW q \in Processes,
                 pc'[q] = "unlink", Ahead[q] = 0, seen'[q] = own'[o]
          PROVE  late'[o]
      <4>1. q # p /\ own'[q] = own[q] /\ seen'[q] = seen[q] /\ pc[q] = "unlink"
        BY <3>1, <3>2, <3>3 DEF Elsewhere
      <4>2. seen[q] # 0
        BY <4>1, LabelFacts DEF OwnerInv, OwnersAreInside, IsInside
      <4>3. o # p
        BY <3>2, <3>3, <4>1, <4>2
      <4> QED BY <3>1, <3>3, <4>1, <4>3 DEF Elsewhere, JudgedIsLate
    <3> QED BY <3>3 DEF JudgedIsLate
  <2>8. CASE Cleanup(p)
    BY <2>8, FileFields, LabelFacts DEF Cleanup, Goto, Sees, Unlinked, NotUnlinked
  <2>9. CASE Measure(p)
    BY <2>9, FileFields, LabelFacts DEF Measure, Goto
  <2>10. CASE BreakRecheck(p)
    <3> HIDE DEF TypeOK, counters, duties, OwnerInv, FilesAreNumbered, OwnersDiffer,
        OwnersAreInside, IsInside, AgeMeasuresSilence, JudgedIsLate, Owns
    <3>1. Refs /\ Places /\ Elsewhere(p) /\ own' = own /\ late' = late
        BY <2>10, TypeParts, Locality DEF BreakRecheck, duties, Step, Coordinate
    <3>2. CASE LooksStale(p)
      <4>1. seen'[p] = file.id
        BY <2>10, <3>1, <3>2 DEF BreakRecheck, Sees, Refs
      <4>2. ASSUME NEW q \in Processes, Ahead[p] = 0, own[q] = file.id PROVE late[q]
        <5>1. file.age > StaleAfter /\ Owns(q) /\ file.age \in Nat
            BY <3>2, <4>2, FileFields DEF LooksStale, Owns, TypeOK
        <5>2. since[q] \in Nat
            BY <3>1 DEF Places
        <5> QED BY <5>1, <5>2, TimesAssumption DEF AgeMeasuresSilence
      <4> QED BY <3>1, <4>1, <4>2 DEF Elsewhere, JudgedIsLate
    <3>3. CASE ~ LooksStale(p)
      <4>1. pc'[p] = "deadline"
        BY <2>10, <3>1, <3>3 DEF BreakRecheck, Goto, Places
      <4> QED BY <3>1, <4>1 DEF Elsewhere, JudgedIsLate
    <3> QED BY <3>2, <3>3
  <2>11. CASE BreakUnlinks(p)
    BY <2>11, FileFields, LabelFacts DEF BreakUnlinks, Goto, Sees, Unlinked
  <2>12. CASE BreakFails(p)
    BY <2>12, FileFields, LabelFacts DEF BreakFails, Goto, Sees
  <2>13. CASE Deadline(p)
    BY <2>13, FileFields, LabelFacts DEF Deadline, Goto
  <2>14. CASE Recheck(p)
    BY <2>14, FileFields, LabelFacts DEF Recheck, Goto
  <2>15. CASE Classify(p)
    BY <2>15, FileFields, LabelFacts DEF Classify, Goto
  <2>16. CASE DeleteStale(p)
    BY <2>16, FileFields, LabelFacts DEF DeleteStale, Goto
  <2>17. CASE Commit(p)
    BY <2>17, FileFields, LabelFacts DEF Commit, Goto, Owns
  <2>18. CASE CommitSkipped(p)
    BY <2>18, FileFields, LabelFacts DEF CommitSkipped, Goto
  <2>19. CASE ReleaseReads(p)
    <3> HIDE DEF TypeOK, counters, duties, OwnerInv, FilesAreNumbered, OwnersDiffer,
        OwnersAreInside, IsInside, AgeMeasuresSilence, JudgedIsLate, Owns
    <3>1. Places /\ Elsewhere(p) /\ own' = own /\ late' = late
        BY <2>19, TypeParts, Locality DEF ReleaseReads, Step, Flight
    <3>2. pc'[p] \in {"release unlink", "done"}
        BY <2>19, <3>1 DEF ReleaseReads, Goto, Places
    <3>3. ASSUME NEW o \in Processes, NEW q \in Processes,
                 pc'[q] = "unlink", Ahead[q] = 0, seen'[q] = own'[o]
          PROVE  late'[o]
      <4>1. q # p
          BY <3>2, <3>3
      <4> QED BY <3>1, <3>3, <4>1 DEF Elsewhere, JudgedIsLate
    <3> QED BY <3>3 DEF JudgedIsLate
  <2>20. CASE ReleaseUnlinks(p)
    BY <2>20, FileFields, LabelFacts DEF ReleaseUnlinks, Goto, Unlinked, NotUnlinked
  <2>21. CASE Return(p)
    BY <2>21, FileFields, LabelFacts DEF Return, Goto, Sees
  <2>22. CASE Wake(p)
    <3> HIDE DEF TypeOK, OwnerInv, AgeMeasuresSilence, JudgedIsLate
    <3>1. pc' = pc /\ own' = own /\ seen' = seen /\ late' = late
        BY <2>22 DEF Wake
    <3> QED BY <3>1 DEF JudgedIsLate
  <2>23. CASE Touch(p)
    <3> HIDE DEF TypeOK, OwnerInv, AgeMeasuresSilence, JudgedIsLate
    <3>1. pc' = pc /\ own' = own /\ seen' = seen /\ late' = late
        BY <2>23 DEF Touch
    <3> QED BY <3>1 DEF JudgedIsLate
  <2>24. CASE TouchFails(p)
    <3> HIDE DEF TypeOK, OwnerInv, AgeMeasuresSilence, JudgedIsLate
    <3>1. pc' = pc /\ own' = own /\ seen' = seen
        BY <2>24 DEF TouchFails
    <3>2. (own[p] # 0 => late'[p]) /\ \A o \in Processes \ {p} : late'[o] = late[o]
        BY <2>24, TypeParts DEF TouchFails, Places
    <3>3. \A q \in Processes : pc[q] = "unlink" => seen[q] # 0
        BY DEF OwnerInv, OwnersAreInside, IsInside
    <3>4. ASSUME NEW o \in Processes, NEW q \in Processes,
                 pc'[q] = "unlink", Ahead[q] = 0, seen'[q] = own'[o]
          PROVE  late'[o]
      <4>1. late[o] /\ own[o] # 0
          BY <3>1, <3>3, <3>4 DEF JudgedIsLate
      <4> QED BY <3>2, <4>1
    <3> QED BY <3>4 DEF JudgedIsLate
  <2>25. CASE Crash(p)
    BY <2>25, FileFields, LabelFacts DEF Crash, Goto, Sees
  <2>26. CASE FallsBehind(p)
    BY <2>26, FileFields DEF FallsBehind
  <2> QED BY <1>1, <2>1, <2>2, <2>3, <2>4, <2>5, <2>6, <2>7, <2>8, <2>9, <2>10, <2>11,
      <2>12, <2>13, <2>14, <2>15, <2>16, <2>17, <2>18, <2>19, <2>20, <2>21, <2>22, <2>23,
      <2>24, <2>25, <2>26, <2>27 DEF Step, Coordinate, Flight, Beat
<1>2. CASE Tick
    BY <1>2, FileFields, FileAged DEF Tick
<1>3. CASE LockSwept
    BY <1>3, FileFields DEF LockSwept, Unlinked
<1>4. CASE Expires
    BY <1>4, FileFields DEF Expires
<1>5. CASE UNCHANGED vars
    BY <1>5, FileFields DEF vars
<1> QED BY <1>1, <1>2, <1>3, <1>4, <1>5 DEF Next, Step, vars

(* The invariant is inductive.                                             *)
THEOREM FlightInvariant == Spec => []IInv
<1>1. IInv /\ [Next]_vars => IInv'
    BY TypeStep, OwnerStep, LawfulStep, AgeStep, JudgedStep DEF IInv
<1> QED BY <1>1, InitIInv, PTL DEF Spec

(* A holder whose lock is at the path neither deletes nor recomputes what  *)
(* an earlier such holder committed and is still fresh.                    *)
THEOREM LawfulWorkIsNotUndoneHolds == Spec => []LawfulWorkIsNotUndone
<1>1. IInv => LawfulWorkIsNotUndone
    BY DEF IInv, LawfulWorkIsSeen, LawfulWorkIsNotUndone
<1> QED BY <1>1, FlightInvariant, PTL

-----------------------------------------------------------------------------
(* The window in which p may lose its lock, and the steps that remove a    *)
(* file: a break, the clean-up of a failed create, a release and a sweep.  *)
Window(p) ==
    \/ events' > events
    \/ pc[p] \in {"release unlink", "cleanup"} /\ pc'[p] # pc[p]
    \/ \E q \in Processes \ {p} :
        /\ pc[q] \in {"unlink", "release unlink", "cleanup"} /\ pc'[q] # pc[q]
        /\ Ahead[q] > 0 \/ seen[q] \notin {0, file.id}

Removes(q) == BreakUnlinks(q) \/ Cleanup(q) \/ ReleaseUnlinks(q)

LEMMA OnlyTheseRemove ==
    ASSUME TypeOK, file # NoFile, [Next]_vars, file' = NoFile
    PROVE  LockSwept \/ \E q \in Processes : Removes(q)
<1>1. ASSUME NEW q \in Processes, Step(q), ~ Removes(q) PROVE FALSE
  <2>1. CASE CreateWins(q)
    BY <2>1, Creation DEF Created
  <2>2. CASE WriteToken(q)
    BY <2>2, Writing DEF Written
  <2>3. CASE Touch(q)
    BY <2>3, Touching DEF Touched
  <2>7. CASE HeartbeatFails(q)
    BY <2>7, GivingUp DEF GivesUp
  <2>4. CASE /\ Coordinate(q) /\ ~ CreateWins(q)
             /\ ~ WriteToken(q) /\ ~ HeartbeatFails(q)
    BY <1>1, <2>4 DEF Removes, Coordinate, Probe, CreateLoses, CreateFails, WriteFails,
        Measure,
        BreakRecheck, BreakFails, Deadline
  <2>5. CASE Flight(q)
    BY <1>1, <2>5 DEF Removes, Flight, Recheck, Classify, DeleteStale, Commit,
        CommitSkipped,
        ReleaseReads, Return
  <2>6. CASE Wake(q) \/ TouchFails(q) \/ Join(q) \/ Crash(q) \/ FallsBehind(q)
    BY <2>6 DEF Wake, TouchFails, Join, Crash, FallsBehind
  <2> QED BY <1>1, <2>1, <2>2, <2>3, <2>4, <2>5, <2>6, <2>7 DEF Step, Beat
<1>2. ~ Tick
    BY Ageing DEF Aged
<1>3. ~ Expires /\ ~ UNCHANGED vars
    BY DEF Expires, vars
<1> QED BY <1>1, <1>2, <1>3 DEF Next, Step

LEMMA LosesInAWindow ==
    ASSUME IInv, [Next]_vars, NEW p \in Processes, Owns(p), ~ late[p], file' = NoFile
    PROVE  Window(p)
<1>1. file # NoFile /\ file.id = own[p] /\ own[p] # 0 /\ TypeOK
    BY OwnersOwn DEF IInv, Owns
<1>2. CASE LockSwept
    BY <1>1, <1>2, BoundsAssumption DEF LockSwept, Window, TypeOK
<1>3. ASSUME NEW q \in Processes, BreakUnlinks(q) PROVE Window(p)
  <2>1. pc[q] = "unlink" /\ pc'[q] # pc[q]
    BY <1>1, <1>3 DEF BreakUnlinks, Goto, TypeOK
  <2>2. own[q] = 0 /\ seen[q] # 0
    BY <2>1, LabelFacts DEF IInv, OwnerInv, OwnersAreInside, IsInside
  <2>3. Ahead[q] = 0 => seen[q] # file.id
    BY <1>1, <2>1 DEF IInv, JudgedIsLate
  <2>4. Ahead[q] = 0 \/ Ahead[q] > 0
    BY TimesAssumption
  <2> QED BY <1>1, <2>1, <2>2, <2>3, <2>4 DEF Window
<1>4. ASSUME NEW q \in Processes, Cleanup(q) \/ ReleaseUnlinks(q) PROVE Window(p)
  <2>1. pc[q] \in {"release unlink", "cleanup"} /\ pc'[q] # pc[q]
    BY <1>1, <1>4 DEF Cleanup, ReleaseUnlinks, Goto, TypeOK
  <2>2. own[q] # 0 /\ seen[q] = own[q]
    BY <2>1 DEF IInv, OwnerInv, OwnersAreInside, IsInside
  <2>3. CASE q = p
    BY <2>1, <2>3 DEF Window
  <2>4. CASE q # p
    <3>1. seen[q] \notin {0, file.id}
        BY <1>1, <2>2, <2>4 DEF IInv, OwnerInv, OwnersDiffer
    <3> QED BY <2>1, <2>4, <3>1 DEF Window
  <2> QED BY <2>3, <2>4
<1> QED BY <1>1, <1>2, <1>3, <1>4, OnlyTheseRemove DEF Removes

(* A process that keeps up loses its lock only to a sweep, to a clock that *)
(* is ahead, or to one who checked an earlier file than it unlinks.        *)
THEOREM HealthyHolderIsPreemptedLateHolds == Spec => HealthyHolderIsPreemptedLate
<1>1. IInv /\ [Next]_vars =>
        \A p \in Processes : (Owns(p) /\ ~ late[p] /\ file' = NoFile) => Window(p)
    BY LosesInAWindow
<1>2. IInv /\ [Next]_vars =>
        [\A p \in Processes : (Owns(p) /\ ~ late[p] /\ file' = NoFile)
            => \/ events' > events
               \/ pc[p] \in {"release unlink", "cleanup"} /\ pc'[p] # pc[p]
               \/ \E q \in Processes \ {p} :
                    /\ pc[q] \in {"unlink", "release unlink", "cleanup"} /\ pc'[q] # pc[q]
                    /\ Ahead[q] > 0 \/ seen[q] \notin {0, file.id}]_vars
    BY <1>1 DEF Window
<1> QED BY <1>2, FlightInvariant, PTL DEF Spec, HealthyHolderIsPreemptedLate
=============================================================================
