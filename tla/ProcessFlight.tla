---------------------------- MODULE ProcessFlight ----------------------------
(***************************************************************************)
(* coalesce="processes": the advisory lock file of one key, joined by      *)
(* several processes (src/src/cachau/interprocess.py and the process part  *)
(* of `_compute_flight` in decorator.py).  Within a process the per-key    *)
(* lock lets one thread at a time come here, so an actor is a process.     *)
(*                                                                         *)
(* Every system call on the path is a step: two processes may pass each    *)
(* other between a stat and an unlink, or between a read and an unlink.    *)
(* Any of them may fail.  Time is counted in ticks.  A process that is not *)
(* `late` does its file duties (write the token, beat, finish a release)   *)
(* within Heartbeat ticks; one that is late (suspended, starved by the     *)
(* GIL) takes as long as it likes, and then goes on.                       *)
(***************************************************************************)
EXTENDS Naturals

CONSTANTS
    Processes,
    NoFile,
    Heartbeat,      \* _HEARTBEAT_SECONDS
    StaleAfter,     \* _PROCESS_STALE_AFTER
    MaxWait,        \* the deadline of coordinate()
    Ahead,          \* how far each process's clock is ahead of the file times
    (* Bounds of the environment, so that TLC ends.                        *)
    MaxJoins,       \* calls that miss
    MaxEvents       \* crashes, processes that fall behind, sweeps, expiries

ASSUME TimesAssumption ==
    /\ Heartbeat \in Nat \ {0} /\ StaleAfter \in Nat /\ Heartbeat <= StaleAfter
    /\ MaxWait \in Nat /\ Ahead \in [Processes -> Nat]
ASSUME BoundsAssumption == MaxJoins \in Nat /\ MaxEvents \in Nat

(* The file at the path: `id` is its identity (no two are the same file),  *)
(* `token` the id that its creator wrote into it, 0 while it is empty, and *)
(* `age` the ticks since its mtime, counted up to the last that matters.   *)
Files == [id : Nat \ {0}, token : Nat, age : 0 .. StaleAfter + 1]
ASSUME NoFileAssumption == NoFile \notin Files

VARIABLES
    file,       \* the file at the lock path, or NoFile
    stored,     \* the entry of the key: "none", "fresh" or "stale"
    pc,         \* where each process is
    own,        \* the file its ProcessLock created (the token is unique to it)
    held,       \* ProcessLock._held
    beat,       \* its heartbeat thread: "off", "asleep" or "due" to call utime
    since,      \* ticks since it last did a file duty
    late,       \* whether it has stopped keeping up
    seen,       \* history: the file on which it decided what it does next
    waited,     \* ticks since it joined
    under,      \* history: the entry was committed under an intact "lock", or "nothing"
    made,       \* how many lock files were ever created
    joins, events   \* what the bounds bound

counters == <<joins, events>>
duties == <<beat, since, late>>
vars == <<file, stored, pc, own, held, duties, seen, waited, under, made, counters>>

-----------------------------------------------------------------------------
Goto(p, label) == pc' = [pc EXCEPT ![p] = label]

Owns(p) == file # NoFile /\ file.id = own[p]

(* age_seconds() > stale_after, by the clock of p.                         *)
LooksStale(p) == file # NoFile /\ file.age + Ahead[p] > StaleAfter

(* An unlink removes whatever is at the path; it finds nothing, or fails.  *)
Unlinked == file # NoFile /\ file' = NoFile
NotUnlinked == UNCHANGED file

Sees(p, id) == seen' = [seen EXCEPT ![p] = id]

Init ==
    /\ file = NoFile /\ stored \in {"none", "stale"}
    /\ pc = [p \in Processes |-> "idle"]
    /\ own = [p \in Processes |-> 0]
    /\ held = [p \in Processes |-> FALSE]
    /\ beat = [p \in Processes |-> "off"]
    /\ since = [p \in Processes |-> 0]
    /\ late = [p \in Processes |-> FALSE]
    /\ seen = [p \in Processes |-> 0]
    /\ waited = [p \in Processes |-> 0]
    /\ under = "nothing" /\ made = 0
    /\ joins = 0 /\ events = 0

-----------------------------------------------------------------------------
(* coordinate().                                                           *)

(* A miss, with the in-process lock of the key.  The heartbeat thread of a *)
(* previous flight is gone.                                                *)
Join(p) ==
    /\ pc[p] = "idle" /\ beat[p] = "off" /\ joins < MaxJoins
    /\ joins' = joins + 1
    /\ waited' = [waited EXCEPT ![p] = 0]
    /\ Goto(p, "probe")
    /\ UNCHANGED <<file, stored, own, held, duties, seen, under, made, events>>

(* fresh_value()                                                           *)
Probe(p) ==
    /\ pc[p] = "probe"
    /\ Goto(p, IF stored = "fresh" THEN "done" ELSE "create")
    /\ UNCHANGED <<file, stored, own, held, duties, seen, waited, under, made, counters>>

(* try_acquire(): the exclusive create wins or finds a file; any other     *)
(* failure means that no lock can be had here.                             *)
CreateWins(p) ==
    /\ pc[p] = "create" /\ file = NoFile
    /\ made' = made + 1
    /\ file' = [id |-> made + 1, token |-> 0, age |-> 0]
    /\ own' = [own EXCEPT ![p] = made + 1]
    /\ Sees(p, made + 1)
    /\ since' = [since EXCEPT ![p] = 0]
    /\ Goto(p, "write token")
    /\ UNCHANGED <<stored, held, beat, late, waited, under, counters>>

CreateLoses(p) ==
    /\ pc[p] = "create" /\ file # NoFile
    /\ Goto(p, "measure")
    /\ UNCHANGED <<file, stored, own, held, duties, seen, waited, under, made, counters>>

CreateFails(p) ==
    /\ pc[p] = "create"
    /\ Goto(p, "recheck")
    /\ UNCHANGED <<file, stored, own, held, duties, seen, waited, under, made, counters>>

(* The token goes to the file that was created, even if it has left the    *)
(* path; then the heartbeat thread starts.                                 *)
WriteToken(p) ==
    /\ pc[p] = "write token"
    /\ file' = IF Owns(p) THEN [file EXCEPT !.token = own[p], !.age = 0] ELSE file
    /\ held' = [held EXCEPT ![p] = TRUE]
    /\ beat' = [beat EXCEPT ![p] = "asleep"]
    /\ since' = [since EXCEPT ![p] = 0]
    /\ Sees(p, 0)
    /\ Goto(p, "recheck")
    /\ UNCHANGED <<stored, own, late, waited, under, made, counters>>

(* The token is written, but no thread can be started to beat: the call    *)
(* raises, and its lock file stays until it looks stale.                   *)
HeartbeatFails(p) ==
    /\ pc[p] = "write token"
    /\ file' = IF Owns(p) THEN [file EXCEPT !.token = own[p], !.age = 0] ELSE file
    /\ own' = [own EXCEPT ![p] = 0]
    /\ late' = [late EXCEPT ![p] = FALSE]
    /\ since' = [since EXCEPT ![p] = 0]
    /\ Sees(p, 0)
    /\ Goto(p, "done")
    /\ UNCHANGED <<stored, held, beat, waited, under, made, counters>>

WriteFails(p) ==
    /\ pc[p] = "write token"
    /\ Goto(p, "cleanup")
    /\ UNCHANGED <<file, stored, own, held, duties, seen, waited, under, made, counters>>

Cleanup(p) ==
    /\ pc[p] = "cleanup"
    /\ Unlinked \/ NotUnlinked
    /\ own' = [own EXCEPT ![p] = 0]
    /\ late' = [late EXCEPT ![p] = FALSE]
    /\ since' = [since EXCEPT ![p] = 0]
    /\ Sees(p, 0)
    /\ Goto(p, "recheck")
    /\ UNCHANGED <<stored, held, beat, waited, under, made, counters>>

(* The age is read once, and again by break_stale() just before the unlink.*)
Measure(p) ==
    /\ pc[p] = "measure"
    /\ Goto(p, IF LooksStale(p) THEN "break" ELSE "deadline")
    /\ UNCHANGED <<file, stored, own, held, duties, seen, waited, under, made, counters>>

BreakRecheck(p) ==
    /\ pc[p] = "break"
    /\ IF LooksStale(p)
       THEN Sees(p, file.id) /\ Goto(p, "unlink")
       ELSE Goto(p, "deadline") /\ UNCHANGED seen
    /\ UNCHANGED <<file, stored, own, held, duties, waited, under, made, counters>>

(* Only a real break earns the immediate retry.                            *)
BreakUnlinks(p) ==
    /\ pc[p] = "unlink"
    /\ Unlinked
    /\ Sees(p, 0)
    /\ Goto(p, "probe")
    /\ UNCHANGED <<stored, own, held, duties, waited, under, made, counters>>

(* Mutant: a failed break is retried at once, past the deadline check.     *)
BreakFailsRetries(p) ==
    /\ pc[p] = "unlink"
    /\ Sees(p, 0)
    /\ Goto(p, "probe")
    /\ UNCHANGED <<file, stored, own, held, duties, waited, under, made, counters>>

BreakFails(p) ==
    /\ pc[p] = "unlink"
    /\ Sees(p, 0)
    /\ Goto(p, "deadline")
    /\ UNCHANGED <<file, stored, own, held, duties, waited, under, made, counters>>

(* Time out, or sleep and poll again.                                      *)
Deadline(p) ==
    /\ pc[p] = "deadline"
    /\ Goto(p, IF waited[p] >= MaxWait THEN "recheck" ELSE "probe")
    /\ UNCHANGED <<file, stored, own, held, duties, seen, waited, under, made, counters>>

-----------------------------------------------------------------------------
(* The rest of _compute_flight, whether or not the lock was acquired.      *)

(* Mutant: no look at the store between the flight and the classification. *)
RecheckNot(p) ==
    /\ pc[p] = "recheck"
    /\ Goto(p, "classify")
    /\ waited' = [waited EXCEPT ![p] = 0]
    /\ UNCHANGED <<file, stored, own, held, duties, seen, under, made, counters>>

Recheck(p) ==
    /\ pc[p] = "recheck"
    /\ Goto(p, IF stored = "fresh" THEN "release" ELSE "classify")
    /\ waited' = [waited EXCEPT ![p] = 0]
    /\ UNCHANGED <<file, stored, own, held, duties, seen, under, made, counters>>

(* _classify_and_compute: an entry found now is taken for a stale one.     *)
Classify(p) ==
    /\ pc[p] = "classify"
    /\ Goto(p, IF stored = "none" THEN "compute" ELSE "delete")
    /\ UNCHANGED <<file, stored, own, held, duties, seen, waited, under, made, counters>>

DeleteStale(p) ==
    /\ pc[p] = "delete"
    /\ stored' \in {"none", stored}
    /\ under' = IF stored' = "none" THEN "nothing" ELSE under
    /\ Goto(p, "compute")
    /\ UNCHANGED <<file, own, held, duties, seen, waited, made, counters>>

(* The function runs for as long as it takes; its result is committed, or  *)
(* it raises or is not stored.                                             *)
Commit(p) ==
    /\ pc[p] = "compute"
    /\ stored' = "fresh"
    /\ under' = IF held[p] /\ Owns(p) THEN "lock" ELSE "nothing"
    /\ Goto(p, "release")
    /\ UNCHANGED <<file, own, held, duties, seen, waited, made, counters>>

CommitSkipped(p) ==
    /\ pc[p] = "compute"
    /\ Goto(p, "release")
    /\ UNCHANGED <<file, stored, own, held, duties, seen, waited, under, made, counters>>

(* The heartbeat thread exits on its next wake: one that sleeps does       *)
(* nothing any more, one that is about to call utime still does.           *)
BeatStopped(p) == beat' = [beat EXCEPT ![p] = IF @ = "asleep" THEN "off" ELSE @]

(* Mutant: release() does not compare the content with its token.          *)
ReleaseReadsNot(p) ==
    /\ pc[p] = "release"
    /\ held' = [held EXCEPT ![p] = FALSE]
    /\ BeatStopped(p)
    /\ Goto(p, IF held[p] THEN "release unlink" ELSE "done")
    /\ UNCHANGED <<file, stored, own, since, late, seen, waited, under, made, counters>>

(* release(): the content is read (or cannot be) and compared.             *)
ReleaseReads(p) ==
    /\ pc[p] = "release"
    /\ held' = [held EXCEPT ![p] = FALSE]
    /\ BeatStopped(p)
    /\ \/ /\ held[p] /\ file # NoFile /\ file.token = own[p]
          /\ Sees(p, own[p]) /\ Goto(p, "release unlink")
       \/ Goto(p, "done") /\ UNCHANGED seen
    /\ UNCHANGED <<file, stored, own, since, late, waited, under, made, counters>>

ReleaseUnlinks(p) ==
    /\ pc[p] = "release unlink"
    /\ Unlinked \/ NotUnlinked
    /\ Goto(p, "done")
    /\ UNCHANGED <<stored, own, held, duties, seen, waited, under, made, counters>>

(* The call returns, and the ProcessLock is garbage.                       *)
Return(p) ==
    /\ pc[p] = "done"
    /\ Goto(p, "idle")
    /\ own' = [own EXCEPT ![p] = 0]
    /\ late' = [late EXCEPT ![p] = FALSE]
    /\ since' = [since EXCEPT ![p] = 0]
    /\ Sees(p, 0)
    /\ UNCHANGED <<file, stored, held, beat, waited, under, made, counters>>

-----------------------------------------------------------------------------
(* _beat(), the daemon thread: it wakes up in time, then refreshes the     *)
(* mtime of whatever is at the path, or finds nothing there and ends.      *)
Wake(p) ==
    /\ beat[p] = "asleep"
    /\ beat' = [beat EXCEPT ![p] = "due"]
    /\ UNCHANGED <<file, stored, pc, own, held, since, late, seen, waited, under, made,
                   counters>>

Touch(p) ==
    /\ beat[p] = "due" /\ file # NoFile
    /\ file' = [file EXCEPT !.age = 0]
    /\ beat' = [beat EXCEPT ![p] = IF held[p] THEN "asleep" ELSE "off"]
    /\ since' = [since EXCEPT ![p] = 0]
    /\ UNCHANGED <<stored, pc, own, held, late, seen, waited, under, made, counters>>

TouchFails(p) ==
    /\ beat[p] = "due"
    /\ beat' = [beat EXCEPT ![p] = "off"]
    /\ late' = [late EXCEPT ![p] = own[p] # 0]
    /\ since' = [since EXCEPT ![p] = 0]
    /\ UNCHANGED <<file, stored, pc, own, held, seen, waited, under, made, counters>>

-----------------------------------------------------------------------------
(* The labels of a process that waits for the lock or its commit.          *)
Waiting == {"probe", "create", "measure", "break", "unlink", "deadline"}

(* The world: time, a process that is killed or falls behind, a full       *)
(* clear() that sweeps the lock, an entry that expires.                    *)
Tick ==
    /\ \A p \in Processes : (own[p] # 0 /\ ~ late[p]) => since[p] < Heartbeat
    /\ file' = IF file = NoFile \/ file.age > StaleAfter THEN file
               ELSE [file EXCEPT !.age = @ + 1]
    /\ since' = [p \in Processes |->
                    IF own[p] # 0 /\ ~ late[p] THEN since[p] + 1 ELSE since[p]]
    /\ waited' = [p \in Processes |->
                    IF pc[p] \in Waiting /\ waited[p] < MaxWait THEN waited[p] + 1 ELSE waited[p]]
    /\ UNCHANGED <<stored, pc, own, held, beat, late, seen, under, made, counters>>

Crash(p) ==
    /\ pc[p] # "idle" /\ events < MaxEvents
    /\ events' = events + 1
    /\ Goto(p, "idle")
    /\ own' = [own EXCEPT ![p] = 0]
    /\ held' = [held EXCEPT ![p] = FALSE]
    /\ beat' = [beat EXCEPT ![p] = "off"]
    /\ late' = [late EXCEPT ![p] = FALSE]
    /\ since' = [since EXCEPT ![p] = 0]
    /\ waited' = [waited EXCEPT ![p] = 0]
    /\ Sees(p, 0)
    /\ UNCHANGED <<file, stored, under, made, joins>>

FallsBehind(p) ==
    /\ own[p] # 0 /\ ~ late[p] /\ events < MaxEvents
    /\ events' = events + 1
    /\ late' = [late EXCEPT ![p] = TRUE]
    /\ since' = [since EXCEPT ![p] = 0]
    /\ UNCHANGED <<file, stored, pc, own, held, beat, seen, waited, under, made, joins>>

LockSwept ==
    /\ events < MaxEvents /\ events' = events + 1
    /\ Unlinked
    /\ UNCHANGED <<stored, pc, own, held, duties, seen, waited, under, made, joins>>

Expires ==
    /\ stored = "fresh" /\ events < MaxEvents
    /\ events' = events + 1
    /\ stored' = "stale" /\ under' = "nothing"
    /\ UNCHANGED <<file, pc, own, held, duties, seen, waited, made, joins>>

Coordinate(p) ==
    \/ Probe(p) \/ CreateWins(p) \/ CreateLoses(p) \/ CreateFails(p)
    \/ WriteToken(p) \/ HeartbeatFails(p) \/ WriteFails(p) \/ Cleanup(p)
    \/ Measure(p) \/ BreakRecheck(p) \/ BreakUnlinks(p) \/ BreakFails(p) \/ Deadline(p)

Flight(p) ==
    \/ Recheck(p) \/ Classify(p) \/ DeleteStale(p) \/ Commit(p) \/ CommitSkipped(p)
    \/ ReleaseReads(p) \/ ReleaseUnlinks(p) \/ Return(p)

Beat(p) == Wake(p) \/ Touch(p) \/ TouchFails(p)

Next ==
    \/ \E p \in Processes :
        Join(p) \/ Coordinate(p) \/ Flight(p) \/ Beat(p) \/ Crash(p) \/ FallsBehind(p)
    \/ Tick \/ LockSwept \/ Expires

Spec == Init /\ [][Next]_vars

(* A process that runs is scheduled, its daemon thread too, and time goes  *)
(* on.  Nobody has to call, crash, fall behind or sweep.                   *)
Fairness ==
    /\ WF_vars(Tick)
    /\ \A p \in Processes : WF_vars(Coordinate(p) \/ Flight(p)) /\ WF_vars(Beat(p))

FairSpec == Spec /\ Fairness

-----------------------------------------------------------------------------
(* Properties.                                                             *)
Labels == {"idle", "probe", "create", "write token", "cleanup", "measure", "break", "unlink",
           "deadline", "recheck", "classify", "delete", "compute", "release",
           "release unlink", "done"}

TypeOK ==
    /\ file \in Files \union {NoFile}
    /\ stored \in {"none", "fresh", "stale"}
    /\ pc \in [Processes -> Labels]
    /\ own \in [Processes -> Nat]
    /\ held \in [Processes -> BOOLEAN]
    /\ beat \in [Processes -> {"off", "asleep", "due"}]
    /\ since \in [Processes -> Nat]
    /\ late \in [Processes -> BOOLEAN]
    /\ seen \in [Processes -> Nat]
    /\ waited \in [Processes -> Nat]
    /\ under \in {"lock", "nothing"}
    /\ made \in Nat /\ joins \in Nat /\ events \in Nat

(* What the lock is for, "the mechanism may only reduce duplicate compute":*)
(* a holder whose lock is still at the path is not about to delete or to   *)
(* compute again what an earlier such holder has committed and is fresh,   *)
(* whoever else timed out, crashed, broke locks or computed without one.   *)
LawfulWorkIsNotUndone ==
    \A p \in Processes :
        (pc[p] \in {"delete", "compute"} /\ held[p] /\ Owns(p)) => ~ (stored = "fresh" /\ under = "lock")

(* README: "a healthy holder is never preempted", up to the windows that   *)
(* interprocess.py names: a process that keeps up loses its lock only to a *)
(* sweep, to a clock that is ahead, or to a process that had checked an    *)
(* earlier file before it unlinks this one (a breaker its age, a releaser  *)
(* its token, an acquirer that could not write into what it had created).  *)
HealthyHolderIsPreemptedLate ==
    [][\A p \in Processes :
        (Owns(p) /\ ~ late[p] /\ file' = NoFile)
            => \/ events' > events
               \/ pc[p] \in {"release unlink", "cleanup"} /\ pc'[p] # pc[p]
               \/ \E q \in Processes \ {p} :
                    /\ pc[q] \in {"unlink", "release unlink", "cleanup"} /\ pc'[q] # pc[q]
                    /\ Ahead[q] > 0 \/ seen[q] \notin {0, file.id}]_vars

(* "nothing can hang": a flight ends, whichever system calls keep failing, *)
(* with its value served or computed, or raising.                          *)
EveryFlightEnds == \A p \in Processes : pc[p] # "idle" ~> pc[p] = "idle"
=============================================================================
