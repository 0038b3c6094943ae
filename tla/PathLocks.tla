----------------------------- MODULE PathLocks -----------------------------
(***************************************************************************)
(* Path locks of impl tasks and the liveness locks that decide who still   *)
(* owns them.                                                              *)
(*                                                                         *)
(* A submit acquires path locks under a file mutex: it lists the persisted *)
(* locks, probes the task.lock of each owner with a non-blocking flock,    *)
(* deletes the locks of dead owners, and saves its own lock unless it      *)
(* conflicts with a survivor.  Everything else happens without that mutex: *)
(* releases, launches (task.lock is created, then flocked), deaths, probes *)
(* by the stall scan, and crashes of the daemon.  Each action below is one *)
(* file operation of the acquisition or one operation of another actor.    *)
(***************************************************************************)
EXTENDS Naturals, FiniteSets

CONSTANTS
    Tasks,      \* impl tasks
    Paths,      \* normalized paths
    NoTask,
    MaxBoots    \* bound: crashes of the daemon

ASSUME PathLocksAssumption ==
    /\ NoTask \notin Tasks
    /\ MaxBoots \in Nat

VARIABLES
    stage,     \* what has become of each task, see Stages
    req,       \* the paths its submit asked for
    recorded,  \* task.json: none, launching (queued or starting), other
    flock,     \* task.lock: absent, free, or held by the child or by a probe
    owned,     \* path-locks/<task>.json: its paths, {} when there is no file
    mutex,     \* holder of the acquisition mutex
    acq,       \* local variables of AcquirePathLockUseCase.Execute
    observed,  \* task whose task.lock another observer is probing
    guarded,   \* history: child and path lock held since mutex was taken
    settled,   \* history: over and not held when mutex was taken
    contended, \* history: found held by the observer's probe
    robbed,    \* history: path lock deleted as stale before the task was over
    boots

vars == <<stage, req, recorded, flock, owned, mutex, acq, observed, guarded,
          settled, contended, robbed, boots>>

taskVars == <<stage, req, recorded, flock>>

history == <<guarded, settled, contended, robbed>>

\* awaiting: accepted, queued or about to be launched, no task.json yet.
\* starting: task.json says starting; opened: task.lock created, not flocked.
\* abandoned: over, but the resumed child survived its SIGKILL.
\* cancelled, failing, dead: to be finalized; closing: finalized, the path
\* lock is about to be released.
Stages == {"new", "acquiring", "awaiting", "cancelled", "starting", "opened",
           "failing", "running", "dead", "resumed", "abandoned", "closing",
           "over"}

\* The state of an acquisition: where it is, the locks it has still to look at,
\* the one whose probe is in progress, and its verdicts so far.
Local(pc, todo, cur, alive, stale) ==
    [pc |-> pc, todo |-> todo, cur |-> cur, alive |-> alive, stale |-> stale]

Idle == Local("idle", {}, NoTask, {}, {})

LocalStates == [pc : {"idle", "list", "read", "probe", "drop", "load"},
                todo : SUBSET Tasks, cur : Tasks \cup {NoTask},
                alive : SUBSET Tasks, stale : SUBSET Tasks]

Locked == {u \in Tasks : owned[u] # {}}

Init ==
    /\ stage = [t \in Tasks |-> "new"]
    /\ req = [t \in Tasks |-> {}]
    /\ recorded = [t \in Tasks |-> "none"]
    /\ flock = [t \in Tasks |-> "absent"]
    /\ owned = [t \in Tasks |-> {}]
    /\ mutex = NoTask
    /\ acq = [t \in Tasks |-> Idle]
    /\ observed = NoTask
    /\ guarded = {} /\ settled = {} /\ contended = {} /\ robbed = {}
    /\ boots = 0

-----------------------------------------------------------------------------
(* AcquirePathLockUseCase.Execute                                          *)

Submit(t) ==
    /\ stage[t] = "new"
    /\ stage' = [stage EXCEPT ![t] = "acquiring"]
    /\ \E R \in SUBSET Paths : req' = [req EXCEPT ![t] = R]
    /\ UNCHANGED <<recorded, flock, owned, mutex, acq, observed, history, boots>>

LockWithoutWaiting(t) ==
    /\ stage[t] = "acquiring" /\ acq[t].pc = "idle"
    /\ mutex' = t
    /\ acq' = [acq EXCEPT ![t] = Local("list", {}, NoTask, {}, {})]
    /\ guarded' = {u \in Tasks : flock[u] = "child" /\ owned[u] # {}}
    /\ settled' = {u \in Tasks : stage[u] = "over" /\ flock[u] # "child"}
    /\ contended' = {}
    /\ UNCHANGED <<taskVars, owned, observed, robbed, boots>>

Lock(t) ==
    /\ stage[t] = "acquiring" /\ acq[t].pc = "idle"
    /\ mutex = NoTask
    /\ mutex' = t
    /\ acq' = [acq EXCEPT ![t] = Local("list", {}, NoTask, {}, {})]
    /\ guarded' = {u \in Tasks : flock[u] = "child" /\ owned[u] # {}}
    /\ settled' = {u \in Tasks : stage[u] = "over" /\ flock[u] # "child"}
    /\ contended' = {}
    /\ UNCHANGED <<taskVars, owned, observed, robbed, boots>>

\* store.List: the directory is read first, then each file.
ReadDir(t) ==
    /\ acq[t].pc = "list"
    /\ acq' = [acq EXCEPT ![t] = Local("read", Locked, NoTask, {}, {})]
    /\ UNCHANGED <<taskVars, owned, mutex, observed, history, boots>>

ListFailsLocked(t) ==
    /\ acq[t].pc = "read"
    /\ \E u \in acq[t].todo : owned[u] = {}
    /\ acq' = [acq EXCEPT ![t] = Idle]
    /\ stage' = [stage EXCEPT ![t] = "over"]
    /\ UNCHANGED <<req, recorded, flock, owned, mutex, observed, history, boots>>

\* A file that was released since cannot be read: the submit fails.
ListFails(t) ==
    /\ acq[t].pc = "read"
    /\ \E u \in acq[t].todo : owned[u] = {}
    /\ mutex' = NoTask
    /\ acq' = [acq EXCEPT ![t] = Idle]
    /\ stage' = [stage EXCEPT ![t] = "over"]
    /\ UNCHANGED <<req, recorded, flock, owned, observed, history, boots>>

ReadFiles(t) ==
    /\ acq[t].pc = "read"
    /\ acq[t].todo \subseteq Locked
    /\ acq' = [acq EXCEPT ![t] = Local("probe", @.todo, NoTask, {}, {})]
    /\ UNCHANGED <<taskVars, owned, mutex, observed, history, boots>>

\* Any other error on the way: a corrupt or unreadable file, a probe, a delete
\* or the save that fails.  Stale locks deleted so far stay deleted.
AcquireFails(t) ==
    /\ acq[t].pc \in {"list", "read", "probe", "load"}
    /\ mutex' = NoTask
    /\ acq' = [acq EXCEPT ![t] = Idle]
    /\ stage' = [stage EXCEPT ![t] = "over"]
    /\ UNCHANGED <<req, recorded, flock, owned, observed, history, boots>>

HeldTakenForDead(t, u) ==
    /\ flock[u] \in {"child", "probe"}
    /\ acq' = [acq EXCEPT ![t] =
          Local("probe", @.todo \ {u}, NoTask, @.alive, @.stale \cup {u})]
    /\ contended' = IF flock[u] = "probe" THEN contended \cup {u} ELSE contended
    /\ UNCHANGED flock

\* TryAcquireLiveness: EWOULDBLOCK, the owner counts as alive.
ProbeHeld(t, u) ==
    /\ flock[u] \in {"child", "probe"}
    /\ acq' = [acq EXCEPT ![t] =
          Local("probe", @.todo \ {u}, NoTask, @.alive \cup {u}, @.stale)]
    /\ contended' = IF flock[u] = "probe" THEN contended \cup {u} ELSE contended
    /\ UNCHANGED flock

\* The flock is taken, and dropped by the next step.
ProbeFree(t, u) ==
    /\ flock[u] = "free"
    /\ flock' = [flock EXCEPT ![u] = "probe"]
    /\ acq' = [acq EXCEPT ![t] = Local("drop", @.todo, u, @.alive, @.stale)]
    /\ UNCHANGED contended

\* fs.ErrNotExist: task.json decides in the next step.
ProbeMissing(t, u) ==
    /\ flock[u] = "absent"
    /\ acq' = [acq EXCEPT ![t] = Local("load", @.todo, u, @.alive, @.stale)]
    /\ UNCHANGED <<flock, contended>>

Probe(t, u) ==
    /\ acq[t].pc = "probe" /\ u \in acq[t].todo
    /\ ProbeHeld(t, u) \/ ProbeFree(t, u) \/ ProbeMissing(t, u)
    /\ UNCHANGED <<stage, req, recorded, owned, mutex, observed, guarded,
                   settled, robbed, boots>>

DropKeepingCurrent(t) ==
    LET u == acq[t].cur
    IN  /\ acq[t].pc = "drop"
        /\ flock' = [flock EXCEPT ![u] = "free"]
        /\ acq' = [acq EXCEPT ![t] =
              Local("probe", @.todo \ {u}, u, @.alive, @.stale \cup {u})]
        /\ UNCHANGED <<stage, req, recorded, owned, mutex, observed, history,
                       boots>>

DropProbe(t) ==
    LET u == acq[t].cur
    IN  /\ acq[t].pc = "drop"
        /\ flock' = [flock EXCEPT ![u] = "free"]
        /\ acq' = [acq EXCEPT ![t] =
              Local("probe", @.todo \ {u}, NoTask, @.alive, @.stale \cup {u})]
        /\ UNCHANGED <<stage, req, recorded, owned, mutex, observed, history,
                       boots>>

MissingIsAlive(u) == recorded[u] # "none"

\* Case 2 of the code keeps the lock of a queued or starting task, cases 1
\* (no task.json) and 3 (any other state) make it stale.
AwaitsLaunch(u) == recorded[u] = "launching"

LoadState(t) ==
    LET u == acq[t].cur
    IN  /\ acq[t].pc = "load"
        /\ acq' = [acq EXCEPT ![t] =
              IF AwaitsLaunch(u)
              THEN Local("probe", @.todo \ {u}, NoTask, @.alive \cup {u}, @.stale)
              ELSE Local("probe", @.todo \ {u}, NoTask, @.alive, @.stale \cup {u})]
        /\ UNCHANGED <<taskVars, owned, mutex, observed, history, boots>>

Over(u) == stage[u] \in {"closing", "over"}

DeleteStale(t, u) ==
    /\ acq[t].pc = "probe" /\ acq[t].todo = {} /\ u \in acq[t].stale
    /\ owned' = [owned EXCEPT ![u] = {}]
    /\ acq' = [acq EXCEPT ![t] =
          Local("probe", {}, NoTask, @.alive, @.stale \ {u})]
    /\ robbed' = IF Over(u) \/ owned[u] = {} THEN robbed ELSE robbed \cup {u}
    /\ UNCHANGED <<taskVars, mutex, observed, guarded, settled, contended, boots>>

\* domain.Acquire against the survivors as they were listed.
Conflicts(t) == \E u \in acq[t].alive : req[u] \cap req[t] # {}

\* Save, or PATH_LOCK_CONFLICT; nothing is saved for an empty request.
Decide(t) ==
    /\ acq[t].pc = "probe" /\ acq[t].todo = {} /\ acq[t].stale = {}
    /\ stage' = [stage EXCEPT ![t] = IF Conflicts(t) THEN "over" ELSE "awaiting"]
    /\ owned' = IF Conflicts(t) THEN owned ELSE [owned EXCEPT ![t] = req[t]]
    /\ acq' = [acq EXCEPT ![t] = Idle]
    /\ mutex' = NoTask
    /\ UNCHANGED <<req, recorded, flock, observed, history, boots>>

-----------------------------------------------------------------------------
(* The life of an accepted task.                                           *)

Move(t, from, to) ==
    /\ stage[t] \in from
    /\ stage' = [stage EXCEPT ![t] = to]

ReleasedButAdmitted(t) ==
    /\ Move(t, {"awaiting"}, "awaiting")
    /\ owned' = [owned EXCEPT ![t] = {}]
    /\ UNCHANGED <<req, recorded, flock, mutex, acq, observed, history, boots>>

\* Admission refuses the task, or the start gate does: submit releases.
AdmissionRefused(t) ==
    /\ Move(t, {"awaiting"}, "over")
    /\ owned' = [owned EXCEPT ![t] = {}]
    /\ UNCHANGED <<req, recorded, flock, mutex, acq, observed, history, boots>>

CancelQueued(t) ==
    /\ Move(t, {"awaiting"}, "cancelled")
    /\ recorded' = [recorded EXCEPT ![t] = "other"]
    /\ UNCHANGED <<req, flock, owned, mutex, acq, observed, history, boots>>

RecordStarting(t) ==
    /\ Move(t, {"awaiting"}, "starting")
    /\ recorded' = [recorded EXCEPT ![t] = "launching"]
    /\ UNCHANGED <<req, flock, owned, mutex, acq, observed, history, boots>>

\* AcquireForChild, first half: O_CREATE|O_EXCL.
OpenTaskLock(t) ==
    /\ Move(t, {"starting"}, "opened")
    /\ flock' = [flock EXCEPT ![t] = "free"]
    /\ UNCHANGED <<req, recorded, owned, mutex, acq, observed, history, boots>>

\* Second half: LOCK_EX|LOCK_NB, which the child inherits.
FlockForChild(t) ==
    /\ flock[t] = "free"
    /\ Move(t, {"opened"}, "running")
    /\ flock' = [flock EXCEPT ![t] = "child"]
    /\ UNCHANGED <<req, recorded, owned, mutex, acq, observed, history, boots>>

\* The launch fails before task.lock is created, or because a probe holds it.
LaunchFails(t) ==
    /\ stage[t] = "opened" => flock[t] = "probe"
    /\ Move(t, {"starting", "opened"}, "failing")
    /\ UNCHANGED <<req, recorded, flock, owned, mutex, acq, observed, history,
                   boots>>

\* A failed launch after the flock included.
ChildDies(t) ==
    /\ Move(t, {"running"}, "dead")
    /\ flock' = [flock EXCEPT ![t] = "free"]
    /\ guarded' = guarded \ {t}
    /\ UNCHANGED <<req, recorded, owned, mutex, acq, observed, settled,
                   contended, robbed, boots>>

\* An orphaned task is resumed: AcquireExistingForChild, which retries while a
\* probe holds the lock.
Resume(t) ==
    /\ flock[t] = "free"
    /\ Move(t, {"dead"}, "resumed")
    /\ flock' = [flock EXCEPT ![t] = "child"]
    /\ recorded' = [recorded EXCEPT ![t] = "other"]
    /\ UNCHANGED <<req, owned, mutex, acq, observed, history, boots>>

\* No session to resume, or task.lock stays contended: the task is lost.
ResumeFails(t) ==
    /\ Move(t, {"dead"}, "over")
    /\ recorded' = [recorded EXCEPT ![t] = "other"]
    /\ UNCHANGED <<req, flock, owned, mutex, acq, observed, history, boots>>

\* RecoverViaResume ends the task and leaves its path lock to be found stale.
ResumeEnds(t) ==
    /\ Move(t, {"resumed"}, "over")
    /\ flock' = [flock EXCEPT ![t] = "free"]
    /\ guarded' = guarded \ {t}
    /\ UNCHANGED <<req, recorded, owned, mutex, acq, observed, settled,
                   contended, robbed, boots>>

\* Shutdown interrupts the wait and the child is not seen to exit.
ResumeAbandoned(t) ==
    /\ Move(t, {"resumed"}, "abandoned")
    /\ UNCHANGED <<req, recorded, flock, owned, mutex, acq, observed, history,
                   boots>>

AbandonedDies(t) ==
    /\ Move(t, {"abandoned"}, "over")
    /\ flock' = [flock EXCEPT ![t] = "free"]
    /\ guarded' = guarded \ {t}
    /\ UNCHANGED <<req, recorded, owned, mutex, acq, observed, settled,
                   contended, robbed, boots>>

\* Finalization, a confirmed kill, a confirmed timeout, a failed launch: the
\* terminal state is written first, the path lock released after it.
Finalize(t) ==
    /\ Move(t, {"dead", "failing", "cancelled"}, "closing")
    /\ recorded' = [recorded EXCEPT ![t] = "other"]
    /\ UNCHANGED <<req, flock, owned, mutex, acq, observed, history, boots>>

\* ReleasePathLockUseCase.Execute, without the mutex.
Release(t) ==
    /\ Move(t, {"closing"}, "over")
    /\ owned' = [owned EXCEPT ![t] = {}]
    /\ UNCHANGED <<req, recorded, flock, mutex, acq, observed, history, boots>>

\* Another TryAcquireLiveness: stall scan, timeout, cancel, reconciler.
ObserverTakes(t) ==
    /\ observed = NoTask /\ flock[t] = "free"
    /\ observed' = t
    /\ flock' = [flock EXCEPT ![t] = "probe"]
    /\ UNCHANGED <<stage, req, recorded, owned, mutex, acq, history, boots>>

ObserverDrops ==
    /\ observed # NoTask
    /\ observed' = NoTask
    /\ flock' = [flock EXCEPT ![observed] = "free"]
    /\ UNCHANGED <<stage, req, recorded, owned, mutex, acq, history, boots>>

\* The daemon dies and is started again.  The kernel drops its flocks, the
\* queue and the requests in progress are gone, children S live on, and
\* adoption takes over whatever task.json says is not terminal.
Restart ==
    /\ boots < MaxBoots
    /\ boots' = boots + 1
    /\ mutex' = NoTask /\ observed' = NoTask
    /\ acq' = [t \in Tasks |-> Idle]
    /\ \E S \in SUBSET {t \in Tasks : flock[t] = "child"} :
         /\ flock' = [t \in Tasks |-> IF flock[t] \in {"absent", "free"} \/ t \in S
                                        THEN flock[t] ELSE "free"]
         /\ stage' = [t \in Tasks |->
              CASE stage[t] \in {"new", "cancelled", "failing", "dead", "over"} -> stage[t]
                [] stage[t] \in {"acquiring", "awaiting", "closing"} -> "over"
                [] stage[t] = "starting" -> "failing"
                [] stage[t] = "opened" -> "dead"
                [] stage[t] \in {"running", "resumed"} ->
                     IF t \in S THEN stage[t] ELSE "dead"
                [] stage[t] = "abandoned" -> IF t \in S THEN stage[t] ELSE "over"]
    /\ guarded' = {} /\ settled' = {} /\ contended' = {}
    /\ UNCHANGED <<req, recorded, owned, robbed>>

-----------------------------------------------------------------------------
Acquire(t) ==
    \/ Lock(t) \/ ReadDir(t) \/ ListFails(t) \/ AcquireFails(t) \/ ReadFiles(t)
    \/ DropProbe(t) \/ LoadState(t) \/ Decide(t)
    \/ \E u \in Tasks : Probe(t, u) \/ DeleteStale(t, u)

Live(t) ==
    \/ AdmissionRefused(t) \/ CancelQueued(t) \/ RecordStarting(t)
    \/ OpenTaskLock(t) \/ FlockForChild(t) \/ LaunchFails(t) \/ ChildDies(t)
    \/ Resume(t) \/ ResumeFails(t) \/ ResumeEnds(t)
    \/ ResumeAbandoned(t) \/ AbandonedDies(t) \/ Finalize(t) \/ Release(t)

Next ==
    \/ \E t \in Tasks : Submit(t) \/ Acquire(t) \/ Live(t) \/ ObserverTakes(t)
    \/ ObserverDrops
    \/ Restart

Spec == Init /\ [][Next]_vars

\* Go schedules the goroutine that holds the mutex, and the one it wakes.
FairSpec == Spec /\ \A t \in Tasks : WF_vars(Acquire(t))

-----------------------------------------------------------------------------
(* Properties.                                                             *)

\* Every variable has its type: at most one holder of the mutex is known, the
\* local variables of an acquisition are sets of tasks, and a task that is
\* being probed is one of the tasks.
TypeOK ==
    /\ stage \in [Tasks -> Stages]
    /\ req \in [Tasks -> SUBSET Paths]
    /\ recorded \in [Tasks -> {"none", "launching", "other"}]
    /\ flock \in [Tasks -> {"absent", "free", "child", "probe"}]
    /\ owned \in [Tasks -> SUBSET Paths]
    /\ mutex \in Tasks \cup {NoTask}
    /\ acq \in [Tasks -> LocalStates]
    /\ \A t \in Tasks : acq[t].pc \in {"drop", "load"} <=> acq[t].cur # NoTask
    /\ observed \in Tasks \cup {NoTask}
    /\ guarded \subseteq Tasks /\ settled \subseteq Tasks
    /\ contended \subseteq Tasks /\ robbed \subseteq Tasks
    /\ boots \in 0..MaxBoots

\* The persisted path locks never overlap: whatever releases, launches, deaths
\* and crashes fall between the listing and the save of an acquisition, two
\* files under path-locks/ never claim the same path.
LocksDisjoint ==
    \A t, u \in Tasks : t # u => owned[t] \cap owned[u] = {}

\* A task whose child has held task.lock ever since an acquisition took the
\* mutex keeps its path lock through that acquisition: the clean-up of stale
\* locks never takes one from a task that is running.
HeldLockSurvives ==
    mutex # NoTask => \A u \in guarded : owned[u] = req[u]

\* The lock of a task that was over before an acquisition began never makes
\* that acquisition report a conflict, unless its probe met another probe of
\* the same task.lock (which is indistinguishable from a living child).
StaleNeverBlocks ==
    \A t \in Tasks : mutex = t => acq[t].alive \cap settled \subseteq contended

\* Two children never run on the same path unless one of the two tasks had its
\* path lock deleted as stale before it was over.  Releases alone, which
\* happen outside the mutex, never let a second child in.
Exclusion ==
    \A t, u \in Tasks :
        /\ t # u
        /\ flock[t] = "child" /\ flock[u] = "child"
        /\ req[t] \cap req[u] # {}
        => t \in robbed \/ u \in robbed

\* A task that waits for its launch, in the queue or in the starting state,
\* still has the path lock that its submit acquired.
AwaitingKeepsLock ==
    \A t \in Tasks : stage[t] \in {"awaiting", "starting"} => owned[t] = req[t]

\* Every acquisition comes to an end: no early return of Execute keeps the
\* mutex from the submits that wait for it.
AcquisitionEnds ==
    \A t \in Tasks : stage[t] = "acquiring" ~> stage[t] # "acquiring"
=============================================================================
