-------------------------- MODULE PathLocksProofs --------------------------
(* The safety properties of PathLocks for every set of tasks and paths.    *)
EXTENDS PathLocks, TLAPS

\* The local state that an action builds is one.
LEMMA LocalBuilt ==
    ASSUME NEW pc \in {"idle", "list", "read", "probe", "drop", "load"},
           NEW todo \in SUBSET Tasks, NEW cur \in Tasks \cup {NoTask},
           NEW alive \in SUBSET Tasks, NEW stale \in SUBSET Tasks
    PROVE  /\ Local(pc, todo, cur, alive, stale) \in LocalStates
           /\ Local(pc, todo, cur, alive, stale).pc = pc
           /\ Local(pc, todo, cur, alive, stale).todo = todo
           /\ Local(pc, todo, cur, alive, stale).cur = cur
           /\ Local(pc, todo, cur, alive, stale).alive = alive
           /\ Local(pc, todo, cur, alive, stale).stale = stale
  BY DEF Local, LocalStates

\* The fields of a local state have their types.
LEMMA LocalFields ==
    ASSUME NEW r \in LocalStates
    PROVE  /\ r.pc \in {"idle", "list", "read", "probe", "drop", "load"}
           /\ r.todo \in SUBSET Tasks /\ r.cur \in Tasks \cup {NoTask}
           /\ r.alive \in SUBSET Tasks /\ r.stale \in SUBSET Tasks
  BY DEF LocalStates

\* Every step keeps every variable in its type.
LEMMA TypeStep == TypeOK /\ [Next]_vars => TypeOK'
  <1> SUFFICES ASSUME TypeOK, [Next]_vars PROVE TypeOK'
    OBVIOUS
  <1> USE PathLocksAssumption
  <1>1. ASSUME NEW t \in Tasks, Submit(t)
        PROVE  TypeOK'
    BY <1>1 DEF Submit, TypeOK, Stages, Idle,
       taskVars, history
  <1>2. ASSUME NEW t \in Tasks, Lock(t)
        PROVE  TypeOK'
    BY <1>2, LocalBuilt, LocalFields DEF Lock, TypeOK, Stages, Idle,
       taskVars, history
  <1>3. ASSUME NEW t \in Tasks, ReadDir(t)
        PROVE  TypeOK'
    <2>1. Locked \in SUBSET Tasks
      BY DEF Locked
    <2> QED
      BY <1>3, <2>1, LocalBuilt, LocalFields DEF ReadDir, TypeOK, taskVars, history
  <1>4. ASSUME NEW t \in Tasks, ListFails(t)
        PROVE  TypeOK'
    BY <1>4, LocalBuilt, LocalFields DEF ListFails, TypeOK, Stages, Idle,
       taskVars, history
  <1>5. ASSUME NEW t \in Tasks, AcquireFails(t)
        PROVE  TypeOK'
    BY <1>5, LocalBuilt, LocalFields DEF AcquireFails, TypeOK, Stages,
       Idle, taskVars, history
  <1>6. ASSUME NEW t \in Tasks, ReadFiles(t)
        PROVE  TypeOK'
    BY <1>6, LocalBuilt, LocalFields DEF ReadFiles, Locked, TypeOK,
       Stages, Idle, taskVars, history
  <1>7. ASSUME NEW t \in Tasks, NEW u \in Tasks, Probe(t, u)
        PROVE  TypeOK'
    <2>1. CASE ProbeHeld(t, u)
      BY SMTT(60), <1>7, <2>1, LocalBuilt, LocalFields DEF Probe, ProbeHeld, TypeOK, history
    <2>2. CASE ProbeFree(t, u)
      BY SMTT(60), <1>7, <2>2, LocalBuilt, LocalFields DEF Probe, ProbeFree, TypeOK, history
    <2>3. CASE ProbeMissing(t, u)
      BY SMTT(60), <1>7, <2>3, LocalBuilt, LocalFields DEF Probe, ProbeMissing, TypeOK, history
    <2> QED
      BY <1>7, <2>1, <2>2, <2>3 DEF Probe
  <1>8. ASSUME NEW t \in Tasks, DropProbe(t)
        PROVE  TypeOK'
    <2>1. acq[t] \in LocalStates /\ acq[t].cur \in Tasks
      BY <1>8, LocalFields DEF DropProbe, TypeOK
    <2>2. flock' \in [Tasks -> {"absent", "free", "child", "probe"}]
      BY <1>8, <2>1 DEF DropProbe, TypeOK
    <2> QED
      BY <1>8, <2>1, <2>2, LocalBuilt, LocalFields DEF DropProbe, TypeOK, history
  <1>9. ASSUME NEW t \in Tasks, LoadState(t)
        PROVE  TypeOK'
    BY <1>9, LocalBuilt, LocalFields DEF LoadState, AwaitsLaunch, TypeOK,
       Stages, Idle, taskVars, history
  <1>10. ASSUME NEW t \in Tasks, NEW u \in Tasks, DeleteStale(t, u)
        PROVE  TypeOK'
    BY <1>10, LocalBuilt, LocalFields DEF DeleteStale, Over, TypeOK,
       Stages, Idle, taskVars, history
  <1>11. ASSUME NEW t \in Tasks, Decide(t)
        PROVE  TypeOK'
    BY <1>11, LocalBuilt, LocalFields DEF Decide, Conflicts, TypeOK,
       Stages, Idle, taskVars, history
  <1>12. ASSUME NEW t \in Tasks, AdmissionRefused(t)
        PROVE  TypeOK'
    BY <1>12 DEF AdmissionRefused, Move, TypeOK,
       Stages, Idle, taskVars, history
  <1>13. ASSUME NEW t \in Tasks, CancelQueued(t)
        PROVE  TypeOK'
    BY <1>13 DEF CancelQueued, Move, TypeOK,
       Stages, Idle, taskVars, history
  <1>14. ASSUME NEW t \in Tasks, RecordStarting(t)
        PROVE  TypeOK'
    BY <1>14 DEF RecordStarting, Move, TypeOK,
       Stages, Idle, taskVars, history
  <1>15. ASSUME NEW t \in Tasks, OpenTaskLock(t)
        PROVE  TypeOK'
    BY <1>15 DEF OpenTaskLock, Move, TypeOK,
       Stages, Idle, taskVars, history
  <1>16. ASSUME NEW t \in Tasks, FlockForChild(t)
        PROVE  TypeOK'
    BY <1>16 DEF FlockForChild, Move, TypeOK,
       Stages, Idle, taskVars, history
  <1>17. ASSUME NEW t \in Tasks, LaunchFails(t)
        PROVE  TypeOK'
    BY <1>17 DEF LaunchFails, Move, TypeOK,
       Stages, Idle, taskVars, history
  <1>18. ASSUME NEW t \in Tasks, ChildDies(t)
        PROVE  TypeOK'
    BY <1>18 DEF ChildDies, Move, TypeOK, Stages,
       Idle, taskVars, history
  <1>19. ASSUME NEW t \in Tasks, Resume(t)
        PROVE  TypeOK'
    BY <1>19 DEF Resume, Move, TypeOK, Stages,
       Idle, taskVars, history
  <1>20. ASSUME NEW t \in Tasks, ResumeFails(t)
        PROVE  TypeOK'
    BY <1>20 DEF ResumeFails, Move, TypeOK,
       Stages, Idle, taskVars, history
  <1>21. ASSUME NEW t \in Tasks, ResumeEnds(t)
        PROVE  TypeOK'
    BY <1>21 DEF ResumeEnds, Move, TypeOK,
       Stages, Idle, taskVars, history
  <1>22. ASSUME NEW t \in Tasks, ResumeAbandoned(t)
        PROVE  TypeOK'
    BY <1>22 DEF ResumeAbandoned, Move, TypeOK,
       Stages, Idle, taskVars, history
  <1>23. ASSUME NEW t \in Tasks, AbandonedDies(t)
        PROVE  TypeOK'
    BY <1>23 DEF AbandonedDies, Move, TypeOK,
       Stages, Idle, taskVars, history
  <1>24. ASSUME NEW t \in Tasks, Finalize(t)
        PROVE  TypeOK'
    BY <1>24 DEF Finalize, Move, TypeOK, Stages,
       Idle, taskVars, history
  <1>25. ASSUME NEW t \in Tasks, Release(t)
        PROVE  TypeOK'
    BY <1>25 DEF Release, Move, TypeOK, Stages,
       Idle, taskVars, history
  <1>26. ASSUME NEW t \in Tasks, ObserverTakes(t)
        PROVE  TypeOK'
    BY <1>26 DEF ObserverTakes, TypeOK, Stages,
       Idle, taskVars, history
  <1>27. ASSUME ObserverDrops
        PROVE  TypeOK'
    BY <1>27, LocalBuilt, LocalFields DEF ObserverDrops, TypeOK, Stages,
       Idle, taskVars, history
  <1>28. ASSUME Restart
        PROVE  TypeOK'
    BY <1>28, LocalBuilt, LocalFields DEF Restart, TypeOK, Stages, Idle,
       taskVars, history
  <1>29. CASE UNCHANGED vars
    BY <1>29, LocalBuilt, LocalFields DEF vars, TypeOK, Stages, Idle,
       taskVars, history
  <1> QED
    BY <1>1, <1>2, <1>3, <1>4, <1>5, <1>6, <1>7, <1>8, <1>9, <1>10, <1>11,
       <1>12, <1>13, <1>14, <1>15, <1>16, <1>17, <1>18, <1>19, <1>20, <1>21,
       <1>22, <1>23, <1>24, <1>25, <1>26, <1>27, <1>28, <1>29 DEF Next,
       Acquire, Live

\* Type correctness of the path-lock protocol.
THEOREM TypeCorrect == Spec => []TypeOK
  <1>1. Init => TypeOK
    BY PathLocksAssumption, LocalBuilt DEF Init, TypeOK, Stages, Idle
  <1> QED
    BY <1>1, TypeStep, PTL DEF Spec

-----------------------------------------------------------------------------
(* The persisted locks are disjoint.                                       *)

\* An acquisition in progress holds the mutex, and its task waits for it.
MutexSound ==
    \A t \in Tasks :
        /\ acq[t].pc = "idle" => acq[t] = Idle
        /\ acq[t].pc # "idle" => mutex = t /\ stage[t] = "acquiring"

\* Once the directory has been read, every lock that exists is one that the
\* acquisition has still to look at or has a verdict on.
LocksCovered ==
    \A t \in Tasks :
        /\ acq[t].pc = "read" => Locked \subseteq acq[t].todo
        /\ acq[t].pc \in {"probe", "drop", "load"} =>
             Locked \subseteq acq[t].todo \cup acq[t].alive \cup acq[t].stale

\* A lock file holds the paths its task asked for, and exists only after the
\* acquisition of that task.
OwnedSound ==
    \A t \in Tasks :
        /\ owned[t] = {} \/ owned[t] = req[t]
        /\ stage[t] \in {"new", "acquiring"} => owned[t] = {}

\* The mutex serialises the acquisitions.
LEMMA MutexStep == TypeOK /\ MutexSound /\ [Next]_vars => MutexSound'
  <1> SUFFICES ASSUME TypeOK, MutexSound, [Next]_vars PROVE MutexSound'
    OBVIOUS
  <1> USE PathLocksAssumption
  <1>1. ASSUME NEW t \in Tasks, Submit(t)
        PROVE  MutexSound'
    BY <1>1 DEF Submit, MutexSound, TypeOK, Idle,
       taskVars, history
  <1>2. ASSUME NEW t \in Tasks, Lock(t)
        PROVE  MutexSound'
    BY <1>2, LocalBuilt, LocalFields DEF Lock, MutexSound, TypeOK, Idle,
       taskVars, history
  <1>3. ASSUME NEW t \in Tasks, ReadDir(t)
        PROVE  MutexSound'
    <2>1. Locked \in SUBSET Tasks
      BY DEF Locked
    <2> QED
      BY <1>3, <2>1, LocalBuilt DEF ReadDir, MutexSound, TypeOK, taskVars
  <1>4. ASSUME NEW t \in Tasks, ListFails(t)
        PROVE  MutexSound'
    BY <1>4, LocalBuilt, LocalFields DEF ListFails, MutexSound, TypeOK,
       Idle, taskVars, history
  <1>5. ASSUME NEW t \in Tasks, AcquireFails(t)
        PROVE  MutexSound'
    BY <1>5, LocalBuilt, LocalFields DEF AcquireFails, MutexSound, TypeOK,
       Idle, taskVars, history
  <1>6. ASSUME NEW t \in Tasks, ReadFiles(t)
        PROVE  MutexSound'
    BY <1>6, LocalBuilt, LocalFields DEF ReadFiles, Locked, MutexSound,
       TypeOK, Idle, taskVars, history
  <1>7. ASSUME NEW t \in Tasks, NEW u \in Tasks, Probe(t, u)
        PROVE  MutexSound'
    <2>1. CASE ProbeHeld(t, u)
      BY SMTT(60), <1>7, <2>1, LocalBuilt, LocalFields DEF Probe, ProbeHeld, MutexSound,
         TypeOK
    <2>2. CASE ProbeFree(t, u)
      BY SMTT(60), <1>7, <2>2, LocalBuilt, LocalFields DEF Probe, ProbeFree, MutexSound,
         TypeOK
    <2>3. CASE ProbeMissing(t, u)
      BY SMTT(60), <1>7, <2>3, LocalBuilt, LocalFields DEF Probe, ProbeMissing, MutexSound,
         TypeOK
    <2> QED
      BY <1>7, <2>1, <2>2, <2>3 DEF Probe
  <1>8. ASSUME NEW t \in Tasks, DropProbe(t)
        PROVE  MutexSound'
    BY <1>8, LocalBuilt, LocalFields DEF DropProbe, MutexSound, TypeOK,
       Idle, taskVars, history
  <1>9. ASSUME NEW t \in Tasks, LoadState(t)
        PROVE  MutexSound'
    BY <1>9, LocalBuilt, LocalFields DEF LoadState, AwaitsLaunch,
       MutexSound, TypeOK, Idle, taskVars, history
  <1>10. ASSUME NEW t \in Tasks, NEW u \in Tasks, DeleteStale(t, u)
        PROVE  MutexSound'
    BY <1>10, LocalBuilt, LocalFields DEF DeleteStale, Over, MutexSound,
       TypeOK, Idle, taskVars, history
  <1>11. ASSUME NEW t \in Tasks, Decide(t)
        PROVE  MutexSound'
    BY <1>11, LocalBuilt, LocalFields DEF Decide, Conflicts, MutexSound,
       TypeOK, Idle, taskVars, history
  <1>12. ASSUME NEW t \in Tasks, AdmissionRefused(t)
        PROVE  MutexSound'
    BY <1>12 DEF AdmissionRefused, Move,
       MutexSound, TypeOK, Idle, taskVars, history
  <1>13. ASSUME NEW t \in Tasks, CancelQueued(t)
        PROVE  MutexSound'
    BY <1>13 DEF CancelQueued, Move, MutexSound,
       TypeOK, Idle, taskVars, history
  <1>14. ASSUME NEW t \in Tasks, RecordStarting(t)
        PROVE  MutexSound'
    BY <1>14 DEF RecordStarting, Move,
       MutexSound, TypeOK, Idle, taskVars, history
  <1>15. ASSUME NEW t \in Tasks, OpenTaskLock(t)
        PROVE  MutexSound'
    BY <1>15 DEF OpenTaskLock, Move, MutexSound,
       TypeOK, Idle, taskVars, history
  <1>16. ASSUME NEW t \in Tasks, FlockForChild(t)
        PROVE  MutexSound'
    BY <1>16 DEF FlockForChild, Move, MutexSound,
       TypeOK, Idle, taskVars, history
  <1>17. ASSUME NEW t \in Tasks, LaunchFails(t)
        PROVE  MutexSound'
    BY <1>17 DEF LaunchFails, Move, MutexSound,
       TypeOK, Idle, taskVars, history
  <1>18. ASSUME NEW t \in Tasks, ChildDies(t)
        PROVE  MutexSound'
    BY <1>18 DEF ChildDies, Move, MutexSound,
       TypeOK, Idle, taskVars, history
  <1>19. ASSUME NEW t \in Tasks, Resume(t)
        PROVE  MutexSound'
    BY <1>19 DEF Resume, Move, MutexSound,
       TypeOK, Idle, taskVars, history
  <1>20. ASSUME NEW t \in Tasks, ResumeFails(t)
        PROVE  MutexSound'
    BY <1>20 DEF ResumeFails, Move, MutexSound,
       TypeOK, Idle, taskVars, history
  <1>21. ASSUME NEW t \in Tasks, ResumeEnds(t)
        PROVE  MutexSound'
    BY <1>21 DEF ResumeEnds, Move, MutexSound,
       TypeOK, Idle, taskVars, history
  <1>22. ASSUME NEW t \in Tasks, ResumeAbandoned(t)
        PROVE  MutexSound'
    BY <1>22 DEF ResumeAbandoned, Move,
       MutexSound, TypeOK, Idle, taskVars, history
  <1>23. ASSUME NEW t \in Tasks, AbandonedDies(t)
        PROVE  MutexSound'
    BY <1>23 DEF AbandonedDies, Move, MutexSound,
       TypeOK, Idle, taskVars, history
  <1>24. ASSUME NEW t \in Tasks, Finalize(t)
        PROVE  MutexSound'
    BY <1>24 DEF Finalize, Move, MutexSound,
       TypeOK, Idle, taskVars, history
  <1>25. ASSUME NEW t \in Tasks, Release(t)
        PROVE  MutexSound'
    BY <1>25 DEF Release, Move, MutexSound,
       TypeOK, Idle, taskVars, history
  <1>26. ASSUME NEW t \in Tasks, ObserverTakes(t)
        PROVE  MutexSound'
    BY <1>26 DEF ObserverTakes, MutexSound,
       TypeOK, Idle, taskVars, history
  <1>27. ASSUME ObserverDrops
        PROVE  MutexSound'
    BY <1>27, LocalBuilt, LocalFields DEF ObserverDrops, MutexSound,
       TypeOK, Idle, taskVars, history
  <1>28. ASSUME Restart
        PROVE  MutexSound'
    BY <1>28, LocalBuilt, LocalFields DEF Restart, MutexSound, TypeOK,
       Idle, taskVars, history
  <1>29. CASE UNCHANGED vars
    BY <1>29, LocalBuilt, LocalFields DEF vars, MutexSound, TypeOK, Idle,
       taskVars, history
  <1> QED
    BY <1>1, <1>2, <1>3, <1>4, <1>5, <1>6, <1>7, <1>8, <1>9, <1>10, <1>11,
       <1>12, <1>13, <1>14, <1>15, <1>16, <1>17, <1>18, <1>19, <1>20, <1>21,
       <1>22, <1>23, <1>24, <1>25, <1>26, <1>27, <1>28, <1>29 DEF Next,
       Acquire, Live

\* Only the holder of the mutex adds a lock, so none escapes its listing.
LEMMA CoveredStep ==
    TypeOK /\ MutexSound /\ LocksCovered /\ [Next]_vars => LocksCovered'
  <1> SUFFICES ASSUME TypeOK, MutexSound, LocksCovered, [Next]_vars
               PROVE  LocksCovered'
    OBVIOUS
  <1> USE PathLocksAssumption
  <1>1. ASSUME NEW t \in Tasks, Submit(t)
        PROVE  LocksCovered'
    BY <1>1 DEF Submit, LocksCovered, MutexSound,
       TypeOK, Idle, Locked, taskVars, history
  <1>2. ASSUME NEW t \in Tasks, Lock(t)
        PROVE  LocksCovered'
    BY <1>2, LocalBuilt, LocalFields DEF Lock, LocksCovered, MutexSound,
       TypeOK, Idle, Locked, taskVars, history
  <1>3. ASSUME NEW t \in Tasks, ReadDir(t)
        PROVE  LocksCovered'
    <2>1. Locked \in SUBSET Tasks
      BY DEF Locked
    <2>2. Locked' = Locked
      BY <1>3 DEF ReadDir, Locked
    <2> QED
      BY <1>3, <2>1, <2>2, LocalBuilt
         DEF ReadDir, LocksCovered, MutexSound, TypeOK, taskVars
  <1>4. ASSUME NEW t \in Tasks, ListFails(t)
        PROVE  LocksCovered'
    BY <1>4, LocalBuilt, LocalFields DEF ListFails, LocksCovered,
       MutexSound, TypeOK, Idle, Locked, taskVars, history
  <1>5. ASSUME NEW t \in Tasks, AcquireFails(t)
        PROVE  LocksCovered'
    BY <1>5, LocalBuilt, LocalFields DEF AcquireFails, LocksCovered,
       MutexSound, TypeOK, Idle, Locked, taskVars, history
  <1>6. ASSUME NEW t \in Tasks, ReadFiles(t)
        PROVE  LocksCovered'
    BY <1>6, LocalBuilt, LocalFields DEF ReadFiles, Locked, LocksCovered,
       MutexSound, TypeOK, Idle, taskVars, history
  <1>7. ASSUME NEW t \in Tasks, NEW u \in Tasks, Probe(t, u)
        PROVE  LocksCovered'
    <2>. Locked' = Locked
      BY <1>7 DEF Probe, Locked
    <2>1. CASE ProbeHeld(t, u)
      BY SMTT(60), <1>7, <2>1, LocalBuilt, LocalFields DEF Probe, ProbeHeld, LocksCovered,
         MutexSound, TypeOK
    <2>2. CASE ProbeFree(t, u)
      BY SMTT(60), <1>7, <2>2, LocalBuilt, LocalFields DEF Probe, ProbeFree, LocksCovered,
         MutexSound, TypeOK
    <2>3. CASE ProbeMissing(t, u)
      BY SMTT(60), <1>7, <2>3, LocalBuilt, LocalFields DEF Probe, ProbeMissing, LocksCovered,
         MutexSound, TypeOK
    <2> QED
      BY <1>7, <2>1, <2>2, <2>3 DEF Probe
  <1>8. ASSUME NEW t \in Tasks, DropProbe(t)
        PROVE  LocksCovered'
    BY <1>8, LocalBuilt, LocalFields DEF DropProbe, LocksCovered,
       MutexSound, TypeOK, Idle, Locked, taskVars, history
  <1>9. ASSUME NEW t \in Tasks, LoadState(t)
        PROVE  LocksCovered'
    BY <1>9, LocalBuilt, LocalFields DEF LoadState, AwaitsLaunch,
       LocksCovered, MutexSound, TypeOK, Idle, Locked, taskVars, history
  <1>10. ASSUME NEW t \in Tasks, NEW u \in Tasks, DeleteStale(t, u)
        PROVE  LocksCovered'
    BY <1>10, LocalBuilt, LocalFields DEF DeleteStale, Over, LocksCovered,
       MutexSound, TypeOK, Idle, Locked, taskVars, history
  <1>11. ASSUME NEW t \in Tasks, Decide(t)
        PROVE  LocksCovered'
    BY <1>11, LocalBuilt, LocalFields DEF Decide, Conflicts, LocksCovered,
       MutexSound, TypeOK, Idle, Locked, taskVars, history
  <1>12. ASSUME NEW t \in Tasks, AdmissionRefused(t)
        PROVE  LocksCovered'
    BY <1>12 DEF AdmissionRefused, Move,
       LocksCovered, MutexSound, TypeOK, Idle, Locked, taskVars, history
  <1>13. ASSUME NEW t \in Tasks, CancelQueued(t)
        PROVE  LocksCovered'
    BY <1>13 DEF CancelQueued, Move,
       LocksCovered, MutexSound, TypeOK, Idle, Locked, taskVars, history
  <1>14. ASSUME NEW t \in Tasks, RecordStarting(t)
        PROVE  LocksCovered'
    BY <1>14 DEF RecordStarting, Move,
       LocksCovered, MutexSound, TypeOK, Idle, Locked, taskVars, history
  <1>15. ASSUME NEW t \in Tasks, OpenTaskLock(t)
        PROVE  LocksCovered'
    BY <1>15 DEF OpenTaskLock, Move,
       LocksCovered, MutexSound, TypeOK, Idle, Locked, taskVars, history
  <1>16. ASSUME NEW t \in Tasks, FlockForChild(t)
        PROVE  LocksCovered'
    BY <1>16 DEF FlockForChild, Move,
       LocksCovered, MutexSound, TypeOK, Idle, Locked, taskVars, history
  <1>17. ASSUME NEW t \in Tasks, LaunchFails(t)
        PROVE  LocksCovered'
    BY <1>17 DEF LaunchFails, Move, LocksCovered,
       MutexSound, TypeOK, Idle, Locked, taskVars, history
  <1>18. ASSUME NEW t \in Tasks, ChildDies(t)
        PROVE  LocksCovered'
    BY <1>18 DEF ChildDies, Move, LocksCovered,
       MutexSound, TypeOK, Idle, Locked, taskVars, history
  <1>19. ASSUME NEW t \in Tasks, Resume(t)
        PROVE  LocksCovered'
    BY <1>19 DEF Resume, Move, LocksCovered,
       MutexSound, TypeOK, Idle, Locked, taskVars, history
  <1>20. ASSUME NEW t \in Tasks, ResumeFails(t)
        PROVE  LocksCovered'
    BY <1>20 DEF ResumeFails, Move, LocksCovered,
       MutexSound, TypeOK, Idle, Locked, taskVars, history
  <1>21. ASSUME NEW t \in Tasks, ResumeEnds(t)
        PROVE  LocksCovered'
    BY <1>21 DEF ResumeEnds, Move, LocksCovered,
       MutexSound, TypeOK, Idle, Locked, taskVars, history
  <1>22. ASSUME NEW t \in Tasks, ResumeAbandoned(t)
        PROVE  LocksCovered'
    BY <1>22 DEF ResumeAbandoned, Move,
       LocksCovered, MutexSound, TypeOK, Idle, Locked, taskVars, history
  <1>23. ASSUME NEW t \in Tasks, AbandonedDies(t)
        PROVE  LocksCovered'
    BY <1>23 DEF AbandonedDies, Move,
       LocksCovered, MutexSound, TypeOK, Idle, Locked, taskVars, history
  <1>24. ASSUME NEW t \in Tasks, Finalize(t)
        PROVE  LocksCovered'
    BY <1>24 DEF Finalize, Move, LocksCovered,
       MutexSound, TypeOK, Idle, Locked, taskVars, history
  <1>25. ASSUME NEW t \in Tasks, Release(t)
        PROVE  LocksCovered'
    BY <1>25 DEF Release, Move, LocksCovered,
       MutexSound, TypeOK, Idle, Locked, taskVars, history
  <1>26. ASSUME NEW t \in Tasks, ObserverTakes(t)
        PROVE  LocksCovered'
    BY <1>26 DEF ObserverTakes, LocksCovered,
       MutexSound, TypeOK, Idle, Locked, taskVars, history
  <1>27. ASSUME ObserverDrops
        PROVE  LocksCovered'
    BY <1>27, LocalBuilt, LocalFields DEF ObserverDrops, LocksCovered,
       MutexSound, TypeOK, Idle, Locked, taskVars, history
  <1>28. ASSUME Restart
        PROVE  LocksCovered'
    BY <1>28, LocalBuilt, LocalFields DEF Restart, LocksCovered,
       MutexSound, TypeOK, Idle, Locked, taskVars, history
  <1>29. CASE UNCHANGED vars
    BY <1>29, LocalBuilt, LocalFields DEF vars, LocksCovered, MutexSound,
       TypeOK, Idle, Locked, taskVars, history
  <1> QED
    BY <1>1, <1>2, <1>3, <1>4, <1>5, <1>6, <1>7, <1>8, <1>9, <1>10, <1>11,
       <1>12, <1>13, <1>14, <1>15, <1>16, <1>17, <1>18, <1>19, <1>20, <1>21,
       <1>22, <1>23, <1>24, <1>25, <1>26, <1>27, <1>28, <1>29 DEF Next,
       Acquire, Live

\* A lock is saved with the request of its task, and otherwise only deleted.
LEMMA OwnedStep ==
    TypeOK /\ MutexSound /\ OwnedSound /\ [Next]_vars => OwnedSound'
  <1> SUFFICES ASSUME TypeOK, MutexSound, OwnedSound, [Next]_vars
               PROVE  OwnedSound'
    OBVIOUS
  <1> USE PathLocksAssumption
  <1>1. ASSUME NEW t \in Tasks, Submit(t)
        PROVE  OwnedSound'
    BY <1>1 DEF Submit, OwnedSound, TypeOK, Stages, taskVars, history
  <1>2. ASSUME NEW t \in Tasks, Lock(t)
        PROVE  OwnedSound'
    BY <1>2 DEF Lock, OwnedSound, TypeOK, Stages, taskVars, history
  <1>3. ASSUME NEW t \in Tasks, ReadDir(t)
        PROVE  OwnedSound'
    BY <1>3 DEF ReadDir, Locked, OwnedSound, TypeOK, Stages, taskVars,
       history
  <1>4. ASSUME NEW t \in Tasks, ListFails(t)
        PROVE  OwnedSound'
    BY <1>4 DEF ListFails, OwnedSound, TypeOK, Stages, taskVars, history
  <1>5. ASSUME NEW t \in Tasks, AcquireFails(t)
        PROVE  OwnedSound'
    BY <1>5 DEF AcquireFails, OwnedSound, TypeOK, Stages, taskVars,
       history
  <1>6. ASSUME NEW t \in Tasks, ReadFiles(t)
        PROVE  OwnedSound'
    BY <1>6 DEF ReadFiles, Locked, OwnedSound, TypeOK, Stages, taskVars,
       history
  <1>7. ASSUME NEW t \in Tasks, NEW u \in Tasks, Probe(t, u)
        PROVE  OwnedSound'
    BY <1>7 DEF Probe, ProbeHeld, ProbeFree, ProbeMissing, OwnedSound,
       TypeOK, Stages, taskVars, history
  <1>8. ASSUME NEW t \in Tasks, DropProbe(t)
        PROVE  OwnedSound'
    BY <1>8 DEF DropProbe, OwnedSound, TypeOK, Stages, taskVars, history
  <1>9. ASSUME NEW t \in Tasks, LoadState(t)
        PROVE  OwnedSound'
    BY <1>9 DEF LoadState, AwaitsLaunch, OwnedSound, TypeOK, Stages,
       taskVars, history
  <1>10. ASSUME NEW t \in Tasks, NEW u \in Tasks, DeleteStale(t, u)
        PROVE  OwnedSound'
    BY <1>10 DEF DeleteStale, Over, OwnedSound, TypeOK, Stages, taskVars,
       history
  <1>11. ASSUME NEW t \in Tasks, Decide(t)
        PROVE  OwnedSound'
    BY <1>11 DEF Decide, Conflicts, OwnedSound, TypeOK, Stages, taskVars,
       history
  <1>12. ASSUME NEW t \in Tasks, AdmissionRefused(t)
        PROVE  OwnedSound'
    BY <1>12 DEF AdmissionRefused, Move, OwnedSound, TypeOK, Stages,
       taskVars, history
  <1>13. ASSUME NEW t \in Tasks, CancelQueued(t)
        PROVE  OwnedSound'
    BY <1>13 DEF CancelQueued, Move, OwnedSound, TypeOK, Stages, taskVars,
       history
  <1>14. ASSUME NEW t \in Tasks, RecordStarting(t)
        PROVE  OwnedSound'
    BY <1>14 DEF RecordStarting, Move, OwnedSound, TypeOK, Stages,
       taskVars, history
  <1>15. ASSUME NEW t \in Tasks, OpenTaskLock(t)
        PROVE  OwnedSound'
    BY <1>15 DEF OpenTaskLock, Move, OwnedSound, TypeOK, Stages, taskVars,
       history
  <1>16. ASSUME NEW t \in Tasks, FlockForChild(t)
        PROVE  OwnedSound'
    BY <1>16 DEF FlockForChild, Move, OwnedSound, TypeOK, Stages,
       taskVars, history
  <1>17. ASSUME NEW t \in Tasks, LaunchFails(t)
        PROVE  OwnedSound'
    BY <1>17 DEF LaunchFails, Move, OwnedSound, TypeOK, Stages, taskVars,
       history
  <1>18. ASSUME NEW t \in Tasks, ChildDies(t)
        PROVE  OwnedSound'
    BY <1>18 DEF ChildDies, Move, OwnedSound, TypeOK, Stages, taskVars,
       history
  <1>19. ASSUME NEW t \in Tasks, Resume(t)
        PROVE  OwnedSound'
    BY <1>19 DEF Resume, Move, OwnedSound, TypeOK, Stages, taskVars,
       history
  <1>20. ASSUME NEW t \in Tasks, ResumeFails(t)
        PROVE  OwnedSound'
    BY <1>20 DEF ResumeFails, Move, OwnedSound, TypeOK, Stages, taskVars,
       history
  <1>21. ASSUME NEW t \in Tasks, ResumeEnds(t)
        PROVE  OwnedSound'
    BY <1>21 DEF ResumeEnds, Move, OwnedSound, TypeOK, Stages, taskVars,
       history
  <1>22. ASSUME NEW t \in Tasks, ResumeAbandoned(t)
        PROVE  OwnedSound'
    BY <1>22 DEF ResumeAbandoned, Move, OwnedSound, TypeOK, Stages,
       taskVars, history
  <1>23. ASSUME NEW t \in Tasks, AbandonedDies(t)
        PROVE  OwnedSound'
    BY <1>23 DEF AbandonedDies, Move, OwnedSound, TypeOK, Stages,
       taskVars, history
  <1>24. ASSUME NEW t \in Tasks, Finalize(t)
        PROVE  OwnedSound'
    BY <1>24 DEF Finalize, Move, OwnedSound, TypeOK, Stages, taskVars,
       history
  <1>25. ASSUME NEW t \in Tasks, Release(t)
        PROVE  OwnedSound'
    BY <1>25 DEF Release, Move, OwnedSound, TypeOK, Stages, taskVars,
       history
  <1>26. ASSUME NEW t \in Tasks, ObserverTakes(t)
        PROVE  OwnedSound'
    BY <1>26 DEF ObserverTakes, OwnedSound, TypeOK, Stages, taskVars,
       history
  <1>27. ASSUME ObserverDrops
        PROVE  OwnedSound'
    BY <1>27 DEF ObserverDrops, OwnedSound, TypeOK, Stages, taskVars,
       history
  <1>28. ASSUME Restart
        PROVE  OwnedSound'
    BY <1>28 DEF Restart, OwnedSound, TypeOK, Stages, taskVars, history
  <1>29. CASE UNCHANGED vars
    BY <1>29 DEF vars, OwnedSound, TypeOK, Stages, taskVars, history
  <1> QED
    BY <1>1, <1>2, <1>3, <1>4, <1>5, <1>6, <1>7, <1>8, <1>9, <1>10, <1>11,
       <1>12, <1>13, <1>14, <1>15, <1>16, <1>17, <1>18, <1>19, <1>20, <1>21,
       <1>22, <1>23, <1>24, <1>25, <1>26, <1>27, <1>28, <1>29 DEF Next,
       Acquire, Live

\* A save that met no conflict is disjoint from every lock that exists.
LEMMA DisjointStep ==
    /\ TypeOK /\ MutexSound /\ LocksCovered /\ OwnedSound /\ LocksDisjoint
    /\ [Next]_vars
    => LocksDisjoint'
  <1> SUFFICES ASSUME TypeOK, MutexSound, LocksCovered, OwnedSound,
                      LocksDisjoint, [Next]_vars
               PROVE  LocksDisjoint'
    OBVIOUS
  <1> USE PathLocksAssumption
  <1>1. ASSUME NEW t \in Tasks, Submit(t)
        PROVE  LocksDisjoint'
    BY <1>1 DEF Submit, LocksDisjoint, TypeOK, taskVars, history
  <1>2. ASSUME NEW t \in Tasks, Lock(t)
        PROVE  LocksDisjoint'
    BY <1>2 DEF Lock, LocksDisjoint, TypeOK, taskVars, history
  <1>3. ASSUME NEW t \in Tasks, ReadDir(t)
        PROVE  LocksDisjoint'
    BY <1>3 DEF ReadDir, Locked, LocksDisjoint, TypeOK, taskVars, history
  <1>4. ASSUME NEW t \in Tasks, ListFails(t)
        PROVE  LocksDisjoint'
    BY <1>4 DEF ListFails, LocksDisjoint, TypeOK, taskVars, history
  <1>5. ASSUME NEW t \in Tasks, AcquireFails(t)
        PROVE  LocksDisjoint'
    BY <1>5 DEF AcquireFails, LocksDisjoint, TypeOK, taskVars, history
  <1>6. ASSUME NEW t \in Tasks, ReadFiles(t)
        PROVE  LocksDisjoint'
    BY <1>6 DEF ReadFiles, Locked, LocksDisjoint, TypeOK, taskVars,
       history
  <1>7. ASSUME NEW t \in Tasks, NEW u \in Tasks, Probe(t, u)
        PROVE  LocksDisjoint'
    BY <1>7 DEF Probe, ProbeHeld, ProbeFree, ProbeMissing, LocksDisjoint,
       TypeOK, taskVars, history
  <1>8. ASSUME NEW t \in Tasks, DropProbe(t)
        PROVE  LocksDisjoint'
    BY <1>8 DEF DropProbe, LocksDisjoint, TypeOK, taskVars, history
  <1>9. ASSUME NEW t \in Tasks, LoadState(t)
        PROVE  LocksDisjoint'
    BY <1>9 DEF LoadState, AwaitsLaunch, LocksDisjoint, TypeOK, taskVars,
       history
  <1>10. ASSUME NEW t \in Tasks, NEW u \in Tasks, DeleteStale(t, u)
        PROVE  LocksDisjoint'
    BY <1>10 DEF DeleteStale, Over, LocksDisjoint, TypeOK, taskVars,
       history
  <1>11. ASSUME NEW t \in Tasks, Decide(t)
        PROVE  LocksDisjoint'
    <2>1. CASE Conflicts(t)
      BY <1>11, <2>1 DEF Decide, LocksDisjoint
    <2>2. CASE ~Conflicts(t)
      <3>1. \A u \in Tasks : owned[u] # {} => u \in acq[t].alive
        BY <1>11 DEF Decide, LocksCovered, Locked
      <3>2. \A u \in Tasks : owned[u] \cap req[t] = {}
        BY <2>2, <3>1 DEF Conflicts, OwnedSound
      <3>3. owned' = [owned EXCEPT ![t] = req[t]]
        BY <1>11, <2>2 DEF Decide
      <3> QED
        BY <3>2, <3>3 DEF LocksDisjoint, TypeOK
    <2> QED
      BY <2>1, <2>2
  <1>12. ASSUME NEW t \in Tasks, AdmissionRefused(t)
        PROVE  LocksDisjoint'
    BY <1>12 DEF AdmissionRefused, Move, LocksDisjoint, TypeOK, taskVars,
       history
  <1>13. ASSUME NEW t \in Tasks, CancelQueued(t)
        PROVE  LocksDisjoint'
    BY <1>13 DEF CancelQueued, Move, LocksDisjoint, TypeOK, taskVars,
       history
  <1>14. ASSUME NEW t \in Tasks, RecordStarting(t)
        PROVE  LocksDisjoint'
    BY <1>14 DEF RecordStarting, Move, LocksDisjoint, TypeOK, taskVars,
       history
  <1>15. ASSUME NEW t \in Tasks, OpenTaskLock(t)
        PROVE  LocksDisjoint'
    BY <1>15 DEF OpenTaskLock, Move, LocksDisjoint, TypeOK, taskVars,
       history
  <1>16. ASSUME NEW t \in Tasks, FlockForChild(t)
        PROVE  LocksDisjoint'
    BY <1>16 DEF FlockForChild, Move, LocksDisjoint, TypeOK, taskVars,
       history
  <1>17. ASSUME NEW t \in Tasks, LaunchFails(t)
        PROVE  LocksDisjoint'
    BY <1>17 DEF LaunchFails, Move, LocksDisjoint, TypeOK, taskVars,
       history
  <1>18. ASSUME NEW t \in Tasks, ChildDies(t)
        PROVE  LocksDisjoint'
    BY <1>18 DEF ChildDies, Move, LocksDisjoint, TypeOK, taskVars, history
  <1>19. ASSUME NEW t \in Tasks, Resume(t)
        PROVE  LocksDisjoint'
    BY <1>19 DEF Resume, Move, LocksDisjoint, TypeOK, taskVars, history
  <1>20. ASSUME NEW t \in Tasks, ResumeFails(t)
        PROVE  LocksDisjoint'
    BY <1>20 DEF ResumeFails, Move, LocksDisjoint, TypeOK, taskVars,
       history
  <1>21. ASSUME NEW t \in Tasks, ResumeEnds(t)
        PROVE  LocksDisjoint'
    BY <1>21 DEF ResumeEnds, Move, LocksDisjoint, TypeOK, taskVars,
       history
  <1>22. ASSUME NEW t \in Tasks, ResumeAbandoned(t)
        PROVE  LocksDisjoint'
    BY <1>22 DEF ResumeAbandoned, Move, LocksDisjoint, TypeOK, taskVars,
       history
  <1>23. ASSUME NEW t \in Tasks, AbandonedDies(t)
        PROVE  LocksDisjoint'
    BY <1>23 DEF AbandonedDies, Move, LocksDisjoint, TypeOK, taskVars,
       history
  <1>24. ASSUME NEW t \in Tasks, Finalize(t)
        PROVE  LocksDisjoint'
    BY <1>24 DEF Finalize, Move, LocksDisjoint, TypeOK, taskVars, history
  <1>25. ASSUME NEW t \in Tasks, Release(t)
        PROVE  LocksDisjoint'
    BY <1>25 DEF Release, Move, LocksDisjoint, TypeOK, taskVars, history
  <1>26. ASSUME NEW t \in Tasks, ObserverTakes(t)
        PROVE  LocksDisjoint'
    BY <1>26 DEF ObserverTakes, LocksDisjoint, TypeOK, taskVars, history
  <1>27. ASSUME ObserverDrops
        PROVE  LocksDisjoint'
    BY <1>27 DEF ObserverDrops, LocksDisjoint, TypeOK, taskVars, history
  <1>28. ASSUME Restart
        PROVE  LocksDisjoint'
    BY <1>28 DEF Restart, LocksDisjoint, TypeOK, taskVars, history
  <1>29. CASE UNCHANGED vars
    BY <1>29 DEF vars, LocksDisjoint, TypeOK, taskVars, history
  <1> QED
    BY <1>1, <1>2, <1>3, <1>4, <1>5, <1>6, <1>7, <1>8, <1>9, <1>10, <1>11,
       <1>12, <1>13, <1>14, <1>15, <1>16, <1>17, <1>18, <1>19, <1>20, <1>21,
       <1>22, <1>23, <1>24, <1>25, <1>26, <1>27, <1>28, <1>29 DEF Next,
       Acquire, Live

\* The files under path-locks/ never claim the same path, whatever happens
\* outside the mutex while an acquisition is in progress.
THEOREM LocksAlwaysDisjoint ==
    Spec => [](MutexSound /\ LocksCovered /\ OwnedSound /\ LocksDisjoint)
  <1>1. Init => MutexSound /\ LocksCovered /\ OwnedSound /\ LocksDisjoint
    BY LocalBuilt, PathLocksAssumption DEF Init, MutexSound, LocksCovered,
       OwnedSound, LocksDisjoint, Idle, Locked
  <1> QED
    BY <1>1, TypeCorrect, MutexStep, CoveredStep, OwnedStep, DisjointStep, PTL
       DEF Spec

-----------------------------------------------------------------------------
(* A running task keeps its lock.                                          *)

\* A child holds task.lock exactly while its task is running or resumed or
\* has been abandoned, and
\* there is no task.lock before the launch.
ChildSound ==
    \A t \in Tasks :
        /\ flock[t] = "child" <=> stage[t] \in {"running", "resumed", "abandoned"}
        /\ stage[t] \in {"new", "acquiring", "awaiting", "starting"} =>
             flock[t] = "absent"

\* A probe in progress holds the task.lock it is about to drop, alone.
ProbeSound ==
    /\ observed # NoTask => flock[observed] = "probe"
    /\ \A t \in Tasks : acq[t].pc = "drop" => /\ flock[acq[t].cur] = "probe"
                                              /\ acq[t].cur # observed

\* A guarded task still has its child and its lock, and the acquisition in
\* progress neither probes it as free nor has found it stale.
GuardSound ==
    \A t \in Tasks, u \in guarded :
        mutex = t => /\ flock[u] = "child" /\ owned[u] = req[u]
                     /\ u \notin acq[t].stale
                     /\ u # acq[t].cur

\* A probe changes the local state of its acquisition only, by its outcome.
LEMMA ProbeFacts ==
    ASSUME TypeOK, NEW t \in Tasks, NEW u \in Tasks, Probe(t, u)
    PROVE  /\ acq[t] \in LocalStates /\ acq[t].pc = "probe" /\ u # NoTask
           /\ \A s \in Tasks : s # t => acq'[s] = acq[s]
           /\ UNCHANGED <<stage, req, recorded, owned, mutex, observed, guarded, settled, robbed, boots>>
           /\ acq'[t].stale = acq[t].stale
           /\ \/ /\ flock[u] \in {"child", "probe"} /\ flock' = flock /\ acq'[t].pc = "probe"
                 /\ acq'[t].cur = NoTask /\ acq'[t].alive = acq[t].alive \cup {u}
                 /\ contended' = IF flock[u] = "probe" THEN contended \cup {u} ELSE contended
              \/ /\ flock[u] = "free" /\ flock' = [flock EXCEPT ![u] = "probe"] /\ acq'[t].pc = "drop"
                 /\ acq'[t].cur = u /\ acq'[t].alive = acq[t].alive /\ contended' = contended
              \/ /\ flock[u] = "absent" /\ flock' = flock /\ acq'[t].pc = "load"
                 /\ acq'[t].cur = u /\ acq'[t].alive = acq[t].alive /\ contended' = contended
  <1> DEFINE a == acq[t]
  <1>1. /\ a \in LocalStates /\ a.pc = "probe" /\ u # NoTask
        /\ UNCHANGED <<stage, req, recorded, owned, mutex, observed, guarded, settled, robbed, boots>>
    BY PathLocksAssumption DEF Probe, TypeOK
  <1>2. /\ a.todo \in SUBSET Tasks /\ a.todo \ {u} \in SUBSET Tasks /\ a.alive \in SUBSET Tasks
        /\ a.alive \cup {u} \in SUBSET Tasks /\ a.stale \in SUBSET Tasks
    BY <1>1, LocalFields
  <1>3. ASSUME NEW r, acq' = [acq EXCEPT ![t] = r]
        PROVE  acq'[t] = r /\ \A s \in Tasks : s # t => acq'[s] = acq[s]
    BY <1>3 DEF TypeOK
  <1>4. CASE ProbeHeld(t, u)
    <2> DEFINE r == Local("probe", a.todo \ {u}, NoTask, a.alive \cup {u}, a.stale)
    <2>1. /\ acq' = [acq EXCEPT ![t] = r] /\ flock[u] \in {"child", "probe"} /\ flock' = flock
          /\ contended' = IF flock[u] = "probe" THEN contended \cup {u} ELSE contended
      BY <1>4 DEF ProbeHeld
    <2>2. r.pc = "probe" /\ r.cur = NoTask /\ r.alive = a.alive \cup {u} /\ r.stale = a.stale
      BY <1>2, LocalBuilt
    <2> QED
      BY <1>1, <1>3, <2>1, <2>2
  <1>5. CASE ProbeFree(t, u)
    <2> DEFINE r == Local("drop", a.todo, u, a.alive, a.stale)
    <2>1. /\ acq' = [acq EXCEPT ![t] = r] /\ flock[u] = "free" /\ flock' = [flock EXCEPT ![u] = "probe"]
          /\ contended' = contended
      BY <1>5 DEF ProbeFree
    <2>2. r.pc = "drop" /\ r.cur = u /\ r.alive = a.alive /\ r.stale = a.stale
      BY <1>2, LocalBuilt
    <2> QED
      BY <1>1, <1>3, <2>1, <2>2
  <1>6. CASE ProbeMissing(t, u)
    <2> DEFINE r == Local("load", a.todo, u, a.alive, a.stale)
    <2>1. /\ acq' = [acq EXCEPT ![t] = r] /\ flock[u] = "absent" /\ flock' = flock /\ contended' = contended
      BY <1>6 DEF ProbeMissing
    <2>2. r.pc = "load" /\ r.cur = u /\ r.alive = a.alive /\ r.stale = a.stale
      BY <1>2, LocalBuilt
    <2> QED
      BY <1>1, <1>3, <2>1, <2>2
  <1> QED
    BY <1>4, <1>5, <1>6 DEF Probe

\* The first steps of an acquisition start it with no verdict.
LEMMA StartFacts ==
    ASSUME TypeOK, NEW t \in Tasks, Lock(t) \/ ReadDir(t) \/ ReadFiles(t)
    PROVE  /\ \A s \in Tasks : s # t => acq'[s] = acq[s]
           /\ acq'[t].pc \in {"list", "read", "probe"} /\ acq'[t].cur = NoTask
           /\ acq'[t].alive = {} /\ acq'[t].stale = {}
           /\ UNCHANGED <<stage, req, recorded, flock, owned, observed, robbed>>
  <1>1. ASSUME NEW pc \in {"list", "read", "probe"}, NEW todo \in SUBSET Tasks,
               acq' = [acq EXCEPT ![t] = Local(pc, todo, NoTask, {}, {})]
        PROVE  /\ \A s \in Tasks : s # t => acq'[s] = acq[s]
               /\ acq'[t].pc \in {"list", "read", "probe"} /\ acq'[t].cur = NoTask
               /\ acq'[t].alive = {} /\ acq'[t].stale = {}
    <2>1. acq'[t] = Local(pc, todo, NoTask, {}, {}) /\ \A s \in Tasks : s # t => acq'[s] = acq[s]
      BY <1>1 DEF TypeOK
    <2> QED
      BY <2>1, LocalBuilt
  <1>2. Locked \in SUBSET Tasks /\ acq[t].todo \in SUBSET Tasks
    BY LocalFields DEF Locked, TypeOK
  <1>3. CASE Lock(t)
    <2>1. {} \in SUBSET Tasks
      OBVIOUS
    <2> QED
      BY <1>1, <1>3, <2>1 DEF Lock, taskVars
  <1>4. CASE ReadDir(t)
    BY <1>1, <1>2, <1>4 DEF ReadDir, taskVars, history
  <1>5. CASE ReadFiles(t)
    BY <1>1, <1>2, <1>5 DEF ReadFiles, taskVars, history
  <1> QED
    BY <1>3, <1>4, <1>5

\* An acquisition that ends, in whatever way, gives the mutex back and leaves
\* every task.lock alone.
LEMMA EndFacts ==
    ASSUME TypeOK, NEW t \in Tasks, ListFails(t) \/ AcquireFails(t) \/ Decide(t)
    PROVE  /\ \A s \in Tasks : s # t => acq'[s] = acq[s]
           /\ acq'[t].pc = "idle" /\ mutex' = NoTask
           /\ \A s \in Tasks : s # t => stage'[s] = stage[s]
           /\ acq[t].pc # "idle"
           /\ UNCHANGED <<req, recorded, flock, observed, guarded, settled, contended, robbed>>
  <1>1. ASSUME acq' = [acq EXCEPT ![t] = Idle]
        PROVE  acq'[t].pc = "idle" /\ \A s \in Tasks : s # t => acq'[s] = acq[s]
    BY <1>1, LocalBuilt DEF TypeOK, Idle
  <1>2. CASE ListFails(t)
    BY <1>1, <1>2 DEF ListFails, TypeOK, history
  <1>3. CASE AcquireFails(t)
    BY <1>1, <1>3 DEF AcquireFails, TypeOK, history
  <1>4. CASE Decide(t)
    BY <1>1, <1>4 DEF Decide, TypeOK, history
  <1> QED
    BY <1>2, <1>3, <1>4

\* A probe that got task.lock drops it and finds the owner's lock stale.
LEMMA DropFacts ==
    ASSUME TypeOK, NEW t \in Tasks, DropProbe(t)
    PROVE  /\ \A s \in Tasks : s # t => acq'[s] = acq[s]
           /\ acq[t].pc = "drop" /\ acq[t].cur \in Tasks
           /\ acq'[t].pc = "probe" /\ acq'[t].cur = NoTask
           /\ acq'[t].alive = acq[t].alive
           /\ acq'[t].stale = acq[t].stale \cup {acq[t].cur}
           /\ flock' = [flock EXCEPT ![acq[t].cur] = "free"]
           /\ UNCHANGED <<stage, req, recorded, owned, mutex, observed, guarded, settled, contended, robbed, boots>>
  <1> DEFINE a == acq[t]
             r == Local("probe", a.todo \ {a.cur}, NoTask, a.alive, a.stale \cup {a.cur})
  <1>1. /\ a.pc = "drop" /\ acq' = [acq EXCEPT ![t] = r]
        /\ flock' = [flock EXCEPT ![a.cur] = "free"]
        /\ UNCHANGED <<stage, req, recorded, owned, mutex, observed, guarded, settled, contended, robbed, boots>>
    BY DEF DropProbe, history
  <1>2. a \in LocalStates /\ a.cur \in Tasks
    BY <1>1, LocalFields DEF TypeOK
  <1>3. r.pc = "probe" /\ r.cur = NoTask /\ r.alive = a.alive /\ r.stale = a.stale \cup {a.cur}
    BY DEF Local
  <1>4. acq'[t] = r /\ \A s \in Tasks : s # t => acq'[s] = acq[s]
    BY <1>1 DEF TypeOK
  <1> QED
    BY <1>1, <1>2, <1>3, <1>4

\* Without a task.lock the verdict is what task.json says.
LEMMA LoadFacts ==
    ASSUME TypeOK, NEW t \in Tasks, LoadState(t)
    PROVE  /\ \A s \in Tasks : s # t => acq'[s] = acq[s]
           /\ acq[t].pc = "load" /\ acq[t].cur \in Tasks
           /\ acq'[t].pc = "probe" /\ acq'[t].cur = NoTask
           /\ \/ /\ recorded[acq[t].cur] = "launching"
                 /\ acq'[t].alive = acq[t].alive \cup {acq[t].cur} /\ acq'[t].stale = acq[t].stale
              \/ /\ recorded[acq[t].cur] # "launching"
                 /\ acq'[t].alive = acq[t].alive /\ acq'[t].stale = acq[t].stale \cup {acq[t].cur}
           /\ UNCHANGED <<stage, req, recorded, flock, owned, mutex, observed, guarded, settled, contended, robbed, boots>>
  <1> DEFINE a == acq[t]
             k == Local("probe", a.todo \ {a.cur}, NoTask, a.alive \cup {a.cur}, a.stale)
             r == Local("probe", a.todo \ {a.cur}, NoTask, a.alive, a.stale \cup {a.cur})
  <1>1. /\ a.pc = "load"
        /\ acq' = [acq EXCEPT ![t] = IF recorded[a.cur] = "launching" THEN k ELSE r]
        /\ UNCHANGED <<stage, req, recorded, flock, owned, mutex, observed, guarded, settled, contended, robbed, boots>>
    BY DEF LoadState, AwaitsLaunch, taskVars, history
  <1>2. a \in LocalStates /\ a.cur \in Tasks
    BY <1>1, LocalFields DEF TypeOK
  <1>3. k.pc = "probe" /\ k.cur = NoTask /\ k.alive = a.alive \cup {a.cur} /\ k.stale = a.stale
    BY DEF Local
  <1>4. r.pc = "probe" /\ r.cur = NoTask /\ r.alive = a.alive /\ r.stale = a.stale \cup {a.cur}
    BY DEF Local
  <1> HIDE DEF k, r
  <1>5. /\ acq'[t] = IF recorded[a.cur] = "launching" THEN k ELSE r
        /\ \A s \in Tasks : s # t => acq'[s] = acq[s]
    BY <1>1 DEF TypeOK
  <1> QED
    BY <1>1, <1>2, <1>3, <1>4, <1>5

\* Only the lock that was found stale is deleted.
LEMMA DeleteFacts ==
    ASSUME TypeOK, NEW t \in Tasks, NEW u \in Tasks, DeleteStale(t, u)
    PROVE  /\ \A s \in Tasks : s # t => acq'[s] = acq[s]
           /\ acq[t].pc = "probe" /\ u \in acq[t].stale
           /\ acq'[t].pc = "probe" /\ acq'[t].cur = NoTask
           /\ acq'[t].alive = acq[t].alive /\ acq'[t].stale = acq[t].stale \ {u}
           /\ owned' = [owned EXCEPT ![u] = {}]
           /\ UNCHANGED <<stage, req, recorded, flock, mutex, observed, guarded, settled, contended, boots>>
  <1> DEFINE a == acq[t]
             r == Local("probe", {}, NoTask, a.alive, a.stale \ {u})
  <1>1. /\ a.pc = "probe" /\ u \in a.stale /\ acq' = [acq EXCEPT ![t] = r]
        /\ owned' = [owned EXCEPT ![u] = {}]
        /\ UNCHANGED <<stage, req, recorded, flock, mutex, observed, guarded, settled, contended, boots>>
    BY DEF DeleteStale, taskVars
  <1>2. r.pc = "probe" /\ r.cur = NoTask /\ r.alive = a.alive /\ r.stale = a.stale \ {u}
    BY DEF Local
  <1>3. acq'[t] = r /\ \A s \in Tasks : s # t => acq'[s] = acq[s]
    BY <1>1 DEF TypeOK
  <1> QED
    BY <1>1, <1>2, <1>3

\* A step of a task outside its acquisition touches that task only: its own
\* files and stage, and no verdict of an acquisition in progress.  A task that
\* is over takes no such step.
LEMMA LifeFrame ==
    ASSUME TypeOK, NEW t \in Tasks, Submit(t) \/ Live(t)
    PROVE  /\ UNCHANGED <<mutex, acq, observed, settled, contended, robbed>>
           /\ \A v \in Tasks : v # t => /\ stage'[v] = stage[v] /\ flock'[v] = flock[v]
                                        /\ owned'[v] = owned[v] /\ req'[v] = req[v]
           /\ stage[t] # "over"
           /\ guarded' \subseteq guarded
  <1>1. CASE Submit(t)
    BY <1>1 DEF Submit, TypeOK, history
  <1>2. CASE AdmissionRefused(t)
    BY <1>2 DEF AdmissionRefused, Move, TypeOK, history
  <1>3. CASE CancelQueued(t)
    BY <1>3 DEF CancelQueued, Move, TypeOK, history
  <1>4. CASE RecordStarting(t)
    BY <1>4 DEF RecordStarting, Move, TypeOK, history
  <1>5. CASE OpenTaskLock(t)
    BY <1>5 DEF OpenTaskLock, Move, TypeOK, history
  <1>6. CASE FlockForChild(t)
    BY <1>6 DEF FlockForChild, Move, TypeOK, history
  <1>7. CASE LaunchFails(t)
    BY <1>7 DEF LaunchFails, Move, TypeOK, history
  <1>8. CASE ChildDies(t)
    BY <1>8 DEF ChildDies, Move, TypeOK, history
  <1>9. CASE Resume(t)
    BY <1>9 DEF Resume, Move, TypeOK, history
  <1>10. CASE ResumeFails(t)
    BY <1>10 DEF ResumeFails, Move, TypeOK, history
  <1>11. CASE ResumeEnds(t)
    BY <1>11 DEF ResumeEnds, Move, TypeOK, history
  <1>12. CASE ResumeAbandoned(t)
    BY <1>12 DEF ResumeAbandoned, Move, TypeOK, history
  <1>13. CASE AbandonedDies(t)
    BY <1>13 DEF AbandonedDies, Move, TypeOK, history
  <1>14. CASE Finalize(t)
    BY <1>14 DEF Finalize, Move, TypeOK, history
  <1>15. CASE Release(t)
    BY <1>15 DEF Release, Move, TypeOK, history
  <1> QED
    BY <1>1, <1>2, <1>3, <1>4, <1>5, <1>6, <1>7, <1>8, <1>9, <1>10, <1>11,
       <1>12, <1>13, <1>14, <1>15 DEF Live

\* A task with a child keeps its path lock, and gives up task.lock only when
\* the child ends and it is no longer guarded.
LEMMA ChildLife ==
    ASSUME TypeOK, NEW t \in Tasks, Submit(t) \/ Live(t),
           stage[t] \in {"running", "resumed", "abandoned"}
    PROVE  /\ owned'[t] = owned[t] /\ req'[t] = req[t]
           /\ flock'[t] = flock[t] \/ t \notin guarded'
  <1>1. CASE Submit(t)
    BY <1>1 DEF Submit, TypeOK, history
  <1>2. CASE AdmissionRefused(t)
    BY <1>2 DEF AdmissionRefused, Move, TypeOK, history
  <1>3. CASE CancelQueued(t)
    BY <1>3 DEF CancelQueued, Move, TypeOK, history
  <1>4. CASE RecordStarting(t)
    BY <1>4 DEF RecordStarting, Move, TypeOK, history
  <1>5. CASE OpenTaskLock(t)
    BY <1>5 DEF OpenTaskLock, Move, TypeOK, history
  <1>6. CASE FlockForChild(t)
    BY <1>6 DEF FlockForChild, Move, TypeOK, history
  <1>7. CASE LaunchFails(t)
    BY <1>7 DEF LaunchFails, Move, TypeOK, history
  <1>8. CASE ChildDies(t)
    BY <1>8 DEF ChildDies, Move, TypeOK, history
  <1>9. CASE Resume(t)
    BY <1>9 DEF Resume, Move, TypeOK, history
  <1>10. CASE ResumeFails(t)
    BY <1>10 DEF ResumeFails, Move, TypeOK, history
  <1>11. CASE ResumeEnds(t)
    BY <1>11 DEF ResumeEnds, Move, TypeOK, history
  <1>12. CASE ResumeAbandoned(t)
    BY <1>12 DEF ResumeAbandoned, Move, TypeOK, history
  <1>13. CASE AbandonedDies(t)
    BY <1>13 DEF AbandonedDies, Move, TypeOK, history
  <1>14. CASE Finalize(t)
    BY <1>14 DEF Finalize, Move, TypeOK, history
  <1>15. CASE Release(t)
    BY <1>15 DEF Release, Move, TypeOK, history
  <1> QED
    BY <1>1, <1>2, <1>3, <1>4, <1>5, <1>6, <1>7, <1>8, <1>9, <1>10, <1>11,
       <1>12, <1>13, <1>14, <1>15 DEF Live

\* A task.lock that a probe holds stays with that probe whatever its task does.
LEMMA ProbedLife ==
    ASSUME TypeOK, ChildSound, NEW t \in Tasks, Submit(t) \/ Live(t),
           flock[t] = "probe"
    PROVE  flock'[t] = "probe"
  <1>0. stage[t] \notin {"running", "resumed", "abandoned", "starting"}
    BY DEF ChildSound
  <1>1. CASE Submit(t)
    BY <1>1, <1>0 DEF Submit, TypeOK
  <1>2. CASE AdmissionRefused(t)
    BY <1>2, <1>0 DEF AdmissionRefused, Move, TypeOK
  <1>3. CASE CancelQueued(t)
    BY <1>3, <1>0 DEF CancelQueued, Move, TypeOK
  <1>4. CASE RecordStarting(t)
    BY <1>4, <1>0 DEF RecordStarting, Move, TypeOK
  <1>5. CASE OpenTaskLock(t)
    BY <1>5, <1>0 DEF OpenTaskLock, Move, TypeOK
  <1>6. CASE FlockForChild(t)
    BY <1>6, <1>0 DEF FlockForChild, Move, TypeOK
  <1>7. CASE LaunchFails(t)
    BY <1>7, <1>0 DEF LaunchFails, Move, TypeOK
  <1>8. CASE ChildDies(t)
    BY <1>8, <1>0 DEF ChildDies, Move, TypeOK
  <1>9. CASE Resume(t)
    BY <1>9, <1>0 DEF Resume, Move, TypeOK
  <1>10. CASE ResumeFails(t)
    BY <1>10, <1>0 DEF ResumeFails, Move, TypeOK
  <1>11. CASE ResumeEnds(t)
    BY <1>11, <1>0 DEF ResumeEnds, Move, TypeOK
  <1>12. CASE ResumeAbandoned(t)
    BY <1>12, <1>0 DEF ResumeAbandoned, Move, TypeOK
  <1>13. CASE AbandonedDies(t)
    BY <1>13, <1>0 DEF AbandonedDies, Move, TypeOK
  <1>14. CASE Finalize(t)
    BY <1>14, <1>0 DEF Finalize, Move, TypeOK
  <1>15. CASE Release(t)
    BY <1>15, <1>0 DEF Release, Move, TypeOK
  <1> QED
    BY <1>1, <1>2, <1>3, <1>4, <1>5, <1>6, <1>7, <1>8, <1>9, <1>10, <1>11,
       <1>12, <1>13, <1>14, <1>15 DEF Live

\* task.lock passes to a child with the stage that says so.
LEMMA ChildStep ==
    TypeOK /\ MutexSound /\ ChildSound /\ ProbeSound /\ [Next]_vars => ChildSound'
  <1> SUFFICES ASSUME TypeOK, MutexSound, ChildSound, ProbeSound, [Next]_vars PROVE ChildSound'
    OBVIOUS
  <1> USE PathLocksAssumption
  <1>a. /\ stage \in [Tasks -> Stages]
        /\ flock \in [Tasks -> {"absent", "free", "child", "probe"}]
    BY DEF TypeOK
  <1>b. \A s \in Tasks : acq[s].pc # "idle" => stage[s] = "acquiring"
    BY DEF MutexSound
  <1>1. ASSUME NEW t \in Tasks, Submit(t)
        PROVE  ChildSound'
    BY <1>1, <1>a DEF Submit, ChildSound
  <1>2. ASSUME NEW t \in Tasks, AdmissionRefused(t)
        PROVE  ChildSound'
    BY <1>2, <1>a DEF AdmissionRefused, Move, ChildSound
  <1>3. ASSUME NEW t \in Tasks, CancelQueued(t)
        PROVE  ChildSound'
    BY <1>3, <1>a DEF CancelQueued, Move, ChildSound
  <1>4. ASSUME NEW t \in Tasks, RecordStarting(t)
        PROVE  ChildSound'
    BY <1>4, <1>a DEF RecordStarting, Move, ChildSound
  <1>5. ASSUME NEW t \in Tasks, OpenTaskLock(t)
        PROVE  ChildSound'
    BY <1>5, <1>a DEF OpenTaskLock, Move, ChildSound
  <1>6. ASSUME NEW t \in Tasks, FlockForChild(t)
        PROVE  ChildSound'
    BY <1>6, <1>a DEF FlockForChild, Move, ChildSound
  <1>7. ASSUME NEW t \in Tasks, LaunchFails(t)
        PROVE  ChildSound'
    BY <1>7, <1>a DEF LaunchFails, Move, ChildSound
  <1>8. ASSUME NEW t \in Tasks, ChildDies(t)
        PROVE  ChildSound'
    BY <1>8, <1>a DEF ChildDies, Move, ChildSound
  <1>9. ASSUME NEW t \in Tasks, Resume(t)
        PROVE  ChildSound'
    BY <1>9, <1>a DEF Resume, Move, ChildSound
  <1>10. ASSUME NEW t \in Tasks, ResumeFails(t)
        PROVE  ChildSound'
    BY <1>10, <1>a DEF ResumeFails, Move, ChildSound
  <1>11. ASSUME NEW t \in Tasks, ResumeEnds(t)
        PROVE  ChildSound'
    BY <1>11, <1>a DEF ResumeEnds, Move, ChildSound
  <1>12. ASSUME NEW t \in Tasks, ResumeAbandoned(t)
        PROVE  ChildSound'
    BY <1>12, <1>a DEF ResumeAbandoned, Move, ChildSound
  <1>13. ASSUME NEW t \in Tasks, AbandonedDies(t)
        PROVE  ChildSound'
    BY <1>13, <1>a DEF AbandonedDies, Move, ChildSound
  <1>14. ASSUME NEW t \in Tasks, Finalize(t)
        PROVE  ChildSound'
    BY <1>14, <1>a DEF Finalize, Move, ChildSound
  <1>15. ASSUME NEW t \in Tasks, Release(t)
        PROVE  ChildSound'
    BY <1>15, <1>a DEF Release, Move, ChildSound
  <1>16. ASSUME NEW t \in Tasks, Lock(t) \/ ReadDir(t) \/ ReadFiles(t)
        PROVE  ChildSound'
    BY <1>16, StartFacts DEF ChildSound
  <1>17. ASSUME NEW t \in Tasks, ListFails(t)
        PROVE  ChildSound'
    BY <1>17, <1>a, <1>b DEF ListFails, ChildSound
  <1>18. ASSUME NEW t \in Tasks, AcquireFails(t)
        PROVE  ChildSound'
    BY <1>18, <1>a, <1>b DEF AcquireFails, ChildSound
  <1>19. ASSUME NEW t \in Tasks, Decide(t)
        PROVE  ChildSound'
    BY <1>19, <1>a, <1>b DEF Decide, ChildSound
  <1>20. ASSUME NEW t \in Tasks, NEW u \in Tasks, Probe(t, u)
        PROVE  ChildSound'
    <2>1. stage' = stage
      BY <1>20 DEF Probe
    <2>2. flock' = flock \/ (flock[u] = "free" /\ flock' = [flock EXCEPT ![u] = "probe"])
      BY <1>20, ProbeFacts
    <2> QED
      BY <1>a, <2>1, <2>2 DEF ChildSound
  <1>21. ASSUME NEW t \in Tasks, DropProbe(t)
        PROVE  ChildSound'
    <2>1. flock[acq[t].cur] = "probe"
      BY <1>21, DropFacts DEF ProbeSound
    <2> QED
      BY <1>21, <1>a, <2>1, DropFacts DEF ChildSound
  <1>22. ASSUME NEW t \in Tasks, LoadState(t)
        PROVE  ChildSound'
    BY <1>22, LoadFacts DEF ChildSound
  <1>23. ASSUME NEW t \in Tasks, NEW u \in Tasks, DeleteStale(t, u)
        PROVE  ChildSound'
    BY <1>23, DeleteFacts DEF ChildSound
  <1>24. ASSUME NEW t \in Tasks, ObserverTakes(t)
        PROVE  ChildSound'
    BY <1>24, <1>a DEF ObserverTakes, ChildSound
  <1>25. ASSUME ObserverDrops
        PROVE  ChildSound'
    <2>1. flock[observed] = "probe"
      BY <1>25 DEF ObserverDrops, ProbeSound
    <2> QED
      BY <1>25, <1>a, <2>1 DEF ObserverDrops, ChildSound
  <1>26. ASSUME Restart
        PROVE  ChildSound'
    BY SMTT(60), <1>26, <1>a DEF Restart, ChildSound, Stages
  <1>27. CASE UNCHANGED vars
    BY <1>27 DEF vars, ChildSound
  <1> QED
    BY <1>1, <1>2, <1>3, <1>4, <1>5, <1>6, <1>7, <1>8, <1>9, <1>10, <1>11,
       <1>12, <1>13, <1>14, <1>15, <1>16, <1>17, <1>18, <1>19, <1>20, <1>21,
       <1>22, <1>23, <1>24, <1>25, <1>26, <1>27 DEF Next, Acquire, Live

\* Two probes never hold the same task.lock.
LEMMA ProbeStep ==
    TypeOK /\ MutexSound /\ ChildSound /\ ProbeSound /\ [Next]_vars => ProbeSound'
  <1> SUFFICES ASSUME TypeOK, MutexSound, ChildSound, ProbeSound, [Next]_vars
               PROVE  ProbeSound'
    OBVIOUS
  <1> USE PathLocksAssumption
  <1> DEFINE Dropping(s) == /\ flock'[acq'[s].cur] = "probe"
                            /\ acq'[s].cur # observed'
  <1>a. \A t \in Tasks : acq[t].pc = "drop" =>
           /\ acq[t].cur \in Tasks /\ flock[acq[t].cur] = "probe" /\ acq[t].cur # observed
           /\ mutex = t
    BY LocalFields DEF ProbeSound, MutexSound, TypeOK
  <1>b. observed # NoTask => observed \in Tasks /\ flock[observed] = "probe"
    BY DEF ProbeSound, TypeOK
  <1>f. flock \in [Tasks -> {"absent", "free", "child", "probe"}]
    BY DEF TypeOK
  <1>1. ASSUME NEW t \in Tasks, Submit(t) \/ Live(t)
        PROVE  ProbeSound'
    <2>1. \A v \in Tasks : flock[v] = "probe" => flock'[v] = "probe"
      BY <1>1, LifeFrame, ProbedLife
    <2>2. UNCHANGED <<acq, observed>>
      BY <1>1, LifeFrame
    <2> QED
      BY <1>a, <1>b, <2>1, <2>2 DEF ProbeSound
  <1>2. ASSUME NEW t \in Tasks, Lock(t) \/ ReadDir(t) \/ ReadFiles(t)
        PROVE  ProbeSound'
    <2>1. /\ \A s \in Tasks : acq'[s].pc = "drop" => acq'[s] = acq[s]
          /\ UNCHANGED <<flock, observed>>
      BY <1>2, StartFacts
    <2> QED
      BY <1>a, <1>b, <2>1 DEF ProbeSound
  <1>3. ASSUME NEW t \in Tasks, ListFails(t) \/ AcquireFails(t) \/ Decide(t)
        PROVE  ProbeSound'
    <2>1. /\ \A s \in Tasks : acq'[s].pc = "drop" => acq'[s] = acq[s]
          /\ UNCHANGED <<flock, observed>>
      BY <1>3, EndFacts
    <2> QED
      BY <1>a, <1>b, <2>1 DEF ProbeSound
  <1>4. ASSUME NEW t \in Tasks, NEW u \in Tasks, Probe(t, u)
        PROVE  ProbeSound'
    <2>1. observed' = observed /\ (observed # NoTask => flock'[observed] = "probe")
      <3>1. observed' = observed
        BY <1>4 DEF Probe
      <3>2. flock' = flock \/ (flock[u] = "free" /\ flock' = [flock EXCEPT ![u] = "probe"])
        BY <1>4, ProbeFacts
      <3> QED
        BY <1>b, <1>f, <3>1, <3>2
    <2>2. ASSUME NEW s \in Tasks, s # t, acq'[s].pc = "drop"
          PROVE  Dropping(s)
      <3>1. acq[s].pc = "drop" /\ mutex = s /\ mutex = t
        <4>1. acq[t].pc = "probe" /\ acq'[s] = acq[s]
          BY <1>4, <2>2, ProbeFacts
        <4> QED
          BY <2>2, <4>1 DEF MutexSound
      <3> QED
        BY <2>2, <3>1
    <2>3. ASSUME acq'[t].pc = "drop"
          PROVE  Dropping(t)
      <3>1. flock[u] = "free" /\ flock' = [flock EXCEPT ![u] = "probe"] /\ acq'[t].cur = u /\ u # NoTask
        BY <1>4, <2>3, ProbeFacts
      <3>2. u # observed
        BY <1>b, <3>1
      <3> QED
        BY <1>f, <2>1, <3>1, <3>2
    <2> QED
      BY <2>1, <2>2, <2>3 DEF ProbeSound
  <1>5. ASSUME NEW t \in Tasks, DropProbe(t)
        PROVE  ProbeSound'
    <2>1. observed' = observed /\ (observed # NoTask => flock'[observed] = "probe")
      <3>1. /\ observed' = observed /\ acq[t].pc = "drop"
            /\ flock' = [flock EXCEPT ![acq[t].cur] = "free"]
        BY <1>5, DropFacts
      <3> QED
        BY <1>a, <1>b, <1>f, <3>1
    <2>2. ASSUME NEW s \in Tasks, acq'[s].pc = "drop"
          PROVE  FALSE
      <3>1. s # t /\ acq[s].pc = "drop" /\ acq[t].pc = "drop"
        BY <1>5, <2>2, DropFacts
      <3> QED
        BY <1>a, <3>1
    <2> QED
      BY <2>1, <2>2 DEF ProbeSound
  <1>6. ASSUME NEW t \in Tasks, LoadState(t)
        PROVE  ProbeSound'
    <2>1. /\ \A s \in Tasks : acq'[s].pc = "drop" => acq'[s] = acq[s]
          /\ UNCHANGED <<flock, observed>>
      BY <1>6, LoadFacts
    <2> QED
      BY <1>a, <1>b, <2>1 DEF ProbeSound
  <1>7. ASSUME NEW t \in Tasks, NEW u \in Tasks, DeleteStale(t, u)
        PROVE  ProbeSound'
    <2>1. /\ \A s \in Tasks : acq'[s].pc = "drop" => acq'[s] = acq[s]
          /\ UNCHANGED <<flock, observed>>
      BY <1>7, DeleteFacts
    <2> QED
      BY <1>a, <1>b, <2>1 DEF ProbeSound
  <1>8. ASSUME NEW t \in Tasks, ObserverTakes(t)
        PROVE  ProbeSound'
    <2>1. /\ acq' = acq /\ observed' = t /\ flock[t] = "free" /\ flock'[t] = "probe"
          /\ \A v \in Tasks : v # t => flock'[v] = flock[v]
      BY <1>8 DEF ObserverTakes, TypeOK
    <2> QED
      BY <1>a, <2>1 DEF ProbeSound
  <1>9. ASSUME ObserverDrops
        PROVE  ProbeSound'
    <2>1. /\ acq' = acq /\ observed' = NoTask
          /\ \A v \in Tasks : v # observed => flock'[v] = flock[v]
      BY <1>9 DEF ObserverDrops, TypeOK
    <2> QED
      BY <1>a, <2>1 DEF ProbeSound
  <1>10. ASSUME Restart
        PROVE  ProbeSound'
    <2>1. observed' = NoTask /\ \A s \in Tasks : acq'[s] = Idle
      BY <1>10 DEF Restart
    <2>2. Idle.pc = "idle"
      BY LocalBuilt DEF Idle
    <2> QED
      BY <2>1, <2>2 DEF ProbeSound
  <1>11. CASE UNCHANGED vars
    BY <1>11 DEF vars, ProbeSound
  <1> QED
    BY <1>1, <1>2, <1>3, <1>4, <1>5, <1>6, <1>7, <1>8, <1>9, <1>10, <1>11
       DEF Next, Acquire

\* The holders of every task.lock are known.
LEMMA HoldersSound == Spec => [](ChildSound /\ ProbeSound)
  <1>1. Init => ChildSound /\ ProbeSound
    BY DEF Init, ChildSound, ProbeSound, Idle, Local
  <1> QED
    BY <1>1, TypeCorrect, LocksAlwaysDisjoint, ChildStep, ProbeStep, PTL DEF Spec

\* Nothing takes the lock of a guarded task.
LEMMA GuardStep ==
    /\ TypeOK /\ MutexSound /\ OwnedSound /\ ChildSound /\ ProbeSound
    /\ GuardSound /\ [Next]_vars
    => GuardSound'
  <1> SUFFICES ASSUME TypeOK, MutexSound, OwnedSound, ChildSound, ProbeSound,
                      GuardSound, [Next]_vars
               PROVE  GuardSound'
    OBVIOUS
  <1> USE PathLocksAssumption
  <1>a. \A s \in Tasks, v \in guarded : mutex = s =>
           /\ v \in Tasks /\ flock[v] = "child" /\ owned[v] = req[v]
           /\ v \notin acq[s].stale /\ v # acq[s].cur
           /\ stage[v] \in {"running", "resumed", "abandoned"}
    BY DEF GuardSound, ChildSound, TypeOK
  <1>b. \A s \in Tasks : acq[s].pc # "idle" => mutex = s
    BY DEF MutexSound
  <1>c. \A v \in guarded : v \in Tasks /\ v # NoTask
    BY DEF TypeOK
  <1>f. flock \in [Tasks -> {"absent", "free", "child", "probe"}]
    BY DEF TypeOK
  <1>1. ASSUME NEW t \in Tasks, Submit(t) \/ Live(t)
        PROVE  GuardSound'
    <2>1. UNCHANGED <<acq, mutex>> /\ guarded' \subseteq guarded
      BY <1>1, LifeFrame
    <2>2. ASSUME NEW s \in Tasks, NEW v \in guarded', mutex = s
          PROVE  flock'[v] = "child" /\ owned'[v] = req'[v]
      <3>1. CASE v = t
        BY <1>1, <1>a, <2>1, <2>2, <3>1, ChildLife
      <3>2. CASE v # t
        BY <1>1, <1>a, <2>1, <2>2, <3>2, LifeFrame
      <3> QED
        BY <3>1, <3>2
    <2> QED
      BY <1>a, <2>1, <2>2 DEF GuardSound
  <1>2. ASSUME NEW t \in Tasks, Lock(t)
        PROVE  GuardSound'
    <2>1. /\ acq'[t].stale = {} /\ acq'[t].cur = NoTask
          /\ UNCHANGED <<flock, owned, req>>
      BY <1>2, StartFacts
    <2>2. mutex' = t /\ guarded' = {u \in Tasks : flock[u] = "child" /\ owned[u] # {}}
      BY <1>2 DEF Lock
    <2> QED
      BY <2>1, <2>2 DEF GuardSound, OwnedSound
  <1>3. ASSUME NEW t \in Tasks, ReadDir(t) \/ ReadFiles(t)
        PROVE  GuardSound'
    <2>1. /\ acq'[t].stale = {} /\ acq'[t].cur = NoTask
          /\ UNCHANGED <<flock, owned, req>>
      BY <1>3, StartFacts
    <2>2. acq[t].pc # "idle" /\ UNCHANGED <<mutex, guarded>>
      BY <1>3 DEF ReadDir, ReadFiles, history
    <2> QED
      BY <1>a, <1>b, <1>c, <2>1, <2>2 DEF GuardSound
  <1>4. ASSUME NEW t \in Tasks, ListFails(t) \/ AcquireFails(t) \/ Decide(t)
        PROVE  GuardSound'
    <2>1. mutex' = NoTask
      BY <1>4, EndFacts
    <2> QED
      BY <2>1 DEF GuardSound
  <1>5. ASSUME NEW t \in Tasks, NEW u \in Tasks, Probe(t, u)
        PROVE  GuardSound'
    <2>1. /\ mutex = t /\ UNCHANGED <<mutex, guarded, owned, req>>
          /\ acq'[t].stale = acq[t].stale
      BY <1>5, <1>b, ProbeFacts
    <2>2. ASSUME NEW v \in guarded
          PROVE  flock'[v] = "child" /\ v # acq'[t].cur
      <3>1. v \in Tasks /\ v # NoTask /\ flock[v] = "child"
        BY <1>a, <1>c, <2>1
      <3> QED
        <4>1. \/ flock' = flock /\ (acq'[t].cur = NoTask \/ (acq'[t].cur = u /\ flock[u] = "absent"))
              \/ flock[u] = "free" /\ flock' = [flock EXCEPT ![u] = "probe"] /\ acq'[t].cur = u
          BY <1>5, ProbeFacts
        <4> QED
          BY <1>f, <3>1, <4>1
    <2> QED
      BY <1>a, <2>1, <2>2 DEF GuardSound
  <1>6. ASSUME NEW t \in Tasks, DropProbe(t)
        PROVE  GuardSound'
    <2>1. /\ mutex = t /\ UNCHANGED <<mutex, guarded, owned, req>>
          /\ acq'[t].stale = acq[t].stale \cup {acq[t].cur} /\ acq'[t].cur = NoTask
      BY <1>6, <1>b, DropFacts
    <2>2. ASSUME NEW v \in guarded
          PROVE  flock'[v] = "child"
      <3>1. v \in Tasks /\ flock[v] = "child" /\ v # acq[t].cur
        BY <1>a, <2>1
      <3> QED
        <4>1. flock' = [flock EXCEPT ![acq[t].cur] = "free"]
          BY <1>6, DropFacts
        <4> QED
          BY <1>f, <3>1, <4>1
    <2> QED
      BY <1>a, <1>c, <2>1, <2>2 DEF GuardSound
  <1>7. ASSUME NEW t \in Tasks, LoadState(t)
        PROVE  GuardSound'
    <2>1. /\ mutex = t /\ UNCHANGED <<mutex, guarded, flock, owned, req>>
          /\ acq'[t].stale \subseteq acq[t].stale \cup {acq[t].cur} /\ acq'[t].cur = NoTask
      BY <1>7, <1>b, LoadFacts
    <2> QED
      BY <1>a, <1>c, <2>1 DEF GuardSound
  <1>8. ASSUME NEW t \in Tasks, NEW u \in Tasks, DeleteStale(t, u)
        PROVE  GuardSound'
    <2>1. /\ mutex = t /\ UNCHANGED <<mutex, guarded, flock, req>>
          /\ acq'[t].stale = acq[t].stale \ {u} /\ acq'[t].cur = NoTask
          /\ u \in acq[t].stale
      BY <1>8, <1>b, DeleteFacts
    <2>2. \A v \in guarded : owned'[v] = owned[v]
      <3>1. \A v \in guarded : v \in Tasks /\ v # u
        BY <1>a, <2>1
      <3> QED
        BY <1>8, <3>1 DEF DeleteStale, TypeOK
    <2> QED
      BY <1>a, <1>c, <2>1, <2>2 DEF GuardSound
  <1>9. ASSUME NEW t \in Tasks, ObserverTakes(t)
        PROVE  GuardSound'
    <2>1. /\ UNCHANGED <<acq, mutex, guarded, owned, req>> /\ flock[t] = "free"
          /\ \A v \in Tasks : v # t => flock'[v] = flock[v]
      BY <1>9 DEF ObserverTakes, TypeOK, history
    <2> QED
      BY <1>a, <2>1 DEF GuardSound
  <1>10. ASSUME ObserverDrops
        PROVE  GuardSound'
    <2>1. /\ UNCHANGED <<acq, mutex, guarded, owned, req>> /\ flock[observed] = "probe"
          /\ \A v \in Tasks : v # observed => flock'[v] = flock[v]
      BY <1>10 DEF ObserverDrops, ProbeSound, TypeOK, history
    <2> QED
      BY <1>a, <2>1 DEF GuardSound
  <1>11. ASSUME Restart
        PROVE  GuardSound'
    BY <1>11 DEF Restart, GuardSound
  <1>12. CASE UNCHANGED vars
    BY <1>12 DEF vars, GuardSound
  <1> QED
    BY <1>1, <1>2, <1>3, <1>4, <1>5, <1>6, <1>7, <1>8, <1>9, <1>10, <1>11,
       <1>12 DEF Next, Acquire

\* The clean-up of stale locks never takes the lock of a task whose child has
\* held task.lock since the acquisition began.
THEOREM RunningKeepsLock == Spec => []HeldLockSurvives
  <1>1. Init => GuardSound
    BY DEF Init, GuardSound
  <1>2. TypeOK /\ GuardSound => HeldLockSurvives
    BY DEF TypeOK, GuardSound, HeldLockSurvives
  <1> QED
    BY <1>1, <1>2, TypeCorrect, LocksAlwaysDisjoint, HoldersSound, GuardStep, PTL
       DEF Spec

-----------------------------------------------------------------------------
(* Two children on the same path.                                          *)

\* From its acquisition to the end of its child a task keeps its lock unless
\* it was robbed of it.
LockKept ==
    \A t \in Tasks :
        stage[t] \in {"awaiting", "starting", "opened", "running", "dead",
                      "resumed", "abandoned"} /\ t \notin robbed
        => owned[t] = req[t]

\* A lock is released only once its task is closing or was never admitted.
LEMMA KeptStep ==
    TypeOK /\ MutexSound /\ LockKept /\ [Next]_vars => LockKept'
  <1> SUFFICES ASSUME TypeOK, MutexSound, LockKept, [Next]_vars PROVE LockKept'
    OBVIOUS
  <1> USE PathLocksAssumption
  <1>a. /\ stage \in [Tasks -> Stages]
        /\ req \in [Tasks -> SUBSET Paths]
        /\ owned \in [Tasks -> SUBSET Paths]
    BY DEF TypeOK
  <1>b. \A s \in Tasks : acq[s].pc # "idle" => stage[s] = "acquiring"
    BY DEF MutexSound
  <1>1. ASSUME NEW t \in Tasks, Submit(t)
        PROVE  LockKept'
    BY <1>1, <1>a DEF Submit, LockKept, history
  <1>2. ASSUME NEW t \in Tasks, AdmissionRefused(t)
        PROVE  LockKept'
    BY <1>2, <1>a DEF AdmissionRefused, Move, LockKept, history
  <1>3. ASSUME NEW t \in Tasks, CancelQueued(t)
        PROVE  LockKept'
    BY <1>3, <1>a DEF CancelQueued, Move, LockKept, history
  <1>4. ASSUME NEW t \in Tasks, RecordStarting(t)
        PROVE  LockKept'
    BY <1>4, <1>a DEF RecordStarting, Move, LockKept, history
  <1>5. ASSUME NEW t \in Tasks, OpenTaskLock(t)
        PROVE  LockKept'
    BY <1>5, <1>a DEF OpenTaskLock, Move, LockKept, history
  <1>6. ASSUME NEW t \in Tasks, FlockForChild(t)
        PROVE  LockKept'
    BY <1>6, <1>a DEF FlockForChild, Move, LockKept, history
  <1>7. ASSUME NEW t \in Tasks, LaunchFails(t)
        PROVE  LockKept'
    BY <1>7, <1>a DEF LaunchFails, Move, LockKept, history
  <1>8. ASSUME NEW t \in Tasks, ChildDies(t)
        PROVE  LockKept'
    BY <1>8, <1>a DEF ChildDies, Move, LockKept, history
  <1>9. ASSUME NEW t \in Tasks, Resume(t)
        PROVE  LockKept'
    BY <1>9, <1>a DEF Resume, Move, LockKept, history
  <1>10. ASSUME NEW t \in Tasks, ResumeFails(t)
        PROVE  LockKept'
    BY <1>10, <1>a DEF ResumeFails, Move, LockKept, history
  <1>11. ASSUME NEW t \in Tasks, ResumeEnds(t)
        PROVE  LockKept'
    BY <1>11, <1>a DEF ResumeEnds, Move, LockKept, history
  <1>12. ASSUME NEW t \in Tasks, ResumeAbandoned(t)
        PROVE  LockKept'
    BY <1>12, <1>a DEF ResumeAbandoned, Move, LockKept, history
  <1>13. ASSUME NEW t \in Tasks, AbandonedDies(t)
        PROVE  LockKept'
    BY <1>13, <1>a DEF AbandonedDies, Move, LockKept, history
  <1>14. ASSUME NEW t \in Tasks, Finalize(t)
        PROVE  LockKept'
    BY <1>14, <1>a DEF Finalize, Move, LockKept, history
  <1>15. ASSUME NEW t \in Tasks, Release(t)
        PROVE  LockKept'
    BY <1>15, <1>a DEF Release, Move, LockKept, history
  <1>16. ASSUME NEW t \in Tasks, Lock(t) \/ ReadDir(t) \/ ReadFiles(t)
        PROVE  LockKept'
    BY <1>16, StartFacts DEF LockKept
  <1>17. ASSUME NEW t \in Tasks, ListFails(t)
        PROVE  LockKept'
    BY <1>17, <1>a, <1>b DEF ListFails, LockKept, history
  <1>18. ASSUME NEW t \in Tasks, AcquireFails(t)
        PROVE  LockKept'
    BY <1>18, <1>a, <1>b DEF AcquireFails, LockKept, history
  <1>19. ASSUME NEW t \in Tasks, Decide(t)
        PROVE  LockKept'
    BY <1>19, <1>a, <1>b DEF Decide, LockKept, history
  <1>20. ASSUME NEW t \in Tasks, NEW u \in Tasks, Probe(t, u)
        PROVE  LockKept'
    BY <1>20 DEF Probe, LockKept
  <1>21. ASSUME NEW t \in Tasks, DropProbe(t)
        PROVE  LockKept'
    BY <1>21, DropFacts DEF LockKept
  <1>22. ASSUME NEW t \in Tasks, LoadState(t)
        PROVE  LockKept'
    BY <1>22, LoadFacts DEF LockKept
  <1>23. ASSUME NEW t \in Tasks, NEW u \in Tasks, DeleteStale(t, u)
        PROVE  LockKept'
    BY <1>23, <1>a DEF DeleteStale, Over, LockKept, taskVars
  <1>24. ASSUME NEW t \in Tasks, ObserverTakes(t)
        PROVE  LockKept'
    BY <1>24 DEF ObserverTakes, LockKept, history
  <1>25. ASSUME ObserverDrops
        PROVE  LockKept'
    BY <1>25 DEF ObserverDrops, LockKept, history
  <1>26. ASSUME Restart
        PROVE  LockKept'
    BY SMTT(60), <1>26, <1>a DEF Restart, LockKept, Stages
  <1>27. CASE UNCHANGED vars
    BY <1>27 DEF vars, LockKept
  <1> QED
    BY <1>1, <1>2, <1>3, <1>4, <1>5, <1>6, <1>7, <1>8, <1>9, <1>10, <1>11,
       <1>12, <1>13, <1>14, <1>15, <1>16, <1>17, <1>18, <1>19, <1>20, <1>21,
       <1>22, <1>23, <1>24, <1>25, <1>26, <1>27 DEF Next, Acquire, Live

\* Two children share a path only after one of them was robbed.
THEOREM ChildrenExclude == Spec => []Exclusion
  <1>1. Init => LockKept
    BY DEF Init, LockKept
  <1>2. ChildSound /\ LockKept /\ LocksDisjoint => Exclusion
    BY DEF ChildSound, LockKept, LocksDisjoint, Exclusion
  <1> QED
    BY <1>1, <1>2, TypeCorrect, LocksAlwaysDisjoint, HoldersSound, KeptStep, PTL
       DEF Spec

-----------------------------------------------------------------------------
(* A finished task blocks no one.                                          *)

\* task.json never says queued or starting before the launch nor after the end.
RecordSound ==
    \A t \in Tasks :
        /\ stage[t] \in {"new", "acquiring", "awaiting"} => recorded[t] = "none"
        /\ stage[t] \in {"resumed", "abandoned", "closing", "over",
                         "cancelled"} =>
             recorded[t] # "launching"

\* A settled task stays so, and the verdict on it is stale unless contended.
SettledSound ==
    /\ \A u \in settled : stage[u] = "over" /\ flock[u] # "child"
    /\ \A t \in Tasks : mutex = t => acq[t].alive \cap settled \subseteq contended

\* The states that adoption, finalization and recovery write.
LEMMA RecordStep ==
    TypeOK /\ MutexSound /\ RecordSound /\ [Next]_vars => RecordSound'
  <1> SUFFICES ASSUME TypeOK, MutexSound, RecordSound, [Next]_vars PROVE RecordSound'
    OBVIOUS
  <1> USE PathLocksAssumption
  <1>a. /\ stage \in [Tasks -> Stages]
        /\ recorded \in [Tasks -> {"none", "launching", "other"}]
    BY DEF TypeOK
  <1>b. \A s \in Tasks : acq[s].pc # "idle" => stage[s] = "acquiring"
    BY DEF MutexSound
  <1>1. ASSUME NEW t \in Tasks, Submit(t)
        PROVE  RecordSound'
    BY <1>1, <1>a DEF Submit, RecordSound
  <1>2. ASSUME NEW t \in Tasks, AdmissionRefused(t)
        PROVE  RecordSound'
    BY <1>2, <1>a DEF AdmissionRefused, Move, RecordSound
  <1>3. ASSUME NEW t \in Tasks, CancelQueued(t)
        PROVE  RecordSound'
    BY <1>3, <1>a DEF CancelQueued, Move, RecordSound
  <1>4. ASSUME NEW t \in Tasks, RecordStarting(t)
        PROVE  RecordSound'
    BY <1>4, <1>a DEF RecordStarting, Move, RecordSound
  <1>5. ASSUME NEW t \in Tasks, OpenTaskLock(t)
        PROVE  RecordSound'
    BY <1>5, <1>a DEF OpenTaskLock, Move, RecordSound
  <1>6. ASSUME NEW t \in Tasks, FlockForChild(t)
        PROVE  RecordSound'
    BY <1>6, <1>a DEF FlockForChild, Move, RecordSound
  <1>7. ASSUME NEW t \in Tasks, LaunchFails(t)
        PROVE  RecordSound'
    BY <1>7, <1>a DEF LaunchFails, Move, RecordSound
  <1>8. ASSUME NEW t \in Tasks, ChildDies(t)
        PROVE  RecordSound'
    BY <1>8, <1>a DEF ChildDies, Move, RecordSound
  <1>9. ASSUME NEW t \in Tasks, Resume(t)
        PROVE  RecordSound'
    BY <1>9, <1>a DEF Resume, Move, RecordSound
  <1>10. ASSUME NEW t \in Tasks, ResumeFails(t)
        PROVE  RecordSound'
    BY <1>10, <1>a DEF ResumeFails, Move, RecordSound
  <1>11. ASSUME NEW t \in Tasks, ResumeEnds(t)
        PROVE  RecordSound'
    BY <1>11, <1>a DEF ResumeEnds, Move, RecordSound
  <1>12. ASSUME NEW t \in Tasks, ResumeAbandoned(t)
        PROVE  RecordSound'
    BY <1>12, <1>a DEF ResumeAbandoned, Move, RecordSound
  <1>13. ASSUME NEW t \in Tasks, AbandonedDies(t)
        PROVE  RecordSound'
    BY <1>13, <1>a DEF AbandonedDies, Move, RecordSound
  <1>14. ASSUME NEW t \in Tasks, Finalize(t)
        PROVE  RecordSound'
    BY <1>14, <1>a DEF Finalize, Move, RecordSound
  <1>15. ASSUME NEW t \in Tasks, Release(t)
        PROVE  RecordSound'
    BY <1>15, <1>a DEF Release, Move, RecordSound
  <1>16. ASSUME NEW t \in Tasks, Lock(t) \/ ReadDir(t) \/ ReadFiles(t)
        PROVE  RecordSound'
    BY <1>16, StartFacts DEF RecordSound
  <1>17. ASSUME NEW t \in Tasks, ListFails(t)
        PROVE  RecordSound'
    BY <1>17, <1>a, <1>b DEF ListFails, RecordSound
  <1>18. ASSUME NEW t \in Tasks, AcquireFails(t)
        PROVE  RecordSound'
    BY <1>18, <1>a, <1>b DEF AcquireFails, RecordSound
  <1>19. ASSUME NEW t \in Tasks, Decide(t)
        PROVE  RecordSound'
    BY <1>19, <1>a, <1>b DEF Decide, RecordSound
  <1>20. ASSUME NEW t \in Tasks, NEW u \in Tasks, Probe(t, u)
        PROVE  RecordSound'
    BY <1>20 DEF Probe, RecordSound
  <1>21. ASSUME NEW t \in Tasks, DropProbe(t)
        PROVE  RecordSound'
    BY <1>21, DropFacts DEF RecordSound
  <1>22. ASSUME NEW t \in Tasks, LoadState(t)
        PROVE  RecordSound'
    BY <1>22, LoadFacts DEF RecordSound
  <1>23. ASSUME NEW t \in Tasks, NEW u \in Tasks, DeleteStale(t, u)
        PROVE  RecordSound'
    BY <1>23, DeleteFacts DEF RecordSound
  <1>24. ASSUME NEW t \in Tasks, ObserverTakes(t)
        PROVE  RecordSound'
    BY <1>24 DEF ObserverTakes, RecordSound
  <1>25. ASSUME ObserverDrops
        PROVE  RecordSound'
    BY <1>25 DEF ObserverDrops, RecordSound
  <1>26. ASSUME Restart
        PROVE  RecordSound'
    BY SMTT(60), <1>26, <1>a DEF Restart, RecordSound, Stages
  <1>27. CASE UNCHANGED vars
    BY <1>27 DEF vars, RecordSound
  <1> QED
    BY <1>1, <1>2, <1>3, <1>4, <1>5, <1>6, <1>7, <1>8, <1>9, <1>10, <1>11,
       <1>12, <1>13, <1>14, <1>15, <1>16, <1>17, <1>18, <1>19, <1>20, <1>21,
       <1>22, <1>23, <1>24, <1>25, <1>26, <1>27 DEF Next, Acquire, Live

\* Only another probe makes a settled task look alive.
LEMMA SettledStep ==
    TypeOK /\ MutexSound /\ RecordSound /\ SettledSound /\ [Next]_vars
    => SettledSound'
  <1> SUFFICES ASSUME TypeOK, MutexSound, RecordSound, SettledSound, [Next]_vars
               PROVE  SettledSound'
    OBVIOUS
  <1> USE PathLocksAssumption
  <1>a. \A v \in settled : v \in Tasks /\ stage[v] = "over" /\ flock[v] # "child"
    BY DEF SettledSound, TypeOK
  <1>b. \A s \in Tasks : mutex = s => acq[s].alive \cap settled \subseteq contended
    BY DEF SettledSound
  <1>c. \A s \in Tasks : acq[s].pc # "idle" => mutex = s /\ stage[s] = "acquiring"
    BY DEF MutexSound
  <1>f. flock \in [Tasks -> {"absent", "free", "child", "probe"}]
    BY DEF TypeOK
  <1>1. ASSUME NEW t \in Tasks, Submit(t) \/ Live(t)
        PROVE  SettledSound'
    <2>1. /\ UNCHANGED <<acq, mutex, settled, contended>> /\ stage[t] # "over"
          /\ \A v \in Tasks : v # t => stage'[v] = stage[v] /\ flock'[v] = flock[v]
      BY <1>1, LifeFrame
    <2> QED
      BY <1>a, <1>b, <2>1 DEF SettledSound
  <1>2. ASSUME NEW t \in Tasks, Lock(t)
        PROVE  SettledSound'
    <2>1. acq'[t].alive = {} /\ UNCHANGED <<stage, flock>>
      BY <1>2, StartFacts
    <2>2. mutex' = t /\ settled' = {u \in Tasks : stage[u] = "over" /\ flock[u] # "child"}
      BY <1>2 DEF Lock
    <2> QED
      BY <2>1, <2>2 DEF SettledSound
  <1>3. ASSUME NEW t \in Tasks, ReadDir(t) \/ ReadFiles(t)
        PROVE  SettledSound'
    <2>1. acq'[t].alive = {} /\ UNCHANGED <<stage, flock>>
      BY <1>3, StartFacts
    <2>2. acq[t].pc # "idle" /\ UNCHANGED <<mutex, settled, contended>>
      BY <1>3 DEF ReadDir, ReadFiles, history
    <2> QED
      BY <1>a, <1>c, <2>1, <2>2 DEF SettledSound
  <1>4. ASSUME NEW t \in Tasks, ListFails(t) \/ AcquireFails(t) \/ Decide(t)
        PROVE  SettledSound'
    <2>1. /\ mutex' = NoTask /\ UNCHANGED <<flock, settled>> /\ stage[t] = "acquiring"
          /\ \A s \in Tasks : s # t => stage'[s] = stage[s]
      BY <1>4, <1>c, EndFacts
    <2> QED
      BY <1>a, <2>1 DEF SettledSound
  <1>5. ASSUME NEW t \in Tasks, NEW u \in Tasks, Probe(t, u)
        PROVE  SettledSound'
    <2>1. mutex = t /\ mutex' = mutex /\ settled' = settled /\ stage' = stage
      BY <1>5, <1>c DEF Probe
    <2>2. \A v \in settled : flock'[v] # "child"
      <3>1. flock' = flock \/ flock' = [flock EXCEPT ![u] = "probe"]
        BY <1>5, ProbeFacts
      <3> QED
        BY <1>a, <1>f, <3>1
    <2>3. acq[t].alive \cap settled \subseteq contended
      BY <1>b, <2>1
    <2>4. acq'[t].alive \cap settled \subseteq contended'
      <3>1. u \in settled => flock[u] # "child"
        BY <1>a
      <3> QED
        <4>1. \/ /\ flock[u] \in {"child", "probe"} /\ acq'[t].alive = acq[t].alive \cup {u}
                 /\ contended' = IF flock[u] = "probe" THEN contended \cup {u} ELSE contended
              \/ acq'[t].alive = acq[t].alive /\ contended' = contended
          BY <1>5, ProbeFacts
        <4> QED
          BY <2>3, <3>1, <4>1
    <2> QED
      BY <1>a, <2>1, <2>2, <2>4 DEF SettledSound
  <1>6. ASSUME NEW t \in Tasks, DropProbe(t)
        PROVE  SettledSound'
    <2>1. /\ mutex = t /\ UNCHANGED <<mutex, stage, settled, contended>>
          /\ acq'[t].alive = acq[t].alive
      BY <1>6, <1>c, DropFacts
    <2>2. \A v \in settled : flock'[v] # "child"
      <3>1. flock' = [flock EXCEPT ![acq[t].cur] = "free"]
        BY <1>6, DropFacts
      <3> QED
        BY <1>a, <1>f, <3>1
    <2> QED
      BY <1>a, <1>b, <2>1, <2>2 DEF SettledSound
  <1>7. ASSUME NEW t \in Tasks, LoadState(t)
        PROVE  SettledSound'
    <2> DEFINE u == acq[t].cur
    <2>1. /\ mutex = t /\ UNCHANGED <<mutex, stage, flock, settled, contended>>
          /\ u \in Tasks
          /\ \/ acq'[t].alive = acq[t].alive
             \/ acq'[t].alive = acq[t].alive \cup {u} /\ recorded[u] = "launching"
      BY <1>7, <1>c, LoadFacts
    <2>2. recorded[u] = "launching" => u \notin settled
      BY <1>a, <2>1 DEF RecordSound
    <2>3. acq'[t].alive \cap settled = acq[t].alive \cap settled
      BY <2>1, <2>2
    <2> QED
      BY <1>a, <1>b, <2>1, <2>3 DEF SettledSound
  <1>8. ASSUME NEW t \in Tasks, NEW u \in Tasks, DeleteStale(t, u)
        PROVE  SettledSound'
    <2>1. /\ mutex = t /\ UNCHANGED <<mutex, stage, flock, settled, contended>>
          /\ acq'[t].alive = acq[t].alive
      BY <1>8, <1>c, DeleteFacts
    <2> QED
      BY <1>a, <1>b, <2>1 DEF SettledSound
  <1>9. ASSUME NEW t \in Tasks, ObserverTakes(t)
        PROVE  SettledSound'
    <2>1. /\ UNCHANGED <<acq, mutex, stage, settled, contended>>
          /\ \A v \in Tasks : flock'[v] = "probe" \/ flock'[v] = flock[v]
      BY <1>9 DEF ObserverTakes, TypeOK, history
    <2> QED
      BY <1>a, <1>b, <2>1 DEF SettledSound
  <1>10. ASSUME ObserverDrops
        PROVE  SettledSound'
    <2>1. /\ UNCHANGED <<acq, mutex, stage, settled, contended>>
          /\ \A v \in Tasks : flock'[v] = "free" \/ flock'[v] = flock[v]
      BY <1>10 DEF ObserverDrops, TypeOK, history
    <2> QED
      BY <1>a, <1>b, <2>1 DEF SettledSound
  <1>11. ASSUME Restart
        PROVE  SettledSound'
    BY <1>11 DEF Restart, SettledSound
  <1>12. CASE UNCHANGED vars
    BY <1>12 DEF vars, SettledSound
  <1> QED
    BY <1>1, <1>2, <1>3, <1>4, <1>5, <1>6, <1>7, <1>8, <1>9, <1>10, <1>11,
       <1>12 DEF Next, Acquire

\* The lock of a task that was over never makes an acquisition fail, unless
\* two probes met.
THEOREM FinishedNeverBlocks == Spec => []StaleNeverBlocks
  <1>1. Init => RecordSound /\ SettledSound
    BY DEF Init, RecordSound, SettledSound
  <1>2. SettledSound => StaleNeverBlocks
    BY DEF SettledSound, StaleNeverBlocks
  <1> QED
    BY <1>1, <1>2, TypeCorrect, LocksAlwaysDisjoint, RecordStep, SettledStep, PTL
       DEF Spec
=============================================================================
