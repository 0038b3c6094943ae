----------------------- MODULE AdmissionServiceProofs -----------------------
(* How the queue serves the waiting tasks, for every value of the          *)
(* constants: one start per task, first come first served, no idle slot.   *)
EXTENDS AdmissionProofs

\* What AdmissionProofs establishes of every reachable state.
Sound == TypeOK /\ CallsSound /\ QueueExact

\* Sound is an invariant.
LEMMA SoundAlways == Spec => []Sound
  BY TypeCorrect, QueueCorrect, PTL DEF Sound

-----------------------------------------------------------------------------
(* Starts.                                                                 *)

StartsInv == StartsSound /\ StartedOnce

\* A start is accepted once: its task leaves the phases that can be started.
LEMMA StartsStep ==
    Sound /\ StartsInv /\ [Next]_vars => StartsInv'
  <1> SUFFICES ASSUME Sound, StartsInv, [Next]_vars
               PROVE  StartsInv'
    OBVIOUS
  <1>0. /\ rel \in [Calls -> CallStates] /\ phase \in [Tasks -> Phases]
        /\ queue \in Seq(Tasks) /\ starts \in [Tasks -> Nat]
        /\ saved \in [Tasks -> {"none", "live", "terminal"}]
        /\ \A c \in Calls :
             /\ rel[c].pc = "confirm" \/ Busy(c) => rel[c].task \in Tasks
             /\ Carrying(c) => rel[c].payload \in Tasks
             /\ rel[c] = IdleCall => rel[c].pc = "idle"
    BY CallsTyped DEF Sound, TypeOK
  <1>1. ASSUME NEW t \in Tasks, AdmitNow(t)
        PROVE  StartsInv'
    BY <1>1, <1>0 DEF AdmitNow, StartsInv, StartsSound, StartedOnce, hist
  <1>2. ASSUME NEW t \in Tasks, Enqueue(t)
        PROVE  StartsInv'
    BY <1>2, <1>0 DEF Enqueue, StartsInv, StartsSound, StartedOnce, hist
  <1>3. ASSUME NEW t \in Tasks, RefuseFull(t)
        PROVE  StartsInv'
    BY <1>3, <1>0 DEF RefuseFull, StartsInv, StartsSound, StartedOnce, hist
  <1>4. ASSUME NEW t \in Tasks, SubmitStart(t)
        PROVE  StartsInv'
    BY <1>4, <1>0 DEF SubmitStart, StartsInv, StartsSound, StartedOnce, hist
  <1>5. ASSUME NEW t \in Tasks, SubmitCompensate(t)
        PROVE  StartsInv'
    BY <1>5, <1>0 DEF SubmitCompensate, StartsInv, StartsSound, StartedOnce, hist
  <1>6. ASSUME NEW t \in Tasks, RecordStarting(t)
        PROVE  StartsInv'
    BY <1>6, <1>0 DEF RecordStarting, StartsInv, StartsSound, StartedOnce, hist
  <1>7. ASSUME NEW t \in Tasks, LifecycleReturn(t)
        PROVE  StartsInv'
    BY <1>7, <1>0 DEF LifecycleReturn, StartsInv, StartsSound, StartedOnce, hist
  <1>8. ASSUME NEW t \in Tasks, NEW c \in Calls, Finish(t, c)
        PROVE  StartsInv'
    BY <1>8, <1>0 DEF Finish, StartsInv, StartsSound, StartedOnce, hist, Sound,
       CallsSound, Busy, Carrying, At, Holding, IdleCall
  <1>9. ASSUME NEW i \in 1 .. Len(queue), NEW c \in Calls, CancelQueued(i, c)
        PROVE  StartsInv'
    <2>1. queue[i] \in Tasks /\ phase[queue[i]] = "queued"
      BY <1>9, <1>0 DEF CancelQueued, Sound, QueueExact
    <2> QED
      BY <1>9, <1>0, <2>1 DEF CancelQueued, StartsInv, StartsSound, StartedOnce, hist
  <1>10. ASSUME NEW i \in 1 .. Len(queue), CancelRestored(i)
        PROVE  StartsInv'
    BY <1>10, <1>0 DEF CancelRestored, StartsInv, StartsSound, StartedOnce, hist
  <1>11. ASSUME NEW c \in Calls, ConfirmQueuedKill(c)
        PROVE  StartsInv'
    BY <1>11, <1>0 DEF ConfirmQueuedKill, StartsInv, StartsSound, StartedOnce, hist, Sound,
       CallsSound, Busy, Carrying, At, Holding, IdleCall
  <1>12. ASSUME NEW c \in Calls, ConfirmQueuedKillFails(c)
        PROVE  StartsInv'
    BY <1>12, <1>0 DEF ConfirmQueuedKillFails, StartsInv, StartsSound, StartedOnce, hist, Sound,
       CallsSound, Busy, Carrying, At, Holding, IdleCall
  <1>13. ASSUME NEW c \in Calls, AdvanceNothing(c)
        PROVE  StartsInv'
    BY <1>13, <1>0 DEF AdvanceNothing, StartsInv, StartsSound, StartedOnce, hist, Sound,
       CallsSound, Busy, Carrying, At, Holding, IdleCall
  <1>14. ASSUME NEW c \in Calls, AdvancePromote(c)
        PROVE  StartsInv'
    <2>1. Head(queue) \in Tasks /\ phase[Head(queue)] = "queued"
      BY <1>14, <1>0 DEF AdvancePromote, Sound, QueueExact
    <2> QED
      BY <1>14, <1>0, <2>1 DEF AdvancePromote, StartsInv, StartsSound, StartedOnce, hist
  <1>15. ASSUME NEW c \in Calls, AdvanceAborted(c)
        PROVE  StartsInv'
    BY <1>15, <1>0 DEF AdvanceAborted, StartsInv, StartsSound, StartedOnce, hist, Sound,
       CallsSound, Busy, Carrying, At, Holding, IdleCall
  <1>16. ASSUME NEW c \in Calls, StartPayload(c)
        PROVE  StartsInv'
    BY <1>16, <1>0 DEF StartPayload, StartsInv, StartsSound, StartedOnce, hist, Sound,
       CallsSound, Busy, Carrying, At, Holding, IdleCall
  <1>17. ASSUME NEW c \in Calls, CommitStart(c)
        PROVE  StartsInv'
    BY <1>17, <1>0 DEF CommitStart, StartsInv, StartsSound, StartedOnce, hist, Sound,
       CallsSound, Busy, Carrying, At, Holding, IdleCall
  <1>18. ASSUME NEW c \in Calls, CompensateRejectedStart(c)
        PROVE  StartsInv'
    BY <1>18, <1>0 DEF CompensateRejectedStart, StartsInv, StartsSound, StartedOnce, hist, Sound,
       CallsSound, Busy, Carrying, At, Holding, IdleCall
  <1>19. ASSUME Shutdown
        PROVE  StartsInv'
    BY <1>19, <1>0 DEF Shutdown, StartsInv, StartsSound, StartedOnce, hist
  <1>20. ASSUME Restart
        PROVE  StartsInv'
    <2>1. starts' = starts /\ \A t \in Tasks :
            /\ phase'[t] \in {"running", "ended", "new", "gone"}
            /\ phase'[t] = "new" => phase[t] = "new"
      BY <1>20, RestartFacts DEF Restart, Sound
    <2> QED
      BY <2>1 DEF StartsInv, StartsSound, StartedOnce
  <1>21. CASE UNCHANGED vars
    BY <1>21 DEF vars, StartsInv, StartsSound, StartedOnce
  <1> QED
    BY <1>1, <1>2, <1>3, <1>4, <1>5, <1>6, <1>7, <1>8, <1>9, <1>10, <1>11,
       <1>12, <1>13, <1>14, <1>15, <1>16, <1>17, <1>18, <1>19, <1>20, <1>21
       DEF Next, Submit, Release

\* DefaultTaskLifecycleStarter accepts each task at most once, compensated
\* promotions included.
THEOREM StartedAtMostOnce == Spec => []StartedOnce
  <1>1. Init => StartsInv
    BY DEF Init, StartsInv, StartsSound, StartedOnce
  <1>2. StartsInv => StartedOnce
    BY DEF StartsInv
  <1> QED
    BY <1>1, <1>2, SoundAlways, StartsStep, PTL DEF Spec

-----------------------------------------------------------------------------
(* Visibility.                                                             *)

\* A launching snapshot is withdrawn once task.json exists or the gate closed.
LEMMA VisibleStep ==
    Sound /\ Visible /\ [Next]_vars => Visible'
  <1> SUFFICES ASSUME Sound, Visible, [Next]_vars
               PROVE  Visible'
    OBVIOUS
  <1>0. /\ rel \in [Calls -> CallStates] /\ phase \in [Tasks -> Phases]
        /\ queue \in Seq(Tasks) /\ starts \in [Tasks -> Nat]
        /\ saved \in [Tasks -> {"none", "live", "terminal"}]
        /\ \A c \in Calls :
             /\ rel[c].pc = "confirm" \/ Busy(c) => rel[c].task \in Tasks
             /\ Carrying(c) => rel[c].payload \in Tasks
             /\ rel[c] = IdleCall => rel[c].pc = "idle"
    BY CallsTyped DEF Sound, TypeOK
  <1>1. ASSUME NEW t \in Tasks, AdmitNow(t)
        PROVE  Visible'
    BY <1>1, <1>0 DEF AdmitNow, Visible, Owning, hist
  <1>2. ASSUME NEW t \in Tasks, Enqueue(t)
        PROVE  Visible'
    BY <1>2, <1>0 DEF Enqueue, Visible, Owning, hist
  <1>3. ASSUME NEW t \in Tasks, RefuseFull(t)
        PROVE  Visible'
    BY <1>3, <1>0 DEF RefuseFull, Visible, Owning, hist
  <1>4. ASSUME NEW t \in Tasks, SubmitStart(t)
        PROVE  Visible'
    BY <1>4, <1>0 DEF SubmitStart, Visible, Owning, hist
  <1>5. ASSUME NEW t \in Tasks, SubmitCompensate(t)
        PROVE  Visible'
    BY <1>5, <1>0 DEF SubmitCompensate, Visible, Owning, hist
  <1>6. ASSUME NEW t \in Tasks, RecordStarting(t)
        PROVE  Visible'
    BY <1>6, <1>0 DEF RecordStarting, Visible, Owning, hist
  <1>7. ASSUME NEW t \in Tasks, LifecycleReturn(t)
        PROVE  Visible'
    BY <1>7, <1>0 DEF LifecycleReturn, Visible, Owning, hist
  <1>8. ASSUME NEW t \in Tasks, NEW c \in Calls, Finish(t, c)
        PROVE  Visible'
    BY <1>8, <1>0 DEF Finish, Visible, Owning, hist, Sound,
       CallsSound, Busy, Carrying, At, Holding, IdleCall
  <1>9. ASSUME NEW i \in 1 .. Len(queue), NEW c \in Calls, CancelQueued(i, c)
        PROVE  Visible'
    <2>1. queue[i] \in Tasks /\ phase[queue[i]] = "queued"
      BY <1>9, <1>0 DEF CancelQueued, Sound, QueueExact
    <2> QED
      BY <1>9, <1>0, <2>1 DEF CancelQueued, Visible, Owning, hist
  <1>10. ASSUME NEW i \in 1 .. Len(queue), CancelRestored(i)
        PROVE  Visible'
    BY <1>10, <1>0 DEF CancelRestored, Visible, Owning, hist
  <1>11. ASSUME NEW c \in Calls, ConfirmQueuedKill(c)
        PROVE  Visible'
    BY <1>11, <1>0 DEF ConfirmQueuedKill, Visible, Owning, hist, Sound,
       CallsSound, Busy, Carrying, At, Holding, IdleCall
  <1>12. ASSUME NEW c \in Calls, ConfirmQueuedKillFails(c)
        PROVE  Visible'
    BY <1>12, <1>0 DEF ConfirmQueuedKillFails, Visible, Owning, hist, Sound,
       CallsSound, Busy, Carrying, At, Holding, IdleCall
  <1>13. ASSUME NEW c \in Calls, AdvanceNothing(c)
        PROVE  Visible'
    BY <1>13, <1>0 DEF AdvanceNothing, Visible, Owning, hist, Sound,
       CallsSound, Busy, Carrying, At, Holding, IdleCall
  <1>14. ASSUME NEW c \in Calls, AdvancePromote(c)
        PROVE  Visible'
    <2>1. Head(queue) \in Tasks /\ phase[Head(queue)] = "queued"
      BY <1>14, <1>0 DEF AdvancePromote, Sound, QueueExact
    <2> QED
      BY <1>14, <1>0, <2>1 DEF AdvancePromote, Visible, Owning, hist
  <1>15. ASSUME NEW c \in Calls, AdvanceAborted(c)
        PROVE  Visible'
    BY <1>15, <1>0 DEF AdvanceAborted, Visible, Owning, hist, Sound,
       CallsSound, Busy, Carrying, At, Holding, IdleCall
  <1>16. ASSUME NEW c \in Calls, StartPayload(c)
        PROVE  Visible'
    BY <1>16, <1>0 DEF StartPayload, Visible, Owning, hist, Sound,
       CallsSound, Busy, Carrying, At, Holding, IdleCall
  <1>17. ASSUME NEW c \in Calls, CommitStart(c)
        PROVE  Visible'
    BY <1>17, <1>0 DEF CommitStart, Visible, Owning, hist, Sound,
       CallsSound, Busy, Carrying, At, Holding, IdleCall
  <1>18. ASSUME NEW c \in Calls, CompensateRejectedStart(c)
        PROVE  Visible'
    BY <1>18, <1>0 DEF CompensateRejectedStart, Visible, Owning, hist, Sound,
       CallsSound, Busy, Carrying, At, Holding, IdleCall
  <1>19. ASSUME Shutdown
        PROVE  Visible'
    BY <1>19, <1>0 DEF Shutdown, Visible, Owning, hist
  <1>20. ASSUME Restart
        PROVE  Visible'
    <2>1. \A t \in Tasks :
            /\ phase'[t] = "running" <=> saved[t] = "live"
            /\ phase'[t] \in {"running", "ended", "new", "gone"}
      BY <1>20, RestartFacts DEF Sound
    <2>2. saved' = saved
      BY <1>20 DEF Restart
    <2>3. \A t \in Tasks : Owning(t)' => saved'[t] # "none"
      BY <2>1, <2>2 DEF Owning
    <2> QED
      BY <2>3 DEF Visible
  <1>21. CASE UNCHANGED vars
    BY <1>21 DEF vars, Visible, Owning
  <1> QED
    BY <1>1, <1>2, <1>3, <1>4, <1>5, <1>6, <1>7, <1>8, <1>9, <1>10, <1>11,
       <1>12, <1>13, <1>14, <1>15, <1>16, <1>17, <1>18, <1>19, <1>20, <1>21
       DEF Next, Submit, Release

\* A status request finds every accepted task that is not over in the queue,
\* among the launching snapshots or on disk, while the gate is open.
THEOREM AlwaysVisible == Spec => []Visible
  <1>1. Init => Visible
    BY DEF Init, Visible, Owning
  <1> QED
    BY <1>1, SoundAlways, VisibleStep, PTL DEF Spec

-----------------------------------------------------------------------------
(* No idle slot.                                                           *)

\* Whoever makes room at the head of the queue goes on to look at the queue.
LEMMA WorkStep ==
    Sound /\ StartsInv /\ WorkConserving /\ [Next]_vars => WorkConserving'
  <1> SUFFICES ASSUME Sound, StartsInv, WorkConserving, [Next]_vars
               PROVE  WorkConserving'
    OBVIOUS
  <1>0. /\ rel \in [Calls -> CallStates] /\ phase \in [Tasks -> Phases]
        /\ queue \in Seq(Tasks) /\ starts \in [Tasks -> Nat]
        /\ saved \in [Tasks -> {"none", "live", "terminal"}]
        /\ \A c \in Calls :
             /\ rel[c].pc = "confirm" \/ Busy(c) => rel[c].task \in Tasks
             /\ Carrying(c) => rel[c].payload \in Tasks
             /\ rel[c] = IdleCall => rel[c].pc = "idle"
    BY CallsTyped DEF Sound, TypeOK
  <1>1. ASSUME NEW t \in Tasks, AdmitNow(t)
        PROVE  WorkConserving'
    BY <1>1 DEF AdmitNow, Immediate, WorkConserving
  <1>2. ASSUME NEW t \in Tasks, Enqueue(t)
        PROVE  WorkConserving'
    <2>1. active' = active /\ rel' = rel /\ closed' = closed
          /\ queue' = Append(queue, t) /\ phase' = [phase EXCEPT ![t] = "queued"]
          /\ phase[t] = "new"
      BY <1>2 DEF Enqueue
    <2>2. CASE queue = <<>>
      <3>1. Head(queue') = t /\ ~SlotFor(t, active)
        BY <1>2, <2>1, <2>2 DEF Enqueue, Immediate
      <3> QED
        BY <2>1, <3>1 DEF WorkConserving, SlotFor
    <2>3. CASE queue # <<>>
      <3>1. Head(queue') = Head(queue)
        BY <1>0, <2>1, <2>3
      <3> QED
        BY <1>0, <2>1, <2>3, <3>1 DEF WorkConserving, SlotFor
    <2> QED
      BY <2>2, <2>3
  <1>3. ASSUME NEW t \in Tasks, RefuseFull(t)
        PROVE  WorkConserving'
    BY <1>3, <1>0 DEF RefuseFull, WorkConserving, SlotFor, hist
  <1>4. ASSUME NEW t \in Tasks, SubmitStart(t)
        PROVE  WorkConserving'
    BY <1>4, <1>0 DEF SubmitStart, WorkConserving, SlotFor, hist
  <1>5. ASSUME NEW t \in Tasks, SubmitCompensate(t)
        PROVE  WorkConserving'
    <2>1. closed'
      BY <1>5 DEF SubmitCompensate, StartsInv, StartsSound
    <2> QED
      BY <2>1 DEF WorkConserving
  <1>6. ASSUME NEW t \in Tasks, RecordStarting(t)
        PROVE  WorkConserving'
    BY <1>6, <1>0 DEF RecordStarting, WorkConserving, SlotFor, hist
  <1>7. ASSUME NEW t \in Tasks, LifecycleReturn(t)
        PROVE  WorkConserving'
    BY <1>7, <1>0 DEF LifecycleReturn, WorkConserving, SlotFor, hist
  <1>8. ASSUME NEW t \in Tasks, NEW c \in Calls, Finish(t, c)
        PROVE  WorkConserving'
    <2>1. rel'[c] = At("advance", t)
      BY <1>8, <1>0 DEF Finish
    <2>2. rel'[c] # IdleCall
      BY <2>1 DEF At, Holding, IdleCall
    <2> QED
      BY <2>2 DEF WorkConserving
  <1>9. ASSUME NEW i \in 1 .. Len(queue), NEW c \in Calls, CancelQueued(i, c)
        PROVE  WorkConserving'
    <2>1. rel'[c] = At("confirm", queue[i])
      BY <1>9, <1>0 DEF CancelQueued
    <2>2. rel'[c] # IdleCall
      BY <2>1 DEF At, Holding, IdleCall
    <2> QED
      BY <2>2 DEF WorkConserving
  <1>10. ASSUME NEW i \in 1 .. Len(queue), CancelRestored(i)
        PROVE  WorkConserving'
    <2>1. queue' = queue /\ UNCHANGED <<active, rel, closed, phase>>
      BY <1>10, <1>0, RestoreInverse DEF CancelRestored
    <2> QED
      BY <2>1 DEF WorkConserving, SlotFor
  <1>11. ASSUME NEW c \in Calls, ConfirmQueuedKill(c)
        PROVE  WorkConserving'
    <2>1. rel'[c] = At("advance", rel[c].task)
      BY <1>11, <1>0 DEF ConfirmQueuedKill
    <2>2. rel'[c] # IdleCall
      BY <2>1 DEF At, Holding, IdleCall
    <2> QED
      BY <2>2 DEF WorkConserving
  <1>12. ASSUME NEW c \in Calls, ConfirmQueuedKillFails(c)
        PROVE  WorkConserving'
    <2>1. rel[c].task \in Tasks /\ phase'[rel[c].task] = "stuck"
      BY <1>12, <1>0 DEF ConfirmQueuedKillFails
    <2> QED
      BY <2>1 DEF WorkConserving
  <1>13. ASSUME NEW c \in Calls, AdvanceNothing(c)
        PROVE  WorkConserving'
    <2>1. queue' = queue /\ (queue' # <<>> => ~SlotFor(Head(queue'), active'))
      BY <1>13 DEF AdvanceNothing, SlotFor
    <2> QED
      BY <2>1 DEF WorkConserving, SlotFor
  <1>14. ASSUME NEW c \in Calls, AdvancePromote(c)
        PROVE  WorkConserving'
    <2>1. rel'[c] = Holding("start", rel[c].task, Head(queue))
      BY <1>14, <1>0 DEF AdvancePromote
    <2>2. rel'[c] # IdleCall
      BY <2>1 DEF At, Holding, IdleCall
    <2> QED
      BY <2>2 DEF WorkConserving
  <1>15. ASSUME NEW c \in Calls, AdvanceAborted(c)
        PROVE  WorkConserving'
    <2>1. closed'
      BY <1>15 DEF AdvanceAborted
    <2> QED
      BY <2>1 DEF WorkConserving
  <1>16. ASSUME NEW c \in Calls, StartPayload(c)
        PROVE  WorkConserving'
    <2>1. rel'[c] = Holding(IF closed THEN "reject" ELSE "commit", rel[c].task, rel[c].payload)
      BY <1>16, <1>0 DEF StartPayload
    <2>2. rel'[c] # IdleCall
      BY <2>1 DEF At, Holding, IdleCall
    <2> QED
      BY <2>2 DEF WorkConserving
  <1>17. ASSUME NEW c \in Calls, CommitStart(c)
        PROVE  WorkConserving'
    <2>1. rel'[c] = At("advance", rel[c].task)
      BY <1>17, <1>0 DEF CommitStart
    <2>2. rel'[c] # IdleCall
      BY <2>1 DEF At, Holding, IdleCall
    <2> QED
      BY <2>2 DEF WorkConserving
  <1>18. ASSUME NEW c \in Calls, CompensateRejectedStart(c)
        PROVE  WorkConserving'
    <2>1. closed'
      BY <1>18 DEF CompensateRejectedStart, Sound, CallsSound
    <2> QED
      BY <2>1 DEF WorkConserving
  <1>19. ASSUME Shutdown
        PROVE  WorkConserving'
    BY <1>19, <1>0 DEF Shutdown, WorkConserving, SlotFor, hist
  <1>20. ASSUME Restart
        PROVE  WorkConserving'
    <2>1. queue' = <<>>
      BY <1>20 DEF Restart
    <2> QED
      BY <2>1 DEF WorkConserving
  <1>21. CASE UNCHANGED vars
    BY <1>21 DEF vars, WorkConserving, SlotFor
  <1> QED
    BY <1>1, <1>2, <1>3, <1>4, <1>5, <1>6, <1>7, <1>8, <1>9, <1>10, <1>11,
       <1>12, <1>13, <1>14, <1>15, <1>16, <1>17, <1>18, <1>19, <1>20, <1>21
       DEF Next, Submit, Release

\* While the gate is open no slot stays free for the waiting head without a
\* ReleaseAndAdvance in flight.
THEOREM NeverIdle == Spec => []WorkConserving
  <1>1. Init => WorkConserving /\ StartsInv
    BY DEF Init, WorkConserving, StartsInv, StartsSound, StartedOnce
  <1> QED
    BY <1>1, SoundAlways, StartsStep, WorkStep, PTL DEF Spec

-----------------------------------------------------------------------------
(* First come, first served.                                               *)

FifoInv == TicketsSound /\ FifoService

\* The ticket of a new arrival is the next one.
LEMMA TicketTaken ==
    ASSUME TypeOK, TicketsSound, NEW t \in Tasks, phase[t] = "new",
           ticket' = [ticket EXCEPT ![t] = NextTicket]
    PROVE  /\ NextTicket \in Nat /\ NextTicket' = NextTicket + 1
           /\ ticket'[t] = NextTicket
           /\ \A u \in Tasks : /\ ticket[u] \in Nat /\ ticket[u] < NextTicket
                               /\ u # t => ticket'[u] = ticket[u]
  <1> DEFINE G == {u \in Tasks : ticket[u] > 0}
  <1>1. ticket \in [Tasks -> Nat] /\ ticket[t] = 0
    BY DEF TypeOK, TicketsSound
  <1>2. NextTicket \in Nat /\ NextTicket > 0 /\ IsFiniteSet(G) /\ Cardinality(G) \in Nat
    BY CardNat DEF NextTicket
  <1>3. G' = G \cup {t} /\ t \notin G
    BY <1>1, <1>2
  <1>4. Cardinality(G') = Cardinality(G) + 1
    BY <1>2, <1>3, FS_AddElement
  <1> QED
    BY <1>1, <1>2, <1>4 DEF NextTicket, TicketsSound

\* The queue is sorted by tickets and its head has the smallest of them.
LEMMA FifoStep ==
    Sound /\ FifoInv /\ [Next]_vars => FifoInv'
  <1> SUFFICES ASSUME Sound, FifoInv, [Next]_vars
               PROVE  FifoInv'
    OBVIOUS
  <1>0. /\ rel \in [Calls -> CallStates] /\ phase \in [Tasks -> Phases]
        /\ queue \in Seq(Tasks) /\ ticket \in [Tasks -> Nat]
        /\ \A c \in Calls :
             /\ rel[c].pc = "confirm" \/ Busy(c) => rel[c].task \in Tasks
             /\ Carrying(c) => rel[c].payload \in Tasks
             /\ rel[c] = IdleCall => rel[c].pc = "idle"
    BY CallsTyped DEF Sound, TypeOK
  <1>a. \A j \in 1 .. Len(queue) : queue[j] \in Tasks /\ phase[queue[j]] = "queued"
    BY <1>0 DEF Sound, QueueExact
  <1>b. /\ \A t \in Tasks : ticket[t] < NextTicket /\ (phase[t] = "new" => ticket[t] = 0)
        /\ ~closed => \A i, j \in 1 .. Len(queue) :
                         i < j => ticket[queue[i]] < ticket[queue[j]]
        /\ ~closed => \A t, u \in Tasks :
              phase[t] = "queued" /\ Owning(u) /\ u \notin adopted => ticket[u] < ticket[t]
    BY DEF FifoInv, TicketsSound, FifoService
  \* Steps that neither give tickets nor touch the queue, and by which no task
  \* becomes new, starts waiting or gets a slot.
  <1>c. ASSUME UNCHANGED <<queue, ticket, adopted>>, closed => closed',
               \A t \in Tasks : /\ phase'[t] = "new" => phase[t] = "new"
                                /\ phase'[t] = "queued" => phase[t] = "queued"
                                /\ Owning(t)' => Owning(t)
        PROVE  FifoInv'
    <2>1. NextTicket' = NextTicket
      BY <1>c DEF NextTicket
    <2> QED
      BY <1>b, <1>c, <2>1 DEF FifoInv, TicketsSound, FifoService
  <1>1. ASSUME NEW t \in Tasks, AdmitNow(t)
        PROVE  FifoInv'
    <2>1. /\ phase[t] = "new" /\ queue = <<>> /\ queue' = queue /\ adopted' = adopted
          /\ phase' = [phase EXCEPT ![t] = "admitted"]
          /\ ticket' = [ticket EXCEPT ![t] = NextTicket]
      BY <1>1 DEF AdmitNow, Immediate
    <2>2. \A u \in Tasks : phase'[u] # "queued"
      BY <1>0, <2>1 DEF Sound, QueueExact
    <2>3. /\ NextTicket \in Nat /\ NextTicket' = NextTicket + 1
          /\ ticket'[t] = NextTicket
          /\ \A u \in Tasks : /\ ticket[u] \in Nat /\ ticket[u] < NextTicket
                              /\ u # t => ticket'[u] = ticket[u]
      BY <2>1, TicketTaken DEF Sound, FifoInv
    <2>4. \A u \in Tasks : /\ ticket'[u] < NextTicket'
                           /\ phase'[u] = "new" => ticket'[u] = 0
      BY <1>0, <1>b, <2>1, <2>3
    <2> QED
      BY <2>1, <2>2, <2>4 DEF FifoInv, TicketsSound, FifoService
  <1>2. ASSUME NEW t \in Tasks, Enqueue(t)
        PROVE  FifoInv'
    <2>1. /\ phase[t] = "new" /\ queue' = Append(queue, t) /\ adopted' = adopted
          /\ closed' = closed /\ phase' = [phase EXCEPT ![t] = "queued"]
          /\ ticket' = [ticket EXCEPT ![t] = NextTicket]
      BY <1>2 DEF Enqueue
    <2>2. /\ Len(queue) \in Nat /\ Len(queue') = Len(queue) + 1
          /\ queue'[Len(queue) + 1] = t
          /\ \A j \in 1 .. Len(queue) : queue'[j] = queue[j]
      BY <1>0, <2>1
    <2>3. /\ NextTicket \in Nat /\ NextTicket' = NextTicket + 1
          /\ ticket'[t] = NextTicket
          /\ \A u \in Tasks : /\ ticket[u] \in Nat /\ ticket[u] < NextTicket
                              /\ u # t => ticket'[u] = ticket[u]
      BY <2>1, TicketTaken DEF Sound, FifoInv
    <2>4. \A u \in Tasks : /\ ticket'[u] < NextTicket'
                           /\ phase'[u] = "new" => ticket'[u] = 0
      BY <1>0, <1>b, <2>1, <2>3
    <2>5. \A j \in 1 .. Len(queue) : /\ ticket'[queue'[j]] = ticket[queue[j]]
                                     /\ ticket'[queue'[j]] < NextTicket
      BY <1>a, <2>1, <2>2, <2>3
    <2>6. ASSUME ~closed, NEW i \in 1 .. Len(queue'), NEW j \in 1 .. Len(queue'), i < j
          PROVE  ticket'[queue'[i]] < ticket'[queue'[j]]
      <3>1. i \in 1 .. Len(queue)
        BY <2>2, <2>6
      <3>2. CASE j = Len(queue) + 1
        BY <2>2, <2>3, <2>5, <3>1, <3>2
      <3>3. CASE j # Len(queue) + 1
        <4>1. j \in 1 .. Len(queue)
          BY <2>2, <3>3
        <4> QED
          BY <1>b, <2>5, <2>6, <3>1, <4>1
      <3> QED
        BY <3>2, <3>3
    <2>7. \A u \in Tasks : Owning(u)' => Owning(u) /\ u # t /\ ticket'[u] = ticket[u]
      BY <1>0, <2>1, <2>3 DEF Owning
    <2>8. ASSUME ~closed, NEW v \in Tasks, NEW u \in Tasks,
                 phase'[v] = "queued", Owning(u)', u \notin adopted'
          PROVE  ticket'[u] < ticket'[v]
      <3>1. CASE v = t
        BY <2>3, <2>7, <2>8, <3>1
      <3>2. CASE v # t
        BY <1>0, <1>b, <2>1, <2>3, <2>7, <2>8, <3>2
      <3> QED
        BY <3>1, <3>2
    <2> QED
      BY <2>1, <2>4, <2>6, <2>8 DEF FifoInv, TicketsSound, FifoService
  <1>3. ASSUME NEW t \in Tasks, RefuseFull(t)
        PROVE  FifoInv'
    <2>1. /\ phase[t] = "new" /\ queue' = queue /\ adopted' = adopted
          /\ closed' = closed /\ phase' = [phase EXCEPT ![t] = "gone"]
          /\ ticket' = [ticket EXCEPT ![t] = NextTicket]
      BY <1>3 DEF RefuseFull
    <2>3. /\ NextTicket \in Nat /\ NextTicket' = NextTicket + 1
          /\ ticket'[t] = NextTicket
          /\ \A u \in Tasks : /\ ticket[u] \in Nat /\ ticket[u] < NextTicket
                              /\ u # t => ticket'[u] = ticket[u]
      BY <2>1, TicketTaken DEF Sound, FifoInv
    <2>4. \A u \in Tasks : /\ ticket'[u] < NextTicket'
                           /\ phase'[u] = "new" => ticket'[u] = 0
      BY <1>0, <1>b, <2>1, <2>3
    <2>5. \A j \in 1 .. Len(queue) : ticket'[queue[j]] = ticket[queue[j]]
      BY <1>a, <2>1, <2>3
    <2>6. closed' \/ \A i, j \in 1 .. Len(queue') :
                       i < j => ticket'[queue'[i]] < ticket'[queue'[j]]
      BY <1>b, <2>1, <2>5
    <2>7. \A u \in Tasks : phase'[u] = "queued" \/ Owning(u)' =>
             u # t /\ phase'[u] = phase[u]
      BY <1>0, <2>1 DEF Owning
    <2>8. FifoService'
      BY <1>b, <2>1, <2>3, <2>7 DEF FifoService, Owning
    <2> QED
      BY <2>4, <2>6, <2>8 DEF FifoInv, TicketsSound
  <1>4. ASSUME NEW t \in Tasks, SubmitStart(t)
        PROVE  FifoInv'
    BY <1>4, <1>0, <1>c DEF SubmitStart, Owning, hist
  <1>5. ASSUME NEW t \in Tasks, SubmitCompensate(t)
        PROVE  FifoInv'
    BY <1>5, <1>0, <1>c DEF SubmitCompensate, Owning, hist
  <1>6. ASSUME NEW t \in Tasks, RecordStarting(t)
        PROVE  FifoInv'
    BY <1>6, <1>0, <1>c DEF RecordStarting, Owning, hist
  <1>7. ASSUME NEW t \in Tasks, LifecycleReturn(t)
        PROVE  FifoInv'
    BY <1>7, <1>0, <1>c DEF LifecycleReturn, Owning, hist
  <1>8. ASSUME NEW t \in Tasks, NEW c \in Calls, Finish(t, c)
        PROVE  FifoInv'
    BY <1>8, <1>0, <1>c DEF Finish, Owning, hist
  <1>9. ASSUME NEW i \in 1 .. Len(queue), NEW c \in Calls, CancelQueued(i, c)
        PROVE  FifoInv'
    <2>1. /\ adopted' = adopted /\ closed' = closed /\ ticket' = ticket
          /\ phase' = [phase EXCEPT ![queue[i]] = "cancelled"]
      BY <1>9 DEF CancelQueued, hist
    <2>2. /\ Len(queue') = Len(queue) - 1
          /\ \A j \in 1 .. Len(queue) - 1 :
               queue'[j] = IF j < i THEN queue[j] ELSE queue[j + 1]
      BY <1>9, <1>0, WithoutIndexFacts DEF CancelQueued
    <2>3. NextTicket' = NextTicket
      BY <2>1 DEF NextTicket
    <2>4. ASSUME ~closed, NEW k \in 1 .. Len(queue'), NEW j \in 1 .. Len(queue'), k < j
          PROVE  ticket'[queue'[k]] < ticket'[queue'[j]]
      <3> DEFINE at(n) == IF n < i THEN n ELSE n + 1
      <3>1. /\ k \in 1 .. Len(queue) - 1 /\ j \in 1 .. Len(queue) - 1
            /\ Len(queue) \in Nat
        BY <1>0, <2>2
      <3>2. queue'[k] = queue[at(k)] /\ queue'[j] = queue[at(j)]
        BY <2>2, <3>1
      <3>3. /\ at(k) \in 1 .. Len(queue) /\ at(j) \in 1 .. Len(queue)
            /\ at(k) < at(j)
        BY <2>4, <3>1
      <3> HIDE DEF at
      <3> QED
        BY <1>b, <2>1, <2>4, <3>2, <3>3
    <2>5. \A u \in Tasks : /\ Owning(u)' => Owning(u)
                           /\ phase'[u] = "queued" => phase[u] = "queued"
                           /\ phase'[u] = "new" => phase[u] = "new"
      BY <1>0, <1>a, <2>1 DEF Owning
    <2> QED
      BY <1>b, <2>1, <2>3, <2>4, <2>5 DEF FifoInv, TicketsSound, FifoService
  <1>10. ASSUME NEW i \in 1 .. Len(queue), CancelRestored(i)
        PROVE  FifoInv'
    <2>1. queue' = queue /\ UNCHANGED <<ticket, adopted, closed, phase>>
      BY <1>10, <1>0, RestoreInverse DEF CancelRestored
    <2> QED
      BY <1>c, <2>1 DEF Owning
  <1>11. ASSUME NEW c \in Calls, ConfirmQueuedKill(c)
        PROVE  FifoInv'
    BY <1>11, <1>0, <1>c DEF ConfirmQueuedKill, Owning, hist, Sound, CallsSound, Busy, Carrying
  <1>12. ASSUME NEW c \in Calls, ConfirmQueuedKillFails(c)
        PROVE  FifoInv'
    BY <1>12, <1>0, <1>c DEF ConfirmQueuedKillFails, Owning, hist, Sound, CallsSound, Busy, Carrying
  <1>13. ASSUME NEW c \in Calls, AdvanceNothing(c)
        PROVE  FifoInv'
    BY <1>13, <1>0, <1>c DEF AdvanceNothing, Owning, hist
  <1>14. ASSUME NEW c \in Calls, AdvancePromote(c)
        PROVE  FifoInv'
    <2> DEFINE h == Head(queue)
    <2>1. /\ adopted' = adopted /\ closed' = closed /\ ticket' = ticket
          /\ queue # <<>> /\ queue' = Tail(queue)
          /\ phase' = [phase EXCEPT ![h] = "promoted"]
      BY <1>14 DEF AdvancePromote, hist
    <2>2. /\ Len(queue) \in Nat \ {0} /\ h = queue[1]
          /\ Len(queue') = Len(queue) - 1
          /\ \A j \in 1 .. Len(queue) - 1 : queue'[j] = queue[j + 1]
      BY <1>0, <2>1
    <2> HIDE DEF h
    <2>3. NextTicket' = NextTicket
      BY <2>1 DEF NextTicket
    <2>4. closed' \/ \A i, j \in 1 .. Len(queue') :
                       i < j => ticket'[queue'[i]] < ticket'[queue'[j]]
      BY <1>b, <2>1, <2>2
    <2>5. h \in Tasks /\ phase[h] = "queued"
      BY <1>a, <2>2
    <2>6. \A u \in Tasks : u # h => phase'[u] = phase[u]
      BY <1>0, <2>1
    <2>7. ASSUME ~closed, NEW v \in Tasks, NEW u \in Tasks,
                 phase'[v] = "queued", Owning(u)', u \notin adopted'
          PROVE  ticket'[u] < ticket'[v]
      <3>1. v # h /\ phase[v] = "queued"
        BY <1>0, <2>1, <2>5, <2>6, <2>7
      <3>2. CASE u = h
        <4>1. PICK k \in 1 .. Len(queue) : queue[k] = v
          BY <3>1 DEF Sound, QueueExact
        <4>2. 1 < k /\ 1 \in 1 .. Len(queue)
          BY <2>2, <3>1, <4>1
        <4> QED
          BY <1>b, <2>1, <2>2, <2>7, <3>2, <4>1, <4>2
      <3>3. CASE u # h
        <4>1. Owning(u)
          BY <2>6, <2>7, <3>3 DEF Owning
        <4> QED
          BY <1>b, <2>1, <2>7, <3>1, <4>1
      <3> QED
        BY <3>2, <3>3
    <2>8. \A u \in Tasks : phase'[u] = "new" => phase[u] = "new"
      BY <1>0, <2>1, <2>5
    <2> QED
      BY <1>b, <2>1, <2>3, <2>4, <2>7, <2>8 DEF FifoInv, TicketsSound, FifoService
  <1>15. ASSUME NEW c \in Calls, AdvanceAborted(c)
        PROVE  FifoInv'
    BY <1>15, <1>0, <1>c DEF AdvanceAborted, Owning, hist
  <1>16. ASSUME NEW c \in Calls, StartPayload(c)
        PROVE  FifoInv'
    BY <1>16, <1>0, <1>c DEF StartPayload, Owning, hist, Sound, CallsSound, Busy, Carrying
  <1>17. ASSUME NEW c \in Calls, CommitStart(c)
        PROVE  FifoInv'
    BY <1>17, <1>0, <1>c DEF CommitStart, Owning, hist
  <1>18. ASSUME NEW c \in Calls, CompensateRejectedStart(c)
        PROVE  FifoInv'
    <2>1. closed' /\ ticket' = ticket
      BY <1>18 DEF CompensateRejectedStart, Sound, CallsSound, hist
    <2>2. \A u \in Tasks : phase'[u] = "new" => phase[u] = "new"
      BY <1>18, <1>0 DEF CompensateRejectedStart, Carrying
    <2>3. NextTicket' = NextTicket
      BY <2>1 DEF NextTicket
    <2> QED
      BY <1>b, <2>1, <2>2, <2>3 DEF FifoInv, TicketsSound, FifoService
  <1>19. ASSUME Shutdown
        PROVE  FifoInv'
    BY <1>19, <1>0, <1>c DEF Shutdown, Owning, hist
  <1>20. ASSUME Restart
        PROVE  FifoInv'
    <2>1. queue' = <<>> /\ ticket' = ticket
      BY <1>20 DEF Restart
    <2>2. \A u \in Tasks : /\ phase'[u] \in {"running", "ended", "new", "gone"}
                           /\ phase'[u] = "new" => phase[u] = "new"
      BY <1>20, RestartFacts DEF Sound
    <2>3. NextTicket' = NextTicket
      BY <2>1 DEF NextTicket
    <2>4. FifoService'
      BY <2>2 DEF FifoService
    <2> QED
      BY <1>b, <2>1, <2>2, <2>3, <2>4 DEF FifoInv, TicketsSound
  <1>21. CASE UNCHANGED vars
    BY <1>21, <1>c DEF vars, Owning
  <1> QED
    BY <1>1, <1>2, <1>3, <1>4, <1>5, <1>6, <1>7, <1>8, <1>9, <1>10, <1>11,
       <1>12, <1>13, <1>14, <1>15, <1>16, <1>17, <1>18, <1>19, <1>20, <1>21
       DEF Next, Submit, Release

\* While the gate is open no submit, promotion or cancel lets a task have a
\* slot before an earlier one that still waits.
THEOREM FirstComeFirstServed == Spec => []FifoService
  <1>1. Init => FifoInv
    <2> SUFFICES ASSUME Init PROVE FifoInv
      OBVIOUS
    <2>1. Len(queue) = 0 /\ \A t \in Tasks : ticket[t] = 0 /\ phase[t] = "new"
      BY DEF Init
    <2>2. NextTicket \in Nat /\ NextTicket > 0
      BY CardNat DEF NextTicket
    <2> QED
      BY <2>1, <2>2 DEF FifoInv, TicketsSound, FifoService
  <1>2. FifoInv => FifoService
    BY DEF FifoInv
  <1> QED
    BY <1>1, <1>2, SoundAlways, FifoStep, PTL DEF Spec
=============================================================================
