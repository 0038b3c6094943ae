-------------------------- MODULE AdmissionProofs --------------------------
(* The safety properties of Admission for every set of tasks, every number *)
(* of concurrent calls and every value of the limits.                      *)
EXTENDS Admission, FiniteSetTheorems, SequenceTheorems, TLAPS

-----------------------------------------------------------------------------
(* Facts about calls and about the queue as a sequence.                    *)

\* A call is idle, or works for a task, or holds a dequeued payload too.
LEMMA CallShape ==
    ASSUME NEW r \in CallStates
    PROVE  \/ r = IdleCall /\ r.pc = "idle" /\ r.task = NoTask
           \/ /\ r.pc \in {"confirm", "advance"} /\ r.task \in Tasks
              /\ r = At(r.pc, r.task) /\ r.payload = NoTask
           \/ /\ r.pc \in {"start", "commit", "reject"}
              /\ r.task \in Tasks /\ r.payload \in Tasks
              /\ r = Holding(r.pc, r.task, r.payload)
  BY DEF CallStates, IdleCall, At, Holding

\* The states that the actions build are states of a call.
LEMMA CallBuilt ==
    /\ IdleCall \in CallStates
    /\ \A t \in Tasks : /\ At("confirm", t) \in CallStates
                        /\ At("advance", t) \in CallStates
    /\ \A t, h \in Tasks : /\ Holding("start", t, h) \in CallStates
                           /\ Holding("commit", t, h) \in CallStates
                           /\ Holding("reject", t, h) \in CallStates
  BY DEF CallStates

\* Dequeue takes the first payload.
LEMMA HeadFacts ==
    ASSUME NEW S, NEW s \in Seq(S), s # <<>>
    PROVE  Head(s) = s[1] /\ 1 \in 1 .. Len(s) /\ Head(s) \in S
  <1>1. Len(s) \in Nat /\ Len(s) # 0
    BY EmptySeq
  <1> QED
    BY <1>1

\* Remove: the other payloads keep their order.
LEMMA WithoutIndexFacts ==
    ASSUME NEW S, NEW s \in Seq(S), NEW i \in 1 .. Len(s)
    PROVE  /\ WithoutIndex(s, i) \in Seq(S)
           /\ Len(WithoutIndex(s, i)) = Len(s) - 1
           /\ \A j \in 1 .. Len(s) - 1 :
                 WithoutIndex(s, i)[j] = IF j < i THEN s[j] ELSE s[j + 1]
  <1> DEFINE a == SubSeq(s, 1, i - 1)
             b == SubSeq(s, i + 1, Len(s))
  <1>1. a \in Seq(S) /\ Len(a) = i - 1 /\ \A j \in 1 .. i - 1 : a[j] = s[j]
    BY SubSeqProperties
  <1>2. /\ b \in Seq(S) /\ Len(b) = Len(s) - i
        /\ \A j \in 1 .. Len(s) - i : b[j] = s[i + j]
    BY SubSeqProperties
  <1> HIDE DEF a, b
  <1>3. /\ a \o b \in Seq(S) /\ Len(a \o b) = Len(s) - 1
        /\ \A j \in 1 .. Len(s) - 1 :
             (a \o b)[j] = IF j < i THEN a[j] ELSE b[j - (i - 1)]
    <2>1. /\ a \o b \in Seq(S) /\ Len(a \o b) = Len(a) + Len(b)
          /\ \A j \in 1 .. Len(a) + Len(b) :
               (a \o b)[j] = IF j <= Len(a) THEN a[j] ELSE b[j - Len(a)]
      BY <1>1, <1>2, ConcatProperties
    <2> QED
      BY <1>1, <1>2, <2>1
  <1> QED
    <2>1. WithoutIndex(s, i) = a \o b
      BY DEF WithoutIndex, a, b
    <2> QED
      BY <1>1, <1>2, <1>3, <2>1

\* Restore after Remove gives the queue as it was.
LEMMA RestoreInverse ==
    ASSUME NEW S, NEW s \in Seq(S), NEW i \in 1 .. Len(s)
    PROVE  RestoreAt(WithoutIndex(s, i), s[i], i) = s
  <1> DEFINE w == WithoutIndex(s, i)
             a == SubSeq(w, 1, i - 1)
             b == SubSeq(w, i, Len(w))
             c == a \o <<s[i]>>
             d == c \o b
  <1>1. /\ w \in Seq(S) /\ Len(w) = Len(s) - 1
        /\ \A j \in 1 .. Len(s) - 1 : w[j] = IF j < i THEN s[j] ELSE s[j + 1]
    BY WithoutIndexFacts
  <1> HIDE DEF w
  <1>2. a \in Seq(S) /\ Len(a) = i - 1 /\ \A j \in 1 .. i - 1 : a[j] = w[j]
    BY <1>1, SubSeqProperties
  <1>3. /\ b \in Seq(S) /\ Len(b) = Len(s) - i
        /\ \A j \in 1 .. Len(s) - i : b[j] = w[i + j - 1]
    BY <1>1, SubSeqProperties
  <1> HIDE DEF a, b
  <1>4. <<s[i]>> \in Seq(S) /\ Len(<<s[i]>>) = 1 /\ <<s[i]>>[1] = s[i]
    OBVIOUS
  <1>5. /\ c \in Seq(S) /\ Len(c) = i
        /\ \A j \in 1 .. i : c[j] = IF j < i THEN a[j] ELSE s[i]
    BY <1>2, <1>4, ConcatProperties
  <1> HIDE DEF c
  <1>6. /\ d \in Seq(S) /\ Len(d) = Len(s)
        /\ \A j \in 1 .. Len(s) : d[j] = IF j <= i THEN c[j] ELSE b[j - i]
    <2>1. /\ c \o b \in Seq(S) /\ Len(c \o b) = Len(c) + Len(b)
          /\ \A j \in 1 .. Len(c) + Len(b) :
               (c \o b)[j] = IF j <= Len(c) THEN c[j] ELSE b[j - Len(c)]
      BY <1>3, <1>5, ConcatProperties
    <2> QED
      BY <1>3, <1>5, <2>1
  <1> HIDE DEF d
  <1>7. ASSUME NEW j \in 1 .. Len(s) PROVE d[j] = s[j]
    <2>1. CASE j < i
      <3>1. j \in 1 .. i - 1 /\ j \in 1 .. i /\ j \in 1 .. Len(s) - 1
        BY <2>1
      <3>2. d[j] = c[j] /\ c[j] = a[j] /\ a[j] = w[j] /\ w[j] = s[j]
        BY <2>1, <3>1, <1>1, <1>2, <1>5, <1>6
      <3> QED
        BY <3>2
    <2>2. CASE j = i
      BY <2>2, <1>5, <1>6
    <2>3. CASE j > i
      <3>1. j - i \in 1 .. Len(s) - i /\ j - 1 \in 1 .. Len(s) - 1
        BY <2>3
      <3>2. d[j] = b[j - i] /\ b[j - i] = w[j - 1] /\ w[j - 1] = s[j]
        BY <2>3, <3>1, <1>1, <1>3, <1>6
      <3> QED
        BY <3>2
    <2> QED
      BY <2>1, <2>2, <2>3
  <1>8. d = s
    BY <1>6, <1>7, SeqEqual
  <1> QED
    BY <1>8 DEF RestoreAt, w, a, b, c, d

-----------------------------------------------------------------------------
(* Types.                                                                  *)

\* The tickets given so far are finitely many.
LEMMA NextTicketNat == NextTicket \in Nat
  <1>1. IsFiniteSet({u \in Tasks : ticket[u] > 0})
    BY TasksAssumption, FS_Subset
  <1> QED
    BY <1>1, FS_CardinalityType DEF NextTicket

\* Every critical section leaves the state well typed.
LEMMA TypeStep == TypeOK /\ [Next]_vars => TypeOK'
  <1> SUFFICES ASSUME TypeOK, [Next]_vars PROVE TypeOK'
    OBVIOUS
  <1> USE TasksAssumption, LimitsAssumption
  <1>1. ASSUME NEW t \in Tasks, AdmitNow(t)
        PROVE  TypeOK'
    BY <1>1, NextTicketNat DEF AdmitNow, TypeOK, Phases
  <1>2. ASSUME NEW t \in Tasks, Enqueue(t)
        PROVE  TypeOK'
    BY <1>2, NextTicketNat DEF Enqueue, TypeOK, Phases
  <1>3. ASSUME NEW t \in Tasks, RefuseFull(t)
        PROVE  TypeOK'
    BY <1>3, NextTicketNat DEF RefuseFull, TypeOK, Phases
  <1>4. ASSUME NEW t \in Tasks, SubmitStart(t)
        PROVE  TypeOK'
    BY <1>4 DEF SubmitStart, TypeOK, Phases, hist
  <1>5. ASSUME NEW t \in Tasks, SubmitCompensate(t)
        PROVE  TypeOK'
    BY <1>5 DEF SubmitCompensate, TypeOK, Phases, hist
  <1>6. ASSUME NEW t \in Tasks, RecordStarting(t)
        PROVE  TypeOK'
    BY <1>6 DEF RecordStarting, TypeOK, Phases, hist
  <1>7. ASSUME NEW t \in Tasks, LifecycleReturn(t)
        PROVE  TypeOK'
    BY <1>7 DEF LifecycleReturn, TypeOK, Phases, hist
  <1>8. ASSUME NEW t \in Tasks, NEW c \in Calls, Finish(t, c)
        PROVE  TypeOK'
    BY <1>8, CallBuilt DEF Finish, TypeOK, Phases, hist
  <1>9. ASSUME NEW i \in 1 .. Len(queue), NEW c \in Calls, CancelQueued(i, c)
        PROVE  TypeOK'
    <2>1. queue[i] \in Tasks /\ WithoutIndex(queue, i) \in Seq(Tasks)
      BY WithoutIndexFacts DEF TypeOK
    <2> QED
      BY <1>9, <2>1, CallBuilt DEF CancelQueued, TypeOK, Phases, hist
  <1>10. ASSUME NEW i \in 1 .. Len(queue), CancelRestored(i)
        PROVE  TypeOK'
    BY <1>10, RestoreInverse DEF CancelRestored, TypeOK, hist
  <1>11. ASSUME NEW c \in Calls, ConfirmQueuedKill(c)
        PROVE  TypeOK'
    <2>1. /\ rel[c] \in CallStates
      BY DEF TypeOK
    <2> QED
      BY <1>11, <2>1, CallShape, CallBuilt DEF ConfirmQueuedKill, TypeOK, Phases, hist
  <1>12. ASSUME NEW c \in Calls, ConfirmQueuedKillFails(c)
        PROVE  TypeOK'
    <2>1. /\ rel[c] \in CallStates
      BY DEF TypeOK
    <2> QED
      BY <1>12, <2>1, CallShape, CallBuilt DEF ConfirmQueuedKillFails, TypeOK, Phases, hist
  <1>13. ASSUME NEW c \in Calls, AdvanceNothing(c)
        PROVE  TypeOK'
    <2>1. /\ rel[c] \in CallStates
      BY DEF TypeOK
    <2> QED
      BY <1>13, <2>1, CallShape, CallBuilt DEF AdvanceNothing, TypeOK, Phases, hist
  <1>14. ASSUME NEW c \in Calls, AdvancePromote(c)
        PROVE  TypeOK'
    <2>1. rel[c] \in CallStates /\ rel[c].pc = "advance" /\ queue # <<>>
      BY <1>14 DEF AdvancePromote, TypeOK
    <2>2. rel[c].task \in Tasks /\ Head(queue) \in Tasks /\ Tail(queue) \in Seq(Tasks)
      BY <2>1, CallShape DEF TypeOK
    <2> QED
      BY <1>14, <2>2, CallBuilt DEF AdvancePromote, TypeOK, Phases, hist
  <1>15. ASSUME NEW c \in Calls, AdvanceAborted(c)
        PROVE  TypeOK'
    <2>1. /\ rel[c] \in CallStates
      BY DEF TypeOK
    <2> QED
      BY <1>15, <2>1, CallShape, CallBuilt DEF AdvanceAborted, TypeOK, Phases, hist
  <1>16. ASSUME NEW c \in Calls, StartPayload(c)
        PROVE  TypeOK'
    <2>1. rel[c] \in CallStates /\ rel[c].pc = "start"
      BY <1>16 DEF StartPayload, TypeOK
    <2>2. /\ rel[c].task \in Tasks /\ rel[c].payload \in Tasks
          /\ rel[c] = Holding("start", rel[c].task, rel[c].payload)
      BY <2>1, CallShape
    <2>3. Holding(IF closed THEN "reject" ELSE "commit", rel[c].task, rel[c].payload)
            \in CallStates
      BY <2>2, CallBuilt
    <2> QED
      BY <1>16, <2>2, <2>3 DEF StartPayload, TypeOK, Phases, hist
  <1>17. ASSUME NEW c \in Calls, CommitStart(c)
        PROVE  TypeOK'
    <2>1. /\ rel[c] \in CallStates
      BY DEF TypeOK
    <2> QED
      BY <1>17, <2>1, CallShape, CallBuilt DEF CommitStart, TypeOK, Phases, hist
  <1>18. ASSUME NEW c \in Calls, CompensateRejectedStart(c)
        PROVE  TypeOK'
    <2>1. /\ rel[c] \in CallStates
      BY DEF TypeOK
    <2> QED
      BY <1>18, <2>1, CallShape, CallBuilt DEF CompensateRejectedStart, TypeOK, Phases, hist
  <1>19. ASSUME Shutdown
        PROVE  TypeOK'
    BY <1>19 DEF Shutdown, TypeOK, Phases, hist
  <1>20. ASSUME Restart
        PROVE  TypeOK'
    <2>1. phase' \in [Tasks -> Phases]
      BY <1>20 DEF Restart, TypeOK, Phases
    <2>2. queue' \in Seq(Tasks) /\ rel' \in [Calls -> CallStates]
      BY <1>20, CallBuilt DEF Restart
    <2>3. boots' \in 0 .. MaxBoots
      BY <1>20 DEF Restart, TypeOK
    <2>4. /\ active' \subseteq Tasks /\ launching' \subseteq Tasks
          /\ promotions' \subseteq Tasks /\ adopted' \subseteq Tasks
      BY <1>20 DEF Restart
    <2>5. closed' = FALSE /\ UNCHANGED <<saved, starts, ticket, faults>>
      BY <1>20 DEF Restart
    <2> QED
      BY <2>1, <2>2, <2>3, <2>4, <2>5 DEF TypeOK
  <1>21. CASE UNCHANGED vars
    BY <1>21 DEF vars, TypeOK
  <1> QED
    BY <1>1, <1>2, <1>3, <1>4, <1>5, <1>6, <1>7, <1>8, <1>9, <1>10, <1>11,
       <1>12, <1>13, <1>14, <1>15, <1>16, <1>17, <1>18, <1>19, <1>20, <1>21
       DEF Next, Submit, Release

\* The state is well typed at any time, calls with and without a payload
\* included.
THEOREM TypeCorrect == Spec => []TypeOK
  <1>1. Init => TypeOK
    <2> SUFFICES ASSUME Init PROVE TypeOK
      OBVIOUS
    <2>1. queue \in Seq(Tasks) /\ rel \in [Calls -> CallStates]
      BY CallBuilt DEF Init
    <2>2. boots \in 0 .. MaxBoots /\ faults \in 0 .. MaxFaults
      BY LimitsAssumption DEF Init
    <2> QED
      BY <2>1, <2>2 DEF Init, TypeOK, Phases
  <1> QED
    BY <1>1, TypeStep, PTL DEF Spec

-----------------------------------------------------------------------------
(* The queue depth and the slot limits.                                    *)

\* The registries are finite.
LEMMA CardNat ==
    ASSUME NEW P \in SUBSET Tasks
    PROVE  IsFiniteSet(P) /\ Cardinality(P) \in Nat
  BY TasksAssumption, FS_Subset, FS_CardinalityType

\* Remove of a registry.
LEMMA CardRemove ==
    ASSUME NEW P \in SUBSET Tasks, NEW h
    PROVE  /\ Cardinality(P \ {h}) \in Nat
           /\ Cardinality(P \ {h}) <= Cardinality(P)
           /\ h \in P => Cardinality(P \ {h}) = Cardinality(P) - 1
  <1>1. IsFiniteSet(P) /\ Cardinality(P) \in Nat
    BY CardNat
  <1>2. /\ IsFiniteSet(P \ {h})
        /\ Cardinality(P \ {h}) = IF h \in P THEN Cardinality(P) - 1
                                             ELSE Cardinality(P)
    BY <1>1, FS_RemoveElement
  <1>3. Cardinality(P \ {h}) \in Nat
    BY <1>2, FS_CardinalityType
  <1> QED
    BY <1>1, <1>2, <1>3

\* Add of a registry.
LEMMA CardAdd ==
    ASSUME NEW P \in SUBSET Tasks, NEW h
    PROVE  /\ Cardinality(P \cup {h}) \in Nat
           /\ Cardinality(P \cup {h}) <= Cardinality(P) + 1
  <1>1. IsFiniteSet(P) /\ Cardinality(P) \in Nat
    BY CardNat
  <1>2. Cardinality(P \cup {h}) = IF h \in P THEN Cardinality(P)
                                            ELSE Cardinality(P) + 1
    BY <1>1, FS_AddElement
  <1> QED
    BY <1>1, <1>2

\* A promotion takes its task from the queue to the promotions and its
\* compensation takes it back; only an admission adds to the sum.
LEMMA DepthStep == TypeOK /\ DepthBound /\ [Next]_vars => DepthBound'
  <1> SUFFICES ASSUME TypeOK, DepthBound, [Next]_vars PROVE DepthBound'
    OBVIOUS
  <1> USE LimitsAssumption
  <1>0. /\ queue \in Seq(Tasks) /\ Len(queue) \in Nat
        /\ promotions \in SUBSET Tasks /\ Cardinality(promotions) \in Nat
    BY CardNat DEF TypeOK
  <1>1. ASSUME NEW t \in Tasks, AdmitNow(t)
        PROVE  DepthBound'
    BY <1>1 DEF AdmitNow, DepthBound, hist
  <1>2. ASSUME NEW t \in Tasks, Enqueue(t)
        PROVE  DepthBound'
    <2>1. Len(queue') = Len(queue) + 1 /\ promotions' = promotions
      BY <1>2, <1>0 DEF Enqueue
    <2> QED
      BY <1>2, <1>0, <2>1 DEF Enqueue, QueueHasRoom, DepthBound
  <1>3. ASSUME NEW t \in Tasks, RefuseFull(t)
        PROVE  DepthBound'
    BY <1>3 DEF RefuseFull, DepthBound, hist
  <1>4. ASSUME NEW t \in Tasks, SubmitStart(t)
        PROVE  DepthBound'
    BY <1>4 DEF SubmitStart, DepthBound, hist
  <1>5. ASSUME NEW t \in Tasks, SubmitCompensate(t)
        PROVE  DepthBound'
    BY <1>5 DEF SubmitCompensate, DepthBound, hist
  <1>6. ASSUME NEW t \in Tasks, RecordStarting(t)
        PROVE  DepthBound'
    BY <1>6 DEF RecordStarting, DepthBound, hist
  <1>7. ASSUME NEW t \in Tasks, LifecycleReturn(t)
        PROVE  DepthBound'
    BY <1>7 DEF LifecycleReturn, DepthBound, hist
  <1>8. ASSUME NEW t \in Tasks, NEW c \in Calls, Finish(t, c)
        PROVE  DepthBound'
    BY <1>8 DEF Finish, DepthBound, hist
  <1>9. ASSUME NEW i \in 1 .. Len(queue), NEW c \in Calls, CancelQueued(i, c)
        PROVE  DepthBound'
    <2>1. Len(queue') = Len(queue) - 1 /\ promotions' = promotions
      BY <1>9, <1>0, WithoutIndexFacts DEF CancelQueued
    <2> QED
      BY <1>0, <2>1 DEF DepthBound
  <1>10. ASSUME NEW i \in 1 .. Len(queue), CancelRestored(i)
        PROVE  DepthBound'
    <2>1. queue' = queue /\ promotions' = promotions
      BY <1>10, <1>0, RestoreInverse DEF CancelRestored
    <2> QED
      BY <2>1 DEF DepthBound
  <1>11. ASSUME NEW c \in Calls, ConfirmQueuedKill(c)
        PROVE  DepthBound'
    BY <1>11 DEF ConfirmQueuedKill, DepthBound, hist
  <1>12. ASSUME NEW c \in Calls, ConfirmQueuedKillFails(c)
        PROVE  DepthBound'
    BY <1>12 DEF ConfirmQueuedKillFails, DepthBound, hist
  <1>13. ASSUME NEW c \in Calls, AdvanceNothing(c)
        PROVE  DepthBound'
    BY <1>13 DEF AdvanceNothing, DepthBound, hist
  <1>14. ASSUME NEW c \in Calls, AdvancePromote(c)
        PROVE  DepthBound'
    <2>1. Len(queue') = Len(queue) - 1
      BY <1>14, <1>0 DEF AdvancePromote
    <2>2. promotions' = promotions \cup {Head(queue)}
      BY <1>14 DEF AdvancePromote
    <2>3. /\ Cardinality(promotions') \in Nat
          /\ Cardinality(promotions') <= Cardinality(promotions) + 1
      BY <1>0, <2>2, CardAdd
    <2> QED
      BY <1>0, <2>1, <2>3 DEF DepthBound
  <1>15. ASSUME NEW c \in Calls, AdvanceAborted(c)
        PROVE  DepthBound'
    BY <1>15 DEF AdvanceAborted, DepthBound, hist
  <1>16. ASSUME NEW c \in Calls, StartPayload(c)
        PROVE  DepthBound'
    BY <1>16 DEF StartPayload, DepthBound, hist
  <1>17. ASSUME NEW c \in Calls, CommitStart(c)
        PROVE  DepthBound'
    <2>1. queue' = queue /\ promotions' = promotions \ {rel[c].payload}
      BY <1>17 DEF CommitStart
    <2>2. /\ Cardinality(promotions') \in Nat
          /\ Cardinality(promotions') <= Cardinality(promotions)
      BY <1>0, <2>1, CardRemove
    <2> QED
      BY <1>0, <2>1, <2>2 DEF DepthBound
  <1>18. ASSUME NEW c \in Calls, CompensateRejectedStart(c)
        PROVE  DepthBound'
    <2> DEFINE h == rel[c].payload
    <2>0. promotions' = promotions \ {h}
      BY <1>18 DEF CompensateRejectedStart
    <2>1. CASE h \in promotions
      <3>1. h \in Tasks /\ queue' = <<h>> \o queue
        BY <1>18, <2>1 DEF CompensateRejectedStart, TypeOK
      <3>2. Len(queue') = Len(queue) + 1
        BY <1>0, <3>1, ConcatProperties
      <3>3. Cardinality(promotions') = Cardinality(promotions) - 1
        BY <1>0, <2>0, <2>1, CardRemove
      <3> QED
        BY <1>0, <3>2, <3>3 DEF DepthBound
    <2>2. CASE h \notin promotions
      <3>1. queue' = queue /\ promotions' = promotions
        BY <1>18, <2>0, <2>2 DEF CompensateRejectedStart
      <3> QED
        BY <3>1 DEF DepthBound
    <2> QED
      BY <2>1, <2>2
  <1>19. ASSUME Shutdown
        PROVE  DepthBound'
    BY <1>19 DEF Shutdown, DepthBound, hist
  <1>20. ASSUME Restart
        PROVE  DepthBound'
    <2>1. queue' = <<>> /\ promotions' = {}
      BY <1>20 DEF Restart
    <2> QED
      BY <2>1, FS_EmptySet DEF DepthBound
  <1>21. CASE UNCHANGED vars
    BY <1>21 DEF vars, DepthBound
  <1> QED
    BY <1>1, <1>2, <1>3, <1>4, <1>5, <1>6, <1>7, <1>8, <1>9, <1>10, <1>11,
       <1>12, <1>13, <1>14, <1>15, <1>16, <1>17, <1>18, <1>19, <1>20, <1>21
       DEF Next, Submit, Release

\* The waiting tasks and the promotions in flight never exceed the queue's
\* depth (AdmitTask, AdvanceQueue and its compensation).
THEOREM DepthBounded == Spec => []DepthBound
  <1>1. Init => DepthBound
    BY LimitsAssumption, FS_EmptySet DEF Init, DepthBound
  <1> QED
    BY <1>1, TypeCorrect, DepthStep, PTL DEF Spec

\* SlotCap for a set of reservations P and adopted tasks A.
WithinCap(P, A) ==
    /\ P \subseteq A \/ Cardinality(P) <= MaxConcurrentTasks
    /\ \/ P \cap ImplTasks \subseteq A
       \/ Cardinality(P \cap ImplTasks) <= MaxConcurrentImplTasks

\* Freeing slots keeps the limits.
LEMMA CapShrinks ==
    ASSUME NEW P \in SUBSET Tasks, NEW Q \in SUBSET P, NEW A, WithinCap(P, A)
    PROVE  WithinCap(Q, A)
  <1>1. IsFiniteSet(P) /\ IsFiniteSet(P \cap ImplTasks)
    BY TasksAssumption, FS_Subset
  <1>2. /\ Cardinality(Q) <= Cardinality(P)
        /\ Cardinality(Q \cap ImplTasks) <= Cardinality(P \cap ImplTasks)
        /\ Cardinality(P) \in Nat /\ Cardinality(P \cap ImplTasks) \in Nat
        /\ Cardinality(Q) \in Nat /\ Cardinality(Q \cap ImplTasks) \in Nat
    BY <1>1, FS_Subset, FS_CardinalityType
  <1>3. Q \cap ImplTasks \subseteq P \cap ImplTasks
    OBVIOUS
  <1> QED
    BY <1>2, <1>3, LimitsAssumption DEF WithinCap

\* Taking a slot that SlotFor grants keeps the limits.
LEMMA CapGrows ==
    ASSUME NEW P \in SUBSET Tasks, NEW t \in Tasks, NEW A,
           WithinCap(P, A), SlotFor(t, P)
    PROVE  WithinCap(P \cup {t}, A)
  <1> DEFINE I == P \cap ImplTasks
             J == (P \cup {t}) \cap ImplTasks
  <1>1. I \in SUBSET Tasks /\ Cardinality(P) \in Nat /\ Cardinality(I) \in Nat
    BY CardNat
  <1>2. Cardinality(P \cup {t}) <= MaxConcurrentTasks
    <2>1. /\ Cardinality(P \cup {t}) \in Nat
          /\ Cardinality(P \cup {t}) <= Cardinality(P) + 1
      BY CardAdd
    <2>2. Cardinality(P) < MaxConcurrentTasks
      BY DEF SlotFor
    <2> QED
      BY <1>1, <2>1, <2>2, LimitsAssumption
  <1>3. CASE t \in ImplTasks
    <2>1. J = I \cup {t}
      BY <1>3
    <2>2. Cardinality(J) \in Nat /\ Cardinality(J) <= Cardinality(I) + 1
      BY <1>1, <2>1, CardAdd
    <2>3. Cardinality(I) < MaxConcurrentImplTasks
      BY <1>3 DEF SlotFor
    <2>4. Cardinality(J) <= MaxConcurrentImplTasks
      BY <1>1, <2>2, <2>3, LimitsAssumption
    <2> QED
      BY <1>2, <2>4 DEF WithinCap
  <1>4. CASE t \notin ImplTasks
    <2>1. J = I
      BY <1>4
    <2> QED
      BY <1>2, <2>1 DEF WithinCap
  <1> QED
    BY <1>3, <1>4

\* Admission and promotion ask SlotFor first, everything else frees slots.
LEMMA CapStep == TypeOK /\ SlotCap /\ [Next]_vars => SlotCap'
  <1> SUFFICES ASSUME TypeOK, WithinCap(active, adopted), [Next]_vars
               PROVE  WithinCap(active', adopted')
    BY DEF SlotCap, WithinCap
  <1>0. active \in SUBSET Tasks
    BY DEF TypeOK
  <1>1. ASSUME NEW t \in Tasks, AdmitNow(t)
        PROVE  WithinCap(active', adopted')
    BY <1>1, <1>0, CapGrows DEF AdmitNow, Immediate
  <1>2. ASSUME NEW t \in Tasks, Enqueue(t)
        PROVE  WithinCap(active', adopted')
    BY <1>2 DEF Enqueue, hist
  <1>3. ASSUME NEW t \in Tasks, RefuseFull(t)
        PROVE  WithinCap(active', adopted')
    BY <1>3 DEF RefuseFull, hist
  <1>4. ASSUME NEW t \in Tasks, SubmitStart(t)
        PROVE  WithinCap(active', adopted')
    BY <1>4 DEF SubmitStart, hist
  <1>5. ASSUME NEW t \in Tasks, SubmitCompensate(t)
        PROVE  WithinCap(active', adopted')
    <2>1. active' \in SUBSET active /\ adopted' = adopted
      BY <1>5 DEF SubmitCompensate, hist
    <2> QED
      BY <1>0, <2>1, CapShrinks
  <1>6. ASSUME NEW t \in Tasks, RecordStarting(t)
        PROVE  WithinCap(active', adopted')
    BY <1>6 DEF RecordStarting, hist
  <1>7. ASSUME NEW t \in Tasks, LifecycleReturn(t)
        PROVE  WithinCap(active', adopted')
    BY <1>7 DEF LifecycleReturn, hist
  <1>8. ASSUME NEW t \in Tasks, NEW c \in Calls, Finish(t, c)
        PROVE  WithinCap(active', adopted')
    BY <1>8 DEF Finish, hist
  <1>9. ASSUME NEW i \in 1 .. Len(queue), NEW c \in Calls, CancelQueued(i, c)
        PROVE  WithinCap(active', adopted')
    BY <1>9 DEF CancelQueued, hist
  <1>10. ASSUME NEW i \in 1 .. Len(queue), CancelRestored(i)
        PROVE  WithinCap(active', adopted')
    BY <1>10 DEF CancelRestored, hist
  <1>11. ASSUME NEW c \in Calls, ConfirmQueuedKill(c)
        PROVE  WithinCap(active', adopted')
    BY <1>11 DEF ConfirmQueuedKill, hist
  <1>12. ASSUME NEW c \in Calls, ConfirmQueuedKillFails(c)
        PROVE  WithinCap(active', adopted')
    BY <1>12 DEF ConfirmQueuedKillFails, hist
  <1>13. ASSUME NEW c \in Calls, AdvanceNothing(c)
        PROVE  WithinCap(active', adopted')
    <2>1. active' \in SUBSET active /\ adopted' = adopted
      BY <1>13 DEF AdvanceNothing, hist
    <2> QED
      BY <1>0, <2>1, CapShrinks
  <1>14. ASSUME NEW c \in Calls, AdvancePromote(c)
        PROVE  WithinCap(active', adopted')
    <2> DEFINE left == active \ {rel[c].task}
    <2>1. left \in SUBSET Tasks /\ Head(queue) \in Tasks
      BY <1>14, <1>0 DEF AdvancePromote, TypeOK
    <2>2. WithinCap(left, adopted)
      BY <1>0, CapShrinks
    <2>3. SlotFor(Head(queue), left)
      BY <1>14 DEF AdvancePromote
    <2> HIDE DEF left
    <2>4. WithinCap(left \cup {Head(queue)}, adopted)
      BY <2>1, <2>2, <2>3, CapGrows
    <2> QED
      BY <1>14, <2>4 DEF AdvancePromote, hist, left
  <1>15. ASSUME NEW c \in Calls, AdvanceAborted(c)
        PROVE  WithinCap(active', adopted')
    <2>1. active' \in SUBSET active /\ adopted' = adopted
      BY <1>15 DEF AdvanceAborted, hist
    <2> QED
      BY <1>0, <2>1, CapShrinks
  <1>16. ASSUME NEW c \in Calls, StartPayload(c)
        PROVE  WithinCap(active', adopted')
    BY <1>16 DEF StartPayload, hist
  <1>17. ASSUME NEW c \in Calls, CommitStart(c)
        PROVE  WithinCap(active', adopted')
    BY <1>17 DEF CommitStart, hist
  <1>18. ASSUME NEW c \in Calls, CompensateRejectedStart(c)
        PROVE  WithinCap(active', adopted')
    <2>1. active' \in SUBSET active /\ adopted' = adopted
      BY <1>18 DEF CompensateRejectedStart, hist
    <2> QED
      BY <1>0, <2>1, CapShrinks
  <1>19. ASSUME Shutdown
        PROVE  WithinCap(active', adopted')
    BY <1>19 DEF Shutdown, hist
  <1>20. ASSUME Restart
        PROVE  WithinCap(active', adopted')
    <2>1. active' = adopted'
      BY <1>20 DEF Restart
    <2> QED
      BY <2>1 DEF WithinCap
  <1>21. CASE UNCHANGED vars
    BY <1>21 DEF vars
  <1> QED
    BY <1>1, <1>2, <1>3, <1>4, <1>5, <1>6, <1>7, <1>8, <1>9, <1>10, <1>11,
       <1>12, <1>13, <1>14, <1>15, <1>16, <1>17, <1>18, <1>19, <1>20, <1>21
       DEF Next, Submit, Release

\* The reservations exceed a limit only by tasks that adoption found live
\* (registry.Reset), and then nobody else is given a slot.
THEOREM SlotsCapped == Spec => []SlotCap
  <1>1. Init => SlotCap
    BY DEF Init, SlotCap
  <1> QED
    BY <1>1, TypeCorrect, CapStep, PTL DEF Spec

-----------------------------------------------------------------------------
(* Which call works on which task.                                         *)

Busy(c) == rel[c].pc \in {"advance", "start", "commit", "reject"}

Carrying(c) == rel[c].pc \in {"start", "commit", "reject"}

\* A call releases only a task that is over, and the payload it carries is
\* its own promotion: dequeued, reserved, and carried by no other call.
CallsSound ==
    /\ \A c \in Calls :
         /\ rel[c].pc = "confirm" => phase[rel[c].task] = "cancelled"
         /\ Busy(c) => phase[rel[c].task] = "ended"
         /\ rel[c].pc \in {"start", "reject"} => phase[rel[c].payload] = "promoted"
         /\ rel[c].pc = "commit" => phase[rel[c].payload] \in {"running", "ended"}
         /\ Carrying(c) => rel[c].payload \in promotions
         /\ rel[c].pc = "reject" => closed
    /\ \A c, d \in Calls : c # d =>
         /\ Carrying(c) /\ Carrying(d) => rel[c].payload # rel[d].payload
         /\ rel[c].pc = "confirm" /\ rel[d].pc = "confirm"
              => rel[c].task # rel[d].task

\* Start says no only once the gate is closed, and no task was started before
\* it left the queue or the submitter's hands.
StartsSound ==
    \A t \in Tasks :
        /\ phase[t] = "refused" => closed
        /\ phase[t] \in {"new", "admitted", "queued", "promoted"} => starts[t] = 0

\* Tickets count arrivals; while the gate is open the queue is sorted by them.
TicketsSound ==
    /\ \A t \in Tasks : /\ ticket[t] < NextTicket
                        /\ phase[t] = "new" => ticket[t] = 0
    /\ closed \/ \A i, j \in 1 .. Len(queue) :
                    i < j => ticket[queue[i]] < ticket[queue[j]]

\* Facts that every step below needs of a well-typed state.
LEMMA CallsTyped ==
    ASSUME TypeOK
    PROVE  /\ rel \in [Calls -> CallStates] /\ phase \in [Tasks -> Phases]
           /\ queue \in Seq(Tasks)
           /\ \A c \in Calls :
                /\ rel[c].pc = "confirm" \/ Busy(c) => rel[c].task \in Tasks
                /\ Carrying(c) => rel[c].payload \in Tasks
                /\ rel[c] = IdleCall => rel[c].pc = "idle"
  <1>1. /\ rel \in [Calls -> CallStates] /\ phase \in [Tasks -> Phases]
        /\ queue \in Seq(Tasks)
    BY DEF TypeOK
  <1>2. ASSUME NEW c \in Calls
        PROVE  /\ rel[c].pc = "confirm" \/ Busy(c) => rel[c].task \in Tasks
               /\ Carrying(c) => rel[c].payload \in Tasks
               /\ rel[c] = IdleCall => rel[c].pc = "idle"
    BY <1>1, CallShape DEF Busy, Carrying, IdleCall
  <1> QED
    BY <1>1, <1>2

\* No step moves a task that some call works on, other than that call's.
LEMMA CallsStep == TypeOK /\ QueueExact /\ CallsSound /\ [Next]_vars => CallsSound'
  <1> SUFFICES ASSUME TypeOK, QueueExact, CallsSound, [Next]_vars PROVE CallsSound'
    OBVIOUS
  <1>0. /\ rel \in [Calls -> CallStates] /\ phase \in [Tasks -> Phases]
        /\ queue \in Seq(Tasks)
        /\ \A c \in Calls :
             /\ rel[c].pc = "confirm" \/ Busy(c) => rel[c].task \in Tasks
             /\ Carrying(c) => rel[c].payload \in Tasks
             /\ rel[c] = IdleCall => rel[c].pc = "idle"
    BY CallsTyped
  <1>1. ASSUME NEW t \in Tasks, AdmitNow(t)
        PROVE  CallsSound'
    BY <1>1, <1>0 DEF AdmitNow, CallsSound, Busy, Carrying, hist
  <1>2. ASSUME NEW t \in Tasks, Enqueue(t)
        PROVE  CallsSound'
    BY <1>2, <1>0 DEF Enqueue, CallsSound, Busy, Carrying, hist
  <1>3. ASSUME NEW t \in Tasks, RefuseFull(t)
        PROVE  CallsSound'
    BY <1>3, <1>0 DEF RefuseFull, CallsSound, Busy, Carrying, hist
  <1>4. ASSUME NEW t \in Tasks, SubmitStart(t)
        PROVE  CallsSound'
    BY <1>4, <1>0 DEF SubmitStart, CallsSound, Busy, Carrying, hist
  <1>5. ASSUME NEW t \in Tasks, SubmitCompensate(t)
        PROVE  CallsSound'
    BY <1>5, <1>0 DEF SubmitCompensate, CallsSound, Busy, Carrying, hist
  <1>6. ASSUME NEW t \in Tasks, RecordStarting(t)
        PROVE  CallsSound'
    BY <1>6, <1>0 DEF RecordStarting, CallsSound, Busy, Carrying, hist
  <1>7. ASSUME NEW t \in Tasks, LifecycleReturn(t)
        PROVE  CallsSound'
    BY <1>7, <1>0 DEF LifecycleReturn, CallsSound, Busy, Carrying, hist
  <1>8. ASSUME NEW t \in Tasks, NEW c \in Calls, Finish(t, c)
        PROVE  CallsSound'
    BY <1>8, <1>0 DEF Finish, CallsSound, Busy, Carrying, hist, At, Holding, IdleCall
  <1>9. ASSUME NEW i \in 1 .. Len(queue), NEW c \in Calls, CancelQueued(i, c)
        PROVE  CallsSound'
    <2>1. queue[i] \in Tasks /\ phase[queue[i]] = "queued"
      BY <1>9, <1>0 DEF CancelQueued, QueueExact
    <2> QED
      BY <1>9, <1>0, <2>1 DEF CancelQueued, CallsSound, Busy, Carrying, hist, At, Holding
  <1>10. ASSUME NEW i \in 1 .. Len(queue), CancelRestored(i)
        PROVE  CallsSound'
    BY <1>10, <1>0 DEF CancelRestored, CallsSound, Busy, Carrying, hist
  <1>11. ASSUME NEW c \in Calls, ConfirmQueuedKill(c)
        PROVE  CallsSound'
    BY <1>11, <1>0 DEF ConfirmQueuedKill, CallsSound, Busy, Carrying, hist, At, Holding, IdleCall
  <1>12. ASSUME NEW c \in Calls, ConfirmQueuedKillFails(c)
        PROVE  CallsSound'
    BY <1>12, <1>0 DEF ConfirmQueuedKillFails, CallsSound, Busy, Carrying, hist, At, Holding, IdleCall
  <1>13. ASSUME NEW c \in Calls, AdvanceNothing(c)
        PROVE  CallsSound'
    BY <1>13, <1>0 DEF AdvanceNothing, CallsSound, Busy, Carrying, hist, At, Holding, IdleCall
  <1>14. ASSUME NEW c \in Calls, AdvancePromote(c)
        PROVE  CallsSound'
    <2>0. queue \in Seq(Tasks) /\ queue # <<>>
      BY <1>14, <1>0 DEF AdvancePromote
    <2>1. Head(queue) \in Tasks /\ phase[Head(queue)] = "queued"
      BY <2>0, HeadFacts DEF QueueExact
    <2> QED
      BY <1>14, <1>0, <2>1 DEF AdvancePromote, CallsSound, Busy, Carrying, hist, At, Holding
  <1>15. ASSUME NEW c \in Calls, AdvanceAborted(c)
        PROVE  CallsSound'
    BY <1>15, <1>0 DEF AdvanceAborted, CallsSound, Busy, Carrying, hist, At, Holding, IdleCall
  <1>16. ASSUME NEW c \in Calls, StartPayload(c)
        PROVE  CallsSound'
    BY <1>16, <1>0 DEF StartPayload, CallsSound, Busy, Carrying, hist, At, Holding, IdleCall
  <1>17. ASSUME NEW c \in Calls, CommitStart(c)
        PROVE  CallsSound'
    BY <1>17, <1>0 DEF CommitStart, CallsSound, Busy, Carrying, hist, At, Holding, IdleCall
  <1>18. ASSUME NEW c \in Calls, CompensateRejectedStart(c)
        PROVE  CallsSound'
    BY <1>18, <1>0 DEF CompensateRejectedStart, CallsSound, Busy, Carrying, hist, At, Holding, IdleCall
  <1>19. ASSUME Shutdown
        PROVE  CallsSound'
    BY <1>19, <1>0 DEF Shutdown, CallsSound, Busy, Carrying, hist
  <1>20. ASSUME Restart
        PROVE  CallsSound'
    BY <1>20, <1>0 DEF Restart, CallsSound, Busy, Carrying, hist, At, Holding, IdleCall
  <1>21. CASE UNCHANGED vars
    BY <1>21 DEF vars, CallsSound, Busy, Carrying
  <1> QED
    BY <1>1, <1>2, <1>3, <1>4, <1>5, <1>6, <1>7, <1>8, <1>9, <1>10, <1>11,
       <1>12, <1>13, <1>14, <1>15, <1>16, <1>17, <1>18, <1>19, <1>20, <1>21
       DEF Next, Submit, Release

\* Adoption: exactly the tasks with a live task.json run and hold a slot.
LEMMA RestartFacts ==
    ASSUME TypeOK, Restart, NEW t \in Tasks
    PROVE  /\ t \in active' <=> saved[t] = "live"
           /\ phase'[t] = "running" <=> saved[t] = "live"
           /\ phase'[t] \in {"running", "ended", "new", "gone"}
           /\ phase'[t] = "new" => phase[t] = "new"
           /\ adopted' = active'
  <1>1. saved[t] \in {"none", "live", "terminal"}
    BY DEF TypeOK
  <1>2. t \in active' <=> saved[t] = "live"
    BY DEF Restart
  <1>6. adopted' = active'
    BY DEF Restart
  <1>3. CASE saved[t] = "live"
    <2>1. phase'[t] = "running"
      BY <1>3 DEF Restart
    <2> QED
      BY <1>2, <1>6, <1>3, <2>1
  <1>4. CASE saved[t] = "terminal"
    <2>1. phase'[t] = "ended"
      BY <1>4 DEF Restart
    <2> QED
      BY <1>2, <1>6, <1>4, <2>1
  <1>5. CASE saved[t] = "none"
    <2>1. phase'[t] = IF phase[t] = "new" THEN "new" ELSE "gone"
      BY <1>5 DEF Restart
    <2> QED
      BY <1>2, <1>6, <1>5, <2>1
  <1> QED
    BY <1>1, <1>3, <1>4, <1>5

\* Every change of the queue goes with the change of phase of one task.
LEMMA QueueStep == TypeOK /\ QueueExact /\ CallsSound /\ [Next]_vars => QueueExact'
  <1> SUFFICES ASSUME TypeOK, QueueExact, CallsSound, [Next]_vars PROVE QueueExact'
    OBVIOUS
  <1>0. /\ rel \in [Calls -> CallStates] /\ phase \in [Tasks -> Phases]
        /\ queue \in Seq(Tasks)
        /\ \A c \in Calls :
             /\ rel[c].pc = "confirm" \/ Busy(c) => rel[c].task \in Tasks
             /\ Carrying(c) => rel[c].payload \in Tasks
             /\ rel[c] = IdleCall => rel[c].pc = "idle"
    BY CallsTyped
  <1>1. ASSUME NEW t \in Tasks, AdmitNow(t)
        PROVE  QueueExact'
    BY <1>1, <1>0 DEF AdmitNow, QueueExact, hist
  <1>2. ASSUME NEW t \in Tasks, Enqueue(t)
        PROVE  QueueExact'
    <2>1. /\ Len(queue') = Len(queue) + 1 /\ queue'[Len(queue) + 1] = t
          /\ \A j \in 1 .. Len(queue) : queue'[j] = queue[j]
      BY SMTT(60), <1>2, <1>0 DEF Enqueue
    <2>2. \A j \in 1 .. Len(queue) : queue[j] \in Tasks /\ queue[j] # t
      BY <1>2, <1>0 DEF Enqueue, QueueExact
    <2>3. phase' = [phase EXCEPT ![t] = "queued"]
      BY <1>2 DEF Enqueue
    <2> QED
      BY <1>0, <2>1, <2>2, <2>3 DEF QueueExact
  <1>3. ASSUME NEW t \in Tasks, RefuseFull(t)
        PROVE  QueueExact'
    BY <1>3, <1>0 DEF RefuseFull, QueueExact, hist
  <1>4. ASSUME NEW t \in Tasks, SubmitStart(t)
        PROVE  QueueExact'
    BY <1>4, <1>0 DEF SubmitStart, QueueExact, hist
  <1>5. ASSUME NEW t \in Tasks, SubmitCompensate(t)
        PROVE  QueueExact'
    BY <1>5, <1>0 DEF SubmitCompensate, QueueExact, hist
  <1>6. ASSUME NEW t \in Tasks, RecordStarting(t)
        PROVE  QueueExact'
    BY <1>6, <1>0 DEF RecordStarting, QueueExact, hist
  <1>7. ASSUME NEW t \in Tasks, LifecycleReturn(t)
        PROVE  QueueExact'
    BY <1>7, <1>0 DEF LifecycleReturn, QueueExact, hist
  <1>8. ASSUME NEW t \in Tasks, NEW c \in Calls, Finish(t, c)
        PROVE  QueueExact'
    BY <1>8, <1>0 DEF Finish, QueueExact, hist
  <1>9. ASSUME NEW i \in 1 .. Len(queue), NEW c \in Calls, CancelQueued(i, c)
        PROVE  QueueExact'
    <2>1. /\ Len(queue') = Len(queue) - 1
          /\ \A j \in 1 .. Len(queue) - 1 :
               queue'[j] = IF j < i THEN queue[j] ELSE queue[j + 1]
      BY <1>9, <1>0, WithoutIndexFacts DEF CancelQueued
    <2>2. \A j \in 1 .. Len(queue) : queue[j] \in Tasks
      BY <1>0
    <2>3. phase' = [phase EXCEPT ![queue[i]] = "cancelled"]
      BY <1>9 DEF CancelQueued
    <2>4. \A j \in 1 .. Len(queue') : phase'[queue'[j]] = "queued"
      BY <1>0, <2>1, <2>2, <2>3 DEF QueueExact
    <2>5. ASSUME NEW j \in 1 .. Len(queue'), NEW k \in 1 .. Len(queue'),
                 queue'[j] = queue'[k]
          PROVE  j = k
      <3> DEFINE at(n) == IF n < i THEN n ELSE n + 1
      <3>1. /\ at(j) \in 1 .. Len(queue) /\ at(k) \in 1 .. Len(queue)
            /\ queue[at(j)] = queue[at(k)]
        BY <1>0, <2>1, <2>5
      <3>2. at(j) = at(k)
        BY <3>1 DEF QueueExact
      <3> QED
        BY <1>0, <2>1, <3>2
    <2>6. ASSUME NEW t \in Tasks, phase'[t] = "queued"
          PROVE  \E j \in 1 .. Len(queue') : queue'[j] = t
      <3>1. phase[t] = "queued" /\ t # queue[i]
        BY <1>0, <2>2, <2>3, <2>6
      <3>2. PICK k \in 1 .. Len(queue) : queue[k] = t
        BY <3>1 DEF QueueExact
      <3>3. CASE k < i
        BY <1>0, <3>2, <3>3, <2>1
      <3>4. CASE k > i
        <4>1. k - 1 \in 1 .. Len(queue') /\ queue'[k - 1] = queue[k]
          BY <1>0, <3>4, <2>1
        <4> QED
          BY <3>2, <4>1
      <3> QED
        BY <3>1, <3>2, <3>3, <3>4
    <2> QED
      BY <2>4, <2>5, <2>6 DEF QueueExact
  <1>10. ASSUME NEW i \in 1 .. Len(queue), CancelRestored(i)
        PROVE  QueueExact'
    <2>1. queue' = queue /\ phase' = phase
      BY <1>10, <1>0, RestoreInverse DEF CancelRestored
    <2> QED
      BY <2>1 DEF QueueExact
  <1>11. ASSUME NEW c \in Calls, ConfirmQueuedKill(c)
        PROVE  QueueExact'
    BY <1>11, <1>0 DEF ConfirmQueuedKill, QueueExact, hist, CallsSound, Busy, Carrying
  <1>12. ASSUME NEW c \in Calls, ConfirmQueuedKillFails(c)
        PROVE  QueueExact'
    BY <1>12, <1>0 DEF ConfirmQueuedKillFails, QueueExact, hist, CallsSound, Busy, Carrying
  <1>13. ASSUME NEW c \in Calls, AdvanceNothing(c)
        PROVE  QueueExact'
    BY <1>13, <1>0 DEF AdvanceNothing, QueueExact, hist
  <1>14. ASSUME NEW c \in Calls, AdvancePromote(c)
        PROVE  QueueExact'
    <2>1. /\ queue # <<>> /\ queue' = Tail(queue)
          /\ phase' = [phase EXCEPT ![Head(queue)] = "promoted"]
      BY <1>14 DEF AdvancePromote
    <2>2. /\ Len(queue) \in Nat \ {0} /\ Head(queue) = queue[1]
          /\ Len(queue') = Len(queue) - 1
          /\ \A j \in 1 .. Len(queue) - 1 : queue'[j] = queue[j + 1]
      BY <1>0, <2>1
    <2>3. \A j \in 1 .. Len(queue) : queue[j] \in Tasks
      BY <1>0
    <2>4. \A j \in 1 .. Len(queue') : phase'[queue'[j]] = "queued"
      BY <1>0, <2>1, <2>2, <2>3 DEF QueueExact
    <2>5. \A j, k \in 1 .. Len(queue') : queue'[j] = queue'[k] => j = k
      BY <1>0, <2>2 DEF QueueExact
    <2>6. ASSUME NEW t \in Tasks, phase'[t] = "queued"
          PROVE  \E j \in 1 .. Len(queue') : queue'[j] = t
      <3>1. phase[t] = "queued" /\ t # queue[1]
        BY <1>0, <2>1, <2>2, <2>3, <2>6
      <3>2. PICK k \in 1 .. Len(queue) : queue[k] = t
        BY <3>1 DEF QueueExact
      <3>3. k - 1 \in 1 .. Len(queue') /\ queue'[k - 1] = queue[k]
        BY <2>2, <3>1, <3>2
      <3> QED
        BY <3>2, <3>3
    <2> QED
      BY <2>4, <2>5, <2>6 DEF QueueExact
  <1>15. ASSUME NEW c \in Calls, AdvanceAborted(c)
        PROVE  QueueExact'
    BY <1>15, <1>0 DEF AdvanceAborted, QueueExact, hist
  <1>16. ASSUME NEW c \in Calls, StartPayload(c)
        PROVE  QueueExact'
    BY SMTT(60), <1>16, <1>0 DEF StartPayload, QueueExact, hist, CallsSound, Busy, Carrying
  <1>17. ASSUME NEW c \in Calls, CommitStart(c)
        PROVE  QueueExact'
    BY <1>17, <1>0 DEF CommitStart, QueueExact, hist
  <1>18. ASSUME NEW c \in Calls, CompensateRejectedStart(c)
        PROVE  QueueExact'
    <2> DEFINE h == rel[c].payload
    <2>1. h \in Tasks /\ phase[h] = "promoted" /\ h \in promotions
      BY <1>18, <1>0 DEF CompensateRejectedStart, CallsSound, Carrying
    <2>2. queue' = <<h>> \o queue /\ phase' = [phase EXCEPT ![h] = "queued"]
      BY <1>18, <2>1 DEF CompensateRejectedStart
    <2> HIDE DEF h
    <2>3. /\ <<h>> \in Seq(Tasks) /\ Len(<<h>>) = 1 /\ <<h>>[1] = h
      BY <2>1
    <2>4. /\ Len(queue') = Len(queue) + 1 /\ queue'[1] = h
          /\ \A j \in 2 .. Len(queue) + 1 : queue'[j] = queue[j - 1]
      BY SMTT(60), <1>0, <2>2, <2>3, ConcatProperties
    <2>5. \A j \in 1 .. Len(queue) : queue[j] \in Tasks /\ queue[j] # h
      BY <1>0, <2>1 DEF QueueExact
    <2>6. \A j \in 1 .. Len(queue') : phase'[queue'[j]] = "queued"
      BY <1>0, <2>1, <2>2, <2>4, <2>5 DEF QueueExact
    <2>7. ASSUME NEW j \in 1 .. Len(queue'), NEW k \in 1 .. Len(queue'),
                 queue'[j] = queue'[k]
          PROVE  j = k
      <3>1. CASE j = 1 \/ k = 1
        <4>1. \A i \in 1 .. Len(queue') : i # 1 => queue'[i] # h
          <5> TAKE i \in 1 .. Len(queue')
          <5> HAVE i # 1
          <5>1. i \in 2 .. Len(queue) + 1 /\ i - 1 \in 1 .. Len(queue)
            BY <1>0, <2>4
          <5> QED
            BY <2>4, <2>5, <5>1
        <4> QED
          BY <2>4, <2>7, <3>1, <4>1
      <3>2. CASE j # 1 /\ k # 1
        <4>1. /\ j - 1 \in 1 .. Len(queue) /\ k - 1 \in 1 .. Len(queue)
              /\ queue[j - 1] = queue[k - 1]
          BY <1>0, <2>4, <2>7, <3>2
        <4>2. j - 1 = k - 1
          BY <4>1 DEF QueueExact
        <4> QED
          BY <1>0, <2>4, <4>2
      <3> QED
        BY <3>1, <3>2
    <2>8. ASSUME NEW t \in Tasks, phase'[t] = "queued"
          PROVE  \E j \in 1 .. Len(queue') : queue'[j] = t
      <3>1. CASE t = h
        BY <1>0, <3>1, <2>4
      <3>2. CASE t # h
        <4>1. PICK k \in 1 .. Len(queue) : queue[k] = t
          BY <1>0, <2>1, <2>2, <2>8, <3>2 DEF QueueExact
        <4>2. k + 1 \in 1 .. Len(queue') /\ queue'[k + 1] = queue[k]
          BY <1>0, <2>4
        <4> QED
          BY <4>1, <4>2
      <3> QED
        BY <3>1, <3>2
    <2> QED
      BY <2>6, <2>7, <2>8 DEF QueueExact
  <1>19. ASSUME Shutdown
        PROVE  QueueExact'
    BY <1>19, <1>0 DEF Shutdown, QueueExact, hist
  <1>20. ASSUME Restart
        PROVE  QueueExact'
    <2>1. queue' = <<>> /\ \A t \in Tasks : phase'[t] # "queued"
      BY <1>20, RestartFacts DEF Restart
    <2> QED
      BY <2>1 DEF QueueExact
  <1>21. CASE UNCHANGED vars
    BY <1>21 DEF vars, QueueExact
  <1> QED
    BY <1>1, <1>2, <1>3, <1>4, <1>5, <1>6, <1>7, <1>8, <1>9, <1>10, <1>11,
       <1>12, <1>13, <1>14, <1>15, <1>16, <1>17, <1>18, <1>19, <1>20, <1>21
       DEF Next, Submit, Release

\* The queue holds exactly the waiting tasks, each once, whatever promotions,
\* cancels and compensations interleave (taskQueue never panics).
THEOREM QueueCorrect == Spec => [](CallsSound /\ QueueExact)
  <1>1. Init => CallsSound /\ QueueExact
    BY DEF Init, CallsSound, QueueExact, Busy, Carrying, IdleCall
  <1> QED
    BY <1>1, TypeCorrect, CallsStep, QueueStep, PTL DEF Spec

-----------------------------------------------------------------------------
(* Slots and starts.                                                       *)

\* A call frees the slot of a task that is over and nobody else's.
LEMMA SlotStep ==
    TypeOK /\ CallsSound /\ QueueExact /\ SlotAccounting /\ [Next]_vars => SlotAccounting'
  <1> SUFFICES ASSUME TypeOK, CallsSound, QueueExact, SlotAccounting, [Next]_vars
               PROVE  SlotAccounting'
    OBVIOUS
  <1>0. /\ rel \in [Calls -> CallStates] /\ phase \in [Tasks -> Phases]
        /\ queue \in Seq(Tasks)
        /\ \A c \in Calls :
             /\ rel[c].pc = "confirm" \/ Busy(c) => rel[c].task \in Tasks
             /\ Carrying(c) => rel[c].payload \in Tasks
             /\ rel[c] = IdleCall => rel[c].pc = "idle"
    BY CallsTyped
  <1>1. ASSUME NEW t \in Tasks, AdmitNow(t)
        PROVE  SlotAccounting'
    BY <1>1, <1>0 DEF AdmitNow, SlotAccounting, Owning, hist
  <1>2. ASSUME NEW t \in Tasks, Enqueue(t)
        PROVE  SlotAccounting'
    BY <1>2, <1>0 DEF Enqueue, SlotAccounting, Owning, hist
  <1>3. ASSUME NEW t \in Tasks, RefuseFull(t)
        PROVE  SlotAccounting'
    BY <1>3, <1>0 DEF RefuseFull, SlotAccounting, Owning, hist
  <1>4. ASSUME NEW t \in Tasks, SubmitStart(t)
        PROVE  SlotAccounting'
    BY <1>4, <1>0 DEF SubmitStart, SlotAccounting, Owning, hist
  <1>5. ASSUME NEW t \in Tasks, SubmitCompensate(t)
        PROVE  SlotAccounting'
    BY <1>5, <1>0 DEF SubmitCompensate, SlotAccounting, Owning, hist
  <1>6. ASSUME NEW t \in Tasks, RecordStarting(t)
        PROVE  SlotAccounting'
    BY <1>6, <1>0 DEF RecordStarting, SlotAccounting, Owning, hist
  <1>7. ASSUME NEW t \in Tasks, LifecycleReturn(t)
        PROVE  SlotAccounting'
    BY <1>7, <1>0 DEF LifecycleReturn, SlotAccounting, Owning, hist
  <1>8. ASSUME NEW t \in Tasks, NEW c \in Calls, Finish(t, c)
        PROVE  SlotAccounting'
    BY SMTT(60), <1>8, <1>0 DEF Finish, SlotAccounting, Owning, hist, CallsSound, Busy, Carrying, At, Holding, IdleCall
  <1>9. ASSUME NEW i \in 1 .. Len(queue), NEW c \in Calls, CancelQueued(i, c)
        PROVE  SlotAccounting'
    <2>1. queue[i] \in Tasks /\ phase[queue[i]] = "queued"
      BY <1>9, <1>0 DEF CancelQueued, QueueExact
    <2> QED
      BY SMTT(60), <1>9, <1>0, <2>1 DEF CancelQueued, SlotAccounting, Owning, CallsSound, Busy, Carrying, hist, At, Holding, IdleCall
  <1>10. ASSUME NEW i \in 1 .. Len(queue), CancelRestored(i)
        PROVE  SlotAccounting'
    BY <1>10, <1>0 DEF CancelRestored, SlotAccounting, Owning, hist
  <1>11. ASSUME NEW c \in Calls, ConfirmQueuedKill(c)
        PROVE  SlotAccounting'
    BY <1>11, <1>0 DEF ConfirmQueuedKill, SlotAccounting, Owning, hist, CallsSound, Busy, Carrying, At, Holding, IdleCall
  <1>12. ASSUME NEW c \in Calls, ConfirmQueuedKillFails(c)
        PROVE  SlotAccounting'
    BY <1>12, <1>0 DEF ConfirmQueuedKillFails, SlotAccounting, Owning, hist, CallsSound, Busy, Carrying, At, Holding, IdleCall
  <1>13. ASSUME NEW c \in Calls, AdvanceNothing(c)
        PROVE  SlotAccounting'
    BY SMTT(60), <1>13, <1>0 DEF AdvanceNothing, SlotAccounting, Owning, hist, CallsSound, Busy, Carrying, At, Holding, IdleCall
  <1>14. ASSUME NEW c \in Calls, AdvancePromote(c)
        PROVE  SlotAccounting'
    <2>0. queue \in Seq(Tasks) /\ queue # <<>>
      BY <1>14, <1>0 DEF AdvancePromote
    <2>1. Head(queue) \in Tasks /\ phase[Head(queue)] = "queued"
      BY <2>0, HeadFacts DEF QueueExact
    <2> QED
      BY SMTT(60), <1>14, <1>0, <2>1 DEF AdvancePromote, SlotAccounting, Owning, CallsSound, Busy, Carrying, hist, At, Holding, IdleCall
  <1>15. ASSUME NEW c \in Calls, AdvanceAborted(c)
        PROVE  SlotAccounting'
    BY <1>15, <1>0 DEF AdvanceAborted, SlotAccounting, Owning, hist, CallsSound, Busy, Carrying, At, Holding, IdleCall
  <1>16. ASSUME NEW c \in Calls, StartPayload(c)
        PROVE  SlotAccounting'
    BY <1>16, <1>0 DEF StartPayload, SlotAccounting, Owning, hist, CallsSound, Busy, Carrying, At, Holding, IdleCall
  <1>17. ASSUME NEW c \in Calls, CommitStart(c)
        PROVE  SlotAccounting'
    BY <1>17, <1>0 DEF CommitStart, SlotAccounting, Owning, hist, CallsSound, Busy, Carrying, At, Holding, IdleCall
  <1>18. ASSUME NEW c \in Calls, CompensateRejectedStart(c)
        PROVE  SlotAccounting'
    BY <1>18, <1>0 DEF CompensateRejectedStart, SlotAccounting, Owning, hist, CallsSound, Busy, Carrying, At, Holding, IdleCall
  <1>19. ASSUME Shutdown
        PROVE  SlotAccounting'
    BY <1>19, <1>0 DEF Shutdown, SlotAccounting, Owning, hist
  <1>20. ASSUME Restart
        PROVE  SlotAccounting'
    BY <1>20, RestartFacts DEF SlotAccounting, Owning
  <1>21. CASE UNCHANGED vars
    BY <1>21 DEF vars, SlotAccounting, Owning
  <1> QED
    BY <1>1, <1>2, <1>3, <1>4, <1>5, <1>6, <1>7, <1>8, <1>9, <1>10, <1>11,
       <1>12, <1>13, <1>14, <1>15, <1>16, <1>17, <1>18, <1>19, <1>20, <1>21
       DEF Next, Submit, Release

\* Whatever may execute holds a slot, and a slot of a task that is over is
\* about to be freed: no slot leaks and none is freed twice.
THEOREM SlotsAccounted == Spec => []SlotAccounting
  <1>1. Init => SlotAccounting
    BY DEF Init, SlotAccounting, Owning
  <1> QED
    BY <1>1, TypeCorrect, QueueCorrect, SlotStep, PTL DEF Spec
=============================================================================
