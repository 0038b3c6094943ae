----------------------------- MODULE Admission -----------------------------
(***************************************************************************)
(* Admission, waiting queue and execution slots of codexd.                 *)
(*                                                                         *)
(* A submit request is admitted under queueMu: it takes a slot at once, or *)
(* waits in the FIFO queue, or is refused.  Whoever ends a task calls      *)
(* ReleaseAndAdvance, which frees the slot and promotes the queue head in  *)
(* a loop of three separate critical sections (Execute, Start, CommitStart *)
(* or CompensateRejectedStart), so several such calls interleave with each *)
(* other, with submits, with cancels of queued tasks and with Shutdown.    *)
(* Every action below is one critical section of the code.                 *)
(***************************************************************************)
EXTENDS Naturals, Sequences, FiniteSets

CONSTANTS
    Tasks,           \* task IDs, unique because Reserve makes their directory
    ImplTasks,       \* the tasks whose subcommand is impl
    Calls,           \* ReleaseAndAdvance calls that can be in flight at once
    NoTask,          \* absence of a task in a call
    MaxConcurrentTasks, MaxConcurrentImplTasks, QueueMaxDepth,
    MaxBoots,        \* bound: restarts of the daemon
    MaxFaults        \* bound: store failures during a queued cancel

ASSUME TasksAssumption ==
    /\ IsFiniteSet(Tasks)
    /\ ImplTasks \subseteq Tasks
    /\ NoTask \notin Tasks

\* config.validate: every limit is at least 1, impl does not exceed the total.
ASSUME LimitsAssumption ==
    /\ MaxConcurrentTasks \in Nat \ {0}
    /\ MaxConcurrentImplTasks \in 1 .. MaxConcurrentTasks
    /\ QueueMaxDepth \in Nat \ {0}
    /\ MaxBoots \in Nat
    /\ MaxFaults \in Nat

VARIABLES
    queue,       \* taskQueue.payloads, as task IDs
    active,      \* ActiveTaskRegistry.reservations
    launching,   \* LaunchingTaskRegistry.snapshots
    promotions,  \* PromotionRegistry.taskIDs
    closed,      \* DefaultTaskLifecycleStarter: gate closed, contexts cancelled
    phase,       \* what has happened to each task, see Phases
    saved,       \* its task.json: none, live (an adoptable state) or terminal
    rel,         \* the ReleaseAndAdvance calls in flight
    starts,      \* history: accepted Start calls of the task
    ticket,      \* history: order of arrival at AdmitTask, 0 before
    adopted,     \* history: the reservations Reset put in the registry at boot
    boots, faults

vars == <<queue, active, launching, promotions, closed, phase, saved, rel,
          starts, ticket, adopted, boots, faults>>

hist == <<starts, ticket, adopted, boots, faults>>

\* admitted: holds a slot, its submitter is about to call Start.
\* refused:  Start said no to the submitter, which must compensate.
\* promoted: dequeued by a call that is about to call Start.
\* running:  owned by a lifecycle goroutine or, after a restart, by recovery.
\* stuck:    a cancelled queued task whose kill could not be confirmed.
Phases == {"new", "admitted", "refused", "queued", "promoted", "running",
           "cancelled", "stuck", "ended", "gone"}

\* The states of one ReleaseAndAdvance call (confirm: ConfirmTaskKilled of a
\* queued cancel, which ends in such a call).
IdleCall == [pc |-> "idle", task |-> NoTask, payload |-> NoTask]

At(pc, t) == [pc |-> pc, task |-> t, payload |-> NoTask]

Holding(pc, t, h) == [pc |-> pc, task |-> t, payload |-> h]

CallStates ==
    {IdleCall}
    \cup {At(pc, t) : pc \in {"confirm", "advance"}, t \in Tasks}
    \cup {Holding(pc, t, h) : pc \in {"start", "commit", "reject"},
                              t \in Tasks, h \in Tasks}

Init ==
    /\ queue = <<>>
    /\ active = {} /\ launching = {} /\ promotions = {} /\ adopted = {}
    /\ closed = FALSE
    /\ phase = [t \in Tasks |-> "new"]
    /\ saved = [t \in Tasks |-> "none"]
    /\ rel = [c \in Calls |-> IdleCall]
    /\ starts = [t \in Tasks |-> 0]
    /\ ticket = [t \in Tasks |-> 0]
    /\ boots = 0 /\ faults = 0

-----------------------------------------------------------------------------
(* Slots: registry.Size and registry.ImplSize against the limits.          *)

ImplSlotsIgnored(t, reserved) ==
    Cardinality(reserved) < MaxConcurrentTasks

SlotFor(t, reserved) ==
    /\ Cardinality(reserved) < MaxConcurrentTasks
    /\ t \in ImplTasks =>
         Cardinality(reserved \cap ImplTasks) < MaxConcurrentImplTasks

PromotionsNotCounted == Len(queue) < QueueMaxDepth

QueueHasRoom == Len(queue) + Cardinality(promotions) < QueueMaxDepth

Overtaking(t) == SlotFor(t, active)

\* A free slot is not enough: nobody overtakes a waiting task.
Immediate(t) == SlotFor(t, active) /\ queue = <<>>

-----------------------------------------------------------------------------
(* Submit: AdmitTaskUseCase.Execute, then Start, then compensation.        *)

NextTicket == Cardinality({u \in Tasks : ticket[u] > 0}) + 1

AdmitNow(t) ==
    /\ phase[t] = "new"
    /\ Immediate(t)
    /\ active' = active \cup {t}
    /\ launching' = launching \cup {t}
    /\ phase' = [phase EXCEPT ![t] = "admitted"]
    /\ ticket' = [ticket EXCEPT ![t] = NextTicket]
    /\ UNCHANGED <<queue, promotions, closed, saved, rel, starts, adopted,
                   boots, faults>>

Enqueue(t) ==
    /\ phase[t] = "new"
    /\ ~Immediate(t)
    /\ QueueHasRoom
    /\ queue' = Append(queue, t)
    /\ phase' = [phase EXCEPT ![t] = "queued"]
    /\ ticket' = [ticket EXCEPT ![t] = NextTicket]
    /\ UNCHANGED <<active, launching, promotions, closed, saved, rel, starts,
                   adopted, boots, faults>>

\* ErrQueueFull: submit gives the reservation of the ID back.
RefuseFull(t) ==
    /\ phase[t] = "new"
    /\ ~Immediate(t)
    /\ ~QueueHasRoom
    /\ phase' = [phase EXCEPT ![t] = "gone"]
    /\ ticket' = [ticket EXCEPT ![t] = NextTicket]
    /\ UNCHANGED <<queue, active, launching, promotions, closed, saved, rel,
                   starts, adopted, boots, faults>>

SubmitStart(t) ==
    /\ phase[t] = "admitted"
    /\ phase' = [phase EXCEPT ![t] = IF closed THEN "refused" ELSE "running"]
    /\ starts' = IF closed THEN starts ELSE [starts EXCEPT ![t] = @ + 1]
    /\ UNCHANGED <<queue, active, launching, promotions, closed, saved, rel,
                   ticket, adopted, boots, faults>>

SubmitCompensate(t) ==
    /\ phase[t] = "refused"
    /\ launching' = launching \ {t}
    /\ active' = active \ {t}
    /\ phase' = [phase EXCEPT ![t] = "gone"]
    /\ UNCHANGED <<queue, promotions, closed, saved, rel, hist>>

-----------------------------------------------------------------------------
(* The lifecycle goroutine, as far as slots are concerned.                 *)

RecordStarting(t) ==
    /\ phase[t] = "running" /\ saved[t] = "none" /\ t \in launching
    /\ saved' = [saved EXCEPT ![t] = "live"]
    /\ UNCHANGED <<queue, active, launching, promotions, closed, phase, rel,
                   hist>>

\* Run's deferred Unregister.  Before task.json exists the goroutine only
\* returns when its context is cancelled or when it has failed the launch.
LifecycleReturn(t) ==
    /\ t \in launching
    /\ \/ phase[t] = "ended"
       \/ phase[t] = "running" /\ (saved[t] # "none" \/ closed)
    /\ launching' = launching \ {t}
    /\ UNCHANGED <<queue, active, promotions, closed, phase, saved, rel,
                   hist>>

FinishKeepingSlot(t, c) ==
    /\ rel[c] = IdleCall
    /\ phase[t] = "running"
    /\ saved' = [saved EXCEPT ![t] = "terminal"]
    /\ phase' = [phase EXCEPT ![t] = "ended"]
    /\ UNCHANGED <<queue, active, launching, promotions, closed, rel, hist>>

\* The lifecycle, the timeout enforcement, a cancel or recovery takes t to a
\* terminal state and calls ReleaseAndAdvance, even when persisting failed.
\* A task whose terminal state was not persisted is found again later by the
\* reconciler or the stall scan and released a second time, if it ever had a
\* task.lock to confirm its death with.
Finish(t, c) ==
    /\ rel[c] = IdleCall
    /\ \/ phase[t] = "running"
       \/ phase[t] = "ended" /\ saved[t] = "live" /\ starts[t] > 0
    /\ \E s \in {saved[t], "terminal"} : saved' = [saved EXCEPT ![t] = s]
    /\ phase' = [phase EXCEPT ![t] = "ended"]
    /\ rel' = [rel EXCEPT ![c] = At("advance", t)]
    /\ UNCHANGED <<queue, active, launching, promotions, closed, hist>>

-----------------------------------------------------------------------------
(* Cancel of a queued task: cancelQueued under queueMu, then               *)
(* ConfirmTaskKilled without it.                                           *)

WithoutIndex(s, i) == SubSeq(s, 1, i - 1) \o SubSeq(s, i + 1, Len(s))

CancelQueued(i, c) ==
    /\ rel[c] = IdleCall
    /\ queue' = WithoutIndex(queue, i)
    /\ saved' = [saved EXCEPT ![queue[i]] = "live"]
    /\ phase' = [phase EXCEPT ![queue[i]] = "cancelled"]
    /\ rel' = [rel EXCEPT ![c] = At("confirm", queue[i])]
    /\ UNCHANGED <<active, launching, promotions, closed, hist>>

\* Saving the cancelling snapshot failed: Restore puts the payload back where
\* Remove took it, in the same critical section.
RestoreAt(s, t, i) == SubSeq(s, 1, i - 1) \o <<t>> \o SubSeq(s, i, Len(s))

CancelRestored(i) ==
    /\ faults < MaxFaults
    /\ faults' = faults + 1
    /\ queue' = RestoreAt(WithoutIndex(queue, i), queue[i], i)
    /\ UNCHANGED <<active, launching, promotions, closed, phase, saved, rel,
                   starts, ticket, adopted, boots>>

NoAdvanceAfterCancel(c) ==
    /\ rel[c].pc = "confirm"
    /\ \E s \in {"live", "terminal"} :
         saved' = [saved EXCEPT ![rel[c].task] = s]
    /\ phase' = [phase EXCEPT ![rel[c].task] = "ended"]
    /\ rel' = [rel EXCEPT ![c] = IdleCall]
    /\ UNCHANGED <<queue, active, launching, promotions, closed, hist>>

\* ConfirmTaskKilled releases whether or not the killed state was persisted.
ConfirmQueuedKill(c) ==
    /\ rel[c].pc = "confirm"
    /\ \E s \in {"live", "terminal"} :
         saved' = [saved EXCEPT ![rel[c].task] = s]
    /\ phase' = [phase EXCEPT ![rel[c].task] = "ended"]
    /\ rel' = [rel EXCEPT ![c] = At("advance", rel[c].task)]
    /\ UNCHANGED <<queue, active, launching, promotions, closed, hist>>

\* The reload failed: nothing is released, and the reconciler cannot confirm
\* the death of a task that never had a task.lock; adoption does at restart.
ConfirmQueuedKillFails(c) ==
    /\ rel[c].pc = "confirm"
    /\ faults < MaxFaults
    /\ faults' = faults + 1
    /\ phase' = [phase EXCEPT ![rel[c].task] = "stuck"]
    /\ rel' = [rel EXCEPT ![c] = IdleCall]
    /\ UNCHANGED <<queue, active, launching, promotions, closed, saved,
                   starts, ticket, adopted, boots>>

-----------------------------------------------------------------------------
(* slotFinalizer.ReleaseAndAdvance, one loop per call.                     *)

HeadDropped(c) ==
    LET left == active \ {rel[c].task}
    IN  /\ rel[c].pc = "advance"
        /\ queue # <<>> => ~SlotFor(Head(queue), left)
        /\ active' = left
        /\ queue' = IF queue = <<>> THEN queue ELSE Tail(queue)
        /\ rel' = [rel EXCEPT ![c] = IdleCall]
        /\ UNCHANGED <<launching, promotions, closed, phase, saved, hist>>

\* AdvanceQueueUseCase.Execute finds nothing to promote: the queue is empty,
\* or its head is dequeued, has no slot and is prepended again.
AdvanceNothing(c) ==
    LET left == active \ {rel[c].task}
    IN  /\ rel[c].pc = "advance"
        /\ queue # <<>> => ~SlotFor(Head(queue), left)
        /\ active' = left
        /\ rel' = [rel EXCEPT ![c] = IdleCall]
        /\ UNCHANGED <<queue, launching, promotions, closed, phase, saved,
                       hist>>

PromoteUnreserved(c) ==
    LET left == active \ {rel[c].task}
        h == Head(queue)
    IN  /\ rel[c].pc = "advance"
        /\ queue # <<>>
        /\ SlotFor(h, left)
        /\ queue' = Tail(queue)
        /\ active' = left
        /\ launching' = launching \cup {h}
        /\ promotions' = promotions \cup {h}
        /\ phase' = [phase EXCEPT ![h] = "promoted"]
        /\ rel' = [rel EXCEPT ![c] = Holding("start", rel[c].task, h)]
        /\ UNCHANGED <<closed, saved, hist>>

PromoteUnlisted(c) ==
    LET left == active \ {rel[c].task}
        h == Head(queue)
    IN  /\ rel[c].pc = "advance"
        /\ queue # <<>>
        /\ SlotFor(h, left)
        /\ queue' = Tail(queue)
        /\ active' = left \cup {h}
        /\ promotions' = promotions \cup {h}
        /\ phase' = [phase EXCEPT ![h] = "promoted"]
        /\ rel' = [rel EXCEPT ![c] = Holding("start", rel[c].task, h)]
        /\ UNCHANGED <<launching, closed, saved, hist>>

\* Execute moves the head from the queue to a slot.
AdvancePromote(c) ==
    LET left == active \ {rel[c].task}
        h == Head(queue)
    IN  /\ rel[c].pc = "advance"
        /\ queue # <<>>
        /\ SlotFor(h, left)
        /\ queue' = Tail(queue)
        /\ active' = left \cup {h}
        /\ launching' = launching \cup {h}
        /\ promotions' = promotions \cup {h}
        /\ phase' = [phase EXCEPT ![h] = "promoted"]
        /\ rel' = [rel EXCEPT ![c] = Holding("start", rel[c].task, h)]
        /\ UNCHANGED <<closed, saved, hist>>

\* The context was cancelled by Shutdown: Execute returns an error before the
\* registry is touched, or after it has undone everything but the release.
AdvanceAborted(c) ==
    /\ rel[c].pc = "advance"
    /\ closed
    /\ active' \in {active, active \ {rel[c].task}}
    /\ rel' = [rel EXCEPT ![c] = IdleCall]
    /\ UNCHANGED <<queue, launching, promotions, closed, phase, saved, hist>>

StartAgain(c) ==
    LET h == rel[c].payload
    IN  /\ rel[c].pc = "start"
        /\ phase' = IF closed THEN phase ELSE [phase EXCEPT ![h] = "running"]
        /\ starts' = IF closed THEN starts ELSE [starts EXCEPT ![h] = @ + 1]
        /\ rel' = IF closed THEN [rel EXCEPT ![c].pc = "reject"] ELSE rel
        /\ UNCHANGED <<queue, active, launching, promotions, closed, saved,
                       ticket, adopted, boots, faults>>

StartPayload(c) ==
    LET h == rel[c].payload
    IN  /\ rel[c].pc = "start"
        /\ phase' = IF closed THEN phase ELSE [phase EXCEPT ![h] = "running"]
        /\ starts' = IF closed THEN starts ELSE [starts EXCEPT ![h] = @ + 1]
        /\ rel' = [rel EXCEPT ![c] = Holding(IF closed THEN "reject" ELSE "commit",
                                             rel[c].task, h)]
        /\ UNCHANGED <<queue, active, launching, promotions, closed, saved,
                       ticket, adopted, boots, faults>>

CommitAndKeepPayload(c) ==
    /\ rel[c].pc = "commit"
    /\ promotions' = promotions \ {rel[c].payload}
    /\ rel' = [rel EXCEPT ![c].pc = "advance"]
    /\ UNCHANGED <<queue, active, launching, closed, phase, saved, hist>>

CommitStart(c) ==
    /\ rel[c].pc = "commit"
    /\ promotions' = promotions \ {rel[c].payload}
    /\ rel' = [rel EXCEPT ![c] = At("advance", rel[c].task)]
    /\ UNCHANGED <<queue, active, launching, closed, phase, saved, hist>>

\* Only the promotion that is still unresolved is put back at the head.
CompensateRejectedStart(c) ==
    LET h == rel[c].payload
        mine == h \in promotions
    IN  /\ rel[c].pc = "reject"
        /\ promotions' = promotions \ {h}
        /\ launching' = IF mine THEN launching \ {h} ELSE launching
        /\ active' = IF mine THEN active \ {h} ELSE active
        /\ queue' = IF mine THEN <<h>> \o queue ELSE queue
        /\ phase' = IF mine THEN [phase EXCEPT ![h] = "queued"] ELSE phase
        /\ rel' = [rel EXCEPT ![c] = IdleCall]
        /\ UNCHANGED <<closed, saved, hist>>

-----------------------------------------------------------------------------
(* Shutdown and restart of the daemon.                                     *)

Shutdown ==
    /\ ~closed
    /\ closed' = TRUE
    /\ UNCHANGED <<queue, active, launching, promotions, phase, saved, rel,
                   hist>>

\* The process dies, orderly or not, and a new one adopts what task.json
\* files say is not terminal: Reset ignores the limits.  The queue was only
\* in memory.
Restart ==
    LET live == {t \in Tasks : saved[t] = "live"}
    IN  /\ boots < MaxBoots
        /\ boots' = boots + 1
        /\ queue' = <<>> /\ promotions' = {} /\ launching' = {}
        /\ active' = live /\ adopted' = live
        /\ closed' = FALSE
        /\ rel' = [c \in Calls |-> IdleCall]
        /\ phase' = [t \in Tasks |->
                        CASE saved[t] = "live" -> "running"
                          [] saved[t] = "terminal" -> "ended"
                          [] saved[t] = "none" ->
                               IF phase[t] = "new" THEN "new" ELSE "gone"]
        /\ UNCHANGED <<saved, starts, ticket, faults>>

-----------------------------------------------------------------------------
Submit(t) == AdmitNow(t) \/ Enqueue(t) \/ RefuseFull(t) \/ SubmitStart(t)
             \/ SubmitCompensate(t)

Release(c) == \/ ConfirmQueuedKill(c) \/ AdvanceNothing(c) \/ AdvancePromote(c)
              \/ AdvanceAborted(c) \/ StartPayload(c) \/ CommitStart(c)
              \/ CompensateRejectedStart(c)

Next ==
    \/ \E t \in Tasks : Submit(t) \/ RecordStarting(t) \/ LifecycleReturn(t)
    \/ \E t \in Tasks, c \in Calls : Finish(t, c)
    \/ \E c \in Calls : Release(c) \/ ConfirmQueuedKillFails(c)
    \/ \E i \in 1 .. Len(queue) : CancelRestored(i)
    \/ \E i \in 1 .. Len(queue), c \in Calls : CancelQueued(i, c)
    \/ Shutdown
    \/ Restart

\* Go schedules every runnable goroutine; a task process ends on its own or is
\* ended by its timeout, and then somebody finishes the task.
Fairness ==
    /\ \A c \in Calls : WF_vars(Release(c))
    /\ \A t \in Tasks : /\ WF_vars(SubmitStart(t) \/ SubmitCompensate(t))
                        /\ SF_vars(\E c \in Calls : phase[t] = "running" /\ Finish(t, c))

Spec == Init /\ [][Next]_vars

FairSpec == Spec /\ Fairness
-----------------------------------------------------------------------------
(* Properties.                                                             *)

\* The registries and the queue hold tasks, and a ReleaseAndAdvance call holds
\* a dequeued payload exactly between Execute and CommitStart or
\* CompensateRejectedStart.
TypeOK ==
    /\ queue \in Seq(Tasks)
    /\ active \subseteq Tasks /\ launching \subseteq Tasks
    /\ promotions \subseteq Tasks /\ adopted \subseteq Tasks
    /\ closed \in BOOLEAN
    /\ phase \in [Tasks -> Phases]
    /\ saved \in [Tasks -> {"none", "live", "terminal"}]
    /\ rel \in [Calls -> CallStates]
    /\ starts \in [Tasks -> Nat] /\ ticket \in [Tasks -> Nat]
    /\ boots \in 0 .. MaxBoots /\ faults \in 0 .. MaxFaults

\* The waiting tasks, those a call has dequeued but not yet seen started
\* included, never exceed queue_max_depth: a rejected start always finds room
\* for the payload it puts back.
DepthBound == Len(queue) + Cardinality(promotions) <= QueueMaxDepth

\* Reservations exceed the limits only when adoption found more live tasks
\* than the limits allow, and then no further task is given a slot: whatever
\* submits, calls and compensations interleave.
SlotCap ==
    /\ active \subseteq adopted \/ Cardinality(active) <= MaxConcurrentTasks
    /\ \/ active \cap ImplTasks \subseteq adopted
       \/ Cardinality(active \cap ImplTasks) <= MaxConcurrentImplTasks

\* The queue holds every waiting task exactly once and nothing else, so that
\* validateQueuedPayload and reindex never panic and no promotion, cancel or
\* compensation loses or duplicates a task.
QueueExact ==
    /\ \A i \in 1 .. Len(queue) : phase[queue[i]] = "queued"
    /\ \A i, j \in 1 .. Len(queue) : queue[i] = queue[j] => i = j
    /\ \A t \in Tasks : phase[t] = "queued" => \E i \in 1 .. Len(queue) : queue[i] = t

\* A task whose lifecycle may be executing.
Owning(t) == phase[t] \in {"admitted", "promoted", "running"}

\* A task that may execute holds a slot, and a slot held by a task that is
\* over is about to be freed by a call in flight: neither a late second
\* release nor a compensation takes the slot of a running task, and no slot
\* leaks while the gate is open.
SlotAccounting ==
    \A t \in Tasks :
        /\ Owning(t) => t \in active
        /\ t \in active => \/ Owning(t) \/ phase[t] = "refused" \/ closed
                           \/ \E c \in Calls : rel[c] = At("advance", t)

\* A status request can always find an accepted task that is not over: in the
\* queue, among the launching snapshots, or in its task.json.
Visible ==
    closed \/ \A t \in Tasks :
        Owning(t) => t \in launching \/ saved[t] # "none"

\* The lifecycle of a task is started at most once, also when its first start
\* was rejected and it was promoted again.
StartedOnce == \A t \in Tasks : starts[t] <= 1

\* While the gate is open no task gets a slot before an earlier one that is
\* still waiting.
FifoService ==
    closed \/ \A t, u \in Tasks :
        phase[t] = "queued" /\ Owning(u) /\ u \notin adopted => ticket[u] < ticket[t]

\* While the gate is open a waiting head for which there is a slot is never
\* left to itself: a call is in flight that will look at the queue again.
\* (A cancel whose confirmation failed is the one way to lose that call.)
WorkConserving ==
    \/ closed \/ queue = <<>> \/ ~SlotFor(Head(queue), active)
    \/ \E t \in Tasks : phase[t] = "stuck"
    \/ \E c \in Calls : rel[c] # IdleCall

\* Every waiting task is eventually started or cancelled, unless the daemon
\* shuts down first.
Served ==
    \A t \in Tasks : phase[t] = "queued" ~> (phase[t] # "queued" \/ closed)
=============================================================================
