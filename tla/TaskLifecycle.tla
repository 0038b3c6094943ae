---------------------------- MODULE TaskLifecycle ---------------------------
(***************************************************************************)
(* The life of one task, from its admission to its terminal state, and     *)
(* everybody who acts on it: the goroutine that launches and awaits its    *)
(* process (usecase/lifecycle.go), the timeout callback, cancel requests,  *)
(* the stall scan, the reconciliation ticker and the senders it spawns,    *)
(* the resume attempts, and the adoption pass of the next daemon.          *)
(*                                                                         *)
(* An action is one critical section of taskMu, or one step outside of it. *)
(* Releasing the timer, the path lock and the slot right after a critical  *)
(* section is part of that section's action.  What a failing store or      *)
(* signal call leads to is a disjunct that spends one of MaxFaults; a      *)
(* critical section that dies half way leaves the same files as one whose  *)
(* next write failed.                                                      *)
(***************************************************************************)
EXTENDS PendingEntry, Naturals

CONSTANTS
  Cancellers,   \* the cancel requests for the task
  Resumers,     \* the resume attempts that can be in flight at once
  MaxBoots,     \* bound: how often the daemon is restarted
  MaxFaults,    \* bound: how many calls fail
  MaxTries      \* timeoutEnforcementRetryMaxAttempts

ASSUME LifecycleAssumption ==
  /\ Cancellers \cap {"none", "lc", "to", "ticker", "adopter"} = {}
  /\ MaxBoots \in Nat /\ MaxFaults \in Nat /\ MaxTries \in Nat

VARIABLES
  task,      \* task.json
  exitFile,  \* the exit-code file
  lockFile,  \* task.lock exists
  message,   \* the last-message file has content
  child,     \* the launched process
  code,      \* what it exited with
  again,     \* the process of a resume attempt
  pend,      \* the entry of the pending set
  timer,     \* the timeout watcher's entry
  slot,      \* the registry holds a slot for the task
  lc,        \* the lifecycle goroutine
  to,        \* the timeout callback
  cn,        \* the cancel requests
  sc,        \* the stall scan
  rc,        \* the reconciliation ticker
  sw,        \* the goroutines that send for the ticker and for the adopter
  ad,        \* the adoption pass
  res,       \* the resume attempts
  snd,       \* SendAndConfirm calls, by caller
  closing,   \* the daemon is shutting down
  struck,    \* history: a signal went to a number that no longer names the child
  measured,  \* history: metrics records written
  resumes,   \* history: processes started by resume attempts
  boots, faults

files   == <<task, exitFile, lockFile, message>>
procs   == <<child, code, again>>
memory  == <<pend, timer, slot>>
actors  == <<lc, to, cn, sc, rc, sw, ad, res, snd>>
history == <<struck, measured, resumes>>
vars    == <<files, procs, memory, actors, closing, history, boots, faults>>

NoCode   == 999
Codes    == {0, 1, 2, 6, 130, 143}
Sweepers == {"ticker", "adopter"}
Senders  == {"lc", "to"} \cup Sweepers \cup Cancellers

Active    == {"starting", "running", "stalled"}
Unsettled == {"timeout", "cancelling", "recovering", "orphaned"}
Terminal  == {"completed", "failed", "recovered", "timeout-lost", "killed", "lost"}
Living    == {"alive", "termed", "doomed"}

\* Ownership is held from Run's first line to its return.
Owner == lc.pc \notin {"queued", "done"}

FlockNotInherited == again \in Living \/ lc.pc \in {"record", "check", "launch"}

\* The daemon's descriptor keeps task.lock until the child has inherited it.
Flocked == child \in Living \/ again \in Living \/ lc.pc \in {"record", "check", "launch"}

\* The number of a process that was awaited, or that init reaped, is free to name another.
Unwaited == {"boundary", "confirm", "arm", "monitor", "claim", "claimed", "send", "ask", "wait", "reap",
             "record-failed", "reap-failed"}
Reaped   == child = "dead" /\ lc.pc \notin Unwaited

Up      == ad = "up" /\ ~closing
NoFault == faults' = faults
Fault   == faults < MaxFaults /\ faults' = faults + 1

NeverOwned == FALSE

\* RecoveryOwnershipRegistry
RecoveryOwned == rc.pc = "resolve" \/ \E r \in Resumers : res[r].pc \in {"begin", "launch", "await", "finish"}

IdleSend   == [pc |-> "idle", auth |-> NoAuth, err |-> "ok", dead |-> FALSE]
IdleResume == [pc |-> "idle", for |-> "none", origin |-> "none", won |-> FALSE]

Init ==
  /\ task = [st |-> "none", pid |-> FALSE, adopted |-> FALSE, origin |-> "none", exit |-> NoCode]
  /\ exitFile = NoCode /\ lockFile = FALSE /\ message = FALSE
  /\ child = "none" /\ code = NoCode /\ again = "none"
  /\ pend = NoEntry /\ timer = "off" /\ slot = FALSE
  /\ lc = [pc |-> "queued", raw |-> NoCode, skip |-> FALSE, present |-> FALSE, sent |-> TRUE]
  /\ to = [pc |-> "idle", tries |-> 0]
  /\ cn = [c \in Cancellers |-> "idle"]
  /\ sc = "idle"
  /\ rc = [pc |-> "idle", auth |-> NoAuth]
  /\ sw = [g \in Sweepers |-> [pc |-> "idle", auth |-> NoAuth]]
  /\ ad = "up"
  /\ res = [r \in Resumers |-> IdleResume]
  /\ snd = [s \in Senders |-> IdleSend]
  /\ closing = FALSE /\ struck = FALSE /\ measured = 0 /\ resumes = 0
  /\ boots = 0 /\ faults = 0

-----------------------------------------------------------------------------
(* Terminal persistence *)

Ended(s, c) == [task EXCEPT !.st = s, !.exit = c]
Release     == timer' = "off" /\ slot' = FALSE
Refused     == UNCHANGED <<task, exitFile, measured, timer, slot>>

\* writeExitCodeIdempotently: a second, different code stops the persistence.
Agrees(raw) == exitFile \in {NoCode, raw}

\* Nothing, or only the exit code, reached the disk.
Unsaved(raw, writes) ==
  /\ UNCHANGED <<task, measured>>
  /\ \/ ~Agrees(raw) /\ NoFault /\ UNCHANGED exitFile
     \/ Fault /\ UNCHANGED exitFile
     \/ /\ Agrees(raw) /\ exitFile' = raw
        /\ faults + writes <= MaxFaults /\ faults' = faults + writes

KillOverWritten(raw, saved, unsaved, refused) ==
  \/ /\ task.st = "cancelling" /\ NoFault
     /\ task' = Ended("killed", raw) /\ exitFile' = (IF exitFile = NoCode THEN raw ELSE exitFile)
     /\ measured' = measured + 1 /\ pend' = saved /\ Release
  \/ task.st = "cancelling" /\ Unsaved(raw, 1) /\ pend' = unsaved /\ Release
  \/ task.st # "cancelling" /\ NoFault /\ Refused /\ pend' = refused
  \/ Fault /\ Refused /\ pend' = refused

\* ConfirmTaskKilledUseCase: the resources go also when the kill was not persisted.
ConfirmKilled(raw, saved, unsaved, refused) ==
  \/ /\ task.st = "cancelling" /\ Agrees(raw) /\ NoFault
     /\ task' = Ended("killed", raw) /\ exitFile' = raw /\ measured' = measured + 1
     /\ pend' = saved /\ Release
  \/ task.st = "cancelling" /\ Unsaved(raw, 1) /\ pend' = unsaved /\ Release
  \/ task.st # "cancelling" /\ NoFault /\ Refused /\ pend' = refused
  \/ Fault /\ Refused /\ pend' = refused

ExitsUnlessCancelled(estimated) == task.st \notin {"none", "cancelling"}

MayExit(estimated) == task.st \in Active \/ (task.st = "orphaned" /\ estimated)

\* FinalizeTaskUseCase: one failed write is retried, and the retry never reports success.
Finalize(raw, present, estimated, saved, failed) ==
  \/ /\ MayExit(estimated) /\ Agrees(raw)
     /\ \/ NoFault /\ task' = Ended(IF raw = 0 /\ present THEN "completed" ELSE "failed", raw)
        \/ Fault /\ task' = Ended("failed", raw)
     /\ exitFile' = raw /\ measured' = measured + 1 /\ pend' = saved /\ Release
  \/ MayExit(estimated) /\ Unsaved(raw, 2) /\ pend' = failed /\ Release
  \/ ~MayExit(estimated) /\ NoFault /\ Refused /\ pend' = failed
  \/ Fault /\ Refused /\ pend' = failed

\* After a confirmed death nobody signals: the entry becomes confirm-only, or goes with the task.
AfterDeath(e) ==
  CASE task.st \in Terminal  -> Remove(e)
    [] task.st \in Unsettled -> ConfirmOnly(Remove(e))
    [] OTHER                 -> e

\* What adoption and the ticker register for a task they find unsettled.
SnapshotAuth == IF task.pid /\ task.st \in {"timeout", "cancelling"}
                THEN [exp |-> task.st, gen |-> FALSE] ELSE NoAuth
RegisterSnapshot(e) == IF SnapshotAuth = NoAuth THEN ConfirmOnly(e) ELSE Register(e, "unsent", SnapshotAuth)

\* Start a goroutine, or call, RecoverViaResumeUseCase.Execute.
Dispatch(for) ==
  \E r \in Resumers : res[r].pc = "idle" /\ res' = [res EXCEPT ![r].pc = "called", ![r].for = for]

\* OrphanRecoveryCoordinator.Handle
Handle ==
  \/ message /\ Finalize(0, TRUE, TRUE, Remove(pend), AfterDeath(pend)) /\ res' = res
  \/ ~message /\ NoFault /\ Refused /\ pend' = pend /\ Dispatch("orphan")
  \/ ~message /\ Fault /\ Refused /\ pend' = AfterDeath(pend) /\ res' = res

\* resolveRecoveringLocked, and the callers' releases: a missing exit code is only logged.
Resolve(saved, failed) ==
  LET raw == IF message THEN 0 ELSE 1
      end == CASE message -> "recovered" [] task.origin = "timeout" -> "timeout-lost" [] OTHER -> "lost"
  IN \/ /\ Agrees(raw) /\ ((NoFault /\ exitFile' = raw) \/ (Fault /\ UNCHANGED exitFile))
        /\ task' = [task EXCEPT !.st = end, !.adopted = TRUE, !.exit = IF message THEN 0 ELSE @]
        /\ measured' = measured + 1 /\ slot' = FALSE /\ timer' = timer /\ pend' = saved
     \/ Unsaved(raw, 1) /\ UNCHANGED <<timer, slot>> /\ pend' = failed

-----------------------------------------------------------------------------
(* SendAndConfirm: terminate, probe, kill, probe again *)

Matches(a) == task.pid /\ task.st = a.exp
Valid(a)   == Matches(a) /\ (a.gen => Owner)

Worse(e, f) == IF "invalid" \in {e, f} THEN "invalid" ELSE IF "failed" \in {e, f} THEN "failed" ELSE "ok"

Send(s, a)  == snd' = [snd EXCEPT ![s] = [IdleSend EXCEPT !.pc = "term", !.auth = a]]
Sent(s)     == snd[s].pc = "done"
Idle(s)     == snd' = [snd EXCEPT ![s] = IdleSend]
Delivered(kill) == IF kill THEN (IF child \in Living THEN "doomed" ELSE child)
                           ELSE (IF child = "alive" THEN "termed" ELSE child)

Signal(s, kill) ==
  /\ snd[s].pc = (IF kill THEN "kill" ELSE "term")
  /\ \E e \in {"ok", "invalid", "failed"} :
       /\ \/ e = "ok" /\ Valid(snd[s].auth) /\ NoFault
          \/ e = "invalid" /\ ~Valid(snd[s].auth) /\ NoFault
          \/ e = "failed" /\ Fault
       /\ snd' = [snd EXCEPT ![s].pc = IF kill THEN "reprobe" ELSE "probe", ![s].err = Worse(@, e)]
       /\ struck' = (struck \/ (e = "ok" /\ Reaped))
       /\ child' = IF e = "ok" THEN Delivered(kill) ELSE child
  /\ UNCHANGED <<files, code, again, memory, lc, to, cn, sc, rc, sw, ad, res, closing, measured, resumes, boots>>

\* A probe that fails, or whose context was cancelled, confirms nothing.
Unprobed(s) == Fault \/ (NoFault /\ (~lockFile \/ (closing /\ s \in {"lc", "to"})))

ProbeChild(s) ==
  /\ snd[s].pc \in {"probe", "reprobe"}
  /\ \/ /\ lockFile /\ NoFault
        /\ snd' = [snd EXCEPT ![s].pc = IF Flocked /\ @ = "probe" THEN "kill" ELSE "done", ![s].dead = ~Flocked]
     \/ Unprobed(s) /\ snd' = [snd EXCEPT ![s].pc = "done"]
  /\ UNCHANGED <<files, procs, memory, lc, to, cn, sc, rc, sw, ad, res, closing, history, boots>>

\* What a sender without a claim registers when it could not see the process die.
Unconfirmed(e, s) ==
  CASE snd[s].err = "ok"      -> Register(e, "sent", NoAuth)
    [] snd[s].err = "invalid" -> ConfirmOnly(e)
    [] OTHER                  -> Register(e, "unsent", snd[s].auth)

-----------------------------------------------------------------------------
(* The lifecycle goroutine *)

LcGo(p) == lc' = [lc EXCEPT !.pc = p]
LcAuth  == [exp |-> "cancelling", gen |-> TRUE]

\* Run: ownership, and task.lock with its flock.
LcAcquire ==
  /\ lc.pc = "queued" /\ Up /\ slot' = TRUE
  /\ \/ NoFault /\ lockFile' = TRUE /\ LcGo("record")
     \/ Fault /\ lockFile' = lockFile /\ lc' = [lc EXCEPT !.pc = "failing", !.raw = 130]
  /\ UNCHANGED <<task, exitFile, message, procs, pend, timer, to, cn, sc, rc, sw, ad, res, snd, closing, history, boots>>

\* RecordTaskStarting, then the worktree.
LcRecord ==
  /\ lc.pc = "record"
  /\ \/ NoFault /\ task' = [task EXCEPT !.st = "starting"] /\ LcGo("check")
     \/ /\ Fault /\ task' \in {task, [task EXCEPT !.st = "starting"]}
        /\ lc' = [lc EXCEPT !.pc = "failing", !.raw = 130]
  /\ UNCHANGED <<exitFile, lockFile, message, procs, memory, to, cn, sc, rc, sw, ad, res, snd, closing, history, boots>>

\* confirmUnlaunchedCancellation: a task that cannot be read is left as it is.
LcCheck ==
  /\ lc.pc = "check"
  /\ \/ task.st # "cancelling" /\ NoFault /\ LcGo("launch") /\ Refused /\ pend' = pend
     \/ Fault /\ LcGo("done") /\ Refused /\ pend' = pend
     \/ task.st = "cancelling" /\ LcGo("done") /\ ConfirmKilled(130, pend, ConfirmOnly(pend), ConfirmOnly(pend))
  /\ UNCHANGED <<lockFile, message, procs, to, cn, sc, rc, sw, ad, res, snd, closing, struck, resumes, boots>>

LcLaunch ==
  /\ lc.pc = "launch"
  /\ \/ NoFault /\ child' = "alive" /\ LcGo("boundary")
     \/ Fault /\ child' = child /\ lc' = [lc EXCEPT !.pc = "failing", !.raw = 130]
  /\ UNCHANGED <<files, code, again, memory, to, cn, sc, rc, sw, ad, res, snd, closing, history, boots>>

\* recordProcessAtLaunchBoundary
LcBoundary ==
  /\ lc.pc = "boundary"
  /\ \/ task.st = "cancelling" /\ NoFault /\ LcGo("claim") /\ task' = task
     \/ task.st = "starting" /\ NoFault /\ LcGo("confirm") /\ task' = [task EXCEPT !.pid = TRUE]
     \/ Fault /\ LcGo("record-failed") /\ task' = task
  /\ UNCHANGED <<exitFile, lockFile, message, procs, memory, to, cn, sc, rc, sw, ad, res, snd, closing, history, boots>>

\* handleRecordProcessFailure: the process is killed and awaited before the task fails.
LcTerminate ==
  /\ lc.pc = "record-failed" /\ LcGo("reap-failed")
  /\ ((NoFault /\ child' = Delivered(TRUE)) \/ (Fault /\ child' = child))
  /\ UNCHANGED <<files, code, again, memory, to, cn, sc, rc, sw, ad, res, snd, closing, history, boots>>

FailUnawaited ==
  /\ lc.pc = "reap-failed"
  /\ \E raw \in {code, 1} : lc' = [lc EXCEPT !.pc = "failing", !.raw = raw]
  /\ UNCHANGED <<files, procs, memory, to, cn, sc, rc, sw, ad, res, snd, closing, history, boots, faults>>

LcReapFailed ==
  /\ lc.pc = "reap-failed" /\ child = "dead"
  /\ \E raw \in {code, 1} : lc' = [lc EXCEPT !.pc = "failing", !.raw = raw]
  /\ UNCHANGED <<files, procs, memory, to, cn, sc, rc, sw, ad, res, snd, closing, history, boots, faults>>

\* fail: a launch failure, unless a cancel came first.
LcFail ==
  /\ lc.pc = "failing" /\ LcGo("done")
  /\ \/ task.st = "cancelling" /\ ConfirmKilled(lc.raw, pend, ConfirmOnly(pend), ConfirmOnly(pend))
     \/ /\ task.st \in {"none", "starting"} /\ Agrees(1) /\ NoFault
        /\ task' = Ended("failed", 1) /\ exitFile' = 1 /\ slot' = FALSE /\ UNCHANGED <<pend, timer, measured>>
     \/ task.st \in {"none", "starting"} /\ Unsaved(1, 1) /\ slot' = FALSE /\ UNCHANGED <<pend, timer>>
     \/ Fault /\ Refused /\ pend' = pend
  /\ UNCHANGED <<lockFile, message, procs, to, cn, sc, rc, sw, ad, res, snd, closing, struck, resumes, boots>>

\* ConfirmTaskRunning, and Run's reaction to it.
LcConfirm ==
  /\ lc.pc = "confirm"
  /\ \/ task.st = "cancelling" /\ NoFault /\ LcGo("ask") /\ UNCHANGED <<task, pend>>
     \/ /\ task.st = "starting" /\ ~Flocked /\ NoFault /\ LcGo("reap")
        /\ task' = [task EXCEPT !.st = "orphaned"] /\ pend' = ConfirmOnly(pend)
     \/ /\ task.st = "starting" /\ Flocked /\ NoFault /\ LcGo("arm")
        /\ task' = [task EXCEPT !.st = "running"] /\ pend' = pend
     \/ Fault /\ LcGo("wait") /\ UNCHANGED <<task, pend>>
  /\ UNCHANGED <<exitFile, lockFile, message, procs, timer, slot, to, cn, sc, rc, sw, ad, res, snd, closing, history, boots>>

NeverArmed ==
  /\ lc.pc = "arm" /\ ~closing /\ LcGo("monitor")
  /\ UNCHANGED <<files, procs, memory, to, cn, sc, rc, sw, ad, res, snd, closing, history, boots, faults>>

LcArm ==
  /\ lc.pc = "arm" /\ timer' = "armed" /\ ~closing /\ LcGo("monitor")
  /\ UNCHANGED <<files, procs, pend, slot, to, cn, sc, rc, sw, ad, res, snd, closing, history, boots, faults>>

\* observeKnown: an event on stdout ends a stall.
LcObserve ==
  /\ lc.pc = "monitor" /\ child \in Living /\ task.st = "stalled"
  /\ task' = [task EXCEPT !.st = "running"]
  /\ UNCHANGED <<exitFile, lockFile, message, procs, memory, actors, closing, history, boots, faults>>

\* handleStartingCancellation: the claim, its second look at the task, and the signals.
LcClaim ==
  /\ lc.pc = "claim" /\ pend' = ClaimInitialSend(pend, LcAuth, "lc")
  /\ LcGo(CASE InitialOutcome(pend, LcAuth) = "acquired" -> "claimed"
            [] InitialOutcome(pend, LcAuth) = "sent"     -> "ask"
            [] OTHER                                     -> "reap")
  /\ UNCHANGED <<files, procs, timer, slot, to, cn, sc, rc, sw, ad, res, snd, closing, history, boots, faults>>

LcPrepareClaim ==
  /\ lc.pc = "claimed"
  /\ \/ /\ task.st = "cancelling" /\ NoFault /\ LcGo("send") /\ Send("lc", LcAuth) /\ pend' = pend
        /\ task' = [task EXCEPT !.pid = TRUE]
     \/ /\ ((task.st # "cancelling" /\ NoFault) \/ Fault)
        /\ LcGo("reap") /\ pend' = RemoveClaim(pend, "lc") /\ UNCHANGED <<task, snd>>
  /\ UNCHANGED <<exitFile, lockFile, message, procs, timer, slot, to, cn, sc, rc, sw, ad, res, closing, history, boots>>

LcAfterSend ==
  /\ lc.pc = "send" /\ Sent("lc") /\ Idle("lc")
  /\ pend' = CASE snd["lc"].err = "ok"      -> CompleteSend(pend, "lc")
                [] snd["lc"].err = "invalid" -> InvalidateSend(pend, "lc")
                [] OTHER                     -> ReleaseSend(pend, "lc")
  /\ lc' = IF snd["lc"].dead THEN [lc EXCEPT !.pc = "wait", !.sent = snd["lc"].err = "ok"]
                             ELSE [lc EXCEPT !.pc = "reap"]
  /\ UNCHANGED <<files, procs, timer, slot, to, cn, sc, rc, sw, ad, res, closing, history, boots, faults>>

\* Somebody else signals: only look whether the process is gone.
LcAsk ==
  /\ lc.pc = "ask"
  /\ \/ ~Flocked /\ NoFault /\ LcGo("wait")
     \/ (((Flocked \/ closing) /\ NoFault) \/ Fault) /\ LcGo("reap")
  /\ UNCHANGED <<files, procs, memory, to, cn, sc, rc, sw, ad, res, snd, closing, history, boots>>

\* waitLaunched: the exit status, or 1 when it cannot be told.
LcWait ==
  /\ lc.pc \in {"monitor", "wait"} /\ child = "dead"
  /\ \/ NoFault /\ lc' = [lc EXCEPT !.pc = "prepare", !.raw = code]
     \/ Fault /\ lc' = [lc EXCEPT !.pc = "prepare", !.raw = 1]
  /\ UNCHANGED <<files, procs, memory, to, cn, sc, rc, sw, ad, res, snd, closing, history, boots>>

LcReap ==
  /\ lc.pc = "reap" /\ child = "dead" /\ LcGo("done")
  /\ UNCHANGED <<files, procs, memory, to, cn, sc, rc, sw, ad, res, snd, closing, history, boots, faults>>

\* confirmTerminalWithPending up to taskMu: the message is read unless a cancel is already known.
LcPrepare ==
  /\ lc.pc = "prepare"
  /\ \/ NoFault /\ lc' = [lc EXCEPT !.pc = "finish", !.skip = task.st = "cancelling", !.present = message]
     \/ Fault /\ task.st # "cancelling" /\ lc' = [lc EXCEPT !.pc = "unprepared"]
  /\ UNCHANGED <<files, procs, memory, to, cn, sc, rc, sw, ad, res, snd, closing, history, boots>>

\* and under taskMu
LcFinish ==
  /\ lc.pc \in {"finish", "unprepared"} /\ LcGo("done")
  /\ \/ /\ task.st = "cancelling"
        /\ ConfirmKilled(lc.raw, pend, ConfirmOnly(pend),
                         IF lc.sent THEN Register(pend, "sent", NoAuth) ELSE pend)
     \/ task.st # "cancelling" /\ (lc.skip \/ lc.pc = "unprepared") /\ NoFault /\ Refused /\ pend' = pend
     \/ /\ task.st # "cancelling" /\ ~lc.skip /\ lc.pc = "finish"
        /\ Finalize(lc.raw, lc.present, lc.raw # code, pend, pend)
  /\ UNCHANGED <<lockFile, message, procs, to, cn, sc, rc, sw, ad, res, snd, closing, struck, resumes, boots>>

\* The context of Run is looked at around every step but the waits.
LcStop ==
  /\ closing
  /\ lc.pc \in {"record", "check", "launch", "boundary", "reap-failed", "failing", "confirm", "arm", "prepare",
                "finish", "unprepared"}
  /\ LcGo("done")
  /\ UNCHANGED <<files, procs, memory, to, cn, sc, rc, sw, ad, res, snd, closing, history, boots, faults>>

-----------------------------------------------------------------------------
(* The timeout callback: TimeoutWatcher and EnforceTaskTimeoutUseCase *)

TimerFires ==
  /\ timer = "armed" /\ ~closing
  /\ timer' = "executing" /\ to' = [to EXCEPT !.pc = "enforce"]
  /\ UNCHANGED <<files, procs, pend, slot, lc, cn, sc, rc, sw, ad, res, snd, closing, history, boots, faults>>

\* finishExecution: the entry goes, unless the failure is one worth retrying.
ToEnd  == to' = [to EXCEPT !.pc = "idle"] /\ timer' = "off"
ToAgain == /\ timer = "executing" /\ ~closing /\ to.tries < MaxTries
           /\ timer' = "armed" /\ to' = [pc |-> "idle", tries |-> to.tries + 1]

ToEnforce ==
  /\ to.pc = "enforce"
  /\ \/ /\ task.st \in {"running", "stalled"} /\ NoFault
        /\ task' = [task EXCEPT !.st = "timeout"]
        /\ Send("to", [exp |-> "timeout", gen |-> TRUE])
        /\ to' = [to EXCEPT !.pc = "send"] /\ timer' = timer
     \/ task.st \notin {"running", "stalled"} /\ NoFault /\ ToEnd /\ UNCHANGED <<task, snd>>
     \/ Fault /\ (ToEnd \/ ToAgain) /\ UNCHANGED <<task, snd>>
  /\ UNCHANGED <<exitFile, lockFile, message, procs, pend, slot, lc, cn, sc, rc, sw, ad, res, closing, history, boots>>

\* Registered for reconciliation, or, once the path lock is released, resumed.
ToSettle ==
  /\ to.pc = "send" /\ Sent("to") /\ Idle("to")
  /\ \/ ~snd["to"].dead /\ NoFault /\ ToEnd /\ pend' = Unconfirmed(pend, "to") /\ res' = res
     \/ /\ snd["to"].dead /\ NoFault /\ Dispatch("to")
        /\ to' = [to EXCEPT !.pc = "resume"] /\ UNCHANGED <<timer, pend>>
     \/ /\ snd["to"].dead /\ Fault /\ ToEnd /\ res' = res
        /\ pend' = IF task.st \in Unsettled THEN ConfirmOnly(pend) ELSE pend
  /\ UNCHANGED <<files, procs, slot, lc, cn, sc, rc, sw, ad, closing, history, boots>>

-----------------------------------------------------------------------------
(* Cancel requests: CancelTaskUseCase *)

CnGo(c, p) == cn' = [cn EXCEPT ![c] = p]

\* cancelQueued: the queue entry is restored when the state cannot be saved.
CancelQueued(c) ==
  /\ cn[c] = "idle" /\ Up /\ lc.pc = "queued"
  /\ \/ NoFault /\ task' = [task EXCEPT !.st = "cancelling"] /\ LcGo("done") /\ CnGo(c, "confirm")
     \/ Fault /\ UNCHANGED <<task, lc>> /\ CnGo(c, "done")
  /\ UNCHANGED <<exitFile, lockFile, message, procs, memory, to, sc, rc, sw, ad, res, snd, closing, history, boots>>

CancelNeedsOwner == ~task.adopted /\ task.st \in Active
Cancellable      == /\ task.st \in Active \cup {"orphaned", "cancelling"}
                    /\ CancelNeedsOwner => Owner
CancelAuth       == [exp |-> "cancelling", gen |-> ~task.adopted]

\* cancelPersisted up to the signals
CancelPersisted(c) ==
  /\ cn[c] = "idle" /\ Up /\ lc.pc # "queued"
  /\ \/ /\ ((~Cancellable /\ NoFault) \/ Fault)
        /\ CnGo(c, "done") /\ UNCHANGED <<task, pend, timer, snd>>
     \/ /\ Cancellable /\ task.st = "starting" /\ task.pid /\ NoFault
        /\ CnGo(c, "claim") /\ UNCHANGED <<task, pend, timer, snd>>
     \/ /\ Cancellable /\ ~(task.st = "starting" /\ task.pid) /\ NoFault
        /\ task' = [task EXCEPT !.st = "cancelling"]
        /\ \/ task.st = "orphaned" /\ CnGo(c, "confirm") /\ UNCHANGED <<pend, timer, snd>>
           \/ /\ task.st \in {"running", "stalled"} /\ task.pid
              /\ CnGo(c, "send") /\ Send(c, CancelAuth) /\ UNCHANGED <<pend, timer>>
           \/ /\ task.st \in {"running", "stalled"} /\ ~task.pid
              /\ CnGo(c, "done") /\ pend' = ConfirmOnly(pend) /\ snd' = snd
              /\ timer' = IF pend.st = "claimed" THEN timer ELSE "off"
           \/ task.st \in {"starting", "cancelling"} /\ CnGo(c, "done") /\ UNCHANGED <<pend, timer, snd>>
  /\ UNCHANGED <<exitFile, lockFile, message, procs, slot, lc, to, sc, rc, sw, ad, res, closing, history, boots>>

\* The task had no process of its own left: the request confirms the kill itself.
CancelConfirm(c) ==
  /\ cn[c] = "confirm" /\ CnGo(c, "done")
  /\ ConfirmKilled(130, pend, ConfirmOnly(pend), pend)
  /\ UNCHANGED <<lockFile, message, procs, lc, to, sc, rc, sw, ad, res, snd, closing, struck, resumes, boots>>

\* finishStartingClaim: nobody but the claimant signals a process that is just starting.
CancelClaim(c) ==
  /\ cn[c] = "claim" /\ pend' = ClaimInitialSend(pend, LcAuth, c)
  /\ CnGo(c, IF InitialOutcome(pend, LcAuth) = "acquired" THEN "claimed" ELSE "done")
  /\ UNCHANGED <<files, procs, timer, slot, lc, to, sc, rc, sw, ad, res, snd, closing, history, boots, faults>>

CancelClaimed(c) ==
  /\ cn[c] = "claimed"
  /\ LET current == task.st \in {"starting", "cancelling"} /\ task.pid /\ Owner
     IN \/ /\ current /\ NoFault /\ task' = [task EXCEPT !.st = "cancelling"]
           /\ CnGo(c, "term") /\ pend' = pend
        \/ /\ ((~current /\ NoFault) \/ Fault)
           /\ CnGo(c, "done") /\ pend' = RemoveClaim(pend, c) /\ task' = task
  /\ UNCHANGED <<exitFile, lockFile, message, procs, timer, slot, lc, to, sc, rc, sw, ad, res, snd, closing, history, boots>>

TermKeepingClaim(c) ==
  /\ cn[c] = "term" /\ CnGo(c, "done")
  /\ \/ /\ NoFault /\ pend' = CompleteSend(pend, c)
        /\ child' = Delivered(FALSE) /\ struck' = (struck \/ Reaped)
     \/ Fault /\ UNCHANGED <<pend, child, struck>>
  /\ UNCHANGED <<files, code, again, timer, slot, lc, to, sc, rc, sw, ad, res, snd, closing, measured, resumes, boots>>

\* sendClaimedStarting: one SIGTERM, with no look at the authority.
CancelTerm(c) ==
  /\ cn[c] = "term" /\ CnGo(c, "done")
  /\ \/ /\ NoFault /\ pend' = CompleteSend(pend, c)
        /\ child' = Delivered(FALSE) /\ struck' = (struck \/ Reaped)
     \/ Fault /\ pend' = ReleaseSend(pend, c) /\ UNCHANGED <<child, struck>>
  /\ UNCHANGED <<files, code, again, timer, slot, lc, to, sc, rc, sw, ad, res, snd, closing, measured, resumes, boots>>

\* After the signals: the goroutine that awaits the process confirms, if there is one.
CancelSettle(c) ==
  /\ cn[c] = "send" /\ Sent(c) /\ Idle(c) /\ CnGo(c, "done")
  /\ \/ /\ ~snd[c].dead /\ NoFault /\ pend' = Unconfirmed(pend, c)
        /\ timer' = IF pend.st = "claimed" THEN timer ELSE "off"
        /\ UNCHANGED <<task, exitFile, measured, slot>>
     \/ /\ snd[c].dead /\ snd[c].auth.gen /\ NoFault /\ timer' = "off"
        /\ UNCHANGED <<task, exitFile, measured, slot, pend>>
     \/ /\ snd[c].dead /\ ~snd[c].auth.gen
        /\ ConfirmKilled(130, pend, ConfirmOnly(pend), ConfirmOnly(pend))
  /\ UNCHANGED <<lockFile, message, procs, lc, to, sc, rc, sw, ad, res, closing, struck, resumes, boots>>

-----------------------------------------------------------------------------
(* The stall scan: checkStallUseCase *)

Stallable == task.st \in {"running", "stalled"}

\* checkOne before taskMu: ownership is looked at once here and once under the lock.
ScanRead ==
  /\ sc = "idle" /\ Up /\ Stallable
  /\ sc' = IF Owner THEN "owned" ELSE "unowned"
  /\ UNCHANGED <<files, procs, memory, lc, to, cn, rc, sw, ad, res, snd, closing, history, boots, faults>>

ScanCheck ==
  /\ sc \in {"owned", "unowned"}
  /\ LET orphan == sc = "unowned" /\ ~Owner /\ ~Flocked
     IN \/ /\ Stallable /\ orphan /\ ~closing /\ NoFault
           /\ task' = [task EXCEPT !.st = "orphaned"] /\ sc' = "orphan"
        \/ /\ Stallable /\ ~orphan /\ NoFault
           /\ task' \in {task, [task EXCEPT !.st = "stalled"]} /\ sc' = "idle"
        \/ (((~Stallable \/ closing) /\ NoFault) \/ Fault) /\ task' = task /\ sc' = "idle"
  /\ UNCHANGED <<exitFile, lockFile, message, procs, memory, lc, to, cn, rc, sw, ad, res, snd, closing, history, boots>>

ScanHandle ==
  /\ sc = "orphan" /\ sc' = "idle" /\ Handle
  /\ UNCHANGED <<lockFile, message, procs, lc, to, cn, rc, sw, ad, snd, closing, struck, resumes, boots>>

-----------------------------------------------------------------------------
(* The reconciliation ticker: ReconcilePendingUseCase *)

RcGo(p) == rc' = [rc EXCEPT !.pc = p]
RcIdle  == rc' = [pc |-> "idle", auth |-> NoAuth]
ConfirmOf(st) == IF st = "timeout" THEN "confirm-timeout" ELSE "confirm-kill"

\* reconcileTick: unsettled tasks nobody owns are registered, then the entries are listed.
Tick ==
  /\ rc.pc = "idle" /\ Up /\ ~Owner
  /\ pend' = IF task.st \in Unsettled /\ pend.st = "none" THEN RegisterSnapshot(pend) ELSE pend
  /\ pend'.st # "none" /\ rc' = [pc |-> "one", auth |-> pend'.auth]
  /\ UNCHANGED <<files, procs, timer, slot, lc, to, cn, sc, sw, ad, res, snd, closing, history, boots, faults>>

\* reconcileOne, with reconcileTermination up to its confirmation
ReconcileOne ==
  /\ rc.pc = "one"
  /\ \/ (((Owner \/ closing \/ task.st \in Active) /\ NoFault) \/ Fault) /\ RcIdle /\ UNCHANGED <<pend, snd, sw>>
     \/ /\ ~Owner /\ ~closing /\ NoFault
        /\ \/ task.st \in Terminal /\ RcIdle /\ pend' = Remove(pend) /\ UNCHANGED <<snd, sw>>
           \/ task.st = "orphaned" /\ RcGo("handle") /\ UNCHANGED <<pend, snd, sw>>
           \/ task.st = "recovering" /\ RecoveryOwned /\ RcIdle /\ UNCHANGED <<pend, snd, sw>>
           \/ task.st = "recovering" /\ ~RecoveryOwned /\ RcGo("resolve") /\ UNCHANGED <<pend, snd, sw>>
           \/ /\ task.st \in {"timeout", "cancelling"} /\ rc.auth # NoAuth
              /\ pend' = ClaimForSend(pend, rc.auth, "ticker")
              /\ LET out == ClaimOutcome(pend, rc.auth)
                 IN \/ out \in {"not-found", "already-claimed"} /\ RcIdle /\ UNCHANGED <<snd, sw>>
                    \/ /\ out = "acquired" /\ RcIdle /\ Send("ticker", rc.auth)
                       /\ sw' = [sw EXCEPT !["ticker"].pc = "send"]
                    \/ out \in {"sent", "confirm-only"} /\ RcGo(ConfirmOf(task.st)) /\ UNCHANGED <<snd, sw>>
           \/ /\ task.st \in {"timeout", "cancelling"} /\ rc.auth = NoAuth
              /\ RcGo(ConfirmOf(task.st)) /\ UNCHANGED <<pend, snd, sw>>
  /\ UNCHANGED <<files, procs, timer, slot, lc, to, cn, sc, ad, res, closing, history, boots>>

ReconcileOrphan ==
  /\ rc.pc = "handle" /\ RcIdle /\ Handle
  /\ UNCHANGED <<lockFile, message, procs, lc, to, cn, sc, sw, ad, snd, closing, struck, resumes, boots>>

\* reconcileRecovering, under recovery ownership
ReconcileRecovering ==
  /\ rc.pc = "resolve" /\ RcIdle
  /\ \/ (Flocked \/ closing) /\ NoFault /\ Refused /\ pend' = pend
     \/ Fault /\ Refused /\ pend' \in {pend, ConfirmOnly(pend)}
     \/ ~Flocked /\ ~closing /\ task.st = "recovering" /\ Resolve(Remove(pend), AfterDeath(pend))
     \/ /\ ~Flocked /\ ~closing /\ task.st # "recovering" /\ NoFault /\ Refused
        /\ pend' = IF task.st \in Terminal THEN Remove(pend) ELSE pend
  /\ UNCHANGED <<lockFile, message, procs, lc, to, cn, sc, sw, ad, res, snd, closing, struck, resumes, boots>>

\* The rest of reconcileTermination, with completeTerminated: a code already written is kept.
WrittenOr130 == IF exitFile = NoCode THEN 130 ELSE exitFile

ReconcileConfirm ==
  /\ rc.pc \in {"confirm-timeout", "confirm-kill"} /\ RcIdle
  /\ \/ (closing \/ (lockFile /\ Flocked)) /\ NoFault /\ Refused /\ UNCHANGED <<pend, res>>
     \/ /\ ~closing /\ ((~lockFile /\ NoFault) \/ Fault) /\ Refused /\ res' = res
        /\ pend' = CASE task.st \in Terminal  -> Remove(pend)
                     [] task.st \in Unsettled -> RegisterSnapshot(pend)
                     [] OTHER                 -> pend
     \/ /\ ~closing /\ lockFile /\ ~Flocked /\ rc.pc = "confirm-timeout" /\ Refused
        /\ \/ NoFault /\ Dispatch("plain") /\ pend' = pend
           \/ Fault /\ res' = res /\ pend' = AfterDeath(pend)
     \/ /\ ~closing /\ lockFile /\ ~Flocked /\ rc.pc = "confirm-kill" /\ res' = res
        /\ ConfirmKilled(WrittenOr130, Remove(pend), AfterDeath(pend), AfterDeath(pend))
  /\ UNCHANGED <<lockFile, message, procs, lc, to, cn, sc, sw, ad, snd, closing, struck, resumes, boots>>

-----------------------------------------------------------------------------
(* sendAndReconcile of the ticker, and its twins in adopt.go *)

SwGo(g, p) == sw' = [sw EXCEPT ![g].pc = p]
SwIdle(g)  == sw' = [sw EXCEPT ![g] = [pc |-> "idle", auth |-> NoAuth]]

SweepClaim(g) ==
  /\ sw[g].pc = "claim" /\ pend' = ClaimForSend(pend, sw[g].auth, g)
  /\ IF ClaimOutcome(pend, sw[g].auth) = "acquired"
     THEN SwGo(g, "send") /\ Send(g, sw[g].auth)
     ELSE SwIdle(g) /\ snd' = snd
  /\ UNCHANGED <<files, procs, timer, slot, lc, to, cn, sc, rc, ad, res, closing, history, boots, faults>>

SweepSettle(g) ==
  /\ sw[g].pc = "send" /\ Sent(g) /\ Idle(g)
  /\ \/ /\ ~snd[g].dead /\ NoFault /\ Refused /\ SwIdle(g) /\ res' = res
        /\ pend' = CASE snd[g].err = "ok"                                   -> CompleteSend(pend, g)
                     [] snd[g].err = "failed" /\ Matches(snd[g].auth)       -> ReleaseSend(pend, g)
                     [] OTHER                                               -> InvalidateSend(pend, g)
     \/ /\ ~snd[g].dead /\ snd[g].err = "failed" /\ Fault /\ Refused /\ SwIdle(g) /\ res' = res
        /\ pend' = ReleaseSend(pend, g)
     \/ /\ snd[g].dead /\ ((~Matches(snd[g].auth) /\ NoFault) \/ Fault)
        /\ Refused /\ SwIdle(g) /\ res' = res /\ pend' = InvalidateSend(pend, g)
     \/ /\ snd[g].dead /\ Matches(snd[g].auth) /\ task.st = "timeout" /\ NoFault
        /\ Refused /\ SwGo(g, "resume") /\ Dispatch(g) /\ pend' = pend
     \/ /\ snd[g].dead /\ Matches(snd[g].auth) /\ task.st = "cancelling" /\ SwIdle(g) /\ res' = res
        /\ ConfirmKilled(IF g = "ticker" THEN WrittenOr130 ELSE 130,
                         RemoveClaim(pend, g), InvalidateSend(pend, g), InvalidateSend(pend, g))
  /\ UNCHANGED <<lockFile, message, procs, lc, to, cn, sc, rc, ad, closing, struck, resumes, boots>>

-----------------------------------------------------------------------------
(* Resume attempts: RecoverViaResumeUseCase.Execute and what its callers do with the result *)

\* Only the ticker's caller and the coordinator know "already in flight" from a failure.
Settled(e, for, how) ==
  CASE for = "to"       -> IF how # "ok" /\ task.st \in Unsettled THEN ConfirmOnly(e) ELSE e
    [] for \in Sweepers -> (CASE how = "ok"                       -> RemoveClaim(e, for)
                              [] how = "busy" /\ for = "ticker"   -> ReleaseSend(e, for)
                              [] OTHER                            -> InvalidateSend(e, for))
    [] OTHER            -> (CASE how = "ok"                       -> Remove(e)
                              [] how = "busy" /\ for # "adopted"  -> e
                              [] OTHER                            -> AfterDeath(e))

ResGo(r, p) == res' = [res EXCEPT ![r].pc = p]

ResReturn(r, how) ==
  /\ pend' = Settled(pend, res[r].for, how)
  /\ IF res[r].for = "to" THEN ToEnd ELSE UNCHANGED <<to, timer>>
  /\ IF res[r].for \in Sweepers THEN SwIdle(res[r].for) ELSE sw' = sw
  /\ res' = [res EXCEPT ![r] = IdleResume]

ResAcquire(r) ==
  /\ res[r].pc = "called"
  /\ \/ res[r].for = "to" /\ closing /\ ResReturn(r, "failed")
     \/ RecoveryOwned /\ ResReturn(r, "busy")
     \/ ~RecoveryOwned /\ ResGo(r, "begin") /\ UNCHANGED <<pend, to, timer, sw>>
  /\ UNCHANGED <<files, procs, slot, lc, cn, sc, rc, ad, snd, closing, history, boots, faults>>

ResBegin(r) ==
  /\ res[r].pc = "begin"
  /\ \/ /\ task.st \in {"timeout", "orphaned"} /\ NoFault
        /\ LET origin == IF task.st = "orphaned" THEN "orphan" ELSE "timeout"
           IN /\ task' = [task EXCEPT !.st = "recovering", !.origin = origin]
              /\ res' = [res EXCEPT ![r].pc = "launch", ![r].origin = origin]
        /\ UNCHANGED <<pend, to, timer, sw>>
     \/ ((task.st \notin {"timeout", "orphaned"} /\ NoFault) \/ Fault) /\ ResReturn(r, "failed") /\ task' = task
  /\ UNCHANGED <<exitFile, lockFile, message, procs, slot, lc, cn, sc, rc, ad, snd, closing, history, boots>>

\* No session, an implementation task that timed out, or a launch that failed: nothing is started.
ResLaunch(r) ==
  /\ res[r].pc = "launch"
  /\ \/ ResGo(r, "finish") /\ UNCHANGED <<again, resumes>>
     \/ lockFile /\ ~Flocked /\ ResGo(r, "await") /\ again' = "alive" /\ resumes' = resumes + 1
  /\ UNCHANGED <<files, child, code, memory, lc, to, cn, sc, rc, sw, ad, snd, closing, struck, measured, boots, faults>>

\* The process ended, or it is killed at its deadline and perhaps not seen to die.
ResAwait(r) ==
  /\ res[r].pc = "await"
  /\ \/ /\ again = "dead" /\ again' = again
        /\ \E won \in {FALSE, message} : res' = [res EXCEPT ![r].pc = "finish", ![r].won = won]
     \/ again \in Living /\ again' = "doomed" /\ ResGo(r, "finish")
  /\ UNCHANGED <<files, child, code, memory, lc, to, cn, sc, rc, sw, ad, snd, closing, history, boots, faults>>

\* finish: task.json first, then the exit code, whose failure is only logged.
ResFinish(r) ==
  /\ res[r].pc = "finish"
  /\ LET lost == IF res[r].origin = "timeout" THEN "timeout-lost" ELSE "lost"
         raw  == IF res[r].won THEN 0 ELSE IF res[r].origin = "timeout" THEN 6 ELSE 1
     IN \/ /\ task.st = "recovering"
           /\ task' = IF res[r].won THEN Ended("recovered", 0) ELSE [task EXCEPT !.st = lost]
           /\ ((NoFault /\ exitFile' = raw) \/ (Fault /\ UNCHANGED exitFile))
           /\ measured' = measured + 1 /\ slot' = FALSE /\ ResReturn(r, "ok")
        \/ /\ ((task.st # "recovering" /\ NoFault) \/ Fault)
           /\ UNCHANGED <<task, exitFile, measured, slot>> /\ ResReturn(r, "failed")
  /\ UNCHANGED <<lockFile, message, procs, lc, cn, sc, rc, ad, snd, closing, struck, resumes, boots>>

-----------------------------------------------------------------------------
(* Adoption at the start of a daemon: AdoptRunningTasksUseCase *)

Sweep == IF task.pid THEN sw' = [sw EXCEPT !["adopter"] = [pc |-> "claim", auth |-> SnapshotAuth]] ELSE sw' = sw
Probed == lockFile /\ NoFault
Unseen == Fault \/ (~lockFile /\ NoFault)

Adopt ==
  /\ ad = "boot"
  /\ \/ /\ task.st \in Terminal \cup {"none"} /\ NoFault /\ ad' = "up"
        /\ UNCHANGED <<task, exitFile, measured, pend, timer, slot, sw, res>>
     \/ /\ task.st \in Active /\ Probed
        /\ task' = [task EXCEPT !.st = IF Flocked THEN "running" ELSE "orphaned", !.adopted = TRUE]
        /\ ad' = IF Flocked THEN "up" ELSE "orphan"
        /\ UNCHANGED <<exitFile, measured, pend, timer, slot, sw, res>>
     \/ /\ task.st \in Active /\ Unseen /\ ad' = "up"
        /\ UNCHANGED <<task, exitFile, measured, pend, timer, slot, sw, res>>
     \/ /\ task.st = "orphaned" /\ NoFault /\ ad' = "orphan"
        /\ UNCHANGED <<task, exitFile, measured, pend, timer, slot, sw, res>>
     \/ /\ task.st = "recovering" /\ ad' = "up" /\ UNCHANGED <<sw, res>>
        /\ \/ (Unseen \/ (Flocked /\ Probed)) /\ Refused /\ pend' = RegisterSnapshot(pend)
           \/ lockFile /\ ~Flocked /\ Resolve(pend, AfterDeath(ConfirmOnly(pend)))
     \/ /\ task.st = "timeout" /\ ad' = "up" /\ Refused
        /\ \/ Unseen /\ pend' = RegisterSnapshot(pend) /\ UNCHANGED <<sw, res>>
           \/ Probed /\ Flocked /\ pend' = RegisterSnapshot(pend) /\ Sweep /\ res' = res
           \/ Probed /\ ~Flocked /\ Dispatch("adopted") /\ UNCHANGED <<pend, sw>>
           \/ lockFile /\ ~Flocked /\ Fault /\ pend' = AfterDeath(pend) /\ UNCHANGED <<sw, res>>
     \/ /\ task.st = "cancelling" /\ ad' = "up" /\ res' = res
        /\ \/ /\ (~lockFile \/ ~Flocked) /\ sw' = sw
              /\ ConfirmKilled(130, pend, AfterDeath(pend), AfterDeath(pend))
           \/ Probed /\ Flocked /\ Refused /\ pend' = RegisterSnapshot(pend) /\ Sweep
           \/ Fault /\ Refused /\ pend' = RegisterSnapshot(pend) /\ sw' = sw
  /\ UNCHANGED <<lockFile, message, procs, lc, to, cn, sc, rc, snd, closing, struck, resumes, boots>>

AdoptOrphan ==
  /\ ad = "orphan" /\ ad' = "up" /\ Handle
  /\ UNCHANGED <<lockFile, message, procs, lc, to, cn, sc, rc, sw, snd, closing, struck, resumes, boots>>

-----------------------------------------------------------------------------
(* Processes, shutdown and restart *)

\* The process ends on its own or by a signal; it may have left its last message.
ChildExits ==
  /\ child \in Living /\ child' = "dead"
  /\ code' \in (IF child = "alive" THEN {0, 2} ELSE {0, 143})
  /\ message' \in {message, TRUE}
  /\ UNCHANGED <<task, exitFile, lockFile, again, memory, actors, closing, history, boots, faults>>

AgainExits ==
  /\ again \in Living /\ again' = "dead" /\ message' \in {message, TRUE}
  /\ UNCHANGED <<task, exitFile, lockFile, child, code, memory, actors, closing, history, boots, faults>>

\* TimeoutWatcher.Close, and the context of everybody who has one
Shutdown ==
  /\ Up /\ boots < MaxBoots /\ closing' = TRUE
  /\ timer' = IF timer = "armed" THEN "off" ELSE timer
  /\ UNCHANGED <<files, procs, pend, slot, actors, history, boots, faults>>

AdoptionStatesUnrecovered == Active \cup (Unsettled \ {"recovering"})

AdoptionStates == Active \cup Unsettled

\* Everything in memory is gone; the registry is rebuilt from the task files.
Restart ==
  /\ boots < MaxBoots /\ boots' = boots + 1 /\ closing' = FALSE
  /\ pend' = NoEntry /\ timer' = "off" /\ slot' = (task.st \in AdoptionStates)
  /\ lc' = [lc EXCEPT !.pc = "done", !.raw = NoCode, !.skip = FALSE, !.present = FALSE, !.sent = TRUE]
  /\ to' = [pc |-> "idle", tries |-> 0]
  /\ cn' = [c \in Cancellers |-> IF cn[c] = "idle" THEN "idle" ELSE "done"]
  /\ sc' = "idle" /\ rc' = [pc |-> "idle", auth |-> NoAuth]
  /\ sw' = [g \in Sweepers |-> [pc |-> "idle", auth |-> NoAuth]]
  /\ ad' = "boot"
  /\ res' = [r \in Resumers |-> IdleResume] /\ snd' = [s \in Senders |-> IdleSend]
  /\ UNCHANGED <<files, procs, history, faults>>

-----------------------------------------------------------------------------
(* Specification *)

LcStep == \/ LcAcquire \/ LcRecord \/ LcCheck \/ LcLaunch \/ LcBoundary \/ LcTerminate \/ LcReapFailed \/ LcFail
          \/ LcConfirm \/ LcArm \/ LcObserve \/ LcClaim \/ LcPrepareClaim \/ LcAfterSend \/ LcAsk \/ LcWait
          \/ LcReap \/ LcPrepare \/ LcFinish \/ LcStop
ToStep == TimerFires \/ ToEnforce \/ ToSettle
CnStart(c) == CancelQueued(c) \/ CancelPersisted(c)
CnStep(c)  == CancelConfirm(c) \/ CancelClaim(c) \/ CancelClaimed(c) \/ CancelTerm(c) \/ CancelSettle(c)
ScStep == ScanRead \/ ScanCheck \/ ScanHandle
RcStep == Tick \/ ReconcileOne \/ ReconcileOrphan \/ ReconcileRecovering \/ ReconcileConfirm
SwStep(g)   == SweepClaim(g) \/ SweepSettle(g)
ResStep(r)  == ResAcquire(r) \/ ResBegin(r) \/ ResLaunch(r) \/ ResAwait(r) \/ ResFinish(r)
AdStep      == Adopt \/ AdoptOrphan
SendStep(s) == Signal(s, FALSE) \/ Signal(s, TRUE) \/ ProbeChild(s)

Next ==
  \/ LcStep \/ ToStep \/ ScStep \/ RcStep \/ AdStep
  \/ \E c \in Cancellers : CnStart(c) \/ CnStep(c)
  \/ \E g \in Sweepers : SwStep(g)
  \/ \E r \in Resumers : ResStep(r)
  \/ \E s \in Senders : SendStep(s)
  \/ ChildExits \/ AgainExits \/ Shutdown \/ Restart

Spec == Init /\ [][Next]_vars

\* Goroutines are scheduled, timers fire, tickers tick, SIGKILL kills, and a daemon that was stopped is
\* started again.  A process need not end on its own, nor obey SIGTERM; nobody has to cancel.
FairSpec ==
  /\ Spec /\ WF_vars(LcStep) /\ WF_vars(ToStep) /\ WF_vars(ScStep) /\ WF_vars(RcStep) /\ WF_vars(AdStep)
  /\ \A c \in Cancellers : WF_vars(CnStep(c))
  /\ \A g \in Sweepers : WF_vars(SwStep(g))
  /\ \A r \in Resumers : WF_vars(ResStep(r))
  /\ \A s \in Senders : WF_vars(SendStep(s))
  /\ WF_vars(child = "doomed" /\ ChildExits) /\ WF_vars(again = "doomed" /\ AgainExits)
  /\ WF_vars(closing /\ Restart)

\* The same for a process that obeys SIGTERM and that, once its daemon has been restarted, ends on its own:
\* adoption arms no timer, knows no process whose number was not recorded, and does not stop a resumed one.
ObedientSpec == /\ FairSpec /\ WF_vars(child = "termed" /\ ChildExits)
                /\ WF_vars(boots > 0 /\ ChildExits) /\ WF_vars(boots > 0 /\ AgainExits)

-----------------------------------------------------------------------------
(* Properties *)

LcPcs == {"queued", "record", "check", "launch", "failing", "prepare", "unprepared", "finish", "done"} \cup Unwaited

\* Every variable has its type; whoever ends a task in Run has an exit code to end it with; and a task
\* leaves at most one metrics record, whichever terminal path it takes.
TypeOK ==
  /\ task \in [st : {"none"} \cup Active \cup Unsettled \cup Terminal, pid : BOOLEAN, adopted : BOOLEAN,
               origin : {"none", "timeout", "orphan"}, exit : Codes \cup {NoCode}]
  /\ exitFile \in Codes \cup {NoCode} /\ lockFile \in BOOLEAN /\ message \in BOOLEAN
  /\ child \in Living \cup {"none", "dead"} /\ again \in Living \cup {"none", "dead"}
  /\ code \in Codes \cup {NoCode}
  /\ pend \in [st : Dispositions \cup {"none", "claimed"}, auth : Authorities \cup {NoAuth},
               by : Senders \cup {"none"}, back : BOOLEAN]
  /\ timer \in {"off", "armed", "executing"} /\ slot \in BOOLEAN /\ closing \in BOOLEAN
  /\ lc \in [pc : LcPcs, raw : Codes \cup {NoCode}, skip : BOOLEAN, present : BOOLEAN, sent : BOOLEAN]
  /\ lc.pc \in {"failing", "prepare", "finish", "unprepared"} => lc.raw # NoCode
  /\ to \in [pc : {"idle", "enforce", "send", "resume"}, tries : 0..MaxTries]
  /\ cn \in [Cancellers -> {"idle", "confirm", "claim", "claimed", "term", "send", "done"}]
  /\ sc \in {"idle", "owned", "unowned", "orphan"}
  /\ rc \in [pc : {"idle", "one", "handle", "resolve", "confirm-timeout", "confirm-kill"},
             auth : Authorities \cup {NoAuth}]
  /\ sw \in [Sweepers -> [pc : {"idle", "claim", "send", "resume"}, auth : Authorities \cup {NoAuth}]]
  /\ ad \in {"boot", "orphan", "up"}
  /\ res \in [Resumers -> [pc : {"idle", "called", "begin", "launch", "await", "finish"},
                           for : {"none", "to", "orphan", "plain", "adopted"} \cup Sweepers,
                           origin : {"none", "timeout", "orphan"}, won : BOOLEAN]]
  /\ snd \in [Senders -> [pc : {"idle", "term", "probe", "kill", "reprobe", "done"},
                          auth : Authorities \cup {NoAuth}, err : {"ok", "invalid", "failed"}, dead : BOOLEAN]]
  /\ struck \in BOOLEAN /\ measured \in 0..1 /\ resumes \in Nat
  /\ boots \in 0..MaxBoots /\ faults \in 0..MaxFaults

\* The launched process is accounted for as long as it runs: its slot is not given away and its task is
\* not reported as ended, whichever of the goroutines that may end the task comes first.
ProcessAccounted == child \in Living => slot /\ task.st \notin Terminal

\* The resume attempt runs alone: not beside the first process, not beside another attempt, never twice.
ResumeAlone ==
  /\ again \in Living => child \notin Living
  /\ again = "alive" => task.st = "recovering"
  /\ resumes <= 1

\* No send claim is lost or shared: a claimed entry has its claimant at work, or nobody could ever signal.
ClaimSound ==
  pend.st = "claimed" =>
    \/ pend.by = "lc" /\ lc.pc \in {"claimed", "send"}
    \/ pend.by \in Cancellers /\ cn[pend.by] \in {"claimed", "term"}
    \/ pend.by \in Sweepers /\ sw[pend.by].pc \in {"send", "resume"}

\* task.json and the exit-code file of a finished task do not contradict each other, and a task that is
\* reported completed left a message.
ExitAgrees ==
  task.st \in {"completed", "failed", "killed"} =>
    /\ exitFile = task.exit
    /\ task.st = "completed" => message /\ exitFile = 0

\* The persisted state moves along the chart of the design document only; an accepted cancel is never
\* overtaken by another outcome, and a terminal task is never touched again.
Chart == [none       |-> {"starting", "failed", "cancelling"},
          starting   |-> {"running", "failed", "completed", "orphaned", "cancelling"},
          running    |-> {"stalled", "completed", "failed", "timeout", "orphaned", "cancelling"},
          stalled    |-> {"running", "completed", "failed", "timeout", "orphaned", "cancelling"},
          timeout    |-> {"recovering"},
          recovering |-> {"recovered", "timeout-lost", "lost"},
          orphaned   |-> {"completed", "failed", "recovering", "cancelling"},
          cancelling |-> {"killed"}]
FollowsChart ==
  [][ /\ task'.st # task.st => task.st \notin Terminal /\ task'.st \in Chart[task.st]
      /\ task.st \in Terminal => task' = task ]_vars

\* A resumed process is counted as well, as long as no store call failed: a terminal write that fails
\* still releases the slot, and the task is resumed later.
ResumeAccounted == again = "alive" => slot

\* Every task that was recorded ends, and its slot comes back: nobody waits for somebody who waits for
\* them, and nobody leaves the task to a goroutine that is not there.
Ends == (task.st \in Active \cup Unsettled) ~> (task.st \in Terminal /\ ~slot)

\* Design document 9.6: the state in which the exit code is never written is ruled out by construction.
ExitCodeWritten == (task.st \in Terminal) ~> (exitFile # NoCode)

\* Design document 9.5: a task whose process ended with another code than 0 is failed, not completed.  An
\* adopted task is exempt, since its daemon is not the parent and cannot learn the code.
FailureReported == task.st = "completed" /\ ~task.adopted => code = 0

\* ProcessSignalAuthorityValidator: a signal goes to the current process of the task only.
SignalsHit == ~struck
=============================================================================
