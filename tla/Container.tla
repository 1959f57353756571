----------------------------- MODULE Container -----------------------------
(***************************************************************************)
(* zeropod.Container: the scaled-down flag, the idle timer, scale-down     *)
(* (checkpoint and activator start), Stop, the activator's accept path,    *)
(* and Restore.  Restore is translated from zeropod/restore.go; the other  *)
(* operations are in files this repository's src/ does not hold and are    *)
(* modelled from sections 4.1 to 4.3 of the specification.                 *)
(***************************************************************************)
EXTENDS Hooks

ZC(c) == zeropodContainers[c]

\* The process Container.Process() returns is alive.
Alive(c) == ZC(c).process \in live

\* State Running of the specification: not scaled down and not killed.
Running(c) ==
    /\ ~ZC(c).scaledDown
    /\ ZC(c).initialProcess \notin exited

----------------------------------------------------------------------------
(* Idle scheduler and Stop, as functions on the container record.          *)

\* ScheduleScaleDown: (re)starts the timer; a no-op outside Running.
Scheduled(c) == IF Running(c) THEN [ZC(c) EXCEPT !.timer = "armed"] ELSE ZC(c)

\* CancelScaleDown: stops the timer.
Cancelled(c) == [ZC(c) EXCEPT !.timer = "idle"]

\* Stop: cancels the timer and stops the activator (listeners closed,
\* redirects removed).  An accept handler in flight is not waited for.
Stopped(c) == [ZC(c) EXCEPT !.timer = "idle", !.activator = "off"]

----------------------------------------------------------------------------
(* Scale-down.                                                             *)

\* The timer fires.  A container that is not Running, or that has execs
\* being started, is left alone; otherwise the goroutine goes on to
\* checkpoint.
TimerFires(c) ==
    /\ ~shimExited
    /\ Managed(c)
    /\ ZC(c).timer = "armed"
    /\ pc[Timer(c)] = "idle"
    /\ zeropodContainers' = [zeropodContainers EXCEPT ![c].timer = "idle"]
    /\ pc' = [pc EXCEPT ![Timer(c)] =
                 IF Running(c) /\ pendingExecs[ZC(c).process] = 0
                 THEN "scaledown_wait" ELSE "idle"]
    /\ UNCHANGED <<kernelVars, delegateVars, crLock, shimExited, req,
                   newProc, reaperVars, clientVars>>

\* scaleDown takes the checkpoint/restore mutex.  A container that is still
\* Running is marked scaled down before the checkpoint begins; for any
\* other the mutex is released at once.
ScaleDownBegin(c) ==
    /\ ~shimExited
    /\ pc[Timer(c)] = "scaledown_wait"
    /\ crLock = Nobody
    /\ IF Running(c)
         THEN /\ zeropodContainers' =
                     [zeropodContainers EXCEPT ![c].scaledDown = TRUE]
              /\ crLock' = Timer(c)
              /\ pc' = [pc EXCEPT ![Timer(c)] = "scaledown_dump"]
         ELSE /\ pc' = [pc EXCEPT ![Timer(c)] = "idle"]
              /\ UNCHANGED <<zeropodContainers, crLock>>
    /\ UNCHANGED <<kernelVars, delegateVars, shimExited, req, newProc,
                   reaperVars, clientVars>>

\* The checkpoint (or, with checkpointing disabled, the kill) ends every
\* process of the container; the reaper is told of each exit.
Dumped(c) ==
    /\ Alive(c)
    /\ \E order \in SetToSeqs(Tree(ZC(c).process) \cap live) :
           /\ live' = live \ Range(order)
           /\ dumped' = dumped \cup Range(order)
           /\ ec' = ec \o order
    /\ UNCHANGED procs

\* What a checkpoint leaves in the snapshot directory of c: with
\* checkpointing disabled nothing is written.
Snapshot(c, result) ==
    IF ZC(c).disableCheckpointing THEN ZC(c).checkpoint ELSE result

\* scaleDown returns: the mutex is released and the timer's goroutine ends.
ScaleDownReturns(c) ==
    /\ ~shimExited
    /\ pc[Timer(c)] = "scaledown_dump"
    /\ crLock' = Nobody
    /\ pc' = [pc EXCEPT ![Timer(c)] = "idle"]
    /\ UNCHANGED <<delegateVars, shimExited, req, newProc, reaperVars,
                   clientVars>>

\* The rest of scaleDown after a checkpoint that worked: the activator is
\* started.
ScaleDownDump(c) ==
    /\ ScaleDownReturns(c)
    /\ Dumped(c)
    /\ zeropodContainers' = [zeropodContainers EXCEPT
           ![c].checkpoint = Snapshot(c, "valid"),
           ![c].activator  = "listening"]

\* ScaleDownFails that leaves the container marked scaled down.
ScaleDownFailsKeepsFlag(c) ==
    /\ ScaleDownReturns(c)
    /\ "checkpoint" \in Faults \/ ~Alive(c)
    /\ zeropodContainers' = [zeropodContainers EXCEPT
           ![c].checkpoint = Snapshot(c, "partial"),
           ![c].timer      = "armed"]
    /\ UNCHANGED kernelVars

\* CheckpointError: the dump fails (it always does on a process that is
\* gone).  What was written is not restorable; the flag is taken back and
\* the timer re-armed.
ScaleDownFails(c) ==
    /\ ScaleDownReturns(c)
    /\ "checkpoint" \in Faults \/ ~Alive(c)
    /\ zeropodContainers' = [zeropodContainers EXCEPT
           ![c].checkpoint = Snapshot(c, "partial"),
           ![c].scaledDown = FALSE,
           ![c].timer      = "armed"]
    /\ UNCHANGED kernelVars

\* ActivatorError: the checkpoint worked but the activator could not bind
\* or install its redirects.  The scale-down is undone as far as it can be.
ActivatorFails(c) ==
    /\ ScaleDownReturns(c)
    /\ "activator" \in Faults
    /\ Dumped(c)
    /\ zeropodContainers' = [zeropodContainers EXCEPT
           ![c].checkpoint = Snapshot(c, "valid"),
           ![c].scaledDown = FALSE,
           ![c].timer      = "armed"]

----------------------------------------------------------------------------
(* Restore (zeropod/restore.go), run by an Exec call or by the activator's *)
(* accept handler.                                                         *)

\* There is something to restore c from: a complete checkpoint, or with
\* checkpointing disabled the bundle.
Restorable(c) == ZC(c).disableCheckpointing \/ ZC(c).checkpoint = "valid"

\* Restore that does not wait for the mutex.
RestoreLockUnlocked(a) ==
    /\ ~shimExited
    /\ pc[a] = "restore_wait"
    /\ crLock' = a
    /\ pc' = [pc EXCEPT ![a] = "restore_locked"]
    /\ UNCHANGED <<kernelVars, delegateVars, zeropodContainers, shimExited,
                   req, newProc, reaperVars, clientVars>>

\* The first line of Restore: c.checkpointRestore.Lock, with the Unlock
\* deferred to whichever return is taken.
RestoreLock(a) == crLock = Nobody /\ RestoreLockUnlocked(a)

\* Restore up to the start of the restored process: the new runc container
\* is created, preRestore called and the process started from the
\* checkpoint (from the bundle when checkpointing is disabled).
RestoreBegin(a) ==
    LET c == ContainerOf(a)
    IN  /\ ~shimExited
        /\ pc[a] = "restore_locked"
        /\ Restorable(c)
        /\ Spawn(c, NoExec, NextProc)
        /\ PreRestore(a)
        /\ newProc' = [newProc EXCEPT ![a] = NextProc]
        /\ pc' = [pc EXCEPT ![a] = "restore_started"]
        /\ UNCHANGED <<dumped, ec, containers, execs, running, pendingExecs,
                       exited, taskExits, wrapperVars, req, reaperVars,
                       clientVars>>

\* Restore returns an error from runc.NewContainer, container.Process or
\* p.Start (it must when there is nothing to restore from or no process
\* can be created), with the mutex left with holder.
RestoreFailed(a, holder) ==
    /\ ~shimExited
    /\ pc[a] = "restore_locked"
    /\ \/ "restore" \in Faults
       \/ ~Restorable(ContainerOf(a))
       \/ Len(procs) = MaxProcs
    /\ crLock' = holder
    /\ pc' = [pc EXCEPT ![a] = "restore_failed"]
    /\ UNCHANGED <<kernelVars, delegateVars, zeropodContainers, shimExited,
                   req, newProc, reaperVars, clientVars>>

\* An error return of Restore that skips the Unlock.
RestoreFailsKeepsLock(a) == RestoreFailed(a, crLock)

\* The three early error returns of Restore; the deferred Unlock runs.
RestoreFails(a) == RestoreFailed(a, Nobody)

\* Restore after the process started: the container takes the new runc
\* container and process and postRestore hands them to the task service.
\* Restore then returns at label to, with the activator in state act and
\* the mutex left with holder.
Restored(a, act, holder, to) ==
    LET c == ContainerOf(a)
        p == newProc[a]
    IN  /\ ~shimExited
        /\ PostRestore(a, c, p)
        /\ zeropodContainers' = [zeropodContainers EXCEPT
               ![c].process = p, ![c].activator = act]
        /\ crLock' = holder
        /\ pc' = [pc EXCEPT ![a] = to]
        /\ newProc' = [newProc EXCEPT ![a] = 0]
        /\ UNCHANGED <<kernelVars, shimExited, req, reaperVars, clientVars>>

\* The activator of a's container, and what DisableRedirects makes of it.
Activator(a)   == ZC(ContainerOf(a)).activator
Redirecting(a) == IF Activator(a) = "listening" THEN "draining"
                  ELSE Activator(a)

\* RestoreFinish that returns without releasing the mutex.
RestoreFinishKeepsLock(a) ==
    /\ pc[a] = "restore_started"
    /\ Restored(a, Redirecting(a), crLock, "restore_ok")

\* RestoreFinish without the call of DisableRedirects.
RestoreFinishKeepsRedirects(a) ==
    /\ pc[a] = "restore_started"
    /\ Restored(a, Activator(a), Nobody, "restore_ok")

\* Restore returns the restored process: the activator's redirects were
\* disabled (when there is an activator) and the deferred Unlock ran.
RestoreFinish(a) ==
    /\ pc[a] = "restore_started"
    /\ Restored(a, Redirecting(a), Nobody, "restore_ok")

\* DisableRedirects fails: the process is restored and registered, the
\* redirects stay, and Restore returns the error.
RestoreRedirectFails(a) ==
    /\ "redirects" \in Faults
    /\ pc[a] = "restore_started"
    /\ Activator(a) = "listening"
    /\ Restored(a, Activator(a), Nobody, "restore_failed")

----------------------------------------------------------------------------
(* The activator's accept path.                                            *)

\* What becomes of a connection that reaches the container's process.
Delivered(c) == IF Alive(c) THEN "served" ELSE "refused"

\* A client connects to a service port of c.  With the redirects in place
\* the activator holds the connection, and the first one held starts the
\* accept handler; without them the connection goes to the process.
ConnArrives(k, c) ==
    /\ ~shimExited
    /\ Managed(c)
    /\ conn[k] = "new"
    /\ IF ZC(c).activator = "listening"
         THEN /\ conn' = [conn EXCEPT ![k] = "waiting"]
              /\ waiting' = [waiting EXCEPT ![c] = @ \cup {k}]
              /\ pc' = [pc EXCEPT ![Acceptor(c)] =
                           IF @ = "idle" THEN "restore_wait" ELSE @]
         ELSE /\ conn' = [conn EXCEPT ![k] = Delivered(c)]
              /\ UNCHANGED <<waiting, pc>>
    /\ UNCHANGED <<kernelVars, delegateVars, wrapperVars, req, newProc,
                   reaperVars>>

\* onAccept after Restore returned: the flag is cleared, the timer
\* re-armed, and every connection held is proxied to the restored process.
AcceptorRestored(c) ==
    /\ ~shimExited
    /\ pc[Acceptor(c)] = "restore_ok"
    /\ zeropodContainers' = [zeropodContainers EXCEPT
           ![c].scaledDown = FALSE,
           ![c].timer = IF ZC(c).initialProcess \notin exited
                        THEN "armed" ELSE @]
    /\ conn' = [k \in Conns |->
                   IF k \in waiting[c] THEN Delivered(c) ELSE conn[k]]
    /\ waiting' = [waiting EXCEPT ![c] = {}]
    /\ pc' = [pc EXCEPT ![Acceptor(c)] = "idle"]
    /\ UNCHANGED <<kernelVars, delegateVars, crLock, shimExited, req,
                   newProc, reaperVars>>

\* RestoreError in onAccept: the shim terminates.
AcceptorRestoreFailed(c) ==
    /\ pc[Acceptor(c)] = "restore_failed"
    /\ ~shimExited
    /\ shimExited' = TRUE
    /\ UNCHANGED <<kernelVars, delegateVars, zeropodContainers, crLock,
                   threadVars, reaperVars, clientVars>>

=============================================================================
