------------------------------ MODULE Wrapper ------------------------------
(***************************************************************************)
(* The lifecycle wrapper (type wrapper): the task RPCs it intercepts       *)
(* (Start, Exec, Delete, Kill) and its exit loop (processExits,            *)
(* preventExit).  A call is an actor t of Calls; a handler that blocks or  *)
(* calls into the runtime is split at those points, and pc[t] says where   *)
(* the call is.                                                            *)
(***************************************************************************)
EXTENDS Container

\* wrapper.Start, up to container.Start inside service.Start.  The request
\* remembers the container object the delegate looked up.
StartCall(t, c, e) ==
    /\ ~shimExited
    /\ "Start" \in May[t]
    /\ pc[t] = "idle"
    /\ ServiceStart(t, c, e)
    /\ req' = [req EXCEPT ![t] = [rpc |-> "Start", c |-> c, exec |-> e,
                                  obj |-> InitObj(c)]]
    /\ pc' = [pc EXCEPT ![t] = "start_spawn"]
    /\ UNCHANGED <<kernelVars, wrapperVars, newProc, reaperVars, clientVars>>

\* What zeropod.New makes of a started container whose annotations say d
\* about checkpointing.
NewContainer(c, d) ==
    [scaledDown |-> FALSE, disableCheckpointing |-> d, process |-> InitObj(c),
     initialProcess |-> InitObj(c), timer |-> "idle", activator |-> "off",
     checkpoint |-> "none"]

\* wrapper.Start after service.Start returned: the container is looked up
\* again, its spec read and the annotations decoded (for amd64: the wrapper
\* does not read PreDump).  A container that is gone, a spec that cannot be
\* read, annotations that do not decode and a zeropod.New that fails fail
\* the call; a sandbox, an exec and a container the annotations do not
\* select are ignored.  Any other is registered under w.mut and its
\* scale-down scheduled; when ScheduleScaleDown fails the call fails with
\* the container registered and no timer armed.
StartRegister(t) ==
    LET c == req[t].c
    IN  /\ ~shimExited
        /\ pc[t] = "start_register"
        /\ \E a \in Annotations[c], failed \in Fails("create"),
                unscheduled \in Fails("schedule") :
               LET r == Cfg!NewConfig(a, "amd64")
                   managed == /\ c \in DOMAIN containers
                              /\ Cfg!Classify(r) = "zeropod"
                              /\ req[t].exec = NoExec
                              /\ ~failed
                   new == NewContainer(c, r.val.decoded.DisableCheckpointing)
                   zc  == IF unscheduled THEN new
                          ELSE [new EXCEPT !.timer = "armed"]
               IN  zeropodContainers' =
                       IF managed
                       THEN [x \in DOMAIN zeropodContainers \cup {c} |->
                                IF x = c THEN zc ELSE zeropodContainers[x]]
                       ELSE zeropodContainers
        /\ pc' = [pc EXCEPT ![t] = "idle"]
        /\ req' = [req EXCEPT ![t] = NoRequest]
        /\ UNCHANGED <<kernelVars, delegateVars, crLock, shimExited,
                       newProc, reaperVars, clientVars>>

\* wrapper.Exec, first part.  For a container the wrapper does not manage
\* the call is the delegate's.  For one it manages the timer is cancelled
\* and the scaled-down flag read, without the checkpoint/restore mutex: the
\* call goes on to Restore when the flag is set.
ExecCall(t, c, e) ==
    /\ ~shimExited
    /\ "Exec" \in May[t]
    /\ pc[t] = "idle"
    /\ IF Managed(c)
         THEN /\ zeropodContainers' =
                     [zeropodContainers EXCEPT ![c] = Cancelled(c)]
              /\ req' = [req EXCEPT ![t] = [rpc |-> "Exec", c |-> c,
                                            exec |-> e, obj |-> 0]]
              /\ pc' = [pc EXCEPT ![t] = IF ScaledDown(c) THEN "restore_wait"
                                         ELSE "exec_delegate"]
              /\ UNCHANGED delegateVars
         ELSE /\ ServiceExec(c, e)
              /\ UNCHANGED <<zeropodContainers, pc, req>>
    /\ UNCHANGED <<kernelVars, crLock, shimExited, newProc, reaperVars,
                   clientVars>>

\* wrapper.Exec after Restore returned without error: only now, outside
\* the mutex, is the flag cleared.
ExecRestored(t) ==
    /\ ~shimExited
    /\ t \in Calls
    /\ pc[t] = "restore_ok"
    /\ zeropodContainers' =
           [zeropodContainers EXCEPT ![req[t].c].scaledDown = FALSE]
    /\ pc' = [pc EXCEPT ![t] = "exec_delegate"]
    /\ UNCHANGED <<kernelVars, delegateVars, crLock, shimExited, req,
                   newProc, reaperVars, clientVars>>

\* wrapper.Exec after Restore returned an error: the shim exits.
ExecRestoreFailed(t) ==
    /\ t \in Calls
    /\ pc[t] = "restore_failed"
    /\ ~shimExited
    /\ shimExited' = TRUE
    /\ UNCHANGED <<kernelVars, delegateVars, zeropodContainers, crLock,
                   threadVars, reaperVars, clientVars>>

\* wrapper.Exec, last part: the delegate registers the exec.
ExecDelegate(t) ==
    /\ ~shimExited
    /\ pc[t] = "exec_delegate"
    /\ ServiceExec(req[t].c, req[t].exec)
    /\ pc' = [pc EXCEPT ![t] = "idle"]
    /\ req' = [req EXCEPT ![t] = NoRequest]
    /\ UNCHANGED <<kernelVars, wrapperVars, newProc, reaperVars, clientVars>>

\* wrapper.Delete: the delete of an exec of a managed container schedules
\* the scale-down again, and the delegate then deletes; when
\* ScheduleScaleDown fails the call returns and the delegate is not asked.
Delete(t, c, e) ==
    /\ ~shimExited
    /\ "Delete" \in May[t]
    /\ pc[t] = "idle"
    /\ IF Managed(c) /\ e # NoExec
         THEN \/ /\ zeropodContainers' =
                       [zeropodContainers EXCEPT ![c] = Scheduled(c)]
                 /\ ServiceDelete(c, e)
              \/ /\ "schedule" \in Faults
                 /\ UNCHANGED <<zeropodContainers, delegateVars>>
         ELSE /\ UNCHANGED zeropodContainers
              /\ ServiceDelete(c, e)
    /\ UNCHANGED <<kernelVars, crLock, shimExited, threadVars, reaperVars,
                   clientVars>>

\* wrapper.Kill is called and queues for the checkpoint/restore mutex.
KillCall(t, c, e) ==
    /\ ~shimExited
    /\ "Kill" \in May[t]
    /\ pc[t] = "idle"
    /\ req' = [req EXCEPT ![t] = [rpc |-> "Kill", c |-> c, exec |-> e,
                                  obj |-> 0]]
    /\ pc' = [pc EXCEPT ![t] = "kill_wait"]
    /\ UNCHANGED <<kernelVars, delegateVars, wrapperVars, newProc,
                   reaperVars, clientVars>>

\* wrapper.Kill has the mutex.
KillLock(t) ==
    /\ ~shimExited
    /\ pc[t] = "kill_wait"
    /\ crLock = Nobody
    /\ crLock' = t
    /\ pc' = [pc EXCEPT ![t] = "kill_locked"]
    /\ UNCHANGED <<kernelVars, delegateVars, zeropodContainers, shimExited,
                   req, newProc, reaperVars, clientVars>>

\* What the kill of the init of managed container c does to its record and
\* to the process objects marked exited.  Scaled down: both process
\* objects are marked and the container stopped.  Otherwise the container
\* is stopped and the process signalled; only when the signal could be
\* sent is the initial process marked.
KillInit(c) ==
    /\ zeropodContainers' = [zeropodContainers EXCEPT ![c] = Stopped(c)]
    /\ exited' = exited \cup
           IF ScaledDown(c) THEN {ZC(c).process, ZC(c).initialProcess}
           ELSE IF Alive(c) THEN {ZC(c).initialProcess}
           ELSE {}

\* wrapper.Kill under the mutex, which the deferred Unlock releases.  The
\* kill of an exec, or of a container the wrapper does not manage, is the
\* delegate's alone.
Kill(t) ==
    LET c == req[t].c
    IN  /\ ~shimExited
        /\ pc[t] = "kill_locked"
        /\ IF Managed(c) /\ req[t].exec = NoExec
             THEN KillInit(c)
             ELSE UNCHANGED <<zeropodContainers, exited>>
        /\ crLock' = Nobody
        /\ pc' = [pc EXCEPT ![t] = "idle"]
        /\ req' = [req EXCEPT ![t] = NoRequest]
        /\ UNCHANGED <<kernelVars, containers, execs, running, pendingExecs,
                       exitSubscribers, exits, taskExits, shimExited,
                       newProc, reaperVars, clientVars>>

----------------------------------------------------------------------------
(* The exit loop.                                                          *)

\* wrapper.preventExit returns true for process p: it is a process of a
\* scaled down container.
PreventExit(p) ==
    /\ Managed(procs[p].c)
    /\ ScaledDown(procs[p].c)

\* The other effect of preventExit: the exit of an init process of a
\* managed container marks the container's initial process exited.  (The
\* ids it compares are the container's id for an init process and the exec
\* id for an exec.)
MarkedInitial(p) ==
    IF Managed(procs[p].c) /\ IsInit(p)
    THEN {ZC(procs[p].c).initialProcess} ELSE {}

\* processExits, first part: the next exit is taken from the channel and
\* the processes running under its pid are read, without s.lifecycleMu,
\* and each is shown to preventExit.  The exit is dropped when preventExit
\* was true of one of them.
ExitsPeek ==
    LET e     == Head(ec)
        drops == {p \in RunningAt(e) : PreventExit(p)}
    IN  /\ ~shimExited
        /\ exitCur = 0
        /\ ec # <<>>
        /\ ec' = Tail(ec)
        /\ exited' = exited \cup
               UNION {MarkedInitial(p) : p \in RunningAt(e) \ drops}
        /\ IF drops # {}
             THEN UNCHANGED <<exitCur, exitCps>>
             ELSE /\ exitCur' = e
                  /\ exitCps' = SetToSortSeq(RunningAt(e), <)
        /\ UNCHANGED deferred
        /\ UNCHANGED <<procs, live, dumped, containers, execs, running,
                       pendingExecs, exitSubscribers, exits, taskExits,
                       wrapperVars, threadVars, clientVars>>

\* An init whose container has execs being started is skipped: its exit is
\* left to the handleStarted closure of the last of those execs.
Skipped(p) == IsInit(p) /\ pendingExecs[p] # 0

\* ExitsDispatch that does not tell the subscribers of the exit.
ExitsDispatchUntold ==
    LET e     == exitCur
        found == {p \in RunningAt(e) : ~Skipped(p)}
        cps   == exitCps \o SetToSortSeq(found, <)
    IN  /\ ~shimExited
        /\ exitCur # 0
        /\ running' = running \ found
        /\ HandleProcessExit(cps, {})
        /\ exitCur' = 0
        /\ exitCps' = <<>>
        /\ deferred' = deferred \cup (RunningAt(e) \ Range(cps))
        /\ UNCHANGED <<kernelVars, containers, execs, pendingExecs,
                       exitSubscribers, exits, wrapperVars, threadVars,
                       clientVars>>

\* processExits, second part, under s.lifecycleMu: the subscribers are
\* told, the processes running under the pid are appended to cps unless
\* skipped, s.running is updated, and every entry of cps is handled.
ExitsDispatch ==
    LET e     == exitCur
        found == {p \in RunningAt(e) : ~Skipped(p)}
        cps   == exitCps \o SetToSortSeq(found, <)
    IN  /\ ~shimExited
        /\ exitCur # 0
        /\ exits' = [a \in Restorers |->
                        IF a \in exitSubscribers THEN exits[a] \cup {e}
                        ELSE exits[a]]
        /\ running' = running \ found
        /\ HandleProcessExit(cps, {})
        /\ exitCur' = 0
        /\ exitCps' = <<>>
        /\ deferred' = deferred \cup (RunningAt(e) \ Range(cps))
        /\ UNCHANGED <<kernelVars, containers, execs, pendingExecs,
                       exitSubscribers, wrapperVars, threadVars, clientVars>>

=============================================================================
