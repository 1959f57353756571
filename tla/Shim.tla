-------------------------------- MODULE Shim --------------------------------
(***************************************************************************)
(* One zeropod shim: the wrapper's RPC calls, its exit loop, the zeropod   *)
(* containers' timers and activators, and the kernel that ends processes,  *)
(* all running concurrently.                                               *)
(***************************************************************************)
EXTENDS Wrapper

\* NewZeropodService: empty maps, a free mutex, the exit loop started.  The
\* containers of the pod have been created (Create is the delegate's) and
\* none is started.
Init ==
    /\ procs = <<>>
    /\ live = {}
    /\ dumped = {}
    /\ ec = <<>>
    /\ containers = [c \in Containers |-> 0]
    /\ execs = [c \in Containers |-> [e \in {} |-> 0]]
    /\ running = {}
    /\ pendingExecs = [p \in ProcIds |-> 0]
    /\ exitSubscribers = {}
    /\ exits = [a \in Restorers |-> {}]
    /\ exited = {}
    /\ taskExits = [p \in ProcIds |-> 0]
    /\ zeropodContainers = [c \in {} |-> 0]
    /\ crLock = Nobody
    /\ shimExited = FALSE
    /\ pc = [a \in Actors |-> "idle"]
    /\ req = [t \in Calls |-> NoRequest]
    /\ newProc = [a \in Actors |-> 0]
    /\ exitCur = 0
    /\ exitCps = <<>>
    /\ deferred = {}
    /\ conn = [k \in Conns |-> "new"]
    /\ waiting = [c \in Containers |-> {}]

\* The kernel ends a process (it exits, or a signal kills it).  With an
\* init process end all processes of its container.  The reaper sends
\* every exit down the channel.
ProcessDies(p) ==
    /\ ~shimExited
    /\ p \in live
    /\ \E order \in SetToSeqs(IF IsInit(p) THEN Tree(p) \cap live ELSE {p}) :
           /\ live' = live \ Range(order)
           /\ ec' = ec \o order
    /\ UNCHANGED <<procs, dumped, delegateVars, wrapperVars, threadVars,
                   reaperVars, clientVars>>

\* The shutdown service runs its callbacks once no container is left: the
\* one Start registered for each zeropod container stops it, and the one
\* NewZeropodService registered closes the event channel.
Shutdown ==
    /\ ~shimExited
    /\ DOMAIN containers = {}
    /\ zeropodContainers' = [c \in DOMAIN zeropodContainers |-> Stopped(c)]
    /\ shimExited' = TRUE
    /\ UNCHANGED <<kernelVars, delegateVars, crLock, threadVars, reaperVars,
                   clientVars>>

CallStep(t) ==
    \/ \E c \in Containers, e \in ExecIds \cup {NoExec} :
           \/ StartCall(t, c, e)
           \/ Delete(t, c, e)
           \/ KillCall(t, c, e)
    \/ \E c \in Containers, e \in ExecIds : ExecCall(t, c, e)
    \/ StartSpawn(t)
    \/ StartFails(t)
    \/ StartStarted(t)
    \/ StartRegister(t)
    \/ ExecRestored(t)
    \/ ExecRestoreFailed(t)
    \/ ExecDelegate(t)
    \/ KillLock(t)
    \/ Kill(t)

RestoreStep(a) ==
    \/ RestoreLock(a)
    \/ RestoreBegin(a)
    \/ RestoreFails(a)
    \/ RestoreFinish(a)
    \/ RestoreRedirectFails(a)

ContainerStep(c) ==
    \/ TimerFires(c)
    \/ ScaleDownBegin(c)
    \/ ScaleDownDump(c)
    \/ ScaleDownFails(c)
    \/ ActivatorFails(c)
    \/ AcceptorRestored(c)
    \/ AcceptorRestoreFailed(c)
    \/ \E k \in Conns : ConnArrives(k, c)

Next ==
    \/ \E t \in Calls : CallStep(t)
    \/ \E a \in Restorers : RestoreStep(a)
    \/ \E c \in Containers : ContainerStep(c)
    \/ \E p \in ProcIds : ProcessDies(p)
    \/ ExitsPeek
    \/ ExitsDispatch
    \/ Shutdown

\* A shim that has exited (Shutdown, or os.Exit after a failed restore)
\* takes no more steps: behaviours may end.
Spec == Init /\ [][Next]_vars

\* Threads that can run do run, so every step that waits for nothing is
\* weakly fair.  A sync.Mutex hands itself to a waiter that has starved,
\* so the steps that take the checkpoint/restore mutex are strongly fair.
\* Nothing obliges the host to send a request, a client to connect, a
\* process to die or a timer to be armed.
Fairness ==
    /\ \A a \in Restorers :
           /\ SF_vars(RestoreLock(a))
           /\ WF_vars(RestoreBegin(a) \/ RestoreFails(a))
           /\ WF_vars(RestoreFinish(a) \/ RestoreRedirectFails(a))
    /\ \A c \in Containers :
           /\ SF_vars(ScaleDownBegin(c))
           /\ WF_vars(ScaleDownDump(c) \/ ScaleDownFails(c) \/ ActivatorFails(c))
           /\ WF_vars(AcceptorRestored(c) \/ AcceptorRestoreFailed(c))
    /\ \A t \in Calls :
           /\ SF_vars(KillLock(t))
           /\ WF_vars(Kill(t))
           /\ WF_vars(ExecRestored(t) \/ ExecRestoreFailed(t))

FairSpec == Spec /\ Fairness

----------------------------------------------------------------------------
(* Properties that hold.                                                   *)

\* The sections of code that run with w.checkpointRestore held: Restore
\* between Lock and the deferred Unlock, scaleDown, and the body of Kill.
Sections == {"restore_locked", "restore_started", "scaledown_dump",
             "kill_locked"}

\* The checkpoint/restore mutex is held by an actor exactly while that
\* actor is inside Restore, scaleDown or Kill: no path through them (their
\* error returns included) leaves the mutex held, and nobody is inside
\* without it.  This is what lets Kill "ensure that has finished".
LockHeldIffInSection ==
    \A a \in Actors : (crLock = a) <=> (pc[a] \in Sections)

\* A container that is marked scaled down outside of a running checkpoint
\* has something to be restored from.  Exec and the activator call Restore
\* on the strength of the flag alone, and a failed Restore ends the shim,
\* so a checkpoint that fails must take the flag back.
ScaledDownRestorable ==
    \A c \in DOMAIN zeropodContainers :
        ZC(c).scaledDown /\ pc[Timer(c)] # "scaledown_dump" => Restorable(c)

\* After every restore the task service and the zeropod container agree
\* on the container object: postRestore replaced the entry of s.containers
\* with the object Restore stored in the zeropod container, so that execs
\* and kills of the delegate reach the restored process and not the one
\* that was checkpointed.
ServiceTracksRestored ==
    \A c \in DOMAIN zeropodContainers \cap DOMAIN containers :
        containers[c] = ZC(c).process

\* s.pendingExecs counts, for every container object, exactly the exec
\* starts that are between preStart and handleStarted.  The timer reads the
\* counter to keep a container with a starting exec from being
\* checkpointed, and processExits reads it to defer the exit of an init;
\* a start that fails, or one that races a restore which replaces the
\* container object, must still give its count back.
PendingExecsCounted ==
    \A p \in ProcIds :
        pendingExecs[p] =
            Cardinality({t \in Calls : /\ pc[t] \in {"start_spawn", "start_started"}
                                       /\ req[t].exec # NoExec
                                       /\ req[t].obj = p})

\* The host is told of the exit of a process that is still alive only
\* where the kernel has recycled a pid: processExits and the closures of
\* preStart know a process by its pid alone, so an exit is handled for every
\* process registered under its pid, and for no other.  This is the extent
\* of the limitation the comment in processExits accepts.
LiveExitOnlyByRecycledPid ==
    \A p \in live :
        taskExits[p] > 0 => \E q \in DOMAIN procs \ live : PidOf(q) = PidOf(p)

\* Every process that is alive is monitored: it is in s.running, or the
\* call that started it is on its way to handleStarted.  A restored
\* process is a process the delegate never started, and postRestore must
\* hand it to the closure of preRestore; one that is not monitored exits
\* without a TaskExit, and the host waits for its container for ever.
\* (A process whose pid was recycled may have been taken for the dead
\* one.)
LiveIsMonitored ==
    \A p \in live :
        \/ p \in running
        \/ \E a \in Actors : newProc[a] = p
        \/ \E q \in DOMAIN procs \ live : PidOf(q) = PidOf(p)

\* No scale-down of container c has begun so far.
NeverScaledDown(c) ==
    \/ ~Managed(c)
    \/ /\ ~ZC(c).disableCheckpointing
       /\ ~ZC(c).scaledDown
       /\ ZC(c).checkpoint = "none"

\* Something is still going to handle the exit of process p: the exit is
\* in the channel or with processExits, or the call that started p has not
\* reached handleStarted.
ExitInHand(p) ==
    \/ \E e \in Range(ec) \cup ({exitCur} \ {0}) : PidOf(e) = PidOf(p)
    \/ \E a \in Actors : newProc[a] = p

\* No exit is lost but that of a deferred init: until the first scale-down
\* of its container, a process that has ended and whose exit nobody has in
\* hand any more has had its TaskExit, unless it is an init that
\* processExits skipped for the execs being started.  processExits reads
\* s.running twice, before and under s.lifecycleMu, while Start calls add
\* to it: an exit that arrives before its process is registered must reach
\* the handleStarted closure of the Start through the subscription of
\* preStart, whatever the two threads and the exit loop do in between.
\* The host waits for ever for a container whose exit is lost.
ExitNotLost ==
    \A p \in DOMAIN procs \ (live \cup dumped \cup deferred) :
        NeverScaledDown(procs[p].c) /\ ~ExitInHand(p) => taskExits[p] > 0

\* A Kill that waits for the checkpoint/restore mutex gets it and returns,
\* whatever checkpoints, restores and other kills are in progress, unless
\* the shim exits first.
KillReturns ==
    \A t \in Calls : pc[t] = "kill_wait" ~> (pc[t] = "idle" \/ shimExited)

\* A connection the activator holds is in the end proxied to the restored
\* process or refused, unless the shim exits: the accept handler's Restore
\* is not starved of the mutex and every connection held is handed over,
\* not only the one that started the handler.
ConnServed ==
    \A k \in Conns :
        conn[k] = "waiting" ~> (conn[k] \in {"served", "refused"} \/ shimExited)

----------------------------------------------------------------------------
(* The shim as an implementation of Lifecycle.                             *)

\* The init processes container c has had.
Inits(c) == {p \in DOMAIN procs : procs[p].c = c /\ IsInit(p)}

\* The restorers of c that are at one of the labels ls.
RestorersAt(c, ls) ==
    {a \in Restorers : ContainerOf(a) = c /\ pc[a] \in ls}

\* The state of the specification's state machine, as the code holds it:
\* in the scaled-down flag and in where the goroutines are that checkpoint
\* and restore.  A container is Restoring from the Lock of Restore until
\* the caller has cleared the flag, and Terminated once a caller has ended
\* the shim over a failed Restore.
LifecycleState(c) ==
    IF ~Managed(c) THEN "Absent"
    ELSE IF shimExited /\ RestorersAt(c, {"restore_failed"}) # {}
        THEN "Terminated"
    ELSE IF pc[Timer(c)] = "scaledown_dump" THEN "ScalingDown"
    ELSE IF RestorersAt(c, {"restore_locked", "restore_started",
                            "restore_ok", "restore_failed"}) # {}
        THEN "Restoring"
    ELSE IF ScaledDown(c) THEN "ScaledDown"
    ELSE "Running"

LC(c) == INSTANCE Lifecycle WITH
    state   <- LifecycleState(c),
    alive   <- Managed(c) /\ Inits(c) \cap live # {},
    bound   <- Managed(c) /\ ZC(c).activator = "listening",
    started <- IF Managed(c) THEN Cardinality(Inits(c)) ELSE 0,
    frozen  <- Cardinality(Inits(c) \cap dumped)

\* With the activator as the only caller of Restore and no Kill, every
\* container of the shim lives the life Lifecycle describes: the flag, the
\* mutex sections, the processes of the kernel and the activator change
\* together the way one state machine would.  In particular every process
\* Restore starts is started for a process that a checkpoint ended, and
\* the container is Running again only after DisableRedirects.
\* (This is LC(c)!LifecycleSpec for every container c, written as one
\* formula of the form Init /\ [][Next]_vars.)
ImplementsLifecycle ==
    /\ \A c \in Containers : LC(c)!LifecycleInit
    /\ [][\A c \in Containers :
              LC(c)!LifecycleNext \/ UNCHANGED LC(c)!lifecycle]_vars

----------------------------------------------------------------------------
(* Properties the specification states and the code does not keep.         *)

\* The exit of an init is published after the start of every exec of its
\* container: while execs are being started (pendingExecs), processExits
\* does not hand the init to handleProcessExit but leaves it to the
\* handleStarted closure of the exec, which has published the exec's start
\* by then.
InitExitAfterExecs ==
    [][ExitsDispatch =>
          \A p \in DOMAIN procs :
              IsInit(p) /\ taskExits'[p] > taskExits[p] => pendingExecs[p] = 0]_vars

\* Restore is entered only for a container that is scaled down, so that a
\* scale-down is answered by exactly one restore: no caller leaves the
\* wait for the mutex to restore a container whose process is alive.
RestoreOnlyWhenScaledDown ==
    [][\A a \in Restorers :
          pc[a] = "restore_wait" /\ pc'[a] # "restore_wait"
              => ~Alive(ContainerOf(a))]_vars

\* preventExit drops an exit because "the PID has vanished by design":
\* the exit that processExits drops is the exit of a process that a
\* checkpoint ended.
DroppedExitWasCheckpointed ==
    [][ExitsPeek /\ exitCur' = 0 => Head(ec) \in dumped]_vars

\* The exit of a process that a checkpoint ended is never published: the
\* host must not be told that a container exited which was only scaled
\* down.
CheckpointExitNeverPublished == \A p \in dumped : taskExits[p] = 0

\* A process is registered with the exit loop before its exit can be
\* consumed ("the wrapper must register the new PID with the exit
\* reconciler before the process is observed exiting"): whenever a started
\* or restored process is added to s.running it is alive, or its exit is
\* still in the channel or in the hands of processExits.  The closure of
\* preStart sees to it for Start; preRestore hands Restore a closure whose
\* subscription its deferred cleanup has already removed.
StartedExitNotMissed ==
    [][\A p \in running' \ running :
          p \in live \/ p \in Range(ec) \/ p = exitCur]_vars

=============================================================================
