------------------------------ MODULE Delegate ------------------------------
(***************************************************************************)
(* The delegate task service the wrapper embeds (type service): the part   *)
(* of its Start, Exec, Delete and exit bookkeeping that the wrapper code   *)
(* depends on.  Its source is not part of the wrapper files; it is         *)
(* modelled from sections 4.1, 4.5 and 5 of the specification.             *)
(***************************************************************************)
EXTENDS ShimState

\* The container object call t works on, as getContainer returned it to
\* service.Start (0: its init was never started).
Obj(t) == req[t].obj

\* service.handleProcessExit for the processes of cps, one call per entry:
\* SetExited on the process object and one TaskExit published.
HandleProcessExit(cps, alsoExited) ==
    /\ exited' = exited \cup Range(cps) \cup alsoExited
    /\ taskExits' = [p \in ProcIds |->
           taskExits[p] + Cardinality({i \in DOMAIN cps : cps[i] = p})]

\* service.Start, first part: an exec start is counted in pendingExecs, and
\* preStart subscribes the call to the exits that race it.
ServiceStart(t, c, e) ==
    /\ c \in DOMAIN containers
    /\ pendingExecs' = IF e = NoExec \/ InitObj(c) = 0 THEN pendingExecs
                       ELSE [pendingExecs EXCEPT ![InitObj(c)] = @ + 1]
    /\ exitSubscribers' = exitSubscribers \cup {t}
    /\ exits' = [exits EXCEPT ![t] = {}]
    /\ UNCHANGED <<containers, execs, running, exited, taskExits>>

\* What container.Start needs: an init that was created and never started,
\* or a registered exec of a container object that is still the current one
\* and whose init is alive.
Startable(t) ==
    LET c == req[t].c
        e == req[t].exec
    IN  /\ c \in DOMAIN containers
        /\ InitObj(c) = Obj(t)
        /\ IF e = NoExec THEN Obj(t) = 0
           ELSE /\ Obj(t) \in live
                /\ e \in DOMAIN execs[c]
                /\ execs[c][e] = 0

\* container.Start succeeded: the process exists; TaskStart is published.
StartSpawn(t) ==
    LET c == req[t].c
        e == req[t].exec
    IN  /\ ~shimExited
        /\ pc[t] = "start_spawn"
        /\ Startable(t)
        /\ Spawn(c, e, IF e = NoExec THEN NextProc ELSE Obj(t))
        /\ IF e = NoExec
             THEN containers' = [containers EXCEPT ![c] = NextProc]
                  /\ UNCHANGED execs
             ELSE execs' = [execs EXCEPT ![c][e] = NextProc]
                  /\ UNCHANGED containers
        /\ newProc' = [newProc EXCEPT ![t] = NextProc]
        /\ pc' = [pc EXCEPT ![t] = "start_started"]
        /\ UNCHANGED <<dumped, ec, running, pendingExecs, exitSubscribers,
                       exits, exited, taskExits, wrapperVars, req,
                       reaperVars, clientVars>>

\* The init of container object obj as the closure of a handles it once
\* the execs being started have come down to pend[obj]: its exit reached
\* the subscription of a, no exec start is pending any more, and
\* processExits left it in s.running.
DeferredInit(a, obj, pend) ==
    IF ExitsOf(obj, exits[a]) # {} /\ pend[obj] = 0 /\ obj \in running
    THEN <<obj>> ELSE <<>>

\* StartFails without the decrement of s.pendingExecs.
StartFailsKeepsPending(t) ==
    /\ ~shimExited
    /\ pc[t] = "start_spawn"
    /\ ~Startable(t)
    /\ exitSubscribers' = exitSubscribers \ {t}
    /\ exits' = [exits EXCEPT ![t] = {}]
    /\ pc' = [pc EXCEPT ![t] = "idle"]
    /\ req' = [req EXCEPT ![t] = NoRequest]
    /\ UNCHANGED <<kernelVars, containers, execs, running, pendingExecs,
                   exited, taskExits, wrapperVars, newProc, reaperVars,
                   clientVars>>

\* container.Start failed: handleStarted runs for a process that was not
\* started, which undoes the pendingExecs count and the subscription and,
\* as the last pending exec, publishes the exit of the init that
\* processExits had skipped; the wrapper returns the error.
StartFails(t) ==
    LET exec   == req[t].exec # NoExec /\ Obj(t) # 0
        pend   == IF exec THEN [pendingExecs EXCEPT ![Obj(t)] = @ - 1]
                  ELSE pendingExecs
        initCp == IF exec THEN DeferredInit(t, Obj(t), pend) ELSE <<>>
    IN  /\ ~shimExited
        /\ pc[t] = "start_spawn"
        /\ ~Startable(t)
        /\ pendingExecs' = pend
        /\ exitSubscribers' = exitSubscribers \ {t}
        /\ exits' = [exits EXCEPT ![t] = {}]
        /\ running' = running \ Range(initCp)
        /\ HandleProcessExit(initCp, {})
        /\ pc' = [pc EXCEPT ![t] = "idle"]
        /\ req' = [req EXCEPT ![t] = NoRequest]
        /\ UNCHANGED <<kernelVars, containers, execs, wrapperVars, newProc,
                       reaperVars, clientVars>>

\* handleStarted without the decrement of s.pendingExecs.
HandleStartedKeepsPending(a, p, obj) ==
    /\ pendingExecs' = pendingExecs
    /\ exitSubscribers' = exitSubscribers \ {a}
    /\ exits' = [exits EXCEPT ![a] = {}]
    /\ running' = IF ExitsOf(p, exits[a]) # {} THEN running
                  ELSE running \cup {p}
    /\ HandleProcessExit([e \in 1..Cardinality(ExitsOf(p, exits[a])) |-> p],
                         {})

\* The handleStarted closure that preStart gave actor a, called with the
\* started process p of container object obj.  A process under whose pid
\* the subscription saw exits is handled as exited, once for every such
\* exit; otherwise it is added to s.running.  The last pending exec of a
\* container whose init exited meanwhile then publishes the init's exit,
\* which processExits had skipped.  The closure and its exits map are then
\* garbage.
HandleStarted(a, p, obj) ==
    LET early  == [e \in 1..Cardinality(ExitsOf(p, exits[a])) |-> p]
        pend   == IF IsInit(p) THEN pendingExecs
                  ELSE [pendingExecs EXCEPT ![obj] = @ - 1]
        initCp == IF IsInit(p) THEN <<>> ELSE DeferredInit(a, obj, pend)
    IN  /\ pendingExecs' = pend
        /\ exitSubscribers' = exitSubscribers \ {a}
        /\ exits' = [exits EXCEPT ![a] = {}]
        /\ running' = (IF early = <<>> THEN running \cup {p} ELSE running)
                          \ Range(initCp)
        /\ HandleProcessExit(early \o initCp, {})

\* service.Start, last part: TaskStart is published and handleStarted runs.
StartStarted(t) ==
    /\ ~shimExited
    /\ pc[t] = "start_started"
    /\ HandleStarted(t, newProc[t], procs[newProc[t]].obj)
    /\ pc' = [pc EXCEPT ![t] = "start_register"]
    /\ newProc' = [newProc EXCEPT ![t] = 0]
    /\ UNCHANGED <<kernelVars, containers, execs, wrapperVars, req,
                   reaperVars, clientVars>>

\* service.Exec: registers the exec process in the container object.
ServiceExec(c, e) ==
    /\ execs' = IF c \in DOMAIN containers /\ e \notin DOMAIN execs[c]
                THEN [execs EXCEPT ![c] = [x \in DOMAIN @ \cup {e} |->
                                              IF x = e THEN 0 ELSE @[x]]]
                ELSE execs
    /\ UNCHANGED <<containers, running, pendingExecs, exitSubscribers,
                   exits, exited, taskExits>>

\* A process object that can be deleted: never started, or marked exited.
Deletable(p) == p = 0 \/ p \in exited

\* service.Delete: an exec is removed from its container; the init is
\* deleted together with the container's entry in s.containers.  A process
\* that is still running is not deleted (the error goes to the caller).
ServiceDelete(c, e) ==
    /\ IF c \notin DOMAIN containers
         THEN UNCHANGED <<containers, execs>>
         ELSE IF e = NoExec
           THEN /\ containers' = IF Deletable(InitObj(c))
                                 THEN Restrict(containers,
                                               DOMAIN containers \ {c})
                                 ELSE containers
                /\ UNCHANGED execs
           ELSE /\ execs' = IF e \in DOMAIN execs[c] /\ Deletable(execs[c][e])
                            THEN [execs EXCEPT ![c] =
                                      Restrict(@, DOMAIN @ \ {e})]
                            ELSE execs
                /\ UNCHANGED containers
    /\ UNCHANGED <<running, pendingExecs, exitSubscribers, exits, exited,
                   taskExits>>

=============================================================================
