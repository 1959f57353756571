------------------------------- MODULE Legacy -------------------------------
(***************************************************************************)
(* The first generation of the wrapper (part_001, second file): one shim   *)
(* with one scaledDown flag and one originalProcess for all its            *)
(* containers.  Start checkpoints a container right after starting it; the *)
(* activator's onAccept restores it and its onIdle checkpoints it again;   *)
(* checkProcesses drops exits while the flag is set.                       *)
(*                                                                         *)
(* A process object is the pid of its process.  The delegate's Start and   *)
(* the activator are not in this file; what the wrapper needs of them is   *)
(* modelled from the specification (service.Start starts the process and   *)
(* publishes TaskStart; an activator listens from srv.Start until its      *)
(* onAccept has returned, and then calls onIdle).                          *)
(***************************************************************************)
EXTENDS Naturals, Sequences, FiniteSets

CONSTANTS
    Containers,     \* ids of the containers of the pod
    Sandboxes,      \* those that are sandbox (pause) containers
    Calls,          \* threads serving task RPCs
    Faults,         \* the runtime failures this model injects
    MaxPid,         \* bound on the number of processes ever started
    Nobody          \* holder of a free mutex

FaultKinds == {"snapshot", "checkpoint", "activator", "restore"}

ASSUME LegacyConstantsOK ==
    /\ Sandboxes \subseteq Containers
    /\ Faults \subseteq FaultKinds
    /\ MaxPid \in Nat \ {0}
    /\ Nobody \notin Calls

VARIABLES
    owner,          \* owner[p]: the container of the process with pid p
    live,           \* pids of the processes that exist
    dumped,         \* pids that a checkpoint ended
    ec,             \* the reaper's exit channel (s.ec)
    main,           \* main[c]: init process of c in s.containers (0: none)
    exited,         \* process objects on which SetExited was called
    taskStart,      \* taskStart[p]: TaskStart events published for p
    taskExit,       \* taskExit[p]: TaskExit events published for p
    scaledDown,     \* wrapper.scaledDown
    originalProcess,\* wrapper.originalProcess (0: nil)
    checkpoint,     \* checkpoint[c]: what is in c's snapshot directory
    listening,      \* containers whose activator is listening
    mu,             \* holder of s.mu
    eventSendMu,    \* holder of s.eventSendMu
    pc,             \* pc[a]: where actor a is
    arg,            \* arg[a]: the container and process a works on
    exitCur,        \* the exit checkProcesses is about to publish (0: none)
    halted          \* "no", or how the shim ended: "exit" or "panic"

kernel  == <<owner, live, dumped, ec>>
service == <<main, exited, taskStart, taskExit>>
wrapper == <<scaledDown, originalProcess, checkpoint, listening>>
locks   == <<mu, eventSendMu>>
threads == <<pc, arg>>
lvars   == <<kernel, service, wrapper, locks, threads, exitCur, halted>>

----------------------------------------------------------------------------
Acceptor(c) == <<"accept", c>>
Idler(c)    == <<"idle", c>>
Reaper      == <<"exits">>

\* The goroutines that run scaleDown: a Start call, or onIdle.
Checkpointers == Calls \cup {Idler(c) : c \in Containers}
Actors        == Checkpointers \cup {Acceptor(c) : c \in Containers}

Pids == 1..MaxPid

Labels == {"idle", "start_lookup", "kill_marking", "scaledown",
           "checkpointing",
           "start_zeropod", "idle_sleep", "accept_lock", "restoring",
           "restored", "accept_send"}

NoArg == [c |-> CHOOSE c \in Containers : TRUE, p |-> 0]

LTypeOK ==
    /\ owner \in Seq(Containers) /\ Len(owner) <= MaxPid
    /\ live \subseteq DOMAIN owner
    /\ dumped \subseteq DOMAIN owner
    /\ ec \in Seq(Pids)
    /\ main \in [Containers -> Pids \cup {0}]
    /\ exited \subseteq Pids
    /\ taskStart \in [Pids -> 0..2]
    /\ taskExit \in [Pids -> 0..1]
    /\ scaledDown \in BOOLEAN
    /\ originalProcess \in Pids \cup {0}
    /\ checkpoint \in [Containers -> {"none", "valid", "partial"}]
    /\ listening \subseteq Containers
    /\ mu \in {Nobody, Reaper}
    /\ eventSendMu \in {Nobody, Reaper} \cup {Acceptor(c) : c \in Containers}
    /\ pc \in [Actors -> Labels]
    /\ arg \in [Actors -> [c : Containers, p : Pids \cup {0}]]
    /\ exitCur \in Pids \cup {0}
    /\ halted \in {"no", "exit", "panic"}

Up      == halted = "no"
NextPid == Len(owner) + 1

\* A started process of container c.
Spawn(c) ==
    /\ Len(owner) < MaxPid
    /\ owner' = Append(owner, c)
    /\ live' = live \cup {NextPid}

\* Actor a goes from label from to label to, working on container c and
\* process p.
Goto(a, to, c, p) ==
    /\ pc' = [pc EXCEPT ![a] = to]
    /\ arg' = [arg EXCEPT ![a] = [c |-> c, p |-> p]]

\* Actor a is done with what it was doing.
Return(a) == Goto(a, "idle", NoArg.c, 0)

----------------------------------------------------------------------------
(* wrapper.Start                                                           *)

\* Start, the delegate's part: the init process of c is started and
\* TaskStart published.
StartCall(t, c) ==
    /\ Up
    /\ pc[t] = "idle"
    /\ main[c] = 0
    /\ Spawn(c)
    /\ main' = [main EXCEPT ![c] = NextPid]
    /\ taskStart' = [taskStart EXCEPT ![NextPid] = 1]
    /\ Goto(t, "start_lookup", c, 0)
    /\ UNCHANGED <<dumped, ec, exited, taskExit, wrapper, locks, exitCur,
                   halted>>

\* Start after service.Start: the container is looked up under s.mu; for a
\* container that is no sandbox the process becomes the original process,
\* and after two seconds scaleDown is called.
StartLookup(t) ==
    LET c == arg[t].c
    IN  /\ Up
        /\ pc[t] = "start_lookup"
        /\ mu = Nobody
        /\ IF c \in Sandboxes
             THEN Return(t) /\ UNCHANGED originalProcess
             ELSE /\ originalProcess' = main[c]
                  /\ Goto(t, "scaledown", c, main[c])
        /\ UNCHANGED <<kernel, service, scaledDown, checkpoint, listening,
                       locks, exitCur, halted>>

----------------------------------------------------------------------------
(* wrapper.scaleDown, run by actor a for container arg[a].c and process    *)
(* arg[a].p                                                                *)

\* The snapshot directory cannot be removed: scaleDown returns the error.
ScaleDownPrepareFails(a) ==
    /\ Up
    /\ pc[a] = "scaledown"
    /\ "snapshot" \in Faults
    /\ Return(a)
    /\ UNCHANGED <<kernel, service, wrapper, locks, exitCur, halted>>

\* ScaleDownMark that does not set the flag.
ScaleDownMarkUnset(a) ==
    /\ Up
    /\ pc[a] = "scaledown"
    /\ pc' = [pc EXCEPT ![a] = "checkpointing"]
    /\ UNCHANGED <<kernel, service, wrapper, locks, arg, exitCur, halted>>

\* scaleDown up to the checkpoint: the flag is set before the runtime is
\* called.
ScaleDownMark(a) ==
    /\ Up
    /\ pc[a] = "scaledown"
    /\ scaledDown' = TRUE
    /\ pc' = [pc EXCEPT ![a] = "checkpointing"]
    /\ UNCHANGED <<kernel, service, originalProcess, checkpoint, listening,
                   locks, arg, exitCur, halted>>

\* The checkpoint worked: it ended the process (Exit: true), whose exit
\* the reaper reports.
ScaleDownCheckpoint(a) ==
    LET c == arg[a].c
        p == arg[a].p
    IN  /\ Up
        /\ pc[a] = "checkpointing"
        /\ p \in live
        /\ live' = live \ {p}
        /\ dumped' = dumped \cup {p}
        /\ ec' = Append(ec, p)
        /\ checkpoint' = [checkpoint EXCEPT ![c] = "valid"]
        /\ pc' = [pc EXCEPT ![a] = "start_zeropod"]
        /\ UNCHANGED <<owner, service, scaledDown, originalProcess,
                       listening, locks, arg, exitCur, halted>>

\* ScaleDownCheckpointFails that leaves the flag set.
ScaleDownCheckpointFailsKeepsFlag(a) ==
    /\ Up
    /\ pc[a] = "checkpointing"
    /\ "checkpoint" \in Faults \/ arg[a].p \notin live
    /\ checkpoint' = [checkpoint EXCEPT ![arg[a].c] = "partial"]
    /\ Return(a)
    /\ UNCHANGED <<kernel, service, scaledDown, originalProcess, listening,
                   locks, exitCur, halted>>

\* The checkpoint failed (it always does on a process that is gone): the
\* flag is taken back and the error returned.
ScaleDownCheckpointFails(a) ==
    /\ Up
    /\ pc[a] = "checkpointing"
    /\ "checkpoint" \in Faults \/ arg[a].p \notin live
    /\ scaledDown' = FALSE
    /\ checkpoint' = [checkpoint EXCEPT ![arg[a].c] = "partial"]
    /\ Return(a)
    /\ UNCHANGED <<kernel, service, originalProcess, listening, locks,
                   exitCur, halted>>

\* StartZeropod worked: the activator of c listens.  (Whether the rules
\* CRIU left are then removed changes only what scaleDown returns.)
StartZeropod(a) ==
    /\ Up
    /\ pc[a] = "start_zeropod"
    /\ listening' = listening \cup {arg[a].c}
    /\ Return(a)
    /\ UNCHANGED <<kernel, service, scaledDown, originalProcess, checkpoint,
                   locks, exitCur, halted>>

\* StartZeropod returned an error (spec, netns, config, NewServer or
\* srv.Start): scaleDown logs and returns it.
StartZeropodFails(a) ==
    /\ Up
    /\ pc[a] = "start_zeropod"
    /\ "activator" \in Faults
    /\ Return(a)
    /\ UNCHANGED <<kernel, service, wrapper, locks, exitCur, halted>>

----------------------------------------------------------------------------
(* The callbacks StartZeropod gives the activator                          *)

\* A client connects: the activator calls onAccept.
ConnArrives(c) ==
    /\ Up
    /\ c \in listening
    /\ pc[Acceptor(c)] = "idle"
    /\ Goto(Acceptor(c), "accept_lock", c, 0)
    /\ UNCHANGED <<kernel, service, wrapper, locks, exitCur, halted>>

\* onAccept takes the send lock, "so that the start events are sent before
\* any exit events".
AcceptLock(c) ==
    /\ Up
    /\ pc[Acceptor(c)] = "accept_lock"
    /\ eventSendMu = Nobody
    /\ eventSendMu' = Acceptor(c)
    /\ pc' = [pc EXCEPT ![Acceptor(c)] = "restoring"]
    /\ UNCHANGED <<kernel, service, wrapper, mu, arg, exitCur, halted>>

\* Restore that does not make the restored process the container's main
\* process.
RestoreKeepsMain(c) ==
    /\ Up
    /\ pc[Acceptor(c)] = "restoring"
    /\ checkpoint[c] = "valid"
    /\ Spawn(c)
    /\ taskStart' = [taskStart EXCEPT ![NextPid] = @ + 1]
    /\ Goto(Acceptor(c), "restored", c, NextPid)
    /\ UNCHANGED <<dumped, ec, main, exited, taskExit, wrapper, locks,
                   exitCur, halted>>

\* wrapper.restore: a process is created from the checkpoint and started,
\* it becomes the main process of the container, TaskStart is published.
Restore(c) ==
    /\ Up
    /\ pc[Acceptor(c)] = "restoring"
    /\ checkpoint[c] = "valid"
    /\ Spawn(c)
    /\ main' = [main EXCEPT ![c] = NextPid]
    /\ taskStart' = [taskStart EXCEPT ![NextPid] = @ + 1]
    /\ Goto(Acceptor(c), "restored", c, NextPid)
    /\ UNCHANGED <<dumped, ec, exited, taskExit, wrapper, locks, exitCur,
                   halted>>

\* restore returned an error (Create or Start failed, as they must without
\* a complete checkpoint or a free pid): onAccept exits the shim.
RestoreFails(c) ==
    /\ Up
    /\ pc[Acceptor(c)] = "restoring"
    /\ \/ "restore" \in Faults
       \/ checkpoint[c] # "valid"
       \/ Len(owner) = MaxPid
    /\ halted' = "exit"
    /\ UNCHANGED <<kernel, service, wrapper, locks, threads, exitCur>>

\* onAccept after restore: the flag is cleared.
AcceptRestored(c) ==
    /\ Up
    /\ pc[Acceptor(c)] = "restored"
    /\ scaledDown' = FALSE
    /\ pc' = [pc EXCEPT ![Acceptor(c)] = "accept_send"]
    /\ UNCHANGED <<kernel, service, originalProcess, checkpoint, listening,
                   locks, arg, exitCur, halted>>

\* AcceptReturn that forgets the send lock.
AcceptReturnKeepsLock(c) ==
    LET a == Acceptor(c)
    IN  /\ Up
        /\ pc[a] = "accept_send"
        /\ taskStart' = [taskStart EXCEPT ![arg[a].p] = @ + 1]
        /\ listening' = listening \ {c}
        /\ pc' = [pc EXCEPT ![a] = "idle", ![Idler(c)] = "idle_sleep"]
        /\ arg' = [arg EXCEPT ![a] = NoArg, ![Idler(c)] = arg[a]]
        /\ UNCHANGED <<kernel, main, exited, taskExit, scaledDown,
                       originalProcess, checkpoint, locks, exitCur, halted>>

\* onAccept, last part: TaskStart is published (again), the send lock
\* released, and the restored process returned to the activator, which
\* hands the port over to it and starts onIdle.
AcceptReturn(c) ==
    LET a == Acceptor(c)
    IN  /\ Up
        /\ pc[a] = "accept_send"
        /\ taskStart' = [taskStart EXCEPT ![arg[a].p] = @ + 1]
        /\ eventSendMu' = Nobody
        /\ listening' = listening \ {c}
        /\ pc' = [pc EXCEPT ![a] = "idle", ![Idler(c)] = "idle_sleep"]
        /\ arg' = [arg EXCEPT ![a] = NoArg, ![Idler(c)] = arg[a]]
        /\ UNCHANGED <<kernel, main, exited, taskExit, scaledDown,
                       originalProcess, checkpoint, mu, exitCur, halted>>

\* onIdle: the scale-down duration has passed; scaleDown is called for the
\* process onAccept returned.
IdleElapsed(c) ==
    /\ Up
    /\ pc[Idler(c)] = "idle_sleep"
    /\ pc' = [pc EXCEPT ![Idler(c)] = "scaledown"]
    /\ UNCHANGED <<kernel, service, wrapper, locks, arg, exitCur, halted>>

----------------------------------------------------------------------------
(* wrapper.Kill                                                            *)

\* The delegate's Kill: the signal ends the init of c when it runs.
Signalled(c) ==
    /\ live' = live \ {main[c]}
    /\ ec' = IF main[c] \in live THEN Append(ec, main[c]) ELSE ec
    /\ UNCHANGED <<owner, dumped>>

\* Kill that goes on to mark the processes exited whether or not the flag
\* is set.
KillCallUnguarded(t, c) ==
    /\ Up
    /\ pc[t] = "idle"
    /\ main[c] # 0
    /\ Goto(t, "kill_marking", c, 0)
    /\ UNCHANGED <<kernel, service, wrapper, locks, exitCur, halted>>

\* Kill of the init of c, up to the test of the flag, which is read without
\* a lock.  With the flag clear the call is the delegate's.
KillCall(t, c) ==
    /\ Up
    /\ pc[t] = "idle"
    /\ main[c] # 0
    /\ IF scaledDown
         THEN /\ Goto(t, "kill_marking", c, 0)
              /\ UNCHANGED <<kernel, service>>
         ELSE /\ Signalled(c)
              /\ UNCHANGED <<service, threads>>
    /\ UNCHANGED <<wrapper, locks, exitCur, halted>>

\* Kill after it has seen the flag set: the container is looked up under
\* s.mu, its process as it is by now and the original process are marked
\* exited, and the delegate sends the signal.
KillMark(t) ==
    LET c == arg[t].c
    IN  /\ Up
        /\ pc[t] = "kill_marking"
        /\ mu = Nobody
        /\ exited' = exited \cup {originalProcess, main[c]}
        /\ Signalled(c)
        /\ Return(t)
        /\ UNCHANGED <<main, taskStart, taskExit, wrapper, locks, exitCur,
                       halted>>

----------------------------------------------------------------------------
(* The kernel, and wrapper.processExits / checkProcesses                   *)

ProcessDies(p) ==
    /\ Up
    /\ p \in live
    /\ live' = live \ {p}
    /\ ec' = Append(ec, p)
    /\ UNCHANGED <<owner, dumped, service, wrapper, locks, threads, exitCur,
                   halted>>

\* The containers that have the pid (container.HasPid and the loop over
\* container.All).
Having(e) == {c \in Containers : main[c] = e}

\* checkProcesses for an exit no container has, or while the flag is set:
\* nothing is done.
ExitIgnored ==
    /\ Up
    /\ exitCur = 0
    /\ ec # <<>>
    /\ mu = Nobody
    /\ Having(Head(ec)) = {} \/ scaledDown
    /\ ec' = Tail(ec)
    /\ UNCHANGED <<owner, live, dumped, service, wrapper, locks, threads,
                   exitCur, halted>>

\* checkProcesses compares the process with the original process, which
\* is nil until a container that is no sandbox has been started.
ExitPanics ==
    /\ Up
    /\ exitCur = 0
    /\ ec # <<>>
    /\ mu = Nobody
    /\ Having(Head(ec)) # {} /\ ~scaledDown
    /\ originalProcess = 0
    /\ halted' = "panic"
    /\ UNCHANGED <<kernel, service, wrapper, locks, threads, exitCur>>

\* checkProcesses marks the process exited, and the original process as
\* well when the exit is that of the init of its container; it goes on to
\* publish TaskExit, holding s.mu.
ExitMarked ==
    LET e == Head(ec)
    IN  /\ Up
        /\ exitCur = 0
        /\ ec # <<>>
        /\ mu = Nobody
        /\ Having(e) # {} /\ ~scaledDown
        /\ originalProcess # 0
        /\ ec' = Tail(ec)
        /\ exited' = exited \cup {e} \cup
               (IF owner[e] = owner[originalProcess]
                THEN {originalProcess} ELSE {})
        /\ mu' = Reaper
        /\ exitCur' = e
        /\ UNCHANGED <<owner, live, dumped, main, taskStart, taskExit,
                       wrapper, eventSendMu, threads, halted>>

\* sendL: TaskExit is published under the send lock; checkProcesses
\* returns and releases s.mu.
ExitPublished ==
    /\ Up
    /\ exitCur # 0
    /\ eventSendMu = Nobody
    /\ taskExit' = [taskExit EXCEPT ![exitCur] = 1]
    /\ mu' = Nobody
    /\ exitCur' = 0
    /\ UNCHANGED <<kernel, main, exited, taskStart, wrapper, eventSendMu,
                   threads, halted>>

----------------------------------------------------------------------------
\* NewZeropodService: no container started, the flag unset, no original
\* process.
LInit ==
    /\ owner = <<>>
    /\ live = {}
    /\ dumped = {}
    /\ ec = <<>>
    /\ main = [c \in Containers |-> 0]
    /\ exited = {}
    /\ taskStart = [p \in Pids |-> 0]
    /\ taskExit = [p \in Pids |-> 0]
    /\ scaledDown = FALSE
    /\ originalProcess = 0
    /\ checkpoint = [c \in Containers |-> "none"]
    /\ listening = {}
    /\ mu = Nobody
    /\ eventSendMu = Nobody
    /\ pc = [a \in Actors |-> "idle"]
    /\ arg = [a \in Actors |-> NoArg]
    /\ exitCur = 0
    /\ halted = "no"

ScaleDownStep(a) ==
    \/ ScaleDownPrepareFails(a)
    \/ ScaleDownMark(a)
    \/ ScaleDownCheckpoint(a)
    \/ ScaleDownCheckpointFails(a)
    \/ StartZeropod(a)
    \/ StartZeropodFails(a)

AcceptStep(c) ==
    \/ ConnArrives(c)
    \/ AcceptLock(c)
    \/ Restore(c)
    \/ RestoreFails(c)
    \/ AcceptRestored(c)
    \/ AcceptReturn(c)
    \/ IdleElapsed(c)

LNext ==
    \/ \E t \in Calls, c \in Containers : StartCall(t, c) \/ KillCall(t, c)
    \/ \E t \in Calls : KillMark(t)
    \/ \E t \in Calls : StartLookup(t)
    \/ \E a \in Checkpointers : ScaleDownStep(a)
    \/ \E c \in Containers : AcceptStep(c)
    \/ \E p \in Pids : ProcessDies(p)
    \/ ExitIgnored
    \/ ExitPanics
    \/ ExitMarked
    \/ ExitPublished

\* A shim that exited or panicked takes no more steps.
LSpec == LInit /\ [][LNext]_lvars

\* Goroutines that can run do run; the send lock goes to a waiter that
\* has starved.  Nothing obliges a client to connect, a process to die,
\* the host to call or the idle time to pass.
LFairness ==
    /\ \A c \in Containers :
           /\ SF_lvars(AcceptLock(c))
           /\ WF_lvars(Restore(c) \/ RestoreFails(c))
           /\ WF_lvars(AcceptRestored(c))
           /\ WF_lvars(AcceptReturn(c))
    /\ SF_lvars(ExitPublished)

LFairSpec == LSpec /\ LFairness

----------------------------------------------------------------------------
(* Properties that hold.                                                   *)

\* While the activator of a container listens and has not begun to
\* restore, the container is marked scaled down, its process is gone and
\* there is a complete checkpoint: scaleDown sets the flag before the
\* checkpoint, takes it back when the checkpoint fails, and starts the
\* activator only after a checkpoint that worked.  In a pod of a sandbox and
\* one container.
ListeningIsScaledDown ==
    \A c \in listening :
        pc[Acceptor(c)] \in {"idle", "accept_lock"} =>
            /\ scaledDown
            /\ checkpoint[c] = "valid"
            /\ main[c] \notin live

\* No TaskExit is published for a process that a checkpoint ended:
\* checkProcesses drops its exit while the flag is set, and once restore
\* has replaced the main process of the container the old pid belongs to
\* no container.
CheckpointedNeverExited == \A p \in dumped : taskExit[p] = 0

\* An exit that checkProcesses has decided to publish is published:
\* checkProcesses waits for the send lock while it holds s.mu, and onAccept
\* holds the send lock across restore, which must therefore never need
\* s.mu and must give the send lock back.
ExitGetsPublished == (exitCur # 0) ~> (exitCur = 0 \/ ~Up)

----------------------------------------------------------------------------
(* The legacy wrapper as an implementation of Lifecycle.                   *)

\* The processes container c has had.
ProcessesOf(c) == {p \in DOMAIN owner : owner[p] = c}

\* The state of the specification's state machine, as this wrapper holds
\* it: in its one flag and in where scaleDown and onAccept are.
LegacyState(c) ==
    IF main[c] = 0 THEN "Absent"
    ELSE IF halted = "exit" /\ pc[Acceptor(c)] = "restoring"
        THEN "Terminated"
    ELSE IF \E a \in Checkpointers :
                arg[a].c = c /\ pc[a] \in {"checkpointing", "start_zeropod"}
        THEN "ScalingDown"
    ELSE IF pc[Acceptor(c)] \in {"restoring", "restored", "accept_send"}
        THEN "Restoring"
    ELSE IF scaledDown THEN "ScaledDown"
    ELSE "Running"

LLC(c) == INSTANCE Lifecycle WITH
    state   <- LegacyState(c),
    alive   <- main[c] # 0 /\ ProcessesOf(c) \cap live # {},
    bound   <- c \in listening,
    started <- IF main[c] = 0 THEN 0 ELSE Cardinality(ProcessesOf(c)),
    frozen  <- Cardinality(ProcessesOf(c) \cap dumped)

\* Every container that is no sandbox lives the life Lifecycle describes:
\* each step of the wrapper is a step of the container's state machine or
\* leaves its lifecycle alone, whatever RPCs, checkpoints, restores and
\* exits interleave.  The one step that is neither is the error return of
\* scaleDown after StartZeropod failed, which leaves the scale-down
\* neither completed nor undone: the process checkpointed, the flag set
\* and no activator listening.
LegacyImplementsLifecycle ==
    /\ \A c \in Containers \ Sandboxes : LLC(c)!LifecycleInit
    /\ [][\/ \E a \in Checkpointers : StartZeropodFails(a)
           \/ \A c \in Containers \ Sandboxes :
                  LLC(c)!LifecycleNext \/ UNCHANGED LLC(c)!lifecycle]_lvars

=============================================================================
