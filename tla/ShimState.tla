----------------------------- MODULE ShimState -----------------------------
(***************************************************************************)
(* The state of one zeropod shim process: the wrapper built by             *)
(* NewZeropodService, the delegate task service embedded in it, the        *)
(* zeropod containers it owns, and the part of the kernel the shim talks   *)
(* to (processes and the reaper's exit channel).                           *)
(*                                                                         *)
(* A process object is identified with its place in the order in which     *)
(* processes were started, a runc.Container object with its init process.  *)
(* The pid a process runs under is a field of its record: the kernel may   *)
(* give a new process the pid of one that is gone, and the exit loop knows *)
(* a process only by its pid.                                              *)
(***************************************************************************)
EXTENDS Naturals, Sequences, FiniteSets, SequencesExt

CONSTANTS
    Containers,             \* ids of the containers created in this shim
    Annotations,            \* Annotations[c]: the annotation sets the spec
                            \* in the bundle of c may hold
    ExecIds,                \* exec ids the orchestrator uses
    Calls,                  \* threads serving task RPCs
    May,                    \* May[t]: the RPCs the host sends on thread t
    Conns,                  \* client connections to the service ports
    Faults,                 \* the runtime failures this model injects
    MaxProcs,               \* bound on the number of processes ever started
    RecyclePids,            \* whether the kernel reuses the pids of the dead
    NoExec,                 \* the empty exec id: the request is about init
    Nobody                  \* holder of a free mutex

\* The config loader, which decodes them.
Cfg == INSTANCE Config

Rpcs == {"Start", "Exec", "Delete", "Kill"}

\* Failures of the runtime that need no cause inside the shim: the creation
\* of the zeropod container (GetSpec, zeropod.New), the scheduling of a
\* scale-down, a checkpoint of a healthy process, the activator's start, a
\* restore from a good checkpoint, the removal of the redirects.
FaultKinds == {"create", "schedule", "checkpoint", "activator", "restore",
               "redirects"}

\* Whether a call that fault f makes fail does fail.
Fails(f) == IF f \in Faults THEN BOOLEAN ELSE {FALSE}

ASSUME ConstantsOK ==
    /\ DOMAIN Annotations = Containers
    /\ \A c \in Containers :
           /\ Annotations[c] # {}
           /\ \A a \in Annotations[c] : Cfg!AnnotationConfig(a)
    /\ May \in [Calls -> SUBSET Rpcs]
    /\ Faults \subseteq FaultKinds
    /\ MaxProcs \in Nat \ {0}
    /\ RecyclePids \in BOOLEAN
    /\ NoExec \notin ExecIds
    /\ Nobody \notin Calls

VARIABLES
    \* kernel and runtime
    procs,              \* procs[p]: the p-th process that was started
    live,               \* the processes that exist
    dumped,             \* processes that a checkpoint of their container ended
    ec,                 \* the reaper's exit channel (w.ec): an exit event
                        \* is named by the process that ended, and carries
                        \* its pid only
    \* delegate task service
    containers,         \* s.containers: id -> init of the container object
    execs,              \* exec processes of the container object, by id
    running,            \* s.running: the processes monitored, under their pids
    pendingExecs,       \* s.pendingExecs, by container object
    exitSubscribers,    \* s.exitSubscribers: who preStart has subscribed
    exits,              \* exits[a]: the exits the closure of a was told of
    exited,             \* process objects on which SetExited was called
    taskExits,          \* taskExits[p]: TaskExit events published for p
    \* wrapper
    zeropodContainers,  \* w.zeropodContainers: id -> zeropod.Container
    crLock,             \* holder of w.checkpointRestore
    shimExited,         \* os.Exit was called, or the shim was shut down
    \* threads of control
    pc,                 \* pc[a]: where actor a is in its handler
    req,                \* req[t]: the request call t is serving
    newProc,            \* newProc[a]: the process a has just started
    exitCur,            \* the exit processExits is working on (0: none)
    exitCps,            \* its cps slice
    deferred,           \* history: the inits whose exit processExits has
                        \* left to the exec starts in progress
    \* clients
    conn,               \* conn[k]: what became of connection k
    waiting             \* waiting[c]: connections held by c's activator

kernelVars   == <<procs, live, dumped, ec>>
delegateVars == <<containers, execs, running, pendingExecs,
                  exitSubscribers, exits, exited, taskExits>>
wrapperVars  == <<zeropodContainers, crLock, shimExited>>
threadVars   == <<pc, req, newProc>>
reaperVars   == <<exitCur, exitCps, deferred>>
clientVars   == <<conn, waiting>>

vars == <<kernelVars, delegateVars, wrapperVars, threadVars, reaperVars,
          clientVars>>

----------------------------------------------------------------------------
(* Actors: RPC threads, and per container the activator's accept loop and  *)
(* the idle timer's goroutine.                                             *)

Acceptor(c) == <<"accept", c>>
Timer(c)    == <<"timer", c>>

Acceptors == {Acceptor(c) : c \in Containers}
Timers    == {Timer(c) : c \in Containers}
Restorers == Calls \cup Acceptors
Actors    == Restorers \cup Timers

ProcIds == 1..MaxProcs

\* Only whether two pids are equal matters, so the p-th process started
\* runs under pid p unless it is given the pid of an earlier one.
Process == [c : Containers, exec : ExecIds \cup {NoExec}, obj : ProcIds,
            pid : ProcIds]

\* zeropod.Container.  process stands for both c.Container and c.process,
\* which Restore assigns together; of the decoded annotations (c.cfg) the
\* record keeps the one switch the restore depends on.
ZeropodContainer ==
    [scaledDown     : BOOLEAN,
     disableCheckpointing : BOOLEAN,
     process        : ProcIds,
     initialProcess : ProcIds,
     timer          : {"idle", "armed"},
     activator      : {"off", "listening", "draining"},
     checkpoint     : {"none", "valid", "partial"}]

\* A task RPC being served; obj is the container object getContainer found
\* when the call began (0: its init was never started).
Request == [rpc : Rpcs,
            c : Containers, exec : ExecIds \cup {NoExec}, obj : ProcIds \cup {0}]

Labels == {"idle",
           "start_spawn", "start_started", "start_register",
           "exec_delegate", "kill_wait", "kill_locked",
           "restore_wait", "restore_locked", "restore_started", "restore_ok",
           "restore_failed",
           "scaledown_wait", "scaledown_dump"}

ConnStates == {"new", "waiting", "served", "refused"}

TypeOK ==
    /\ procs \in Seq(Process) /\ Len(procs) <= MaxProcs
    /\ live \subseteq DOMAIN procs
    /\ dumped \subseteq DOMAIN procs
    /\ ec \in Seq(ProcIds)
    /\ DOMAIN containers \subseteq Containers
    /\ \A c \in DOMAIN containers : containers[c] \in ProcIds \cup {0}
    /\ execs \in [Containers -> UNION {[E -> ProcIds \cup {0}] : E \in SUBSET ExecIds}]
    /\ running \subseteq ProcIds
    /\ pendingExecs \in [ProcIds -> 0..Cardinality(Calls)]
    /\ exitSubscribers \subseteq Restorers
    /\ exits \in [Restorers -> SUBSET ProcIds]
    /\ exited \subseteq ProcIds
    /\ taskExits \in [ProcIds -> Nat]
    /\ DOMAIN zeropodContainers \subseteq Containers
    /\ \A c \in DOMAIN zeropodContainers :
           zeropodContainers[c] \in ZeropodContainer
    /\ crLock \in Actors \cup {Nobody}
    /\ shimExited \in BOOLEAN
    /\ pc \in [Actors -> Labels]
    /\ req \in [Calls -> Request]
    /\ newProc \in [Actors -> ProcIds \cup {0}]
    /\ exitCur \in ProcIds \cup {0}
    /\ exitCps \in Seq(ProcIds)
    /\ deferred \subseteq ProcIds
    /\ conn \in [Conns -> ConnStates]
    /\ waiting \in [Containers -> SUBSET Conns]

----------------------------------------------------------------------------
(* Helpers over the state.                                                 *)

IsInit(p)      == procs[p].exec = NoExec
PidOf(p)       == procs[p].pid
NextProc       == Len(procs) + 1
Managed(c)     == c \in DOMAIN zeropodContainers
ScaledDown(c)  == zeropodContainers[c].scaledDown
InitObj(c)     == containers[c]

\* The processes of the container object whose init is p, init included.
Tree(p) == {q \in DOMAIN procs : procs[q].obj = p}

\* The pids the kernel may give the next process: one never used, or (the
\* pids of the host having wrapped around) one of a process that is gone
\* and reaped.  A process that ends is reaped in the same step.
FreePids ==
    {NextProc} \cup
        IF RecyclePids
        THEN {PidOf(p) : p \in DOMAIN procs} \ {PidOf(p) : p \in live}
        ELSE {}

\* A started process: its record, and it is alive.
Spawn(c, e, obj) ==
    /\ Len(procs) < MaxProcs
    /\ \E pid \in FreePids :
           procs' = Append(procs, [c |-> c, exec |-> e, obj |-> obj,
                                   pid |-> pid])
    /\ live' = live \cup {NextProc}

\* RunningAt with s.running read by container and not by pid.
RunningAtContainer(e) == {p \in running : procs[p].obj = procs[e].obj}

\* w.running[pid of e]: the processes being monitored under the pid that
\* exit event e carries.
RunningAt(e) == {p \in running : PidOf(p) = PidOf(e)}

\* exits[pid of p] in an exits map es of preStart: the exit events told
\* to the subscriber that carry the pid of process p.
ExitsOf(p, es) == {e \in es : PidOf(e) = PidOf(p)}

\* What req[t] holds while call t serves no request.
NoRequest == [rpc |-> "Start", c |-> CHOOSE c \in Containers : TRUE,
              exec |-> NoExec, obj |-> 0]

\* The container an actor restores: the one its request names, or the one
\* whose activator it is.
ContainerOf(a) == IF a \in Calls THEN req[a].c ELSE a[2]

=============================================================================
