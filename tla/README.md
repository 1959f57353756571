# zeropod: TLA+ model of the scale-down / activation state machine

zeropod is a containerd shim that checkpoints an idle container, listens on
its ports while it is gone, and restores it on the first connection or exec.
This directory holds TLA+ modules translated from the repository's source,
the TLC configurations that check them, and `PROJECT.json`, which maps every
definition to the lines it models and lists runs, mutants, findings and
hazards.

## 1. The system

| Part | Source | State | Operations |
|---|---|---|---|
| Lifecycle wrapper | `src/unnamed/part_000` 36-248, 326-345 | `zeropodContainers`, mutexes `mut` and `checkpointRestore` | `Start`, `Exec`, `Delete`, `Kill`, `preRestore`, `postRestore` |
| Exit reconciler | `src/unnamed/part_000` 250-322 | `running`, `pendingExecs`, `exitSubscribers` (the delegate's, under `lifecycleMu`), the exit channel `ec` | `processExits`, `preventExit` |
| Checkpoint/restore engine | `src/zeropod/restore.go` 21-93 (restore); checkpoint not in `src/` | the container's runc container and process, the checkpoint on disk | `Restore`, `scaleDown` |
| Idle scheduler | not in `src/` (spec 4.4) | one timer per container | `ScheduleScaleDown`, `CancelScaleDown`, the timer callback |
| Network activator | server not in `src/` (spec 4.3); its test `src/zeropod/restore.go` 189-291 | listeners and redirects, connections held; in the test a `WaitGroup` and the client goroutines | `Start`, accept with `onAccept`, `DisableRedirects`, `Stop`; `TestActivator`, `getFreePorts` |
| Config loader | `src/zeropod/config.go` | none (pure) | `NewConfig`, `IsZeropodContainer` |
| Delegate task service | not in `src/` (spec 4.1, 4.5, 5) | `containers`, process objects, published events | `Start` with `preStart`/`handleStarted`, `Exec`, `Delete`, `Kill`, `handleProcessExit` |
| Legacy wrappers | `src/unnamed/part_001` | one `scaledDown` flag, `originalProcess` | `Start`, `StartZeropod`, `Kill`, `scaleDown`, `restore`, `checkProcesses` |
| Log re-piping | `src/zeropod/restore.go` 95-168 | none: the body of `restoreLoggers` is commented out | `restoreLoggers`, `createContainerLoggers` |

How they interact. The host sends task RPCs on several threads. `Start`
delegates, decodes the annotations, and for a selected container creates a
`zeropod.Container`, registers the two restore hooks and arms the idle timer.
When the timer fires, `scaleDown` takes the checkpoint/restore mutex, sets
the scaled-down flag, checkpoints (which ends the processes) and starts the
activator. The first connection (the activator's accept handler) or an `Exec`
calls `Restore`, which takes the same mutex, starts a new process from the
checkpoint, replaces the container object in the delegate through
`postRestore`, and removes the redirects; the caller clears the flag after
`Restore` has returned. `Kill` takes the mutex too, so that it never sees a
checkpoint or restore half done. In the background `processExits` reads
kernel exits from the reaper's channel, drops those of scaled-down
containers (`preventExit`) and hands the rest to the delegate, which
publishes `TaskExit`.

What makes it hard: four kinds of threads (RPC calls, the timer goroutine,
the accept handler, the exit loop) share a flag that is read and written
outside the mutex; exits are queued and processed late; every step that
calls the runtime can fail; a failed restore ends the shim.

What each part must guarantee:

* wrapper and engine: the mutex is held exactly inside `Restore`,
  `scaleDown` and `Kill`, on every return path; a container marked scaled
  down can be restored; after a restore the delegate tracks the restored
  container object; a scale-down is answered by one restore;
* exit reconciler: one `TaskExit` per real exit, none for a process a
  checkpoint ended, none dropped that was real; `pendingExecs` counts the exec
  starts in flight;
* activator: every connection held is served or refused; in its test no
  request fails, on whichever port and at whatever moment it is sent;
* the engine as a whole: a container moves along the edges of the state
  machine of the specification only (Running, ScalingDown, ScaledDown,
  Restoring), a completed scale-down has frozen the process and bound the
  activator, a restore starts one process for the one that was frozen;
* `Kill`: always returns;
* config loader: the ports of a container are the ports its annotation
  spells, and nothing else decodes.

## 2. Modules

The shim is one specification split over modules that extend each other,
each adding one component's operations to the shared state:

| Module | Models | From |
|---|---|---|
| `ShimState` | constants, variables, the type invariant, helpers | `NewZeropodService`, the `wrapper` struct |
| `Delegate` | the delegate's `Start` (`ServiceStart`, `StartSpawn`, `StartFails`, `StartStarted` with the `HandleStarted` closure), `Exec`, `Delete`, `HandleProcessExit` | spec |
| `Hooks` | `PreRestore`, `PostRestore` | `part_000` 326-345 |
| `Container` | timer, scale-down, `Stop`, `Restore`, accept path | `restore.go` 21-93; spec for the rest |
| `Wrapper` | `Start`, `Exec`, `Delete`, `Kill`, `processExits`, `preventExit` | `part_000` 100-322 |
| `Shim` | `Init`, the kernel (`ProcessDies`), `Shutdown`, `Next`, fairness, the properties | `part_000` 50-66, 153-157 |
| `MCShim` | model values and the constant definitions the configurations choose from | |
| `Lifecycle` | the abstract specification of one container: the state machine and what its edges do to the process and the activator | spec 3, 4.2, 7 |
| `Activator` | `TestActivator` and `getFreePorts`, with the server the test drives | `restore.go` 189-291; spec 4.3 for the server |
| `MCActivator` | model values for `Activator` | |
| `Config` | `NewConfig`, `IsZeropodContainer` and the classification `wrapper.Start` makes of the result, as operators; instantiated by `ShimState` as `Cfg` | `config.go`; `part_000` 118-134 |
| `Decoder` | a small driver that presents annotation sets to `NewConfig`, and the reference reading of the ports map | |
| `MCConfig` | the annotation sets presented to `NewConfig` | |
| `Legacy` | the first-generation wrapper: `Start` with its inline `scaleDown`, `StartZeropod` with `onAccept` and `onIdle`, `restore`, `Kill`, `checkProcesses`; its own state, specification and properties | `part_001` 182-566 |
| `MCLegacy` | model values and fault sets for `Legacy` | |

### Correspondence of state

* A process object is its place `p` in the order in which processes were
  started; a `runc.Container` object is its init process. `procs[p]` records
  container, exec id, container object and pid of process `p`; `live` are
  the processes that exist; `dumped` those a checkpoint ended (a history
  variable for the properties).
* The pid is what the exit loop knows a process by: `RunningAt(e)` is
  `w.running[e.Pid]`, `ExitsOf(p, es)` the entry of `p`'s pid in an exits
  map of `preStart`. An exit event in `ec` is named by the process that
  ended, and only its pid is read. The kernel gives a new process a pid
  never used or, with `RecyclePids`, the pid of any process that is gone
  (other processes of the host take pids in between, so every free pid is
  possible); only whether two pids are equal matters, so a fresh pid is the
  number of the process.
* `containers`, `execs`, `running`, `pendingExecs`, `exitSubscribers` are the
  delegate's maps. `pendingExecs` is keyed by container object, as in the
  code (`map[*runc.Container]int`). `exits[a]` is the map `preStart` made for
  actor `a`; `exited` the process objects on which `SetExited` was called;
  `taskExits[p]` counts the `TaskExit` events published for `p`.
* `zeropodContainers[c]` is the `zeropod.Container` of `c`: `scaledDown`,
  `process` (set by `Restore`), `initialProcess`, `timer`, `activator`,
  `checkpoint`, and of the decoded annotations `disableCheckpointing`.
  `Annotations[c]` are the annotation sets the spec of `c` may hold;
  `StartRegister` decodes one of them with `Cfg!NewConfig` and classifies
  the result with `Cfg!Classify`, as `wrapper.Start` does.
* `crLock` is the holder of `w.checkpointRestore`. `w.mut` and `s.mu` guard
  single map accesses and are atomic steps. `s.lifecycleMu` is the step
  `ExitsDispatch` and the closure `HandleStarted`.
* `pc[a]` is where actor `a` is. Actors are the RPC threads (`Calls`), the
  accept handler `<<"accept", c>>` and the timer goroutine `<<"timer", c>>`
  of each container. `exitCur`/`exitCps` are the locals `e` and `cps` of
  `processExits` between its unlocked and its locked part; `deferred` is a
  history variable: the inits that `processExits` skipped and did not
  handle (lines 282-287).
* `conn[k]` and `waiting[c]` are the clients' connections.

### Correspondence of actions

A handler is one action unless it blocks or calls the runtime; there it is
split, because other threads run in between:

* `Start`: `StartCall` (delegate's `preStart`), `StartSpawn` or `StartFails`
  (`container.Start`), `StartStarted` (`handleStarted`), `StartRegister`
  (lines 108-164: lookup, decode, classification, registration, timer).
  Its error returns all leave the state of an ignored container, except
  the last: a container that is gone (line 108), annotations that do not
  decode (118) and, as fault `create`, a spec that cannot be read (113) or
  a `zeropod.New` that fails (138) register nothing; a `ScheduleScaleDown`
  that fails (159, fault `schedule`) returns the error with the container
  registered and no timer armed.
  A start that fails runs the closure too: a failed exec start gives its
  count back and, as the last one pending, publishes the exit of an init
  that was deferred to it (`DeferredInit`).
* `Exec`: `ExecCall` (lookup, `CancelScaleDown`, the unlocked read of the
  flag), then for a scaled-down container the actions of `Restore`,
  `ExecRestored` or `ExecRestoreFailed`, and last `ExecDelegate`.
  `CancelScaleDown` and the read of the flag are one step: the timer that
  was cancelled cannot fire in between, and a scale-down already begun is
  the interleaving of `ExecCall` with `ScaleDownBegin`.
* `Delete`: one step. For an exec of a managed container it schedules the
  scale-down and then delegates; with fault `schedule` it returns before
  the delegate is asked (line 209) and changes nothing.
* `Kill`: `KillCall`, `KillLock`, `Kill`. The signal ends no process in
  the step itself: whether and when the process dies is the kernel's
  `ProcessDies`, which can take any live process at any time.
* `Restore`: `RestoreLock` (line 22, with the unlock deferred),
  `RestoreBegin` (new container, `preRestore`, `p.Start`), `RestoreFinish`
  (assignments, `postRestore`, `DisableRedirects`, unlock), and the error
  returns `RestoreFails` (lines 52, 65, 76) and `RestoreRedirectFails`
  (line 89), all four taken with the mutex held and releasing it. The two
  ways out after `p.Start` share the operator `Restored`, which has the
  assignments and `postRestore`.
* scale-down: `TimerFires`, `ScaleDownBegin` (lock, flag), and its three
  ends `ScaleDownDump`, `ScaleDownFails`, `ActivatorFails`, which share
  `ScaleDownReturns` (unlock, the goroutine ends). The checkpoint half of
  the engine is not in `src/`. The specification (4.2) gives the steps and
  not where the flag is set; the model sets it with the lock, before the
  dump, as the first generation does (`part_001` 377) and as `preventExit`
  needs it to drop the exit that the dump causes. `ScaledDownRestorable`
  and the trace of `dropped_exit` depend on this order.
* accept: `ConnArrives`, then the restore actions, `AcceptorRestored` or
  `AcceptorRestoreFailed`.
* exit loop: `ExitsPeek`, `ExitsDispatch`. `ExitsDispatch` is the part
  under `lifecycleMu` together with the calls of `handleProcessExit` that
  follow the unlock (lines 297-301). Taking them as one step is an
  abstraction: the calls work on the local `cps`, and the model does not
  let another thread run between the unlock and the calls.

Failures of the runtime are chosen by the constant `Faults`; failures that
have a cause inside the model (a checkpoint of a dead process, a restore
with no usable checkpoint, no pid left) happen whenever the cause is there.

### Lifecycle and the refinement mappings

`Lifecycle` has five variables for one container: `state`, `alive` (a live
init process), `bound` (the activator answers the ports), and two counters,
`started` (init processes the container has had) and `frozen` (those a
checkpoint ended). `Frozen` is `frozen = started`: the last process started
was checkpointed. Its actions are the edges of the state machine: `Begin`,
`BeginScaleDown`, `Freeze`, `FinishScaleDown` (requires a frozen process,
binds the activator), `AbortScaleDown` (only while nothing is frozen),
`BeginRestore`, `Restore` (`Thaw`: one process for the one frozen),
`Unbind`, `FinishRestore` (only with a thawed process, redirects gone),
`FailRestore`, and `Die`, which may happen in any state. It knows nothing of
mutexes, flags, threads or exit events.

`Shim` maps its state to these variables in `LC(c)`:

| `Lifecycle` | `Shim` |
|---|---|
| `state` | `LifecycleState(c)`: Absent until `c` is managed; ScalingDown while the timer goroutine is between `ScaleDownBegin` and the end of `scaleDown`; Restoring while a restorer of `c` is between `RestoreLock` and its caller's last step; Terminated when that restore failed and ended the shim; otherwise ScaledDown or Running by the flag |
| `alive` | an init process of `c` is in `live` |
| `bound` | `zeropodContainers[c].activator = "listening"` |
| `started`, `frozen` | the number of init processes of `c` in `procs`, and of those in `dumped` |

`ImplementsLifecycle` states the refinement: the initial state satisfies
`LifecycleInit` and every step of the shim is, for every container, a step
of `LifecycleNext` or leaves the mapped variables unchanged. (TLC does not
accept the instantiated `LifecycleSpec` of a parameterised instance as a
property, so the two conjuncts are written out.) `Legacy` has the same
mapping over its own state (`LLC(c)`, `LegacyState(c)`).

The refinement holds in the environment of run `lifecycle` and is known
not to hold outside it; each of these is a hazard or a finding in
`PROJECT.json`:

* with `Exec` among the RPCs a container is restored twice (finding
  `double_restore`): a second `Thaw` without a `Freeze`;
* with `Kill`, a kill of a scaled-down container stops the activator while
  an accept handler already waits for the mutex, and the handler restores
  the killed container (hazard at `part_000` 231);
* with `Delete` or `Shutdown` the shim ends in the middle of a scale-down;
* with the fault of the activator's start, `ActivatorFails` (modelled from
  the specification: "scale-down is undone") leaves a container Running
  whose process the checkpoint has ended. In `Legacy` the same failure is
  code (`part_001` 412-415): `scaleDown` returns the error with the flag
  set, the process checkpointed and nothing listening.
  `LegacyImplementsLifecycle` names that one step, `StartZeropodFails`, as
  the exception and holds of all others with every fault injected; without
  the exception TLC's counterexample is `StartCall`, `StartLookup`,
  `ScaleDownMark`, `ScaleDownCheckpoint`, `StartZeropodFails`.

### Activator

`Activator` is the scenario of `TestActivator`: `getFreePorts` chooses two
ports (`GetFreePorts`: any two different ports, because both listeners are
open at once), the activator is started with an `onAccept` that binds both
ports and starts the two test servers, and `Clients` goroutines each
request the first port and then the second. `wg` is the counter of the
`WaitGroup`: `Spawn` adds 2, and `Read` subtracts, when the goroutine ends,
one for every round of the loop it had begun (the `defer wg.Done()` inside
the loop runs at the end of the goroutine, also when `require.NoError` ends
it early). `Wait` is `wg.Wait` followed by the deferred `cancel` and
`s.Stop`. The server is modelled from the specification: while it listens,
a connection is held (`Get`), the first one triggers `onAccept`, and held
connections are proxied once `onAccept` has returned (`Proxy`). That
`onAccept` is called once is how the server is modelled, not something a
run shows. The test never calls `DisableRedirects`, so the activator
answers until `Stop`. `fatal` records `log.Fatal`; with two different
ports and one call of `onAccept` it stays false. The client's timeout of
one second is not modelled.

### Config

An annotation value is modelled by what splitting it yields: the ports map
is a sequence of mappings, a mapping the sequence of its `=`-separated
fields, a ports field the sequence of its tokens, a token the number it
spells or `NotANumber`. A Go result `(value, error)` is the record
`[val, err]`. `ParsePort` is `strconv.ParseUint` with its bit size of 16,
`Uint16` the conversion `uint16(p)` that follows it (line 96), which would
wrap what a wider parse let through. `mapstructure.Decode` copies strings
into string fields; its error return (lines 73-75) cannot be taken and has
no counterpart. `ContainerPorts` is the outer loop of `NewConfig` as a
recursive operator over `PortsStep`; `PortsAsAnnotated` compares it with a
reading of the annotation that uses no loop (`Own`, `Malformed`,
`FlattenSeq`). `AnnotationConfig`, `DecodedFields` and `CopiedFields` are
the structs `annotationConfig` and `Config` as the shapes `CTypeOK` checks.

### Legacy

`Legacy` stands by itself: the first-generation wrapper shares no state with
the current one. Its state is the wrapper struct (`scaledDown`,
`originalProcess`: one of each for the whole shim), the delegate's
`s.containers` as `main[c]`, the two mutexes `mu` and `eventSendMu`, and the
kernel (`owner`, `live`, `dumped`, `ec`). `halted` records how the shim
ended: `os.Exit` in `onAccept`, or a panic.

* `Start`: `StartCall` (the delegate starts the process), `StartLookup`
  (lines 240-262: lookup, sandbox test, `s.originalProcess = p`), then
  `scaleDown` in the same thread after the two-second sleep.
* `scaleDown`, run by a `Start` call or by `onIdle`: `ScaleDownPrepareFails`,
  `ScaleDownMark` (the flag, line 377), `ScaleDownCheckpoint` or
  `ScaleDownCheckpointFails` (the flag taken back, line 393), `StartZeropod`
  or `StartZeropodFails`.
* `onAccept`: `ConnArrives`, `AcceptLock` (`eventSendMu`), `Restore` or
  `RestoreFails` (`os.Exit`), `AcceptRestored` (the flag cleared),
  `AcceptReturn` (second `TaskStart`, unlock); `IdleElapsed` is `onIdle`.
* `Kill`: `KillCall` (the test of the flag, without a lock) and, when the
  flag was set, `KillMark` (lookup under `s.mu`, the two `SetExited`, the
  delegate's `Kill`); a restore can complete between the two.
* `checkProcesses`: `ExitIgnored`, `ExitPanics`, `ExitMarked` (under `s.mu`),
  `ExitPublished` (`sendL`, which needs `eventSendMu`).

## 3. Runs

Passing runs (TLC finds no error):

| Run | Configuration | Checks | Distinct states |
|---|---|---|---|
| `safety` | `Safety.cfg` | `TypeOK`, `LockHeldIffInSection`, `ScaledDownRestorable`, `ServiceTracksRestored`, `LiveExitOnlyByRecycledPid` | 234 350 |
| `concurrent` | `Concurrent.cfg` | `PendingExecsCounted`, `LockHeldIffInSection`, `ScaledDownRestorable`, `ServiceTracksRestored`, `LiveIsMonitored`, `ExitNotLost` | 982 282 |
| `progress` | `Progress.cfg` | `KillReturns`, `ConnServed` | 99 087 |
| `lifecycle` | `Lifecycle.cfg` | `ImplementsLifecycle` | 383 672 |
| `config` | `Config.cfg` | `CTypeOK`, `PortsAsAnnotated` | 2 684 |
| `activator` | `Activator.cfg` | `ATypeOK`, `RequestsSucceed`, `StoppedAfterAnswers`, `TestFinishes` | 3 204 |
| `legacy` | `Legacy.cfg` | `LTypeOK`, `ListeningIsScaledDown`, `CheckpointedNeverExited`, `ExitGetsPublished`, `LegacyImplementsLifecycle` | 213 660 |

* `LockHeldIffInSection`: an actor holds the checkpoint/restore mutex
  exactly while it is inside `Restore`, `scaleDown` or `Kill`. `Restore`
  is inside from `RestoreLock` on, so its four error returns (`RestoreFails`
  for lines 52, 65 and 76, `RestoreRedirectFails` for line 89) are steps that
  must give the mutex back; those of the scale-down are modelled from the
  specification.
* `ScaledDownRestorable`: outside a running checkpoint, a container marked
  scaled down has a complete checkpoint (or checkpointing disabled). `Exec`
  and the activator restore on the flag alone, and a failed restore ends the
  shim.
* `ServiceTracksRestored`: the delegate's container object is the one the
  zeropod container holds, after every restore and every failure.
* `PendingExecsCounted`: `pendingExecs` of a container object equals the
  number of exec starts between `preStart` and `handleStarted`, with two
  threads, failing starts and a restore that replaces the object in between.
* `LiveExitOnlyByRecycledPid`: `safety` runs with `RecyclePids`, so a
  restored or exec'ed process may get the pid of a process whose exit is
  still in the channel, and `processExits` then publishes a `TaskExit` for
  it (the limitation the comment at `part_000` 263-268 accepts). The
  property is the extent of that limitation: a `TaskExit` for a process
  that is alive happens only to one that shares its pid with a dead one.
  Without recycling it says that no live process is ever reported exited,
  whatever the flag, the timer and the restores do in between. The other
  invariants of `safety` hold with recycled pids too.
* `LiveIsMonitored`: every live process is in `s.running` or on its way
  there. The restored process gets there only through the closure that
  `preRestore` obtained and `postRestore` calls after swapping the container
  object; the property is checked while two threads start execs and restore.
* `ExitNotLost`: until the first scale-down of its container, a process
  that has ended and whose exit is neither in the channel, nor with
  `processExits`, nor awaited by the call that started it, has had its
  `TaskExit`, unless it is an init that `processExits` deferred. The exit
  of a process that ends before `handleStarted` registered it finds
  `w.running` empty and reaches the closure only through the subscription;
  the property holds for every interleaving of two threads that start and
  exec, the reaper and the two halves of the exit loop. The exception is
  real, see below.
* `KillReturns`, `ConnServed`: progress under the fairness of section 5,
  with `Exec`, `Kill`, the timer and two connections competing for the
  mutex.
* `ImplementsLifecycle`: the refinement of section 2, for a managed
  container beside its sandbox, with checkpointing enabled or disabled
  (`restore.go` 46-48: the restore is then from the bundle, and the state
  machine is the same). It relates the flag, the position of timer
  and accept handler, the processes and the activator in every step: a
  `RestoreFinish` that left the redirects in place, or a failed checkpoint
  that left the flag set, is no edge of the state machine.
* `RequestsSucceed` (activator): no request of the test fails
  (`require.NoError` after `c.Get`). Clients connect to either port before,
  while and after `onAccept` runs; a request succeeds only if `onAccept`
  has started the server of its port before the held connection is
  proxied, and if the deferred `s.Stop` and the cleanup that closes the
  servers stay behind the last request.
* `StoppedAfterAnswers` (activator): the deferred `s.Stop` runs only after
  every client has both answers.
* `TestFinishes` (activator): under fair scheduling `wg.Wait` returns. A
  request that failed on the first port would leave one `wg.Done`
  outstanding and the test would hang; it ends because every connection
  held during `onAccept`, on either port, is proxied to a server that
  listens.
* `ListeningIsScaledDown` (legacy): an activator that listens and has not
  begun to restore stands for a container whose flag is set, whose process is
  gone and whose checkpoint is complete.
* `CheckpointedNeverExited` (legacy): the exit of a checkpointed process is
  never published, also when `checkProcesses` reaches it after `onAccept` has
  cleared the flag: `restore` has replaced the main process by then.
* `ExitGetsPublished` (legacy): `checkProcesses` waits for `eventSendMu`
  while it holds `s.mu`; `onAccept` holds `eventSendMu` across `restore`.
  The exit is published all the same, because `restore` never needs `s.mu`
  and every way out of `onAccept` releases the lock or ends the shim.
* `LegacyImplementsLifecycle` (legacy): the refinement of section 2 with
  its one exception, every fault injected.

Runs that find what the code does differ from what is specified (each is a
finding in `PROJECT.json`):

| Run | Property | Trace |
|---|---|---|
| `init_exit_order` | `InitExitAfterExecs` | the init is started and registered, it dies, `Start` of an exec begins (`pendingExecs` is 1), `ExitsPeek` seeds `cps` with the init (line 252), `ExitsDispatch` skips the init (line 283) and handles the seed all the same: the init's `TaskExit` is published before the exec's start is. For the same reason a process that is not skipped is in `cps` twice (lines 252 and 289) and gets two `TaskExit` events |
| `double_restore` | `RestoreOnlyWhenScaledDown` | during a scale-down two `Exec` calls read the flag; both restore, the second while the first restored process is alive |
| `dropped_exit` | `DroppedExitWasCheckpointed` | the init dies, the timer fires and sets the flag, `preventExit` drops the real exit |
| `late_exit` | `CheckpointExitNeverPublished` | scale-down, `Exec` restores and clears the flag, then `processExits` reaches the checkpointed process's exit and publishes it |
| `missed_exit` | `StartedExitNotMissed` | scale-down, a connection, `RestoreBegin` starts the process (the subscription of `preRestore` is already gone), the process dies, `processExits` consumes the exit, `RestoreFinish` adds the dead process to `s.running` |

Behaviours met while modelling that are recorded as hazards without a run
of their own:

* the exit of a deferred init can be lost (`part_000` 283). The closure
  that brings `pendingExecs` to zero publishes it, if its own exits map
  holds it; a closure subscribed after `processExits` told the exit does
  not. With the bounds of `concurrent`: `t1` starts the init, `t2` begins
  the start of an exec, the init dies, `ExitsPeek` (nothing registered
  yet), `t1` registers the init, `ExitsDispatch` skips it and tells `t2`,
  `t1` begins another exec start, `t2`'s start fails (one start is still
  pending), `t1`'s start fails (the last one, which was not told): the init
  stays in `s.running` and no `TaskExit` follows. No run checks this:
  `ExitNotLost` leaves deferred inits out and shows that nothing else is
  lost. The seed of line 252 hides the case whenever the
  init was registered before its exit was read;
* `Start` runs the delegate's `Start` before it decodes the annotations, so
  a container whose annotations do not decode is running when `Start` fails
  (`part_000` 103; specification, section 7: creation is not attempted).
  Run `safety` has such annotations (`Malformed`); no property speaks of a
  container the wrapper does not manage;
* `Start` fails after it has registered the container when
  `ScheduleScaleDown` fails (`part_000` 159): the host is told of a failed
  start, the wrapper manages the container without a timer;
* a `Kill` of a scaled-down container stops the activator, and an accept
  handler that already waits for the mutex restores the killed container
  afterwards (`part_000` 231). The sequence is in the state space of
  `safety` and `progress` and breaks none of their properties;
* in `Legacy`, the exit of the sandbox's process before any container was
  started reaches `s.originalProcess.ID()` on nil (`part_001` 549; the
  action `ExitPanics`);
* in `Legacy`, an exit that arrives while the one flag is set is dropped
  whoever's it is (`StartCall`, `StartLookup`, `ScaleDownMark`,
  `ProcessDies`, `ExitIgnored`: the process died by itself, the checkpoint
  then fails, no `TaskExit` follows);
* in `Legacy`, a `StartZeropod` that fails after the checkpoint leaves the
  flag set with nothing listening. `LegacyImplementsLifecycle` exempts the
  step and so says nothing about it.

Every property of a passing run has a mutant in `PROJECT.json`: a plausible
bug in the mapped definition (a dropped unlock, a check in the wrong order, a
flag not taken back) under which TLC finds the property violated.

## 4. Bounds

| Constant | Values | Why it is enough |
|---|---|---|
| `Containers` | `{c1}`; `{c1, c2}` in `lifecycle`; `{sb, app}` in `Legacy` | the mutex is per shim, all hazards listed are within one container. `lifecycle` has the sandbox `c2` beside the managed `c1` (`Pod`), whose starts and exits interleave with the cycle of `c1`. Two managed containers are out of reach: the refinement with one connection and no exec has 997 027 states and takes over three minutes, and `safety` with two managed containers and three processes passes 4 600 000 states without finishing in four. `Legacy` has a sandbox beside the container because its flag and `originalProcess` are shared |
| `Calls` | one or two threads | two are needed for the races between RPCs (`concurrent`, `double_restore`); one thread plus timer, acceptor and exit loop gives the other races |
| `May` | the RPCs a thread sends | keeps the two-thread and the liveness runs small: both threads start and exec in `concurrent`, so that two exec starts are in flight at once and `pendingExecs` reaches 2; `Exec` and `Kill` compete with the accept handler, scale-down and restore in `progress`; only `Start` is sent in `lifecycle` (section 2 says why); every RPC is sent in `safety` |
| `ExecIds` | `{e1}` | one exec is enough for the pending-exec deferral; two threads can start it concurrently |
| `Conns` | up to two connections | two are needed to tell "every held connection" from "the first" |
| `MaxProcs` (`MaxPid` in `Legacy`) | 2 or 3; 4 in `legacy` (two starts, two restores) | the number of processes ever started: init and an exec or restored process in `safety` (one thread, every RPC, a connection); init, exec and restored process, or a second restore, in `concurrent`. When the bound is reached, a restore fails as the runtime would |
| `RecyclePids` | `TRUE` in `safety`, `FALSE` elsewhere | with two processes the second can take the pid of the first, which is the case of `part_000` 263-268. The runs that find a violation leave it off: what they find needs no recycled pid. `lifecycle` and `progress` hold with recycled pids as well (about 1.4 million and 150 000 states), and so does `concurrent` with one starting thread (1.5 million), but they take too long to be kept that way |
| `Faults` | all, none, or all but the activator's start | the failures of `GetSpec`/`zeropod.New` (`create`), `ScheduleScaleDown` (`schedule`), the checkpoint, the activator's start, `Restore` and `DisableRedirects`. All error paths are taken in `safety`; with some faults off, the guards that depend on state decide. `progress` leaves the activator's start out to stay within a minute (with it: about 180 000 states, no error) |
| `Annotations` | `Zeropods`: plain annotations, every container is managed; `Mixed` in `safety`: plain, a list of container names that leaves the container out, a ports map that does not decode; `Pod` in `lifecycle`: `c1` with checkpointing enabled or disabled, `c2` a sandbox | every result of `Classify` occurs (zeropod, sandbox, unselected, error). With checkpointing disabled nothing is written to the snapshot directory and a restore needs no checkpoint (`Snapshot`, `Restorable`); `lifecycle` checks the refinement both ways. The wrapper reads the container type, the names, the ports map's validity and `DisableCheckpointing` only, so the other annotations are left plain here and varied in `config` |
| `FreePorts`, `Clients` (Activator) | three ports, three clients | three ports give `getFreePorts` every order of two different ports; three clients (the test has six) are on different ports at the same time, before, during and after `onAccept` |
| `Inputs` (Config) | 392 annotation sets | ports maps of up to two mappings over two names, ports 80, 65535, 65536 and a non-number, mappings with one and three fields; the other annotations one at a time |

`pendingExecs` is bounded by the number of threads and `taskExits` by the
number of times an exit can be dispatched; neither needs a guard.

Deadlock checking is off in the shim's configurations: a shim that has
called `os.Exit` or was shut down takes no more steps. That a live shim makes
progress is what `KillReturns`, `ConnServed` and `ExitGetsPublished` check.
It is off for `Activator` too: the test ends.

## 5. Fairness

`FairSpec` assumes

* weak fairness of the steps that wait for nothing (`RestoreBegin`,
  `RestoreFinish` and the error returns of `Restore`, the end
  of a scale-down, the callers' steps after `Restore`, `Kill` under the
  mutex): a goroutine that can run does run;
* strong fairness of the steps that take the checkpoint/restore mutex
  (`RestoreLock`, `ScaleDownBegin`, `KillLock`): Go's `sync.Mutex` switches
  to starvation mode and hands the mutex to a waiter that has waited for more
  than a millisecond, so a waiter is not passed over for ever.

`LFairSpec` of `Legacy` assumes the same of `onAccept`: strong fairness of
`AcceptLock` and of `ExitPublished`, which take `eventSendMu`, weak fairness
of the steps of `onAccept` that follow.

`AFairSpec` of `Activator` assumes weak fairness of every goroutine of the
test and of the server (`Start`, `OnAccept`, `Wait`, the steps of each
client): none of them waits for a lock, and a goroutine that can run does.

No fairness is assumed of the host (RPC arrivals), of clients, of process
death or of the timer.

## 6. Not modelled

* Zombies: a process that ends is reaped in the same step, so its pid is
  free at once.
* Two containers managed by one shim (section 4 says why).
* Time: the scale-down duration, the activator's grace period, the
  durations of checkpoint and restore. The timer fires whenever it is armed.
* The content of checkpoints, sockets, network namespaces, iptables rules,
  cgroups and metrics.
* Log re-piping (`restore.go` 95-168): the body of `restoreLoggers` is
  commented out and the function returns nil, so the goroutine `Restore`
  starts for it changes nothing and `createContainerLoggers` is never
  called.
* The activator's server itself (its source is not in `src/`): listeners,
  BPF redirects, the proxy's byte copying. The client's timeout in
  `TestActivator`.
* The getters of `Config` (`HostPod*`, `PodName`, `PodNamespace`): field
  reads that nothing in the shim depends on.
* In `Legacy`, the number of events `ExitPublished` sends: `taskExit`
  records that the exit was published.
* The failures of `StartZeropod` in `Legacy` other than its return with an
  error (`part_001` 419-427).
* The delegate's RPCs that the wrapper passes through unchanged.
* In `Legacy`: `Start` of an exec process, the removal of CRIU's iptables
  rules, `KillAll` of an init's children, and a second container that is no
  sandbox (its `Start` would overwrite `originalProcess`).
* The fragment `part_001` 1-146, whose control flow is that of
  `Legacy.StartZeropod` and `Legacy.Restore`, and `main`.

## 7. Plan

Done: the wrapper, the exit reconciler, `Restore`, the config loader, with
the delegate, the scheduler and the activator modelled from the
specification as far as the wrapper depends on them; the first-generation
wrapper as `Legacy`; the abstract specification `Lifecycle` with the
refinement of `Shim` and of `Legacy`; the activator's test; pids that the
kernel recycles; checkpointing disabled; two threads that both start.

Next, in this order:

1. `Lifecycle` with `Kill` and `Delete`: an edge to a final state and the
   property that a killed container is not restored, which the code is
   expected to violate (`part_000` 231, `part_001` 350).
2. Exit liveness: every death that is not a checkpoint's is eventually
   published; it needs fairness of the exit loop and fails today for the
   reasons of `dropped_exit` and `missed_exit`.
3. Symmetry of the connections to make room for a second managed
   container.
4. The loss of a deferred init's exit (section 3) as a run of its own, with
   the property that a deferred init has its `TaskExit` once no exec start
   is pending.
