----------------------------- MODULE Lifecycle -----------------------------
(***************************************************************************)
(* What the checkpoint/restore engine promises of one managed container    *)
(* (sections 3 and 4.2 of the specification): the container moves between  *)
(* Running, ScalingDown, ScaledDown and Restoring along the edges of the   *)
(* state machine only; a scale-down that completes has frozen the running  *)
(* process and bound the activator; a restore thaws exactly one process    *)
(* for the one that was frozen, and the container is Running again only    *)
(* with the activator's redirects gone.                                    *)
(*                                                                         *)
(* This module knows nothing of mutexes, flags, threads or exit events.    *)
(* Shim and Legacy are checked to implement it under a refinement mapping. *)
(***************************************************************************)
EXTENDS Naturals

VARIABLES
    state,      \* the state of the container's state machine
    alive,      \* the container has a live init process
    bound,      \* the activator answers the service ports
    started,    \* how many init processes the container has had
    frozen      \* how many of them a checkpoint has ended

lifecycle == <<state, alive, bound, started, frozen>>

States == {"Absent", "Running", "ScalingDown", "ScaledDown", "Restoring",
           "Terminated"}

\* The process that was started last has been checkpointed.
Frozen == frozen = started

LifecycleInit ==
    /\ state = "Absent"
    /\ alive = FALSE
    /\ bound = FALSE
    /\ started = 0
    /\ frozen = 0

\* The container is started and becomes managed; its process may be gone
\* by then.
Begin ==
    /\ state = "Absent"
    /\ state' = "Running"
    /\ started' = 1
    /\ alive' \in BOOLEAN
    /\ UNCHANGED <<bound, frozen>>

\* The process ends by itself or by a signal, in whatever state.
Die ==
    /\ alive
    /\ alive' = FALSE
    /\ UNCHANGED <<state, bound, started, frozen>>

\* Running -> ScalingDown.
BeginScaleDown ==
    /\ state = "Running"
    /\ state' = "ScalingDown"
    /\ UNCHANGED <<alive, bound, started, frozen>>

\* The checkpoint ends the process (exit-after-dump).
Freeze ==
    /\ state = "ScalingDown"
    /\ alive /\ ~Frozen
    /\ alive' = FALSE
    /\ frozen' = frozen + 1
    /\ UNCHANGED <<state, bound, started>>

\* ScalingDown -> ScaledDown: the process is frozen (in this step or in an
\* earlier one) and the activator bound.
FinishScaleDown ==
    /\ state = "ScalingDown"
    /\ \/ Frozen /\ ~alive /\ UNCHANGED <<alive, frozen>>
       \/ ~Frozen /\ alive /\ alive' = FALSE /\ frozen' = frozen + 1
    /\ bound' = TRUE
    /\ state' = "ScaledDown"
    /\ UNCHANGED started

\* ScalingDown -> Running: the checkpoint failed, nothing was frozen and
\* nothing bound.
AbortScaleDown ==
    /\ state = "ScalingDown"
    /\ ~Frozen
    /\ state' = "Running"
    /\ UNCHANGED <<alive, bound, started, frozen>>

\* The one process a restore starts for the one that was frozen.
Thaw ==
    /\ Frozen
    /\ started' = started + 1
    /\ alive' = TRUE
    /\ UNCHANGED <<bound, frozen>>

\* ScaledDown -> Restoring; the process may be thawed in the same step.
BeginRestore ==
    /\ state = "ScaledDown"
    /\ state' = "Restoring"
    /\ Thaw \/ UNCHANGED <<alive, bound, started, frozen>>

\* Restoring: the process is thawed.
Restore ==
    /\ state = "Restoring"
    /\ Thaw
    /\ UNCHANGED state

\* Restoring: with the process thawed the redirects are removed.
Unbind ==
    /\ state = "Restoring"
    /\ ~Frozen
    /\ bound' = FALSE
    /\ UNCHANGED <<state, alive, started, frozen>>

\* Restoring -> Running, for a process that was thawed and with the
\* redirects gone (in this step or in an earlier one).
FinishRestore ==
    /\ state = "Restoring"
    /\ ~Frozen
    /\ bound' = FALSE
    /\ state' = "Running"
    /\ UNCHANGED <<alive, started, frozen>>

\* Restoring -> Terminated: the restore failed and the shim ends.
FailRestore ==
    /\ state = "Restoring"
    /\ state' = "Terminated"
    /\ UNCHANGED <<alive, bound, started, frozen>>

LifecycleNext ==
    \/ Begin
    \/ Die
    \/ BeginScaleDown
    \/ Freeze
    \/ FinishScaleDown
    \/ AbortScaleDown
    \/ BeginRestore
    \/ Restore
    \/ Unbind
    \/ FinishRestore
    \/ FailRestore

LifecycleSpec == LifecycleInit /\ [][LifecycleNext]_lifecycle

=============================================================================
