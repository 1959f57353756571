------------------------------ MODULE MCLegacy ------------------------------
(***************************************************************************)
(* Legacy instantiated for model checking: a pod of a sandbox and one      *)
(* container, and the sets of faults the configurations choose from.       *)
(***************************************************************************)
EXTENDS Legacy

CONSTANTS sb, app, t1, t2

AllFaults == FaultKinds
NoFaults  == {}

\* Every failure but that of the activator's start.
CycleFaults == FaultKinds \ {"activator"}

=============================================================================
