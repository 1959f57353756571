------------------------------- MODULE MCShim -------------------------------
(***************************************************************************)
(* Shim instantiated for model checking: the containers, and the kinds,    *)
(* sets of RPCs and faults the configurations choose from.                 *)
(***************************************************************************)
EXTENDS Shim

CONSTANTS c1, c2, t1, t2, e1, k1, k2

\* The annotations of a container of a pod that sets none of zeropod's.
Plain ==
    [portMap |-> <<>>, containerNames |-> <<>>, duration |-> "",
     disableCheckpointing |-> "", preDump |-> "", containerName |-> "app",
     containerType |-> "container", podName |-> "pod", vclusterPodName |-> ""]

Unchecked == [Plain EXCEPT !.disableCheckpointing = "true"]
Sandbox   == [Plain EXCEPT !.containerType = "sandbox"]
Sidecar   == [Plain EXCEPT !.containerNames = <<"sidecar">>]
Malformed == [Plain EXCEPT !.portMap = << <<"app">> >>]

\* Every container is one zeropod manages.
Zeropods == [c \in Containers |-> {Plain}]

\* Every container is one zeropod manages, leaves alone as not selected,
\* or fails to start over its ports map.
Mixed == [c \in Containers |-> {Plain, Sidecar, Malformed}]

\* A pod: c1 is a container zeropod manages, with checkpointing or without,
\* any other its sandbox.
Pod == [c \in Containers |-> IF c = c1 THEN {Plain, Unchecked}
                             ELSE {Sandbox}]

\* Every thread takes every RPC.
MayAll == [t \in Calls |-> Rpcs]

\* One thread starts and execs, the other only execs.
MayExec == [t \in Calls |-> IF t = t1 THEN {"Start", "Exec"} ELSE {"Exec"}]

\* Both threads start and exec.
MayStartExec == [t \in Calls |-> {"Start", "Exec"}]

\* One thread starts, execs and kills.
MayKill == [t \in Calls |-> {"Start", "Exec", "Kill"}]

\* One thread only starts: the activator is the only caller of Restore.
MayStart == [t \in Calls |-> {"Start"}]

AllFaults == FaultKinds
NoFaults  == {}

\* Every failure but that of the activator's start.
CycleFaults == FaultKinds \ {"activator"}

=============================================================================
