------------------------------- MODULE Hooks -------------------------------
(***************************************************************************)
(* The two callbacks wrapper.Start registers on a zeropod container        *)
(* (RegisterPreRestore, RegisterPostRestore).  Restore calls them around   *)
(* the start of the restored process, so that the delegate task service    *)
(* learns of the new container object and monitors the new process.        *)
(***************************************************************************)
EXTENDS Delegate

\* wrapper.preRestore: preStart subscribes a fresh exits map for a, and the
\* deferred cleanup removes the subscription again before preRestore
\* returns.  The closure keeps the map, which nobody fills any more.
PreRestore(a) ==
    /\ exits' = [exits EXCEPT ![a] = {}]
    /\ exitSubscribers' = (exitSubscribers \cup {a}) \ {a}

\* postRestore without the replacement of the entry in s.containers.
PostRestoreKeepsContainer(a, c, p) ==
    /\ UNCHANGED <<containers, execs>>
    /\ HandleStarted(a, p, p)

\* postRestore that does not call the closure of preRestore.
PostRestoreUnmonitored(a, c, p) ==
    /\ containers' = [x \in DOMAIN containers \cup {c} |->
                         IF x = c THEN p ELSE containers[x]]
    /\ execs' = [execs EXCEPT ![c] = [e \in {} |-> 0]]
    /\ UNCHANGED <<running, pendingExecs, exitSubscribers, exits, exited,
                   taskExits>>

\* wrapper.postRestore: the restored container object replaces the entry
\* of c in s.containers (its exec table is new and empty), and the closure
\* of preRestore starts monitoring its init process p.
PostRestore(a, c, p) ==
    /\ containers' = [x \in DOMAIN containers \cup {c} |->
                         IF x = c THEN p ELSE containers[x]]
    /\ execs' = [execs EXCEPT ![c] = [e \in {} |-> 0]]
    /\ HandleStarted(a, p, p)

=============================================================================
