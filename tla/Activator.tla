----------------------------- MODULE Activator -----------------------------
(***************************************************************************)
(* The network activator under its test scenario (TestActivator, the       *)
(* second file of zeropod/restore.go): an activator for two free ports, an *)
(* onAccept that starts the real servers on those ports, and parallel      *)
(* clients that each request one port after the other.                     *)
(*                                                                         *)
(* The test is translated from its source.  The server it drives is not    *)
(* part of the repository's sources; what the test needs of it (Start,     *)
(* the accept path, Stop) is modelled from section 4.3 of the              *)
(* specification.  The client's timeout of one second is not modelled:     *)
(* onAccept and the proxy are taken to answer in time.                     *)
(***************************************************************************)
EXTENDS Naturals, Sequences, FiniteSets, SequencesExt

CONSTANTS
    FreePorts,  \* the ports the kernel hands out to a listener on port 0
    Clients     \* the client goroutines (parallelReqs of them)

ASSUME ActivatorConstantsOK ==
    /\ IsFiniteSet(FreePorts) /\ Cardinality(FreePorts) >= 2
    /\ IsFiniteSet(Clients)

VARIABLES
    ports,      \* <<port, port2>>, as getFreePorts returned them
    main,       \* where TestActivator is
    srv,        \* the activator: "new", "listening" or "stopped"
    accept,     \* onAccept: "never" called, "running" or "returned"
    backend,    \* the ports the real servers (ts, ts2) listen on
    fatal,      \* log.Fatal was called
    spawned,    \* the clients whose goroutine was started
    wg,         \* the counter of the WaitGroup
    at,         \* at[k]: how many ports client k is done with
    req         \* req[k]: what became of the request k has sent

avars == <<ports, main, srv, accept, backend, fatal, spawned, wg, at, req>>

ATypeOK ==
    /\ ports \in Seq(FreePorts)
    /\ main \in {"start", "spawn", "done", "failed"}
    /\ srv \in {"new", "listening", "stopped"}
    /\ accept \in {"never", "running", "returned"}
    /\ backend \subseteq FreePorts
    /\ fatal \in BOOLEAN
    /\ spawned \subseteq Clients
    /\ wg \in 0..(2 * Cardinality(Clients))
    /\ at \in [Clients -> 0..2]
    /\ req \in [Clients -> {"none", "held", "ok", "failed", "gone"}]

----------------------------------------------------------------------------
(* The test.                                                               *)

\* getFreePorts: two listeners on port 0 are open at the same time, so the
\* kernel gives them different ports; both are closed before the ports
\* are returned.
GetFreePorts == {pp \in FreePorts \X FreePorts : pp[1] # pp[2]}

\* The port client k requests next.
Port(k) == ports[at[k] + 1]

\* TestActivator up to s.Start: the ports are chosen, the server and the
\* two unstarted test servers created.
AInit ==
    /\ ports \in GetFreePorts
    /\ main = "start"
    /\ srv = "new"
    /\ accept = "never"
    /\ backend = {}
    /\ fatal = FALSE
    /\ spawned = {}
    /\ wg = 0
    /\ at = [k \in Clients |-> 0]
    /\ req = [k \in Clients |-> "none"]

\* s.Start returns an error: t.Fatal ends the test before Stop is deferred
\* and before any client is started.
StartFails ==
    /\ main = "start"
    /\ main' = "failed"
    /\ UNCHANGED <<ports, srv, accept, backend, fatal, spawned, wg, at, req>>

\* onAccept that starts the second server only.
OnAcceptSecondPort ==
    /\ accept = "running"
    /\ fatal' = (fatal \/ ports[2] \in backend)
    /\ backend' = backend \cup {ports[2]}
    /\ accept' = "returned"
    /\ UNCHANGED <<ports, main, srv, spawned, wg, at, req>>

\* The onAccept of the test: it listens on the first port and then on the
\* second (log.Fatal when a port is taken, as it is when onAccept ran
\* before or when the two ports are one) and starts the two servers on the
\* listeners.
OnAccept ==
    /\ accept = "running"
    /\ fatal' = (\/ fatal
                 \/ ports[1] \in backend
                 \/ ports[2] \in backend \cup {ports[1]})
    /\ backend' = backend \cup Range(ports)
    /\ accept' = "returned"
    /\ UNCHANGED <<ports, main, srv, spawned, wg, at, req>>

\* Spawn that adds one to the WaitGroup for the two requests.
SpawnAddsOne(k) ==
    /\ main = "spawn"
    /\ k \notin spawned
    /\ spawned' = spawned \cup {k}
    /\ wg' = wg + 1
    /\ UNCHANGED <<ports, main, srv, accept, backend, fatal, at, req>>

\* One round of the loop that starts the clients: wg.Add(2), then the
\* goroutine.
Spawn(k) ==
    /\ main = "spawn"
    /\ k \notin spawned
    /\ spawned' = spawned \cup {k}
    /\ wg' = wg + 2
    /\ UNCHANGED <<ports, main, srv, accept, backend, fatal, at, req>>

\* Read with the wg.Done deferred once for the goroutine, outside the loop.
ReadDoneOnce(k) ==
    LET ok   == req[k] = "ok"
        last == at[k] + 1 = Len(ports)
    IN  /\ req[k] \in {"ok", "failed"}
        /\ at' = [at EXCEPT ![k] = IF ok THEN @ + 1 ELSE @]
        /\ req' = [req EXCEPT ![k] = IF ok THEN "none" ELSE "gone"]
        /\ wg' = IF ok /\ ~last THEN wg ELSE wg - 1
        /\ UNCHANGED <<ports, main, srv, accept, backend, fatal, spawned>>

\* A client is done with a request.  After an answer it goes on to the
\* next port, and returns after the last.  After an error require.NoError
\* ends the goroutine.  Either way the deferred wg.Done calls run then, one
\* for every round of the loop that was begun.
Read(k) ==
    LET ok   == req[k] = "ok"
        last == at[k] + 1 = Len(ports)
    IN  /\ req[k] \in {"ok", "failed"}
        /\ at' = [at EXCEPT ![k] = IF ok THEN @ + 1 ELSE @]
        /\ req' = [req EXCEPT ![k] = IF ok THEN "none" ELSE "gone"]
        /\ wg' = IF ok /\ ~last THEN wg ELSE wg - (at[k] + 1)
        /\ UNCHANGED <<ports, main, srv, accept, backend, fatal, spawned>>

\* The end of the test without wg.Wait.
WaitSkipped ==
    /\ main = "spawn"
    /\ spawned = Clients
    /\ main' = "done"
    /\ srv' = "stopped"
    /\ backend' = {}
    /\ UNCHANGED <<ports, accept, fatal, spawned, wg, at, req>>

\* wg.Wait returns once the counter is zero; the test function returns,
\* the deferred cancel and s.Stop run, and the cleanup closes the servers.
Wait ==
    /\ main = "spawn"
    /\ spawned = Clients
    /\ wg = 0
    /\ main' = "done"
    /\ srv' = "stopped"
    /\ backend' = {}
    /\ UNCHANGED <<ports, accept, fatal, spawned, wg, at, req>>

----------------------------------------------------------------------------
(* The server (section 4.3).                                               *)

\* Start: the listeners are open and the redirects installed.
Start ==
    /\ main = "start"
    /\ srv' = "listening"
    /\ main' = "spawn"
    /\ UNCHANGED <<ports, accept, backend, fatal, spawned, wg, at, req>>

\* What becomes of a connection that reaches the real listener of a port.
Dialed(p) == IF p \in backend THEN "ok" ELSE "failed"

\* c.Get: the client connects to its next port.  While the activator
\* listens the connection is redirected to it and held, and the first
\* connection since Start makes it call onAccept; a connection that is not
\* redirected goes to the real listener.  The test never calls
\* DisableRedirects, so the activator listens until Stop and every request
\* of the test takes the first branch.
Get(k) ==
    /\ k \in spawned
    /\ req[k] = "none"
    /\ at[k] < Len(ports)
    /\ IF srv = "listening"
         THEN /\ req' = [req EXCEPT ![k] = "held"]
              /\ accept' = IF accept = "never" THEN "running" ELSE accept
         ELSE /\ req' = [req EXCEPT ![k] = Dialed(Port(k))]
              /\ UNCHANGED accept
    /\ UNCHANGED <<ports, main, srv, backend, fatal, spawned, wg, at>>

\* Once onAccept has returned, a held connection is proxied to the real
\* listener of its port.
Proxy(k) ==
    /\ req[k] = "held"
    /\ accept = "returned"
    /\ req' = [req EXCEPT ![k] = Dialed(Port(k))]
    /\ UNCHANGED <<ports, main, srv, accept, backend, fatal, spawned, wg, at>>

----------------------------------------------------------------------------
ANext ==
    \/ Start
    \/ StartFails
    \/ OnAccept
    \/ Wait
    \/ \E k \in Clients : Spawn(k) \/ Get(k) \/ Proxy(k) \/ Read(k)

ASpec == AInit /\ [][ANext]_avars

\* Every goroutine of the test and of the server runs when it can.
AFairness ==
    /\ WF_avars(Start \/ StartFails)
    /\ WF_avars(OnAccept)
    /\ WF_avars(Wait)
    /\ \A k \in Clients : WF_avars(Spawn(k) \/ Get(k) \/ Proxy(k) \/ Read(k))

AFairSpec == ASpec /\ AFairness

----------------------------------------------------------------------------
(* Properties.                                                             *)

\* No request of the test fails (require.NoError after c.Get): a client
\* that connects before, while or after onAccept runs, on either port, is
\* answered by the server of its port.  The connections held while
\* onAccept runs are proxied only after both servers listen, and the
\* deferred s.Stop and the cleanup that closes the servers run only when
\* no client has a request left to send.
RequestsSucceed == \A k \in Clients : req[k] \notin {"failed", "gone"}

\* The activator is stopped only after every client has its answers from
\* both ports: wg.Add(2) before each goroutine and the deferred wg.Done of
\* each round keep wg.Wait, and with it the deferred s.Stop, behind the
\* last answer.
StoppedAfterAnswers ==
    srv = "stopped" => \A k \in Clients : at[k] = Len(ports)

\* Once the activator listens the test comes to its end: every connection
\* held during onAccept, on either port, is proxied and answered, so that
\* no goroutine ends on an error with a wg.Done missing and wg.Wait
\* returns.
TestFinishes == (main = "spawn") ~> (main = "done")

=============================================================================
