------------------------------ MODULE MCConfig ------------------------------
(***************************************************************************)
(* Decoder instantiated for model checking: ports maps of up to two        *)
(* mappings for two container names, with well-formed and malformed        *)
(* mappings and ports at and beyond the 16-bit boundary.                   *)
(***************************************************************************)
EXTENDS Decoder

Names  == {"app", "sidecar"}
Tokens == {80, 65535, 65536, NotANumber}

PortFields == {<<p>> : p \in Tokens} \cup {<<80, p>> : p \in Tokens}

\* name=ports, a mapping without "=", and one with two.
Mappings ==
    {<<n, f>> : n \in Names, f \in PortFields}
        \cup {<<n>> : n \in Names}
        \cup {<<"app", <<80>>, <<80>> >>}

PortMaps == {<<>>} \cup {<<m>> : m \in Mappings}
                   \cup {<<m, n>> : m \in Mappings, n \in Mappings}

\* The other annotations vary one at a time around a plain container.
Plain ==
    [portMap |-> <<>>, containerNames |-> <<>>, duration |-> "",
     disableCheckpointing |-> "", preDump |-> "", containerName |-> "app",
     containerType |-> "container", podName |-> "pod", vclusterPodName |-> ""]

MCInputs ==
    {[Plain EXCEPT !.portMap = pm] : pm \in PortMaps}
        \cup {[Plain EXCEPT !.duration = d] : d \in {"30s", "0s", "soon"}}
        \cup {[Plain EXCEPT !.disableCheckpointing = b, !.preDump = b] :
                 b \in {"true", "0", "yes"}}
        \cup {[Plain EXCEPT !.containerNames = ns] :
                 ns \in {<<"app">>, <<"sidecar">>, <<"sidecar", "app">>}}
        \cup {[Plain EXCEPT !.containerType = "sandbox"],
              [Plain EXCEPT !.vclusterPodName = "vpod"]}

=============================================================================
