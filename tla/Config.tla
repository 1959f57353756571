------------------------------- MODULE Config -------------------------------
(***************************************************************************)
(* The config loader (zeropod/config.go): NewConfig decodes the            *)
(* annotations of a container spec, and wrapper.Start classifies the       *)
(* container by the result.  An annotation value is modelled by what       *)
(* splitting it yields: the ports map is a sequence of mappings, a mapping *)
(* the sequence of its "="-separated fields, the ports field the sequence  *)
(* of its ","-separated tokens.  A port token is the number it spells, or  *)
(* NotANumber.                                                             *)
(*                                                                         *)
(* The module is a library of operators: Decoder runs NewConfig over the   *)
(* annotation sets of a model, and the wrapper (Wrapper) decides with it   *)
(* which containers it manages.                                            *)
(***************************************************************************)
EXTENDS Integers, Sequences, FiniteSets, SequencesExt

NotANumber == -1
Archs      == {"amd64", "arm64"}

defaultScaleDownDuration == 60

\* annotationConfig: a is a set of annotations as NewConfig reads them.
\* Every annotation is a string; the ports map and the container names are
\* given split, a mapping by its fields: a name, then ports fields.  The
\* pod's namespace and uid are carried like its name and left out.
AnnotationConfig(a) ==
    /\ \A f \in DOMAIN a \ {"portMap", "containerNames"} : a[f] \in STRING
    /\ a.containerNames \in Seq(STRING)
    /\ \A i \in DOMAIN a.portMap :
           LET m == a.portMap[i]
           IN  /\ m # <<>> /\ m[1] \in STRING
               /\ \A j \in 2..Len(m) : m[j] \in Seq(Int)

\* What a Go function with an error result returns: the value and no error,
\* or the zero value and an error.
Ok(v)     == [val |-> v, err |-> FALSE]
Err(zero) == [val |-> zero, err |-> TRUE]

\* ParsePort without the bit size: any decimal number is a port.
ParsePortAnySize(tok) == IF tok >= 0 THEN Ok(tok) ELSE Err(0)

\* strconv.ParseUint(port, 10, 16): a decimal number of at most 16 bits.
ParsePort(tok) == IF tok \in 0..65535 THEN Ok(tok) ELSE Err(0)

\* strconv.ParseBool.
ParseBool(s) ==
    IF s \in {"1", "t", "T", "TRUE", "true", "True"} THEN Ok(TRUE)
    ELSE IF s \in {"0", "f", "F", "FALSE", "false", "False"} THEN Ok(FALSE)
    ELSE Err(FALSE)

\* time.ParseDuration, in seconds, for the spellings the model uses.
ParseDuration(s) ==
    CASE s = "30s" -> Ok(30)
      [] s = "1m"  -> Ok(60)
      [] s = "0s"  -> Ok(0)
      [] OTHER     -> Err(0)

\* The conversion uint16(p) of the uint64 that ParseUint returned.
Uint16(n) == n % 65536

\* The inner loop of NewConfig: every token of the ports field is parsed,
\* and the first that fails fails the decode; what parsed is converted and
\* appended.
ParsePorts(tokens) ==
    IF \E i \in DOMAIN tokens : ParsePort(tokens[i]).err THEN Err(<<>>)
    ELSE Ok([i \in DOMAIN tokens |-> Uint16(ParsePort(tokens[i]).val)])

\* PortsStep that looks at the name before it counts the fields.
PortsStepNameFirst(ports, m, name) ==
    IF ports.err THEN Err(<<>>)
    ELSE IF m[1] # name THEN ports
    ELSE IF Len(m) # 2 \/ ParsePorts(m[2]).err THEN Err(<<>>)
    ELSE Ok(ports.val \o ParsePorts(m[2]).val)

\* One round of the outer loop of NewConfig over a mapping m, with the
\* ports collected so far: a mapping that has not two fields fails the
\* decode, whichever container it names; one for another container is
\* skipped; the ports of one for this container are appended.
PortsStep(ports, m, name) ==
    IF ports.err \/ Len(m) # 2 THEN Err(<<>>)
    ELSE IF m[1] # name THEN ports
    ELSE IF ParsePorts(m[2]).err THEN Err(<<>>)
    ELSE Ok(ports.val \o ParsePorts(m[2]).val)

\* The ports of container name in the ports map; an empty annotation has
\* no mappings.
RECURSIVE ContainerPorts(_, _, _)
ContainerPorts(ports, portMap, name) ==
    IF portMap = <<>> THEN ports
    ELSE ContainerPorts(PortsStep(ports, Head(portMap), name),
                        Tail(portMap), name)

\* An optional annotation: its default when empty, else what parsing
\* made of it.
Optional(s, default, parsed) == IF s = "" THEN Ok(default) ELSE parsed

\* Config: the fields NewConfig decodes, and those it copies.
DecodedFields ==
    [Ports : Seq(0..65535), ScaleDownDuration : Nat,
     DisableCheckpointing : BOOLEAN, PreDump : BOOLEAN]
CopiedFields ==
    [ZeropodContainerNames : Seq(STRING), ContainerName : STRING,
     ContainerType : STRING, podName : STRING, vclusterPodName : STRING]

Decoded(ports, dur, disable, preDump) ==
    [Ports |-> ports, ScaleDownDuration |-> dur,
     DisableCheckpointing |-> disable, PreDump |-> preDump]

Copied(a) ==
    [ZeropodContainerNames |-> a.containerNames,
     ContainerName         |-> a.containerName,
     ContainerType         |-> a.containerType,
     podName               |-> a.podName,
     vclusterPodName       |-> a.vclusterPodName]

\* The nil *Config of a failed decode.
NilConfig ==
    [decoded |-> Decoded(<<>>, 0, FALSE, FALSE),
     spec    |-> [ZeropodContainerNames |-> <<>>, ContainerName |-> "",
                  ContainerType |-> "", podName |-> "",
                  vclusterPodName |-> ""]]

\* NewConfig that returns the config it has built so far with its error.
NewConfigKeepsConfig(a, goarch) ==
    LET ports   == ContainerPorts(Ok(<<>>), a.portMap, a.containerName)
        dur     == Optional(a.duration, defaultScaleDownDuration,
                               ParseDuration(a.duration))
        disable == Optional(a.disableCheckpointing, FALSE,
                               ParseBool(a.disableCheckpointing))
        preDump == Optional(a.preDump, FALSE, ParseBool(a.preDump))
    IN  [val |-> [decoded |-> Decoded(ports.val, dur.val, disable.val,
                                      preDump.val /\ goarch # "arm64"),
                  spec    |-> Copied(a)],
         err |-> ports.err \/ dur.err \/ disable.err \/ preDump.err]

\* NewConfig: the annotations are strings, which mapstructure decodes into
\* the string fields of annotationConfig as they are; the first annotation
\* that does not parse fails the call with a nil config.  Pre-dump is
\* switched off on arm64.
NewConfig(a, goarch) ==
    LET ports   == ContainerPorts(Ok(<<>>), a.portMap, a.containerName)
        dur     == Optional(a.duration, defaultScaleDownDuration,
                               ParseDuration(a.duration))
        disable == Optional(a.disableCheckpointing, FALSE,
                               ParseBool(a.disableCheckpointing))
        preDump == Optional(a.preDump, FALSE, ParseBool(a.preDump))
    IN  IF ports.err \/ dur.err \/ disable.err \/ preDump.err
        THEN Err(NilConfig)
        ELSE Ok([decoded |-> Decoded(ports.val, dur.val, disable.val,
                                     preDump.val /\ goarch # "arm64"),
                 spec    |-> Copied(a)])

\* Config.IsZeropodContainer: named in the list, or the list is empty.
IsZeropodContainer(c) ==
    \/ c.spec.ContainerName \in Range(c.spec.ZeropodContainerNames)
    \/ c.spec.ZeropodContainerNames = <<>>

\* What wrapper.Start makes of a decoded config: an error fails the call, a
\* sandbox and a container that is not selected are left to the delegate,
\* any other container is managed.
Classify(r) ==
    IF r.err THEN "error"
    ELSE IF r.val.spec.ContainerType = "sandbox" THEN "sandbox"
    ELSE IF IsZeropodContainer(r.val) THEN "zeropod"
    ELSE "unselected"

=============================================================================
