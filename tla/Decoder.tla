------------------------------ MODULE Decoder ------------------------------
(***************************************************************************)
(* The config loader at work: the host presents the annotations of a       *)
(* container being started, NewConfig (module Config) decodes them, Start  *)
(* returns.  The decode is compared with a reference reading of the ports  *)
(* map.                                                                    *)
(***************************************************************************)
EXTENDS Config

CONSTANTS
    Inputs      \* the annotation sets the host presents

VARIABLES
    phase,      \* "idle", "presented" or "decoded"
    ann,        \* the annotations of the spec being decoded
    arch,       \* runtime.GOARCH
    cfg         \* what NewConfig returned

cvars == <<phase, ann, arch, cfg>>

CInit ==
    /\ phase = "idle"
    /\ ann \in Inputs
    /\ arch \in Archs
    /\ cfg = Err(NilConfig)

Present ==
    /\ phase = "idle"
    /\ phase' = "presented"
    /\ ann' \in Inputs
    /\ cfg' = Err(NilConfig)
    /\ UNCHANGED arch

Decode ==
    /\ phase = "presented"
    /\ phase' = "decoded"
    /\ cfg' = NewConfig(ann, arch)
    /\ UNCHANGED <<ann, arch>>

Return ==
    /\ phase = "decoded"
    /\ phase' = "idle"
    /\ UNCHANGED <<ann, arch, cfg>>

CNext == Present \/ Decode \/ Return

CSpec == CInit /\ [][CNext]_cvars

----------------------------------------------------------------------------
(* Reference definitions and properties.                                   *)

CTypeOK ==
    /\ phase \in {"idle", "presented", "decoded"}
    /\ ann \in Inputs /\ AnnotationConfig(ann)
    /\ arch \in Archs
    /\ cfg.err \in BOOLEAN
    /\ cfg.val \in [decoded : DecodedFields, spec : CopiedFields]
    /\ cfg.err => cfg.val = NilConfig

\* The mappings of the ports map that name this container.
Own(a) == SelectSeq(a.portMap, LAMBDA m : m[1] = a.containerName)

\* The ports map is malformed: some mapping, of whichever container, has
\* not exactly a name and a ports field, or a port of this container is
\* not a 16-bit number.
Malformed(a) ==
    \/ \E i \in DOMAIN a.portMap : Len(a.portMap[i]) # 2
    \/ \E i \in DOMAIN Own(a) : \E j \in DOMAIN Own(a)[i][2] :
           Own(a)[i][2][j] \notin 0..65535

\* The loops of NewConfig, with their continue and their early returns,
\* compute what the annotation means: the decode fails exactly on a
\* malformed ports map (or another annotation that does not parse), and
\* otherwise the ports are those of this container's mappings, in order.
PortsAsAnnotated ==
    phase = "decoded" =>
        /\ Malformed(ann) => cfg.err
        /\ ~cfg.err =>
               cfg.val.decoded.Ports =
                   FlattenSeq([i \in DOMAIN Own(ann) |-> Own(ann)[i][2]])

=============================================================================
