SPECIFICATION Spec
CONSTANTS
    c1 = c1
    c2 = c2
    t1 = t1
    t2 = t2
    e1 = e1
    k1 = k1
    k2 = k2
    NoExec = NoExec
    Nobody = Nobody
    Containers = {c1}
    Annotations <- Zeropods
    ExecIds = {e1}
    Calls = {t1}
    May <- MayStart
    Conns = {k1}
    Faults <- NoFaults
    MaxProcs = 2
    RecyclePids = FALSE
PROPERTY StartedExitNotMissed
CHECK_DEADLOCK FALSE
