SPECIFICATION Spec
CONSTANTS
    c1 = c1
    c2 = c2
    t1 = t1
    t2 = t2
    e1 = e1
    k1 = k1
    k2 = k2
    NoExec = NoExec
    Nobody = Nobody
    Containers = {c1, c2}
    Annotations <- Pod
    ExecIds = {e1}
    Calls = {t1}
    May <- MayStart
    Conns = {k1, k2}
    Faults <- CycleFaults
    MaxProcs = 3
    RecyclePids = FALSE
PROPERTY ImplementsLifecycle
CHECK_DEADLOCK FALSE
