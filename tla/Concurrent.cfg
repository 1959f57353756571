SPECIFICATION Spec
CONSTANTS
    c1 = c1
    c2 = c2
    t1 = t1
    t2 = t2
    e1 = e1
    k1 = k1
    k2 = k2
    NoExec = NoExec
    Nobody = Nobody
    Containers = {c1}
    Annotations <- Zeropods
    ExecIds = {e1}
    Calls = {t1, t2}
    May <- MayStartExec
    Conns = {}
    Faults <- AllFaults
    MaxProcs = 3
    RecyclePids = FALSE
INVARIANT PendingExecsCounted
INVARIANT LockHeldIffInSection
INVARIANT ScaledDownRestorable
INVARIANT ServiceTracksRestored
INVARIANT LiveIsMonitored
INVARIANT ExitNotLost
CHECK_DEADLOCK FALSE
