SPECIFICATION LFairSpec
CONSTANTS
    sb = sb
    app = app
    t1 = t1
    t2 = t2
    Nobody = Nobody
    Containers = {sb, app}
    Sandboxes = {sb}
    Calls = {t1, t2}
    Faults <- AllFaults
    MaxPid = 4
INVARIANT LTypeOK
INVARIANT ListeningIsScaledDown
INVARIANT CheckpointedNeverExited
PROPERTY ExitGetsPublished
PROPERTY LegacyImplementsLifecycle
CHECK_DEADLOCK FALSE
