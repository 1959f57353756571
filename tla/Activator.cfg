SPECIFICATION AFairSpec
CONSTANTS
    p1 = p1
    p2 = p2
    p3 = p3
    g1 = g1
    g2 = g2
    g3 = g3
    FreePorts = {p1, p2, p3}
    Clients = {g1, g2, g3}
INVARIANT ATypeOK
INVARIANT RequestsSucceed
INVARIANT StoppedAfterAnswers
PROPERTY TestFinishes
CHECK_DEADLOCK FALSE
