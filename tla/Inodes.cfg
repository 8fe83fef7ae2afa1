SPECIFICATION Spec
CONSTANTS
    p1 = p1
    p2 = p2
    a = a
    b = b
    Procs = {p1, p2}
    Nobody = Nobody
    NINODE = 6
    Inums <- MCInums
    Root = 1
    DotDot = DotDot
    Names = {DotDot, a, b}
    Workloads <- MCWorkloads
INVARIANTS TableAgrees LinksAgree AssertionsHold
PROPERTIES LinksGoBack CallsReturn
CHECK_DEADLOCK FALSE
