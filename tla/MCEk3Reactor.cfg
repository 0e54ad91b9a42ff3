CONSTANTS
    s1 = s1
    s2 = s2
    e1 = e1
    e2 = e2
    e3 = e3
    e4 = e4
    t1 = t1
    f1 = f1
    f2 = f2
    f3 = f3
    Session = {s1, s2}
    Event = {e1, e2, e3, t1}
    SessionOf <- MCSessionOf
    OwnFd <- MCOwnFd
    FdOf <- MCFdOf
    Timer = {t1}
    Posted = {e2}
    Capacity = 2
    TakesAll = TRUE
    UsesTable = TRUE
    NoEvent = noevent
SPECIFICATION LiveReactorSpec
INVARIANTS SessionsPlaced ReportsAreLive NotifiedIsReturned
CHECK_DEADLOCK FALSE
PROPERTY ReadyDelivered
