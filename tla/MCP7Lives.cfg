CONSTANTS
    c1 = c1
    c2 = c2
    m1 = m1
    m2 = m2
    Coro = {c1, c2}
    Started = {c1}
    Entry = {e1}
    Mortal = {c1, e1}
    Careful = {e1}
    PoolCap = 1
    ByName = TRUE
    NCarriers = 2
    Message = {m1}
    Dst <- MCDstOne
    UsesTimers = FALSE
    UsesIo = TRUE
    MayRefuse = TRUE
    PipeCap = 1
    Pipe = pipe
    None = none
SPECIFICATION Spec
INVARIANTS QueuesConsistent LocalMailKeepsLife NoListRace
CHECK_DEADLOCK FALSE
