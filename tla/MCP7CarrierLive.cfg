CONSTANTS
    c1 = c1
    c2 = c2
    m1 = m1
    m2 = m2
    Coro = {c1, c2}
    Started = {c1}
    Entry = {e1}
    Mortal = {}
    Careful = {}
    PoolCap = 1
    ByName = FALSE
    NCarriers = 2
    Message = {m1, m2}
    Dst <- MCDstNew
    UsesTimers = FALSE
    UsesIo = FALSE
    MayRefuse = FALSE
    PipeCap = 3
    Pipe = pipe
    None = none
SPECIFICATION LiveSpec
PROPERTIES MessagesReceived RequestsRun
