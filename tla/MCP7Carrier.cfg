CONSTANTS
    c1 = c1
    c2 = c2
    m1 = m1
    m2 = m2
    Coro = {c1}
    Started = {c1}
    Entry = {}
    Mortal = {}
    Careful = {}
    PoolCap = 1
    ByName = FALSE
    NCarriers = 2
    Message = {m1, m2}
    Dst <- MCDstOne
    UsesTimers = TRUE
    UsesIo = TRUE
    MayRefuse = TRUE
    PipeCap = 1
    Pipe = pipe
    None = none
SPECIFICATION Spec
INVARIANTS QueuesConsistent NoLostWakeup SentNoteFollows
PROPERTY BoxesAreMailboxes
CHECK_DEADLOCK FALSE
