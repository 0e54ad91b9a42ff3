CONSTANTS
    a = a
    b = b
    c = c
    k = k
    l = l
    Coro = {a, b, c}
    Carrier = {k, l}
    InitialQueue <- Queues
    Modulus = 4
SPECIFICATION LiveSpec
INVARIANTS TypeOK WriterExclusion
PROPERTIES ImplementsFairLock NoStarvation
