CONSTANTS
    Producer = {p1, p2}
    Message = {m1, m2, m3}
    NoProducer = none
    NoMessage = nothing
SPECIFICATION BoxSpec
SYMMETRY Symmetry
INVARIANTS BoxTypeOK NoListRace
PROPERTY ImplementsMailbox
