CONSTANTS
    NCarriers = 2
    Self = 0
    Foreign = {f1, f2}
    Message = {m1, m2}
    None = none
SPECIFICATION LiveSpec

INVARIANTS TypeOK NoLostWakeup
PROPERTIES BoxesAreMailboxes EveryPostArrives
