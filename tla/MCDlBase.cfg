CONSTANTS
    User = {u1, u2}
    Manager = manager
    Library = {l1, l2, l3}
    Preemptive = TRUE
    KeepsSymbols = TRUE
    Modulus = 8
    None = none
SPECIFICATION Spec
SYMMETRY Symmetry
INVARIANT ObjectsPlaced
CHECK_DEADLOCK FALSE
