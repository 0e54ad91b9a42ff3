CONSTANTS
    Slot = {main, s1, s2}
    Main = main
    Request = {r1, r2, r3}
    Submitted = {r1}
    MainWork = mainwork
    Fd = {fd1, fd2}
    BadFd = {fd2}
    SharedFds = TRUE
    UseTimeouts = TRUE
    None = none
    Carrier = carrier
    SwarmEnabled = TRUE
    MaxTokens = 1
SPECIFICATION Spec
SYMMETRY Symmetry
INVARIANTS QueuesConsistent StackAlive
    RegistrationsAreLive RequestsConserved

CHECK_DEADLOCK FALSE
