CONSTANTS
    Slot = {main, s1, s2}
    Main = main
    Request = {r1, r2}
    Submitted = {r1}
    MainWork = mainwork
    Fd = {fd1}
    BadFd = {}
    SharedFds = FALSE
    UseTimeouts = FALSE
    None = none
    Carrier = carrier
    SwarmEnabled = FALSE
    MaxTokens = 0
SPECIFICATION LiveSpec
PROPERTIES RunnableRuns ReadyWakes
