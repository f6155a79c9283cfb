SPECIFICATION FairSpec
CONSTANTS
    f1 = f1
    f2 = f2
    a1 = a1
    a2 = a2
    Quit = Quit
    None = None
    NumWorkers = 2
    NumConns = 3
    Fds <- MCFds
    Addrs <- MCAddrs
INVARIANTS Inv ContextsOfTheLiving
PROPERTIES EveryAcceptServed ShutdownReturns
CHECK_DEADLOCK FALSE
