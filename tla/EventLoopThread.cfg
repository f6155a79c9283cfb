SPECIFICATION FairThreadSpec
CONSTANTS
    main = main
    other = other
    t1 = t1
    t2 = t2
    t3 = t3
    quitF = quitF
    NoTask = NoTask
    Posters <- MCPosters
    Tasks <- MCTasks
    Quit <- quitF
    owner <- main
INVARIANTS ThreadIInv NoLostWakeup QuitDrains StartedLoopLives JoinedLoopDrained
PROPERTIES ImplementsTaskQueue CallsReturn
CHECK_DEADLOCK FALSE
