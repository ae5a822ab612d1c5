CONSTANTS
    Threads = {w}
    World = w
    Main = main
    Delayer = delayer
    MaxOps = 2
    MaxStmts = 1
SPECIFICATION Spec
PROPERTIES EventuallyExecuted CallbacksRun ShutdownCompletes
