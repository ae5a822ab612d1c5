CONSTANTS
    Threads = {w, m}
    World = w
    Main = main
    Delayer = delayer
    MaxOps = 2
    MaxStmts = 2
SPECIFICATION Spec
INVARIANTS TypeOK Fifo AllOrNothing AnswersSeePrecedingWrites CallbackOrder NoLockCycle HaltFlushes
PROPERTIES ImplementsAsyncDb
