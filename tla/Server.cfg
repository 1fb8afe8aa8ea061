SPECIFICATION Spec
CONSTANTS
    Models <- MCAllModels
    NumThreads = 2
    c1 = c1
    c2 = c2
    c3 = c3
    Conns <- MCConns3
    NULL = NULL
INVARIANTS ExactlyOneOwner NoHandlerAfterTeardown
PROPERTIES Served ShutdownCompletes
