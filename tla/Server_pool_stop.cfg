SPECIFICATION Spec
CONSTANTS
    Models = {"pool"}
    NumThreads = 1
    c1 = c1
    c2 = c2
    c3 = c3
    Conns <- MCConns2
    NULL = NULL
PROPERTIES SignalStops
