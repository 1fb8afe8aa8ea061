SPECIFICATION Spec
CONSTANTS
    NumThreads = 3
    i1 = i1
    i2 = i2
    i3 = i3
    i4 = i4
    Items <- MCItems4
    NULL = NULL
INVARIANTS QueueWellFormed NoLostWakeup SingleOwner NoUseAfterFree LifeCycle
PROPERTIES DestroyReturns ImplementsWorkQueue
