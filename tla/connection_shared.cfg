\* The event loop and a check thread; every call may fail.
CONSTANTS
    loop = loop
    thread = thread
    Clients <- LoopAndThread
    MethodsOf <- FewMethodsOf
    MayFail <- LoopAndThread
    MaxCalls = 2
SPECIFICATION ConnectionSpec
INVARIANTS
    LostOnlyByRollback
    DurableIsPrefix
PROPERTIES
    KeepsPromise
CHECK_DEADLOCK FALSE
