\* The event loop and a check thread; calls of the loop may fail.
CONSTANTS
    loop = loop
    thread = thread
    Clients <- LoopAndThread
    MethodsOf <- FewMethodsOf
    MayFail <- LoopAlone
    MaxCalls = 2
SPECIFICATION ConnectionSpec
INVARIANTS
    ReturnedIsDurable
CHECK_DEADLOCK FALSE
