\* One service, checked by its job and by hand at the same time.
CONSTANTS
    c1 = c1
    c2 = c2
    t1 = t1
    t2 = t2
    NoService = NoService
    NoCommand = NoCommand
    Callsigns <- OneService
    CommandNames = {}
    Folded <- NoNamesFolded
    Lowered <- NoNamesFolded
    HealthCommands = {}
    Tickets = {}
    Threads <- TwoThreads
    Manual <- OneService
    HealthChecksEnabled = TRUE
    MaxRetries = 3
    FailuresForDown = 3
    MaxChecks = 4
SPECIFICATION HealthSpec
INVARIANTS
    DownIsBacked
SYMMETRY ThreadSymmetry
