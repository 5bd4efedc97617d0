\* Two services with jobs and nobody who triggers a check.
CONSTANTS
    c1 = c1
    c2 = c2
    t1 = t1
    t2 = t2
    NoService = NoService
    NoCommand = NoCommand
    Callsigns <- TwoServices
    CommandNames = {}
    Folded <- NoNamesFolded
    Lowered <- NoNamesFolded
    HealthCommands = {}
    Tickets = {}
    Threads <- TwoThreads
    Manual <- NoServices
    HealthChecksEnabled = TRUE
    MaxRetries = 2
    FailuresForDown = 2
    MaxChecks = 2
SPECIFICATION HealthFairSpec
PROPERTIES
    EveryCheckEnds
    SilentServiceGoesDown
