\* One service only its job checks, and every status write of the handlers.
\* The VIEW leaves out the audit row, which no action reads.
CONSTANTS
    c1 = c1
    c2 = c2
    t1 = t1
    t2 = t2
    help = help
    HELP = HELP
    kelvin = kelvin
    ping = ping
    blank = blank
    i1 = i1
    i2 = i2
    i3 = i3
    NoService = NoService
    NoCommand = NoCommand
    Callsigns <- OneService
    CommandNames = {}
    Folded <- NoNamesFolded
    Lowered <- NoNamesFolded
    HealthCommands = {}
    Tickets = {}
    Threads <- TwoThreads
    Manual <- NoServices
    HealthChecksEnabled = TRUE
    MaxRetries = 2
    FailuresForDown = 3
    MaxChecks = 6
    Requests <- OwnStatuses
    Forms <- AnyForm
    Blank = blank
    CommandLists <- NoLists
    MaxEdits = 0
SPECIFICATION Spec
INVARIANTS
    TypeOK
    DownAfterConsecutiveFailures
    AnsweredCheckSucceeds
PROPERTIES
    StatusesFollowLifecycle
    DecidedByHistory
SYMMETRY ThreadSymmetry
VIEW ButAudit
