\* One service, one thread, every handler.
CONSTANTS
    c1 = c1
    c2 = c2
    t1 = t1
    t2 = t2
    help = help
    HELP = HELP
    kelvin = kelvin
    ping = ping
    blank = blank
    i1 = i1
    i2 = i2
    i3 = i3
    NoService = NoService
    NoCommand = NoCommand
    Callsigns <- OneService
    CommandNames = {}
    Folded <- NoNamesFolded
    Lowered <- NoNamesFolded
    HealthCommands = {}
    Tickets = {}
    Threads <- OneThread
    Manual <- NoServices
    HealthChecksEnabled = TRUE
    MaxRetries = 1
    FailuresForDown = 3
    MaxChecks = 2
    Requests <- AnyStatus
    Forms <- AnyForm
    Blank = blank
    CommandLists <- NoLists
    MaxEdits = 1
SPECIFICATION Spec
PROPERTIES
    CheckKeepsDeleted
