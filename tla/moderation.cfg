\* One service, its commands and the moderation queue; no checks.
\* The VIEW leaves out the audit row, which no action reads.
CONSTANTS
    c1 = c1
    c2 = c2
    t1 = t1
    t2 = t2
    help = help
    HELP = HELP
    kelvin = kelvin
    ping = ping
    blank = blank
    i1 = i1
    i2 = i2
    i3 = i3
    NoService = NoService
    NoCommand = NoCommand
    Callsigns <- OneService
    CommandNames <- Names
    Folded <- NamesFolded
    Lowered <- NamesLowered
    HealthCommands = {ping, blank}
    Tickets <- TwoTickets
    Threads = {}
    Manual <- NoServices
    HealthChecksEnabled = TRUE
    MaxRetries = 3
    FailuresForDown = 3
    MaxChecks = 4
    Requests <- ActiveWithLists
    Forms <- ActiveForms
    Blank = blank
    CommandLists <- Lists
    MaxEdits = 1
SPECIFICATION Spec
INVARIANTS
    PendingUnique
    CommandsFoldUnique
PROPERTIES
    RegistrationKeepsAdminFields
    RewritesKeepDeleted
SYMMETRY TicketSymmetry
VIEW ButAudit
