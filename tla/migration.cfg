\* Up to three runs of the migration on files of eight kinds, with a server.
\* The VIEW leaves out the audit row, which no action reads.
CONSTANTS
    c1 = c1
    c2 = c2
    help = help
    i1 = i1
    i2 = i2
    i3 = i3
    NoCommand = NoCommand
    Callsigns <- TwoServices
    CommandNames = {help}
    Folded <- NamesFolded
    Lowered <- NamesFolded
    HealthCommands = {}
    Tickets <- ThreeTickets
    Pickles <- SomePickles
    ServerRows <- Registrations
    ServerStatuses = {"active", "deleted"}
    ServerIds = {i3}
    MaxRuns = 3
SPECIFICATION CommandLineSpec
INVARIANTS
    CommandLineTypeOK
    MigrationMovesEverything
    CleanRunsSucceed
PROPERTIES
    DecisionsSurvive
VIEW ButAudit
