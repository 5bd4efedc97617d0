\* Two runs of the migration, with a server.
CONSTANTS
    c1 = c1
    c2 = c2
    help = help
    i1 = i1
    i2 = i2
    i3 = i3
    NoCommand = NoCommand
    Callsigns <- TwoServices
    CommandNames = {help}
    Folded <- NamesFolded
    Lowered <- NamesFolded
    HealthCommands = {}
    Tickets <- ThreeTickets
    Pickles <- SomePickles
    ServerRows <- Registrations
    ServerStatuses = {"active", "deleted"}
    ServerIds = {i3}
    MaxRuns = 2
SPECIFICATION CommandLineSpec
INVARIANTS
    MigrationCanBeRerun
