\* A state is one call of one function: the system stops when it has returned.
CONSTANTS
    c1 = c1
    c2 = c2
    help = help
    stat = stat
    NoName = NoName
    Nothing = Nothing
    Texts <- ShortTexts
    Counts <- SomeCounts
    Figures <- AllFigures
    Pages <- ShortPages
SPECIFICATION CalculationSpec
INVARIANTS
    PasscodeIsParity
    ChecksAreSpread
    UptimeIsHonest
    LabelsAreSafe
CHECK_DEADLOCK FALSE
