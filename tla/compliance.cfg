SPECIFICATION Spec
CONSTANTS
    near1 = near1
    near2 = near2
    large = large
    Screeners = {s1, s2}
    Accounts = {1}
    Entries = {near1, near2, large}
    AccountOf <- Owner
    Amount <- Sums
    CTRThreshold = 4
    StructuringMargin = 3
    VelocityCount = 2
    VelocityAmount = 6
    StructuringMinCount = 2
    Window = 1
    NoTime = NoTime
    NoAlert = NoAlert
    NoEntry = NoEntry
    Decisions = {"OPEN", "FILED"}
    MaxTime = 2
    MaxFailures = 1
    MaxDecided = 1
INVARIANTS
    TypeOK
    RulesAreApplied
    FlagsAreJustified
SYMMETRY Alike
CHECK_DEADLOCK FALSE
