\* An account is opened, read, encumbered, frozen and closed by two clerks while a deposit comes
\* in; statements, goroutines and Redis may fail.
SPECIFICATION CoreFairSpec
CONSTANTS
    k1 = k1
    k2 = k2
    Slots = {r1}
    Clerks = {c1, c2}
    Accounts = {1}
    GLCash = GL_CASH
    Keys = {k1}
    Offers <- JustIn
    MaxAmount = 1
    Tasks <- LifeTasks
    HoldIds = {h1, h2}
    MaxVersion = 2
    NoTxn = NoTxn
    NoHold = NoHold
    NoTask = NoTask
    NoEntry = NoEntry
    Opened = {}
    Faulty = TRUE
    StatusMoves <- AllMoves
INVARIANTS
    EventsTellTheState
PROPERTIES
    EngineUnderAccounts
    CacheConverges
