\* A deposit races the closing of its account.
SPECIFICATION CoreSpec
CONSTANTS
    k1 = k1
    k2 = k2
    Slots = {r1}
    Clerks = {c1, c2}
    Accounts = {1, 2}
    GLCash = GL_CASH
    Keys = {k1, k2}
    Offers <- InAndOut
    MaxAmount = 1
    Tasks <- CloseTasks
    HoldIds = {}
    MaxVersion = 3
    NoTxn = NoTxn
    NoHold = NoHold
    NoTask = NoTask
    NoEntry = NoEntry
    Opened = {1}
    Faulty = FALSE
    StatusMoves <- AllMoves
PROPERTIES
    ClosedEmpty
