SPECIFICATION ApiFairSpec
CONSTANTS
    k1 = k1
    k2 = k2
    Slots = {r1, r2}
    Accounts = {1}
    GLCash = GL_CASH
    Keys = {k1, k2}
    NoTxn = NoTxn
    NoHeader = NoHeader
    NoResponse = NoResponse
    GetFails = FALSE
    SetFails = TRUE
    Offers <- Both
    MaxAmount = 1
    Envelopes <- Letters
    Opened = {1}
    Faulty = FALSE
    StatusMoves <- Freezing
    InterestDue = {0, 1}
    MaxInterest = 1
INVARIANTS
    ToldCreatedMeansCommitted
PROPERTIES
    ImplementsPayingBank
    CarriedOutIsTold
