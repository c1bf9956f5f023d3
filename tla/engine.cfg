\* Two goroutines over faults and retries: the ledger, the keys, the answers, how far an account can
\* be overdrawn, and no waiting for ever.
SPECIFICATION FairSpec
CONSTANTS
    k1 = k1
    k2 = k2
    k3 = k3
    k4 = k4
    Slots = {r1, r2}
    Accounts = {1, 2}
    GLCash = GL_CASH
    Keys = {k1, k2, k3, k4}
    NoTxn = NoTxn
    Offers <- MixedOffers
    MaxAmount = 2
    Opened = {1}
    Faulty = TRUE
    StatusMoves <- Opening
INVARIANTS
    LedgerAddsUp
    OverdraftBounded
PROPERTIES
    KeyMovesMoneyOnce
    CreatedMeansCommitted
    ImplementsBank
    EveryRequestAnswered
