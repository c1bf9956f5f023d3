\* Two goroutines whose statements all succeed spend the same balance.
SPECIFICATION Spec
CONSTANTS
    k1 = k1
    k2 = k2
    k3 = k3
    k4 = k4
    Slots = {r1, r2}
    Accounts = {1, 2}
    GLCash = GL_CASH
    Keys = {k1, k2, k3, k4}
    NoTxn = NoTxn
    Offers <- MixedOffers
    MaxAmount = 2
    Opened = {1, 2}
    Faulty = FALSE
    StatusMoves = {}
INVARIANTS
    NoOverdraft
