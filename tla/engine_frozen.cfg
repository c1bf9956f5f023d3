\* An account is frozen between the state check and the commit.
SPECIFICATION Spec
CONSTANTS
    k1 = k1
    k2 = k2
    k3 = k3
    k4 = k4
    Slots = {r1, r2}
    Accounts = {1, 2}
    GLCash = GL_CASH
    Keys = {k1, k2, k3, k4}
    NoTxn = NoTxn
    Offers <- MixedOffers
    MaxAmount = 2
    Opened = {1, 2}
    Faulty = FALSE
    StatusMoves <- AllMoves
PROPERTIES
    FrozenIsNotDebited
