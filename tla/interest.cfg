\* Two workers accrue and post at once, postings through both days lock the rows of the first, the
\* second has no rate, and anything may fail.
SPECIFICATION PersistentPosting
CONSTANTS
    Accounts = {1, 2, 3}
    Days = {1, 2}
    RatedDays = {1}
    RateNum = 1
    RateDen = 4
    Opening <- Deposits
    Workers = {w1, w2}
    Calls <- MixedCalls
    Expense = GL_INTEREST_EXPENSE
    Faulty = TRUE
INVARIANTS
    IInv
    CreditsAreAccruals
    PaidOncePerWorker
PROPERTIES
    ReportedAccrualsComplete
    EveryCallAnswered
    AccruedIsPosted
