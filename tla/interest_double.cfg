\* Two postings at once.
SPECIFICATION Spec
CONSTANTS
    Accounts = {1, 2}
    Days = {1, 2}
    RatedDays = {1, 2}
    RateNum = 1
    RateDen = 4
    Opening <- DepositsOfTwo
    Workers = {w1, w2}
    Calls <- DailyCalls
    Expense = GL_INTEREST_EXPENSE
    Faulty = FALSE
INVARIANTS
    PaidOnce
