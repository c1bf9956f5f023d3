------------------------------ MODULE Interest ------------------------------
(***************************************************************************)
(* Daily accrual and posting of interest: internal/domain/interest.        *)
(*                                                                         *)
(* AccrueDaily reads the balances of the active savings accounts in one    *)
(* query and then inserts one accrual after the other, each committed by   *)
(* itself; a second accrual of an account on a day violates a unique       *)
(* constraint and ends the loop.  PostAccruedInterest reads the unposted   *)
(* accruals and writes a transaction for each inside one database          *)
(* transaction: nobody sees the entries before the commit, but the row of  *)
(* an accrual is locked from its update on, and another posting waits.     *)
(*                                                                         *)
(* Money is counted in units of the last digit of DECIMAL(19,4).           *)
(***************************************************************************)
EXTENDS Integers, FiniteSets, Functions

CONSTANTS
    Accounts,   \* the active savings accounts; numbers, since postings go in their order
    Days,       \* the dates interest is accrued for
    RatedDays,  \* those on which a rate is in force
    RateNum, RateDen, \* the daily rate, annual rate over 365, as a fraction
    Opening,    \* the balance each account has from its deposits
    Workers,    \* goroutines that serve the calls
    Calls,      \* the calls clients make: what is to be done, through or on which day
    Expense,    \* the account "GL_INTEREST_EXPENSE"
    Faulty      \* TRUE: statements may fail and goroutines die

CallType == [op : {"accrue", "post"}, day : Days]
Rows == Days \X Accounts
Ledgers == Accounts \cup {Expense}

ASSUME InterestAssumption ==
    /\ Accounts \subseteq Nat /\ Days \subseteq Nat /\ RatedDays \subseteq Days
    /\ IsFiniteSet(Accounts) /\ IsFiniteSet(Days)
    /\ Expense \notin Accounts
    /\ RateNum \in Nat /\ RateDen \in Nat \ {0}
    /\ Opening \in [Accounts -> Nat]
    /\ Calls \subseteq CallType /\ Calls # {}
    /\ IsFiniteSet(Workers)
    /\ Faulty \in BOOLEAN

VARIABLES
    accrued,    \* interest_amount of each row of interest_accrual, 0 when there is no row
    posted,     \* the rows that are marked as posted
    paid,       \* how many INTEREST transactions have been committed for each row
    credit,     \* SUM of the committed CREDIT entries interest has written, by account
    debit,      \* SUM of the DEBIT entries
    at,         \* where each worker is
    call,       \* the call it serves
    balance,    \* the balances its accrual has read
    todo,       \* accounts it has still to accrue
    list,       \* unposted rows its posting has read and still to write
    written,    \* rows its open transaction has written
    told        \* the HTTP status of its last answer, 0 until it has one

store == <<accrued, posted, paid, credit, debit>>
vars == <<store, at, call, balance, todo, list, written, told>>

Balance(a) == Opening[a] + credit[a] - debit[a]

\* balance times daily rate, rounded half up to the fourth decimal.  (The code rounds
\* the rate to sixteen decimals first.)
DailyInterest(b) == (2 * b * RateNum + RateDen) \div (2 * RateDen)

\* An accrual of nothing is never written.
Exists(x) == accrued[x] # 0

\* A slip: the query has no ORDER BY.
InAnyOrder(x, y) == TRUE

\* ORDER BY accrual_date, account_id.
Before(x, y) == x[1] < y[1] \/ (x[1] = y[1] /\ x[2] < y[2])

\* A slip: the update takes no lock.
NeverLocked(w, x) == FALSE

LockedByOther(w, x) == \E v \in Workers \ {w} : x \in written[v]

Init ==
    /\ accrued = [x \in Rows |-> 0]
    /\ posted = {}
    /\ paid = [x \in Rows |-> 0]
    /\ credit = [a \in Ledgers |-> 0]
    /\ debit = [a \in Ledgers |-> 0]
    /\ at = [w \in Workers |-> "idle"]
    /\ call = [w \in Workers |-> CHOOSE c \in Calls : TRUE]
    /\ balance = [w \in Workers |-> [a \in Accounts |-> 0]]
    /\ todo = [w \in Workers |-> {}]
    /\ list = [w \in Workers |-> {}]
    /\ written = [w \in Workers |-> {}]
    /\ told = [w \in Workers |-> 0]

\* A slip: the transaction is left open.
AnswerAndKeepLocks(w, code) ==
    /\ at' = [at EXCEPT ![w] = "idle"]
    /\ told' = [told EXCEPT ![w] = code]
    /\ balance' = [balance EXCEPT ![w] = [a \in Accounts |-> 0]]
    /\ todo' = [todo EXCEPT ![w] = {}]
    /\ list' = [list EXCEPT ![w] = {}]
    /\ UNCHANGED <<call, written>>

\* The handler returns; an open transaction is rolled back.
Answer(w, code) ==
    /\ at' = [at EXCEPT ![w] = "idle"]
    /\ told' = [told EXCEPT ![w] = code]
    /\ balance' = [balance EXCEPT ![w] = [a \in Accounts |-> 0]]
    /\ todo' = [todo EXCEPT ![w] = {}]
    /\ list' = [list EXCEPT ![w] = {}]
    /\ written' = [written EXCEPT ![w] = {}]
    /\ UNCHANGED call

Call(w, c) ==
    /\ at[w] = "idle"
    /\ at' = [at EXCEPT ![w] = c.op]
    /\ call' = [call EXCEPT ![w] = c]
    /\ told' = [told EXCEPT ![w] = 0]
    /\ UNCHANGED <<store, balance, todo, list, written>>

\* getActiveSavingsBalances keeps the accounts with a positive balance.
ReadBalances(w) ==
    /\ at[w] = "accrue"
    /\ at' = [at EXCEPT ![w] = "accruing"]
    /\ balance' = [balance EXCEPT ![w] = [a \in Accounts |-> Balance(a)]]
    /\ todo' = [todo EXCEPT ![w] = {a \in Accounts : Balance(a) > 0}]
    /\ UNCHANGED <<store, call, list, written, told>>

\* A slip: the loop ends at the first account without interest.
AccrueOrStop(w, a) ==
    LET x == <<call[w].day, a>>
        amount == DailyInterest(balance[w][a]) IN
    /\ at[w] = "accruing"
    /\ a \in todo[w]
    /\ IF call[w].day \in RatedDays /\ amount # 0 /\ ~Exists(x)
          THEN /\ accrued' = [accrued EXCEPT ![x] = amount]
               /\ todo' = [todo EXCEPT ![w] = @ \ {a}]
               /\ UNCHANGED <<posted, paid, credit, debit, at, call, balance, list, written, told>>
          ELSE Answer(w, IF Exists(x) THEN 500 ELSE 200) /\ UNCHANGED store

\* One turn of the loop: the rate is read, and an accrual that is not zero inserted.  The
\* query has no ORDER BY: any account may be next.
AccrueOne(w, a) ==
    LET x == <<call[w].day, a>>
        amount == DailyInterest(balance[w][a]) IN
    /\ at[w] = "accruing"
    /\ a \in todo[w]
    /\ \/ /\ call[w].day \notin RatedDays \/ amount = 0
          /\ todo' = [todo EXCEPT ![w] = @ \ {a}]
          /\ UNCHANGED <<store, at, call, balance, list, written, told>>
       \/ /\ call[w].day \in RatedDays /\ amount # 0
          /\ ~Exists(x)
          /\ accrued' = [accrued EXCEPT ![x] = amount]
          /\ todo' = [todo EXCEPT ![w] = @ \ {a}]
          /\ UNCHANGED <<posted, paid, credit, debit, at, call, balance, list, written, told>>
       \/ /\ call[w].day \in RatedDays /\ amount # 0
          /\ Exists(x)
          /\ Answer(w, 500)
          /\ UNCHANGED store

AccrualDone(w) ==
    /\ at[w] = "accruing"
    /\ todo[w] = {}
    /\ Answer(w, 200)
    /\ UNCHANGED store

\* A slip: posted accruals are read too.
ReadAll(w) ==
    /\ at[w] = "post"
    /\ at' = [at EXCEPT ![w] = "posting"]
    /\ list' = [list EXCEPT ![w] = {x \in Rows : x[1] <= call[w].day /\ Exists(x)}]
    /\ UNCHANGED <<store, call, balance, todo, written, told>>

\* getUnpostedAccruals: a plain SELECT, it locks nothing.
ReadUnposted(w) ==
    /\ at[w] = "post"
    /\ at' = [at EXCEPT ![w] = "posting"]
    /\ list' = [list EXCEPT ![w] =
                  {x \in Rows : x[1] <= call[w].day /\ Exists(x) /\ x \notin posted}]
    /\ UNCHANGED <<store, call, balance, todo, written, told>>

\* One turn of the loop: the transaction, its two entries, and the update of the accrual,
\* which waits for a transaction that has updated it but does not look at what it then finds.
WriteOne(w, x) ==
    /\ at[w] = "posting"
    /\ x \in list[w]
    /\ \A y \in list[w] \ {x} : Before(x, y)
    /\ ~LockedByOther(w, x)
    /\ list' = [list EXCEPT ![w] = @ \ {x}]
    /\ written' = [written EXCEPT ![w] = @ \cup {x}]
    /\ UNCHANGED <<store, at, call, balance, todo, told>>

SumOver(S, Value(_)) == SumFunctionOnSet([x \in S |-> Value(x)], S)

\* A slip: the interest is computed again when it is paid.
DueNow(x) == DailyInterest(Balance(x[2]))

\* What a posting pays for an accrual.
Due(x) == accrued[x]

\* The entry type is the literal 'CREDIT' of insertEntry, for the expense account too.
CommitPosting(w) ==
    /\ at[w] = "posting"
    /\ list[w] = {}
    /\ posted' = posted \cup written[w]
    /\ paid' = [x \in Rows |-> IF x \in written[w] THEN paid[x] + 1 ELSE paid[x]]
    /\ credit' = [a \in Ledgers |->
          credit[a] + SumOver({x \in written[w] : a \in {x[2], Expense}}, Due)]
    /\ UNCHANGED <<accrued, debit>>
    /\ Answer(w, 200)

Fault(w) ==
    /\ Faulty
    /\ at[w] # "idle"
    /\ Answer(w, 500)
    /\ UNCHANGED store

Step(w) ==
    \/ ReadBalances(w)
    \/ \E a \in Accounts : AccrueOne(w, a)
    \/ AccrualDone(w)
    \/ ReadUnposted(w)
    \/ \E x \in Rows : WriteOne(w, x)
    \/ CommitPosting(w)

Next == \E w \in Workers : Step(w) \/ Fault(w) \/ \E c \in Calls : Call(w, c)

Spec == Init /\ [][Next]_vars

\* A worker runs on until it waits for a lock, and gets it in its turn.
FairSpec == Spec /\ \A w \in Workers : SF_vars(Step(w))

\* Clients call for a posting again and again.
PersistentPosting ==
    /\ FairSpec
    /\ \A c \in Calls : c.op = "post" => SF_vars(\E w \in Workers : Call(w, c))

----------------------------------------------------------------------------
\* Properties

\* Every variable stays in its type.
TypeOK ==
    /\ accrued \in [Rows -> Nat]
    /\ posted \subseteq Rows
    /\ paid \in [Rows -> Nat]
    /\ credit \in [Ledgers -> Nat]
    /\ debit \in [Ledgers -> Nat]
    /\ at \in [Workers -> {"idle", "accrue", "accruing", "post", "posting"}]
    /\ call \in [Workers -> Calls]
    /\ balance \in [Workers -> [Accounts -> Int]]
    /\ todo \in [Workers -> SUBSET Accounts]
    /\ list \in [Workers -> SUBSET Rows]
    /\ written \in [Workers -> SUBSET Rows]
    /\ told \in [Workers -> {0, 200, 500}]

\* An accrual is marked as posted if and only if its interest has been paid, though
\* a posting can fail between any two accruals (service.go:90 "Everything executes in
\* a single database transaction").
PostedIffPaid == \A x \in Rows : paid[x] > 0 <=> x \in posted

\* What makes PostedIffPaid inductive: postings work on rows that are there, and a row has
\* been updated by one open transaction at most.
PostingsOK ==
    \A w \in Workers :
        /\ \A x \in list[w] \cup written[w] : Exists(x)
        /\ at[w] # "posting" => list[w] = {} /\ written[w] = {}
        /\ \A v \in Workers \ {w} : written[w] \cap written[v] = {}

\* A row is marked only when it is there.
IInv ==
    /\ TypeOK
    /\ PostedIffPaid
    /\ PostingsOK
    /\ \A x \in posted : Exists(x)

\* However often postings are called, the interest of a day is paid once by each goroutine
\* at most: only postings that overlap pay it again.
PaidOncePerWorker == \A x \in Rows : paid[x] <= Cardinality(Workers)

\* The interest of a day is paid once (openapi: "Posts all accrued but unposted interest").
PaidOnce == \A x \in Rows : paid[x] <= 1

\* A customer is credited exactly what was accrued for the payments made.
CreditsAreAccruals ==
    \A a \in Accounts :
        credit[a] = SumOver({x \in Rows : x[2] = a /\ paid[x] > 0},
                            LAMBDA x : paid[x] * accrued[x])

\* Postings through different days, which lock the same rows, do not wait on each other
\* for ever: they update them in one order.
EveryCallAnswered == \A w \in Workers : at[w] # "idle" ~> at[w] = "idle"

\* Accrued interest reaches the customer, if posting is repeated and statements do not fail
\* for ever: nothing a failed or overlapping posting leaves behind stops the next one.
AccruedIsPosted ==
    <>[][\A w \in Workers : ~Fault(w)]_vars
        => \A x \in Rows : Exists(x) ~> x \in posted

\* An account with interest from the start.
Eligible(a) == DailyInterest(Opening[a]) > 0

\* An accrual that reports success leaves no eligible account out, whoever else accrues or
\* posts meanwhile.
ReportedAccrualsComplete ==
    [][\A w \in Workers :
        /\ at[w] = "accruing" /\ call[w].day \in RatedDays
        /\ at'[w] = "idle" /\ told'[w] = 200
        => \A a \in Accounts : Eligible(a) => Exists(<<call[w].day, a>>)]_vars
=============================================================================
