-------------------------- MODULE TransactionEngine --------------------------
(***************************************************************************)
(* Deposits, withdrawals and transfers: internal/domain/transaction.       *)
(*                                                                         *)
(* Several requests are served at once, by the goroutines of three         *)
(* replicas.  Each runs the same sequence of SQL statements: the key is    *)
(* looked up and the account states are read on the pool, outside any      *)
(* transaction; then, inside RunInTx, the balances are read and locked in  *)
(* the order of the account ids, the funds are checked, and the header,    *)
(* the two entries, the SETTLED status and the outbox event are written;   *)
(* after the commit the response is read back on the pool.  An action is   *)
(* one statement, or a run of statements nobody else can see between.      *)
(*                                                                         *)
(* The balance query locks the entries its snapshot holds and returns the  *)
(* sum of that snapshot: a sum may be old when the lock is granted, and an *)
(* account without entries is not locked at all.                           *)
(*                                                                         *)
(* Money is counted in units of the last digit of DECIMAL(19,4).           *)
(***************************************************************************)
EXTENDS Integers, FiniteSets, Functions

CONSTANTS
    Slots,      \* goroutines that serve requests, over all replicas
    Accounts,   \* customer account ids; an id is a number so that ids can be ordered
    GLCash,     \* glCashAccountID, the ledger account of the bank's cash
    Keys,       \* idempotency keys
    Offers,     \* the requests clients send, well formed or not
    NoTxn,      \* no row of transactions has this key
    Opened,     \* accounts open from the start; the others are opened later
    MaxAmount,  \* no request asks for more: the column holds 19 digits
    Faulty,     \* TRUE: any statement may fail, and any goroutine die
    StatusMoves \* the changes of account state that happen meanwhile

Kinds == {"deposit", "withdrawal", "transfer"}
Statuses == {"ABSENT", "ACTIVE", "FROZEN", "CLOSED"}

Request == [kind : Kinds, key : Keys, from : Accounts \cup {GLCash},
            to : Accounts \cup {GLCash}, amount : Int]

Ledgers == Accounts \cup {GLCash}
LegType == [account : Ledgers, amount : Int, running : Int]
RowType == [kind : Kinds, debit : LegType, credit : LegType]

ASSUME AccountsAssumption ==
    Accounts \subseteq Nat /\ IsFiniteSet(Accounts) /\ GLCash \notin Accounts
ASSUME SlotsAssumption == IsFiniteSet(Slots) /\ Slots # {}
ASSUME OffersAssumption ==
    /\ Offers \subseteq Request /\ Offers # {}
    /\ MaxAmount \in Nat
    /\ \A q \in Offers :
        /\ q.amount <= MaxAmount
        /\ q.kind = "deposit" <=> q.from = GLCash
        /\ q.kind = "withdrawal" <=> q.to = GLCash
ASSUME NoTxnAssumption == NoTxn \notin RowType
ASSUME StoreAssumption ==
    /\ Opened \subseteq Accounts
    /\ Faulty \in BOOLEAN
    /\ StatusMoves \subseteq {<<"ABSENT", "ACTIVE">>, <<"ACTIVE", "FROZEN">>,
                            <<"ACTIVE", "CLOSED">>, <<"FROZEN", "CLOSED">>}

VARIABLES
    txns,       \* committed rows of transactions, by idempotency_key, with their two entries
    credit,     \* SUM of the committed CREDIT entries of each ledger account
    debit,      \* SUM of the committed DEBIT entries of each ledger account
    outbox,     \* keys of the transactions with a row in outbox_events
    past,       \* history, read by no action: the balances each account has had
    status,     \* accounts.status, ABSENT when there is no row
    pc,         \* where each slot is in its handler
    req,        \* the request it serves
    verified,   \* accounts whose state it has read
    queried,    \* accounts whose balance it has read in its transaction
    held,       \* accounts whose entries it has locked
    seen,       \* the balances it has read
    reply       \* the HTTP status of its last answer, 0 until it has one

ledger == <<txns, credit, debit, outbox, past>>
local == <<verified, queried, held, seen>>
vars == <<ledger, status, pc, req, local, reply>>

----------------------------------------------------------------------------
\* The two entries of a request and the accounts it locks

\* DEBIT the payer, CREDIT the payee; the cash account stands on one side of a
\* deposit or a withdrawal.
Customers(q) == {q.from, q.to} \ {GLCash}

Valid(q) == q.from # q.to /\ q.amount > 0

Balance(a) == credit[a] - debit[a]

Leg(a, amount, running) == [account |-> a, amount |-> amount, running |-> running]

\* A slip: the running balances are those before the movement.
RowBefore(q, bal) ==
    [kind |-> q.kind,
     debit |-> Leg(q.from, q.amount, IF q.from = GLCash THEN 0 ELSE bal[q.from]),
     credit |-> Leg(q.to, q.amount, IF q.to = GLCash THEN 0 ELSE bal[q.to])]

\* The rows a request writes, from the balances it has read.  The cash account's
\* running balance is not tracked.
Row(q, bal) ==
    [kind |-> q.kind,
     debit |-> Leg(q.from, q.amount, IF q.from = GLCash THEN 0 ELSE bal[q.from] - q.amount),
     credit |-> Leg(q.to, q.amount, IF q.to = GLCash THEN 0 ELSE bal[q.to] + q.amount)]

\* SELECT ... FOR UPDATE leaves nothing locked of an account without entries.
HasEntries(a) == credit[a] + debit[a] > 0

\* Another transaction has locked entries of the account: snapshots only grow, so
\* that any two which hold entries of it have one in common.
LockedByOther(r, a) == \E s \in Slots \ {r} : a \in held[s]

\* A slip: the payer is locked first.
PayerFirst(r, a) ==
    /\ a \in Customers(req[r]) \ queried[r]
    /\ req[r].from \in Customers(req[r]) \ queried[r] => a = req[r].from

\* The account whose balance is queried next: lexicographic order.
NextToQuery(r, a) ==
    /\ a \in Customers(req[r]) \ queried[r]
    /\ \A b \in Customers(req[r]) \ queried[r] : a <= b

\* The account whose state is read next: source, then destination.
NextToVerify(r, a) ==
    /\ a \in Customers(req[r]) \ verified[r]
    /\ req[r].from \in Customers(req[r]) \ verified[r] => a = req[r].from

AllQueried(r) == Customers(req[r]) \subseteq queried[r]

\* A slip: the funds are not looked at.
CoveredAlways(r) == TRUE

\* The payer has the money, by the balance its transaction has read.
Covered(r) == req[r].from # GLCash => req[r].amount <= seen[r][req[r].from]

\* A slip: idempotency_key is not unique.
KeyNeverInFlight(r) == FALSE

\* Another transaction has inserted the same key and not yet ended.
KeyInFlight(r) == \E s \in Slots \ {r} : pc[s] = "commit" /\ req[s].key = req[r].key

\* The history after a step that changes balances.
Remember == past' = [a \in Accounts |-> past[a] \cup {Balance(a)'}]

----------------------------------------------------------------------------
Init ==
    /\ txns = [k \in Keys |-> NoTxn]
    /\ credit = [a \in Ledgers |-> 0]
    /\ debit = [a \in Ledgers |-> 0]
    /\ outbox = {}
    /\ past = [a \in Accounts |-> {0}]
    /\ status = [a \in Accounts |-> IF a \in Opened THEN "ACTIVE" ELSE "ABSENT"]
    /\ pc = [r \in Slots |-> "idle"]
    /\ req = [r \in Slots |-> CHOOSE q \in Offers : TRUE]
    /\ verified = [r \in Slots |-> {}]
    /\ queried = [r \in Slots |-> {}]
    /\ held = [r \in Slots |-> {}]
    /\ seen = [r \in Slots |-> [a \in Accounts |-> 0]]
    /\ reply = [r \in Slots |-> 0]

Goto(r, l) == pc' = [pc EXCEPT ![r] = l]

\* The handler returns: an open transaction is rolled back and its locks go.
Answer(r, code) ==
    /\ Goto(r, "idle")
    /\ reply' = [reply EXCEPT ![r] = code]
    /\ verified' = [verified EXCEPT ![r] = {}]
    /\ queried' = [queried EXCEPT ![r] = {}]
    /\ held' = [held EXCEPT ![r] = {}]
    /\ seen' = [seen EXCEPT ![r] = [a \in Accounts |-> 0]]
    /\ UNCHANGED <<ledger, status, req>>

----------------------------------------------------------------------------
\* One action per step of Deposit, Withdraw and Transfer

\* A client sends a request: a new one, or again one it got no answer to.
Submit(r) ==
    /\ pc[r] = "idle"
    /\ \E q \in Offers : req' = [req EXCEPT ![r] = q]
    /\ reply' = [reply EXCEPT ![r] = 0]
    /\ Goto(r, "validate")
    /\ UNCHANGED <<ledger, status, local>>

Validate(r) ==
    /\ pc[r] = "validate"
    /\ \/ /\ Valid(req[r])
          /\ Goto(r, "check")
          /\ UNCHANGED <<ledger, status, req, local, reply>>
       \/ /\ ~Valid(req[r])
          /\ Answer(r, 400)

\* The idempotency check: on a hit, the response is that of the existing row.
CheckKey(r) ==
    /\ pc[r] = "check"
    /\ Goto(r, IF txns[req[r].key] = NoTxn THEN "verify" ELSE "respond")
    /\ UNCHANGED <<ledger, status, req, local, reply>>

\* acctRepo.GetByID and the test of Status; its "not found" has no mapping of
\* its own in handleServiceError.
VerifyAccount(r, a) ==
    /\ pc[r] = "verify"
    /\ NextToVerify(r, a)
    /\ \/ /\ status[a] = "ACTIVE"
          /\ verified' = [verified EXCEPT ![r] = @ \cup {a}]
          /\ Goto(r, IF Customers(req[r]) \subseteq verified'[r] THEN "balance" ELSE "verify")
          /\ UNCHANGED <<ledger, status, req, queried, held, seen, reply>>
       \/ /\ status[a] = "ABSENT"
          /\ Answer(r, 500)
       \/ /\ status[a] \in {"FROZEN", "CLOSED"}
          /\ Answer(r, 409)

\* GetCurrentBalance sums the entries of the statement's snapshot, whatever is
\* committed while it waits for their locks.
TakeSnapshot(r, a) ==
    /\ pc[r] = "balance"
    /\ NextToQuery(r, a)
    /\ seen' = [seen EXCEPT ![r][a] = Balance(a)]
    /\ \/ /\ HasEntries(a)
          /\ Goto(r, "wait")
          /\ UNCHANGED queried
       \/ /\ ~HasEntries(a)
          /\ queried' = [queried EXCEPT ![r] = @ \cup {a}]
          /\ UNCHANGED pc
    /\ UNCHANGED <<ledger, status, req, verified, held, reply>>

LockRows(r, a) ==
    /\ pc[r] = "wait"
    /\ NextToQuery(r, a)
    /\ ~LockedByOther(r, a)
    /\ held' = [held EXCEPT ![r] = @ \cup {a}]
    /\ queried' = [queried EXCEPT ![r] = @ \cup {a}]
    /\ Goto(r, "balance")
    /\ UNCHANGED <<ledger, status, req, verified, seen, reply>>

InsufficientFunds(r) ==
    /\ pc[r] = "balance"
    /\ AllQueried(r)
    /\ ~Covered(r)
    /\ Answer(r, 422)

\* Slips: a second row is created under the key; the event is written on the pool.
PostAgain(r) ==
    /\ pc[r] = "balance" /\ AllQueried(r) /\ Covered(r)
    /\ ~KeyInFlight(r)
    /\ Goto(r, "commit")
    /\ UNCHANGED <<ledger, status, req, local, reply>>

PostAndAnnounce(r) ==
    /\ pc[r] = "balance" /\ AllQueried(r) /\ Covered(r)
    /\ ~KeyInFlight(r) /\ txns[req[r].key] = NoTxn
    /\ outbox' = outbox \cup {req[r].key}
    /\ Goto(r, "commit")
    /\ UNCHANGED <<txns, credit, debit, past, status, req, local, reply>>

\* Create, CreateEntry twice, UpdateStatus and InsertOutboxEvent: nobody sees the
\* rows before the commit, but the unique key makes another Create of it wait.
Post(r) ==
    /\ pc[r] = "balance"
    /\ AllQueried(r)
    /\ Covered(r)
    /\ ~KeyInFlight(r)
    /\ txns[req[r].key] = NoTxn
    /\ Goto(r, "commit")
    /\ UNCHANGED <<ledger, status, req, local, reply>>

\* Create meets the committed row of a request that carried the same key.
DuplicateKey(r) ==
    /\ pc[r] = "balance"
    /\ AllQueried(r)
    /\ Covered(r)
    /\ txns[req[r].key] # NoTxn
    /\ Answer(r, 500)

\* A slip: the debit entry is not written.
CommitCreditOnly(r) ==
    /\ pc[r] = "commit"
    /\ txns' = [txns EXCEPT ![req[r].key] = Row(req[r], seen[r])]
    /\ credit' = [credit EXCEPT ![req[r].to] = @ + req[r].amount]
    /\ outbox' = outbox \cup {req[r].key}
    /\ held' = [held EXCEPT ![r] = {}]
    /\ queried' = [queried EXCEPT ![r] = {}]
    /\ seen' = [seen EXCEPT ![r] = [a \in Accounts |-> 0]]
    /\ Goto(r, "respond")
    /\ UNCHANGED debit /\ Remember
    /\ UNCHANGED <<status, req, verified, reply>>

Commit(r) ==
    /\ pc[r] = "commit"
    /\ LET q == req[r] IN
        /\ txns' = [txns EXCEPT ![q.key] = Row(q, seen[r])]
        /\ credit' = [credit EXCEPT ![q.to] = @ + q.amount]
        /\ debit' = [debit EXCEPT ![q.from] = @ + q.amount]
        /\ outbox' = outbox \cup {q.key}
    /\ Remember
    /\ held' = [held EXCEPT ![r] = {}]
    /\ queried' = [queried EXCEPT ![r] = {}]
    /\ seen' = [seen EXCEPT ![r] = [a \in Accounts |-> 0]]
    /\ Goto(r, "respond")
    /\ UNCHANGED <<status, req, verified, reply>>

\* fetchResponse and 201 Created.
Respond(r) ==
    /\ pc[r] = "respond"
    /\ Answer(r, 201)

\* A slip: the error of Commit is not looked at.
FaultUnnoticed(r) ==
    /\ Faulty
    /\ pc[r] # "idle"
    /\ Answer(r, IF pc[r] = "commit" THEN 201 ELSE 500)

\* A statement fails or the goroutine dies.  At "commit" the transaction is rolled
\* back; at "respond" it is durable and the client learns of an error.
Fault(r) ==
    /\ Faulty
    /\ pc[r] # "idle"
    /\ Answer(r, 500)

\* The account service opens, freezes or closes an account.  Its SELECT ... FOR UPDATE of
\* the row waits for the transactions whose entries refer to it (foreign key).
SetStatus(a, s) ==
    /\ <<status[a], s>> \in StatusMoves
    /\ \A r \in Slots : pc[r] = "commit" => a \notin Customers(req[r])
    /\ status' = [status EXCEPT ![a] = s]
    /\ UNCHANGED <<ledger, pc, req, local, reply>>

Work(r) ==
    \/ Validate(r)
    \/ CheckKey(r)
    \/ \E a \in Accounts :
        \/ VerifyAccount(r, a)
        \/ TakeSnapshot(r, a)
        \/ LockRows(r, a)
    \/ InsufficientFunds(r)
    \/ Post(r)
    \/ DuplicateKey(r)
    \/ Commit(r)
    \/ Respond(r)

Handle(r) == Submit(r) \/ Work(r) \/ Fault(r)

Next ==
    \/ \E r \in Slots : Handle(r)
    \/ \E a \in Accounts, s \in Statuses : SetStatus(a, s)

Spec == Init /\ [][Next]_vars

\* A handler runs on until it waits for a lock, and locks are granted in the
\* order they are waited for.  Clients, faults and status changes owe nothing.
FairSpec == Spec /\ \A r \in Slots : SF_vars(Work(r))
----------------------------------------------------------------------------
\* Invariants

\* Every variable stays in its type.
TypeOK ==
    /\ txns \in [Keys -> RowType \cup {NoTxn}]
    /\ credit \in [Ledgers -> Int]
    /\ debit \in [Ledgers -> Int]
    /\ outbox \in SUBSET Keys
    /\ past \in [Accounts -> SUBSET Int]
    /\ status \in [Accounts -> Statuses]
    /\ pc \in [Slots -> {"idle", "validate", "check", "verify", "balance", "wait", "commit", "respond"}]
    /\ req \in [Slots -> Offers]
    /\ verified \in [Slots -> SUBSET Accounts]
    /\ queried \in [Slots -> SUBSET Accounts]
    /\ held \in [Slots -> SUBSET Accounts]
    /\ seen \in [Slots -> [Accounts -> Int]]
    /\ reply \in [Slots -> {0, 201, 400, 409, 422, 500}]

\* No customer account is ever overdrawn: what the check of the funds (service.go:210, 353
\* ErrInsufficientFunds) and the lock are there for (repository.go:218 "acquire a pessimistic
\* lock within the transaction"; postgres.go:87 "for banking operations such as balance checks").
NoOverdraft == \A a \in Accounts : Balance(a) >= 0

\* A goroutine that has read enough for its debit of a, and has not committed it.
Claims(a) ==
    {r \in Slots : Valid(req[r]) /\ req[r].from = a /\ req[r].amount <= seen[r][a]}

Overdraft == (Cardinality(Slots) - 1) * MaxAmount

\* Goroutines that read the same balance may each spend it, but nothing is spent that was not
\* covered when it was read: an account is overdrawn by one debit for each other goroutine at
\* most, however many requests there are.
OverdraftBounded == \A a \in Accounts : Balance(a) >= -Overdraft

\* Only requests that passed validation are past it, a handler has read nothing outside its
\* transaction, and a transaction about to commit has the funds by what it has read.
ControlOK ==
    \A r \in Slots :
        /\ pc[r] \notin {"idle", "validate"} => Valid(req[r])
        /\ pc[r] \in {"idle", "validate", "check", "verify", "respond"} =>
              seen[r] = [a \in Accounts |-> 0]
        /\ pc[r] = "commit" => Covered(r)

\* What was read of a balance was once the balance.
ReadsArePast ==
    \A a \in Accounts :
        /\ {0, Balance(a)} \subseteq past[a]
        /\ \A r \in Slots : seen[r][a] \in past[a]

\* A handler that is about to read its response back has a committed transaction.
RespondsToCommitted == \A r \in Slots : pc[r] = "respond" => txns[req[r].key] # NoTxn

Committed == {k \in Keys : txns[k] # NoTxn}

SumOf(S, Value(_)) == SumFunctionOnSet([x \in S |-> Value(x)], S)

\* What those goroutines are about to spend.
Owed(a) == SumOf(Claims(a), LAMBDA r : req[r].amount)

\* The inductive invariant behind OverdraftBounded: it holds of the balance that is left when
\* all who have read enough have committed.
Spendable ==
    /\ TypeOK
    /\ ControlOK
    /\ \A a \in Accounts : Balance(a) - Owed(a) >= -Overdraft

\* A transaction and its outbox event are committed together or not at all, though the
\* handler can fail at every statement.
EventPerTransaction == outbox = Committed

\* Balances are the SUM of the immutable entries, total debits are total credits, the bank's
\* cash is the money of all customers, and no transaction is without its event (README:
\* immutable ledger, double entry, transactional outbox).
LedgerAddsUp ==
    /\ EventPerTransaction
    /\ \A a \in Ledgers :
        /\ credit[a] = SumOf({k \in Committed : txns[k].credit.account = a},
                             LAMBDA k : txns[k].credit.amount)
        /\ debit[a] = SumOf({k \in Committed : txns[k].debit.account = a},
                            LAMBDA k : txns[k].debit.amount)
    /\ debit[GLCash] - credit[GLCash] = SumOf(Accounts, Balance)

----------------------------------------------------------------------------
\* Action properties

Answered(r, code) == pc[r] # "idle" /\ pc'[r] = "idle" /\ reply'[r] = code

\* A committed row never changes, and the totals move only with a new row: a retry of a
\* key that moved money moves none (migration 003: "Prevents duplicate transaction processing").
KeyMovesMoneyOnce ==
    [][/\ \A k \in Keys : txns[k] # NoTxn => txns'[k] = txns[k]
       /\ txns' = txns => UNCHANGED <<credit, debit>>]_vars

\* A client told 201 has a committed transaction under its key.
CreatedMeansCommitted ==
    [][\A r \in Slots : Answered(r, 201) => txns[req[r].key] # NoTxn]_vars

\* No debit of an account is committed while the account is frozen (openapi, freeze:
\* "Prevents all debit transactions on the account.").
FrozenIsNotDebited ==
    [][\A a \in Accounts : debit'[a] # debit[a] => status[a] # "FROZEN"]_vars

----------------------------------------------------------------------------
\* Liveness and refinement

\* Every request is answered: transfers in opposite directions do not wait on each other
\* for ever (service.go:286 "locked in lexicographic order to prevent deadlocks").
EveryRequestAnswered == \A r \in Slots : pc[r] # "idle" ~> pc[r] = "idle"

OfferedAmounts == {q.amount : q \in Offers}

\* What the two entries of a transaction state to its customers.
Stated(row) ==
    [a \in {row.debit.account, row.credit.account} \ {GLCash} |->
        IF a = row.debit.account THEN row.debit.running ELSE row.credit.running]

Receipts == [k \in Committed |-> Stated(txns[k])]

Promise == INSTANCE Bank WITH
    Amounts <- OfferedAmounts,
    Earnings <- {},
    balance <- [a \in Accounts |-> Balance(a)],
    past <- past,
    cash <- debit[GLCash] - credit[GLCash],
    receipts <- Receipts

\* The engine does what Bank promises: seen from the ledger, every step is one atomic deposit,
\* withdrawal or transfer under an unused key, of money the payer had at some moment, or nothing.
ImplementsBank == Promise!Spec
=============================================================================
