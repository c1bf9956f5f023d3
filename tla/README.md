# NkoreBank in TLA+

This directory holds TLA+ models of the NkoreBank core (Go, PostgreSQL, Redis),
the TLC configurations that check them on small instances, and theorems about
them checked by TLAPS. File names below are relative to the repository, line
numbers are those of the modelled commit.

## 1. The system

A client reaches one of three replicas (`deployments/k8s/deployment.yaml:9`)
over HTTP. A replica is one Go process: the goroutines of `net/http` run the
handlers, one more goroutine publishes outbox events, one more drains the audit
log. The replicas share nothing but PostgreSQL and Redis, so goroutines of one
replica and of different replicas interleave alike, statement by statement.

| Component | State | Operations | Module |
|---|---|---|---|
| Transaction engine, `internal/domain/transaction` | `transactions`, `transaction_entries` (balances are sums of entries) | `Deposit`, `Withdraw`, `Transfer`; reads | `TransactionEngine`, `Bank` |
| Account management, `internal/domain/account` | `accounts` (status, version), `account_holds`, `account:<id>` in Redis | create, get, freeze, close, place and release a hold; reads | `AccountService` |
| Outbox, `internal/outbox` | `outbox_events` (`published_at`, `retry_count`) | `poll`, `publish`, `incrementRetry` | `OutboxPublisher` |
| Interest, `internal/domain/interest` | `interest_rates`, `interest_accrual` | `AccrueDaily`, `PostAccruedInterest` | `Interest` |
| General ledger, `internal/domain/ledger` | `gl_accounts`, `journal_entries`, `gl_entries` | seeding, `PostJournalEntry`, `GetTrialBalance` | `GeneralLedger` |
| Idempotency middleware, `middleware/idempotency.go` | responses in Redis under `idempotency:<key>`, 24 h | look up, replay, run, store | `IdempotencyMiddleware` |
| Rate limiter, `middleware/ratelimit.go` | a counter with a lifetime in Redis, `rl:ip:<address>` | `INCR`, `EXPIRE`, refuse | `RateLimiter`, in `Replica` |
| Audit log, `middleware/audit.go` | channel of 256 entries, `audit_log` | enqueue or drop, drain, close | `AuditLog`, in `Replica` |
| Compliance, `internal/domain/compliance` | `aml_alerts` | `ScreenTransaction` (nothing calls it), `UpdateAlertStatus`; list | `Compliance` |
| Start and shutdown, `cmd/nkorebank/main.go` | - | seed, serve, stop, close, exit | `Replica`; seeding in `GeneralLedger`, the publisher in `OutboxPublisher` |
| Redis client, `internal/platform/cache` | keys with a TTL | `Set`, `Get`, `Delete`, `AllowRequest`; `AcquireLock` (uncalled) | where they are used |
| Database, `internal/platform/database` | pool of 25 connections | `RunInTx`, `SelectForUpdate` | where they are used, without the bound |
| Recovery | none | turns a panic into 500 | in `Replica` |
| Auth, CORS, config, telemetry | none across requests | - | no |

How they interact. The engine reads `accounts.status` on the pool and writes
entries that refer to `accounts` by foreign key; account management writes the
status and reads the sums of the entries. Engine, account management and ledger
insert outbox events in their own transactions; the publisher reads them later.
Interest writes transactions and entries past the engine. Redis is a copy of the
accounts and of responses; the rate limiter's counters live nowhere else. A
request passes recovery, rate limiter and audit log, then authentication and the
idempotency middleware, then a handler.

What is hard here:

- **Concurrency.** Funds are checked against a balance read two statements
  earlier; keys and account states are looked up outside the transaction; two
  accounts are locked one after the other; four services check something on the
  pool and act on it in a transaction.
- **Failure.** Every statement may fail, the commit too; after the commit the
  response is read back and that may fail; a process may die between sending
  an event and marking it.
- **Retries.** A client that got no answer sends its key again, possibly while
  the first request runs.
- **Ordering.** Commits order entries, not reads; a slow cache reader writes after
  the invalidation.
- **Startup and shutdown.** Three replicas seed the same tables at once and die
  of any error; a process that is told to stop has 15 seconds, then closes what
  requests may still use.

What makes each part correct: no overdraft, or no larger one than the lock allows;
a key moves money once, entries and events exist together, double entry, nothing is spent
that was never there, answers tell the truth, nobody waits for ever (engine); events tell
the life of an account, no account is closed with money in it, the cache
converges (accounts); at-least-once delivery and an end to the retries
(outbox); each accrual is paid, once, with its amount (interest); the books
agree over all classes, each entry is posted once, a replica serves with the whole chart only
(ledger); a 201 is true, and a payment that was carried out is told of in the end
(idempotency); no window lets more through than the limit, and waiting helps
(limiter); an answered change is in the audit log, or known to be lost, when the process
has stopped, and a stopping process cuts nobody off without need (audit log and shutdown); a day over a
threshold is flagged, and none below (compliance). `PROJECT.json` lists the hazards behind these, each at its line.

## 2. The modules

### Bank
The abstract specification: deposits, withdrawals and transfers as single
indivisible steps, each using up a key, and interest that may be added. Nobody
spends what the account has never had at once (`past`), and the receipt of a
movement states the balances that follow from one it has had. It does not promise
that the money is still there, for the engine does not keep that promise
(`engine_overdraft`). It says nothing of requests, statements or locks. The engine
implements it without interest, engine and interest together with it.

### TransactionEngine
One action per statement that others can see between. `pc[r]` is the place of
goroutine `r` in its handler:

| `pc` | code | actions |
|---|---|---|
| `validate` | `validate*Request` | `Validate` |
| `check` | `GetByIdempotencyKey` on the pool | `CheckKey` |
| `verify` | `acctRepo.GetByID` and the status test, source before destination | `VerifyAccount` |
| `balance` | `GetCurrentBalance ... FOR UPDATE` begins, in the order of the ids; funds check; inserts | `TakeSnapshot`; `InsufficientFunds`, `Post`, `DuplicateKey` |
| `wait` | the statement waits for the entries of its snapshot | `LockRows` |
| `commit` | end of `RunInTx` | `Commit` |
| `respond` | `fetchResponse`, 201 | `Respond` |

`Fault` is a failing statement, a failing commit or a dying goroutine at any of
these; `SetStatus` is the account service at work. The committed rows are `txns`;
the balance of an account is `credit - debit`, the two sums the SQL computes; `past`
is a history of those balances that no action reads. Money is counted in
units of the last digit of `DECIMAL(19,4)`.

*The lock.* `GetCurrentBalance` (repository.go:223) says
`SELECT SUM(...) FROM transaction_entries ... FOR UPDATE`. It locks no account. The
model has it return the sum of the entries its statement sees when it begins
(`TakeSnapshot`) and lock those entries (`LockRows`): an account without entries is
not locked at all, and the sum does not change while the statement waits, whatever
is committed meanwhile. So two goroutines may spend the same balance, which
`engine_overdraft` shows, and the sums behind a refusal or a running balance may be
stale. What remains is `OverdraftBounded`: nothing is debited that was not covered
when it was read, so that an account is overdrawn by one debit for each other
goroutine at most. PostgreSQL refuses `FOR UPDATE` with an aggregate (section 7): the
module is of the code over a store that accepts its statements.

### AccountService
EXTENDS `TransactionEngine`: the two share `status`, `credit`, `debit` and the
row locks of `accounts`. Clerks are the goroutines of account calls. A
transaction of this service that locks its row first is one action
(`FreezeAccount`, `CloseRow`); what the code reads on the pool beforehand
is an action of its own (`CheckZeroBalance`, `CheckAvailable`), and so are the
Redis commands after the commit (`Invalidate`, `LookUpCache`, `LoadRow`,
`FillCache`, `Expire`). `ReleaseHold` and `InsertHold` have no HTTP route in
this version; they are modelled as the service methods they are; a hold that is
placed adds an event to its account that is no change of its state.
`CurrentBalance` is the sum without signs that `GetBalance` computes
(repository.go:167). The state DORMANT is left out: no operation leads to it.

### OutboxPublisher
Each replica polls a batch, and for each event sends, marks, or on an error
counts a retry. Events are numbered by `created_at`; rows appear in any order,
since `created_at` is drawn before the commit. The broker is a log line
(publisher.go:111 "Simulate publishing"), which cannot fail. The tick is left out: a poll may come at
any time.

### Interest
Workers run `AccrueDaily` (balances in one query, then one committed insert per
account) and `PostAccruedInterest` (a plain read, then one transaction for all
accruals). Rates are a fraction and the rounding is half up at the fourth
decimal. A posting's entries are invisible until its commit; the row of an
accrual is locked from its update on, which is `written`. The model takes the
expense account to exist (section 7). A row of `interest_accrual` is `accrued`
(its amount, never zero) and `posted`. The entries are summed in the module
itself.

### EngineWithInterest
The commit of a posting (`PayInterest`) beside the engine, on one ledger: it
credits any accounts at any moment and waits for no locked entries. Which amounts
it pays is the subject of `Interest`.

### IdempotencyMiddleware
EXTENDS `EngineWithInterest`. A client sends an envelope (header and body); the
middleware looks the header up, replays, or runs the handler (the engine's
actions, one at a time) and stores what it answered; a stored response runs out
(`Forget`). The key of the transaction is that of the body, so that one header
may come with two transactions. A response is its status.

### RateLimiter, AuditLog, Replica
`Replica` composes the two with the life of a process. `RateLimiter` counts time
in ticks and keeps ages instead of a clock: the counter's remaining lifetime, how
many requests were let through at each age, how long an address has been quiet.
`INCR` and `EXPIRE` go in one pipeline (redis.go:79), which is no transaction: an
`INCR` whose `EXPIRE` is lost, after which the counter has its old lifetime or none, is
not modelled; a command that fails is, both before and after it was counted.
`AuditLog` is the bounded channel, its goroutine, and what becomes of an entry
(`recorded`, `unrecorded`). `Replica` takes each request through
`limiting`, `handling`, `auditing`, and `phase` through `run()`: `serving`,
`stopping` (`Shutdown` waits), then the deferred calls in their order (`leaving`,
`draining`, `drained`, `disconnected`, `closed`), `exited`. A handler returns,
panics or hangs; what it does is in the other modules. A request that is refused by the
limiter or panics is `failed`; the clock stands still when no request will come to the
limiter any more, which is all that reads it.

### Compliance
`ScreenTransaction` takes the time once and then runs one statement after the
other, each committed by itself. Entries get `created_at` before they are committed, so
that a screening may miss an entry that lies in its window. Nothing in the
repository calls `ScreenTransaction`; the module takes the caller to screen
each committed transaction, again after an error and never twice at once, and
the clocks of the replicas to agree.

### GeneralLedger
Seeding looks each code up on the pool and inserts it in a transaction of its
own; any error ends the process, which starts again (`Restart`). Journal entries
are checked in memory and then meet the constraints of migration 002
(`Accepted`). Amounts are in tenths of the column's last digit, so that
`Stored` can round as `DECIMAL(19,4)` does. `GetTrialBalance` is
`TrialBalanceOK`.

Operators under a comment that begins with "A slip:" are not part of a model:
each is a plausible mistake in the definition below it (a dropped guard, a
missing reset, a lock not taken), there to confirm that a property notices it.
`PROJECT.json` ("mutants") says which property each must break.

## 3. The runs

`tlc -config <run>.cfg <module>`; the longest takes a little over two minutes.

| Run | Shows |
|---|---|
| `engine` | Two goroutines, faults everywhere, an account opened meanwhile: the ledger adds up and has an event for each transaction (`LedgerAddsUp`), `OverdraftBounded`, `KeyMovesMoneyOnce`, `CreatedMeansCommitted`, the refinement of `Bank`, and `EveryRequestAnswered`. |
| `engine_overdraft` | *violated*: `NoOverdraft`, though no statement fails. |
| `engine_frozen` | *violated*: `FrozenIsNotDebited`. |
| `idempotency` | Two clients repeat a deposit and a withdrawal through the cache, Redis may lose what is stored, interest is posted and the account frozen at any moment: `ToldCreatedMeansCommitted`, the refinement of `Bank` with interest, `CarriedOutIsTold`. |
| `accounts` | A request and two clerks that open, read, encumber, freeze and close an account over an unreliable Redis, faults: `EventsTellTheState`, `CacheConverges`, and that the engine's `Spec` still holds (`EngineUnderAccounts`). |
| `accounts_close_race` | *violated*: `ClosedEmpty`. |
| `outbox` | Two publishers, batches of two of three events, faults and crashes: `NothingForgotten`, `RetriesBounded`, `DealtWith`. |
| `interest` | Two workers accrue and post through one day or both, faults, a day without a rate: `IInv`, `CreditsAreAccruals`, `PaidOncePerWorker`, `ReportedAccrualsComplete`, `EveryCallAnswered`, `AccruedIsPosted`. |
| `interest_double` | *violated*: `PaidOnce`, with two workers. |
| `ledger` | Two replicas seed, crash and post: `TypeOK`, `AccountingIdentity`, `PostedOnce`, `EveryReplicaComesUp`. |
| `replica` | Four requests of one address, three of them changes, while the process is stopped, loses its listener or is killed, and handlers panic or hang: `SlidingWindow`, `WaitingIsEnough`, `ChangesAccountedFor`, `UnhurriedMeansAnswered`, `StopsWhenTold`, `EntriesAreDealtWith`. |
| `compliance` | Two screenings at once over three entries of an account, one of them failing and repeated: `TypeOK`, `RulesAreApplied`, `FlagsAreJustified`. |

The types of the account service, the outbox, the middleware and the replica are
proved (section 5) and not checked again by a run.

**Bounds, and why they are enough.** Two goroutines and two accounts give every
pair of interleavings and the only lock cycle a transfer can be part of (it
locks at most two accounts); the theorems take over for any number. Four keys
and six offers let deposits feed a withdrawal and a transfer that cannot both
be covered, a transfer go the other way, one key come with two payloads, and a
request be malformed. A key commits once, so balances need no bound; `MaxAmount` is what an
amount of the column is bounded by, and the largest offered in the runs. `MaxVersion`
bounds closing again and again, which the code allows without end; `HoldIds`
bounds the holds, at one for each clerk, so that two are placed at once.
Middleware: two envelopes suffice for a duplicate that races its original, for a
stored error and for a withdrawal that needs the deposit; `MaxInterest = 1` lets
a posting pay what a withdrawal lacks. A request without a header is refused
before anything else happens and a failing look-up answers 500; both are in the
module and the proofs, and left out of the run. Outbox: three events exceed a batch of two, so a failing head
of the batch competes with the tail; `MaxRetry = 1` makes giving up reachable
(the code has 5). Interest: a rate of 1/4 makes one interest round to zero, one
round down and one up; `paid` is bounded because a posting reads unposted rows
only; the rate is that of the first day, so that postings through the first and
through both days update the same rows while a day without a rate is accrued.
Ledger: one code of each class, entries on each of them (a fee goes to REVENUE),
and journal entries for every constraint (repeated key, repeated reference, unbalanced, negative, unknown type, empty,
finer than the column). Replica: a limit of two under four requests makes
refusals, a window of two ticks gives it a beginning, a middle and an end, and a
channel of one entry under three changes overflows while one is being written; `MaxCount` stops counting
once all four have been counted. Compliance: thresholds that two entries near the reporting threshold reach
together and none alone; a window of one tick within `MaxTime = 2` lets
an entry leave the window; `MaxFailures` and `MaxDecided` bound the failed
screenings and the alerts investigators have dealt with, of which one each is
enough to meet every other step.
A larger number of any of these adds processes of the same kind, no new step.

**Symmetry** is used only in `compliance`, which has no liveness: screeners, and the two
entries of equal amount.

**Deadlock** is checked in all runs but `outbox`, which stops when every event
is marked or given up, `replica`, which stops when the process has ended, and
`compliance`, which stops at the end of its clock.

## 4. Fairness

- `TransactionEngine!FairSpec`, `Interest!FairSpec`: strong fairness of a
  goroutine's whole step. A handler is not suspended for ever by the Go runtime,
  and PostgreSQL grants a lock in the order it is waited for, so a waiter that
  finds the lock free again and again gets it. Clients, faults and status changes
  have no fairness.
- `AccountService!CoreFairSpec`: clerks run on (weak), cache entries expire.
- `OutboxPublisher!FairSpec`: ticks come and statements return (weak); a publisher
  is not killed before its send, nor its update refused, each and every time
  (strong): Kubernetes restarts a replica, and an outage of the store ends. Without the
  strong conditions delivery fails trivially.
- `Interest!PersistentPosting`: clients repeat the posting, and faults do not
  strike for ever at the same statement.
- `IdempotencyMiddleware!ApiFairSpec`: requests run on (strong, for the locks of the
  engine), clients repeat what they sent with a key, stored responses run out (weak).
  That a client repeats its request is an assumption about clients, without which
  no client need ever be told.
- `Replica!FairSpec`: `run()` goes on and the audit goroutine's inserts return within
  their five seconds (weak). Handlers, clients, signals and time owe nothing: that a
  process stops must not depend on them.
- `GeneralLedger!FairSpec`: a replica keeps starting; `EveryReplicaComesUp` is
  stated for a replica that is not killed again and again.

## 5. The proofs

| Module | Theorems about |
|---|---|
| `SumTheorems` | `SumFunctionOnSet`, the sum of a function over a finite set |
| `TransactionEngineProofs` | the engine, alone |
| `CompositionProofs` | the engine beside interest, behind the middleware, under the account service |
| `OutboxPublisherProofs` | the outbox |
| `InterestProofs` | accrual and posting |
| `GeneralLedgerProofs` | seeding and journal entries |
| `ReplicaProofs` | rate limiter, audit log and shutdown |
| `ComplianceProofs` | screening |

They hold for any number of goroutines, accounts, keys, requests, publishers, events,
workers, replicas, addresses, entries and screeners within the named assumptions of the
modules (ids are numbers, the cash account is not a customer's, a deposit comes from cash and a
withdrawal goes there; what is summed over or counted is finite: accounts, days, clerks, holds,
codes, the lines of an entry, entries, screeners, publishers, workers; a window has a tick, the
limit is below the bound of the counter). What a theorem asks for besides stands in its
statement: states of accounts that move as the service moves them for `AccountsKeepTheEngine`
and `OverdraftBoundedUnderAccounts`, and a limit above zero for `WaitingLetsIn`.

*Sums.* What the code adds up with `SUM(...)` or in a loop is a sum over a set of rows. The
library defines it by a recursion over subsets. `SumTheorems` shows first that this recursion defines
something: among the subsets for which it would not there would be a smallest. Everything
after that is `SetInduction`, an induction over a finite set stated with a set of subsets in
place of a predicate: what one element adds (`SumAdd`), that sums of equal functions are equal,
of disjoint sets additive, of a part not more than of the whole, and that a sum by groups is the sum (`SumByGroup`).

*Engine.* `OverdraftBounded` is not inductive: the debit that goes too far was checked against a
balance read earlier, possibly together with others. `Claims(a)` are the goroutines whose debit
of `a` is covered by what they have read of it, wherever they are on their way to the commit, and `Owed(a)` is
what they are about to spend. `Spendable` says that when all of them have committed the
balance is still above the bound:

1. who reads the balance claims no more than is there, and each of the other goroutines claims one
   debit at most, which is what the bound allows (`ReadIsSpendable`);
2. who commits takes from the balance what he had claimed, and his claim goes (`CommitIsSpendable`):
   a commit needs a covered read, which `ControlOK` carries from the check of the funds to the commit;
3. who answers gives up his claim, and a credit only adds (`ClaimsShrink`).

`OverdraftStaysBounded` follows, for claims are not negative (`SpendableBounds`). With one
goroutine the bound is zero: it is concurrency that overdraws.

`EngineImplementsBank`: `Commit` of a deposit, withdrawal or transfer is that action of `Bank`, every
other step a stutter. `BankInv` carries what `Bank` asks of it: what was read of a balance was once
the balance (`ReadsArePast`), the funds were covered by it, and the key is new
(`KeysAreNew`, the work of the unique index, which makes a second insert of a key wait).

`TypeCorrect`, `EventsAndTransactions` and `CreatedIsCommitted` need little more;
`MoneyMovesOnce` is `KeysAreNew` again. `NobodyWaitsInACircle` is the safety half of `EveryRequestAnswered`:
what a goroutine has queried comes before what it has still to query (`QueriesInOrder`), so whoever waits for
entries locked by one that waits for entries itself waits for the smaller account; a finite set of numbers has a largest,
and nobody in a circle could wait for it. Waits for the key of an open insert end there, for its owner is past its locks.
`LedgerAlwaysAddsUp` is carried by `AddsUpInv`: credits and
debits of all accounts together are equal (`DoubleEntry`), the rows are finitely many, and by `KeysAreNew` a commit adds its row to the
sums and takes nothing away.

*Engine and interest.* A posting of interest keeps `Spendable` and `BankInv`: it only adds to balances, and
a balance that was read stays one the account has had. Hence `OverdraftBoundedWithInterest` and
`EngineAndInterestImplementBank`, from the engine's lemma on each step of it.

*Middleware.* Every step of it is a step of engine and interest or leaves them
alone (`MiddlewareIsTransparent`), so their theorems hold behind it;
`ApiImplementsBank` is one. `ApiInvariant` says that the cache holds no 201
without a committed transaction, because a handler serves the body of the envelope its response is
stored for; with it `ToldIsCommitted`. Both hold for any envelopes and any failures of Redis.

*Accounts.* `AccountServiceInvariant` gives the types and that an account being
created is there for nobody. From it, every step of engine and account service
together is a step of the engine or a stutter (`AccountsKeepTheEngine`), so the
engine's theorems carry over; `OverdraftBoundedUnderAccounts` is one of them. `EventsAreTheStory`:
a version and its event are written by the same step, holds add events that are no change of state, and the
last change names the state.

*Outbox.* `PublisherInvariant`: an event is marked, and a retry counted, only
after the send. Hence `NeverForgotten`: an event no poll will pick up again has
been sent. `RetriesStop` counts an event's retries together with the publishers
that hold it: a poll adds a holder only while the retries are within the limit.

*Interest.* `PostingInvariant`: an accrual is marked if and only if it was paid.
`PaysOncePerWorker` counts the payments of an accrual together with the postings that
hold it: a posting takes it in hand only while it is unpaid, and gives it up when it
pays. Amounts come in with `TypedInv`: balances an accrual works through are positive, so that
accruals are natural numbers. `CreditsMatchAccruals` follows from `CreditIsPaid`, the credit of an account
as the sum over all its rows of payments times accrual: an accrual that is there never changes, one that is not there has
not been paid, and a commit raises the payments of exactly the rows it credits.
`ReportedAccrualsLeaveNobodyOut` rests on `NobodyForgotten`: while an accrual is under way each
eligible account has its row, or is still on the list with a balance that earns something. Customers are
debited nothing by interest, so balances read later are no smaller, and a larger balance earns no less
(`InterestGrows`: a quotient grows with its dividend). `PostingsDoNotDeadlock` is the argument of
`NobodyWaitsInACircle` once more, over the order of dates and accounts in which postings update their rows.

*General ledger.* `ServesWithWholeChart`: a code leaves a replica's list only when
it is in the table. `PostsOnce`: an entry is written only while its key and its
reference are unused. `IdentityAlwaysHolds` carries
`BooksInv`, the equality of the two sides of the ledger, through each commit, and then
adds up by class: every line is on an account of the chart, every account in one class.

*Replica.* `IInv` of `ReplicaProofs` adds to the types that only `run()` closes the
channel, that the goroutine has ended only when the channel is empty and nothing is being
written, and that an answered change is in one of its places: recorded, known to be lost, in
the channel or being written. From it
`ChangesAreAccountedFor` and `NobodyIsCutOff`. `WaitingLetsIn` rests on the lifetime
of a counter and the time since the last request being at most a window together; it needs a limit above
zero, for with a limit of zero everybody is refused for ever. `WindowNeverExceeded` needs
`WindowOK`: since a counter was last renewed nobody was let through, and what was let through in the last
window is no more than the counter, although the counter forgets only when it runs out.

*Compliance.* `CountOK` bounds the tries of an entry by the failures of all entries together.
`RulesAlwaysApplied` has to do with many screenings at once: `HeldAgainst` says of any set of
entries of one account and one day that when each has been asked about, or was screened earlier,
the alert is there if the rule says so. The argument is that the last to ask sees them all, since
whoever is screened is committed and the clock does not go back. `FlagsAlwaysJustified`: an
alert has a day of its account that breaks the rule (`Justified`), and a day that breaks
a rule goes on doing so when more is committed.

Only model-checked: everything under fairness (`EveryRequestAnswered`,
`CacheConverges`, `CarriedOutIsTold`, `DealtWith`, `EveryCallAnswered`,
`AccruedIsPosted`, `EveryReplicaComesUp`, `StopsWhenTold`, `EntriesAreDealtWith`),
which is beyond TLAPS. Every safety invariant and every action property of the runs that pass is
a theorem, and so are the three refinements. What the violated runs show is not proved: a
counterexample is its own proof.

## 6. Findings shown by runs

| Run | What happens |
|---|---|
| `engine_overdraft` | The balance query returns the sum of its snapshot and locks at most the entries in it (repository.go:223): two goroutines spend the same balance, against the "pessimistic lock" of repository.go:218. |
| `engine_frozen` | The status is read before the transaction (service.go:199) and not again: a withdrawal that passed the test debits an account frozen since, against openapi:135. |
| `accounts_close_race` | `CloseAccount` reads the balance before its transaction (service.go:205): a deposit in between leaves money in a closed account, against openapi:163. |
| `interest_double` | The unposted accruals are read without a lock and updated without `AND posted = FALSE` (service.go:142): two postings at once pay twice. |

## 7. Divergences met while reading, outside the runs

These are plain from the text, or await a run of their own.

- The statements and the shipped schema disagree: `repository.go:45` selects
  `type`, migration 003 has `transaction_type`; PostgreSQL refuses `FOR UPDATE`
  with an aggregate; `GL_CASH` and `GL_INTEREST_EXPENSE` are neither UUIDs nor
  rows of `accounts`, which the entries refer to. With the shipped schema no request
  of the engine that is well formed gets past the look-up of its key. The models are of
  the code over a store that accepts its statements.
- Both entries of an interest payment are credits: the type is a literal in
  `insertEntry` (interest/service.go:132), so `CommitPosting` adds no debit.
- A repeated accrual stops at the first account already done, so an accrual that
  failed half way may never be completed.
- The loser of two concurrent requests with one key is told 500
  (`DuplicateKey`), where openapi:729 has 409; an absent account is told 500, not
  404. A key used again with another payload is told 201 and gets the first
  transaction.
- `GetBalance` adds amounts without signs (account/repository.go:167): an account
  that was used and emptied cannot be closed.
- Two holds that are placed at once are both granted: `PlaceHold` reads the
  available balance on the pool and locks nothing (account/service.go:258, against its
  comment at line 254, "validates sufficient available funds"). No route reaches
  `PlaceHold` in this version.
- The rate limiter runs before the authentication (main.go:121): no request has a
  user yet, so that all are counted by address, though ratelimit.go:13 says users are.
- So does the audit log: `actor_id` is always empty, and the `INSERT` leaves out
  `entity_id`; the shipped schema refuses every entry. The model lets inserts succeed or fail.
- A handler that panics after its commit leaves no audit entry: the code behind
  `next.ServeHTTP` is passed over (`HandlerPanics`).
- A request that outlives the deadline of `Shutdown` sends on the closed audit
  channel, which panics; the client gets a 500 for a change that was made (`cutoff`).
- The middleware replays whatever was stored, a 422 or a 500 too, for 24 hours;
  the 500 of the loser of two concurrent duplicates may overwrite the 201 of the winner. The
  cached response is found by the header alone: not by user, path or body.
- A refusal for want of funds may be given although money or interest came in while the
  statement waited for its locks, and the running balance of an entry may be computed
  from such an old sum: it is then not the balance after the entry, as openapi:997 has it.
- `README.md:50` of the repository promises "Every state change logged". An audit entry is dropped with a
  warning when the channel is full (audit.go:105), lost with a failing insert, and lost without
  a word when the process is killed: up to the channel and one more
  (second part of `ChangesAccountedFor`).
- Any state of an alert may follow any other, and a screening that is repeated
  raises its alerts again.
- An amount finer than the column is covered after rounding if it was before; the
  stored running balance may be a unit off.
- Withdrawals and transfers do not look at holds, the daily limit or the currency.
- Journal lines finer than the column balance when checked and not as stored:
  two debits of 0.00005 against a credit of 0.0001 (ledger/service.go:53) are stored as
  0.0001 each, against migration 002:8 "Debits must equal credits per journal entry".
  It takes one call and no interleaving; the run `ledger` posts such an entry, and
  `AccountingIdentity` speaks of the books while the column holds all amounts.
- `GetTrialBalance` ignores revenue and expense: it reports an imbalance while
  there is net income (second part of `AccountingIdentity`). The triggers of
  migrations 002 and 003 compute sums and check nothing.
- When a rollback fails, `RunInTx` hides the first error (postgres.go:69).

## 8. Not modelled

Reads that change nothing (`GetTransaction`, `GetStatement`, `GetBalance`, the lists, the
readiness check); the wording of answers; tokens, CORS, configuration and telemetry,
which keep nothing between requests; currencies and limits, which no operation of the
engine looks at; `AcquireLock`, which nothing calls. The bound of 25 connections: only
`PlaceHold` asks for a second connection while it holds one, and no route
reaches it. The order in which events become visible: nothing promises one.
Customers and KYC have types and no code.

## 9. Plan

Done, in this order: `Bank`, `TransactionEngine` and its proofs;
`AccountService` composed with it and its proofs; `OutboxPublisher` and its
proofs; `Interest`; `GeneralLedger`; `EngineWithInterest` and
`IdempotencyMiddleware` with their proofs; `RateLimiter`, `AuditLog` and
`Replica`; `Compliance`; the proofs of `Interest`, `GeneralLedger` and `Replica`; `SumTheorems`
and with it the proofs about amounts, books, windows, overdrafts and events; the proofs of `Compliance`.

Open:

1. The account service behind the idempotency middleware: creating and closing
   accounts have no key in the database, so that the cached response is all there is.
2. `ConnectionPool`, once a route reaches `PlaceHold`.
3. Amounts finer than the column in the engine, as `GeneralLedger` has them.
