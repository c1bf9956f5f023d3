---------------------------- MODULE GeneralLedger ----------------------------
(***************************************************************************)
(* The general ledger: internal/domain/ledger.                             *)
(*                                                                         *)
(* Every replica seeds the chart of accounts when it starts, account by    *)
(* account, each looked up on the pool and inserted in a transaction of    *)
(* its own; an error ends the process and k8s starts it again.  A replica  *)
(* that is up serves journal entries: an entry is checked in memory and    *)
(* written in one transaction, with the constraints of migration 002.      *)
(*                                                                         *)
(* Amounts are counted in tenths of the last digit of DECIMAL(19,4): a     *)
(* request may be finer than the column that stores it.                    *)
(***************************************************************************)
EXTENDS Integers, FiniteSets, Functions

CONSTANTS
    Replicas,
    Codes,      \* codes of the standard chart; numbers, in the order of seeding
    Class,      \* account_class of each code
    Journals,   \* the entries clients ask for: idempotency key, reference and lines
    Faulty      \* TRUE: statements may fail and replicas die

Classes == {"ASSET", "LIABILITY", "EQUITY", "REVENUE", "EXPENSE"}
LineType == [line : Nat, account : Nat, type : {"DEBIT", "CREDIT", "OTHER"}, amount : Int]

ASSUME LedgerAssumption ==
    /\ Codes \subseteq Nat /\ IsFiniteSet(Codes)
    /\ Class \in [Codes -> Classes]
    /\ \A j \in Journals : j.lines \subseteq LineType /\ IsFiniteSet(j.lines)
    /\ Faulty \in BOOLEAN

VARIABLES
    chart,      \* codes with a row in gl_accounts
    journal,    \* committed journal entries, as they were asked for
    outbox,     \* idempotency keys of those with an outbox event
    at,         \* where each replica is: seeding, about to insert, or up
    next,       \* codes it has still to seed
    told        \* the HTTP status of the last journal answer of each replica

vars == <<chart, journal, outbox, at, next, told>>

\* A slip: expenses are taken for credit-normal.
DebitNormalAssets(c) == Class[c] = "ASSET"

\* normal_balance of the standard chart.
DebitNormal(c) == Class[c] \in {"ASSET", "EXPENSE"}

\* DECIMAL(19,4) rounds half away from zero.
Stored(amount) ==
    IF amount >= 0 THEN (amount + 5) \div 10 ELSE -((5 - amount) \div 10)

Total(lines, Value(_)) == SumFunctionOnSet([l \in lines |-> Value(l)], lines)
OfType(lines, t) == {l \in lines : l.type = t}

\* A slip: an entry needs only have both sides.
TwoSided(j) == OfType(j.lines, "DEBIT") # {} /\ OfType(j.lines, "CREDIT") # {}

\* PostJournalEntry compares the sums of what was asked for.
Balanced(j) ==
    Total(OfType(j.lines, "DEBIT"), LAMBDA l : l.amount)
        = Total(OfType(j.lines, "CREDIT"), LAMBDA l : l.amount)

\* A slip: the reference is not unique.
AcceptedByKey(j) ==
    /\ \A i \in journal : i.key # j.key
    /\ \A l \in j.lines : l.account \in chart /\ Stored(l.amount) > 0 /\ l.type # "OTHER"

\* The constraints of the tables: unique key and reference, known accounts, amounts above
\* zero, the enumeration of entry types.
Accepted(j) ==
    /\ \A i \in journal : i.key # j.key /\ i.ref # j.ref
    /\ \A l \in j.lines : l.account \in chart /\ Stored(l.amount) > 0 /\ l.type # "OTHER"

Init ==
    /\ chart = {}
    /\ journal = {}
    /\ outbox = {}
    /\ at = [r \in Replicas |-> "seeding"]
    /\ next = [r \in Replicas |-> Codes]
    /\ told = [r \in Replicas |-> 0]

\* GetGLAccount: the next account is skipped if it exists.
CheckCode(r, c) ==
    /\ at[r] = "seeding"
    /\ c \in next[r]
    /\ \A d \in next[r] : c <= d
    /\ \/ /\ c \in chart
          /\ next' = [next EXCEPT ![r] = @ \ {c}]
          /\ UNCHANGED at
       \/ /\ c \notin chart
          /\ at' = [at EXCEPT ![r] = "inserting"]
          /\ UNCHANGED next
    /\ UNCHANGED <<chart, journal, outbox, told>>

\* A slip: nobody starts the process again.
StayDown(r) ==
    /\ at' = [at EXCEPT ![r] = "down"]
    /\ UNCHANGED next

\* The process starts over: seeding is fatal when it fails.
Restart(r) ==
    /\ at' = [at EXCEPT ![r] = "seeding"]
    /\ next' = [next EXCEPT ![r] = Codes]

\* CreateGLAccount, whose code is unique.
InsertCode(r, c) ==
    /\ at[r] = "inserting"
    /\ c \in next[r]
    /\ \A d \in next[r] : c <= d
    /\ \/ /\ c \notin chart
          /\ chart' = chart \cup {c}
          /\ at' = [at EXCEPT ![r] = "seeding"]
          /\ next' = [next EXCEPT ![r] = @ \ {c}]
       \/ /\ c \in chart
          /\ Restart(r)
          /\ UNCHANGED chart
    /\ UNCHANGED <<journal, outbox, told>>

\* A slip: the server does not wait for the seeding.
SeedingLater(r) ==
    /\ at[r] = "seeding"
    /\ at' = [at EXCEPT ![r] = "up"]
    /\ UNCHANGED <<chart, journal, outbox, next, told>>

\* The whole chart is there: the server listens.
SeedingDone(r) ==
    /\ at[r] = "seeding"
    /\ next[r] = {}
    /\ at' = [at EXCEPT ![r] = "up"]
    /\ UNCHANGED <<chart, journal, outbox, next, told>>

\* The header, the lines and the event in one transaction, or nothing; every error is
\* answered alike.
PostJournalEntry(r, j) ==
    /\ at[r] = "up"
    /\ \/ /\ j.lines # {} /\ Balanced(j) /\ Accepted(j)
          /\ journal' = journal \cup {j}
          /\ outbox' = outbox \cup {j.key}
          /\ told' = [told EXCEPT ![r] = 201]
       \/ /\ ~(j.lines # {} /\ Balanced(j) /\ Accepted(j)) \/ Faulty
          /\ told' = [told EXCEPT ![r] = IF j.lines = {} THEN 400 ELSE 422]
          /\ UNCHANGED <<journal, outbox>>
    /\ UNCHANGED <<chart, at, next>>

Crash(r) ==
    /\ Faulty
    /\ Restart(r)
    /\ UNCHANGED <<chart, journal, outbox, told>>

Start(r) == SeedingDone(r) \/ \E c \in Codes : CheckCode(r, c) \/ InsertCode(r, c)

Next ==
    \E r \in Replicas :
        \/ Start(r)
        \/ \E j \in Journals : PostJournalEntry(r, j)
        \/ Crash(r)

Spec == Init /\ [][Next]_vars
FairSpec == Spec /\ \A r \in Replicas : WF_vars(Start(r))

----------------------------------------------------------------------------
\* The trial balance

\* Every line of every committed entry, with the amount the column holds.
Lines == UNION {{<<j.key, l>> : l \in j.lines} : j \in journal}

Posted(c, t) == Total({x \in Lines : x[2].account = c /\ x[2].type = t},
                      LAMBDA x : Stored(x[2].amount))

\* SUM(CASE ...) of GetTrialBalance, in the direction of the account's normal balance.
BalanceOf(c) ==
    IF DebitNormal(c) THEN Posted(c, "DEBIT") - Posted(c, "CREDIT")
                      ELSE Posted(c, "CREDIT") - Posted(c, "DEBIT")

ClassTotal(k) == Total({c \in chart : Class[c] = k}, BalanceOf)

\* GetTrialBalance answers without ErrTrialImbalance.
TrialBalanceOK == ClassTotal("ASSET") = ClassTotal("LIABILITY") + ClassTotal("EQUITY")

----------------------------------------------------------------------------
\* Properties

\* Every variable stays in its type, and a replica that serves has found or made the
\* whole chart, whoever else was seeding it.
TypeOK ==
    /\ chart \subseteq Codes
    /\ journal \subseteq Journals
    /\ outbox \subseteq {j.key : j \in Journals}
    /\ at \in [Replicas -> {"seeding", "inserting", "up"}]
    /\ next \in [Replicas -> SUBSET Codes]
    /\ told \in [Replicas -> {0, 201, 400, 422}]
    /\ \A r \in Replicas :
        /\ Codes \ next[r] \subseteq chart
        /\ at[r] = "inserting" => next[r] # {}
        /\ at[r] = "up" => next[r] = {}

\* The column holds the amount as it was asked for.
Fits(l) == l.amount % 10 = 0

\* While the column holds all amounts, the accounting identity holds over all five classes
\* (service.go:93 "verifies the accounting equation"), so GetTrialBalance, which looks at three
\* of them, reports an imbalance exactly while revenue and expense differ.
AccountingIdentity ==
    (\A x \in Lines : Fits(x[2])) =>
        /\ ClassTotal("ASSET") + ClassTotal("EXPENSE")
             = ClassTotal("LIABILITY") + ClassTotal("EQUITY") + ClassTotal("REVENUE")
        /\ TrialBalanceOK <=> ClassTotal("REVENUE") = ClassTotal("EXPENSE")

\* An idempotency key and a reference posts once, and its event goes with it (migration 002:
\* "Prevents duplicate journal postings").
PostedOnce ==
    /\ \A i, j \in journal : i.key = j.key \/ i.ref = j.ref => i = j
    /\ outbox = {j.key : j \in journal}

\* A replica that is not killed again and again comes up in the end, though a seeding that
\* collides with another's fails and ends the process.
EveryReplicaComesUp ==
    \A r \in Replicas : <>[][~Crash(r)]_vars => <>(at[r] = "up")
=============================================================================
