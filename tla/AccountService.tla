--------------------------- MODULE AccountService ---------------------------
(***************************************************************************)
(* Opening, reading, freezing, closing and encumbering accounts            *)
(* (internal/domain/account), composed with the transaction engine: both   *)
(* work on the rows of accounts and on the sums of the ledger's entries.   *)
(*                                                                         *)
(* Clerks are the goroutines that serve account calls.  An action of a     *)
(* clerk is one statement on the pool, one whole database transaction, or  *)
(* one Redis command: a transaction of this service holds the row lock of  *)
(* SELECT ... FOR UPDATE from its first statement to its commit, so nobody *)
(* sees inside it.  A cached account is told apart by its state alone.     *)
(***************************************************************************)
EXTENDS TransactionEngine, Sequences

CONSTANTS
    Clerks,     \* goroutines that serve account calls
    Tasks,      \* the calls clients make
    HoldIds,    \* ids of holds; their number bounds the holds placed
    MaxVersion, \* no call to close is made on a row of this version: closing
                \* again raises the version of a closed account without end
    NoHold,     \* no row of account_holds has this id
    NoTask,     \* the clerk serves no call
    NoEntry     \* Redis has nothing under the key

Ops == {"create", "get", "freeze", "close", "hold"}

HoldType == [account : Accounts, amount : Nat, released : BOOLEAN]

ASSUME TasksAssumption ==
    /\ Tasks \subseteq [op : Ops, account : Accounts, amount : Nat]
    /\ IsFiniteSet(Clerks) /\ IsFiniteSet(HoldIds)
    /\ NoHold \notin HoldType
    /\ MaxVersion \in Nat

VARIABLES
    version,    \* accounts.version, 0 without a row
    announced,  \* the outbox events of each account, oldest first
    holds,      \* rows of account_holds: account, amount and whether released
    cache,      \* the state cached under "account:"+id
    at,         \* where each clerk is in its handler
    task,       \* the call it serves
    got,        \* the account state it has read
    told        \* the HTTP status of its last answer, 0 until it has one

accountVars == <<version, announced, holds, cache, at, task, got, told>>
coreVars == <<vars, accountVars>>

EventOf(s) ==
    CASE s = "ACTIVE" -> "AccountCreated"
      [] s = "FROZEN" -> "AccountFrozen"
      [] s = "CLOSED" -> "AccountClosed"

\* SUM(amount) over all entries of the account, whatever their type: GetBalance's
\* current balance.
CurrentBalance(a) == credit[a] + debit[a]

LiveHolds(a) ==
    {h \in HoldIds : holds[h] # NoHold /\ holds[h].account = a /\ ~holds[h].released}
HeldAmount(a) == SumOf(LiveHolds(a), LAMBDA h : holds[h].amount)
AvailableBalance(a) == CurrentBalance(a) - HeldAmount(a)

----------------------------------------------------------------------------
CoreInit ==
    /\ Init
    /\ version = [a \in Accounts |-> IF a \in Opened THEN 1 ELSE 0]
    /\ announced = [a \in Accounts |-> IF a \in Opened THEN <<"AccountCreated">> ELSE <<>>]
    /\ holds = [h \in HoldIds |-> NoHold]
    /\ cache = [a \in Accounts |-> NoEntry]
    /\ at = [c \in Clerks |-> "idle"]
    /\ task = [c \in Clerks |-> NoTask]
    /\ got = [c \in Clerks |-> "ABSENT"]
    /\ told = [c \in Clerks |-> 0]

Move(c, l) == at' = [at EXCEPT ![c] = l]

\* The handler returns.
Tell(c, code) ==
    /\ Move(c, "idle")
    /\ told' = [told EXCEPT ![c] = code]
    /\ task' = [task EXCEPT ![c] = NoTask]
    /\ got' = [got EXCEPT ![c] = "ABSENT"]

\* The handler goes on.
Proceed(c, l) ==
    /\ Move(c, l)
    /\ UNCHANGED <<task, got, told>>

\* A call comes in.  A new account and a new hold take an unused id.
Call(c) ==
    /\ at[c] = "idle"
    /\ \E t \in Tasks :
        /\ t.op = "create" =>
            /\ status[t.account] = "ABSENT"
            /\ \A d \in Clerks : at[d] = "create" => task[d].account # t.account
        /\ t.op = "close" => version[t.account] < MaxVersion
        /\ t.op = "hold" => Cardinality({d \in Clerks : at[d] \in {"hold", "holding"}})
                              < Cardinality({h \in HoldIds : holds[h] = NoHold})
        /\ task' = [task EXCEPT ![c] = t]
        /\ Move(c, t.op)
    /\ told' = [told EXCEPT ![c] = 0]
    /\ UNCHANGED <<vars, version, announced, holds, cache, got>>

\* A slip: the row is updated without a lock on it.
RowAlwaysFree(a) == TRUE

\* SELECT ... FOR UPDATE of the row waits for the transactions whose entries refer to it.
RowFree(a) == \A r \in Slots : pc[r] = "commit" => a \notin Customers(req[r])

\* A slip: the event is left out.
ChangeStatusSilently(a, s) ==
    /\ RowFree(a)
    /\ status' = [status EXCEPT ![a] = s]
    /\ version' = [version EXCEPT ![a] = @ + 1]
    /\ UNCHANGED <<ledger, pc, req, local, reply, announced, holds, cache>>

\* The transaction that gives account a the state s: the row with its version and the
\* event, committed together.
ChangeStatus(a, s) ==
    /\ RowFree(a)
    /\ status' = [status EXCEPT ![a] = s]
    /\ version' = [version EXCEPT ![a] = @ + 1]
    /\ announced' = [announced EXCEPT ![a] = Append(@, EventOf(s))]
    /\ UNCHANGED <<ledger, pc, req, local, reply, holds, cache>>

NoChange == UNCHANGED <<vars, version, announced, holds, cache>>

CreateAccount(c) ==
    /\ at[c] = "create"
    /\ ChangeStatus(task[c].account, "ACTIVE")
    /\ Tell(c, 201)

FreezeAccount(c) ==
    LET a == task[c].account IN
    /\ at[c] = "freeze"
    /\ \/ /\ status[a] = "ACTIVE"
          /\ ChangeStatus(a, "FROZEN")
          /\ Proceed(c, "invalidate")
       \/ /\ status[a] = "ABSENT"
          /\ NoChange
          /\ Tell(c, 404)
       \/ /\ status[a] \in {"FROZEN", "CLOSED"}
          /\ NoChange
          /\ Tell(c, 409)

\* CloseAccount reads the balance on the pool, before its transaction.
CheckZeroBalance(c) ==
    /\ at[c] = "close"
    /\ NoChange
    /\ \/ /\ CurrentBalance(task[c].account) = 0
          /\ Proceed(c, "closing")
       \/ /\ CurrentBalance(task[c].account) # 0
          /\ Tell(c, 409)

\* A slip: the update of no row is no error.
CloseNoRow(c) ==
    LET a == task[c].account IN
    /\ at[c] = "closing"
    /\ \/ /\ status[a] # "ABSENT"
          /\ ChangeStatus(a, "CLOSED")
       \/ /\ status[a] = "ABSENT"
          /\ announced' = [announced EXCEPT ![a] = Append(@, "AccountClosed")]
          /\ UNCHANGED <<vars, version, holds, cache>>
    /\ Proceed(c, "invalidate")

\* The transaction of CloseAccount tests neither the balance nor the state.
CloseRow(c) ==
    LET a == task[c].account IN
    /\ at[c] = "closing"
    /\ \/ /\ status[a] # "ABSENT"
          /\ ChangeStatus(a, "CLOSED")
          /\ Proceed(c, "invalidate")
       \/ /\ status[a] = "ABSENT"
          /\ NoChange
          /\ Tell(c, 404)

\* The cached account is deleted after the commit; an error of Redis is ignored.
Invalidate(c) ==
    /\ at[c] = "invalidate"
    /\ \/ cache' = [cache EXCEPT ![task[c].account] = NoEntry]
       \/ Faulty /\ UNCHANGED cache
    /\ Tell(c, 200)
    /\ UNCHANGED <<vars, version, announced, holds>>

\* GetAccount answers from the cache, or on a miss (or an error of Redis) reads the row.
LookUpCache(c) ==
    LET a == task[c].account IN
    /\ at[c] = "get"
    /\ NoChange
    /\ \/ /\ cache[a] # NoEntry
          /\ Tell(c, 200)
       \/ /\ cache[a] = NoEntry \/ Faulty
          /\ Proceed(c, "load")

LoadRow(c) ==
    LET a == task[c].account IN
    /\ at[c] = "load"
    /\ NoChange
    /\ \/ /\ status[a] # "ABSENT"
          /\ got' = [got EXCEPT ![c] = status[a]]
          /\ Move(c, "fill")
          /\ UNCHANGED <<task, told>>
       \/ /\ status[a] = "ABSENT"
          /\ Tell(c, 404)

FillCache(c) ==
    /\ at[c] = "fill"
    /\ \/ cache' = [cache EXCEPT ![task[c].account] = got[c]]
       \/ Faulty /\ UNCHANGED cache
    /\ Tell(c, 200)
    /\ UNCHANGED <<vars, version, announced, holds>>

\* PlaceHold reads the balance on the pool, though it is inside a transaction.
CheckAvailable(c) ==
    /\ at[c] = "hold"
    /\ NoChange
    /\ \/ /\ AvailableBalance(task[c].account) >= task[c].amount
          /\ Proceed(c, "holding")
       \/ /\ AvailableBalance(task[c].account) < task[c].amount
          /\ Tell(c, 409)

\* CreateHold, under an id that is new, and its event.
InsertHold(c) ==
    LET a == task[c].account IN
    /\ at[c] = "holding"
    /\ \E h \in HoldIds :
        /\ holds[h] = NoHold /\ h = (CHOOSE g \in HoldIds : holds[g] = NoHold)
        /\ holds' = [holds EXCEPT ![h] =
                        [account |-> a, amount |-> task[c].amount, released |-> FALSE]]
    /\ announced' = [announced EXCEPT ![a] = Append(@, "HoldPlaced")]
    /\ Tell(c, 201)
    /\ UNCHANGED <<vars, version, cache>>

ReleaseHold(h) ==
    /\ holds[h] # NoHold
    /\ ~holds[h].released
    /\ holds' = [holds EXCEPT ![h].released = TRUE]
    /\ UNCHANGED <<vars, version, announced, cache, at, task, got, told>>

\* A slip: entries are cached with a TTL of zero, which is none.
ExpireNever(a) == FALSE /\ UNCHANGED coreVars

\* The five minutes of a cache entry are over.
Expire(a) ==
    /\ cache[a] # NoEntry
    /\ cache' = [cache EXCEPT ![a] = NoEntry]
    /\ UNCHANGED <<vars, version, announced, holds, at, task, got, told>>

\* A statement fails, or the goroutine dies: a transaction is rolled back, a cache
\* entry that was to be deleted stays.
ClerkFault(c) ==
    /\ Faulty
    /\ at[c] # "idle"
    /\ NoChange
    /\ Tell(c, 500)

Serve(c) ==
    \/ CreateAccount(c)
    \/ FreezeAccount(c)
    \/ CheckZeroBalance(c) \/ CloseRow(c)
    \/ Invalidate(c)
    \/ LookUpCache(c) \/ LoadRow(c) \/ FillCache(c)
    \/ CheckAvailable(c) \/ InsertHold(c)

CoreNext ==
    \/ \E r \in Slots : Handle(r) /\ UNCHANGED accountVars
    \/ \E c \in Clerks : Call(c) \/ Serve(c) \/ ClerkFault(c)
    \/ \E h \in HoldIds : ReleaseHold(h)
    \/ \E a \in Accounts : Expire(a)

CoreSpec == CoreInit /\ [][CoreNext]_coreVars

\* A clerk runs on, a request too, and entries of the cache run out of time.
CoreFairSpec ==
    /\ CoreSpec
    /\ \A c \in Clerks : WF_coreVars(Serve(c))
    /\ \A r \in Slots : SF_coreVars(Work(r) /\ UNCHANGED accountVars)
    /\ \A a \in Accounts : WF_coreVars(Expire(a))

----------------------------------------------------------------------------
\* Properties

\* Every variable of the account service stays in its type (the events have a property
\* of their own).
AccountTypeOK ==
    /\ status \in [Accounts -> Statuses]
    /\ version \in [Accounts -> Nat]
    /\ holds \in [HoldIds -> HoldType \cup {NoHold}]
    /\ cache \in [Accounts -> Statuses \cup {NoEntry}]
    /\ at \in [Clerks -> Ops \cup {"idle", "closing", "invalidate", "load", "fill", "holding"}]
    /\ task \in [Clerks -> Tasks \cup {NoTask}]
    /\ got \in [Clerks -> Statuses]
    /\ told \in [Clerks -> {0, 200, 201, 404, 409, 500}]

\* A clerk that is busy has a call, and an account that is being created is there for
\* nobody yet: what the service needs to do only what the engine allows.
ClerksOK ==
    /\ \A c \in Clerks : at[c] # "idle" => task[c] \in Tasks
    /\ \A c \in Clerks : at[c] = "create" => status[task[c].account] = "ABSENT"
    /\ \A c, d \in Clerks :
        c # d /\ at[c] = "create" /\ at[d] = "create" => task[c].account # task[d].account

CoreIInv == AccountTypeOK /\ ClerksOK

\* Where in the events of an account its state changes.
Changes(a) == {i \in 1 .. Len(announced[a]) : announced[a][i] # "HoldPlaced"}

\* The events of an account tell its whole life: one for each version of its row, and
\* the last of them names the state it is in, whatever fails or races.
EventsTellTheState ==
    \A a \in Accounts :
        /\ Cardinality(Changes(a)) = version[a]
        /\ status[a] # "ABSENT" =>
            \E i \in Changes(a) :
                /\ \A j \in Changes(a) : j <= i
                /\ announced[a][i] = EventOf(status[a])

\* Seen by the transaction engine, the account service opens, freezes and closes
\* accounts and does nothing else: what is proved of the engine holds under it.
EngineUnderAccounts == Spec

\* A frozen or closed account is not read as active for ever: whatever a slow reader
\* put back into the cache after the invalidation, readers end up with the true state.
CacheConverges == \A a \in Accounts : <>[](cache[a] \in {NoEntry, status[a]})

\* An account is empty when it is closed (openapi, close: "Account must have a zero balance.").
ClosedEmpty ==
    [][\A a \in Accounts : status[a] # "CLOSED" /\ status'[a] = "CLOSED" => Balance(a) = 0]_coreVars
=============================================================================
