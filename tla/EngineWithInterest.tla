------------------------- MODULE EngineWithInterest -------------------------
(***************************************************************************)
(* The transaction engine and the posting of interest on one ledger.  A    *)
(* posting (internal/domain/interest) credits customer accounts in one     *)
(* database transaction of its own, without reading or locking a balance:  *)
(* it may commit between any two statements of a request.  Which amounts a *)
(* posting pays is Interest's subject; here they are any of a set.         *)
(***************************************************************************)
EXTENDS TransactionEngine

CONSTANTS
    InterestDue,    \* the amounts a posting may pay an account, 0 among them
    MaxInterest     \* a bound for TLC: the interest an account is paid altogether

ASSUME InterestDueAssumption ==
    InterestDue \subseteq Nat /\ 0 \in InterestDue /\ MaxInterest \in Nat

VARIABLE interest   \* the interest paid to each account

JointInit == Init /\ interest = [a \in Accounts |-> 0]

\* A slip: the expense account's entry takes the customer's place.
PayTheBank(due) ==
    /\ credit' = [credit EXCEPT ![GLCash] = @ + SumOf(Accounts, LAMBDA a : due[a])]
    /\ interest' = [a \in Accounts |-> interest[a] + due[a]]
    /\ \A a \in Accounts : interest'[a] <= MaxInterest
    /\ UNCHANGED <<txns, debit, outbox, status, pc, req, local, reply>>
    /\ Remember

\* The commit of PostAccruedInterest.  It looks at no state and waits for no balance lock.
PayInterest(due) ==
    /\ credit' = [a \in Ledgers |-> IF a \in Accounts THEN credit[a] + due[a] ELSE credit[a]]
    /\ interest' = [a \in Accounts |-> interest[a] + due[a]]
    /\ \A a \in Accounts : interest'[a] <= MaxInterest
    /\ UNCHANGED <<txns, debit, outbox, status, pc, req, local, reply>>
    /\ Remember

JointNext ==
    \/ Next /\ UNCHANGED interest
    \/ \E due \in [Accounts -> InterestDue] : PayInterest(due)

JointSpec == JointInit /\ [][JointNext]_<<vars, interest>>

----------------------------------------------------------------------------
\* Properties

PayingBank == INSTANCE Bank WITH
    Amounts <- OfferedAmounts,
    Earnings <- InterestDue,
    balance <- [a \in Accounts |-> Balance(a)],
    past <- past,
    cash <- debit[GLCash] - credit[GLCash],
    receipts <- Receipts

\* The engine still does what Bank promises when interest is posted at any moment.
ImplementsPayingBank == PayingBank!Spec
=============================================================================
