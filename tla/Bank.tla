-------------------------------- MODULE Bank --------------------------------
(***************************************************************************)
(* What the bank promises its customers, with no word on how: money moves  *)
(* in one indivisible step, every movement has a key and a key moves money *)
(* once, nobody spends what the account has never had at once, and the     *)
(* cash the bank holds changes by exactly what crosses its counter.        *)
(*                                                                         *)
(* It does not promise that the money is still there: funds are checked    *)
(* against a balance the account has had, and the receipt of a movement    *)
(* states the balance that follows from it.                                *)
(*                                                                         *)
(* TransactionEngine implements this specification (see its refinement     *)
(* Promise and the theorem EngineImplementsBank).                          *)
(***************************************************************************)
EXTENDS Integers

CONSTANTS
    Accounts,   \* the customer accounts
    Keys,       \* the idempotency keys
    Amounts,    \* the amounts a client may name
    Earnings    \* the amounts of interest an account may be paid at once

VARIABLES
    balance,    \* the money of each customer account
    past,       \* the balances each account has had
    cash,       \* the bank's cash position
    receipts    \* for each key that has moved money, the balances it states

vars == <<balance, past, cash, receipts>>

Init ==
    /\ balance = [a \in Accounts |-> 0]
    /\ past = [a \in Accounts |-> {0}]
    /\ cash = 0
    /\ receipts = [k \in {} |-> {}]

\* A key is used up by the first movement that carries it.
Receive(k, stated) ==
    /\ k \notin DOMAIN receipts
    /\ receipts' = [j \in DOMAIN receipts \cup {k} |-> IF j = k THEN stated ELSE receipts[j]]

Become(new) ==
    /\ balance' = new
    /\ past' = [a \in Accounts |-> past[a] \cup {new[a]}]

Deposit(k, a, m) ==
    /\ m > 0
    /\ cash' = cash + m
    /\ Become([balance EXCEPT ![a] = @ + m])
    /\ \E b \in past[a] : Receive(k, [x \in {a} |-> b + m])

Withdraw(k, a, m) ==
    /\ m > 0
    /\ cash' = cash - m
    /\ Become([balance EXCEPT ![a] = @ - m])
    /\ \E b \in past[a] : m <= b /\ Receive(k, [x \in {a} |-> b - m])

Transfer(k, from, to, m) ==
    /\ m > 0
    /\ from # to
    /\ UNCHANGED cash
    /\ Become([balance EXCEPT ![from] = @ - m, ![to] = @ + m])
    /\ \E b \in past[from], c \in past[to] :
        /\ m <= b
        /\ Receive(k, [x \in {from, to} |-> IF x = from THEN b - m ELSE c + m])

\* Interest is money the bank owes without having received it.
Earn(due) ==
    /\ Become([a \in Accounts |-> balance[a] + due[a]])
    /\ UNCHANGED <<cash, receipts>>

Next ==
    \/ \E k \in Keys, m \in Amounts, a \in Accounts :
          \/ Deposit(k, a, m)
          \/ Withdraw(k, a, m)
          \/ \E b \in Accounts : Transfer(k, a, b, m)
    \/ \E due \in [Accounts -> Earnings] : Earn(due)

Spec == Init /\ [][Next]_vars
=============================================================================
