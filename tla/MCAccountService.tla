-------------------------- MODULE MCAccountService --------------------------
\* One request slot and two clerks.
EXTENDS AccountService, TLC

CONSTANTS k1, k2

Ask(kind, key, from, to, amount) ==
    [kind |-> kind, key |-> key, from |-> from, to |-> to, amount |-> amount]
Todo(op, a, m) == [op |-> op, account |-> a, amount |-> m]

AllMoves ==
    {<<"ABSENT", "ACTIVE">>, <<"ACTIVE", "FROZEN">>, <<"ACTIVE", "CLOSED">>, <<"FROZEN", "CLOSED">>}

\* One unit comes to account 1, and goes again.
JustIn == {Ask("deposit", k1, GLCash, 1, 1)}
InAndOut == JustIn \cup {Ask("withdrawal", k2, 1, GLCash, 1)}

\* The life of an account: opened, read, encumbered, frozen and closed.
LifeTasks == {Todo(op, 1, 0) : op \in {"create", "get", "freeze", "close"}} \cup {Todo("hold", 1, 1)}
CloseTasks == {Todo("close", 1, 0)}
=============================================================================
