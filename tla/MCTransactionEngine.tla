------------------------ MODULE MCTransactionEngine ------------------------
\* Small banks for TransactionEngine: two accounts with numbers for ids, four
\* keys, amounts of one and two units.
EXTENDS TransactionEngine

CONSTANTS k1, k2, k3, k4

Ask(kind, key, from, to, amount) ==
    [kind |-> kind, key |-> key, from |-> from, to |-> to, amount |-> amount]

Dep(key, a, m) == Ask("deposit", key, GLCash, a, m)
Wdr(key, a, m) == Ask("withdrawal", key, a, GLCash, m)
Txf(key, a, b, m) == Ask("transfer", key, a, b, m)

\* Deposits feed both accounts; a withdrawal of account 1 and a transfer from it cannot both be
\* covered, a transfer goes the other way, one key comes with two payloads, one request is malformed.
MixedOffers ==
    {Dep(k1, 1, 2), Dep(k2, 2, 1), Txf(k3, 1, 2, 2), Txf(k4, 2, 1, 1), Wdr(k4, 1, 2), Txf(k1, 1, 1, 1)}

\* An account is opened while requests come in.
Opening == {<<"ABSENT", "ACTIVE">>}

AllMoves ==
    {<<"ABSENT", "ACTIVE">>, <<"ACTIVE", "FROZEN">>, <<"ACTIVE", "CLOSED">>, <<"FROZEN", "CLOSED">>}
=============================================================================
