---------------------- MODULE MCIdempotencyMiddleware ----------------------
\* One account, a deposit and a withdrawal of all it brings, each repeated at will and by
\* several clients at once; the account may be frozen at any moment.
EXTENDS IdempotencyMiddleware

CONSTANTS k1, k2

Ask(kind, key, from, to, amount) ==
    [kind |-> kind, key |-> key, from |-> from, to |-> to, amount |-> amount]

Pay == Ask("deposit", k1, GLCash, 1, 1)
Draw == Ask("withdrawal", k2, 1, GLCash, 1)
Both == {Pay, Draw}

Letters == {[header |-> k1, body |-> Pay], [header |-> k2, body |-> Draw]}

Freezing == {<<"ACTIVE", "FROZEN">>}
============================================================================
