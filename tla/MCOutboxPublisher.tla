------------------------- MODULE MCOutboxPublisher -------------------------
\* A small outbox: batches of two of three events, counters that give up at once.
EXTENDS OutboxPublisher
=============================================================================
