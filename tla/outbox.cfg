\* Two publishers poll batches of two of three events; statements fail and replicas die. The system
\* stops when every event is marked or given up.
SPECIFICATION FairSpec
CONSTANTS
    Events = {1, 2, 3}
    Replicas = {p1, p2}
    MaxRetry = 1
    Batch = 2
    Faulty = TRUE
INVARIANTS
    NothingForgotten
    RetriesBounded
PROPERTIES
    DealtWith
CHECK_DEADLOCK FALSE
