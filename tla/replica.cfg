\* Requests of one address pass limiter, handler and audit log, while the process is told to
\* stop, its listener fails, or it is killed.
SPECIFICATION FairSpec
CONSTANTS
    q1 = q1
    q2 = q2
    q3 = q3
    ip1 = ip1
    q4 = q4
    Sources = {ip1}
    Limit = 2
    Window = 2
    MaxCount = 4
    Requests = {q1, q2, q3, q4}
    Buffer = 1
    NoRequest = NoRequest
    Mutating = {q1, q2, q3}
    SourceOf <- Origins
    Faulty = TRUE
INVARIANTS
    SlidingWindow
    ChangesAccountedFor
    UnhurriedMeansAnswered
PROPERTIES
    WaitingIsEnough
    StopsWhenTold
    EntriesAreDealtWith
CHECK_DEADLOCK FALSE
