------------------------------ MODULE AuditLog ------------------------------
(***************************************************************************)
(* The audit log (internal/middleware/audit.go): handlers send an entry    *)
(* for each mutating request to a buffered channel and never wait; one     *)
(* goroutine drains it into the table audit_log.  Close closes the channel *)
(* and waits for that goroutine.                                           *)
(*                                                                         *)
(* An entry is told apart by its request alone.                            *)
(***************************************************************************)
EXTENDS Integers, Sequences

CONSTANTS
    Requests,   \* the requests clients send
    Buffer,     \* the capacity of the channel
    NoRequest   \* the drain goroutine writes nothing

ASSUME BufferAssumption == Buffer \in Nat /\ NoRequest \notin Requests

VARIABLES
    queue,      \* the entries in the channel
    closed,     \* the channel has been closed
    writing,    \* the entry the drain goroutine has received and is inserting
    done,       \* the drain goroutine has ended
    recorded,   \* the rows of audit_log
    unrecorded  \* entries that are gone: the channel was full, or the insert failed

auditVars == <<queue, closed, writing, done, recorded, unrecorded>>

AuditInit ==
    /\ queue = <<>>
    /\ closed = FALSE
    /\ writing = NoRequest
    /\ done = FALSE
    /\ recorded = {}
    /\ unrecorded = {}

\* A slip: the channel has no bound.
SendUnbounded(q) ==
    /\ ~closed
    /\ queue' = Append(queue, q)
    /\ UNCHANGED <<closed, writing, done, recorded, unrecorded>>

\* The non-blocking send: the entry of q goes into the channel, or is dropped.
SendEntry(q) ==
    /\ ~closed
    /\ \/ /\ Len(queue) < Buffer
          /\ queue' = Append(queue, q)
          /\ UNCHANGED unrecorded
       \/ /\ Len(queue) = Buffer
          /\ unrecorded' = unrecorded \cup {q}
          /\ UNCHANGED queue
    /\ UNCHANGED <<closed, writing, done, recorded>>

\* The goroutine receives one entry at a time.
ReceiveEntry ==
    /\ writing = NoRequest
    /\ queue # <<>>
    /\ writing' = Head(queue)
    /\ queue' = Tail(queue)
    /\ UNCHANGED <<closed, done, recorded, unrecorded>>

\* The INSERT; when it fails, the entry is logged and forgotten.
InsertEntry ==
    /\ writing # NoRequest
    /\ recorded' = recorded \cup {writing}
    /\ writing' = NoRequest
    /\ UNCHANGED <<queue, closed, done, unrecorded>>

InsertFails ==
    /\ writing # NoRequest
    /\ unrecorded' = unrecorded \cup {writing}
    /\ writing' = NoRequest
    /\ UNCHANGED <<queue, closed, done, recorded>>

CloseChannel ==
    /\ closed' = TRUE
    /\ UNCHANGED <<queue, writing, done, recorded, unrecorded>>

\* A slip: the goroutine ends at once when the channel is closed.
DrainEndsAtOnce ==
    /\ closed /\ ~done
    /\ writing = NoRequest
    /\ done' = TRUE
    /\ UNCHANGED <<queue, closed, writing, recorded, unrecorded>>

\* range over a closed channel ends when the channel is empty.
DrainEnds ==
    /\ closed /\ ~done
    /\ queue = <<>>
    /\ writing = NoRequest
    /\ done' = TRUE
    /\ UNCHANGED <<queue, closed, writing, recorded, unrecorded>>

\* The entry of q is on its way.
Underway(q) == writing = q \/ \E i \in DOMAIN queue : queue[i] = q
----------------------------------------------------------------------------
AuditTypeOK ==
    /\ queue \in Seq(Requests) /\ Len(queue) <= Buffer
    /\ closed \in BOOLEAN /\ done \in BOOLEAN
    /\ writing \in Requests \cup {NoRequest}
    /\ recorded \in SUBSET Requests
    /\ unrecorded \in SUBSET Requests
============================================================================
