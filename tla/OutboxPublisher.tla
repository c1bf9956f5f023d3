--------------------------- MODULE OutboxPublisher ---------------------------
(***************************************************************************)
(* The relay of the transactional outbox: internal/outbox/publisher.go.    *)
(*                                                                         *)
(* Every replica runs one publisher.  It polls the oldest unpublished rows *)
(* of outbox_events, sends them one by one and marks each as published;    *)
(* when the mark fails it counts a retry and goes on with the next event.  *)
(* Nothing keeps two replicas from polling the same rows, and a replica    *)
(* may die, or have its context cancelled, between any two statements.     *)
(*                                                                         *)
(* An event is named by the position of its created_at: rows are committed *)
(* in any order, since created_at is drawn before the commit.              *)
(***************************************************************************)
EXTENDS Integers, FiniteSets

CONSTANTS
    Events,     \* events by created_at
    Replicas,   \* running publishers
    MaxRetry,   \* maxRetryCount
    Batch,      \* publishBatch
    Faulty      \* TRUE: statements may fail and replicas may die

ASSUME EventsAssumption == Events \subseteq Nat /\ IsFiniteSet(Events)
ASSUME ReplicasAssumption == IsFiniteSet(Replicas)
ASSUME LimitsAssumption == MaxRetry \in Nat /\ Batch \in Nat \ {0} /\ Faulty \in BOOLEAN

VARIABLES
    rows,       \* events with a committed row in outbox_events
    published,  \* those with published_at set
    retries,    \* retry_count of each
    sent,       \* events the broker has received, once or more often
    at,         \* where each replica is in its loop
    batch       \* the polled events it has not dealt with yet

table == <<rows, published, retries>>
vars == <<table, sent, at, batch>>

\* A slip: nothing limits the retries.
PendingForever(e) == e \in rows /\ e \notin published

\* The WHERE of poll.
Pending(e) == e \in rows /\ e \notin published /\ retries[e] <= MaxRetry

\* ORDER BY created_at LIMIT publishBatch.
Polled ==
    {e \in Events : Pending(e) /\ Cardinality({d \in Events : Pending(d) /\ d < e}) < Batch}

Oldest(S) == CHOOSE e \in S : \A d \in S : e <= d

\* The event a replica is dealing with.
Current(p) == Oldest(batch[p])

Init ==
    /\ rows = {}
    /\ published = {}
    /\ retries = [e \in Events |-> 0]
    /\ sent = {}
    /\ at = [p \in Replicas |-> "idle"]
    /\ batch = [p \in Replicas |-> {}]

\* The services commit an event with their change (InsertOutboxEvent).
Insert(e) ==
    /\ e \notin rows
    /\ rows' = rows \cup {e}
    /\ UNCHANGED <<published, retries, sent, at, batch>>

\* A slip: events are marked as published when they are claimed.
PollAndClaim(p) ==
    /\ at[p] = "idle"
    /\ Polled # {}
    /\ batch' = [batch EXCEPT ![p] = Polled]
    /\ at' = [at EXCEPT ![p] = "send"]
    /\ published' = published \cup Polled
    /\ UNCHANGED <<rows, retries, sent>>

\* A tick: the query reads the whole batch before the first event is sent.
Poll(p) ==
    /\ at[p] = "idle"
    /\ Polled # {}
    /\ batch' = [batch EXCEPT ![p] = Polled]
    /\ at' = [at EXCEPT ![p] = "send"]
    /\ UNCHANGED <<table, sent>>

\* A slip: an error of the broker is ignored.
SendOrLose(p) ==
    /\ at[p] = "send"
    /\ sent' \in {sent, sent \cup {Current(p)}}
    /\ at' = [at EXCEPT ![p] = "mark"]
    /\ UNCHANGED <<table, batch>>

\* Sending cannot fail: it is a log line that stands for the broker.
Send(p) ==
    /\ at[p] = "send"
    /\ sent' = sent \cup {Current(p)}
    /\ at' = [at EXCEPT ![p] = "mark"]
    /\ UNCHANGED <<table, batch>>

\* The loop goes on with the next event of the batch, whatever became of this one.
Advance(p) ==
    /\ batch' = [batch EXCEPT ![p] = @ \ {Current(p)}]
    /\ at' = [at EXCEPT ![p] = IF batch'[p] = {} THEN "idle" ELSE "send"]

\* A slip: the update matches no row.
MarkNothing(p) ==
    /\ at[p] = "mark"
    /\ Advance(p)
    /\ UNCHANGED <<table, sent>>

\* UPDATE ... SET published_at, by id alone.
Mark(p) ==
    /\ at[p] = "mark"
    /\ published' = published \cup {Current(p)}
    /\ Advance(p)
    /\ UNCHANGED <<rows, retries, sent>>

MarkFails(p) ==
    /\ Faulty
    /\ at[p] = "mark"
    /\ at' = [at EXCEPT ![p] = "retry"]
    /\ UNCHANGED <<table, sent, batch>>

CountRetry(p) ==
    /\ at[p] = "retry"
    /\ retries' = [retries EXCEPT ![Current(p)] = @ + 1]
    /\ Advance(p)
    /\ UNCHANGED <<rows, published, sent>>

RetryFails(p) ==
    /\ Faulty
    /\ at[p] = "retry"
    /\ Advance(p)
    /\ UNCHANGED <<table, sent>>

\* The process ends; its successor starts with nothing polled.
Crash(p) ==
    /\ Faulty
    /\ at[p] # "idle"
    /\ at' = [at EXCEPT ![p] = "idle"]
    /\ batch' = [batch EXCEPT ![p] = {}]
    /\ UNCHANGED <<table, sent>>

Step(p) == Poll(p) \/ Send(p) \/ Mark(p) \/ CountRetry(p)
Fail(p) == MarkFails(p) \/ RetryFails(p) \/ Crash(p)

Next ==
    \/ \E e \in Events : Insert(e)
    \/ \E p \in Replicas : Step(p) \/ Fail(p)

Spec == Init /\ [][Next]_vars

\* Ticks come and a publisher runs on, whatever its statements return; no replica dies for
\* ever before its next send (k8s restarts it), and an outage of the store ends.
FairSpec ==
    /\ Spec
    /\ \A p \in Replicas :
        /\ WF_vars(Poll(p)) /\ SF_vars(Send(p)) /\ SF_vars(Mark(p))
        /\ WF_vars(CountRetry(p) \/ RetryFails(p))

----------------------------------------------------------------------------
\* Properties

\* Every variable stays in its type.
TypeOK ==
    /\ rows \subseteq Events
    /\ published \subseteq Events
    /\ retries \in [Events -> Nat]
    /\ sent \subseteq Events
    /\ at \in [Replicas -> {"idle", "send", "mark", "retry"}]
    /\ batch \in [Replicas -> SUBSET Events]

\* An event no poll will pick up any more, because it is marked or because its retries
\* are used up, has reached the broker (README: "Reliable at-least-once event delivery").
NothingForgotten == \A e \in rows : ~Pending(e) => e \in sent

\* What makes NothingForgotten inductive: an event is marked, and a retry counted, only
\* after the send, and the batches of the replicas are what they are working on.
IInv ==
    /\ TypeOK
    /\ \A e \in Events : e \in published \/ retries[e] > 0 => e \in sent
    /\ \A p \in Replicas :
        /\ at[p] # "idle" <=> batch[p] # {}
        /\ at[p] \in {"mark", "retry"} => Current(p) \in sent

Holders(e) == {p \in Replicas : e \in batch[p]}

\* The retries stop: the counter passes maxRetryCount by at most one for each replica that
\* had polled the event, and those that still hold it are the ones that may yet count.
RetriesBounded ==
    \A e \in Events : retries[e] + Cardinality(Holders(e)) <= MaxRetry + Cardinality(Replicas)

\* No event is sent for ever: in the end each is marked, or given up; and since neither happens
\* before it was sent, each reaches the broker (migration 005: "at-least-once delivery"): not even
\* events that keep failing at the head of the batch hold the later ones back.
DealtWith == \A e \in Events : e \in rows ~> ~Pending(e)
=============================================================================
