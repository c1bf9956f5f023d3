------------------------------ MODULE Replica ------------------------------
(***************************************************************************)
(* One process of the bank, from the first request to its end              *)
(* (cmd/nkorebank/main.go): requests pass the rate limiter, the handlers   *)
(* behind it and the audit log; a signal makes the server stop, which      *)
(* waits for the requests in flight until its deadline; then the deferred  *)
(* calls close the audit log, Redis and the database, in this order.       *)
(*                                                                         *)
(* Composes RateLimiter and AuditLog.  A handler is told apart by how it   *)
(* ends; what it does is in TransactionEngine and the other modules.       *)
(***************************************************************************)
EXTENDS RateLimiter, AuditLog, FiniteSets

CONSTANTS
    Mutating,   \* the requests that are POST, PUT, PATCH or DELETE
    SourceOf,   \* the address each request comes from
    Faulty      \* TRUE: the store and Redis may fail, handlers panic or hang, the
                \* listener fail, the process be killed

ASSUME RequestsAssumption ==
    Mutating \subseteq Requests /\ SourceOf \in [Requests -> Sources] /\ Faulty \in BOOLEAN

VARIABLES
    stage,      \* where each request is in the chain of middleware; "failed" is a 429 of
                \* the limiter or a 500 of Recovery
    phase,      \* where run() is
    hurried,    \* the deferred calls began before all requests were answered: the
                \* deadline of Shutdown passed, or the listener failed
    redisOpen,  \* the Redis client is open
    poolOpen    \* the pool of database connections is open

serverVars == <<stage, phase, hurried, redisOpen, poolOpen>>
vars == <<limiterVars, auditVars, serverVars>>

InFlight == {q \in Requests : stage[q] \in {"limiting", "handling", "auditing"}}

Running == phase \notin {"exited", "killed"}

Init ==
    /\ LimiterInit
    /\ AuditInit
    /\ stage = [q \in Requests |-> "unsent"]
    /\ phase = "serving"
    /\ hurried = FALSE
    /\ redisOpen = TRUE
    /\ poolOpen = TRUE

To(q, l) == stage' = [stage EXCEPT ![q] = l]

----------------------------------------------------------------------------
\* The chain of middleware: recovery, rate limit, audit, handler

Accept(q) ==
    /\ phase = "serving"
    /\ stage[q] = "unsent"
    /\ To(q, "limiting")
    /\ UNCHANGED <<limiterVars, auditVars, phase, hurried, redisOpen, poolOpen>>

CheckLimit(q) ==
    LET c == SourceOf[q] IN
    /\ Running
    /\ stage[q] = "limiting"
    /\ \/ redisOpen /\ Allow(c) /\ To(q, "handling")
       \/ redisOpen /\ Refuse(c) /\ To(q, "failed")
       \/ redisOpen /\ Faulty /\ AllowUnanswered(c) /\ To(q, "handling")
       \/ (Faulty \/ ~redisOpen) /\ AllowUncounted(c) /\ To(q, "handling")
    /\ UNCHANGED <<auditVars, phase, hurried, redisOpen, poolOpen>>

\* The handler behind the audit log returns.
HandlerReturns(q) ==
    /\ Running
    /\ stage[q] = "handling"
    /\ To(q, IF q \in Mutating THEN "auditing" ELSE "answered")
    /\ UNCHANGED <<limiterVars, auditVars, phase, hurried, redisOpen, poolOpen>>

\* Recovery answers 500; the code after next.ServeHTTP of the audit log is passed over.
HandlerPanics(q) ==
    /\ Faulty /\ Running
    /\ stage[q] = "handling"
    /\ To(q, "failed")
    /\ UNCHANGED <<limiterVars, auditVars, phase, hurried, redisOpen, poolOpen>>

\* A send on the closed channel panics, though it has a default; Recovery catches it.
Audit(q) ==
    /\ Running
    /\ stage[q] = "auditing"
    /\ \/ SendEntry(q) /\ To(q, "answered")
       \/ closed /\ To(q, "cutoff") /\ UNCHANGED auditVars
    /\ UNCHANGED <<limiterVars, phase, hurried, redisOpen, poolOpen>>

\* The goroutine of the audit log.  A closed pool refuses the insert.
DrainAudit ==
    /\ Running
    /\ \/ ReceiveEntry
       \/ poolOpen /\ InsertEntry
       \/ (Faulty \/ ~poolOpen) /\ InsertFails
       \/ DrainEnds
    /\ UNCHANGED <<limiterVars, serverVars>>

----------------------------------------------------------------------------
\* run(): the signal, Shutdown, and the deferred calls

Phase(from, to) == phase = from /\ phase' = to

Signal ==
    /\ Phase("serving", "stopping")
    /\ UNCHANGED <<limiterVars, auditVars, stage, hurried, redisOpen, poolOpen>>

\* A slip: Shutdown does not wait for the requests.
LeaveAtOnce ==
    /\ Phase("stopping", "leaving")
    /\ UNCHANGED <<limiterVars, auditVars, stage, hurried, redisOpen, poolOpen>>

\* Shutdown returns when every request has been answered.
AllAnswered ==
    /\ Phase("stopping", "leaving")
    /\ InFlight = {}
    /\ UNCHANGED <<limiterVars, auditVars, stage, hurried, redisOpen, poolOpen>>

\* A slip: Shutdown has no deadline.
NeverGiveUp == FALSE /\ UNCHANGED vars

\* Shutdown gives up after 15 seconds, with requests in flight.
DeadlinePasses ==
    /\ Phase("stopping", "leaving")
    /\ InFlight # {}
    /\ hurried' = TRUE
    /\ UNCHANGED <<limiterVars, auditVars, stage, redisOpen, poolOpen>>

\* ListenAndServe returns an error: run returns without Shutdown.
ListenerFails ==
    /\ Faulty
    /\ Phase("serving", "leaving")
    /\ hurried' = TRUE
    /\ UNCHANGED <<limiterVars, auditVars, stage, redisOpen, poolOpen>>

\* AuditLogger.Close, in two steps.
CloseAudit ==
    /\ Phase("leaving", "draining")
    /\ CloseChannel
    /\ UNCHANGED <<limiterVars, stage, hurried, redisOpen, poolOpen>>

\* A slip: Close does not wait for the goroutine.
DrainIgnored ==
    /\ Phase("draining", "drained")
    /\ UNCHANGED <<limiterVars, auditVars, stage, hurried, redisOpen, poolOpen>>

DrainAwaited ==
    /\ Phase("draining", "drained")
    /\ done
    /\ UNCHANGED <<limiterVars, auditVars, stage, hurried, redisOpen, poolOpen>>

CloseRedis ==
    /\ Phase("drained", "disconnected")
    /\ redisOpen' = FALSE
    /\ UNCHANGED <<limiterVars, auditVars, stage, hurried, poolOpen>>

ClosePool ==
    /\ Phase("disconnected", "closed")
    /\ poolOpen' = FALSE
    /\ UNCHANGED <<limiterVars, auditVars, stage, hurried, redisOpen>>

\* main returns, whatever goroutines still run.
Exit ==
    /\ Phase("closed", "exited")
    /\ UNCHANGED <<limiterVars, auditVars, stage, hurried, redisOpen, poolOpen>>

Kill ==
    /\ Faulty /\ Running
    /\ phase' = "killed"
    /\ UNCHANGED <<limiterVars, auditVars, stage, hurried, redisOpen, poolOpen>>

\* Only the limiter looks at the clock: it stands still when no request will come to it.
TimePasses ==
    /\ Running
    /\ \E q \in Requests :
        stage[q] = "limiting" \/ (phase = "serving" /\ stage[q] = "unsent")
    /\ Tick
    /\ UNCHANGED <<auditVars, serverVars>>

Shutdown ==
    \/ AllAnswered \/ DeadlinePasses
    \/ CloseAudit \/ DrainAwaited \/ CloseRedis \/ ClosePool \/ Exit

Next ==
    \/ \E q \in Requests :
        Accept(q) \/ CheckLimit(q) \/ HandlerReturns(q) \/ HandlerPanics(q) \/ Audit(q)
    \/ DrainAudit
    \/ Signal \/ ListenerFails \/ Kill
    \/ Shutdown
    \/ TimePasses

Spec == Init /\ [][Next]_vars

\* run() goes on, and every insert of the audit log returns within its five seconds.
\* Handlers, clients and signals owe nothing.
FairSpec == Spec /\ WF_vars(Shutdown) /\ WF_vars(DrainAudit)
----------------------------------------------------------------------------
\* Properties

\* Every variable stays in its type.
TypeOK ==
    /\ LimiterTypeOK
    /\ AuditTypeOK
    /\ stage \in [Requests -> {"unsent", "limiting", "failed", "handling", "auditing",
                               "answered", "cutoff"}]
    /\ phase \in {"serving", "stopping", "leaving", "draining", "drained", "disconnected",
                  "closed", "exited", "killed"}
    /\ hurried \in BOOLEAN /\ redisOpen \in BOOLEAN /\ poolOpen \in BOOLEAN

\* The changes that were answered and of which the audit log has said nothing: no row, and no
\* word that the entry is lost.
Unaccounted == {q \in Mutating : stage[q] = "answered"} \ (recorded \cup unrecorded)

\* Once Close has waited for the goroutine (audit.go:46 "waits for it to finish"), no answered
\* change is unaccounted for; before that, and for ever in a process that was killed, no more
\* of them than the channel and the goroutine hold between them.
ChangesAccountedFor ==
    /\ phase \in {"drained", "disconnected", "closed", "exited"} => Unaccounted = {}
    /\ Cardinality(Unaccounted) <= Buffer + 1

\* A process that had the time answers every request it has accepted, and none of them
\* meets the closed audit channel.
UnhurriedMeansAnswered ==
    ~hurried =>
        /\ \A q \in Requests : stage[q] # "cutoff"
        /\ phase \notin {"serving", "stopping", "killed"} => InFlight = {}

\* A process that is told to stop ends, whatever its handlers do.
StopsWhenTold == phase = "stopping" ~> ~Running

\* An entry the channel has taken is dealt with, even while the process stops, unless it is killed.
EntriesAreDealtWith ==
    \A q \in Mutating : Underway(q) ~> q \in recorded \cup unrecorded \/ phase = "killed"
============================================================================
