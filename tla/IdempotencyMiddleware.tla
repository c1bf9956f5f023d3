----------------------- MODULE IdempotencyMiddleware -----------------------
(***************************************************************************)
(* The idempotency middleware (internal/middleware/idempotency.go) in      *)
(* front of the transaction engine: a response is looked up in Redis under *)
(* the Idempotency-Key header, and on a miss the handler runs and its      *)
(* response, whatever it is, is stored for 24 hours.  Looking up and       *)
(* storing are two commands, shared by the replicas; the key of the        *)
(* transaction itself comes from the body.                                 *)
(*                                                                         *)
(* A response is told apart by its status.                                 *)
(***************************************************************************)
EXTENDS EngineWithInterest

CONSTANTS
    Envelopes,  \* what clients send: a header and a body
    NoHeader,   \* the header is missing
    NoResponse, \* Redis has nothing under the key
    GetFails, SetFails \* TRUE: Redis may answer that command with an error

ASSUME EnvelopesAssumption ==
    /\ Envelopes \subseteq [header : Keys \cup {NoHeader}, body : Offers] /\ Envelopes # {}
    /\ NoResponse \notin {201, 400, 409, 422, 500}
    /\ GetFails \in BOOLEAN /\ SetFails \in BOOLEAN

VARIABLES
    cached,     \* the response stored under "idempotency:"+key
    stage,      \* where each slot is in the middleware
    sent,       \* the envelope it serves
    heard       \* the status its client was told, 0 as long as it waits

middlewareVars == <<cached, stage, sent, heard>>
apiVars == <<vars, interest, middlewareVars>>

ApiInit ==
    /\ JointInit
    /\ cached = [k \in Keys |-> NoResponse]
    /\ stage = [r \in Slots |-> "out"]
    /\ sent = [r \in Slots |-> CHOOSE e \in Envelopes : TRUE]
    /\ heard = [r \in Slots |-> 0]

Enter(r, l) == stage' = [stage EXCEPT ![r] = l]
Relay(r, code) == heard' = [heard EXCEPT ![r] = code]

\* A slip: the recorder of the last request is used again.
ReceiveWithOldRecorder(r, e) ==
    /\ stage[r] = "out"
    /\ sent' = [sent EXCEPT ![r] = e]
    /\ Enter(r, "lookup")
    /\ UNCHANGED <<vars, interest, cached, heard>>

\* A client sends a request, for the first time or again.
Receive(r, e) ==
    /\ stage[r] = "out"
    /\ sent' = [sent EXCEPT ![r] = e]
    /\ Enter(r, "lookup")
    /\ Relay(r, 0)
    /\ UNCHANGED <<vars, interest, cached>>

\* The handler is not run when the header is missing, Redis fails, or a response is there.
Answers(r) ==
    LET h == sent[r].header IN
    IF h = NoHeader THEN {400}
    ELSE (IF GetFails THEN {500} ELSE {}) \cup ({cached[h]} \ {NoResponse})

AnswerAtOnce(r) ==
    /\ stage[r] = "lookup"
    /\ \E code \in Answers(r) : Relay(r, code)
    /\ Enter(r, "out")
    /\ UNCHANGED <<vars, interest, cached, sent>>

\* A miss: next.ServeHTTP with the recorder.
Miss(r) ==
    LET e == sent[r] IN
    /\ stage[r] = "lookup"
    /\ e.header # NoHeader
    /\ cached[e.header] = NoResponse
    /\ Submit(r) /\ req'[r] = e.body
    /\ Enter(r, "inside")
    /\ UNCHANGED <<interest, cached, sent, heard>>

\* A step of the handler.  The recorder passes the response on as it is written.
ServeHTTP(r) ==
    /\ stage[r] = "inside"
    /\ Work(r) \/ Fault(r)
    /\ \/ /\ pc'[r] = "idle"
          /\ Relay(r, reply'[r])
          /\ Enter(r, "store")
       \/ /\ pc'[r] # "idle"
          /\ UNCHANGED <<heard, stage>>
    /\ UNCHANGED <<interest, cached, sent>>

\* A slip: the recorder keeps its initial status.
StoreInitialStatus(r) ==
    /\ stage[r] = "store"
    /\ cached' = [cached EXCEPT ![sent[r].header] = 201]
    /\ Enter(r, "out")
    /\ UNCHANGED <<vars, interest, sent, heard>>

\* The response is stored; an error of Redis, or a client that has gone, leaves it out.
Store(r) ==
    /\ stage[r] = "store"
    /\ \/ cached' = [cached EXCEPT ![sent[r].header] = heard[r]]
       \/ SetFails /\ UNCHANGED cached
    /\ Enter(r, "out")
    /\ UNCHANGED <<vars, interest, sent, heard>>

\* A slip: stored without a lifetime.
KeepForever(k) == FALSE /\ UNCHANGED apiVars

\* idempotencyTTL is over.
Forget(k) ==
    /\ cached[k] # NoResponse
    /\ cached' = [cached EXCEPT ![k] = NoResponse]
    /\ UNCHANGED <<vars, interest, stage, sent, heard>>

Pass(r) == AnswerAtOnce(r) \/ Miss(r) \/ ServeHTTP(r) \/ Store(r)

ApiNext ==
    \/ \E r \in Slots : Pass(r) \/ \E e \in Envelopes : Receive(r, e)
    \/ \E k \in Keys : Forget(k)
    \/ (\E a \in Accounts, s \in Statuses : SetStatus(a, s)) /\ UNCHANGED <<interest, middlewareVars>>
    \/ (\E due \in [Accounts -> InterestDue] : PayInterest(due)) /\ UNCHANGED middlewareVars

ApiSpec == ApiInit /\ [][ApiNext]_apiVars

\* Handlers run on; clients repeat what they sent; stored responses run out.
ApiFairSpec ==
    /\ ApiSpec
    /\ \A r \in Slots : SF_apiVars(Pass(r))
    /\ \A e \in Envelopes : e.header # NoHeader => SF_apiVars(\E r \in Slots : Receive(r, e))
    /\ \A k \in Keys : WF_apiVars(Forget(k))
----------------------------------------------------------------------------
\* Properties

\* Every variable of the middleware stays in its type, and the handler runs in it only.
ApiTypeOK ==
    /\ cached \in [Keys -> {201, 400, 409, 422, 500, NoResponse}]
    /\ stage \in [Slots -> {"out", "lookup", "inside", "store"}]
    /\ sent \in [Slots -> Envelopes]
    /\ heard \in [Slots -> {0, 201, 400, 409, 422, 500}]
    /\ \A r \in Slots : stage[r] = "inside" <=> pc[r] # "idle"

CommittedUnder(h) == \E e \in Envelopes : e.header = h /\ txns[e.body.key] # NoTxn

\* Whoever is told 201 under a key, by the handler or from the cache, has a committed
\* transaction under the key, whatever else went through under it before.
ToldCreatedMeansCommitted ==
    \A r \in Slots : heard[r] = 201 => CommittedUnder(sent[r].header)

\* With what makes it inductive: the cache holds no other 201, and a handler serves the
\* body of the envelope its response is stored for.
ApiIInv ==
    /\ TypeOK /\ ApiTypeOK
    /\ RespondsToCommitted
    /\ ToldCreatedMeansCommitted
    /\ \A k \in Keys : cached[k] = 201 => CommittedUnder(k)
    /\ \A r \in Slots :
        /\ stage[r] \in {"inside", "store"} => sent[r].header # NoHeader
        /\ stage[r] = "inside" => req[r] = sent[r].body
        /\ stage[r] = "store" => heard[r] # 0

\* A payment that was carried out is not hidden for ever behind a stored error (of its loser
\* in a race, or of an earlier attempt): a client that repeats its request is told of it.
CarriedOutIsTold ==
    \A e \in Envelopes :
        e.header # NoHeader /\ txns[e.body.key] # NoTxn
            ~> \E r \in Slots : sent[r] = e /\ heard[r] = 201
============================================================================
