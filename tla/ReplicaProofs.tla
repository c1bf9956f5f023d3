---------------------------- MODULE ReplicaProofs ----------------------------
(***************************************************************************)
(* Proofs about Replica, for any requests, addresses, limit and window and *)
(* any capacity of the audit channel, through failures, panics, shutdown   *)
(* and death: no answered change vanishes from the audit log unnoticed,    *)
(* but for the few a killed process has in hand, an unhurried shutdown     *)
(* cuts nobody off, whoever waits is let in, and no address gets more      *)
(* requests through in a window than the limit.                            *)
(***************************************************************************)
EXTENDS Replica, SumTheorems

\* The audit log has not been told to close, and the audit log is closed.
Before == {"serving", "stopping", "leaving"}
After == {"drained", "disconnected", "closed", "exited"}

\* The channel is closed by run() and by nobody else, and what run() does after it has waited
\* for the goroutine finds the channel empty and nothing being written.
DrainOK ==
    /\ closed => phase \notin Before
    /\ done => closed /\ queue = <<>> /\ writing = NoRequest
    /\ phase \in After => done

\* The entry of an answered change is in one of its places.
EntriesOK ==
    \A q \in Mutating : stage[q] = "answered" => q \in recorded \cup unrecorded \/ Underway(q)

IInv == TypeOK /\ DrainOK /\ EntriesOK /\ UnhurriedMeansAnswered

\* A counter that is there has been raised less than Window ticks ago.
QuietOK == \A c \in Sources : (count[c] > 0 => ttl[c] > 0) /\ ttl[c] + quiet[c] <= Window

\* What was let through in the last Window ticks.
Recent(c) == SumFunctionOnSet(admitted[c], Ages)

\* A counter holds all that was let through in the last Window ticks: since it was last
\* renewed, Window - ttl ticks ago, nothing was, and without one nothing at all.
WindowOK ==
    \A c \in Sources :
        /\ \A i \in Ages : i < Window - ttl[c] => admitted[c][i] = 0
        /\ Recent(c) <= count[c]
        /\ Recent(c) <= Limit

----------------------------------------------------------------------------
\* Zero is an age.
LEMMA NoAge == 0 \in Ages
  BY WindowAssumption DEF Ages

\* Whatever the limiter does with a request keeps its types.
LEMMA LimiterTypes ==
    ASSUME LimiterTypeOK, NEW c \in Sources,
           Allow(c) \/ Refuse(c) \/ AllowUnanswered(c) \/ AllowUncounted(c)
    PROVE  LimiterTypeOK'
<1>1. ASSUME CountRequest(c)
      PROVE  /\ count' \in [Sources -> 0 .. MaxCount]
             /\ ttl' \in [Sources -> 0 .. Window]
             /\ quiet' \in [Sources -> 0 .. Window]
  BY <1>1, WindowAssumption DEF LimiterTypeOK, CountRequest
<1>2. CASE Allow(c)
  <2>1. admitted' \in [Sources -> [Ages -> Nat]]
    BY <1>2, NoAge DEF Allow, LimiterTypeOK
  <2> QED
    BY <1>1, <1>2, <2>1 DEF Allow, LimiterTypeOK
<1>3. CASE Refuse(c) \/ AllowUnanswered(c)
  BY <1>1, <1>3 DEF Refuse, AllowUnanswered, LimiterTypeOK
<1>4. CASE AllowUncounted(c)
  BY <1>4, WindowAssumption DEF AllowUncounted, LimiterTypeOK
<1> QED
  BY <1>2, <1>3, <1>4

\* So does the passing of time.
LEMMA TickTypes == LimiterTypeOK /\ Tick => LimiterTypeOK'
<1> SUFFICES ASSUME LimiterTypeOK, Tick PROVE LimiterTypeOK'
  OBVIOUS
<1>1. ttl' \in [Sources -> 0 .. Window]
  BY WindowAssumption DEF LimiterTypeOK, Tick
<1>2. count' \in [Sources -> 0 .. MaxCount]
  BY WindowAssumption DEF LimiterTypeOK, Tick
<1>3. admitted' \in [Sources -> [Ages -> Nat]]
  BY WindowAssumption DEF LimiterTypeOK, Tick, Ages
<1>4. quiet' \in [Sources -> 0 .. Window]
  BY WindowAssumption DEF LimiterTypeOK, Tick
<1> QED
  BY <1>1, <1>2, <1>3, <1>4 DEF LimiterTypeOK

\* The process starts with nothing in hand.
LEMMA InitInv == Init => IInv
<1> SUFFICES ASSUME Init PROVE IInv
  OBVIOUS
<1>1. LimiterTypeOK
  BY WindowAssumption DEF Init, LimiterInit, LimiterTypeOK
<1>2. AuditTypeOK
  <2>1. queue \in Seq(Requests) /\ Len(queue) = 0
    BY DEF Init, AuditInit
  <2>2. Len(queue) <= Buffer
    BY <2>1, BufferAssumption
  <2>3. /\ closed \in BOOLEAN /\ done \in BOOLEAN
        /\ writing \in Requests \cup {NoRequest}
        /\ recorded \in SUBSET Requests /\ unrecorded \in SUBSET Requests
    BY DEF Init, AuditInit
  <2> QED
    BY <2>1, <2>2, <2>3 DEF AuditTypeOK
<1>3. TypeOK
  BY <1>1, <1>2 DEF Init, TypeOK
<1> QED
  BY <1>3, RequestsAssumption
     DEF Init, AuditInit, IInv, DrainOK, EntriesOK, UnhurriedMeansAnswered, Before, After

\* What a step of a request may do to the invariant when it leaves the audit log and run()
\* alone: go from one stage in flight to another, or to an end that is no answered change.
LEMMA StageStep ==
    ASSUME IInv, NEW q \in Requests, stage[q] \in {"limiting", "handling"},
           NEW l \in {"failed", "handling", "auditing", "answered"}, To(q, l),
           l = "answered" => q \notin Mutating,
           LimiterTypeOK', UNCHANGED <<auditVars, phase, hurried, redisOpen, poolOpen>>
    PROVE  IInv'
<1>1. TypeOK'
  BY DEF IInv, TypeOK, To, AuditTypeOK, auditVars
<1>2. DrainOK'
  BY DEF IInv, DrainOK, auditVars
<1>3. EntriesOK'
  BY RequestsAssumption DEF IInv, TypeOK, EntriesOK, To, auditVars, Underway
<1>4. UnhurriedMeansAnswered'
  BY DEF IInv, TypeOK, UnhurriedMeansAnswered, InFlight, To
<1> QED
  BY <1>1, <1>2, <1>3, <1>4 DEF IInv

\* What the audit log has in hand stays in hand when another entry comes.
LEMMA SendKeeps ==
    ASSUME AuditTypeOK, NEW q \in Requests, SendEntry(q)
    PROVE  /\ AuditTypeOK'
           /\ q \in unrecorded' \/ Underway(q)'
           /\ \A p \in Requests : Underway(p) => Underway(p)'
           /\ recorded' = recorded /\ unrecorded \subseteq unrecorded'
           /\ ~closed /\ closed' = closed /\ done' = done
<1>1. CASE queue' = Append(queue, q) /\ UNCHANGED unrecorded /\ Len(queue) < Buffer
  <2>1. /\ queue'[Len(queue) + 1] = q /\ Len(queue) + 1 \in DOMAIN queue'
        /\ \A i \in DOMAIN queue : i \in DOMAIN queue' /\ queue'[i] = queue[i]
    BY <1>1 DEF AuditTypeOK
  <2> QED
    BY <1>1, <2>1, BufferAssumption DEF SendEntry, AuditTypeOK, Underway
<1>2. CASE unrecorded' = unrecorded \cup {q} /\ UNCHANGED queue
  BY <1>2 DEF SendEntry, AuditTypeOK, Underway
<1> QED
  BY <1>1, <1>2 DEF SendEntry

\* The goroutine loses nothing, and ends when it has nothing left.
LEMMA DrainKeeps ==
    ASSUME AuditTypeOK, ReceiveEntry \/ InsertEntry \/ InsertFails \/ DrainEnds
    PROVE  /\ AuditTypeOK'
           /\ \A p \in Requests : Underway(p) => Underway(p)' \/ p \in recorded' \cup unrecorded'
           /\ recorded \subseteq recorded' /\ unrecorded \subseteq unrecorded'
           /\ closed' = closed
<1>1. CASE ReceiveEntry
  <2>1. /\ queue # <<>> /\ queue \in Seq(Requests)
        /\ writing' = queue[1] /\ queue' = Tail(queue) /\ writing = NoRequest
    BY <1>1 DEF ReceiveEntry, AuditTypeOK
  <2>2. queue' \in Seq(Requests) /\ Len(queue') <= Buffer /\ writing' \in Requests
    BY <2>1, BufferAssumption DEF AuditTypeOK
  <2>3. \A i \in DOMAIN queue : i # 1 => i - 1 \in DOMAIN queue' /\ queue'[i - 1] = queue[i]
    BY <2>1
  <2>4. \A p \in Requests : Underway(p) => Underway(p)'
    BY <2>1, <2>3, BufferAssumption DEF Underway
  <2> QED
    BY <1>1, <2>2, <2>4 DEF ReceiveEntry, AuditTypeOK
<1>2. CASE InsertEntry \/ InsertFails
  BY <1>2 DEF InsertEntry, InsertFails, AuditTypeOK, Underway
<1>3. CASE DrainEnds
  BY <1>3 DEF DrainEnds, AuditTypeOK, Underway
<1> QED
  BY <1>1, <1>2, <1>3

\* A step of run() that leaves the audit log alone changes what UnhurriedMeansAnswered says
\* and where run() is, and nothing else.
LEMMA PhaseStep ==
    ASSUME IInv, UNCHANGED <<limiterVars, auditVars, stage>>,
           phase' \in {"stopping", "leaving", "drained", "disconnected", "closed", "exited", "killed"},
           closed => phase' \notin Before,
           phase' \in After => done,
           hurried' \in BOOLEAN, redisOpen' \in BOOLEAN, poolOpen' \in BOOLEAN,
           hurried => hurried',
           ~hurried' /\ phase' \notin {"stopping", "killed"} => InFlight = {}
    PROVE  IInv'
<1>1. TypeOK'
  BY DEF IInv, TypeOK, LimiterTypeOK, AuditTypeOK, limiterVars, auditVars
<1>2. DrainOK' /\ EntriesOK'
  BY DEF IInv, DrainOK, EntriesOK, Underway, auditVars
<1>3. UnhurriedMeansAnswered'
  BY DEF IInv, TypeOK, UnhurriedMeansAnswered, InFlight
<1> QED
  BY <1>1, <1>2, <1>3 DEF IInv

\* Every step of requests, audit log, run() and time keeps the invariant.
LEMMA NextInv == IInv /\ [Next]_vars => IInv'
<1> SUFFICES ASSUME IInv, [Next]_vars PROVE IInv'
  OBVIOUS
<1>1. ASSUME NEW q \in Requests, Accept(q) PROVE IInv'
  <2>1. TypeOK'
    BY <1>1 DEF Accept, To, IInv, TypeOK, LimiterTypeOK, AuditTypeOK, limiterVars, auditVars
  <2>2. DrainOK'
    BY <1>1 DEF Accept, IInv, DrainOK, auditVars
  <2>3. EntriesOK'
    BY <1>1, RequestsAssumption DEF Accept, To, IInv, TypeOK, EntriesOK, Underway, auditVars
  <2>4. UnhurriedMeansAnswered'
    BY <1>1 DEF Accept, To, IInv, TypeOK, UnhurriedMeansAnswered
  <2> QED
    BY <2>1, <2>2, <2>3, <2>4 DEF IInv
<1>2. ASSUME NEW q \in Requests, CheckLimit(q) PROVE IInv'
  <2>1. LimiterTypeOK'
    BY <1>2, LimiterTypes, RequestsAssumption DEF CheckLimit, IInv, TypeOK
  <2>2. To(q, "handling") \/ To(q, "failed")
    BY <1>2 DEF CheckLimit
  <2> QED
    BY <1>2, <2>1, <2>2, StageStep DEF CheckLimit
<1>3. ASSUME NEW q \in Requests, HandlerReturns(q) \/ HandlerPanics(q) PROVE IInv'
  <2>1. LimiterTypeOK'
    BY <1>3 DEF HandlerReturns, HandlerPanics, IInv, TypeOK, LimiterTypeOK, limiterVars
  <2>2. \/ To(q, "auditing")
        \/ To(q, "failed")
        \/ To(q, "answered") /\ q \notin Mutating
    BY <1>3 DEF HandlerReturns, HandlerPanics
  <2> QED
    BY <1>3, <2>1, <2>2, StageStep DEF HandlerReturns, HandlerPanics
<1>4. ASSUME NEW q \in Requests, Audit(q) PROVE IInv'
  <2>1. stage[q] = "auditing" /\ Running /\ q \in InFlight
    BY <1>4 DEF Audit, InFlight
  <2>2. UNCHANGED <<limiterVars, phase, hurried, redisOpen, poolOpen>>
    BY <1>4 DEF Audit
  <2>3. CASE SendEntry(q) /\ To(q, "answered")
    <3>1. /\ AuditTypeOK'
          /\ q \in unrecorded' \/ Underway(q)'
          /\ \A p \in Requests : Underway(p) => Underway(p)'
          /\ recorded' = recorded /\ unrecorded \subseteq unrecorded'
          /\ ~closed /\ closed' = closed /\ done' = done
      BY <2>3, SendKeeps DEF IInv, TypeOK
    <3>2. TypeOK'
      <4>1. LimiterTypeOK'
        BY <2>2 DEF IInv, TypeOK, LimiterTypeOK, limiterVars
      <4> QED
        BY <2>2, <2>3, <3>1, <4>1 DEF IInv, TypeOK, To
    <3>3. DrainOK'
      BY <2>2, <3>1 DEF IInv, DrainOK
    <3>4. EntriesOK'
      BY <2>3, <3>1, RequestsAssumption DEF IInv, TypeOK, EntriesOK, To
    <3>5. UnhurriedMeansAnswered'
      BY <2>2, <2>3 DEF IInv, TypeOK, UnhurriedMeansAnswered, InFlight, To
    <3> QED
      BY <3>2, <3>3, <3>4, <3>5 DEF IInv
  <2>4. CASE closed /\ To(q, "cutoff") /\ UNCHANGED auditVars
    <3>1. hurried
      BY <2>1, <2>4 DEF IInv, DrainOK, UnhurriedMeansAnswered, Before, Running
    <3>2. TypeOK'
      BY <2>2, <2>4 DEF IInv, TypeOK, To, LimiterTypeOK, AuditTypeOK, limiterVars, auditVars
    <3>3. DrainOK'
      BY <2>2, <2>4 DEF IInv, DrainOK, auditVars
    <3>4. EntriesOK'
      BY <2>4, RequestsAssumption DEF IInv, TypeOK, EntriesOK, To, Underway, auditVars
    <3>5. UnhurriedMeansAnswered'
      <4>1. hurried' = TRUE
        BY <2>2, <3>1 DEF IInv, TypeOK
      <4> QED
        BY <4>1 DEF UnhurriedMeansAnswered
    <3> QED
      BY <3>2, <3>3, <3>4, <3>5 DEF IInv
  <2> QED
    BY <1>4, <2>3, <2>4 DEF Audit
<1>5. ASSUME DrainAudit PROVE IInv'
  <2>1. UNCHANGED <<limiterVars, serverVars>>
    BY <1>5 DEF DrainAudit
  <2>2. /\ AuditTypeOK'
        /\ \A p \in Requests : Underway(p) => Underway(p)' \/ p \in recorded' \cup unrecorded'
        /\ recorded \subseteq recorded' /\ unrecorded \subseteq unrecorded'
        /\ closed' = closed
    BY <1>5, DrainKeeps DEF DrainAudit, IInv, TypeOK
  <2>3. TypeOK'
    BY <2>1, <2>2 DEF IInv, TypeOK, LimiterTypeOK, limiterVars, serverVars
  <2>4. DrainOK'
    BY <1>5, <2>1
       DEF DrainAudit, ReceiveEntry, InsertEntry, InsertFails, DrainEnds, IInv, DrainOK, serverVars
  <2>5. EntriesOK'
    BY <2>1, <2>2, RequestsAssumption DEF IInv, EntriesOK, serverVars
  <2>6. UnhurriedMeansAnswered'
    BY <2>1 DEF IInv, UnhurriedMeansAnswered, InFlight, serverVars
  <2> QED
    BY <2>3, <2>4, <2>5, <2>6 DEF IInv
<1>6. ASSUME Signal \/ AllAnswered \/ DeadlinePasses \/ ListenerFails PROVE IInv'
  <2>1. phase \in Before /\ ~done
    BY <1>6 DEF Signal, AllAnswered, DeadlinePasses, ListenerFails, Phase, IInv, DrainOK, Before
  <2>2. phase' \in {"stopping", "leaving"}
    BY <1>6 DEF Signal, AllAnswered, DeadlinePasses, ListenerFails, Phase
  <2>3. ~closed
    BY <2>1 DEF IInv, DrainOK
  <2>4. /\ UNCHANGED <<limiterVars, auditVars, stage, redisOpen, poolOpen>>
        /\ hurried' \in BOOLEAN /\ (hurried => hurried')
        /\ ~hurried' /\ phase' # "stopping" => InFlight = {}
    BY <1>6 DEF Signal, AllAnswered, DeadlinePasses, ListenerFails, Phase, IInv, TypeOK
  <2>5. redisOpen' \in BOOLEAN /\ poolOpen' \in BOOLEAN
    BY <2>4 DEF IInv, TypeOK
  <2> QED
    BY <2>2, <2>3, <2>4, <2>5, PhaseStep DEF After
<1>7. ASSUME CloseAudit PROVE IInv'
  <2>1. /\ phase = "leaving" /\ phase' = "draining"
        /\ UNCHANGED <<limiterVars, stage, hurried, redisOpen, poolOpen>>
        /\ closed' = TRUE
        /\ UNCHANGED <<queue, writing, done, recorded, unrecorded>>
    BY <1>7 DEF CloseAudit, Phase, CloseChannel
  <2>2. TypeOK'
    BY <2>1 DEF IInv, TypeOK, LimiterTypeOK, AuditTypeOK, limiterVars
  <2>3. DrainOK' /\ EntriesOK'
    BY <2>1 DEF IInv, DrainOK, EntriesOK, Underway, Before, After
  <2>4. UnhurriedMeansAnswered'
    BY <2>1 DEF IInv, UnhurriedMeansAnswered, InFlight
  <2> QED
    BY <2>2, <2>3, <2>4 DEF IInv
<1>8. ASSUME DrainAwaited \/ CloseRedis \/ ClosePool \/ Exit \/ Kill PROVE IInv'
  <2>1. phase' \in After \/ phase' = "killed"
    BY <1>8 DEF DrainAwaited, CloseRedis, ClosePool, Exit, Kill, Phase, After
  <2>2. phase' \in After => done /\ phase \notin {"serving", "stopping", "killed"}
    BY <1>8 DEF DrainAwaited, CloseRedis, ClosePool, Exit, Kill, Phase, After, IInv, DrainOK
  <2>3. /\ UNCHANGED <<limiterVars, auditVars, stage, hurried>>
        /\ redisOpen' \in BOOLEAN /\ poolOpen' \in BOOLEAN
    BY <1>8 DEF DrainAwaited, CloseRedis, ClosePool, Exit, Kill, IInv, TypeOK
  <2>4. ~hurried' /\ phase' \notin {"stopping", "killed"} => InFlight = {}
    BY <2>1, <2>2, <2>3 DEF IInv, UnhurriedMeansAnswered
  <2> QED
    BY <2>1, <2>2, <2>3, <2>4, PhaseStep DEF IInv, TypeOK, Before, After
<1>9. ASSUME TimePasses PROVE IInv'
  <2>1. LimiterTypeOK' /\ UNCHANGED <<auditVars, serverVars>>
    BY <1>9, TickTypes DEF TimePasses, IInv, TypeOK
  <2> QED
    BY <2>1 DEF IInv, TypeOK, AuditTypeOK, DrainOK, EntriesOK, UnhurriedMeansAnswered,
                InFlight, Underway, auditVars, serverVars
<1>10. CASE UNCHANGED vars
  BY <1>10 DEF vars, limiterVars, auditVars, serverVars, IInv, TypeOK, LimiterTypeOK, AuditTypeOK,
               DrainOK, EntriesOK, UnhurriedMeansAnswered, InFlight, Underway
<1> QED
  BY <1>1, <1>2, <1>3, <1>4, <1>5, <1>6, <1>7, <1>8, <1>9, <1>10 DEF Next, Shutdown

\* A process keeps its invariant from the first request to its end.
THEOREM ReplicaInvariant == Spec => []IInv
  BY InitInv, NextInv, PTL DEF Spec

\* The channel and the goroutine hold no more entries than the channel has places, and one.
LEMMA FewUnaccounted == IInv => Cardinality(Unaccounted) <= Buffer + 1
<1> SUFFICES ASSUME IInv PROVE Cardinality(Unaccounted) <= Buffer + 1
  OBVIOUS
<1>1. /\ queue \in Seq(Requests) /\ Len(queue) \in Nat /\ Len(queue) <= Buffer
      /\ Buffer \in Nat
  BY BufferAssumption DEF IInv, TypeOK, AuditTypeOK
<1> DEFINE Places == 0 .. Len(queue)
           inHand == [i \in Places |-> IF i = 0 THEN writing ELSE queue[i]]
           Held == {inHand[i] : i \in Places}
<1>2. Unaccounted \subseteq Held
  <2> SUFFICES ASSUME NEW q \in Mutating, Underway(q) PROVE q \in Held
    BY DEF IInv, EntriesOK, Unaccounted
  <2>1. CASE writing = q
    <3>1. 0 \in Places /\ inHand[0] = q
      BY <1>1, <2>1
    <3> QED
      BY <3>1
  <2>2. CASE \E i \in DOMAIN queue : queue[i] = q
    <3>1. PICK i \in DOMAIN queue : queue[i] = q
      BY <2>2
    <3>2. i \in Places /\ inHand[i] = q
      BY <1>1, <3>1
    <3> QED
      BY <3>2
  <2> QED
    BY <2>1, <2>2 DEF Underway
<1>3. IsFiniteSet(Places) /\ Cardinality(Places) = Len(queue) + 1
  BY <1>1, FS_Interval
<1>4. inHand \in Surjection(Places, Held)
  BY DEF Surjection
<1> HIDE DEF Places, inHand, Held
<1>5. IsFiniteSet(Held) /\ Cardinality(Held) <= Cardinality(Places)
  BY <1>3, <1>4, FS_Surjection
<1>6. Cardinality(Unaccounted) <= Cardinality(Held) /\ IsFiniteSet(Unaccounted)
  BY <1>2, <1>5, FS_Subset
<1>7. Cardinality(Unaccounted) \in Nat /\ Cardinality(Held) \in Nat
  BY <1>5, <1>6, FS_CardinalityType
<1> QED
  BY <1>1, <1>3, <1>5, <1>6, <1>7

\* After Close every answered change is recorded or known to be lost, and a process that is
\* killed takes no more of them with it than the channel and the goroutine hold.
THEOREM ChangesAreAccountedFor == Spec => []ChangesAccountedFor
<1>1. IInv /\ phase \in After => Unaccounted = {}
  BY RequestsAssumption, BufferAssumption
     DEF IInv, DrainOK, EntriesOK, Unaccounted, Underway, After
<1>2. IInv => ChangesAccountedFor
  BY <1>1, FewUnaccounted DEF ChangesAccountedFor, After
<1> QED
  BY <1>2, ReplicaInvariant, PTL

\* A shutdown that is not hurried cuts nobody off.
THEOREM NobodyIsCutOff == Spec => []UnhurriedMeansAnswered
<1>1. IInv => UnhurriedMeansAnswered
  BY DEF IInv
<1> QED
  BY <1>1, ReplicaInvariant, PTL

----------------------------------------------------------------------------
\* Only requests that meet the limiter and the passing of time change its state.
LEMMA LimiterRests ==
    ASSUME [Next]_vars, \A q \in Requests : ~CheckLimit(q), ~TimePasses
    PROVE  UNCHANGED limiterVars
<1>1. ASSUME NEW q \in Requests,
             Accept(q) \/ HandlerReturns(q) \/ HandlerPanics(q) \/ Audit(q)
      PROVE  UNCHANGED limiterVars
  BY <1>1 DEF Accept, HandlerReturns, HandlerPanics, Audit
<1>2. ASSUME DrainAudit \/ Signal \/ ListenerFails \/ Kill \/ Shutdown
      PROVE  UNCHANGED limiterVars
  BY <1>2 DEF DrainAudit, Signal, ListenerFails, Kill, Shutdown, AllAnswered, DeadlinePasses,
              CloseAudit, DrainAwaited, CloseRedis, ClosePool, Exit
<1> QED
  BY <1>1, <1>2 DEF Next, vars

\* The lifetime of a counter and the time since the last request go together.
LEMMA NextQuiet == IInv /\ QuietOK /\ [Next]_vars => QuietOK'
<1> SUFFICES ASSUME IInv, QuietOK, [Next]_vars PROVE QuietOK'
  OBVIOUS
<1>1. ASSUME NEW q \in Requests, CheckLimit(q) PROVE QuietOK'
  <2>1. CASE CountRequest(SourceOf[q])
    BY <2>1, WindowAssumption DEF CountRequest, QuietOK, IInv, TypeOK, LimiterTypeOK
  <2>2. CASE AllowUncounted(SourceOf[q])
    BY <2>2, WindowAssumption DEF AllowUncounted, QuietOK, IInv, TypeOK, LimiterTypeOK
  <2> QED
    BY <1>1, <2>1, <2>2 DEF CheckLimit, Allow, Refuse, AllowUnanswered
<1>2. ASSUME TimePasses PROVE QuietOK'
  BY <1>2, WindowAssumption DEF TimePasses, Tick, QuietOK, IInv, TypeOK, LimiterTypeOK
<1>3. ASSUME UNCHANGED limiterVars PROVE QuietOK'
  BY <1>3 DEF limiterVars, QuietOK
<1>4. ASSUME \A q \in Requests : ~CheckLimit(q), ~TimePasses PROVE UNCHANGED limiterVars
  BY <1>4, LimiterRests
<1> QED
  BY <1>1, <1>2, <1>3, <1>4

\* Waiting for the time in Retry-After is enough, unless the limit lets nobody through.
THEOREM WaitingLetsIn == ASSUME Limit > 0 PROVE Spec => WaitingIsEnough
<1>1. Init => QuietOK
  BY WindowAssumption DEF Init, LimiterInit, QuietOK
<1>2. IInv /\ QuietOK => [\A c \in Sources : Refuse(c) => quiet[c] < Window]_limiterVars
  <2> SUFFICES ASSUME IInv, QuietOK, NEW c \in Sources, Refuse(c) PROVE quiet[c] < Window
    OBVIOUS
  <2>1. count'[c] = count[c] + 1 /\ count'[c] > Limit
    BY DEF Refuse, CountRequest, IInv, TypeOK, LimiterTypeOK
  <2>2. count[c] > 0
    BY <2>1, Limit > 0, WindowAssumption DEF IInv, TypeOK, LimiterTypeOK
  <2> QED
    BY <2>2, WindowAssumption DEF QuietOK, IInv, TypeOK, LimiterTypeOK
<1> QED
  BY <1>1, <1>2, InitInv, NextInv, NextQuiet, PTL DEF Spec, WaitingIsEnough

----------------------------------------------------------------------------
\* Ages are finitely many, and what is let through is counted.
LEMMA RecentNat ==
    ASSUME NEW f \in [Ages -> Nat]
    PROVE  IsFiniteSet(Ages) /\ SumFunctionOnSet(f, Ages) \in Nat
<1>1. IsFiniteSet(Ages)
  BY WindowAssumption, FS_Interval DEF Ages
<1>2. \A i \in Ages : f[i] \in Nat
  OBVIOUS
<1> QED
  BY <1>1, <1>2, SumNat

\* A tick makes everything older by one and forgets the oldest.
LEMMA OlderByOne ==
    ASSUME NEW f \in [Ages -> Nat], NEW g, g = [i \in Ages |-> IF i = 0 THEN 0 ELSE f[i - 1]]
    PROVE  SumFunctionOnSet(g, Ages) <= SumFunctionOnSet(f, Ages)
<1> DEFINE Later == Ages \ {0}
           before == [i \in Later |-> i - 1]
           Earlier == {before[i] : i \in Later}
<1>1. Earlier \subseteq Ages
  BY WindowAssumption DEF Ages
<1>2. /\ \A i \in Ages : g[i] \in Nat
      /\ \A i \in Later : g[i] \in Int /\ f[before[i]] = g[i]
      /\ \A i, k \in Later : before[i] = before[k] => i = k
  BY WindowAssumption DEF Ages
<1>3. IsFiniteSet(Ages) /\ IsFiniteSet(Later)
  BY RecentNat, FS_Subset
<1>4. SumFunctionOnSet(g, Ages) = SumFunctionOnSet(g, Later)
  <2>1. SumFunctionOnSet(g, Ages) = g[0] + SumFunctionOnSet(g, Later)
    BY <1>2, <1>3, NoAge, SumRemove
  <2>2. g[0] = 0 /\ SumFunctionOnSet(g, Later) \in Int
    BY <1>2, <1>3, NoAge, SumInt
  <2> QED
    BY <2>1, <2>2
<1>5. SumFunctionOnSet(f, Earlier) = SumFunctionOnSet(g, Later)
  <2> HIDE DEF Later, before
  <2> QED
    BY <1>2, <1>3, SumRenamed
<1>6. SumFunctionOnSet(f, Earlier) <= SumFunctionOnSet(f, Ages)
  <2> HIDE DEF Earlier
  <2> QED
    BY <1>1, <1>3, SumOfPart
<1> QED
  BY <1>4, <1>5, <1>6

\* A request that is let through is the last the counter has counted.
LEMMA LimitWindow ==
    ASSUME LimiterTypeOK, WindowOK, NEW c \in Sources,
           Allow(c) \/ Refuse(c) \/ AllowUnanswered(c) \/ AllowUncounted(c)
    PROVE  WindowOK'
<1>1. \A d \in Sources : Recent(d) \in Nat
  BY RecentNat DEF LimiterTypeOK, Recent
<1>2. ASSUME CountRequest(c)
      PROVE  /\ \A d \in Sources : ttl'[d] = IF d = c THEN Window ELSE ttl[d]
             /\ \A d \in Sources : count'[d] = IF d = c THEN count[c] + 1 ELSE count[d]
  BY <1>2 DEF CountRequest, LimiterTypeOK
<1>3. CASE Allow(c)
  <2>1. admitted' = [admitted EXCEPT ![c][0] = @ + 1]
    BY <1>3 DEF Allow
  <2>2. ASSUME NEW d \in Sources, d # c
        PROVE  admitted'[d] = admitted[d] /\ Recent(d)' = Recent(d)
    BY <2>1, <2>2 DEF Recent, LimiterTypeOK
  <2>3. Recent(c)' = Recent(c) + 1
    <3>1. /\ admitted[c] \in [Ages -> Nat] /\ admitted'[c][0] = admitted[c][0] + 1
          /\ \A i \in Ages \ {0} : admitted'[c][i] = admitted[c][i]
      BY <2>1, NoAge DEF LimiterTypeOK
    <3>2. Recent(c)' = Recent(c) - admitted[c][0] + admitted'[c][0]
      BY <3>1, NoAge, RecentNat, SumUpdate DEF Recent
    <3> QED
      BY <1>1, <3>1, <3>2, NoAge
  <2>4. count'[c] <= Limit /\ count'[c] = count[c] + 1 /\ ttl'[c] = Window
    BY <1>2, <1>3 DEF Allow
  <2>5. Recent(c)' <= count'[c] /\ Recent(c)' <= Limit
    BY <1>1, <2>3, <2>4, WindowAssumption DEF WindowOK, LimiterTypeOK
  <2>6. \A i \in Ages : ~(i < Window - ttl'[c])
    BY <2>4, WindowAssumption DEF Ages
  <2>7. \A d \in Sources \ {c} : ttl'[d] = ttl[d] /\ count'[d] = count[d]
    BY <1>2, <1>3 DEF Allow
  <2> QED
    BY <2>2, <2>5, <2>6, <2>7 DEF WindowOK
<1>4. CASE CountRequest(c) /\ UNCHANGED admitted
  <2>1. \A d \in Sources : Recent(d)' = Recent(d)
    BY <1>4 DEF Recent
  <2>2. \A d \in Sources : count[d] <= count'[d] /\ ttl[d] <= ttl'[d]
    BY <1>2, <1>4, WindowAssumption DEF LimiterTypeOK
  <2>3. \A d \in Sources : Recent(d) <= count'[d]
    BY <1>1, <1>2, <1>4 DEF WindowOK, LimiterTypeOK
  <2>4. ASSUME NEW d \in Sources, NEW i \in Ages, i < Window - ttl'[d] PROVE admitted[d][i] = 0
    <3>1. d # c
      BY <1>2, <1>4, <2>4, WindowAssumption DEF Ages
    <3>2. i < Window - ttl[d]
      BY <1>2, <1>4, <2>4, <3>1
    <3> QED
      BY <3>2 DEF WindowOK
  <2> QED
    BY <1>4, <2>1, <2>3, <2>4 DEF WindowOK
<1>5. CASE AllowUncounted(c)
  BY <1>5 DEF AllowUncounted, WindowOK, Recent
<1> QED
  BY <1>3, <1>4, <1>5 DEF Refuse, AllowUnanswered

\* When the counter is forgotten, so is all it has counted.
LEMMA TickWindow == LimiterTypeOK /\ WindowOK /\ Tick => WindowOK'
<1> SUFFICES ASSUME LimiterTypeOK, WindowOK, Tick, NEW c \in Sources
             PROVE  /\ \A i \in Ages : i < Window - ttl'[c] => admitted'[c][i] = 0
                    /\ Recent(c)' <= count'[c]
                    /\ Recent(c)' <= Limit
  BY DEF WindowOK
<1>1. /\ admitted[c] \in [Ages -> Nat]
      /\ admitted'[c] = [i \in Ages |-> IF i = 0 THEN 0 ELSE admitted[c][i - 1]]
      /\ ttl[c] \in 0 .. Window
      /\ ttl'[c] = IF ttl[c] > 0 THEN ttl[c] - 1 ELSE 0
      /\ count'[c] = IF ttl'[c] = 0 THEN 0 ELSE count[c]
      /\ count[c] \in Nat
  BY DEF LimiterTypeOK, Tick
<1>2. ASSUME NEW i \in Ages, i < Window - ttl'[c] PROVE admitted'[c][i] = 0
  <2>1. CASE i = 0
    BY <1>1, <2>1
  <2>2. CASE i # 0
    <3>1. i - 1 \in Ages /\ i - 1 < Window - ttl[c]
      BY <1>1, <1>2, <2>2, WindowAssumption DEF Ages
    <3> QED
      BY <1>1, <2>2, <3>1 DEF WindowOK
  <2> QED
    BY <2>1, <2>2
<1>3. Recent(c)' <= Recent(c) /\ Recent(c) \in Nat /\ Recent(c)' \in Int
  <2>1. SumFunctionOnSet(admitted'[c], Ages) <= SumFunctionOnSet(admitted[c], Ages)
    BY <1>1, OlderByOne
  <2>2. admitted'[c] \in [Ages -> Nat]
    BY <1>1, WindowAssumption DEF Ages
  <2> QED
    BY <1>1, <2>1, <2>2, RecentNat DEF Recent
<1>4. Recent(c)' <= count'[c]
  <2>1. CASE ttl'[c] = 0
    <3>1. \A i \in Ages : admitted'[c][i] = 0
      BY <1>2, <2>1, WindowAssumption DEF Ages
    <3>2. Recent(c)' = 0
      BY <1>1, <3>1, RecentNat, SumZero DEF Recent
    <3> QED
      BY <1>1, <2>1, <3>2
  <2>2. CASE ttl'[c] # 0
    BY <1>1, <1>3, <2>2 DEF WindowOK
  <2> QED
    BY <2>1, <2>2
<1>5. Recent(c)' <= Limit
  BY <1>3, WindowAssumption DEF WindowOK
<1> QED
  BY <1>2, <1>4, <1>5

\* What the counters hold stays true through every step of the process.
LEMMA NextWindow == IInv /\ WindowOK /\ [Next]_vars => WindowOK'
<1> SUFFICES ASSUME IInv, WindowOK, [Next]_vars PROVE WindowOK'
  OBVIOUS
<1>1. ASSUME NEW q \in Requests, CheckLimit(q) PROVE WindowOK'
  BY <1>1, LimitWindow, RequestsAssumption DEF CheckLimit, IInv, TypeOK
<1>2. ASSUME TimePasses PROVE WindowOK'
  BY <1>2, TickWindow DEF TimePasses, IInv, TypeOK
<1>3. ASSUME UNCHANGED limiterVars PROVE WindowOK'
  BY <1>3 DEF limiterVars, WindowOK, Recent
<1>4. ASSUME \A q \in Requests : ~CheckLimit(q), ~TimePasses PROVE UNCHANGED limiterVars
  BY <1>4, LimiterRests
<1> QED
  BY <1>1, <1>2, <1>3, <1>4

\* However requests are spread over time, and whatever of them Redis fails to count, no more
\* than Limit of those it answers for pass in any stretch of Window ticks.
THEOREM WindowNeverExceeded == Spec => []SlidingWindow
<1>1. Init => WindowOK
  <2> SUFFICES ASSUME Init, NEW c \in Sources
               PROVE  /\ \A i \in Ages : admitted[c][i] = 0
                      /\ Recent(c) = 0 /\ count[c] = 0
    BY WindowAssumption DEF WindowOK
  <2>1. /\ admitted[c] \in [Ages -> Nat] /\ count[c] = 0
        /\ \A i \in Ages : admitted[c][i] = 0
    BY DEF Init, LimiterInit
  <2> QED
    BY <2>1, RecentNat, SumZero DEF Recent
<1>2. WindowOK => SlidingWindow
  BY DEF WindowOK, SlidingWindow, Recent
<1> QED
  BY <1>1, <1>2, InitInv, NextInv, NextWindow, PTL DEF Spec
=============================================================================
