------------------------ MODULE OutboxPublisherProofs ------------------------
(***************************************************************************)
(* Proofs about OutboxPublisher, for any number of replicas and events,    *)
(* any batch and any retry limit, with statements that fail and replicas   *)
(* that die: no event is dropped before the broker has it, and no event is *)
(* retried without end.                                                    *)
(***************************************************************************)
EXTENDS OutboxPublisher, FiniteSetTheorems, WellFoundedInduction, TLAPS

\* A set of events that is not empty has an oldest, and CHOOSE finds it.
LEMMA OldestIsMember ==
    ASSUME NEW S \in SUBSET Events, S # {}
    PROVE  Oldest(S) \in S
<1> DEFINE Less == {ss \in Nat \X Nat : ss[1] < ss[2]}
<1>1. S \subseteq Nat
  BY EventsAssumption
<1>2. IsWellFoundedOn(Less, Nat)
  BY NatLessThanWellFounded DEF OpToRel
<1>3. PICK e \in S : \A d \in S : ~(<<d, e>> \in Less)
  <2> HIDE DEF Less
  <2> QED
    BY <1>1, <1>2, WFMin
<1>4. ASSUME NEW d \in S PROVE e <= d
  <2>1. d \in Nat /\ e \in Nat
    BY <1>1
  <2>2. d < e => <<d, e>> \in Less
    BY <2>1, Z3
  <2> QED
    BY <1>3, <2>1, <2>2
<1> QED
  BY <1>4 DEF Oldest

\* Only events in the table are polled.
LEMMA PolledAreEvents == Polled \subseteq Events
  BY DEF Polled

\* A replica that has a batch is dealing with one of the batch's events.
LEMMA CurrentInBatch ==
    ASSUME IInv, NEW p \in Replicas, at[p] # "idle"
    PROVE  Current(p) \in batch[p] /\ Current(p) \in Events
  BY OldestIsMember DEF IInv, TypeOK, Current

\* The table, the broker and the batches start empty.
LEMMA InitInv == Init => IInv
  BY DEF Init, IInv, TypeOK

\* No statement, failure or crash makes a mark or a counted retry precede the send.
LEMMA NextInv == IInv /\ [Next]_vars => IInv'
<1> SUFFICES ASSUME IInv, [Next]_vars PROVE IInv'
  OBVIOUS
<1> USE DEF IInv, TypeOK
<1>1. ASSUME NEW e \in Events, Insert(e) PROVE IInv'
  BY <1>1 DEF Insert, Current
<1>2. ASSUME NEW p \in Replicas, Poll(p) PROVE IInv'
  <2>1. batch'[p] # {} /\ at'[p] = "send"
    BY <1>2 DEF Poll
  <2>2. \A q \in Replicas \ {p} : batch'[q] = batch[q] /\ at'[q] = at[q]
    BY <1>2 DEF Poll
  <2>3. \A q \in Replicas : at'[q] \in {"mark", "retry"} => Current(q)' \in sent'
    BY <1>2, <2>1, <2>2 DEF Poll, Current
  <2>4. TypeOK'
    BY <1>2, PolledAreEvents DEF Poll, table
  <2> QED
    BY <1>2, <2>1, <2>2, <2>3, <2>4 DEF Poll, table
<1>3. ASSUME NEW p \in Replicas, Send(p) PROVE IInv'
  <2>1. Current(p) \in Events
    BY <1>3, CurrentInBatch DEF Send
  <2>2. \A q \in Replicas : Current(q)' = Current(q)
    BY <1>3 DEF Send, Current
  <2> QED
    BY <1>3, <2>1, <2>2 DEF Send, table
<1>4. ASSUME NEW p \in Replicas, Advance(p), sent' = sent PROVE
        /\ at' \in [Replicas -> {"idle", "send", "mark", "retry"}]
        /\ batch' \in [Replicas -> SUBSET Events]
        /\ \A q \in Replicas :
            /\ at'[q] # "idle" <=> batch'[q] # {}
            /\ at'[q] \in {"mark", "retry"} => Current(q)' \in sent'
  <2>1. /\ batch'[p] = batch[p] \ {Current(p)}
        /\ at'[p] = IF batch'[p] = {} THEN "idle" ELSE "send"
    BY <1>4 DEF Advance
  <2>2. \A q \in Replicas \ {p} : batch'[q] = batch[q] /\ at'[q] = at[q]
    BY <1>4 DEF Advance
  <2>3. /\ at' \in [Replicas -> {"idle", "send", "mark", "retry"}]
        /\ batch' \in [Replicas -> SUBSET Events]
    BY <1>4 DEF Advance
  <2> QED
    BY <1>4, <2>1, <2>2, <2>3 DEF Current
<1>5. ASSUME NEW p \in Replicas, Mark(p) PROVE IInv'
  <2>1. Current(p) \in Events /\ Current(p) \in sent
    BY <1>5, CurrentInBatch DEF Mark
  <2> QED
    BY <1>4, <1>5, <2>1 DEF Mark
<1>6. ASSUME NEW p \in Replicas, MarkFails(p) PROVE IInv'
  <2>1. \A q \in Replicas : Current(q)' = Current(q)
    BY <1>6 DEF MarkFails, Current
  <2> QED
    BY <1>6, <2>1 DEF MarkFails, table
<1>7. ASSUME NEW p \in Replicas, CountRetry(p) PROVE IInv'
  <2>1. Current(p) \in Events /\ Current(p) \in sent
    BY <1>7, CurrentInBatch DEF CountRetry
  <2> QED
    BY <1>4, <1>7, <2>1 DEF CountRetry
<1>8. ASSUME NEW p \in Replicas, RetryFails(p) PROVE IInv'
  BY <1>4, <1>8 DEF RetryFails, table
<1>9. ASSUME NEW p \in Replicas, Crash(p) PROVE IInv'
  BY <1>9 DEF Crash, table, Current
<1>10. CASE UNCHANGED vars
  BY <1>10 DEF vars, table, Current
<1> QED
  BY <1>1, <1>2, <1>3, <1>5, <1>6, <1>7, <1>8, <1>9, <1>10 DEF Next, Step, Fail

\* A publisher's loop keeps its invariant whatever fails.
THEOREM PublisherInvariant == Spec => []IInv
  BY InitInv, NextInv, PTL DEF Spec

\* At-least-once, as far as safety goes: an event leaves the polled set only after the
\* broker has it.
THEOREM NeverForgotten == Spec => []NothingForgotten
<1>1. IInv => NothingForgotten
  BY LimitsAssumption DEF IInv, TypeOK, NothingForgotten, Pending
<1> QED
  BY <1>1, PublisherInvariant, PTL

\* A set of replicas is finite and not larger than all of them.
LEMMA HoldersCount ==
    ASSUME NEW e
    PROVE  /\ IsFiniteSet(Holders(e))
           /\ Cardinality(Holders(e)) \in Nat
           /\ Cardinality(Replicas) \in Nat
           /\ Cardinality(Holders(e)) <= Cardinality(Replicas)
<1>1. Holders(e) \in SUBSET Replicas
  BY DEF Holders
<1> QED
  BY <1>1, ReplicasAssumption, FS_Subset, FS_CardinalityType

\* A replica that is done with an event, or dies, holds it no longer; no other changes.
LEMMA FewerHolders ==
    ASSUME NEW e, Holders(e)' \subseteq Holders(e)
    PROVE  Cardinality(Holders(e)') \in Nat /\ Cardinality(Holders(e)') <= Cardinality(Holders(e))
  BY HoldersCount, FS_Subset, FS_CardinalityType

\* Every counted retry is paid for by one replica fewer that holds the event.
THEOREM RetriesStop == Spec => []RetriesBounded
<1>1. Init => RetriesBounded
  <2> SUFFICES ASSUME Init, NEW e \in Events
               PROVE  retries[e] + Cardinality(Holders(e)) <= MaxRetry + Cardinality(Replicas)
    BY DEF RetriesBounded
  <2> QED
    BY HoldersCount, LimitsAssumption DEF Init
<1>2. IInv /\ RetriesBounded /\ [Next]_vars => RetriesBounded'
  <2> SUFFICES ASSUME IInv, RetriesBounded, [Next]_vars, NEW e \in Events
               PROVE  retries'[e] + Cardinality(Holders(e)') <= MaxRetry + Cardinality(Replicas)
    BY DEF RetriesBounded
  <2>0. /\ retries[e] \in Nat /\ MaxRetry \in Nat
        /\ retries[e] + Cardinality(Holders(e)) <= MaxRetry + Cardinality(Replicas)
        /\ batch \in [Replicas -> SUBSET Events]
    BY LimitsAssumption DEF IInv, TypeOK, RetriesBounded
  <2>1. ASSUME retries'[e] = retries[e], Holders(e)' \subseteq Holders(e)
        PROVE  retries'[e] + Cardinality(Holders(e)') <= MaxRetry + Cardinality(Replicas)
    BY <2>0, <2>1, HoldersCount, FewerHolders
  <2>2. ASSUME NEW p \in Replicas, Poll(p)
        PROVE  retries'[e] + Cardinality(Holders(e)') <= MaxRetry + Cardinality(Replicas)
    <3>1. CASE e \in Polled
      <4>1. retries'[e] <= MaxRetry /\ retries'[e] \in Nat
        BY <2>0, <2>2, <3>1 DEF Poll, Polled, Pending, table
      <4>2. Holders(e)' \in SUBSET Replicas
        BY DEF Holders
      <4>3. /\ Cardinality(Holders(e)') \in Nat
            /\ Cardinality(Replicas) \in Nat
            /\ Cardinality(Holders(e)') <= Cardinality(Replicas)
        BY <4>2, ReplicasAssumption, FS_Subset, FS_CardinalityType
      <4> QED
        BY <2>0, <4>1, <4>3
    <3>2. CASE e \notin Polled
      <4>1. Holders(e)' \subseteq Holders(e)
        BY <2>0, <2>2, <3>2 DEF Poll, Holders
      <4> QED
        BY <2>1, <2>2, <4>1 DEF Poll, table
    <3> QED
      BY <3>1, <3>2
  <2>3. ASSUME NEW p \in Replicas, CountRetry(p)
        PROVE  retries'[e] + Cardinality(Holders(e)') <= MaxRetry + Cardinality(Replicas)
    <3>1. CASE e = Current(p)
      <4>1. p \in Holders(e)
        BY <2>3, <3>1, CurrentInBatch DEF CountRetry, Holders
      <4>2. Holders(e)' = Holders(e) \ {p}
        BY <2>0, <2>3, <3>1 DEF CountRetry, Advance, Holders
      <4>3. Cardinality(Holders(e)') = Cardinality(Holders(e)) - 1
        BY <4>1, <4>2, HoldersCount, FS_RemoveElement
      <4>4. retries'[e] = retries[e] + 1
        BY <2>3, <3>1 DEF CountRetry, IInv, TypeOK
      <4> QED
        BY <2>0, <4>3, <4>4, HoldersCount
    <3>2. CASE e # Current(p)
      <4>1. Holders(e)' \subseteq Holders(e)
        BY <2>0, <2>3 DEF CountRetry, Advance, Holders
      <4>2. retries'[e] = retries[e]
        BY <2>3, <3>2 DEF CountRetry, IInv, TypeOK
      <4> QED
        BY <2>1, <4>1, <4>2
    <3> QED
      BY <3>1, <3>2
  <2>4. ASSUME NEW p \in Replicas, Advance(p), UNCHANGED retries
        PROVE  retries'[e] + Cardinality(Holders(e)') <= MaxRetry + Cardinality(Replicas)
    <3>1. Holders(e)' \subseteq Holders(e)
      BY <2>0, <2>4 DEF Advance, Holders
    <3> QED
      BY <2>1, <2>4, <3>1
  <2>5. ASSUME NEW p \in Replicas, Crash(p)
        PROVE  retries'[e] + Cardinality(Holders(e)') <= MaxRetry + Cardinality(Replicas)
    <3>1. Holders(e)' \subseteq Holders(e)
      BY <2>0, <2>5 DEF Crash, Holders
    <3> QED
      BY <2>1, <2>5, <3>1 DEF Crash, table
  <2>6. ASSUME UNCHANGED <<retries, batch>>
        PROVE  retries'[e] + Cardinality(Holders(e)') <= MaxRetry + Cardinality(Replicas)
    <3>1. Holders(e)' \subseteq Holders(e)
      BY <2>6 DEF Holders
    <3> QED
      BY <2>1, <2>6, <3>1
  <2>7. \A d \in Events : Insert(d) => UNCHANGED <<retries, batch>>
    BY DEF Insert
  <2>8. \A p \in Replicas : Send(p) \/ MarkFails(p) => UNCHANGED <<retries, batch>>
    BY DEF Send, MarkFails, table
  <2>9. \A p \in Replicas : Mark(p) \/ RetryFails(p) => Advance(p) /\ UNCHANGED retries
    BY DEF Mark, RetryFails, table
  <2>10. CASE UNCHANGED vars
    BY <2>6, <2>10 DEF vars, table
  <2> QED
    BY <2>2, <2>3, <2>4, <2>5, <2>6, <2>7, <2>8, <2>9, <2>10 DEF Next, Step, Fail
<1> QED
  BY <1>1, <1>2, PublisherInvariant, PTL DEF Spec
=============================================================================
