--------------------------- MODULE InterestProofs ---------------------------
(***************************************************************************)
(* Proofs about Interest, for any number of workers, accounts, days and    *)
(* calls, whatever fails: interest is marked as posted if and only if it   *)
(* was paid, postings that overlap pay it again, but no more often than    *)
(* there are workers, a customer is credited what was accrued for the      *)
(* payments made, an accrual that reports success left nobody out, and     *)
(* postings do not deadlock.                                               *)
(***************************************************************************)
EXTENDS Interest, SumTheorems

\* The types of what postings work with.
PostingTypeOK ==
    /\ accrued = [x \in Rows |-> accrued[x]]
    /\ posted \subseteq Rows
    /\ paid \in [Rows -> Nat]
    /\ at \in [Workers -> {"idle", "accrue", "accruing", "post", "posting"}]
    /\ list \in [Workers -> SUBSET Rows]
    /\ written \in [Workers -> SUBSET Rows]

PostingInv == PostingTypeOK /\ PostedIffPaid /\ PostingsOK

\* The postings that have still to commit row x.
Postings(x) == {w \in Workers : x \in list[w] \cup written[w]}

\* What a posting may become: paid, or in the hands of a posting that read it unpaid.
PaymentsBounded == \A x \in Rows : paid[x] + Cardinality(Postings(x)) <= Cardinality(Workers)

\* No accrual is there and nobody is posting.
LEMMA InitPosting == Init => PostingInv
  BY DEF Init, PostingInv, PostingTypeOK, PostedIffPaid, PostingsOK

\* A worker that returns has nothing in hand; the others are where they were.
LEMMA AnswerLetsGo ==
    ASSUME PostingTypeOK, NEW w \in Workers, NEW code, Answer(w, code)
    PROVE  /\ at' \in [Workers -> {"idle", "accrue", "accruing", "post", "posting"}]
           /\ list' \in [Workers -> SUBSET Rows]
           /\ written' \in [Workers -> SUBSET Rows]
           /\ at'[w] = "idle" /\ list'[w] = {} /\ written'[w] = {}
           /\ \A v \in Workers \ {w} :
                at'[v] = at[v] /\ list'[v] = list[v] /\ written'[v] = written[v]
  BY DEF PostingTypeOK, Answer

\* A worker that returns without having written to the store leaves every posting right.
LEMMA AnswerPosting ==
    ASSUME PostingInv, NEW w \in Workers, NEW code, Answer(w, code), UNCHANGED store
    PROVE  PostingInv'
<1>1. UNCHANGED <<accrued, posted, paid>>
  BY DEF store
<1>2. PostingTypeOK'
  BY <1>1, AnswerLetsGo DEF PostingInv, PostingTypeOK
<1>3. PostingsOK'
  BY <1>1, AnswerLetsGo DEF PostingInv, PostingsOK, Exists
<1> QED
  BY <1>1, <1>2, <1>3 DEF PostingInv, PostedIffPaid

\* Every step of a call keeps the postings right.
LEMMA NextPosting == PostingInv /\ [Next]_vars => PostingInv'
<1> SUFFICES ASSUME PostingInv, [Next]_vars PROVE PostingInv'
  OBVIOUS
<1> USE DEF PostingInv
<1>1. ASSUME NEW w \in Workers, NEW c \in Calls, Call(w, c) PROVE PostingInv'
  <2>1. c.op # "posting" => at'[w] # "posting"
    BY <1>1 DEF Call, PostingTypeOK
  <2> QED
    BY <1>1, <2>1, InterestAssumption
       DEF Call, CallType, store, PostingTypeOK, PostedIffPaid, PostingsOK, Exists
<1>2. ASSUME NEW w \in Workers, ReadBalances(w) PROVE PostingInv'
  BY <1>2 DEF ReadBalances, store, PostingTypeOK, PostedIffPaid, PostingsOK, Exists
<1>3. ASSUME NEW w \in Workers, NEW a \in Accounts, AccrueOne(w, a) PROVE PostingInv'
  <2> DEFINE x == <<call[w].day, a>>
             amount == DailyInterest(balance[w][a])
  <2>1. CASE UNCHANGED <<store, at, list, written>>
    BY <2>1 DEF store, PostingTypeOK, PostedIffPaid, PostingsOK, Exists
  <2>2. CASE Answer(w, 500) /\ UNCHANGED store
    BY <2>2, AnswerPosting
  <2>3. CASE /\ amount # 0
             /\ accrued' = [accrued EXCEPT ![x] = amount]
             /\ UNCHANGED <<posted, paid, at, list, written>>
    <3> HIDE DEF x, amount
    <3>1. \A y \in Rows : Exists(y) => Exists(y)'
      BY <2>3 DEF PostingTypeOK, Exists
    <3>2. accrued' = [y \in Rows |-> accrued'[y]]
      BY <2>3 DEF PostingTypeOK
    <3> QED
      BY <2>3, <3>1, <3>2 DEF PostingTypeOK, PostedIffPaid, PostingsOK
  <2> QED
    BY <1>3, <2>1, <2>2, <2>3 DEF AccrueOne
<1>4. ASSUME NEW w \in Workers, AccrualDone(w) \/ Fault(w) PROVE PostingInv'
  BY <1>4, AnswerPosting DEF AccrualDone, Fault
<1>5. ASSUME NEW w \in Workers, ReadUnposted(w) PROVE PostingInv'
  BY <1>5 DEF ReadUnposted, store, PostingTypeOK, PostedIffPaid, PostingsOK, Exists
<1>6. ASSUME NEW w \in Workers, NEW x \in Rows, WriteOne(w, x) PROVE PostingInv'
  <2>1. PostingTypeOK'
    BY <1>6 DEF WriteOne, store, PostingTypeOK
  <2>2. \A v \in Workers \ {w} : x \notin written[v]
    BY <1>6 DEF WriteOne, LockedByOther
  <2>3. PostingsOK'
    BY <1>6, <2>2 DEF WriteOne, store, PostingTypeOK, PostingsOK, Exists
  <2> QED
    BY <1>6, <2>1, <2>3 DEF WriteOne, store, PostedIffPaid
<1>7. ASSUME NEW w \in Workers, CommitPosting(w) PROVE PostingInv'
  <2>1. Answer(w, 200) /\ UNCHANGED accrued /\ posted' = posted \cup written[w]
    BY <1>7 DEF CommitPosting
  <2>2. paid' = [x \in Rows |-> IF x \in written[w] THEN paid[x] + 1 ELSE paid[x]]
    BY <1>7 DEF CommitPosting
  <2>3. PostingTypeOK'
    BY <2>1, <2>2, AnswerLetsGo DEF PostingTypeOK
  <2>4. PostedIffPaid'
    BY <2>1, <2>2 DEF PostingTypeOK, PostedIffPaid
  <2>5. PostingsOK'
    BY <2>1, AnswerLetsGo DEF PostingsOK, Exists
  <2> QED
    BY <2>3, <2>4, <2>5
<1>8. CASE UNCHANGED vars
  BY <1>8 DEF vars, store, PostingTypeOK, PostedIffPaid, PostingsOK, Exists
<1> QED
  BY <1>1, <1>2, <1>3, <1>4, <1>5, <1>6, <1>7, <1>8 DEF Next, Step

\* Whatever fails and however postings overlap, what is marked has been paid and what has
\* been paid is marked, and postings hold rows that are there.
THEOREM PostingInvariant == Spec => [](PostedIffPaid /\ PostingsOK)
<1>1. PostingInv => PostedIffPaid /\ PostingsOK
  BY DEF PostingInv
<1> QED
  BY <1>1, InitPosting, NextPosting, PTL DEF Spec

\* Postings are workers, and finitely many.
LEMMA PostingsCount ==
    ASSUME NEW x
    PROVE  /\ IsFiniteSet(Postings(x)) /\ Cardinality(Postings(x)) \in Nat
           /\ Cardinality(Workers) \in Nat
           /\ Cardinality(Postings(x)) <= Cardinality(Workers)
<1>1. Postings(x) \in SUBSET Workers
  BY DEF Postings
<1> QED
  BY <1>1, InterestAssumption, FS_Subset, FS_CardinalityType

\* Also after the step.
LEMMA PostingsCountNext ==
    ASSUME NEW x
    PROVE  /\ Cardinality(Postings(x)') \in Nat
           /\ Cardinality(Postings(x)') <= Cardinality(Workers)
<1>1. Postings(x)' \in SUBSET Workers
  BY DEF Postings
<1> QED
  BY <1>1, InterestAssumption, FS_Subset, FS_CardinalityType

\* No more postings, no more of them counted.
LEMMA FewerPostings ==
    ASSUME NEW x, Postings(x)' \subseteq Postings(x)
    PROVE  Cardinality(Postings(x)') <= Cardinality(Postings(x))
  BY PostingsCount, FS_Subset

\* A payment costs the posting that made it; a posting that begins finds the row unpaid.
LEMMA NextBounded == PostingInv /\ PaymentsBounded /\ [Next]_vars => PaymentsBounded'
<1> SUFFICES ASSUME PostingInv, PaymentsBounded, [Next]_vars, NEW x \in Rows
             PROVE  paid'[x] + Cardinality(Postings(x)') <= Cardinality(Workers)
  BY DEF PaymentsBounded
<1>0. paid[x] \in Nat /\ paid[x] + Cardinality(Postings(x)) <= Cardinality(Workers)
  BY DEF PostingInv, PostingTypeOK, PaymentsBounded
<1>1. ASSUME paid'[x] = paid[x], Postings(x)' \subseteq Postings(x)
      PROVE  paid'[x] + Cardinality(Postings(x)') <= Cardinality(Workers)
  BY <1>0, <1>1, PostingsCount, PostingsCountNext, FewerPostings
<1>2. ASSUME NEW w \in Workers, NEW code, Answer(w, code), UNCHANGED store
      PROVE  paid'[x] + Cardinality(Postings(x)') <= Cardinality(Workers)
  <2>1. Postings(x)' \subseteq Postings(x)
    BY <1>2, AnswerLetsGo DEF PostingInv, Postings
  <2> QED
    BY <1>1, <1>2, <2>1 DEF store
<1>3. ASSUME NEW w \in Workers, ReadUnposted(w)
      PROVE  paid'[x] + Cardinality(Postings(x)') <= Cardinality(Workers)
  <2>1. CASE x \in posted
    <3>1. Postings(x)' \subseteq Postings(x)
      BY <1>3, <2>1 DEF ReadUnposted, PostingInv, PostingTypeOK, Postings
    <3> QED
      BY <1>1, <1>3, <3>1 DEF ReadUnposted, store
  <2>2. CASE x \notin posted
    <3>1. paid'[x] = 0
      BY <1>0, <1>3, <2>2 DEF ReadUnposted, store, PostingInv, PostedIffPaid
    <3> QED
      BY <3>1, PostingsCount, PostingsCountNext
  <2> QED
    BY <2>1, <2>2
<1>4. ASSUME NEW w \in Workers, NEW y \in Rows, WriteOne(w, y)
      PROVE  paid'[x] + Cardinality(Postings(x)') <= Cardinality(Workers)
  <2>1. Postings(x)' \subseteq Postings(x)
    BY <1>4 DEF WriteOne, PostingInv, PostingTypeOK, Postings
  <2> QED
    BY <1>1, <1>4, <2>1 DEF WriteOne, store
<1>5. ASSUME NEW w \in Workers, CommitPosting(w)
      PROVE  paid'[x] + Cardinality(Postings(x)') <= Cardinality(Workers)
  <2>1. Answer(w, 200)
    BY <1>5 DEF CommitPosting
  <2>2. paid'[x] = IF x \in written[w] THEN paid[x] + 1 ELSE paid[x]
    BY <1>5 DEF CommitPosting
  <2>3. Postings(x)' = Postings(x) \ {w}
    BY <2>1, AnswerLetsGo DEF PostingInv, Postings
  <2>4. CASE x \in written[w]
    <3>1. w \in Postings(x)
      BY <2>4 DEF Postings
    <3>2. Cardinality(Postings(x)') = Cardinality(Postings(x)) - 1
      BY <2>3, <3>1, PostingsCount, FS_RemoveElement
    <3> QED
      BY <1>0, <2>2, <2>4, <3>2, PostingsCount
  <2>5. CASE x \notin written[w]
    BY <1>1, <2>2, <2>3, <2>5
  <2> QED
    BY <2>4, <2>5
<1>6. ASSUME UNCHANGED <<paid, list, written>>
      PROVE  paid'[x] + Cardinality(Postings(x)') <= Cardinality(Workers)
  BY <1>1, <1>6 DEF Postings
<1>7. ASSUME NEW w \in Workers, NEW c \in Calls, Call(w, c) \/ ReadBalances(w)
      PROVE  UNCHANGED <<paid, list, written>>
  BY <1>7 DEF Call, ReadBalances, store
<1>8. ASSUME NEW w \in Workers, NEW a \in Accounts, AccrueOne(w, a)
      PROVE  UNCHANGED <<paid, list, written>> \/ (Answer(w, 500) /\ UNCHANGED store)
  BY <1>8 DEF AccrueOne, store
<1>9. ASSUME NEW w \in Workers, AccrualDone(w) \/ Fault(w)
      PROVE  \E code \in {200, 500} : Answer(w, code) /\ UNCHANGED store
  BY <1>9 DEF AccrualDone, Fault
<1>10. CASE UNCHANGED vars
  BY <1>6, <1>10 DEF vars, store
<1> QED
  BY <1>2, <1>3, <1>4, <1>5, <1>6, <1>7, <1>8, <1>9, <1>10, InterestAssumption DEF Next, Step

\* However often postings are called and fail, a day's interest is paid once by each worker
\* at most.
THEOREM PaysOncePerWorker == Spec => []PaidOncePerWorker
<1>1. Init => PaymentsBounded
  <2> SUFFICES ASSUME Init, NEW x \in Rows
               PROVE  paid[x] + Cardinality(Postings(x)) <= Cardinality(Workers)
    BY DEF PaymentsBounded
  <2> QED
    BY PostingsCount DEF Init
<1>2. PostingInv /\ PaymentsBounded => PaidOncePerWorker
  <2> SUFFICES ASSUME PostingInv, PaymentsBounded, NEW x \in Rows
               PROVE  paid[x] <= Cardinality(Workers)
    BY DEF PaidOncePerWorker
  <2> QED
    BY PostingsCount DEF PostingInv, PostingTypeOK, PaymentsBounded
<1> QED
  BY <1>1, <1>2, InitPosting, NextPosting, NextBounded, PTL DEF Spec
----------------------------------------------------------------------------
\* Amounts

\* An accrual goes through accounts in credit only: what it writes is not negative.
AccrualsOK == \A w \in Workers : \A a \in todo[w] : balance[w][a] > 0

TypedInv == IInv /\ AccrualsOK

\* The rows of account a, and the payments made for a row.
RowsOf(a) == {x \in Rows : x[2] = a}
Payments == [x \in Rows |-> paid[x] * accrued[x]]

LEMMA RowsFinite == IsFiniteSet(Rows) /\ IsFiniteSet(Ledgers)
<1>1. IsFiniteSet({Expense})
  BY FS_Singleton
<1> QED
  BY <1>1, InterestAssumption, FS_Product, FS_Union DEF Rows, Ledgers

\* The interest of a positive balance is a natural number.
LEMMA InterestNat == ASSUME NEW b \in Nat PROVE DailyInterest(b) \in Nat
<1> DEFINE n == 2 * b * RateNum + RateDen
           d == 2 * RateDen
<1>1. b * RateNum \in Nat /\ 2 * b * RateNum = 2 * (b * RateNum)
  BY InterestAssumption
<1>2. n \in Nat /\ d \in Nat /\ d > 0
  BY <1>1, InterestAssumption
<1> HIDE DEF n, d
<1>3. n \div d \in Nat
  BY <1>2
<1> QED
  BY <1>3 DEF DailyInterest, n, d

\* What a posting pays is a natural number.
LEMMA DueNat ==
    ASSUME TypeOK, NEW S \in SUBSET Rows
    PROVE  SumOver(S, Due) \in Nat
<1> DEFINE f == [x \in S |-> Due(x)]
<1>1. IsFiniteSet(S) /\ \A x \in S : f[x] \in Nat
  BY RowsFinite, FS_Subset DEF TypeOK, Due
<1> HIDE DEF f
<1>2. SumFunctionOnSet(f, S) \in Nat
  BY <1>1, SumNat
<1> QED
  BY <1>2 DEF SumOver, f

LEMMA InitTyped == Init => TypedInv
<1> SUFFICES ASSUME Init PROVE TypedInv
  OBVIOUS
<1>1. (CHOOSE c \in Calls : TRUE) \in Calls
  BY InterestAssumption
<1>2. TypeOK
  BY <1>1 DEF Init, TypeOK
<1> QED
  BY <1>2, InitPosting DEF Init, TypedInv, IInv, PostingInv, AccrualsOK

\* A worker that returns keeps the types of what it works with.
LEMMA AnswerTyped ==
    ASSUME TypedInv, NEW w \in Workers, NEW code \in {200, 500}, Answer(w, code)
    PROVE  /\ at' \in [Workers -> {"idle", "accrue", "accruing", "post", "posting"}]
           /\ call' \in [Workers -> Calls]
           /\ balance' \in [Workers -> [Accounts -> Int]]
           /\ todo' \in [Workers -> SUBSET Accounts]
           /\ list' \in [Workers -> SUBSET Rows]
           /\ written' \in [Workers -> SUBSET Rows]
           /\ told' \in [Workers -> {0, 200, 500}]
           /\ AccrualsOK'
<1>1. [a \in Accounts |-> 0] \in [Accounts -> Int]
  OBVIOUS
<1> QED
  BY <1>1 DEF TypedInv, IInv, TypeOK, Answer, AccrualsOK

\* Every step keeps the types, and posts only accruals that are there.
LEMMA NextTyped == TypedInv /\ [Next]_vars => TypedInv'
<1> SUFFICES ASSUME TypedInv, [Next]_vars PROVE TypedInv'
  OBVIOUS
<1> SUFFICES TypeOK' /\ AccrualsOK' /\ \A x \in posted' : Exists(x)'
  <2>1. PostingTypeOK
    BY DEF TypedInv, IInv, TypeOK, PostingTypeOK
  <2>2. PostingInv
    BY <2>1 DEF TypedInv, IInv, PostingInv
  <2>3. PostingInv'
    BY <2>2, NextPosting
  <2>4. PostedIffPaid' /\ PostingsOK'
    BY <2>3 DEF PostingInv
  <2> QED
    BY <2>4 DEF TypedInv, IInv
<1> USE DEF TypedInv, IInv
<1>1. ASSUME NEW w \in Workers, NEW c \in Calls, Call(w, c)
      PROVE  TypeOK' /\ AccrualsOK' /\ \A x \in posted' : Exists(x)'
  <2>1. c.op \in {"accrue", "post"}
    BY InterestAssumption DEF CallType
  <2> QED
    BY <1>1, <2>1 DEF Call, store, TypeOK, AccrualsOK, Exists
<1>2. ASSUME NEW w \in Workers, ReadBalances(w)
      PROVE  TypeOK' /\ AccrualsOK' /\ \A x \in posted' : Exists(x)'
  <2> DEFINE read == [a \in Accounts |-> Balance(a)]
  <2>1. read \in [Accounts -> Int]
    BY InterestAssumption DEF TypeOK, Balance, Ledgers
  <2>2. todo'[w] = {a \in Accounts : read[a] > 0} /\ balance' = [balance EXCEPT ![w] = read]
    BY <1>2 DEF ReadBalances, TypeOK
  <2> HIDE DEF read
  <2>3. AccrualsOK'
    BY <1>2, <2>2 DEF ReadBalances, TypeOK, AccrualsOK
  <2>4. TypeOK'
    BY <1>2, <2>1, <2>2 DEF ReadBalances, store, TypeOK
  <2> QED
    BY <1>2, <2>3, <2>4 DEF ReadBalances, store, Exists
<1>3. ASSUME NEW w \in Workers, NEW a \in Accounts, AccrueOne(w, a)
      PROVE  TypeOK' /\ AccrualsOK' /\ \A x \in posted' : Exists(x)'
  <2> DEFINE x == <<call[w].day, a>>
             amount == DailyInterest(balance[w][a])
  <2>1. a \in todo[w] /\ balance[w][a] \in Nat
    BY <1>3 DEF AccrueOne, TypeOK, AccrualsOK
  <2>2. amount \in Nat
    BY <2>1, InterestNat
  <2>3. x \in Rows
    BY InterestAssumption DEF TypeOK, CallType, Rows
  <2> HIDE DEF x, amount
  <2>4. CASE /\ todo' = [todo EXCEPT ![w] = @ \ {a}]
             /\ UNCHANGED <<store, at, call, balance, list, written, told>>
    BY <2>4 DEF store, TypeOK, AccrualsOK, Exists
  <2>5. CASE Answer(w, 500) /\ UNCHANGED store
    BY <2>5, AnswerTyped DEF store, TypeOK, Exists
  <2>6. CASE /\ amount # 0
             /\ accrued' = [accrued EXCEPT ![x] = amount]
             /\ todo' = [todo EXCEPT ![w] = @ \ {a}]
             /\ UNCHANGED <<posted, paid, credit, debit, at, call, balance, list, written, told>>
    BY <2>2, <2>3, <2>6 DEF TypeOK, AccrualsOK, Exists
  <2> QED
    BY <1>3, <2>4, <2>5, <2>6 DEF AccrueOne, x, amount
<1>4. ASSUME NEW w \in Workers, AccrualDone(w) \/ Fault(w)
      PROVE  TypeOK' /\ AccrualsOK' /\ \A x \in posted' : Exists(x)'
  BY <1>4, AnswerTyped DEF AccrualDone, Fault, store, TypeOK, Exists
<1>5. ASSUME NEW w \in Workers, ReadUnposted(w)
      PROVE  TypeOK' /\ AccrualsOK' /\ \A x \in posted' : Exists(x)'
  BY <1>5 DEF ReadUnposted, store, TypeOK, AccrualsOK, Exists
<1>6. ASSUME NEW w \in Workers, NEW x \in Rows, WriteOne(w, x)
      PROVE  TypeOK' /\ AccrualsOK' /\ \A y \in posted' : Exists(y)'
  BY <1>6 DEF WriteOne, store, TypeOK, AccrualsOK, Exists
<1>7. ASSUME NEW w \in Workers, CommitPosting(w)
      PROVE  TypeOK' /\ AccrualsOK' /\ \A x \in posted' : Exists(x)'
  <2>1. /\ Answer(w, 200) /\ UNCHANGED <<accrued, debit>> /\ posted' = posted \cup written[w]
        /\ paid' = [x \in Rows |-> IF x \in written[w] THEN paid[x] + 1 ELSE paid[x]]
    BY <1>7 DEF CommitPosting
  <2>2. credit' \in [Ledgers -> Nat]
    <3> DEFINE Part(a) == {x \in written[w] : a \in {x[2], Expense}}
    <3>1. \A a \in Ledgers : Part(a) \in SUBSET Rows
      BY DEF TypeOK
    <3>2. \A a \in Ledgers : SumOver(Part(a), Due) \in Nat
      BY <3>1, DueNat
    <3>3. credit' = [a \in Ledgers |-> credit[a] + SumOver(Part(a), Due)]
      BY <1>7 DEF CommitPosting
    <3> DEFINE Amount(a) == SumOver(Part(a), Due)
    <3>4. credit' = [a \in Ledgers |-> credit[a] + Amount(a)]
          /\ \A a \in Ledgers : Amount(a) \in Nat
      BY <3>2, <3>3
    <3> HIDE DEF Amount
    <3> QED
      BY <3>4 DEF TypeOK
  <2>3. posted' \subseteq Rows /\ paid' \in [Rows -> Nat]
    BY <2>1 DEF TypeOK
  <2>4. TypeOK' /\ AccrualsOK'
    BY <2>1, <2>2, <2>3, AnswerTyped DEF TypeOK
  <2> QED
    BY <2>1, <2>4 DEF PostingsOK, Exists
<1>8. CASE UNCHANGED vars
  BY <1>8 DEF vars, store, TypeOK, AccrualsOK, Exists
<1> QED
  BY <1>1, <1>2, <1>3, <1>4, <1>5, <1>6, <1>7, <1>8 DEF Next, Step

\* The inductive invariant the model checker checks, for every bank: types, the marks of
\* the payments, and postings that hold rows which are there.
THEOREM InductiveInvariant == Spec => []IInv
<1>1. TypedInv => IInv
  BY DEF TypedInv
<1> QED
  BY <1>1, InitTyped, NextTyped, PTL DEF Spec

\* Rows without payments do not count.
LEMMA OnlyPaidCount ==
    ASSUME TypeOK, NEW a \in Accounts
    PROVE  SumOver({x \in Rows : x[2] = a /\ paid[x] > 0}, LAMBDA x : paid[x] * accrued[x])
             = SumFunctionOnSet(Payments, RowsOf(a))
<1> DEFINE P == {x \in Rows : x[2] = a /\ paid[x] > 0}
           f == [x \in P |-> paid[x] * accrued[x]]
<1>1. P \subseteq RowsOf(a) /\ RowsOf(a) \subseteq Rows
  BY DEF RowsOf
<1>2. IsFiniteSet(RowsOf(a)) /\ IsFiniteSet(P) /\ IsFiniteSet(RowsOf(a) \ P)
  BY <1>1, RowsFinite, FS_Subset
<1>3. \A x \in Rows : Payments[x] \in Nat
  BY DEF Payments, TypeOK
<1>4. \A x \in RowsOf(a) \ P : Payments[x] = 0
  BY DEF Payments, RowsOf, TypeOK
<1>5. \A x \in P : f[x] = Payments[x]
  BY DEF Payments
<1> HIDE DEF P, f
<1>6. SumFunctionOnSet(Payments, RowsOf(a))
        = SumFunctionOnSet(Payments, P) + SumFunctionOnSet(Payments, RowsOf(a) \ P)
  BY <1>1, <1>2, <1>3, SumSplit
<1>7. SumFunctionOnSet(Payments, RowsOf(a) \ P) = 0
  BY <1>2, <1>4, SumZero
<1>8. SumFunctionOnSet(f, P) = SumFunctionOnSet(Payments, P)
  BY <1>1, <1>2, <1>3, <1>5, SumSame
<1>9. SumFunctionOnSet(Payments, P) \in Int
  BY <1>1, <1>2, <1>3, SumInt
<1>10. SumFunctionOnSet(f, P) = SumFunctionOnSet(Payments, RowsOf(a))
  BY <1>6, <1>7, <1>8, <1>9
<1> QED
  BY <1>10 DEF SumOver, P, f

\* What each account has been credited is what its rows were paid.
CreditIsPaid == \A a \in Accounts : credit[a] = SumFunctionOnSet(Payments, RowsOf(a))

\* A commit credits an account the accruals of its rows that were written.
LEMMA CommitCredits ==
    ASSUME TypedInv, CreditIsPaid, NEW w \in Workers, CommitPosting(w)
    PROVE  CreditIsPaid'
<1> SUFFICES ASSUME NEW a \in Accounts
             PROVE  credit'[a] = SumFunctionOnSet(Payments', RowsOf(a))
  BY DEF CreditIsPaid, RowsOf, Rows
<1> DEFINE P == {x \in written[w] : a \in {x[2], Expense}}
           f == [x \in P |-> Due(x)]
           g == [x \in Rows |-> IF x \in P THEN accrued[x] ELSE 0]
<1>1. P \subseteq RowsOf(a) /\ RowsOf(a) \subseteq Rows
  BY InterestAssumption DEF RowsOf, TypedInv, IInv, TypeOK
<1>2. IsFiniteSet(RowsOf(a)) /\ IsFiniteSet(P) /\ IsFiniteSet(RowsOf(a) \ P)
  BY <1>1, RowsFinite, FS_Subset
<1>3. credit'[a] = credit[a] + SumFunctionOnSet(f, P)
  BY DEF CommitPosting, SumOver, Ledgers
<1>4. \A x \in RowsOf(a) : Payments[x] \in Nat /\ g[x] \in Nat /\ accrued[x] \in Nat
  BY <1>1 DEF Payments, TypedInv, IInv, TypeOK
<1>5. \A x \in RowsOf(a) : x \in P <=> x \in written[w]
  BY DEF RowsOf
<1>6. \A x \in RowsOf(a) : Payments'[x] = Payments[x] + g[x]
  <2> SUFFICES ASSUME NEW x \in RowsOf(a) PROVE Payments'[x] = Payments[x] + g[x]
    OBVIOUS
  <2>1. x \in Rows /\ paid[x] \in Nat /\ accrued[x] \in Nat
    BY <1>1 DEF TypedInv, IInv, TypeOK
  <2>2. Payments'[x] = paid'[x] * accrued[x] /\ Payments[x] = paid[x] * accrued[x]
    BY <2>1 DEF Payments, CommitPosting
  <2>3. paid'[x] = IF x \in P THEN paid[x] + 1 ELSE paid[x]
    BY <1>5, <2>1 DEF CommitPosting
  <2>4. (paid[x] + 1) * accrued[x] = paid[x] * accrued[x] + accrued[x]
        /\ paid[x] * accrued[x] \in Nat
    BY <2>1
  <2>5. g[x] = IF x \in P THEN accrued[x] ELSE 0
    BY <2>1
  <2> HIDE DEF P, g
  <2> QED
    BY <2>1, <2>2, <2>3, <2>4, <2>5
<1>7. \A x \in P : f[x] = accrued[x] /\ g[x] = accrued[x]
  BY <1>1 DEF Due
<1>8. \A x \in RowsOf(a) \ P : g[x] = 0
  BY <1>1
<1> HIDE DEF P, f, g
<1>9. SumFunctionOnSet(Payments', RowsOf(a))
        = SumFunctionOnSet(Payments, RowsOf(a)) + SumFunctionOnSet(g, RowsOf(a))
  BY <1>2, <1>4, <1>6, SumOfSums
<1>10. SumFunctionOnSet(g, RowsOf(a))
         = SumFunctionOnSet(g, P) + SumFunctionOnSet(g, RowsOf(a) \ P)
  BY <1>1, <1>2, <1>4, SumSplit
<1>11. SumFunctionOnSet(g, RowsOf(a) \ P) = 0
  BY <1>2, <1>8, SumZero
<1>12. SumFunctionOnSet(g, P) = SumFunctionOnSet(f, P)
  BY <1>1, <1>2, <1>4, <1>7, SumSame
<1>13. SumFunctionOnSet(g, P) \in Int
  BY <1>1, <1>2, <1>4, SumInt
<1> QED
  BY <1>3, <1>9, <1>10, <1>11, <1>12, <1>13 DEF CreditIsPaid

\* No other step pays, and an accrual is never changed once it was paid.
LEMMA NextCredits == TypedInv /\ CreditIsPaid /\ [Next]_vars => CreditIsPaid'
<1> SUFFICES ASSUME TypedInv, CreditIsPaid, [Next]_vars PROVE CreditIsPaid'
  OBVIOUS
<1>1. CASE \E w \in Workers : CommitPosting(w)
  BY <1>1, CommitCredits
<1>2. ASSUME UNCHANGED <<accrued, paid, credit>> PROVE CreditIsPaid'
  BY <1>2 DEF CreditIsPaid, Payments, RowsOf, Rows
<1>3. ASSUME NEW w \in Workers, NEW a \in Accounts, AccrueOne(w, a) PROVE CreditIsPaid'
  <2> DEFINE x == <<call[w].day, a>>
             amount == DailyInterest(balance[w][a])
  <2>1. CASE UNCHANGED store
    BY <1>2, <2>1 DEF store
  <2>2. CASE /\ ~Exists(x)
             /\ accrued' = [accrued EXCEPT ![x] = amount]
             /\ UNCHANGED <<posted, paid, credit, debit, at, call, balance, list, written, told>>
    <3>1. amount \in Nat
      BY <1>3, InterestNat DEF AccrueOne, TypedInv, IInv, TypeOK, AccrualsOK
    <3> HIDE DEF x, amount
    <3>2. \A y \in Rows : accrued'[y] = accrued[y] \/ paid[y] = 0
      BY <2>2 DEF TypedInv, IInv, TypeOK, PostedIffPaid, Exists
    <3>3. \A y \in Rows : Payments'[y] = Payments[y]
      <4> SUFFICES ASSUME NEW y \in Rows PROVE Payments'[y] = Payments[y]
        OBVIOUS
      <4>1. paid[y] \in Nat /\ accrued[y] \in Nat /\ accrued'[y] \in Nat /\ paid'[y] = paid[y]
        BY <2>2, <3>1 DEF TypedInv, IInv, TypeOK
      <4>2. Payments'[y] = paid'[y] * accrued'[y] /\ Payments[y] = paid[y] * accrued[y]
        BY DEF Payments
      <4>3. CASE accrued'[y] = accrued[y]
        BY <4>1, <4>2, <4>3
      <4>4. CASE paid[y] = 0
        BY <4>1, <4>2, <4>4
      <4> QED
        BY <3>2, <4>3, <4>4
    <3>4. Payments' = Payments
      BY <3>3 DEF Payments
    <3> QED
      BY <2>2, <3>4 DEF CreditIsPaid, RowsOf, Rows
  <2> QED
    BY <1>3, <2>1, <2>2 DEF AccrueOne, store
<1>4. CASE UNCHANGED vars
  BY <1>2, <1>4 DEF vars, store
<1>5. ASSUME NEW w \in Workers,
             \/ ReadBalances(w) \/ AccrualDone(w) \/ ReadUnposted(w) \/ Fault(w)
             \/ \E x \in Rows : WriteOne(w, x)
             \/ \E c \in Calls : Call(w, c)
      PROVE  UNCHANGED store
  BY <1>5 DEF ReadBalances, AccrualDone, ReadUnposted, Fault, WriteOne, Call, store
<1> QED
  BY <1>1, <1>2, <1>3, <1>4, <1>5 DEF Next, Step, store

\* A customer is credited what was accrued for the payments made, to the last digit,
\* however accruals and postings interleave and fail.
THEOREM CreditsMatchAccruals == Spec => []CreditsAreAccruals
<1>1. Init => CreditIsPaid
  <2> SUFFICES ASSUME Init, NEW a \in Accounts
               PROVE  credit[a] = SumFunctionOnSet(Payments, RowsOf(a))
    BY DEF CreditIsPaid
  <2>1. RowsOf(a) \subseteq Rows /\ IsFiniteSet(RowsOf(a))
    BY RowsFinite, FS_Subset DEF RowsOf
  <2>2. \A x \in RowsOf(a) : Payments[x] = 0
    BY <2>1 DEF Init, Payments
  <2> QED
    BY <2>1, <2>2, SumZero DEF Init, Ledgers
<1>2. TypedInv /\ CreditIsPaid => CreditsAreAccruals
  BY OnlyPaidCount DEF TypedInv, IInv, CreditIsPaid, CreditsAreAccruals
<1> QED
  BY <1>1, <1>2, InitTyped, NextTyped, NextCredits, PTL DEF Spec
----------------------------------------------------------------------------
\* An accrual that reports success left nobody out.

\* More over the same divisor has no smaller quotient.
LEMMA QuotientGrows ==
    ASSUME NEW n \in Nat, NEW m \in Nat, NEW d \in Nat, d > 0, n <= m
    PROVE  n \div d <= m \div d
<1> DEFINE p == n \div d
           q == m \div d
<1>1. p \in Int /\ q \in Int
  OBVIOUS
<1>2. d * p <= n /\ n < d * p + d /\ d * q <= m /\ m < d * q + d
  OBVIOUS
<1> HIDE DEF p, q
<1>3. ASSUME p > q PROVE FALSE
  <2>1. p >= q + 1
    BY <1>1, <1>3
  <2>2. d * p >= d * (q + 1) /\ d * (q + 1) = d * q + d
    BY <1>1, <2>1
  <2>3. d * p \in Int /\ d * q \in Int
    BY <1>1
  <2> QED
    BY <1>2, <2>2, <2>3
<1>4. p <= q
  BY <1>1, <1>3
<1> QED
  BY <1>4 DEF p, q

\* A larger balance earns no less, and none earns nothing.
LEMMA InterestGrows ==
    ASSUME NEW b \in Nat, NEW c \in Nat, b <= c
    PROVE  DailyInterest(b) <= DailyInterest(c) /\ DailyInterest(0) = 0
<1> DEFINE n == 2 * b * RateNum + RateDen
           m == 2 * c * RateNum + RateDen
           d == 2 * RateDen
<1>1. /\ b * RateNum \in Nat /\ 2 * b * RateNum = 2 * (b * RateNum)
      /\ c * RateNum \in Nat /\ 2 * c * RateNum = 2 * (c * RateNum)
      /\ b * RateNum <= c * RateNum
  BY InterestAssumption
<1>2. n \in Nat /\ m \in Nat /\ d \in Nat /\ d > 0 /\ n <= m
  BY <1>1, InterestAssumption
<1> HIDE DEF n, m, d
<1>3. n \div d <= m \div d
  BY <1>2, QuotientGrows
<1>4. DailyInterest(0) = 0
  <2>1. 2 * 0 * RateNum + RateDen = RateDen /\ RateDen \in Nat /\ RateDen > 0
    BY InterestAssumption
  <2>2. RateDen \div (2 * RateDen) = 0
    BY <2>1
  <2> QED
    BY <2>1, <2>2 DEF DailyInterest
<1> QED
  BY <1>3, <1>4 DEF DailyInterest, n, m, d

\* Interest is debited from no customer.
NeverDebited == \A a \in Accounts : debit[a] = 0

\* What an accrual has still to do: every eligible account has its accrual, or is on the list
\* with a balance that earns something.
Served(w, a) ==
    \/ Exists(<<call[w].day, a>>)
    \/ a \in todo[w] /\ DailyInterest(balance[w][a]) # 0

Remembered(w) ==
    at[w] = "accruing" /\ call[w].day \in RatedDays =>
        \A a \in Accounts : Eligible(a) => Served(w, a)

NobodyForgotten == \A w \in Workers : Remembered(w)

\* An account with interest from the start always has a balance that earns some.
LEMMA StaysEligible ==
    ASSUME TypeOK, NeverDebited, NEW a \in Accounts, Eligible(a)
    PROVE  Balance(a) > 0 /\ DailyInterest(Balance(a)) # 0
<1>1. Opening[a] \in Nat /\ credit[a] \in Nat /\ debit[a] = 0
  BY InterestAssumption DEF TypeOK, Ledgers, NeverDebited
<1>2. Balance(a) \in Nat /\ Opening[a] <= Balance(a)
  BY <1>1 DEF Balance
<1>3. /\ DailyInterest(Opening[a]) <= DailyInterest(Balance(a))
      /\ DailyInterest(0) = 0
  BY <1>1, <1>2, InterestGrows
<1>4. DailyInterest(Opening[a]) \in Nat /\ DailyInterest(Balance(a)) \in Nat
  BY <1>1, <1>2, InterestNat
<1>5. DailyInterest(Opening[a]) > 0
  BY DEF Eligible
<1>6. Balance(a) # 0
  BY <1>3, <1>4, <1>5
<1> QED
  BY <1>2, <1>3, <1>4, <1>5, <1>6

LEMMA NextNobodyForgotten ==
    ASSUME TypedInv, NeverDebited, NobodyForgotten, [Next]_vars
    PROVE  NeverDebited' /\ NobodyForgotten'
<1> USE DEF TypedInv, IInv
<1>1. NeverDebited'
  <2>1. UNCHANGED debit
    BY DEF Next, Step, Call, ReadBalances, AccrueOne, AccrualDone, ReadUnposted, WriteOne,
       CommitPosting, Fault, vars, store
  <2> QED
    BY <2>1 DEF NeverDebited
<1>2. \A x \in Rows : Exists(x) => Exists(x)'
  <2>1. ASSUME NEW w \in Workers, NEW a \in Accounts, AccrueOne(w, a)
        PROVE  \A x \in Rows : Exists(x) => Exists(x)'
    <3> DEFINE y == <<call[w].day, a>>
               amount == DailyInterest(balance[w][a])
    <3>1. UNCHANGED accrued \/ (amount # 0 /\ accrued' = [accrued EXCEPT ![y] = amount])
      BY <2>1 DEF AccrueOne, store
    <3> HIDE DEF y, amount
    <3> QED
      BY <3>1 DEF TypeOK, Exists
  <2>2. ASSUME UNCHANGED accrued PROVE \A x \in Rows : Exists(x) => Exists(x)'
    BY <2>2 DEF Exists
  <2> QED
    BY <2>1, <2>2 DEF Next, Step, Call, ReadBalances, AccrualDone, ReadUnposted, WriteOne,
       CommitPosting, Fault, vars, store
<1>3. \A w \in Workers, a \in Accounts : <<call[w].day, a>> \in Rows
  BY InterestAssumption DEF TypeOK, CallType, Rows
<1>4. ASSUME NEW w \in Workers,
             at'[w] = at[w], call'[w] = call[w], todo'[w] = todo[w], balance'[w] = balance[w]
      PROVE  Remembered(w)'
  <2> SUFFICES ASSUME at'[w] = "accruing", call'[w].day \in RatedDays,
                      NEW a \in Accounts, Eligible(a)
               PROVE  Served(w, a)'
    BY DEF Remembered, Eligible, DailyInterest
  <2>1. Served(w, a)
    BY <1>4 DEF NobodyForgotten, Remembered
  <2>2. accrued[<<call[w].day, a>>] # 0 => accrued'[<<call[w].day, a>>] # 0
    BY <1>2, <1>3 DEF Exists
  <2> QED
    BY <1>4, <2>1, <2>2 DEF Served, Exists, DailyInterest
<1>5. ASSUME NEW w \in Workers, at'[w] # "accruing",
             \A v \in Workers \ {w} : at'[v] = at[v] /\ call'[v] = call[v]
                                      /\ todo'[v] = todo[v] /\ balance'[v] = balance[v]
      PROVE  \A v \in Workers : Remembered(v)'
  BY <1>4, <1>5 DEF Remembered
<1>6. ASSUME NEW w \in Workers, NEW code, Answer(w, code)
      PROVE  \A v \in Workers : Remembered(v)'
  <2>1. /\ at'[w] # "accruing"
        /\ \A v \in Workers \ {w} : at'[v] = at[v] /\ call'[v] = call[v]
                                    /\ todo'[v] = todo[v] /\ balance'[v] = balance[v]
    BY <1>6 DEF Answer, TypeOK
  <2> QED
    BY <1>5, <2>1
<1>7. ASSUME NEW w \in Workers, NEW c \in Calls, Call(w, c)
      PROVE  \A v \in Workers : Remembered(v)'
  <2>1. c.op # "accruing"
    BY InterestAssumption DEF CallType
  <2>2. /\ at'[w] # "accruing"
        /\ \A v \in Workers \ {w} : at'[v] = at[v] /\ call'[v] = call[v]
                                    /\ todo'[v] = todo[v] /\ balance'[v] = balance[v]
    BY <1>7, <2>1 DEF Call, TypeOK
  <2> QED
    BY <1>5, <2>2
<1>8. ASSUME NEW w \in Workers, ReadUnposted(w) PROVE \A v \in Workers : Remembered(v)'
  <2>1. /\ at'[w] # "accruing"
        /\ \A v \in Workers \ {w} : at'[v] = at[v] /\ call'[v] = call[v]
                                    /\ todo'[v] = todo[v] /\ balance'[v] = balance[v]
    BY <1>8 DEF ReadUnposted, TypeOK
  <2> QED
    BY <1>5, <2>1
<1>9. ASSUME NEW w \in Workers, ReadBalances(w) PROVE \A v \in Workers : Remembered(v)'
  <2>1. /\ todo'[w] = {a \in Accounts : Balance(a) > 0}
        /\ \A a \in Accounts : balance'[w][a] = Balance(a)
        /\ \A v \in Workers \ {w} : at'[v] = at[v] /\ call'[v] = call[v]
                                    /\ todo'[v] = todo[v] /\ balance'[v] = balance[v]
    BY <1>9 DEF ReadBalances, TypeOK
  <2>2. ASSUME NEW a \in Accounts, Eligible(a) PROVE Served(w, a)'
    <3>1. Balance(a) > 0 /\ DailyInterest(Balance(a)) # 0
      BY <2>2, StaysEligible
    <3>2. a \in todo'[w] /\ DailyInterest(balance'[w][a]) # 0
      BY <2>1, <3>1
    <3> QED
      BY <3>2 DEF Served, DailyInterest
  <2>3. Remembered(w)'
    BY <2>2 DEF Remembered, Eligible, DailyInterest
  <2> QED
    BY <1>4, <2>1, <2>3
<1>10. ASSUME NEW w \in Workers, NEW a \in Accounts, AccrueOne(w, a)
       PROVE  \A v \in Workers : Remembered(v)'
  <2>1. CASE Answer(w, 500)
    BY <1>6, <2>1
  <2>2. CASE ~Answer(w, 500)
    <3>1. /\ todo' = [todo EXCEPT ![w] = @ \ {a}]
          /\ UNCHANGED <<at, call, balance>>
          /\ at[w] = "accruing"
      BY <1>10, <2>2 DEF AccrueOne, store
    <3>2. /\ todo'[w] = todo[w] \ {a}
          /\ \A v \in Workers \ {w} : todo'[v] = todo[v]
      BY <3>1 DEF TypeOK
    <3>3. call[w].day \in RatedDays /\ DailyInterest(balance[w][a]) # 0
          => accrued'[<<call[w].day, a>>] # 0
      <4> SUFFICES ASSUME call[w].day \in RatedDays, DailyInterest(balance[w][a]) # 0
                   PROVE  accrued'[<<call[w].day, a>>] # 0
        OBVIOUS
      <4>1. accrued' = [accrued EXCEPT ![<<call[w].day, a>>] = DailyInterest(balance[w][a])]
        BY <1>10, <2>2 DEF AccrueOne
      <4>2. <<call[w].day, a>> \in DOMAIN accrued
        BY <1>3 DEF TypeOK
      <4> HIDE DEF TypedInv, IInv
      <4> QED
        BY <4>1, <4>2
    <3>4. ASSUME NEW b \in Accounts, Eligible(b), call[w].day \in RatedDays
          PROVE  Served(w, b)'
      <4>1. Served(w, b)
        BY <3>1, <3>4 DEF NobodyForgotten, Remembered
      <4>2. accrued[<<call[w].day, b>>] # 0 => accrued'[<<call[w].day, b>>] # 0
        BY <1>2, <1>3 DEF Exists
      <4>3. CASE b = a
        BY <3>1, <3>3, <3>4, <4>1, <4>2, <4>3 DEF Served, Exists
      <4>4. CASE b # a
        BY <3>1, <3>2, <4>1, <4>2, <4>4 DEF Served, Exists, DailyInterest
      <4> QED
        BY <4>3, <4>4
    <3>5. Remembered(w)'
      BY <3>1, <3>4 DEF Remembered, Eligible, DailyInterest
    <3> QED
      BY <1>4, <3>1, <3>2, <3>5
  <2> QED
    BY <2>1, <2>2
<1>11. ASSUME NEW w \in Workers, AccrualDone(w) \/ CommitPosting(w) \/ Fault(w)
       PROVE  \A v \in Workers : Remembered(v)'
  BY <1>6, <1>11 DEF AccrualDone, CommitPosting, Fault
<1>12. ASSUME UNCHANGED <<at, call, todo, balance>> PROVE \A v \in Workers : Remembered(v)'
  BY <1>4, <1>12
<1>13. ASSUME NEW w \in Workers, \E x \in Rows : WriteOne(w, x)
       PROVE  \A v \in Workers : Remembered(v)'
  <2>1. UNCHANGED <<at, call, todo, balance>>
    BY <1>13 DEF WriteOne
  <2> QED
    BY <1>12, <2>1
<1>14. ASSUME UNCHANGED vars PROVE \A v \in Workers : Remembered(v)'
  BY <1>12, <1>14 DEF vars
<1>15. \A v \in Workers : Remembered(v)'
  <2> HIDE DEF TypedInv, IInv
  <2> QED
    BY <1>7, <1>8, <1>9, <1>10, <1>11, <1>13, <1>14 DEF Next, Step
<1> QED
  BY <1>1, <1>15 DEF NobodyForgotten

\* An accrual that reports success leaves no eligible account out, for every rate and every
\* number of accounts and workers: balances only grow, interest with them, and an accrual
\* that is there stays.
THEOREM ReportedAccrualsLeaveNobodyOut == Spec => ReportedAccrualsComplete
<1> DEFINE Inv == TypedInv /\ NeverDebited /\ NobodyForgotten
           A == \A w \in Workers :
                  /\ at[w] = "accruing" /\ call[w].day \in RatedDays
                  /\ at'[w] = "idle" /\ told'[w] = 200
                  => \A a \in Accounts : Eligible(a) => Exists(<<call[w].day, a>>)
<1>1. Init => Inv
  <2>1. Init => NeverDebited
    BY DEF Init, NeverDebited, Ledgers
  <2>2. Init => NobodyForgotten
    BY DEF Init, NobodyForgotten, Remembered
  <2> QED
    BY <2>1, <2>2, InitTyped
<1>2. Inv /\ [Next]_vars => Inv'
  BY NextTyped, NextNobodyForgotten
<1>3. Inv /\ [Next]_vars => [A]_vars
  <2> SUFFICES ASSUME Inv, Next, NEW w \in Workers,
                      at[w] = "accruing", call[w].day \in RatedDays, at'[w] = "idle", told'[w] = 200,
                      NEW a \in Accounts, Eligible(a)
               PROVE  Exists(<<call[w].day, a>>)
    OBVIOUS
  <2> USE DEF TypedInv, IInv
  <2>1. ASSUME NEW v \in Workers, NEW code, Answer(v, code) PROVE v = w /\ code = 200
    BY <2>1 DEF Answer, TypeOK
  <2>2. ASSUME UNCHANGED at PROVE FALSE
    BY <2>2
  <2>3. ASSUME NEW v \in Workers, NEW c \in Calls, Call(v, c) PROVE FALSE
    BY <2>3, InterestAssumption DEF Call, CallType, TypeOK
  <2>4. ASSUME NEW v \in Workers, ReadBalances(v) \/ ReadUnposted(v) \/ Fault(v) PROVE FALSE
    BY <2>1, <2>4 DEF ReadBalances, ReadUnposted, Fault, TypeOK
  <2>5. ASSUME NEW v \in Workers, \E x \in Rows : WriteOne(v, x) PROVE FALSE
    BY <2>2, <2>5 DEF WriteOne
  <2>6. ASSUME NEW v \in Workers, NEW b \in Accounts, AccrueOne(v, b) PROVE FALSE
    <3>1. UNCHANGED at \/ Answer(v, 500)
      BY <2>6 DEF AccrueOne
    <3> QED
      BY <2>1, <2>2, <3>1
  <2>7. ASSUME NEW v \in Workers, CommitPosting(v) PROVE FALSE
    <3>1. v = w
      BY <2>1, <2>7 DEF CommitPosting
    <3> QED
      BY <2>7, <3>1 DEF CommitPosting
  <2>8. PICK v \in Workers : AccrualDone(v)
    BY <2>3, <2>4, <2>5, <2>6, <2>7 DEF Next, Step
  <2>9. todo[w] = {}
    BY <2>1, <2>8 DEF AccrualDone
  <2> QED
    BY <2>9 DEF NobodyForgotten, Remembered, Served
<1> QED
  BY <1>1, <1>2, <1>3, PTL DEF Spec, ReportedAccrualsComplete
----------------------------------------------------------------------------
\* No deadlock of postings.

\* A posting waits for another that has updated the row it writes next.
WaitsFor(w, v) ==
    /\ w # v
    /\ at[w] = "posting"
    /\ \E x \in list[w] \cap written[v] : \A y \in list[w] \ {x} : Before(x, y)

\* No postings wait in a circle, whichever days they post through: of any set of them
\* somebody waits for nobody in it (service.go:234 reads the accruals in order).
NoCircularWait == \A S \in SUBSET Workers : S # {} => \E w \in S : \A v \in S : ~WaitsFor(w, v)

\* The inductive invariant: what a posting has written comes before what it has still to write.
WritesInOrder(w) == \A x \in written[w], y \in list[w] : Before(x, y)

\* Before is an order: of finitely many rows one comes before no other.
LEMMA LastRow ==
    ASSUME NEW R \in SUBSET Rows, R # {}
    PROVE  \E x \in R : \A y \in R : ~Before(x, y)
<1> DEFINE days == {d \in Days : \E x \in R : x[1] = d}
<1>1. \A x \in R : x = <<x[1], x[2]>> /\ x[1] \in Days /\ x[2] \in Accounts
  BY DEF Rows
<1>2. days \in SUBSET Nat /\ IsFiniteSet(days) /\ days # {}
  BY <1>1, InterestAssumption, FS_Subset
<1>3. PICK d \in days : \A c \in days : c <= d
  <2> HIDE DEF days
  <2> QED
    BY <1>2, FiniteHasLargest
<1> DEFINE owners == {a \in Accounts : \E x \in R : x[1] = d /\ x[2] = a}
<1>4. owners \in SUBSET Nat /\ IsFiniteSet(owners) /\ owners # {}
  BY <1>1, InterestAssumption, FS_Subset
<1>5. PICK a \in owners : \A b \in owners : b <= a
  <2> HIDE DEF owners
  <2> QED
    BY <1>4, FiniteHasLargest
<1>6. PICK x \in R : x[1] = d /\ x[2] = a
  OBVIOUS
<1>7. ASSUME NEW y \in R PROVE ~Before(x, y)
  <2>1. y[1] \in Nat /\ y[2] \in Nat /\ d \in Nat /\ a \in Nat
    BY <1>1, <1>2, <1>4, InterestAssumption
  <2>2. y[1] <= d
    BY <1>1, <1>3
  <2>3. y[1] = d => y[2] <= a
    BY <1>1, <1>5
  <2> QED
    BY <1>6, <2>1, <2>2, <2>3 DEF Before
<1> QED
  BY <1>7

LEMMA NextWritesInOrder ==
    ASSUME TypeOK, PostingsOK, \A w \in Workers : WritesInOrder(w), [Next]_vars
    PROVE  \A w \in Workers : WritesInOrder(w)'
<1>1. ASSUME NEW w \in Workers, NEW code, Answer(w, code) PROVE \A v \in Workers : WritesInOrder(v)'
  <2>1. \A v \in Workers : written'[v] # {} => written'[v] = written[v] /\ list'[v] = list[v]
    BY <1>1 DEF Answer, TypeOK
  <2> QED
    BY <2>1 DEF WritesInOrder, Before
<1>2. ASSUME UNCHANGED <<list, written>> PROVE \A v \in Workers : WritesInOrder(v)'
  BY <1>2 DEF WritesInOrder, Before
<1>3. ASSUME NEW w \in Workers, ReadUnposted(w) PROVE \A v \in Workers : WritesInOrder(v)'
  <2>1. /\ written' = written /\ written[w] = {}
        /\ \A v \in Workers \ {w} : list'[v] = list[v]
    BY <1>3 DEF ReadUnposted, PostingsOK, TypeOK
  <2> QED
    BY <2>1 DEF WritesInOrder, Before
<1>4. ASSUME NEW w \in Workers, NEW x \in Rows, WriteOne(w, x)
      PROVE  \A v \in Workers : WritesInOrder(v)'
  <2>1. /\ written'[w] = written[w] \cup {x} /\ list'[w] = list[w] \ {x}
        /\ \A y \in list[w] \ {x} : Before(x, y)
        /\ \A v \in Workers \ {w} : written'[v] = written[v] /\ list'[v] = list[v]
    BY <1>4 DEF WriteOne, TypeOK
  <2> QED
    BY <2>1 DEF WritesInOrder, Before
<1>5. ASSUME NEW w \in Workers, Step(w) \/ Fault(w) \/ \E c \in Calls : Call(w, c)
      PROVE  \A v \in Workers : WritesInOrder(v)'
  <2>1. CASE AccrualDone(w) \/ CommitPosting(w) \/ Fault(w)
    BY <1>1, <2>1 DEF AccrualDone, CommitPosting, Fault
  <2>2. CASE \E a \in Accounts : AccrueOne(w, a)
    BY <1>1, <1>2, <2>2 DEF AccrueOne
  <2>3. CASE ReadBalances(w) \/ \E c \in Calls : Call(w, c)
    BY <1>2, <2>3 DEF ReadBalances, Call
  <2> QED
    BY <1>3, <1>4, <1>5, <2>1, <2>2, <2>3 DEF Step
<1>6. CASE UNCHANGED vars
  BY <1>2, <1>6 DEF vars
<1> QED
  BY <1>5, <1>6 DEF Next

\* Whoever waits for one that waits, waits for the earlier row; so nobody could wait for the
\* last row that postings in a circle wait for.
THEOREM PostingsDoNotDeadlock == Spec => []NoCircularWait
<1> DEFINE Inv == TypedInv /\ \A w \in Workers : WritesInOrder(w)
<1>1. Init => Inv
  BY InitTyped DEF Init, WritesInOrder
<1>2. Inv /\ [Next]_vars => Inv'
  BY NextTyped, NextWritesInOrder DEF TypedInv, IInv
<1>3. Inv => NoCircularWait
  <2> SUFFICES ASSUME Inv, NEW S \in SUBSET Workers, S # {},
                      \A w \in S : \E v \in S : WaitsFor(w, v)
               PROVE  FALSE
    BY DEF NoCircularWait
  <2> DEFINE Next1(w, x) == x \in list[w] /\ \A y \in list[w] \ {x} : Before(x, y)
             Awaited == {x \in Rows : \E w, v \in S : x \in written[v] /\ Next1(w, x)}
  <2>1. ASSUME NEW w \in S PROVE \E x \in Awaited : Next1(w, x)
    <3>1. PICK v \in S : WaitsFor(w, v)
      OBVIOUS
    <3>2. PICK x \in list[w] \cap written[v] : \A y \in list[w] \ {x} : Before(x, y)
      BY <3>1 DEF WaitsFor
    <3>3. x \in Rows
      BY <3>2 DEF TypedInv, IInv, TypeOK
    <3> QED
      BY <3>2, <3>3
  <2>2. Awaited \in SUBSET Rows /\ Awaited # {}
    BY <2>1
  <2>3. PICK x \in Awaited : \A y \in Awaited : ~Before(x, y)
    <3> HIDE DEF Awaited
    <3> QED
      BY <2>2, LastRow
  <2>4. PICK v \in S : x \in written[v]
    OBVIOUS
  <2>5. PICK y \in Awaited : Next1(v, y)
    BY <2>1
  <2>6. Before(x, y)
    BY <2>4, <2>5 DEF WritesInOrder
  <2> QED
    BY <2>3, <2>5, <2>6
<1> QED
  BY <1>1, <1>2, <1>3, PTL DEF Spec
=============================================================================
