----------------------- MODULE TransactionEngineProofs -----------------------
(***************************************************************************)
(* TransactionEngine for any number of goroutines, accounts, keys and      *)
(* requests, with statements that fail and goroutines that die: types, how *)
(* far an account can be overdrawn, that the engine implements Bank, that  *)
(* the ledger adds up, and that nobody waits in a circle.                  *)
(***************************************************************************)
EXTENDS TransactionEngine, SumTheorems

USE DEF Ledgers, ledger, local

\* What the offers' assumption says of one request: its parties are ledger accounts,
\* its customers are accounts, and at most one side is the cash account once valid.
LEMMA OfferShape ==
    ASSUME NEW q \in Offers
    PROVE  /\ q.key \in Keys
           /\ q.kind \in Kinds
           /\ q.from \in Ledgers /\ q.to \in Ledgers
           /\ q.amount \in Int
           /\ Customers(q) \subseteq Accounts
           /\ q.kind = "deposit" <=> q.from = GLCash
           /\ q.kind = "withdrawal" <=> q.to = GLCash
<1>1. q \in Request
  BY OffersAssumption
<1>2. QED
  BY <1>1, OffersAssumption DEF Request, Customers

\* The initial state is well typed.
LEMMA InitTypeOK == Init => TypeOK
<1> SUFFICES ASSUME Init PROVE TypeOK
  OBVIOUS
<1>1. (CHOOSE q \in Offers : TRUE) \in Offers
  BY OffersAssumption
<1>2. QED
  BY <1>1, StoreAssumption DEF Init, TypeOK, Statuses

\* The rows a transaction writes are well typed.
LEMMA RowShape ==
    ASSUME NEW q \in Offers, NEW bal \in [Accounts -> Int]
    PROVE  Row(q, bal) \in RowType
<1>1. q.kind \in Kinds /\ q.from \in Ledgers /\ q.to \in Ledgers /\ q.amount \in Int
  BY OfferShape
<1>2. q.from # GLCash => bal[q.from] - q.amount \in Int
  BY <1>1
<1>3. q.to # GLCash => bal[q.to] + q.amount \in Int
  BY <1>1
<1>4. Leg(q.from, q.amount, IF q.from = GLCash THEN 0 ELSE bal[q.from] - q.amount) \in LegType
  BY <1>1, <1>2 DEF Leg, LegType
<1>5. Leg(q.to, q.amount, IF q.to = GLCash THEN 0 ELSE bal[q.to] + q.amount) \in LegType
  BY <1>1, <1>3 DEF Leg, LegType
<1>6. QED
  BY <1>1, <1>4, <1>5 DEF Row, RowType

\* A balance is an integer.
LEMMA BalanceInt ==
    ASSUME TypeOK, NEW a \in Ledgers
    PROVE  Balance(a) \in Int
BY DEF TypeOK, Balance

\* The history is one of balances.
LEMMA RememberType ==
    ASSUME TypeOK, Remember, credit' \in [Ledgers -> Int], debit' \in [Ledgers -> Int]
    PROVE  past' \in [Accounts -> SUBSET Int]
<1>1. \A a \in Accounts : Balance(a)' \in Int
  BY DEF Balance
<1> QED
  BY <1>1 DEF Remember, TypeOK

\* Every return of a handler keeps the types.
LEMMA AnswerTypeOK ==
    ASSUME TypeOK, NEW r \in Slots, NEW code \in {201, 400, 409, 422, 500}, Answer(r, code)
    PROVE  TypeOK'
BY DEF TypeOK, Answer, Goto

\* Every step keeps the types.
LEMMA NextTypeOK == TypeOK /\ [Next]_vars => TypeOK'
<1> SUFFICES ASSUME TypeOK, [Next]_vars PROVE TypeOK'
  OBVIOUS
<1>1. ASSUME NEW r \in Slots, Submit(r) PROVE TypeOK'
  BY <1>1 DEF Submit, Goto, TypeOK
<1>2. ASSUME NEW r \in Slots, Validate(r) PROVE TypeOK'
  <2>1. CASE Answer(r, 400)
    BY <2>1, AnswerTypeOK
  <2>2. CASE Goto(r, "check") /\ UNCHANGED <<ledger, status, req, local, reply>>
    BY <2>2 DEF Goto, TypeOK
  <2>3. QED
    BY <1>2, <2>1, <2>2 DEF Validate
<1>3. ASSUME NEW r \in Slots, CheckKey(r) PROVE TypeOK'
  BY <1>3 DEF CheckKey, Goto, TypeOK
<1>4. ASSUME NEW r \in Slots, NEW a \in Accounts, VerifyAccount(r, a) PROVE TypeOK'
  <2>1. CASE \E code \in {409, 500} : Answer(r, code)
    BY <2>1, AnswerTypeOK
  <2>2. CASE status[a] = "ACTIVE"
    <3>1. /\ verified' = [verified EXCEPT ![r] = @ \cup {a}]
          /\ \E l \in {"balance", "verify"} : pc' = [pc EXCEPT ![r] = l]
          /\ UNCHANGED <<ledger, status, req, queried, held, seen, reply>>
      BY <1>4, <2>2 DEF VerifyAccount, Goto
    <3>2. QED
      BY <3>1 DEF TypeOK
  <2>3. QED
    BY <1>4, <2>1, <2>2 DEF VerifyAccount
<1>5. ASSUME NEW r \in Slots, NEW a \in Accounts, TakeSnapshot(r, a) PROVE TypeOK'
  <2>1. seen' \in [Slots -> [Accounts -> Int]]
    <3>1. Balance(a) \in Int
      BY BalanceInt
    <3>2. seen' = [seen EXCEPT ![r][a] = Balance(a)] /\ seen \in [Slots -> [Accounts -> Int]]
      BY <1>5 DEF TakeSnapshot, TypeOK
    <3>3. QED
      BY <3>1, <3>2
  <2>2. queried' \in [Slots -> SUBSET Accounts]
    <3>1. queried' = queried \/ queried' = [queried EXCEPT ![r] = queried[r] \cup {a}]
      BY <1>5 DEF TakeSnapshot
    <3>2. queried \in [Slots -> SUBSET Accounts]
      BY DEF TypeOK
    <3>3. queried[r] \cup {a} \in SUBSET Accounts
      BY <3>2
    <3>4. QED
      BY <3>1, <3>2, <3>3
  <2>3. pc' \in [Slots -> {"idle", "validate", "check", "verify", "balance", "wait", "commit", "respond"}]
    <3>1. pc' = pc \/ pc' = [pc EXCEPT ![r] = "wait"]
      BY <1>5 DEF TakeSnapshot, Goto
    <3>2. pc \in [Slots -> {"idle", "validate", "check", "verify", "balance", "wait", "commit", "respond"}]
      BY DEF TypeOK
    <3>3. QED
      BY <3>1, <3>2
  <2>4. QED
    BY <1>5, <2>1, <2>2, <2>3 DEF TakeSnapshot, TypeOK
<1>6. ASSUME NEW r \in Slots, NEW a \in Accounts, LockRows(r, a) PROVE TypeOK'
  BY <1>6 DEF LockRows, Goto, TypeOK
<1>7. ASSUME NEW r \in Slots, InsufficientFunds(r) PROVE TypeOK'
  BY <1>7, AnswerTypeOK DEF InsufficientFunds
<1>8. ASSUME NEW r \in Slots, Post(r) PROVE TypeOK'
  BY <1>8 DEF Post, Goto, TypeOK
<1>9. ASSUME NEW r \in Slots, DuplicateKey(r) PROVE TypeOK'
  BY <1>9, AnswerTypeOK DEF DuplicateKey
<1>10. ASSUME NEW r \in Slots, Commit(r) PROVE TypeOK'
  <2>1. req[r] \in Offers /\ seen[r] \in [Accounts -> Int]
    BY DEF TypeOK
  <2>2. Row(req[r], seen[r]) \in RowType
    BY <2>1, RowShape
  <2>3. req[r].key \in Keys /\ req[r].from \in Ledgers /\ req[r].to \in Ledgers /\ req[r].amount \in Int
    BY <2>1, OfferShape
  <2>4. txns' \in [Keys -> RowType \cup {NoTxn}]
    BY <1>10, <2>2 DEF Commit, TypeOK
  <2>5. credit' \in [Ledgers -> Int] /\ debit' \in [Ledgers -> Int] /\ outbox' \in SUBSET Keys
    BY <1>10, <2>3 DEF Commit, TypeOK
  <2>6. past' \in [Accounts -> SUBSET Int]
    BY <1>10, <2>5, RememberType DEF Commit, TypeOK
  <2>7. QED
    BY <1>10, <2>4, <2>5, <2>6 DEF Commit, Goto, TypeOK
<1>11. ASSUME NEW r \in Slots, Respond(r) PROVE TypeOK'
  BY <1>11, AnswerTypeOK DEF Respond
<1>12. ASSUME NEW r \in Slots, Fault(r) PROVE TypeOK'
  BY <1>12, AnswerTypeOK DEF Fault
<1>13. ASSUME NEW a \in Accounts, NEW s \in Statuses, SetStatus(a, s) PROVE TypeOK'
  BY <1>13 DEF SetStatus, TypeOK
<1>14. CASE UNCHANGED vars
  BY <1>14 DEF vars, TypeOK
<1>15. QED
  BY <1>1, <1>2, <1>3, <1>4, <1>5, <1>6, <1>7, <1>8, <1>9, <1>10, <1>11, <1>12,
     <1>13, <1>14 DEF Next, Handle, Work

\* Type correctness of the engine, for every schedule.
THEOREM TypeCorrect == Spec => []TypeOK
<1>1. QED
  BY InitTypeOK, NextTypeOK, PTL DEF Spec

----------------------------------------------------------------------------
\* How far an account can be overdrawn

\* A handler keeps what it has read or gives all of it up, unless it queries a balance.
LEMMA ReadsAreKept ==
    ASSUME TypeOK, ControlOK, [Next]_vars, \A r \in Slots, a \in Accounts : ~TakeSnapshot(r, a)
    PROVE  \A r \in Slots : \/ seen'[r] = seen[r] /\ req'[r] = req[r]
                            \/ seen'[r] = [a \in Accounts |-> 0]
<1> DEFINE Kept == \A r \in Slots : \/ seen'[r] = seen[r] /\ req'[r] = req[r]
                                    \/ seen'[r] = [a \in Accounts |-> 0]
<1>1. ASSUME NEW r \in Slots, NEW code \in {201, 400, 409, 422, 500}, Answer(r, code) PROVE Kept
  BY <1>1 DEF Answer, TypeOK
<1>2. ASSUME NEW r \in Slots, Submit(r) PROVE Kept
  BY <1>2 DEF Submit, TypeOK, ControlOK
<1>3. ASSUME NEW r \in Slots, CheckKey(r) \/ Post(r) PROVE Kept
  BY <1>3 DEF CheckKey, Post
<1>4. ASSUME NEW r \in Slots, Validate(r) PROVE Kept
  BY <1>1, <1>4 DEF Validate
<1>5. ASSUME NEW r \in Slots, NEW a \in Accounts, VerifyAccount(r, a) \/ LockRows(r, a) PROVE Kept
  BY <1>1, <1>5 DEF VerifyAccount, LockRows
<1>6. ASSUME NEW r \in Slots, Commit(r) PROVE Kept
  BY <1>6 DEF Commit, TypeOK
<1>7. ASSUME NEW r \in Slots, InsufficientFunds(r) \/ DuplicateKey(r) \/ Respond(r) \/ Fault(r)
      PROVE  Kept
  BY <1>1, <1>7 DEF InsufficientFunds, DuplicateKey, Respond, Fault
<1>8. ASSUME NEW a \in Accounts, NEW s \in Statuses, SetStatus(a, s) PROVE Kept
  BY <1>8 DEF SetStatus
<1>9. CASE UNCHANGED vars
  BY <1>9 DEF vars
<1> QED
  BY <1>2, <1>3, <1>4, <1>5, <1>6, <1>7, <1>8, <1>9 DEF Next, Handle, Work

\* Validation comes first, the reads of a handler stay within its transaction, and only who
\* has the funds by its reads gets to its commit.
LEMMA NextControl ==
    ASSUME TypeOK, ControlOK, [Next]_vars
    PROVE  ControlOK'
<1> DEFINE OK(r) == /\ pc[r] \notin {"idle", "validate"} => Valid(req[r])
                    /\ pc[r] \in {"idle", "validate", "check", "verify", "respond"} =>
                          seen[r] = [a \in Accounts |-> 0]
                    /\ pc[r] = "commit" => Covered(r)
<1>0. ASSUME NEW r \in Slots, \A s \in Slots \ {r} : UNCHANGED <<pc[s], req[s], seen[s]>>, OK(r)'
      PROVE  ControlOK'
  <2>1. ASSUME NEW s \in Slots \ {r} PROVE OK(s)'
    BY <1>0, <2>1 DEF ControlOK, Valid, Covered
  <2> QED
    BY <1>0, <2>1 DEF ControlOK
<1>1. ASSUME NEW r \in Slots, NEW code \in {201, 400, 409, 422, 500}, Answer(r, code)
      PROVE  ControlOK'
  <2>1. /\ \A s \in Slots \ {r} : UNCHANGED <<pc[s], req[s], seen[s]>>
        /\ pc'[r] = "idle" /\ seen'[r] = [a \in Accounts |-> 0]
    BY <1>1 DEF Answer, Goto, TypeOK
  <2> QED
    BY <1>0, <2>1
<1>2. ASSUME NEW r \in Slots, Submit(r) PROVE ControlOK'
  <2>1. /\ \A s \in Slots \ {r} : UNCHANGED <<pc[s], req[s], seen[s]>>
        /\ pc'[r] = "validate" /\ seen'[r] = [a \in Accounts |-> 0]
    BY <1>2 DEF Submit, Goto, TypeOK, ControlOK
  <2> QED
    BY <1>0, <2>1
<1>3. ASSUME NEW r \in Slots, Validate(r) PROVE ControlOK'
  <2>1. CASE Answer(r, 400)
    BY <1>1, <2>1
  <2>2. CASE Valid(req[r]) /\ Goto(r, "check") /\ UNCHANGED <<req, seen>>
    <3>1. /\ \A s \in Slots \ {r} : UNCHANGED <<pc[s], req[s], seen[s]>>
          /\ pc'[r] = "check" /\ seen'[r] = [a \in Accounts |-> 0] /\ Valid(req[r])'
      BY <1>3, <2>2 DEF Validate, Goto, TypeOK, ControlOK, Valid
    <3> QED
      BY <1>0, <3>1
  <2> QED
    BY <1>3, <2>1, <2>2 DEF Validate
<1>4. ASSUME NEW r \in Slots, CheckKey(r) PROVE ControlOK'
  <2>1. /\ \A s \in Slots \ {r} : UNCHANGED <<pc[s], req[s], seen[s]>>
        /\ pc'[r] \in {"verify", "respond"} /\ seen'[r] = [a \in Accounts |-> 0]
        /\ Valid(req[r])'
    BY <1>4 DEF CheckKey, Goto, TypeOK, ControlOK, Valid
  <2> QED
    BY <1>0, <2>1
<1>5. ASSUME NEW r \in Slots, NEW a \in Accounts, VerifyAccount(r, a) PROVE ControlOK'
  <2>1. CASE status[a] = "ACTIVE"
    <3>1. /\ pc[r] = "verify" /\ req' = req /\ seen' = seen
          /\ \E l \in {"verify", "balance"} : pc' = [pc EXCEPT ![r] = l]
      BY <1>5, <2>1 DEF VerifyAccount, Goto
    <3>2. Valid(req[r]) /\ seen[r] = [b \in Accounts |-> 0]
      BY <3>1 DEF ControlOK
    <3>3. /\ \A s \in Slots \ {r} : UNCHANGED <<pc[s], req[s], seen[s]>>
          /\ pc'[r] \in {"verify", "balance"} /\ seen'[r] = [b \in Accounts |-> 0]
          /\ Valid(req[r])'
      BY <3>1, <3>2 DEF TypeOK, Valid
    <3> QED
      BY <1>0, <3>3
  <2>2. CASE \E code \in {409, 500} : Answer(r, code)
    BY <1>1, <2>2
  <2> QED
    BY <1>5, <2>1, <2>2 DEF VerifyAccount
<1>6. ASSUME NEW r \in Slots, NEW a \in Accounts, TakeSnapshot(r, a) \/ LockRows(r, a)
      PROVE  ControlOK'
  <2>1. pc[r] \in {"balance", "wait"} /\ req' = req
    BY <1>6 DEF TakeSnapshot, LockRows
  <2>2. Valid(req[r])'
    BY <2>1 DEF ControlOK, Valid
  <2>3. /\ \A s \in Slots \ {r} : pc'[s] = pc[s]
        /\ pc'[r] \in {"balance", "wait"}
    BY <1>6 DEF TakeSnapshot, LockRows, Goto, TypeOK
  <2>4. \A s \in Slots \ {r} : seen'[s] = seen[s]
    <3>1. seen' = seen \/ seen' = [seen EXCEPT ![r][a] = Balance(a)]
      BY <1>6 DEF TakeSnapshot, LockRows
    <3> QED
      BY <3>1 DEF TypeOK
  <2> QED
    BY <1>0, <2>1, <2>2, <2>3, <2>4
<1>7. ASSUME NEW r \in Slots, Post(r) PROVE ControlOK'
  <2>1. /\ \A s \in Slots \ {r} : UNCHANGED <<pc[s], req[s], seen[s]>>
        /\ pc'[r] = "commit" /\ Valid(req[r])' /\ Covered(r)'
    BY <1>7 DEF Post, Goto, TypeOK, ControlOK, Valid, Covered
  <2> QED
    BY <1>0, <2>1
<1>8. ASSUME NEW r \in Slots, Commit(r) PROVE ControlOK'
  <2>1. /\ \A s \in Slots \ {r} : UNCHANGED <<pc[s], req[s], seen[s]>>
        /\ pc'[r] = "respond" /\ Valid(req[r])' /\ seen'[r] = [a \in Accounts |-> 0]
    BY <1>8 DEF Commit, Goto, TypeOK, ControlOK, Valid
  <2> QED
    BY <1>0, <2>1
<1>9. ASSUME NEW r \in Slots, InsufficientFunds(r) \/ DuplicateKey(r) \/ Respond(r) \/ Fault(r)
      PROVE  ControlOK'
  BY <1>1, <1>9 DEF InsufficientFunds, DuplicateKey, Respond, Fault
<1>10. ASSUME UNCHANGED <<pc, req, seen>> PROVE ControlOK'
  BY <1>10 DEF ControlOK, Valid, Covered
<1> QED
  BY <1>2, <1>3, <1>4, <1>5, <1>6, <1>7, <1>8, <1>9, <1>10 DEF Next, Handle, Work, SetStatus, vars

\* What a commit does to the balances of the customers.
LEMMA CommitBalances ==
    ASSUME TypeOK, NEW r \in Slots, Commit(r), Valid(req[r]), NEW a \in Accounts
    PROVE  Balance(a)' = IF a = req[r].from THEN Balance(a) - req[r].amount
                         ELSE IF a = req[r].to THEN Balance(a) + req[r].amount
                         ELSE Balance(a)
<1>1. req[r] \in Offers
  BY DEF TypeOK
<1>2. req[r].from \in Ledgers /\ req[r].to \in Ledgers /\ req[r].amount \in Int
  BY <1>1, OfferShape
<1>3. req[r].from # req[r].to
  BY DEF Valid
<1>4. a \in Ledgers /\ credit[a] \in Int /\ debit[a] \in Int
  BY DEF TypeOK
<1>5. credit'[a] = (IF a = req[r].to THEN credit[a] + req[r].amount ELSE credit[a])
  BY <1>2, <1>4 DEF Commit, TypeOK
<1>6. debit'[a] = (IF a = req[r].from THEN debit[a] + req[r].amount ELSE debit[a])
  BY <1>2, <1>4 DEF Commit, TypeOK
<1>7. QED
  BY <1>2, <1>3, <1>4, <1>5, <1>6 DEF Balance

\* Sums of debits that are asked for.
LEMMA Spending ==
    ASSUME NEW q \in [Slots -> Offers], NEW C \in SUBSET Slots, \A r \in C : q[r].amount > 0
    PROVE  LET f == [r \in C |-> q[r].amount] IN
           /\ IsFiniteSet(C) /\ \A r \in C : f[r] \in Nat /\ f[r] <= MaxAmount
           /\ SumFunctionOnSet(f, C) \in Nat
<1> DEFINE f == [r \in C |-> q[r].amount]
<1>1. \A r \in C : f[r] \in Nat /\ f[r] <= MaxAmount
  BY OfferShape, OffersAssumption
<1>2. IsFiniteSet(C)
  BY SlotsAssumption, FS_Subset
<1> HIDE DEF f
<1>3. SumFunctionOnSet(f, C) \in Nat
  BY <1>1, <1>2, SumNat
<1> QED
  BY <1>1, <1>2, <1>3 DEF f

\* Without a new claim nobody spends more.
LEMMA FewerSpend ==
    ASSUME NEW q \in [Slots -> Offers], NEW C \in SUBSET Slots, \A r \in C : q[r].amount > 0,
           NEW D \in SUBSET C, NEW p, \A r \in D : p[r] = q[r]
    PROVE  SumFunctionOnSet([r \in D |-> p[r].amount], D)
             <= SumFunctionOnSet([r \in C |-> q[r].amount], C)
<1> DEFINE f == [r \in C |-> q[r].amount]
           g == [r \in D |-> p[r].amount]
<1>1. IsFiniteSet(C) /\ IsFiniteSet(D) /\ \A r \in C : f[r] \in Nat
  BY Spending, FS_Subset
<1>2. \A r \in D : f[r] \in Int /\ g[r] = f[r]
  BY <1>1
<1> HIDE DEF f, g
<1>3. SumFunctionOnSet(g, D) = SumFunctionOnSet(f, D)
  BY <1>1, <1>2, SumSame
<1>4. SumFunctionOnSet(f, D) <= SumFunctionOnSet(f, C)
  BY <1>1, SumOfPart
<1> QED
  BY <1>3, <1>4 DEF f, g

LEMMA OverdraftNat == Overdraft \in Nat
<1>1. PICK r \in Slots : TRUE
  BY SlotsAssumption
<1>2. Cardinality(Slots) - 1 \in Nat
  <2>1. IsFiniteSet(Slots \ {r}) /\ Cardinality(Slots \ {r}) = Cardinality(Slots) - 1
    BY <1>1, SlotsAssumption, FS_RemoveElement
  <2> QED
    BY <2>1, FS_CardinalityType
<1>3. \A m, n \in Nat : m * n \in Nat
  OBVIOUS
<1> QED
  BY <1>2, <1>3, OffersAssumption DEF Overdraft

\* All but one goroutine together spend no more than the bound.
LEMMA OthersSpend ==
    ASSUME NEW q \in [Slots -> Offers], NEW C \in SUBSET Slots, \A r \in C : q[r].amount > 0,
           NEW r \in Slots
    PROVE  /\ SumFunctionOnSet([s \in C |-> q[s].amount], C \ {r}) \in Nat
           /\ SumFunctionOnSet([s \in C |-> q[s].amount], C \ {r}) <= Overdraft
           /\ Overdraft \in Nat
<1> DEFINE Others == Slots \ {r}
           f == [s \in C |-> q[s].amount]
           g == [s \in Others |-> IF s \in C THEN q[s].amount ELSE 0]
<1>1. \A s \in C : f[s] \in Nat /\ f[s] <= MaxAmount
  BY Spending
<1>2. MaxAmount \in Nat
  BY OffersAssumption
<1>3. /\ \A s \in Others : g[s] \in Nat /\ g[s] <= MaxAmount
      /\ \A s \in C \ {r} : g[s] \in Int /\ f[s] = g[s]
  BY <1>1, <1>2
<1>4. /\ IsFiniteSet(Others) /\ Cardinality(Others) = Cardinality(Slots) - 1
      /\ Cardinality(Others) \in Nat
  BY SlotsAssumption, FS_RemoveElement, FS_CardinalityType
<1>5. IsFiniteSet(C \ {r}) /\ C \ {r} \subseteq Others
  BY <1>4, FS_Subset
<1> HIDE DEF Others, f, g
<1>6. SumFunctionOnSet(f, C \ {r}) = SumFunctionOnSet(g, C \ {r})
  BY <1>3, <1>5, SumSame
<1>7. SumFunctionOnSet(g, C \ {r}) <= SumFunctionOnSet(g, Others)
  BY <1>3, <1>4, <1>5, SumOfPart
<1>8. SumFunctionOnSet(g, Others) <= MaxAmount * Cardinality(Others)
  BY <1>2, <1>3, <1>4, SumBounded
<1>9. MaxAmount * Cardinality(Others) = Overdraft /\ MaxAmount * Cardinality(Others) \in Nat
  <2>1. \A m, n \in Nat : m * n = n * m /\ m * n \in Nat
    OBVIOUS
  <2> QED
    BY <1>2, <1>4, <2>1 DEF Overdraft
<1>10. SumFunctionOnSet(f, C \ {r}) \in Nat /\ SumFunctionOnSet(g, Others) \in Nat
  BY <1>1, <1>3, <1>4, <1>5, SumNat
<1>11. SumFunctionOnSet(f, C \ {r}) <= Overdraft
  BY <1>6, <1>7, <1>8, <1>9, <1>10
<1> QED
  BY <1>9, <1>10, <1>11 DEF f

\* Who has claimed an account, and for how much, before a step and after it.
LEMMA ClaimsShape ==
    ASSUME TypeOK, TypeOK', NEW a \in Accounts
    PROVE  /\ req \in [Slots -> Offers] /\ Claims(a) \in SUBSET Slots
           /\ \A r \in Claims(a) : req[r].amount > 0
           /\ Owed(a) = SumFunctionOnSet([r \in Claims(a) |-> req[r].amount], Claims(a))
           /\ Owed(a) \in Nat
           /\ req' \in [Slots -> Offers] /\ Claims(a)' \in SUBSET Slots
           /\ \A r \in Claims(a)' : req'[r].amount > 0
           /\ Owed(a)' = SumFunctionOnSet([r \in Claims(a)' |-> req'[r].amount], Claims(a)')
           /\ Owed(a)' \in Nat
<1>1. /\ req \in [Slots -> Offers] /\ Claims(a) \in SUBSET Slots
      /\ \A r \in Claims(a) : req[r].amount > 0
  BY DEF TypeOK, Claims, Valid
<1>2. /\ req' \in [Slots -> Offers] /\ Claims(a)' \in SUBSET Slots
      /\ \A r \in Claims(a)' : req'[r].amount > 0
  BY DEF TypeOK, Claims, Valid
<1>3. /\ Owed(a) = SumFunctionOnSet([r \in Claims(a) |-> req[r].amount], Claims(a))
      /\ Owed(a)' = SumFunctionOnSet([r \in Claims(a)' |-> req'[r].amount], Claims(a)')
  BY DEF Owed, SumOf
<1>4. Owed(a) \in Nat
  BY <1>1, <1>3, Spending
<1>5. Owed(a)' \in Nat
  BY <1>2, <1>3, Spending
<1> QED
  BY <1>1, <1>2, <1>3, <1>4, <1>5

\* A step without a new claim that takes nothing from the account.
LEMMA ClaimsShrink ==
    ASSUME Spendable, TypeOK', NEW a \in Accounts, Claims(a)' \subseteq Claims(a),
           \A r \in Claims(a)' : req'[r] = req[r], Balance(a)' >= Balance(a)
    PROVE  Balance(a)' - Owed(a)' >= -Overdraft
<1> DEFINE C == Claims(a)
           D == Claims(a)'
           p == req'
<1>1. /\ req \in [Slots -> Offers] /\ C \in SUBSET Slots /\ \A r \in C : req[r].amount > 0
      /\ Owed(a) = SumFunctionOnSet([r \in C |-> req[r].amount], C)
      /\ Owed(a)' = SumFunctionOnSet([r \in D |-> p[r].amount], D)
      /\ Owed(a) \in Nat /\ Owed(a)' \in Nat
  BY ClaimsShape DEF Spendable
<1>2. D \in SUBSET C /\ \A r \in D : p[r] = req[r]
  OBVIOUS
<1>3. Balance(a) \in Int /\ Balance(a)' \in Int
  BY BalanceInt DEF Spendable, TypeOK, Balance
<1>4. Balance(a) - Owed(a) >= -Overdraft /\ Overdraft \in Int
  BY OthersSpend, SlotsAssumption, FS_CardinalityType, OffersAssumption DEF Spendable, Overdraft
<1> HIDE DEF C, D, p
<1>5. Owed(a)' <= Owed(a)
  BY <1>1, <1>2, FewerSpend
<1> QED
  BY <1>1, <1>3, <1>4, <1>5

\* A claim is covered by the balance it was read from, whatever the others spend.
LEMMA ReadIsSpendable ==
    ASSUME Spendable, TypeOK', NEW r \in Slots, NEW b \in Accounts, TakeSnapshot(r, b),
           NEW a \in Accounts
    PROVE  Balance(a)' - Owed(a)' >= -Overdraft
<1>1. /\ req' = req /\ Balance(a)' = Balance(a) /\ Balance(a) \in Int
      /\ \A s \in Slots \ {r} : seen'[s] = seen[s]
      /\ seen'[r] = [seen[r] EXCEPT ![b] = Balance(b)]
  BY BalanceInt DEF Spendable, TypeOK, TakeSnapshot, Balance
<1>2. Balance(a)' >= Balance(a)
  BY <1>1
<1>3. CASE r \notin Claims(a)' \/ a # b
  <2>1. ASSUME NEW s \in Claims(a)' PROVE s \in Claims(a)
    <3>1. s \in Slots /\ Valid(req[s]) /\ req[s].from = a /\ req[s].amount <= seen'[s][a]
      BY <1>1, <2>1 DEF Claims, Valid
    <3>2. s # r \/ a # b
      BY <1>3, <2>1
    <3>3. seen'[s][a] = seen[s][a]
      <4>1. seen[r] \in [Accounts -> Int]
        BY DEF Spendable, TypeOK
      <4> QED
        BY <1>1, <3>1, <3>2, <4>1
    <3> QED
      BY <3>1, <3>3 DEF Claims
  <2>2. /\ Claims(a)' \subseteq Claims(a) /\ \A s \in Claims(a)' : req'[s] = req[s]
        /\ Balance(a)' >= Balance(a)
    BY <1>1, <1>2, <2>1
  <2> QED
    BY <2>2, ClaimsShrink
<1>4. CASE r \in Claims(a)' /\ a = b
  <2> DEFINE D == Claims(a)'
             f == [s \in D |-> req'[s].amount]
  <2>1. /\ req' \in [Slots -> Offers] /\ D \in SUBSET Slots /\ \A s \in D : req'[s].amount > 0
        /\ Owed(a)' = SumFunctionOnSet(f, D)
    BY ClaimsShape DEF Spendable
  <2>2. req'[r].amount <= Balance(a)
    BY <1>1, <1>4, BalanceInt DEF Claims, Spendable, TypeOK
  <2>3. /\ SumFunctionOnSet(f, D \ {r}) \in Nat /\ SumFunctionOnSet(f, D \ {r}) <= Overdraft
        /\ Overdraft \in Nat
    <3> HIDE DEF D
    <3> QED
      BY <2>1, OthersSpend
  <2>4. f[r] = req'[r].amount /\ r \in D
    BY <1>4
  <2>5. IsFiniteSet(D) /\ \A s \in D : f[s] \in Int
    <3> HIDE DEF D
    <3>1. IsFiniteSet(D) /\ \A s \in D : f[s] \in Nat
      BY <2>1, Spending
    <3> QED
      BY <3>1
  <2> HIDE DEF D, f
  <2>6. SumFunctionOnSet(f, D) = f[r] + SumFunctionOnSet(f, D \ {r})
    BY <2>4, <2>5, SumRemove
  <2> QED
    BY <1>1, <2>1, <2>2, <2>3, <2>4, <2>5, <2>6
<1> QED
  BY <1>3, <1>4

\* A commit gives up the claim it makes good.
LEMMA CommitIsSpendable ==
    ASSUME Spendable, TypeOK', NEW r \in Slots, Commit(r), NEW a \in Accounts
    PROVE  Balance(a)' - Owed(a)' >= -Overdraft
<1> DEFINE q == req[r]
           C == Claims(a)
           D == Claims(a)'
<1>1. /\ req' = req /\ Valid(q) /\ q \in Offers /\ q.amount \in Int /\ q.amount > 0
      /\ seen'[r] = [b \in Accounts |-> 0] /\ \A s \in Slots \ {r} : seen'[s] = seen[s]
  <2>1. pc[r] = "commit" /\ req' = req /\ seen' = [seen EXCEPT ![r] = [b \in Accounts |-> 0]]
    BY DEF Commit
  <2>2. q \in Offers /\ Valid(q)
    BY <2>1 DEF Spendable, ControlOK, TypeOK
  <2>3. q.amount \in Int
    BY <2>2, OfferShape
  <2>4. seen \in [Slots -> [Accounts -> Int]]
    BY DEF Spendable, TypeOK
  <2>5. seen'[r] = [b \in Accounts |-> 0] /\ \A s \in Slots \ {r} : seen'[s] = seen[s]
    BY <2>1, <2>4
  <2> QED
    BY <2>1, <2>2, <2>3, <2>5 DEF Valid
<1>2. Balance(a)' = IF a = q.from THEN Balance(a) - q.amount
                    ELSE IF a = q.to THEN Balance(a) + q.amount
                    ELSE Balance(a)
  BY <1>1, CommitBalances DEF Spendable
<1>3. D = C \ {r}
  BY <1>1 DEF Claims, Valid
<1>4. Balance(a) \in Int
  BY BalanceInt DEF Spendable
<1>5. CASE a # q.from
  <2>1. Balance(a)' >= Balance(a)
    BY <1>1, <1>2, <1>4, <1>5
  <2> QED
    BY <1>1, <1>3, <2>1, ClaimsShrink
<1>6. CASE a = q.from
  <2> DEFINE f == [s \in C |-> req[s].amount]
             g == [s \in D |-> req'[s].amount]
  <2>1. /\ req \in [Slots -> Offers] /\ C \in SUBSET Slots /\ \A s \in C : req[s].amount > 0
        /\ Owed(a) = SumFunctionOnSet(f, C) /\ Owed(a)' = SumFunctionOnSet(g, D)
        /\ Owed(a) \in Nat /\ Owed(a)' \in Nat
    BY ClaimsShape DEF Spendable
  <2>2. r \in C /\ f[r] = q.amount
    <3>1. q.amount <= seen[r][a]
      BY <1>6, AccountsAssumption DEF Spendable, ControlOK, Commit, Covered
    <3> QED
      BY <1>1, <1>6, <3>1 DEF Claims
  <2>3. IsFiniteSet(C) /\ \A s \in C : f[s] \in Int
    <3> HIDE DEF C
    <3>1. IsFiniteSet(C) /\ \A s \in C : f[s] \in Nat
      BY <2>1, Spending
    <3> QED
      BY <3>1
  <2>4. IsFiniteSet(D) /\ \A s \in D : f[s] \in Int /\ g[s] = f[s]
    BY <1>1, <1>3, <2>3, FS_RemoveElement
  <2>5. Balance(a) - Owed(a) >= -Overdraft /\ Overdraft \in Int
    BY SlotsAssumption, FS_CardinalityType, OffersAssumption DEF Spendable, Overdraft
  <2> HIDE DEF C, D, f, g
  <2>6. SumFunctionOnSet(f, C) = f[r] + SumFunctionOnSet(f, C \ {r})
    BY <2>2, <2>3, SumRemove
  <2>7. SumFunctionOnSet(g, D) = SumFunctionOnSet(f, D)
    BY <2>4, SumSame
  <2>8. Owed(a) = q.amount + Owed(a)'
    BY <1>3, <2>1, <2>2, <2>6, <2>7
  <2> HIDE DEF q
  <2> QED
    BY <1>1, <1>2, <1>4, <1>6, <2>1, <2>5, <2>8
<1> QED
  BY <1>5, <1>6

\* Only a commit changes what is committed.
LEMMA OnlyCommitMovesMoney ==
    ASSUME [Next]_vars
    PROVE  UNCHANGED ledger \/ \E r \in Slots : Commit(r)
<1> DEFINE Still == UNCHANGED ledger
<1>1. ASSUME NEW r \in Slots, NEW code \in {201, 400, 409, 422, 500}, Answer(r, code) PROVE Still
  BY <1>1 DEF Answer
<1>2. ASSUME NEW r \in Slots, Submit(r) \/ CheckKey(r) \/ Post(r) PROVE Still
  BY <1>2 DEF Submit, CheckKey, Post
<1>3. ASSUME NEW r \in Slots, Validate(r) PROVE Still
  BY <1>1, <1>3 DEF Validate
<1>4. ASSUME NEW r \in Slots, NEW a \in Accounts, VerifyAccount(r, a) PROVE Still
  BY <1>1, <1>4 DEF VerifyAccount
<1>5. ASSUME NEW r \in Slots, NEW a \in Accounts,
             TakeSnapshot(r, a) \/ LockRows(r, a)
      PROVE  Still
  BY <1>5 DEF TakeSnapshot, LockRows
<1>6. ASSUME NEW r \in Slots,
             InsufficientFunds(r) \/ DuplicateKey(r) \/ Respond(r) \/ Fault(r)
      PROVE  Still
  BY <1>1, <1>6 DEF InsufficientFunds, DuplicateKey, Respond, Fault
<1>7. ASSUME NEW a \in Accounts, NEW s \in Statuses, SetStatus(a, s) PROVE Still
  BY <1>7 DEF SetStatus
<1>8. CASE UNCHANGED vars
  BY <1>8 DEF vars
<1>9. QED
  BY <1>2, <1>3, <1>4, <1>5, <1>6, <1>7, <1>8 DEF Next, Handle, Work

\* A step that reads no balance and commits nothing leaves what is spendable: claims are
\* kept or given up.
LEMMA NextSpendable ==
    ASSUME Spendable, [Next]_vars
    PROVE  Spendable'
<1>1. TypeOK' /\ ControlOK'
  BY NextTypeOK, NextControl DEF Spendable
<1>2. ASSUME NEW a \in Accounts PROVE Balance(a)' - Owed(a)' >= -Overdraft
  <2>1. CASE \E r \in Slots, b \in Accounts : TakeSnapshot(r, b)
    BY <1>1, <2>1, ReadIsSpendable
  <2>2. CASE \E r \in Slots : Commit(r)
    BY <1>1, <2>2, CommitIsSpendable
  <2>3. CASE /\ UNCHANGED ledger
             /\ \A r \in Slots, b \in Accounts : ~TakeSnapshot(r, b)
    <3>1. \A r \in Slots : \/ seen'[r] = seen[r] /\ req'[r] = req[r]
                           \/ seen'[r] = [b \in Accounts |-> 0]
      BY <2>3, ReadsAreKept DEF Spendable
    <3>2. ASSUME NEW r \in Claims(a)' PROVE r \in Claims(a) /\ req'[r] = req[r]
      <4>1. /\ r \in Slots /\ Valid(req'[r]) /\ req'[r].from = a
            /\ req'[r].amount <= seen'[r][a]
        BY <3>2 DEF Claims, Valid
      <4>2. req'[r].amount > 0 /\ req'[r].amount \in Int
        BY <1>1, <4>1, OfferShape DEF Valid, TypeOK
      <4>3. seen'[r] # [b \in Accounts |-> 0]
        BY <4>1, <4>2
      <4> QED
        BY <3>1, <4>1, <4>3 DEF Claims
    <3>3. Balance(a)' >= Balance(a)
      BY <2>3, BalanceInt DEF Balance, Spendable
    <3> QED
      BY <1>1, <3>2, <3>3, ClaimsShrink
  <2> QED
    BY <2>1, <2>2, <2>3, OnlyCommitMovesMoney
<1> QED
  BY <1>1, <1>2 DEF Spendable

LEMMA InitSpendable == Init => Spendable
<1> SUFFICES ASSUME Init PROVE Spendable
  OBVIOUS
<1>1. TypeOK
  BY InitTypeOK
<1>2. ControlOK
  BY DEF Init, ControlOK
<1>3. ASSUME NEW a \in Accounts PROVE Balance(a) - Owed(a) >= -Overdraft
  <2>1. Claims(a) = {}
    <3>1. \A r \in Slots : Valid(req[r]) => req[r].amount > 0 /\ req[r].amount \in Int
      BY <1>1, OfferShape DEF TypeOK, Valid
    <3>2. \A r \in Slots : seen[r][a] = 0
      BY DEF Init
    <3> QED
      BY <3>1, <3>2 DEF Claims
  <2>2. Owed(a) = 0
    BY <2>1, SumEmpty DEF Owed, SumOf
  <2>3. Balance(a) = 0
    BY DEF Init, Balance
  <2>4. Overdraft \in Nat
    BY OverdraftNat
  <2> QED
    BY <2>2, <2>3, <2>4
<1> QED
  BY <1>1, <1>2, <1>3 DEF Spendable

LEMMA SpendableBounds == Spendable => OverdraftBounded
<1> SUFFICES ASSUME Spendable, NEW a \in Accounts PROVE Balance(a) >= -Overdraft
  BY DEF OverdraftBounded
<1>1. /\ req \in [Slots -> Offers] /\ Claims(a) \in SUBSET Slots
      /\ \A r \in Claims(a) : req[r].amount > 0
  BY DEF Spendable, TypeOK, Claims, Valid
<1>2. Owed(a) \in Nat
  <2>1. Owed(a) = SumFunctionOnSet([r \in Claims(a) |-> req[r].amount], Claims(a))
    BY DEF Owed, SumOf
  <2> QED
    BY <1>1, <2>1, Spending
<1>3. Overdraft \in Int /\ Balance(a) \in Int
  BY BalanceInt, SlotsAssumption, FS_CardinalityType, OffersAssumption DEF Overdraft, Spendable
<1> QED
  BY <1>2, <1>3 DEF Spendable

\* Nobody is overdrawn by more than one debit for each other goroutine, for every number of
\* goroutines, accounts and requests, with every statement failing or not.
THEOREM OverdraftStaysBounded == Spec => []OverdraftBounded
  BY InitSpendable, NextSpendable, SpendableBounds, PTL DEF Spec

----------------------------------------------------------------------------
\* A key that has a row keeps it, whatever fails.
LEMMA RowsStay ==
    ASSUME TypeOK, [Next]_vars, NEW k \in Keys, txns[k] # NoTxn
    PROVE  txns'[k] # NoTxn
<1>1. CASE UNCHANGED txns
  BY <1>1
<1>2. ASSUME NEW r \in Slots, Commit(r) PROVE txns'[k] # NoTxn
  <2>1. req[r] \in Offers
    BY DEF TypeOK
  <2>2. Row(req[r], seen[r]) \in RowType
    BY <2>1, RowShape DEF TypeOK
  <2>3. txns' = [txns EXCEPT ![req[r].key] = Row(req[r], seen[r])]
    BY <1>2 DEF Commit
  <2>4. QED
    BY <2>2, <2>3, NoTxnAssumption DEF TypeOK
<1>3. QED
  BY <1>1, <1>2, OnlyCommitMovesMoney

\* A transaction and its event are committed together, whatever fails.
THEOREM EventsAndTransactions == Spec => []EventPerTransaction
<1> DEFINE Inv == TypeOK /\ EventPerTransaction
<1>1. Init => Inv
  BY InitTypeOK DEF Init, EventPerTransaction, Committed
<1>2. Inv /\ [Next]_vars => Inv'
  <2> SUFFICES ASSUME TypeOK, EventPerTransaction, [Next]_vars PROVE EventPerTransaction'
    BY NextTypeOK
  <2>1. CASE UNCHANGED <<txns, outbox>>
    BY <2>1 DEF EventPerTransaction, Committed
  <2>2. ASSUME NEW r \in Slots, Commit(r) PROVE EventPerTransaction'
    <3>1. req[r] \in Offers /\ req[r].key \in Keys
      BY OfferShape DEF TypeOK
    <3>2. Row(req[r], seen[r]) \in RowType
      BY <3>1, RowShape DEF TypeOK
    <3>3. txns' = [txns EXCEPT ![req[r].key] = Row(req[r], seen[r])] /\ outbox' = outbox \cup {req[r].key}
      BY <2>2 DEF Commit
    <3>4. Committed' = Committed \cup {req[r].key}
      BY <3>1, <3>2, <3>3, NoTxnAssumption DEF TypeOK, Committed
    <3>5. QED
      BY <3>3, <3>4 DEF EventPerTransaction
  <2>3. QED
    BY <2>1, <2>2, OnlyCommitMovesMoney
<1>3. QED
  BY <1>1, <1>2, PTL DEF Spec

----------------------------------------------------------------------------
\* A handler gets to the response by a hit of its key or by its commit.
LEMMA NextRespondsToCommitted ==
    ASSUME TypeOK, RespondsToCommitted, [Next]_vars
    PROVE  RespondsToCommitted'
<1> SUFFICES ASSUME NEW r \in Slots, pc'[r] = "respond" PROVE txns'[req'[r].key] # NoTxn
  BY DEF RespondsToCommitted
<1>0. req[r] \in Offers /\ req[r].key \in Keys
  BY OfferShape DEF TypeOK
<1>1. ASSUME pc[r] = "respond", req'[r] = req[r] PROVE txns'[req'[r].key] # NoTxn
  BY <1>0, <1>1, RowsStay DEF RespondsToCommitted
<1>2. ASSUME NEW s \in Slots, NEW l \in {"idle", "validate", "check", "verify", "balance", "wait", "commit"},
             Goto(s, l), UNCHANGED req
      PROVE  txns'[req'[r].key] # NoTxn
  BY <1>1, <1>2 DEF Goto, TypeOK
<1>3. ASSUME NEW s \in Slots, NEW code \in {201, 400, 409, 422, 500}, Answer(s, code)
      PROVE  txns'[req'[r].key] # NoTxn
  BY <1>2, <1>3 DEF Answer
<1>4. ASSUME NEW s \in Slots, Submit(s) PROVE txns'[req'[r].key] # NoTxn
  <2>1. s # r /\ pc'[r] = pc[r] /\ req'[r] = req[r]
    BY <1>4 DEF Submit, Goto, TypeOK
  <2>2. QED
    BY <1>1, <2>1
<1>5. ASSUME NEW s \in Slots, Validate(s) \/ Post(s) PROVE txns'[req'[r].key] # NoTxn
  BY <1>2, <1>3, <1>5 DEF Validate, Post
<1>6. ASSUME NEW s \in Slots, CheckKey(s) PROVE txns'[req'[r].key] # NoTxn
  <2>1. CASE s # r
    BY <1>1, <1>6, <2>1 DEF CheckKey, Goto, TypeOK
  <2>2. CASE s = r
    BY <1>6, <2>2 DEF CheckKey, Goto, TypeOK
  <2>3. QED
    BY <2>1, <2>2
<1>7. ASSUME NEW s \in Slots, NEW a \in Accounts, VerifyAccount(s, a) PROVE txns'[req'[r].key] # NoTxn
  <2>1. CASE status[a] = "ACTIVE"
    <3>1. (\E l \in {"verify", "balance"} : Goto(s, l)) /\ UNCHANGED req
      BY <1>7, <2>1 DEF VerifyAccount
    <3>2. QED
      BY <1>2, <3>1
  <2>2. CASE \E code \in {409, 500} : Answer(s, code)
    BY <1>3, <2>2
  <2>3. QED
    BY <1>7, <2>1, <2>2 DEF VerifyAccount
<1>8. ASSUME NEW s \in Slots, NEW a \in Accounts,
             TakeSnapshot(s, a) \/ LockRows(s, a)
      PROVE  txns'[req'[r].key] # NoTxn
  BY <1>1, <1>2, <1>8 DEF TakeSnapshot, LockRows
<1>9. ASSUME NEW s \in Slots, Commit(s) PROVE txns'[req'[r].key] # NoTxn
  <2>1. CASE s # r
    BY <1>1, <1>9, <2>1 DEF Commit, Goto, TypeOK
  <2>2. CASE s = r
    <3>1. Row(req[r], seen[r]) \in RowType
      BY <1>0, RowShape DEF TypeOK
    <3>2. txns' = [txns EXCEPT ![req[r].key] = Row(req[r], seen[r])] /\ UNCHANGED req
      BY <1>9, <2>2 DEF Commit
    <3>3. QED
      BY <1>0, <3>1, <3>2, NoTxnAssumption DEF TypeOK
  <2>3. QED
    BY <2>1, <2>2
<1>10. ASSUME NEW s \in Slots,
              InsufficientFunds(s) \/ DuplicateKey(s) \/ Respond(s) \/ Fault(s)
       PROVE  txns'[req'[r].key] # NoTxn
  BY <1>3, <1>10 DEF InsufficientFunds, DuplicateKey, Respond, Fault
<1>11. ASSUME NEW a \in Accounts, NEW s \in Statuses, SetStatus(a, s) PROVE txns'[req'[r].key] # NoTxn
  BY <1>1, <1>11 DEF SetStatus
<1>12. CASE UNCHANGED vars
  BY <1>1, <1>12 DEF vars
<1>13. QED
  BY <1>4, <1>5, <1>6, <1>7, <1>8, <1>9, <1>10, <1>11, <1>12 DEF Next, Handle, Work

\* 201 is the answer of Respond alone.
LEMMA OnlyRespondCreates ==
    ASSUME TypeOK, [Next]_vars, NEW r \in Slots, Answered(r, 201)
    PROVE  Respond(r)
<1>1. pc[r] # "idle" /\ pc'[r] = "idle" /\ reply'[r] = 201
  BY DEF Answered
<1>2. ASSUME NEW s \in Slots, NEW code \in {201, 400, 409, 422, 500}, Answer(s, code)
      PROVE  s = r /\ code = 201
  BY <1>1, <1>2 DEF Answer, Goto, TypeOK
<1>3. ASSUME NEW s \in Slots, NEW l \in {"validate", "check", "verify", "balance", "wait", "commit", "respond"},
             Goto(s, l)
      PROVE  FALSE
  BY <1>1, <1>3 DEF Goto, TypeOK
<1>4. ~UNCHANGED pc
  BY <1>1
<1>5. ASSUME NEW s \in Slots, NEW a \in Accounts, VerifyAccount(s, a) PROVE FALSE
  <2>1. CASE status[a] = "ACTIVE"
    <3>1. \E l \in {"verify", "balance"} : Goto(s, l)
      BY <1>5, <2>1 DEF VerifyAccount
    <3>2. QED
      BY <1>3, <3>1
  <2>2. CASE \E code \in {409, 500} : Answer(s, code)
    BY <1>2, <2>2
  <2>3. QED
    BY <1>5, <2>1, <2>2 DEF VerifyAccount
<1>6. ASSUME NEW s \in Slots, Submit(s) \/ Validate(s) \/ CheckKey(s) \/ Post(s) \/ Commit(s) PROVE FALSE
  BY <1>2, <1>3, <1>6 DEF Submit, Validate, CheckKey, Post, Commit
<1>7. ASSUME NEW s \in Slots, NEW a \in Accounts,
             TakeSnapshot(s, a) \/ LockRows(s, a) PROVE FALSE
  BY <1>3, <1>4, <1>7 DEF TakeSnapshot, LockRows
<1>8. ASSUME NEW s \in Slots, InsufficientFunds(s) \/ DuplicateKey(s) \/ Fault(s) PROVE FALSE
  BY <1>2, <1>8 DEF InsufficientFunds, DuplicateKey, Fault
<1>9. (\A a \in Accounts, t \in Statuses : ~SetStatus(a, t)) /\ ~UNCHANGED vars
  BY <1>4 DEF SetStatus, vars
<1>10. PICK s \in Slots : Respond(s)
  BY <1>5, <1>6, <1>7, <1>8, <1>9 DEF Next, Handle, Work
<1>11. QED
  BY <1>2, <1>10 DEF Respond

\* Whoever is told 201 has a committed transaction, whatever fails and whoever else asks.
THEOREM CreatedIsCommitted == Spec => CreatedMeansCommitted
<1> DEFINE Inv == TypeOK /\ RespondsToCommitted
           A == \A r \in Slots : Answered(r, 201) => txns[req[r].key] # NoTxn
<1>1. Init => Inv
  BY InitTypeOK DEF Init, RespondsToCommitted
<1>2. Inv /\ [Next]_vars => Inv'
  BY NextTypeOK, NextRespondsToCommitted
<1>3. Inv /\ [Next]_vars => [A]_vars
  BY OnlyRespondCreates DEF Respond, RespondsToCommitted
<1>4. QED
  BY <1>1, <1>2, <1>3, PTL DEF Spec, CreatedMeansCommitted
----------------------------------------------------------------------------
\* A key moves money once and the ledger adds up.

\* A key that a transaction is about to commit is new, and nobody else is committing it.
KeysAreNew ==
    \A r \in Slots : pc[r] = "commit" => txns[req[r].key] = NoTxn /\ ~KeyInFlight(r)

\* Double entry: what has been credited has been debited, over all accounts.
DoubleEntry == SumFunctionOnSet(credit, Ledgers) = SumFunctionOnSet(debit, Ledgers)

\* The inductive invariant: the totals are those of the rows, which are finitely many.
AddsUpInv ==
    /\ TypeOK
    /\ KeysAreNew
    /\ IsFiniteSet(Committed)
    /\ LedgerAddsUp
    /\ DoubleEntry

LEMMA LedgersFinite == IsFiniteSet(Ledgers)
<1>1. IsFiniteSet({GLCash})
  BY FS_Singleton
<1> QED
  BY <1>1, AccountsAssumption, FS_Union

\* A transaction that gets to its commit has seen no row of its key, and the others that
\* are there have other keys.
LEMMA NextKeysAreNew ==
    ASSUME TypeOK, KeysAreNew, [Next]_vars
    PROVE  KeysAreNew'
<1>1. ASSUME UNCHANGED txns,
             \A s \in Slots : pc'[s] = "commit" => pc[s] = "commit" /\ req'[s] = req[s]
      PROVE  KeysAreNew'
  BY <1>1 DEF KeysAreNew, KeyInFlight
<1>2. ASSUME NEW s \in Slots,
             NEW l \in {"idle", "validate", "check", "verify", "balance", "wait", "respond"},
             Goto(s, l), UNCHANGED <<txns, req>>
      PROVE  KeysAreNew'
  BY <1>1, <1>2 DEF Goto, TypeOK
<1>3. ASSUME NEW s \in Slots, NEW code \in {201, 400, 409, 422, 500}, Answer(s, code)
      PROVE  KeysAreNew'
  BY <1>2, <1>3 DEF Answer
<1>4. ASSUME NEW s \in Slots, Submit(s) PROVE KeysAreNew'
  <2>1. /\ \A r \in Slots : pc'[r] = IF r = s THEN "validate" ELSE pc[r]
        /\ \A r \in Slots \ {s} : req'[r] = req[r]
    BY <1>4 DEF Submit, Goto, TypeOK
  <2>2. UNCHANGED txns
    BY <1>4 DEF Submit
  <2> QED
    BY <1>1, <2>1, <2>2
<1>5. ASSUME NEW s \in Slots, Validate(s) \/ CheckKey(s) PROVE KeysAreNew'
  BY <1>2, <1>3, <1>5 DEF Validate, CheckKey
<1>6. ASSUME NEW s \in Slots, NEW a \in Accounts, VerifyAccount(s, a) PROVE KeysAreNew'
  <2>1. CASE status[a] = "ACTIVE"
    <3>1. (\E l \in {"balance", "verify"} : Goto(s, l)) /\ UNCHANGED <<txns, req>>
      BY <1>6, <2>1 DEF VerifyAccount
    <3> QED
      BY <1>2, <3>1
  <2>2. CASE \E code \in {409, 500} : Answer(s, code)
    BY <1>3, <2>2
  <2> QED
    BY <1>6, <2>1, <2>2 DEF VerifyAccount
<1>7. ASSUME NEW s \in Slots, NEW a \in Accounts,
             TakeSnapshot(s, a) \/ LockRows(s, a)
      PROVE  KeysAreNew'
  BY <1>1, <1>2, <1>7 DEF TakeSnapshot, LockRows
<1>8. ASSUME NEW s \in Slots, Post(s) PROVE KeysAreNew'
  <2>1. /\ \A r \in Slots : pc'[r] = IF r = s THEN "commit" ELSE pc[r]
        /\ txns[req[s].key] = NoTxn /\ ~KeyInFlight(s)
        /\ UNCHANGED <<txns, req>>
    BY <1>8 DEF Post, Goto, TypeOK
  <2> QED
    BY <2>1 DEF KeysAreNew, KeyInFlight
<1>9. ASSUME NEW s \in Slots, Commit(s) PROVE KeysAreNew'
  <2>1. /\ \A r \in Slots : pc'[r] = IF r = s THEN "respond" ELSE pc[r]
        /\ txns' = [txns EXCEPT ![req[s].key] = Row(req[s], seen[s])]
        /\ UNCHANGED req
    BY <1>9 DEF Commit, Goto, TypeOK
  <2>2. \A r \in Slots \ {s} : pc[r] = "commit" => req[r].key # req[s].key
    BY <1>9 DEF Commit, KeysAreNew, KeyInFlight
  <2>3. \A r \in Slots : req[r].key \in Keys
    BY OfferShape DEF TypeOK
  <2> QED
    BY <2>1, <2>2, <2>3 DEF KeysAreNew, KeyInFlight, TypeOK
<1>10. ASSUME NEW s \in Slots,
              InsufficientFunds(s) \/ DuplicateKey(s) \/ Respond(s) \/ Fault(s)
       PROVE  KeysAreNew'
  BY <1>3, <1>10 DEF InsufficientFunds, DuplicateKey, Respond, Fault
<1>11. ASSUME NEW a \in Accounts, NEW t \in Statuses, SetStatus(a, t) PROVE KeysAreNew'
  BY <1>1, <1>11 DEF SetStatus
<1>12. CASE UNCHANGED vars
  BY <1>1, <1>12 DEF vars
<1> QED
  BY <1>4, <1>5, <1>6, <1>7, <1>8, <1>9, <1>10, <1>11, <1>12 DEF Next, Handle, Work

\* A key moves money once, for every number of goroutines that carry it.
THEOREM MoneyMovesOnce == Spec => KeyMovesMoneyOnce
<1> DEFINE Inv == TypeOK /\ KeysAreNew
           A == /\ \A k \in Keys : txns[k] # NoTxn => txns'[k] = txns[k]
                /\ txns' = txns => UNCHANGED <<credit, debit>>
<1>1. Init => Inv
  BY InitTypeOK DEF Init, KeysAreNew
<1>2. Inv /\ [Next]_vars => Inv'
  BY NextTypeOK, NextKeysAreNew
<1>3. Inv /\ [Next]_vars => [A]_vars
  <2> SUFFICES ASSUME Inv, [Next]_vars PROVE A
    OBVIOUS
  <2>1. CASE UNCHANGED <<txns, credit, debit>>
    BY <2>1
  <2>2. ASSUME NEW r \in Slots, Commit(r) PROVE A
    <3>1. req[r] \in Offers /\ req[r].key \in Keys
      BY OfferShape DEF TypeOK
    <3>2. txns[req[r].key] = NoTxn
      BY <2>2 DEF Commit, KeysAreNew
    <3>3. txns' = [txns EXCEPT ![req[r].key] = Row(req[r], seen[r])]
      BY <2>2 DEF Commit
    <3>4. Row(req[r], seen[r]) # NoTxn
      BY <3>1, RowShape, NoTxnAssumption DEF TypeOK
    <3> QED
      BY <3>1, <3>2, <3>3, <3>4 DEF TypeOK
  <2> QED
    BY <2>1, <2>2, OnlyCommitMovesMoney
<1> QED
  BY <1>1, <1>2, <1>3, PTL DEF KeyMovesMoneyOnce, Spec

\* A new term adds itself to a sum, where the terms that were there stay.
LEMMA OneMoreTerm ==
    ASSUME NEW f, NEW g, NEW S, IsFiniteSet(S), NEW k, k \notin S, g[k] \in Int,
           \A j \in S : f[j] \in Int /\ g[j] = f[j]
    PROVE  SumFunctionOnSet(g, S \cup {k}) = SumFunctionOnSet(f, S) + g[k]
<1>1. SumFunctionOnSet(g, S \cup {k}) = g[k] + SumFunctionOnSet(g, S)
  BY SumAdd
<1>2. SumFunctionOnSet(g, S) = SumFunctionOnSet(f, S) /\ SumFunctionOnSet(f, S) \in Int
  BY SumSame, SumInt
<1> QED
  BY <1>1, <1>2

\* Where debits are credits, the cash of the bank is the money of its customers.
LEMMA CashIsCustomersMoney ==
    ASSUME NEW c \in [Ledgers -> Int], NEW d \in [Ledgers -> Int],
           SumFunctionOnSet(c, Ledgers) = SumFunctionOnSet(d, Ledgers)
    PROVE  d[GLCash] - c[GLCash]
             = SumFunctionOnSet([a \in Accounts |-> c[a] - d[a]], Accounts)
<1> DEFINE bal == [a \in Accounts |-> c[a] - d[a]]
<1>1. \A a \in Accounts : bal[a] \in Int /\ d[a] \in Int /\ c[a] = bal[a] + d[a]
  OBVIOUS
<1>2. \A a \in Ledgers : c[a] \in Int /\ d[a] \in Int
  OBVIOUS
<1>3. IsFiniteSet(Accounts) /\ GLCash \notin Accounts
  BY AccountsAssumption
<1> HIDE DEF bal
<1>4. SumFunctionOnSet(c, Accounts) = SumFunctionOnSet(bal, Accounts) + SumFunctionOnSet(d, Accounts)
  BY <1>1, <1>3, SumOfSums
<1>5. SumFunctionOnSet(c, Accounts \cup {GLCash}) = c[GLCash] + SumFunctionOnSet(c, Accounts)
  BY <1>2, <1>3, SumAdd
<1>6. SumFunctionOnSet(d, Accounts \cup {GLCash}) = d[GLCash] + SumFunctionOnSet(d, Accounts)
  BY <1>2, <1>3, SumAdd
<1>7. SumFunctionOnSet(bal, Accounts) \in Int
  BY <1>1, <1>3, SumInt
<1>8. SumFunctionOnSet(d, Accounts) \in Int
  BY <1>1, <1>3, SumInt
<1>9. d[GLCash] - c[GLCash] = SumFunctionOnSet(bal, Accounts)
  <2> DEFINE x == c[GLCash]
             y == d[GLCash]
             m == SumFunctionOnSet(bal, Accounts)
             n == SumFunctionOnSet(d, Accounts)
  <2>1. x \in Int /\ y \in Int /\ m \in Int /\ n \in Int
    BY <1>2, <1>7, <1>8
  <2>2. x + (m + n) = y + n
    BY <1>4, <1>5, <1>6
  <2> HIDE DEF x, y, m, n
  <2>3. y - x = m
    BY <2>1, <2>2
  <2> QED
    BY <2>3 DEF x, y, m
<1> QED
  BY <1>9 DEF bal

\* A commit adds its row to the totals of the account it credits and of the one it debits.
LEMMA CommitAddsUp ==
    ASSUME AddsUpInv, NEW r \in Slots, Commit(r)
    PROVE  IsFiniteSet(Committed)' /\ LedgerAddsUp' /\ DoubleEntry'
<1> DEFINE q == req[r]
           row == Row(q, seen[r])
<1>1. /\ q \in Offers /\ q.key \in Keys /\ q.from \in Ledgers /\ q.to \in Ledgers
      /\ q.amount \in Int
  BY OfferShape DEF AddsUpInv, TypeOK
<1>2. /\ txns' = [txns EXCEPT ![q.key] = row]
      /\ credit' = [credit EXCEPT ![q.to] = @ + q.amount]
      /\ debit' = [debit EXCEPT ![q.from] = @ + q.amount]
      /\ outbox' = outbox \cup {q.key}
  BY DEF Commit
<1>3. /\ row \in RowType
      /\ row.credit.account = q.to /\ row.credit.amount = q.amount
      /\ row.debit.account = q.from /\ row.debit.amount = q.amount
  BY <1>1, RowShape DEF AddsUpInv, TypeOK, Row, Leg
<1>4. TypeOK' /\ q.key \notin Committed
  <2>1. Next
    BY DEF Next, Handle, Work
  <2>2. TypeOK'
    BY <2>1, NextTypeOK DEF AddsUpInv
  <2>3. txns[q.key] = NoTxn
    BY DEF AddsUpInv, KeysAreNew, Commit
  <2> QED
    BY <2>2, <2>3 DEF Committed
<1> HIDE DEF q, row
<1>5. /\ Committed' = Committed \cup {q.key} /\ Committed \subseteq Keys
      /\ txns'[q.key] = row
      /\ \A k \in Committed : txns'[k] = txns[k]
  BY <1>1, <1>2, <1>3, <1>4, NoTxnAssumption DEF AddsUpInv, TypeOK, Committed
<1>6. IsFiniteSet(Committed)'
  BY <1>5, FS_AddElement DEF AddsUpInv
<1>7. EventPerTransaction'
  BY <1>2, <1>5 DEF AddsUpInv, LedgerAddsUp, EventPerTransaction
<1>8. \A k \in Committed : txns[k] \in RowType
  BY DEF AddsUpInv, TypeOK, Committed
<1>9. ASSUME NEW a \in Ledgers
      PROVE  credit'[a] = SumOf({k \in Committed' : txns'[k].credit.account = a},
                                LAMBDA k : txns'[k].credit.amount)
  <2> DEFINE S == {k \in Committed : txns[k].credit.account = a}
             T == {k \in Committed' : txns'[k].credit.account = a}
             f == [k \in S |-> txns[k].credit.amount]
             g == [k \in T |-> txns'[k].credit.amount]
  <2>1. credit[a] = SumFunctionOnSet(f, S)
    BY DEF AddsUpInv, LedgerAddsUp, SumOf
  <2>2. IsFiniteSet(S) /\ q.key \notin S
    BY <1>4, FS_Subset DEF AddsUpInv
  <2>3. \A k \in S : f[k] \in Int
    BY <1>8 DEF RowType, LegType
  <2>4. credit[a] \in Int
    BY DEF AddsUpInv, TypeOK
  <2>5. CASE a = q.to
    <3>0. txns'[q.key].credit.account = a /\ txns'[q.key].credit.amount = q.amount
      BY <1>3, <1>5, <2>5
    <3>1. T = S \cup {q.key}
      BY <1>5, <3>0
    <3>2. g[q.key] = q.amount /\ \A k \in S : g[k] = f[k]
      BY <1>5, <3>0, <3>1
    <3>3. credit'[a] = credit[a] + q.amount
      BY <1>1, <1>2, <2>5 DEF AddsUpInv, TypeOK
    <3> HIDE DEF S, T, f, g
    <3>4. SumFunctionOnSet(g, S \cup {q.key}) = SumFunctionOnSet(f, S) + g[q.key]
      BY <1>1, <2>2, <2>3, <3>2, OneMoreTerm
    <3>5. credit'[a] = SumFunctionOnSet(g, T)
      BY <2>1, <3>1, <3>2, <3>3, <3>4
    <3> QED
      BY <3>5 DEF SumOf, T, g
  <2>6. CASE a # q.to
    <3>0. txns'[q.key].credit.account # a
      BY <1>3, <1>5, <2>6
    <3>1. T = S
      BY <1>5, <3>0
    <3>2. \A k \in S : g[k] = f[k]
      BY <1>5, <3>1
    <3>3. credit'[a] = credit[a]
      BY <1>1, <1>2, <2>6 DEF AddsUpInv, TypeOK
    <3> HIDE DEF S, T, f, g
    <3>4. SumFunctionOnSet(g, S) = SumFunctionOnSet(f, S)
      BY <2>2, <2>3, <3>2, SumSame
    <3>5. credit'[a] = SumFunctionOnSet(g, T)
      BY <2>1, <3>1, <3>3, <3>4
    <3> QED
      BY <3>5 DEF SumOf, T, g
  <2> QED
    BY <2>5, <2>6
<1>10. ASSUME NEW a \in Ledgers
       PROVE  debit'[a] = SumOf({k \in Committed' : txns'[k].debit.account = a},
                                LAMBDA k : txns'[k].debit.amount)
  <2> DEFINE S == {k \in Committed : txns[k].debit.account = a}
             T == {k \in Committed' : txns'[k].debit.account = a}
             f == [k \in S |-> txns[k].debit.amount]
             g == [k \in T |-> txns'[k].debit.amount]
  <2>1. debit[a] = SumFunctionOnSet(f, S)
    BY DEF AddsUpInv, LedgerAddsUp, SumOf
  <2>2. IsFiniteSet(S) /\ q.key \notin S
    BY <1>4, FS_Subset DEF AddsUpInv
  <2>3. \A k \in S : f[k] \in Int
    BY <1>8 DEF RowType, LegType
  <2>4. debit[a] \in Int
    BY DEF AddsUpInv, TypeOK
  <2>5. CASE a = q.from
    <3>0. txns'[q.key].debit.account = a /\ txns'[q.key].debit.amount = q.amount
      BY <1>3, <1>5, <2>5
    <3>1. T = S \cup {q.key}
      BY <1>5, <3>0
    <3>2. g[q.key] = q.amount /\ \A k \in S : g[k] = f[k]
      BY <1>5, <3>0, <3>1
    <3>3. debit'[a] = debit[a] + q.amount
      BY <1>1, <1>2, <2>5 DEF AddsUpInv, TypeOK
    <3> HIDE DEF S, T, f, g
    <3>4. SumFunctionOnSet(g, S \cup {q.key}) = SumFunctionOnSet(f, S) + g[q.key]
      BY <1>1, <2>2, <2>3, <3>2, OneMoreTerm
    <3>5. debit'[a] = SumFunctionOnSet(g, T)
      BY <2>1, <3>1, <3>2, <3>3, <3>4
    <3> QED
      BY <3>5 DEF SumOf, T, g
  <2>6. CASE a # q.from
    <3>0. txns'[q.key].debit.account # a
      BY <1>3, <1>5, <2>6
    <3>1. T = S
      BY <1>5, <3>0
    <3>2. \A k \in S : g[k] = f[k]
      BY <1>5, <3>1
    <3>3. debit'[a] = debit[a]
      BY <1>1, <1>2, <2>6 DEF AddsUpInv, TypeOK
    <3> HIDE DEF S, T, f, g
    <3>4. SumFunctionOnSet(g, S) = SumFunctionOnSet(f, S)
      BY <2>2, <2>3, <3>2, SumSame
    <3>5. debit'[a] = SumFunctionOnSet(g, T)
      BY <2>1, <3>1, <3>3, <3>4
    <3> QED
      BY <3>5 DEF SumOf, T, g
  <2> QED
    BY <2>5, <2>6
<1>11. DoubleEntry'
  <2>1. /\ \A a \in Ledgers : credit[a] \in Int /\ debit[a] \in Int
        /\ credit'[q.to] = credit[q.to] + q.amount
        /\ debit'[q.from] = debit[q.from] + q.amount
        /\ \A a \in Ledgers \ {q.to} : credit'[a] = credit[a]
        /\ \A a \in Ledgers \ {q.from} : debit'[a] = debit[a]
        /\ credit'[q.to] \in Int /\ debit'[q.from] \in Int
    BY <1>1, <1>2 DEF AddsUpInv, TypeOK
  <2>2. SumFunctionOnSet(credit', Ledgers)
          = SumFunctionOnSet(credit, Ledgers) - credit[q.to] + credit'[q.to]
    BY <1>1, <2>1, LedgersFinite, SumUpdate
  <2>3. SumFunctionOnSet(debit', Ledgers)
          = SumFunctionOnSet(debit, Ledgers) - debit[q.from] + debit'[q.from]
    BY <1>1, <2>1, LedgersFinite, SumUpdate
  <2>4. SumFunctionOnSet(credit, Ledgers) \in Int
    BY <2>1, LedgersFinite, SumInt
  <2>5. credit[q.to] \in Int /\ debit[q.from] \in Int
    BY <1>1, <2>1
  <2> QED
    BY <1>1, <2>1, <2>2, <2>3, <2>4, <2>5 DEF AddsUpInv, DoubleEntry
<1>12. debit'[GLCash] - credit'[GLCash] = SumOf(Accounts, Balance)'
  <2>1. /\ credit' \in [Ledgers -> Int] /\ debit' \in [Ledgers -> Int]
       /\ SumFunctionOnSet(credit', Ledgers) = SumFunctionOnSet(debit', Ledgers)
    BY <1>4, <1>11 DEF TypeOK, DoubleEntry
  <2>2. debit'[GLCash] - credit'[GLCash]
         = SumFunctionOnSet([a \in Accounts |-> credit'[a] - debit'[a]], Accounts)
    BY <2>1, CashIsCustomersMoney
  <2> QED
    BY <2>2 DEF SumOf, Balance
<1> QED
  BY <1>6, <1>7, <1>9, <1>10, <1>11, <1>12 DEF LedgerAddsUp, SumOf

\* Balances are the sums of the entries, debits are credits and every transaction has its
\* event, for every bank and every schedule.
THEOREM LedgerAlwaysAddsUp == Spec => []LedgerAddsUp
<1>1. Init => AddsUpInv
  <2> SUFFICES ASSUME Init PROVE AddsUpInv
    OBVIOUS
  <2>1. TypeOK /\ KeysAreNew
    BY InitTypeOK DEF Init, KeysAreNew
  <2>2. Committed = {} /\ EventPerTransaction
    BY DEF Init, Committed, EventPerTransaction
  <2>3. IsFiniteSet(Committed)
    BY <2>2, FS_EmptySet
  <2>4. SumFunctionOnSet(credit, Ledgers) = 0
    BY LedgersFinite, SumZero DEF Init
  <2>5. SumFunctionOnSet(debit, Ledgers) = 0
    BY LedgersFinite, SumZero DEF Init
  <2>6. DoubleEntry
    BY <2>4, <2>5 DEF DoubleEntry
  <2>7. ASSUME NEW S, NEW f, S = {} PROVE SumFunctionOnSet(f, S) = 0
    BY <2>7, SumEmpty
  <2>8. \A a \in Ledgers :
          /\ credit[a] = SumOf({k \in Committed : txns[k].credit.account = a},
                               LAMBDA k : txns[k].credit.amount)
          /\ debit[a] = SumOf({k \in Committed : txns[k].debit.account = a},
                              LAMBDA k : txns[k].debit.amount)
    BY <2>2, <2>7 DEF Init, SumOf
  <2>9. debit[GLCash] - credit[GLCash] = SumOf(Accounts, Balance)
    <3>1. /\ credit \in [Ledgers -> Int] /\ debit \in [Ledgers -> Int]
         /\ SumFunctionOnSet(credit, Ledgers) = SumFunctionOnSet(debit, Ledgers)
      BY <2>1, <2>6 DEF TypeOK, DoubleEntry
    <3>2. debit[GLCash] - credit[GLCash]
           = SumFunctionOnSet([a \in Accounts |-> credit[a] - debit[a]], Accounts)
      BY <3>1, CashIsCustomersMoney
    <3> QED
      BY <3>2 DEF SumOf, Balance
  <2> QED
    BY <2>1, <2>2, <2>3, <2>6, <2>8, <2>9 DEF AddsUpInv, LedgerAddsUp
<1>2. AddsUpInv /\ [Next]_vars => AddsUpInv'
  <2> SUFFICES ASSUME AddsUpInv, [Next]_vars PROVE AddsUpInv'
    OBVIOUS
  <2>1. TypeOK' /\ KeysAreNew'
    BY NextTypeOK, NextKeysAreNew DEF AddsUpInv
  <2>2. CASE UNCHANGED <<txns, credit, debit, outbox>>
    <3>1. IsFiniteSet(Committed)' /\ DoubleEntry' /\ EventPerTransaction'
      BY <2>2 DEF AddsUpInv, Committed, DoubleEntry, LedgerAddsUp, EventPerTransaction
    <3>2. debit'[GLCash] - credit'[GLCash] = SumOf(Accounts, Balance)'
      <4>1. /\ credit' \in [Ledgers -> Int] /\ debit' \in [Ledgers -> Int]
           /\ SumFunctionOnSet(credit', Ledgers) = SumFunctionOnSet(debit', Ledgers)
        BY <2>1, <3>1 DEF TypeOK, DoubleEntry
      <4>2. debit'[GLCash] - credit'[GLCash]
             = SumFunctionOnSet([a \in Accounts |-> credit'[a] - debit'[a]], Accounts)
        BY <4>1, CashIsCustomersMoney
      <4> QED
        BY <4>2 DEF SumOf, Balance
    <3>3. \A a \in Ledgers :
            /\ credit'[a] = SumOf({k \in Committed : txns[k].credit.account = a},
                                  LAMBDA k : txns[k].credit.amount)'
            /\ debit'[a] = SumOf({k \in Committed : txns[k].debit.account = a},
                                 LAMBDA k : txns[k].debit.amount)'
      BY <2>2 DEF AddsUpInv, LedgerAddsUp, Committed, SumOf
    <3> QED
      BY <2>1, <3>1, <3>2, <3>3 DEF AddsUpInv, LedgerAddsUp
  <2>3. CASE \E r \in Slots : Commit(r)
    BY <2>1, <2>3, CommitAddsUp DEF AddsUpInv
  <2> QED
    BY <2>2, <2>3, OnlyCommitMovesMoney
<1>3. AddsUpInv => LedgerAddsUp
  BY DEF AddsUpInv
<1> QED
  BY <1>1, <1>2, <1>3, PTL DEF Spec

----------------------------------------------------------------------------
\* The engine implements Bank.

\* The inductive invariant: who commits has the funds by balances there have been, under a
\* new key.
BankInv == TypeOK /\ ControlOK /\ ReadsArePast /\ KeysAreNew

\* Whatever a handler has read of a balance has been the balance.
LEMMA NextReadsArePast ==
    ASSUME TypeOK, ControlOK, ReadsArePast, [Next]_vars
    PROVE  ReadsArePast'
<1> SUFFICES ASSUME NEW a \in Accounts
             PROVE  {0, Balance(a)'} \subseteq past'[a] /\ \A r \in Slots : seen'[r][a] \in past'[a]
  BY DEF ReadsArePast
<1>1. ASSUME NEW r \in Slots, NEW b \in Accounts, TakeSnapshot(r, b)
      PROVE  {0, Balance(a)'} \subseteq past'[a] /\ \A s \in Slots : seen'[s][a] \in past'[a]
  <2>1. UNCHANGED ledger /\ seen' = [seen EXCEPT ![r][b] = Balance(b)]
    BY <1>1 DEF TakeSnapshot
  <2>2. Balance(a)' = Balance(a)
    BY <2>1 DEF Balance
  <2>3. \A s \in Slots : seen'[s][a] \in {seen[s][a], Balance(a)}
    <3>1. seen \in [Slots -> [Accounts -> Int]]
      BY DEF TypeOK
    <3>2. \A s \in Slots : seen'[s][a] = IF s = r /\ a = b THEN Balance(a) ELSE seen[s][a]
      BY <2>1, <3>1
    <3> QED
      BY <3>2
  <2> QED
    BY <2>1, <2>2, <2>3 DEF ReadsArePast
<1>2. CASE \A r \in Slots, b \in Accounts : ~TakeSnapshot(r, b)
  <2>1. \A r \in Slots : seen'[r][a] \in {seen[r][a], 0}
    BY <1>2, ReadsAreKept
  <2>2. past[a] \subseteq past'[a] /\ Balance(a)' \in past'[a]
    <3>1. CASE UNCHANGED ledger
      BY <3>1 DEF ReadsArePast, Balance
    <3>2. CASE \E r \in Slots : Commit(r)
      BY <3>2 DEF Commit, Remember
    <3> QED
      BY <3>1, <3>2, OnlyCommitMovesMoney
  <2> QED
    BY <2>1, <2>2 DEF ReadsArePast
<1> QED
  BY <1>1, <1>2

LEMMA NextBankInv == BankInv /\ [Next]_vars => BankInv'
  BY NextTypeOK, NextControl, NextReadsArePast, NextKeysAreNew DEF BankInv

LEMMA InitBankInv == Init => BankInv
<1> SUFFICES ASSUME Init PROVE BankInv
  OBVIOUS
<1>1. ControlOK /\ KeysAreNew
  BY DEF Init, ControlOK, KeysAreNew
<1>2. ReadsArePast
  BY DEF Init, ReadsArePast, Balance
<1> QED
  BY <1>1, <1>2, InitTypeOK DEF BankInv

\* What is known of the request a goroutine commits.
LEMMA CommitFacts ==
    ASSUME BankInv, NEW r \in Slots, Commit(r)
    PROVE  /\ req[r] \in Offers /\ Valid(req[r]) /\ req[r].key \in Keys
           /\ req[r].from \in Ledgers /\ req[r].to \in Ledgers /\ req[r].amount \in Int
           /\ req[r].amount \in OfferedAmounts
           /\ req[r].from \in Accounts => req[r].amount <= seen[r][req[r].from]
           /\ \A a \in Accounts : seen[r][a] \in past[a]
           /\ req[r].key \notin Committed
<1>1. pc[r] = "commit" /\ req[r] \in Offers /\ Valid(req[r]) /\ Covered(r)
  BY DEF BankInv, TypeOK, ControlOK, Commit
<1> QED
  BY <1>1, OfferShape, AccountsAssumption
     DEF BankInv, OfferedAmounts, Covered, ReadsArePast, KeysAreNew, Committed

\* A commit writes the receipt of its row under a new key.
LEMMA CommitWritesReceipt ==
    ASSUME BankInv, NEW r \in Slots, Commit(r), NEW row, row = Row(req[r], seen[r])
    PROVE  /\ DOMAIN Receipts = Committed
           /\ Receipts' = [k \in Committed \cup {req[r].key} |->
                              IF k = req[r].key THEN Stated(row) ELSE Receipts[k]]
<1>1. row \in RowType /\ row # NoTxn
  BY CommitFacts, RowShape, NoTxnAssumption DEF BankInv, TypeOK
<1>2. txns' = [txns EXCEPT ![req[r].key] = row]
  BY DEF Commit
<1>3. /\ Committed' = Committed \cup {req[r].key}
      /\ \A k \in Committed' : txns'[k] = IF k = req[r].key THEN row ELSE txns[k]
  BY <1>1, <1>2, CommitFacts DEF Committed, BankInv, TypeOK
<1>4. \A x : Stated(x)' = Stated(x)
  BY DEF Stated
<1>5. Receipts' = [k \in Committed' |-> Stated(txns'[k])]
  BY DEF Receipts, Stated
<1> QED
  BY <1>3, <1>5 DEF Receipts

\* A commit is a deposit, a withdrawal or a transfer of the bank.
LEMMA CommitMovesMoney ==
    ASSUME BankInv, NEW r \in Slots, Commit(r)
    PROVE  \E k \in Keys, m \in OfferedAmounts, a \in Accounts :
               \/ Promise!Deposit(k, a, m)
               \/ Promise!Withdraw(k, a, m)
               \/ \E b \in Accounts : Promise!Transfer(k, a, b, m)
<1> DEFINE bal == [a \in Accounts |-> Balance(a)]
<1>1. PICK q \in Offers : q = req[r]
  BY CommitFacts
<1>2. PICK row : row = Row(req[r], seen[r])
  OBVIOUS
<1>3. PICK k \in Keys, m \in OfferedAmounts, f \in Ledgers, t \in Ledgers :
        k = q.key /\ m = q.amount /\ f = q.from /\ t = q.to
  BY <1>1, CommitFacts
<1>4. /\ f # t /\ m > 0 /\ m \in Int /\ Valid(q)
      /\ f \in Accounts => m <= seen[r][f]
      /\ \A a \in Accounts : seen[r][a] \in past[a]
      /\ k \notin Committed
  BY <1>1, <1>3, CommitFacts DEF Valid
<1>5. /\ k \notin DOMAIN Receipts
      /\ Receipts' = [j \in DOMAIN Receipts \cup {k} |->
                         IF j = k THEN Stated(row) ELSE Receipts[j]]
  <2>1. /\ DOMAIN Receipts = Committed
        /\ Receipts' = [j \in Committed \cup {req[r].key} |->
                           IF j = req[r].key THEN Stated(row) ELSE Receipts[j]]
    BY <1>2, CommitWritesReceipt
  <2> QED
    BY <1>1, <1>3, <1>4, <2>1
<1>6. row = Row(q, seen[r])
  BY <1>1, <1>2
<1>7. \A a \in Accounts : Balance(a)' = IF a = f THEN Balance(a) - m
                                       ELSE IF a = t THEN Balance(a) + m
                                       ELSE Balance(a)
  BY <1>1, <1>3, CommitFacts, CommitBalances DEF BankInv
<1>8. past' = [a \in Accounts |-> past[a] \cup {bal'[a]}]
  BY DEF Commit, Remember
<1>9. /\ debit'[GLCash] = IF f = GLCash THEN debit[GLCash] + m ELSE debit[GLCash]
      /\ credit'[GLCash] = IF t = GLCash THEN credit[GLCash] + m ELSE credit[GLCash]
      /\ debit[GLCash] \in Int /\ credit[GLCash] \in Int
  BY <1>1, <1>3 DEF Commit, BankInv, TypeOK
<1>10. /\ f = GLCash => Stated(row) = [x \in {t} |-> seen[r][t] + m]
       /\ t = GLCash => Stated(row) = [x \in {f} |-> seen[r][f] - m]
       /\ f # GLCash /\ t # GLCash =>
            Stated(row) = [x \in {f, t} |-> IF x = f THEN seen[r][f] - m ELSE seen[r][t] + m]
  <2>1. /\ row.debit.account = f /\ row.credit.account = t
        /\ f # GLCash => row.debit.running = seen[r][f] - m
        /\ t # GLCash => row.credit.running = seen[r][t] + m
    BY <1>3, <1>6 DEF Row, Leg
  <2> QED
    BY <1>4, <2>1 DEF Stated
<1>11. CASE f = GLCash
  <2>1. t \in Accounts
    BY <1>4, <1>11
  <2>2. bal' = [bal EXCEPT ![t] = @ + m]
    BY <1>7, <1>11, <2>1, AccountsAssumption
  <2>3. Stated(row) = [x \in {t} |-> seen[r][t] + m]
    BY <1>10, <1>11
  <2>4. Promise!Become([bal EXCEPT ![t] = @ + m])
    BY <1>8, <2>2 DEF Promise!Become
  <2>5. \E b \in past[t] : Promise!Receive(k, [x \in {t} |-> b + m])
    <3>1. Promise!Receive(k, Stated(row))
      BY <1>5 DEF Promise!Receive
    <3>2. Promise!Receive(k, [x \in {t} |-> seen[r][t] + m])
      BY <2>3, <3>1
    <3> QED
      BY <1>4, <2>1, <3>2
  <2>6. debit'[GLCash] - credit'[GLCash] = debit[GLCash] - credit[GLCash] + m
    BY <1>4, <1>9, <1>11
  <2>7. Promise!Deposit(k, t, m)
    BY <1>4, <2>4, <2>5, <2>6 DEF Promise!Deposit
  <2> QED
    BY <2>1, <2>7
<1>12. CASE t = GLCash
  <2>1. f \in Accounts
    BY <1>4, <1>12
  <2>2. bal' = [bal EXCEPT ![f] = @ - m]
    BY <1>7, <1>12, <2>1, AccountsAssumption
  <2>3. Stated(row) = [x \in {f} |-> seen[r][f] - m]
    BY <1>10, <1>12
  <2>4. Promise!Become([bal EXCEPT ![f] = @ - m])
    BY <1>8, <2>2 DEF Promise!Become
  <2>5. \E b \in past[f] : m <= b /\ Promise!Receive(k, [x \in {f} |-> b - m])
    <3>1. Promise!Receive(k, Stated(row))
      BY <1>5 DEF Promise!Receive
    <3>2. Promise!Receive(k, [x \in {f} |-> seen[r][f] - m])
      BY <2>3, <3>1
    <3> QED
      BY <1>4, <2>1, <3>2
  <2>6. debit'[GLCash] - credit'[GLCash] = debit[GLCash] - credit[GLCash] - m
    BY <1>4, <1>9, <1>12
  <2>7. Promise!Withdraw(k, f, m)
    BY <1>4, <2>4, <2>5, <2>6 DEF Promise!Withdraw
  <2> QED
    BY <2>1, <2>7
<1>13. CASE f # GLCash /\ t # GLCash
  <2>1. f \in Accounts /\ t \in Accounts
    BY <1>13
  <2>2. bal' = [bal EXCEPT ![f] = @ - m, ![t] = @ + m]
    BY <1>4, <1>7, <2>1
  <2>3. Stated(row) = [x \in {f, t} |-> IF x = f THEN seen[r][f] - m ELSE seen[r][t] + m]
    BY <1>10, <1>13
  <2>4. Promise!Become([bal EXCEPT ![f] = @ - m, ![t] = @ + m])
    BY <1>8, <2>2 DEF Promise!Become
  <2>5. \E b \in past[f], c \in past[t] :
          /\ m <= b
          /\ Promise!Receive(k, [x \in {f, t} |-> IF x = f THEN b - m ELSE c + m])
    BY <1>4, <1>5, <2>1, <2>3 DEF Promise!Receive
  <2>6. Promise!Transfer(k, f, t, m)
    BY <1>4, <1>9, <1>13, <2>4, <2>5 DEF Promise!Transfer
  <2> QED
    BY <2>1, <2>6
<1> QED
  BY <1>11, <1>12, <1>13

\* A step that moves no money is none of the bank's.
LEMMA StillIsStill ==
    ASSUME UNCHANGED ledger
    PROVE  UNCHANGED Promise!vars
<1>1. \A a \in Accounts : Balance(a)' = Balance(a)
  BY DEF Balance
<1>2. Receipts' = Receipts
  BY DEF Receipts, Stated, Committed
<1> QED
  BY <1>1, <1>2 DEF Promise!vars

LEMMA InitIsBankInit == Init => Promise!Init
<1> SUFFICES ASSUME Init PROVE Promise!Init
  OBVIOUS
<1>1. Committed = {}
  BY DEF Init, Committed
<1>2. \A a \in Accounts : Balance(a) = 0
  BY DEF Init, Balance
<1>3. Receipts = [k \in {} |-> {}]
  BY <1>1 DEF Receipts
<1> QED
  BY <1>2, <1>3 DEF Init, Promise!Init

\* The engine implements Bank: every step of a handler is one movement of money under a new
\* key, of money the payer has had, or nothing.
THEOREM EngineImplementsBank == Spec => ImplementsBank
<1>1. BankInv /\ [Next]_vars => [Promise!Next]_(Promise!vars)
  <2>1. ASSUME BankInv, NEW r \in Slots, Commit(r) PROVE Promise!Next
    BY <2>1, CommitMovesMoney DEF Promise!Next
  <2> QED
    BY <2>1, OnlyCommitMovesMoney, StillIsStill
<1> QED
  BY <1>1, InitIsBankInit, InitBankInv, NextBankInv, PTL DEF ImplementsBank, Promise!Spec, Spec

----------------------------------------------------------------------------
\* No deadlock.

\* r waits for s: for the lock of the account it queries next, or for the end of the
\* transaction that has inserted its key.
WaitsFor(r, s) ==
    /\ r # s
    /\ \/ pc[r] \in {"balance", "wait"} /\ \E a \in held[s] : NextToQuery(r, a)
       \/ pc[r] = "balance" /\ pc[s] = "commit" /\ req[s].key = req[r].key

\* No goroutines wait in a circle: of any set of them somebody waits for nobody in it
\* (service.go:286 "locked in lexicographic order to prevent deadlocks").
NoCircularWait == \A S \in SUBSET Slots : S # {} => \E r \in S : \A s \in S : ~WaitsFor(r, s)

\* The inductive invariant: what a goroutine has queried comes before what it has still to query.
QueriesInOrder(r) ==
    /\ held[r] \subseteq queried[r]
    /\ pc[r] \in {"idle", "validate", "check", "verify", "respond"} => queried[r] = {}
    /\ \A a \in queried[r], b \in Customers(req[r]) \ queried[r] : a < b

\* The next account to query comes after the others are queried, in order.
LEMMA OneMoreQuery ==
    ASSUME TypeOK, NEW r \in Slots, QueriesInOrder(r), NEW a \in Accounts, NextToQuery(r, a),
           queried' = [queried EXCEPT ![r] = queried[r] \cup {a}],
           held'[r] \subseteq held[r] \cup {a}, req' = req, pc'[r] \in {"balance", "wait"}
    PROVE  QueriesInOrder(r)'
<1>1. queried'[r] = queried[r] \cup {a}
  BY DEF TypeOK
<1>2. req[r] \in Offers /\ Customers(req[r]) \subseteq Accounts
  BY OfferShape DEF TypeOK
<1>3. ASSUME NEW b \in queried[r] \cup {a}, NEW c \in Customers(req[r]) \ (queried[r] \cup {a})
      PROVE  b < c
  <2>1. c \in Nat /\ a \in Nat
    BY <1>2, AccountsAssumption
  <2>2. a <= c /\ a # c
    BY DEF NextToQuery
  <2> QED
    BY <2>1, <2>2 DEF QueriesInOrder
<1> QED
  BY <1>1, <1>3 DEF QueriesInOrder, Customers

\* A goroutine that keeps or drops all it has queried.
LEMMA SameOrNoQueries ==
    ASSUME NEW r \in Slots, QueriesInOrder(r),
           \/ /\ queried'[r] = {} /\ held'[r] = {}
           \/ /\ queried'[r] = queried[r] /\ held'[r] = held[r] /\ req'[r] = req[r]
              /\ pc'[r] = pc[r] \/ pc'[r] \in {"balance", "wait", "commit"}
    PROVE  QueriesInOrder(r)'
  BY DEF QueriesInOrder, Customers

LEMMA NextQueriesInOrder ==
    ASSUME TypeOK, \A r \in Slots : QueriesInOrder(r), [Next]_vars
    PROVE  \A r \in Slots : QueriesInOrder(r)'
<1>1. ASSUME NEW r \in Slots, NEW s \in Slots, r # s, Handle(s) PROVE QueriesInOrder(r)'
  <2>1. /\ queried'[r] = queried[r] /\ held'[r] = held[r]
        /\ req'[r] = req[r] /\ pc'[r] = pc[r]
    BY <1>1 DEF Handle, Work, Submit, Validate, CheckKey, VerifyAccount,
       TakeSnapshot, LockRows, InsufficientFunds, Post, DuplicateKey, Commit, Respond,
       Fault, Answer, Goto, TypeOK
  <2> QED
    BY <2>1, SameOrNoQueries
<1>2. ASSUME NEW r \in Slots, NEW code, Answer(r, code) PROVE QueriesInOrder(r)'
  BY <1>2, SameOrNoQueries DEF Answer, TypeOK
<1>3. ASSUME NEW r \in Slots, Submit(r) \/ Commit(r) \/ CheckKey(r) PROVE QueriesInOrder(r)'
  <2>1. queried'[r] = {} /\ held'[r] = {}
    BY <1>3 DEF Submit, Commit, CheckKey, QueriesInOrder, TypeOK
  <2> QED
    BY <2>1, SameOrNoQueries
<1>4. ASSUME NEW r \in Slots, Validate(r) PROVE QueriesInOrder(r)'
  <2>1. Answer(r, 400) \/ (queried'[r] = {} /\ held'[r] = {})
    BY <1>4 DEF Validate, QueriesInOrder
  <2> QED
    BY <1>2, <2>1, SameOrNoQueries
<1>5. ASSUME NEW r \in Slots, NEW a \in Accounts, VerifyAccount(r, a) PROVE QueriesInOrder(r)'
  <2>1. (\E code \in {409, 500} : Answer(r, code)) \/ (queried'[r] = {} /\ held'[r] = {})
    BY <1>5 DEF VerifyAccount, QueriesInOrder
  <2> QED
    BY <1>2, <2>1, SameOrNoQueries
<1>6. ASSUME NEW r \in Slots, NEW a \in Accounts, LockRows(r, a) PROVE QueriesInOrder(r)'
  <2>1. /\ NextToQuery(r, a) /\ queried' = [queried EXCEPT ![r] = queried[r] \cup {a}]
        /\ held'[r] \subseteq held[r] \cup {a} /\ req' = req /\ pc'[r] \in {"balance", "wait"}
    BY <1>6 DEF LockRows, Goto, TypeOK
  <2> QED
    BY <2>1, OneMoreQuery
<1>7. ASSUME NEW r \in Slots, NEW a \in Accounts, TakeSnapshot(r, a) PROVE QueriesInOrder(r)'
  <2>1. CASE HasEntries(a)
    <3>1. /\ queried'[r] = queried[r] /\ held'[r] = held[r] /\ req'[r] = req[r]
          /\ pc'[r] = "wait"
      BY <1>7, <2>1 DEF TakeSnapshot, Goto, TypeOK
    <3> QED
      BY <3>1, SameOrNoQueries
  <2>2. CASE ~HasEntries(a)
    <3>1. /\ NextToQuery(r, a) /\ queried' = [queried EXCEPT ![r] = queried[r] \cup {a}]
          /\ held'[r] \subseteq held[r] \cup {a} /\ req' = req /\ pc'[r] \in {"balance", "wait"}
      BY <1>7, <2>2 DEF TakeSnapshot, TypeOK
    <3> QED
      BY <3>1, OneMoreQuery
  <2> QED
    BY <2>1, <2>2
<1>8. ASSUME NEW r \in Slots, Post(r) PROVE QueriesInOrder(r)'
  <2>1. /\ queried'[r] = queried[r] /\ held'[r] = held[r] /\ req'[r] = req[r]
        /\ pc'[r] = "commit"
    BY <1>8 DEF Post, Goto, TypeOK
  <2> QED
    BY <2>1, SameOrNoQueries
<1>9. ASSUME NEW r \in Slots,
              \/ InsufficientFunds(r) \/ DuplicateKey(r) \/ Respond(r) \/ Fault(r)
       PROVE  QueriesInOrder(r)'
  BY <1>2, <1>9 DEF InsufficientFunds, DuplicateKey, Respond, Fault
<1>10. ASSUME NEW r \in Slots, UNCHANGED <<pc, req, queried, held>> PROVE QueriesInOrder(r)'
  BY <1>10, SameOrNoQueries
<1>11. ASSUME NEW r \in Slots, Handle(r) PROVE QueriesInOrder(r)'
  BY <1>3, <1>4, <1>5, <1>6, <1>7, <1>8, <1>9, <1>11 DEF Handle, Work
<1>12. ASSUME NEW r \in Slots PROVE QueriesInOrder(r)'
  <2>1. CASE \E s \in Slots : Handle(s)
    BY <1>1, <1>11, <2>1
  <2>2. CASE UNCHANGED vars \/ \E a \in Accounts, s \in Statuses : SetStatus(a, s)
    <3>1. UNCHANGED <<pc, req, queried, held>>
      BY <2>2 DEF vars, SetStatus
    <3> QED
      BY <1>10, <3>1
  <2> QED
    BY <2>1, <2>2 DEF Next
<1> QED
  BY <1>12

\* Whoever waits for a lock of one that waits for a lock waits for the smaller account; so of
\* goroutines that wait in a circle nobody could wait for the largest.
THEOREM NobodyWaitsInACircle == Spec => []NoCircularWait
<1> DEFINE Inv == TypeOK /\ \A r \in Slots : QueriesInOrder(r)
<1>1. Init => Inv
  BY InitTypeOK DEF Init, QueriesInOrder
<1>2. Inv /\ [Next]_vars => Inv'
  BY NextTypeOK, NextQueriesInOrder
<1>3. Inv => NoCircularWait
  <2> SUFFICES ASSUME Inv, NEW S \in SUBSET Slots, S # {},
                      \A r \in S : \E s \in S : WaitsFor(r, s)
               PROVE  FALSE
    BY DEF NoCircularWait
  <2> DEFINE Awaited == {a \in Accounts : \E r, s \in S : a \in held[s] /\ NextToQuery(r, a)}
  <2>1. \A r \in S : pc[r] \in {"balance", "wait"}
    BY DEF WaitsFor
  <2>2. ASSUME NEW r \in S
        PROVE  \E s \in S : \E a \in held[s] : NextToQuery(r, a)
    <3>1. PICK s \in S : WaitsFor(r, s)
      OBVIOUS
    <3>2. pc[s] # "commit"
      BY <2>1
    <3> QED
      BY <3>1, <3>2 DEF WaitsFor
  <2>3. \A s \in S : held[s] \subseteq Accounts
    BY DEF TypeOK
  <2>4. ASSUME NEW r \in S PROVE \E a \in Awaited : NextToQuery(r, a)
    BY <2>2, <2>3
  <2>5. /\ Awaited # {} /\ Awaited \in SUBSET Nat
        /\ IsFiniteSet(Awaited)
    BY <2>4, AccountsAssumption, FS_Subset
  <2> HIDE DEF Awaited
  <2>6. PICK a \in Awaited : \A b \in Awaited : b <= a
    BY <2>5, FiniteHasLargest
  <2>7. PICK s \in S : a \in held[s]
    BY <2>6 DEF Awaited
  <2>8. PICK b \in Awaited : NextToQuery(s, b)
    BY <2>4
  <2>9. a \in queried[s] /\ b \in Customers(req[s]) \ queried[s]
    BY <2>7, <2>8 DEF QueriesInOrder, NextToQuery
  <2>10. a < b
    BY <2>9 DEF QueriesInOrder
  <2>11. a \in Nat /\ b \in Nat
    BY <2>5
  <2> QED
    BY <2>6, <2>10, <2>11
<1> QED
  BY <1>1, <1>2, <1>3, PTL DEF Spec
=============================================================================
