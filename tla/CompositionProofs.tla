-------------------------- MODULE CompositionProofs --------------------------
(***************************************************************************)
(* What stays true of the engine in company: when interest is posted at    *)
(* any moment, behind the idempotency middleware, and when the account     *)
(* service opens, freezes, closes and encumbers the accounts it works on.  *)
(* Each part rests on the proofs of the engine alone, and adds what is     *)
(* true of the company itself.                                             *)
(***************************************************************************)
EXTENDS AccountService, IdempotencyMiddleware, TransactionEngineProofs, SequenceTheorems
----------------------------------------------------------------------------
\* INTEREST.  A posting only adds to balances, and touches no request.

USE DEF Ledgers

jointVars == <<vars, interest>>

\* What a posting does to the balances of the customers.
LEMMA PostingBalances ==
    ASSUME TypeOK, NEW due \in [Accounts -> InterestDue], PayInterest(due), NEW a \in Accounts
    PROVE  Balance(a)' = Balance(a) + due[a] /\ due[a] \in Nat /\ Balance(a) \in Int
<1>1. a \in Ledgers /\ credit[a] \in Int /\ debit[a] \in Int
  BY DEF TypeOK
<1>2. credit'[a] = credit[a] + due[a] /\ debit'[a] = debit[a]
  BY <1>1 DEF PayInterest
<1>3. due[a] \in Nat
  BY InterestDueAssumption
<1>4. QED
  BY <1>1, <1>2, <1>3 DEF Balance

\* A posting keeps the types.
LEMMA PostingTypeOK ==
    ASSUME TypeOK, NEW due \in [Accounts -> InterestDue], PayInterest(due)
    PROVE  TypeOK'
<1>1. /\ UNCHANGED <<txns, debit, outbox, status, pc, req, verified, queried, held, seen, reply>>
      /\ Remember
  BY DEF PayInterest, local
<1>2. credit' \in [Ledgers -> Int]
  <2>1. \A a \in Accounts : due[a] \in Int
    BY PostingBalances
  <2> QED
    BY <2>1 DEF PayInterest, TypeOK
<1>3. debit' \in [Ledgers -> Int]
  BY <1>1 DEF TypeOK
<1>4. past' \in [Accounts -> SUBSET Int]
  BY <1>1, <1>2, <1>3, RememberType
<1> QED
  BY <1>1, <1>2, <1>3, <1>4 DEF TypeOK

\* What is spendable grows with the interest, and what was read has still been a balance.
LEMMA PostingKeeps ==
    ASSUME Spendable, BankInv, NEW due \in [Accounts -> InterestDue], PayInterest(due)
    PROVE  Spendable' /\ BankInv'
<1>1. /\ UNCHANGED <<txns, debit, outbox, status, pc, req, verified, queried, held, seen, reply>>
      /\ Remember
  BY DEF PayInterest, local
<1>2. TypeOK'
  BY PostingTypeOK DEF Spendable
<1>3. ControlOK' /\ KeysAreNew'
  BY <1>1 DEF BankInv, ControlOK, KeysAreNew, KeyInFlight, Valid, Covered
<1>4. ASSUME NEW a \in Accounts PROVE Balance(a)' - Owed(a)' >= -Overdraft
  <2>1. Claims(a)' = Claims(a)
    BY <1>1 DEF Claims, Valid
  <2>2. Balance(a)' >= Balance(a)
    BY PostingBalances DEF Spendable
  <2> QED
    BY <1>1, <1>2, <2>1, <2>2, ClaimsShrink
<1>5. ReadsArePast'
  <2>1. \A a \in Accounts : past'[a] = past[a] \cup {Balance(a)'}
    BY <1>1 DEF Remember
  <2> QED
    BY <1>1, <2>1 DEF BankInv, ReadsArePast
<1> QED
  BY <1>2, <1>3, <1>4, <1>5 DEF Spendable, BankInv

LEMMA JointStep ==
    ASSUME Spendable, BankInv, [JointNext]_jointVars
    PROVE  Spendable' /\ BankInv'
<1>1. CASE [Next]_vars
  BY <1>1, NextSpendable, NextBankInv
<1>2. CASE \E due \in [Accounts -> InterestDue] : PayInterest(due)
  BY <1>2, PostingKeeps
<1> QED
  BY <1>1, <1>2 DEF JointNext, jointVars

LEMMA JointInvariant == JointSpec => [](Spendable /\ BankInv)
<1>1. JointInit => Spendable /\ BankInv
  BY InitSpendable, InitBankInv DEF JointInit
<1> QED
  BY <1>1, JointStep, PTL DEF JointSpec, jointVars

\* Interest that is posted past the locks lets nobody overdraw more than he could without it.
THEOREM OverdraftBoundedWithInterest == JointSpec => []OverdraftBounded
<1>1. Spendable => OverdraftBounded
  BY SpendableBounds
<1> QED
  BY <1>1, JointInvariant, PTL

----------------------------------------------------------------------------
\* The engine and the postings together implement Bank.
THEOREM EngineAndInterestImplementBank == JointSpec => ImplementsPayingBank
<1>1. JointInit => PayingBank!Init
  <2> SUFFICES ASSUME JointInit PROVE PayingBank!Init
    OBVIOUS
  <2>1. Promise!Init
    BY InitIsBankInit DEF JointInit
  <2> QED
    BY <2>1 DEF Promise!Init, PayingBank!Init
<1>2. BankInv /\ [JointNext]_jointVars => [PayingBank!Next]_(PayingBank!vars)
  <2> SUFFICES ASSUME BankInv, [JointNext]_jointVars
               PROVE  [PayingBank!Next]_(PayingBank!vars)
    OBVIOUS
  <2>1. CASE UNCHANGED ledger
    BY <2>1, StillIsStill DEF PayingBank!vars, Promise!vars
  <2>2. ASSUME NEW r \in Slots, Commit(r) PROVE PayingBank!Next
    <3>1. PICK k \in Keys, m \in OfferedAmounts, a \in Accounts :
            \/ Promise!Deposit(k, a, m)
            \/ Promise!Withdraw(k, a, m)
            \/ \E b \in Accounts : Promise!Transfer(k, a, b, m)
      BY <2>2, CommitMovesMoney
    <3>2. CASE Promise!Deposit(k, a, m)
      <4>1. PayingBank!Deposit(k, a, m)
        BY <3>2 DEF Promise!Deposit, Promise!Become, Promise!Receive,
                    PayingBank!Deposit, PayingBank!Become, PayingBank!Receive
      <4> QED
        BY <4>1 DEF PayingBank!Next
    <3>3. CASE Promise!Withdraw(k, a, m)
      <4>1. PayingBank!Withdraw(k, a, m)
        BY <3>3 DEF Promise!Withdraw, Promise!Become, Promise!Receive,
                    PayingBank!Withdraw, PayingBank!Become, PayingBank!Receive
      <4> QED
        BY <4>1 DEF PayingBank!Next
    <3>4. ASSUME NEW b \in Accounts, Promise!Transfer(k, a, b, m) PROVE PayingBank!Next
      <4>1. PayingBank!Transfer(k, a, b, m)
        BY <3>4 DEF Promise!Transfer, Promise!Become, Promise!Receive,
                    PayingBank!Transfer, PayingBank!Become, PayingBank!Receive
      <4> QED
        BY <4>1 DEF PayingBank!Next
    <3> QED
      BY <3>1, <3>2, <3>3, <3>4
  <2>3. ASSUME NEW due \in [Accounts -> InterestDue], PayInterest(due) PROVE PayingBank!Next
    <3> DEFINE bal == [a \in Accounts |-> Balance(a)]
    <3>1. \A a \in Accounts : Balance(a)' = Balance(a) + due[a]
      BY <2>3, PostingBalances DEF BankInv
    <3>2. UNCHANGED <<txns, debit>> /\ credit'[GLCash] = credit[GLCash] /\ Remember
      BY <2>3, AccountsAssumption DEF PayInterest
    <3>3. PayingBank!Become([a \in Accounts |-> bal[a] + due[a]])
      BY <3>1, <3>2 DEF PayingBank!Become, Remember
    <3>4. Receipts' = Receipts
      BY <3>2 DEF Receipts, Stated, Committed
    <3>5. PayingBank!Earn(due)
      BY <3>2, <3>3, <3>4 DEF PayingBank!Earn
    <3> QED
      BY <3>5 DEF PayingBank!Next
  <2>4. [Next]_vars \/ \E due \in [Accounts -> InterestDue] : PayInterest(due)
    BY DEF JointNext, jointVars
  <2> QED
    BY <2>1, <2>2, <2>3, <2>4, OnlyCommitMovesMoney
<1> QED
  BY <1>1, <1>2, JointInvariant, PTL DEF ImplementsPayingBank, PayingBank!Spec, JointSpec, jointVars
----------------------------------------------------------------------------
\* THE MIDDLEWARE takes nothing from what the engine promises, and whoever it tells 201 has
\* a committed transaction: for every set of clients, whatever fails.

Codes == {201, 400, 409, 422, 500}

\* A step of a handler moves no other handler, keeps its request, and ends with an answer.
LEMMA ServeFacts ==
    ASSUME TypeOK, NEW r \in Slots, Work(r) \/ Fault(r)
    PROVE  /\ \A s \in Slots \ {r} : pc'[s] = pc[s]
           /\ pc[r] # "idle"
           /\ pc'[r] = "idle" => reply'[r] \in Codes
           /\ UNCHANGED req
<1> DEFINE Fact == /\ \A s \in Slots \ {r} : pc'[s] = pc[s]
                   /\ pc'[r] = "idle" => reply'[r] \in Codes
                   /\ UNCHANGED req
<1>1. ASSUME NEW code \in Codes, Answer(r, code) PROVE Fact
  BY <1>1 DEF Answer, Goto, TypeOK
<1>2. ASSUME NEW l \in {"check", "verify", "balance", "wait", "commit", "respond"}, Goto(r, l), UNCHANGED req
      PROVE  Fact
  BY <1>2 DEF Goto, TypeOK
<1>3. ASSUME pc[r] # "idle", UNCHANGED <<pc, req>> PROVE Fact
  BY <1>3
<1>4. ASSUME Validate(r) PROVE Fact
  BY <1>1, <1>2, <1>4 DEF Validate, Codes
<1>5. ASSUME CheckKey(r) PROVE Fact
  <2>1. \E l \in {"verify", "respond"} : Goto(r, l)
    BY <1>5 DEF CheckKey
  <2>2. QED
    BY <1>2, <1>5, <2>1 DEF CheckKey
<1>6. ASSUME NEW a \in Accounts, VerifyAccount(r, a) PROVE Fact
  <2>1. CASE status[a] = "ACTIVE"
    <3>1. (\E l \in {"verify", "balance"} : Goto(r, l)) /\ UNCHANGED req
      BY <1>6, <2>1 DEF VerifyAccount
    <3>2. QED
      BY <1>2, <3>1
  <2>2. CASE \E code \in {409, 500} : Answer(r, code)
    BY <1>1, <2>2 DEF Codes
  <2>3. QED
    BY <1>6, <2>1, <2>2 DEF VerifyAccount
<1>7. ASSUME NEW a \in Accounts, TakeSnapshot(r, a) \/ LockRows(r, a) PROVE Fact
  <2>1. /\ pc[r] # "idle" /\ UNCHANGED req
        /\ UNCHANGED pc \/ \E l \in {"balance", "wait"} : Goto(r, l)
    BY <1>7 DEF TakeSnapshot, LockRows
  <2>2. CASE UNCHANGED pc
    BY <1>3, <2>1, <2>2
  <2>3. CASE \E l \in {"balance", "wait"} : Goto(r, l)
    BY <1>2, <2>1, <2>3
  <2>4. QED
    BY <2>1, <2>2, <2>3
<1>8. ASSUME InsufficientFunds(r) \/ DuplicateKey(r) \/ Respond(r) \/ Fault(r) PROVE Fact
  <2>1. PICK code \in Codes : Answer(r, code)
    BY <1>8 DEF InsufficientFunds, DuplicateKey, Respond, Fault, Codes
  <2>2. QED
    BY <1>1, <2>1
<1>9. ASSUME Post(r) \/ Commit(r) PROVE Fact
  BY <1>2, <1>9 DEF Post, Commit
<1>10. pc[r] # "idle"
  <2>1. ASSUME NEW a \in Accounts,
               VerifyAccount(r, a) \/ TakeSnapshot(r, a) \/ LockRows(r, a)
        PROVE  pc[r] # "idle"
    BY <2>1 DEF VerifyAccount, TakeSnapshot, LockRows
  <2>2. CASE \/ Validate(r) \/ CheckKey(r) \/ InsufficientFunds(r) \/ DuplicateKey(r)
             \/ Respond(r) \/ Post(r) \/ Commit(r) \/ Fault(r)
    BY <2>2 DEF Validate, CheckKey, InsufficientFunds, DuplicateKey, Respond, Post, Commit, Fault
  <2>3. QED
    BY <2>1, <2>2 DEF Work
<1>11. Fact
  BY <1>4, <1>5, <1>6, <1>7, <1>8, <1>9 DEF Work
<1>12. QED
  BY <1>10, <1>11

\* What the shape of an envelope gives.
LEMMA EnvelopeShape ==
    ASSUME NEW e \in Envelopes
    PROVE  e.header \in Keys \cup {NoHeader} /\ e.body \in Offers /\ e.body.key \in Keys
BY EnvelopesAssumption, OfferShape

----------------------------------------------------------------------------
\* Every step of the middleware is one of the ledger's, or none.
LEMMA ApiStepIsJointStep == [ApiNext]_apiVars => [JointNext]_jointVars
<1> SUFFICES ASSUME [ApiNext]_apiVars PROVE [JointNext]_jointVars
  OBVIOUS
<1> USE DEF jointVars
<1>1. ASSUME NEW r \in Slots, AnswerAtOnce(r) \/ Store(r) PROVE UNCHANGED jointVars
  BY <1>1 DEF AnswerAtOnce, Store
<1>2. ASSUME NEW r \in Slots, NEW e \in Envelopes, Receive(r, e) PROVE UNCHANGED jointVars
  BY <1>2 DEF Receive
<1>3. ASSUME NEW k \in Keys, Forget(k) PROVE UNCHANGED jointVars
  BY <1>3 DEF Forget
<1>4. ASSUME NEW r \in Slots, Miss(r) \/ ServeHTTP(r) PROVE JointNext
  BY <1>4 DEF Miss, ServeHTTP, JointNext, Next, Handle
<1>5. ASSUME NEW a \in Accounts, NEW s \in Statuses, SetStatus(a, s), UNCHANGED interest PROVE JointNext
  BY <1>5 DEF JointNext, Next
<1>6. ASSUME NEW due \in [Accounts -> InterestDue], PayInterest(due) PROVE JointNext
  BY <1>6 DEF JointNext
<1>7. CASE UNCHANGED apiVars
  BY <1>7 DEF apiVars
<1>8. CASE ApiNext
  BY <1>1, <1>2, <1>3, <1>4, <1>5, <1>6, <1>8 DEF ApiNext, Pass
<1>9. QED
  BY <1>7, <1>8

\* The middleware in front of the ledger behaves as the ledger does without it.
THEOREM MiddlewareIsTransparent == ApiSpec => JointSpec
<1>1. ApiInit => JointInit
  BY DEF ApiInit
<1>2. QED
  BY <1>1, ApiStepIsJointStep, PTL DEF ApiSpec, JointSpec, jointVars

\* Clients that repeat their requests at will, and interest, see one bank.
THEOREM ApiImplementsBank == ApiSpec => ImplementsPayingBank
BY MiddlewareIsTransparent, EngineAndInterestImplementBank

----------------------------------------------------------------------------
\* A key that has money moved under it keeps it.
LEMMA CommittedUnderStays ==
    ASSUME TypeOK, [JointNext]_jointVars, NEW h, CommittedUnder(h)
    PROVE  CommittedUnder(h)'
<1>1. PICK e \in Envelopes : e.header = h /\ txns[e.body.key] # NoTxn
  BY DEF CommittedUnder
<1>2. e.body.key \in Keys
  BY EnvelopeShape
<1>3. txns'[e.body.key] # NoTxn
  <2>1. CASE [Next]_vars
    BY <1>1, <1>2, <2>1, RowsStay
  <2>2. CASE UNCHANGED txns
    BY <1>1, <2>2
  <2>3. QED
    BY <2>1, <2>2 DEF JointNext, PayInterest, jointVars
<1>4. QED
  BY <1>1, <1>3 DEF CommittedUnder

\* The ledger and its handlers stay as they are.
LEMMA JointStepKeeps ==
    ASSUME TypeOK, RespondsToCommitted, [JointNext]_jointVars
    PROVE  TypeOK' /\ RespondsToCommitted'
<1>1. CASE [Next]_vars
  BY <1>1, NextTypeOK, NextRespondsToCommitted
<1>2. ASSUME NEW due \in [Accounts -> InterestDue], PayInterest(due)
      PROVE  TypeOK' /\ RespondsToCommitted'
  BY <1>2, PostingTypeOK DEF PayInterest, RespondsToCommitted
<1>3. QED
  BY <1>1, <1>2 DEF JointNext, jointVars

\* Every step of the middleware keeps the invariant.
LEMMA NextApiIInv ==
    ASSUME ApiIInv, [ApiNext]_apiVars
    PROVE  ApiIInv'
<1> USE DEF ApiIInv
<1>0. TypeOK' /\ RespondsToCommitted'
  BY ApiStepIsJointStep, JointStepKeeps
<1> DEFINE After(h) == \E e \in Envelopes : e.header = h /\ txns'[e.body.key] # NoTxn
<1>c. ASSUME NEW h, CommittedUnder(h) PROVE After(h)
  <2>1. CommittedUnder(h)'
    BY <1>c, ApiStepIsJointStep, CommittedUnderStays
  <2>2. QED
    BY <2>1 DEF CommittedUnder
<1> DEFINE Kept(r) ==
             /\ heard'[r] = 201 => After(sent'[r].header)
             /\ stage'[r] \in {"inside", "store"} => sent'[r].header # NoHeader
             /\ stage'[r] = "inside" => req'[r] = sent'[r].body
             /\ stage'[r] = "store" => heard'[r] # 0
             /\ stage'[r] = "inside" <=> pc'[r] # "idle"
           CacheKept == \A k \in Keys : cached'[k] = 201 => After(k)
           Typed == /\ cached' \in [Keys -> {201, 400, 409, 422, 500, NoResponse}]
                    /\ stage' \in [Slots -> {"out", "lookup", "inside", "store"}]
                    /\ sent' \in [Slots -> Envelopes]
                    /\ heard' \in [Slots -> {0, 201, 400, 409, 422, 500}]
<1>e. ASSUME Typed, CacheKept, \A r \in Slots : Kept(r) PROVE ApiIInv'
  <2>1. ApiTypeOK'
    BY <1>e DEF ApiTypeOK
  <2>2. ToldCreatedMeansCommitted'
    BY <1>e DEF ToldCreatedMeansCommitted, CommittedUnder
  <2>3. (\A k \in Keys : cached[k] = 201 => CommittedUnder(k))'
    BY <1>e DEF CommittedUnder
  <2>4. QED
    BY <1>0, <1>e, <2>1, <2>2, <2>3
<1>t. ASSUME NEW r \in Slots, heard[r] = 201 PROVE After(sent[r].header)
  <2>1. CommittedUnder(sent[r].header)
    BY <1>t DEF ToldCreatedMeansCommitted
  <2>2. QED
    BY <1>c, <2>1
<1>s. ASSUME NEW r \in Slots, UNCHANGED <<heard[r], sent[r], stage[r], req[r], pc[r]>> PROVE Kept(r)
  <2>1. heard'[r] = heard[r] /\ sent'[r] = sent[r]
    BY <1>s
  <2>2. ASSUME heard[r] = 201 PROVE After(sent'[r].header)
    BY <1>t, <2>1, <2>2
  <2>3. heard'[r] = 201 => After(sent'[r].header)
    BY <2>1, <2>2
  <2>4. QED
    BY <1>s, <2>3 DEF ApiTypeOK
<1>k. ASSUME UNCHANGED cached PROVE CacheKept
  BY <1>c, <1>k
<1>1. ASSUME NEW r \in Slots, NEW e \in Envelopes, Receive(r, e) PROVE ApiIInv'
  <2>1. /\ stage[r] = "out" /\ UNCHANGED <<vars, cached>>
        /\ sent' = [sent EXCEPT ![r] = e] /\ stage' = [stage EXCEPT ![r] = "lookup"]
        /\ heard' = [heard EXCEPT ![r] = 0]
    BY <1>1 DEF Receive, Enter, Relay
  <2>2. Typed
    BY <2>1 DEF ApiTypeOK
  <2>3. ASSUME NEW s \in Slots PROVE Kept(s)
    <3>1. CASE s = r
      BY <2>1, <3>1 DEF ApiTypeOK, vars
    <3>2. CASE s # r
      BY <2>1, <3>2, <1>s DEF ApiTypeOK, vars
    <3>3. QED
      BY <3>1, <3>2
  <2>4. QED
    BY <2>1, <2>2, <2>3, <1>e, <1>k
<1>2. ASSUME NEW r \in Slots, AnswerAtOnce(r) PROVE ApiIInv'
  <2>1. PICK code \in Answers(r) : Relay(r, code)
    BY <1>2 DEF AnswerAtOnce
  <2>2. /\ stage[r] = "lookup" /\ UNCHANGED <<vars, cached, sent>>
        /\ stage' = [stage EXCEPT ![r] = "out"] /\ heard' = [heard EXCEPT ![r] = code]
    BY <1>2, <2>1 DEF AnswerAtOnce, Enter, Relay
  <2>3. sent[r].header \in Keys \cup {NoHeader}
    BY EnvelopeShape DEF ApiTypeOK
  <2>4. code \in Codes /\ (code = 201 => CommittedUnder(sent[r].header))
    <3>1. CASE sent[r].header = NoHeader
      BY <3>1, <2>1 DEF Answers, Codes
    <3>2. CASE sent[r].header # NoHeader
      <4>1. sent[r].header \in Keys /\ (code = 500 \/ (code = cached[sent[r].header] /\ code # NoResponse))
        BY <2>1, <2>3, <3>2 DEF Answers
      <4>2. QED
        BY <4>1 DEF ApiTypeOK, Codes
    <3>3. QED
      BY <3>1, <3>2
  <2>5. Typed
    BY <2>2, <2>4 DEF ApiTypeOK, Codes
  <2>6. ASSUME NEW s \in Slots PROVE Kept(s)
    <3>1. CASE s = r
      <4>1. heard'[s] = code /\ stage'[s] = "out" /\ sent'[s] = sent[s] /\ pc'[s] = pc[s]
        BY <2>2, <3>1 DEF ApiTypeOK, vars
      <4>2. pc[s] = "idle"
        BY <2>2, <3>1 DEF ApiTypeOK
      <4>3. QED
        BY <4>1, <4>2, <2>4, <3>1, <1>c
    <3>2. CASE s # r
      BY <2>2, <3>2, <1>s DEF ApiTypeOK, vars
    <3>3. QED
      BY <3>1, <3>2
  <2>7. QED
    BY <2>2, <2>5, <2>6, <1>e, <1>k
<1>3. ASSUME NEW r \in Slots, Miss(r) PROVE ApiIInv'
  <2>1. /\ stage[r] = "lookup" /\ sent[r].header # NoHeader
        /\ req'[r] = sent[r].body /\ pc' = [pc EXCEPT ![r] = "validate"]
        /\ \A s \in Slots \ {r} : req'[s] = req[s]
        /\ stage' = [stage EXCEPT ![r] = "inside"] /\ UNCHANGED <<cached, sent, heard>>
    BY <1>3 DEF Miss, Submit, Goto, Enter, TypeOK
  <2>2. Typed
    BY <2>1 DEF ApiTypeOK
  <2>3. ASSUME NEW s \in Slots PROVE Kept(s)
    <3>1. CASE s = r
      <4>1. /\ stage'[s] = "inside" /\ pc'[s] = "validate" /\ sent'[s] = sent[s] /\ heard'[s] = heard[s]
            /\ req'[s] = sent'[s].body /\ sent'[s].header # NoHeader
        BY <2>1, <3>1 DEF ApiTypeOK, TypeOK
      <4>2. heard[s] = 201 => After(sent[s].header)
        BY <1>t
      <4>3. QED
        BY <4>1, <4>2
    <3>2. CASE s # r
      BY <2>1, <3>2, <1>s DEF ApiTypeOK, TypeOK
    <3>3. QED
      BY <3>1, <3>2
  <2>4. QED
    BY <2>1, <2>2, <2>3, <1>e, <1>k
<1>4. ASSUME NEW r \in Slots, ServeHTTP(r) PROVE ApiIInv'
  <2>1. /\ stage[r] = "inside" /\ UNCHANGED <<cached, sent, req>> /\ pc[r] # "idle"
        /\ \A s \in Slots \ {r} : pc'[s] = pc[s]
        /\ pc'[r] = "idle" => reply'[r] \in Codes
    BY <1>4, ServeFacts DEF ServeHTTP
  <2>2. sent[r].header # NoHeader /\ req[r] = sent[r].body
    BY <2>1
  <2>3. CASE pc'[r] = "idle"
    <3>1. heard' = [heard EXCEPT ![r] = reply'[r]] /\ stage' = [stage EXCEPT ![r] = "store"]
      BY <1>4, <2>3 DEF ServeHTTP, Relay, Enter
    <3>2. reply'[r] = 201 => CommittedUnder(sent[r].header)
      <4>1. SUFFICES ASSUME reply'[r] = 201 PROVE CommittedUnder(sent[r].header)
        OBVIOUS
      <4>2. [Next]_vars /\ Answered(r, 201)
        BY <1>4, <2>1, <2>3, <4>1 DEF ServeHTTP, Next, Handle, Answered
      <4>3. txns[req[r].key] # NoTxn
        BY <4>2, OnlyRespondCreates DEF Respond, RespondsToCommitted
      <4>4. QED
        BY <2>2, <4>3 DEF CommittedUnder, ApiTypeOK
    <3>3. Typed
      BY <2>1, <2>3, <3>1 DEF ApiTypeOK, Codes
    <3>4. ASSUME NEW s \in Slots PROVE Kept(s)
      <4>1. CASE s = r
        <5>1. heard'[s] = reply'[r] /\ stage'[s] = "store" /\ sent'[s] = sent[s] /\ reply'[r] # 0
          BY <2>1, <2>3, <3>1, <4>1 DEF ApiTypeOK, Codes
        <5>2. QED
          BY <1>c, <2>2, <2>3, <3>2, <4>1, <5>1
      <4>2. CASE s # r
        BY <2>1, <3>1, <4>2, <1>s DEF ApiTypeOK
      <4>3. QED
        BY <4>1, <4>2
    <3>5. QED
      BY <2>1, <3>3, <3>4, <1>e, <1>k
  <2>4. CASE pc'[r] # "idle"
    <3>1. UNCHANGED <<heard, stage>>
      BY <1>4, <2>4 DEF ServeHTTP
    <3>2. Typed
      BY <2>1, <3>1 DEF ApiTypeOK
    <3>3. ASSUME NEW s \in Slots PROVE Kept(s)
      <4>1. CASE s = r
        <5>1. /\ heard'[s] = heard[s] /\ stage'[s] = "inside" /\ sent'[s] = sent[s] /\ req'[s] = req[s]
              /\ pc'[s] # "idle"
          BY <2>1, <2>4, <3>1, <4>1
        <5>2. heard[s] = 201 => After(sent[s].header)
          BY <1>t
        <5>3. QED
          BY <2>2, <4>1, <5>1, <5>2
      <4>2. CASE s # r
        BY <2>1, <3>1, <4>2, <1>s
      <4>3. QED
        BY <4>1, <4>2
    <3>4. QED
      BY <2>1, <3>2, <3>3, <1>e, <1>k
  <2>5. QED
    BY <2>3, <2>4
<1>5. ASSUME NEW r \in Slots, Store(r) PROVE ApiIInv'
  <2>1. /\ stage[r] = "store" /\ UNCHANGED <<vars, sent, heard>>
        /\ stage' = [stage EXCEPT ![r] = "out"]
        /\ cached' = cached \/ cached' = [cached EXCEPT ![sent[r].header] = heard[r]]
    BY <1>5 DEF Store, Enter
  <2>2. sent[r].header \in Keys /\ heard[r] \in Codes
    BY <2>1, EnvelopeShape DEF ApiTypeOK, Codes
  <2>3. Typed
    BY <2>1, <2>2 DEF ApiTypeOK, Codes
  <2>4. CacheKept
    <3>1. ASSUME NEW k \in Keys, cached'[k] = 201 PROVE CommittedUnder(k)
      BY <2>1, <2>2, <3>1 DEF ToldCreatedMeansCommitted, ApiTypeOK
    <3>2. QED
      BY <1>c, <3>1
  <2>5. ASSUME NEW s \in Slots PROVE Kept(s)
    <3>1. CASE s = r
      <4>1. stage'[s] = "out" /\ heard'[s] = heard[s] /\ sent'[s] = sent[s] /\ pc'[s] = pc[s]
        BY <2>1, <3>1 DEF ApiTypeOK, vars
      <4>2. heard[s] = 201 => After(sent[s].header)
        BY <1>t
      <4>3. pc[s] = "idle"
        BY <2>1, <3>1 DEF ApiTypeOK
      <4>4. QED
        BY <4>1, <4>2, <4>3
    <3>2. CASE s # r
      BY <2>1, <3>2, <1>s DEF ApiTypeOK, vars
    <3>3. QED
      BY <3>1, <3>2
  <2>6. QED
    BY <2>3, <2>4, <2>5, <1>e
<1>6. ASSUME NEW k \in Keys, Forget(k) PROVE ApiIInv'
  <2>1. cached' = [cached EXCEPT ![k] = NoResponse] /\ UNCHANGED <<vars, stage, sent, heard>>
    BY <1>6 DEF Forget
  <2>2. Typed
    BY <2>1 DEF ApiTypeOK
  <2>3. CacheKept
    <3>1. ASSUME NEW j \in Keys, cached'[j] = 201 PROVE cached[j] = 201
      BY <2>1, <3>1, EnvelopesAssumption DEF ApiTypeOK
    <3>2. QED
      BY <1>c, <3>1
  <2>4. \A s \in Slots : Kept(s)
    BY <2>1, <1>s DEF vars
  <2>5. QED
    BY <2>2, <2>3, <2>4, <1>e
<1>7. ASSUME UNCHANGED <<pc, req, middlewareVars>> PROVE ApiIInv'
  <2>1. Typed
    BY <1>7 DEF ApiTypeOK, middlewareVars
  <2>2. \A s \in Slots : Kept(s)
    BY <1>7, <1>s DEF middlewareVars
  <2>3. QED
    BY <1>7, <2>1, <2>2, <1>e, <1>k DEF middlewareVars
<1>8. ASSUME NEW a \in Accounts, NEW s \in Statuses, SetStatus(a, s), UNCHANGED middlewareVars
      PROVE  ApiIInv'
  BY <1>7, <1>8 DEF SetStatus
<1>9. ASSUME NEW due \in [Accounts -> InterestDue], PayInterest(due), UNCHANGED middlewareVars
      PROVE  ApiIInv'
  BY <1>7, <1>9 DEF PayInterest
<1>10. CASE UNCHANGED apiVars
  BY <1>7, <1>10 DEF apiVars, vars
<1>11. CASE ApiNext
  BY <1>1, <1>2, <1>3, <1>4, <1>5, <1>6, <1>8, <1>9, <1>11 DEF ApiNext, Pass
<1>12. QED
  BY <1>10, <1>11

\* At the start nobody has been told anything.
LEMMA InitApiIInv == ApiInit => ApiIInv
<1> SUFFICES ASSUME ApiInit PROVE ApiIInv
  OBVIOUS
<1>1. TypeOK /\ RespondsToCommitted
  BY InitTypeOK DEF ApiInit, JointInit, Init, RespondsToCommitted
<1>2. ApiTypeOK
  <2>1. (CHOOSE e \in Envelopes : TRUE) \in Envelopes
    BY EnvelopesAssumption
  <2>2. QED
    BY <2>1 DEF ApiInit, ApiTypeOK, JointInit, Init
<1>3. QED
  BY <1>1, <1>2, EnvelopesAssumption DEF ApiInit, ApiIInv, ToldCreatedMeansCommitted

\* The middleware's types, and what makes its answers true.
THEOREM ApiInvariant == ApiSpec => []ApiIInv
<1>1. QED
  BY InitApiIInv, NextApiIInv, PTL DEF ApiSpec

\* Whoever is told 201, from the engine or from the cache, has a committed transaction:
\* whatever fails, and however long ago the response was stored.
THEOREM ToldIsCommitted == ApiSpec => []ToldCreatedMeansCommitted
<1>1. ApiIInv => ToldCreatedMeansCommitted
  BY DEF ApiIInv
<1>2. QED
  BY <1>1, ApiInvariant, PTL
----------------------------------------------------------------------------
\* THE ACCOUNT SERVICE does to the engine's state nothing but open, freeze and close
\* accounts, with any number of clerks and requests, and with anything failing: what is
\* proved of the engine therefore holds in the composed system too.

\* The service starts in the invariant.
LEMMA InitCoreInv == CoreInit => CoreIInv
<1> SUFFICES ASSUME CoreInit PROVE CoreIInv
  OBVIOUS
<1>1. status \in [Accounts -> Statuses]
  BY DEF CoreInit, Init, Statuses
<1> QED
  BY <1>1, TasksAssumption
     DEF CoreInit, CoreIInv, AccountTypeOK, ClerksOK, Statuses, Ops

\* No step of a request changes an account's state.
LEMMA RequestsKeepStatus == ASSUME NEW r \in Slots, Handle(r) PROVE UNCHANGED status
<1>1. ASSUME NEW code, Answer(r, code) PROVE UNCHANGED status
  BY <1>1 DEF Answer
<1>2. CASE Submit(r)
  BY <1>2 DEF Submit
<1>3. CASE Work(r)
  BY <1>1, <1>3 DEF Work, Validate, CheckKey, VerifyAccount, TakeSnapshot, LockRows,
       InsufficientFunds, Post, DuplicateKey, Commit, Respond
<1>4. CASE Fault(r)
  BY <1>1, <1>4 DEF Fault
<1> QED
  BY <1>2, <1>3, <1>4 DEF Handle

\* A clerk that answers, or goes on to a step other than "create", keeps the invariant if the
\* tables keep their types and no account that is being created gets a row.
LEMMA ClerkMoves ==
    ASSUME CoreIInv, NEW c \in Clerks, at[c] # "idle",
           status' \in [Accounts -> Statuses],
           version' \in [Accounts -> Nat],
           holds' \in [HoldIds -> HoldType \cup {NoHold}],
           cache' \in [Accounts -> Statuses \cup {NoEntry}],
           \/ \E code \in {200, 201, 404, 409, 500} : Tell(c, code)
           \/ \E l \in {"closing", "invalidate", "load", "fill", "holding"} :
                /\ Move(c, l)
                /\ got' \in [Clerks -> Statuses]
                /\ UNCHANGED <<task, told>>,
           \A d \in Clerks \ {c} : at[d] = "create" => status'[task[d].account] = "ABSENT"
    PROVE  CoreIInv'
<1> USE DEF CoreIInv, AccountTypeOK
<1>1. \A d \in Clerks \ {c} : at'[d] = at[d] /\ task'[d] = task[d]
  BY DEF Tell, Move
<1>2. at'[c] # "create"
  BY DEF Tell, Move
<1>3. /\ at' \in [Clerks -> Ops \cup {"idle", "closing", "invalidate", "load", "fill", "holding"}]
      /\ task' \in [Clerks -> Tasks \cup {NoTask}]
      /\ got' \in [Clerks -> Statuses]
      /\ told' \in [Clerks -> {0, 200, 201, 404, 409, 500}]
  BY DEF Tell, Move, Statuses
<1>4. at'[c] # "idle" => task'[c] \in Tasks
  BY DEF Tell, Move, ClerksOK
<1>5. ClerksOK'
  BY <1>1, <1>2, <1>4 DEF ClerksOK
<1> QED
  BY <1>3, <1>5

\* What every step of a busy clerk may rely on.
LEMMA BusyClerk ==
    ASSUME CoreIInv, NEW c \in Clerks, at[c] # "idle"
    PROVE  task[c].account \in Accounts /\ task[c].amount \in Nat
  BY TasksAssumption DEF CoreIInv, ClerksOK

\* A status change keeps the tables' types, and leaves alone the accounts being created.
LEMMA StatusChange ==
    ASSUME CoreIInv, NEW a \in Accounts, NEW s \in {"ACTIVE", "FROZEN", "CLOSED"}, ChangeStatus(a, s)
    PROVE  /\ status' \in [Accounts -> Statuses]
           /\ version' \in [Accounts -> Nat]
           /\ holds' \in [HoldIds -> HoldType \cup {NoHold}]
           /\ cache' \in [Accounts -> Statuses \cup {NoEntry}]
           /\ \A b \in Accounts \ {a} : status'[b] = status[b]
<1> USE DEF CoreIInv, AccountTypeOK, ChangeStatus
<1>1. status' \in [Accounts -> Statuses] /\ \A b \in Accounts \ {a} : status'[b] = status[b]
  BY DEF Statuses
<1> QED
  BY <1>1

\* The tables of a step that changes nothing.
LEMMA NoChangeTypes ==
    ASSUME CoreIInv, NoChange
    PROVE  /\ status' \in [Accounts -> Statuses]
           /\ version' \in [Accounts -> Nat]
           /\ holds' \in [HoldIds -> HoldType \cup {NoHold}]
           /\ cache' \in [Accounts -> Statuses \cup {NoEntry}]
           /\ \A d \in Clerks : at[d] = "create" => status'[task[d].account] = "ABSENT"
  BY DEF CoreIInv, AccountTypeOK, ClerksOK, NoChange, vars

\* Every step of the composed system keeps the invariant.
LEMMA NextCoreInv == CoreIInv /\ [CoreNext]_coreVars => CoreIInv'
<1> SUFFICES ASSUME CoreIInv, [CoreNext]_coreVars PROVE CoreIInv'
  OBVIOUS
<1>1. ASSUME NEW r \in Slots, Handle(r), UNCHANGED accountVars PROVE CoreIInv'
  BY <1>1, RequestsKeepStatus DEF CoreIInv, AccountTypeOK, ClerksOK, accountVars
<1>2. ASSUME NEW c \in Clerks, Call(c) PROVE CoreIInv'
  <2>1. PICK t \in Tasks :
          /\ t.op = "create" =>
              /\ status[t.account] = "ABSENT"
              /\ \A d \in Clerks : at[d] = "create" => task[d].account # t.account
          /\ task' = [task EXCEPT ![c] = t]
          /\ Move(c, t.op)
    BY <1>2 DEF Call
  <2>2. /\ told' = [told EXCEPT ![c] = 0]
        /\ UNCHANGED <<vars, version, announced, holds, cache, got>>
    BY <1>2 DEF Call
  <2>3. t.op \in Ops
    BY TasksAssumption
  <2>4. AccountTypeOK'
    BY <2>1, <2>2, <2>3 DEF CoreIInv, AccountTypeOK, Move, vars
  <2>5. /\ at'[c] = t.op /\ task'[c] = t
        /\ \A d \in Clerks \ {c} : at'[d] = at[d] /\ task'[d] = task[d]
        /\ status' = status
    BY <2>1, <2>2 DEF CoreIInv, AccountTypeOK, Move, vars
  <2>6. ClerksOK'
    BY <2>1, <2>5 DEF CoreIInv, ClerksOK
  <2> QED
    BY <2>4, <2>6 DEF CoreIInv
<1>3. ASSUME NEW c \in Clerks, CreateAccount(c) PROVE CoreIInv'
  <2>1. task[c].account \in Accounts
    BY <1>3, BusyClerk DEF CreateAccount
  <2>2. \A d \in Clerks \ {c} : at[d] = "create" => task[d].account \in Accounts \ {task[c].account}
    BY <1>3, BusyClerk DEF CreateAccount, CoreIInv, ClerksOK
  <2>3. \A d \in Clerks \ {c} : at[d] = "create" => status'[task[d].account] = "ABSENT"
    BY <1>3, <2>1, <2>2, StatusChange DEF CreateAccount, CoreIInv, ClerksOK
  <2> QED
    BY <1>3, <2>1, <2>3, StatusChange, ClerkMoves DEF CreateAccount
<1>4. ASSUME NEW c \in Clerks, at[c] # "idle", NEW s \in {"FROZEN", "CLOSED"},
             status[task[c].account] # "ABSENT",
             ChangeStatus(task[c].account, s), Proceed(c, "invalidate")
      PROVE  CoreIInv'
  <2>1. task[c].account \in Accounts
    BY <1>4, BusyClerk
  <2>2. \A d \in Clerks : at[d] = "create" => task[d].account \in Accounts \ {task[c].account}
    BY <1>4, BusyClerk DEF CoreIInv, ClerksOK
  <2>3. \A d \in Clerks \ {c} : at[d] = "create" => status'[task[d].account] = "ABSENT"
    BY <1>4, <2>1, <2>2, StatusChange DEF CoreIInv, ClerksOK
  <2>4. got' \in [Clerks -> Statuses]
    BY <1>4 DEF Proceed, CoreIInv, AccountTypeOK
  <2> QED
    BY <1>4, <2>1, <2>3, <2>4, StatusChange, ClerkMoves DEF Proceed
<1>5. ASSUME NEW c \in Clerks, at[c] # "idle", NoChange,
             \/ \E code \in {200, 201, 404, 409, 500} : Tell(c, code)
             \/ \E l \in {"closing", "load", "holding"} : Proceed(c, l)
      PROVE  CoreIInv'
  <2>1. (\E l \in {"closing", "load", "holding"} : Proceed(c, l)) => got' \in [Clerks -> Statuses]
    BY DEF Proceed, CoreIInv, AccountTypeOK
  <2> QED
    BY <1>5, <2>1, NoChangeTypes, ClerkMoves DEF Proceed
<1>6. ASSUME NEW c \in Clerks, FreezeAccount(c) PROVE CoreIInv'
  BY <1>4, <1>5, <1>6 DEF FreezeAccount
<1>7. ASSUME NEW c \in Clerks, CheckZeroBalance(c) \/ LookUpCache(c) \/ CheckAvailable(c) \/ ClerkFault(c)
      PROVE  CoreIInv'
  BY <1>5, <1>7 DEF CheckZeroBalance, LookUpCache, CheckAvailable, ClerkFault
<1>8. ASSUME NEW c \in Clerks, CloseRow(c) PROVE CoreIInv'
  BY <1>4, <1>5, <1>8 DEF CloseRow
<1>9. ASSUME NEW c \in Clerks, Invalidate(c) \/ FillCache(c) PROVE CoreIInv'
  <2>1. at[c] # "idle" /\ Tell(c, 200) /\ UNCHANGED <<status, version, announced, holds>>
    BY <1>9 DEF Invalidate, FillCache, vars
  <2>2. cache' \in [Accounts -> Statuses \cup {NoEntry}]
    BY <1>9 DEF Invalidate, FillCache, CoreIInv, AccountTypeOK
  <2>3. \A d \in Clerks : at[d] = "create" => status'[task[d].account] = "ABSENT"
    BY <2>1 DEF CoreIInv, ClerksOK
  <2> QED
    BY <2>1, <2>2, <2>3, ClerkMoves DEF CoreIInv, AccountTypeOK
<1>10. ASSUME NEW c \in Clerks, LoadRow(c) PROVE CoreIInv'
  <2>1. CASE Tell(c, 404)
    BY <1>5, <1>10, <2>1 DEF LoadRow
  <2>2. CASE /\ got' = [got EXCEPT ![c] = status[task[c].account]]
             /\ Move(c, "fill")
             /\ UNCHANGED <<task, told>>
    <3>1. at[c] # "idle" /\ NoChange
      BY <1>10 DEF LoadRow
    <3>2. status[task[c].account] \in Statuses
      BY <3>1, BusyClerk DEF CoreIInv, AccountTypeOK
    <3>3. got' \in [Clerks -> Statuses]
      BY <2>2, <3>2 DEF CoreIInv, AccountTypeOK
    <3> QED
      BY <2>2, <3>1, <3>3, NoChangeTypes, ClerkMoves
  <2> QED
    BY <1>10, <2>1, <2>2 DEF LoadRow
<1>11. ASSUME NEW c \in Clerks, InsertHold(c) PROVE CoreIInv'
  <2>1. at[c] # "idle" /\ Tell(c, 201) /\ UNCHANGED <<status, version, cache>>
    BY <1>11 DEF InsertHold, vars
  <2>2. task[c].account \in Accounts /\ task[c].amount \in Nat
    BY <2>1, BusyClerk
  <2>3. holds' \in [HoldIds -> HoldType \cup {NoHold}]
    BY <1>11, <2>2 DEF InsertHold, HoldType, CoreIInv, AccountTypeOK
  <2>5. \A d \in Clerks : at[d] = "create" => status'[task[d].account] = "ABSENT"
    BY <2>1 DEF CoreIInv, ClerksOK
  <2>4. /\ status' \in [Accounts -> Statuses]
        /\ version' \in [Accounts -> Nat]
        /\ cache' \in [Accounts -> Statuses \cup {NoEntry}]
    BY <2>1 DEF CoreIInv, AccountTypeOK
  <2> QED
    BY <2>1, <2>3, <2>4, <2>5, ClerkMoves
<1>12. ASSUME NEW h \in HoldIds, ReleaseHold(h) PROVE CoreIInv'
  <2>0. holds[h] # NoHold /\ holds[h] \in HoldType \cup {NoHold}
    BY <1>12 DEF ReleaseHold, CoreIInv, AccountTypeOK
  <2>1. holds[h] \in HoldType
    BY <2>0
  <2>2. [holds[h] EXCEPT !.released = TRUE] \in HoldType
    BY <2>1 DEF HoldType
  <2>3. holds' \in [HoldIds -> HoldType \cup {NoHold}]
    BY <1>12, <2>2 DEF ReleaseHold, CoreIInv, AccountTypeOK
  <2> QED
    BY <1>12, <2>3 DEF ReleaseHold, CoreIInv, AccountTypeOK, ClerksOK, vars
<1>13. ASSUME NEW a \in Accounts, Expire(a) PROVE CoreIInv'
  BY <1>13 DEF Expire, CoreIInv, AccountTypeOK, ClerksOK, vars
<1>14. CASE UNCHANGED coreVars
  BY <1>14 DEF coreVars, accountVars, vars, CoreIInv, AccountTypeOK, ClerksOK
<1> QED
  BY <1>1, <1>2, <1>3, <1>6, <1>7, <1>8, <1>9, <1>10, <1>11, <1>12, <1>13, <1>14
     DEF CoreNext, Serve

\* Clerks stay in their types and never create an account that is there, whatever races
\* or fails.
THEOREM AccountServiceInvariant == CoreSpec => []CoreIInv
  BY InitCoreInv, NextCoreInv, PTL DEF CoreSpec

\* A step of the composed system is a step of the engine.
LEMMA CoreStepIsEngineStep ==
    ASSUME StatusMoves = {<<"ABSENT", "ACTIVE">>, <<"ACTIVE", "FROZEN">>,
                          <<"ACTIVE", "CLOSED">>, <<"FROZEN", "CLOSED">>},
           CoreIInv, [CoreNext]_coreVars
    PROVE  [Next]_vars
<1>1. ASSUME NEW c \in Clerks, at[c] # "idle", NEW s \in Statuses, ChangeStatus(task[c].account, s),
             status[task[c].account] = s \/ <<status[task[c].account], s>> \in StatusMoves
      PROVE  [Next]_vars
  <2>1. task[c].account \in Accounts
    BY <1>1, BusyClerk
  <2>2. CASE status[task[c].account] = s
    <3>1. status' = [status EXCEPT ![task[c].account] = status[task[c].account]]
      BY <1>1, <2>2 DEF ChangeStatus
    <3>2. status' = status
      BY <3>1 DEF CoreIInv, AccountTypeOK
    <3> QED
      BY <1>1, <3>2 DEF ChangeStatus, vars
  <2>3. CASE <<status[task[c].account], s>> \in StatusMoves
    <3>1. SetStatus(task[c].account, s)
      BY <1>1, <2>3 DEF ChangeStatus, SetStatus, RowFree
    <3> QED
      BY <2>1, <3>1 DEF Next
  <2> QED
    BY <1>1, <2>2, <2>3
<1>2. ASSUME NEW c \in Clerks, Serve(c) PROVE [Next]_vars
  <2>1. CASE CreateAccount(c)
    BY <1>1, <2>1 DEF CreateAccount, CoreIInv, ClerksOK, Statuses
  <2>2. CASE FreezeAccount(c)
    <3>1. CASE status[task[c].account] = "ACTIVE" /\ ChangeStatus(task[c].account, "FROZEN")
      BY <1>1, <2>2, <3>1 DEF FreezeAccount, Statuses
    <3>2. CASE NoChange
      BY <3>2 DEF NoChange
    <3> QED
      BY <2>2, <3>1, <3>2 DEF FreezeAccount
  <2>3. CASE CloseRow(c)
    <3>0. task[c].account \in Accounts
      BY <2>3, BusyClerk DEF CloseRow
    <3>1. status[task[c].account] \in Statuses
      BY <3>0 DEF CoreIInv, AccountTypeOK
    <3>2. CASE status[task[c].account] # "ABSENT" /\ ChangeStatus(task[c].account, "CLOSED")
      <4>1. \/ status[task[c].account] = "CLOSED"
            \/ <<status[task[c].account], "CLOSED">> \in StatusMoves
        BY <3>1, <3>2 DEF Statuses
      <4> QED
        BY <1>1, <2>3, <3>2, <4>1 DEF CloseRow, Statuses
    <3>3. CASE NoChange
      BY <3>3 DEF NoChange
    <3> QED
      BY <2>3, <3>2, <3>3 DEF CloseRow
  <2>4. CASE \/ CheckZeroBalance(c) \/ Invalidate(c) \/ LookUpCache(c) \/ LoadRow(c)
             \/ FillCache(c) \/ CheckAvailable(c) \/ InsertHold(c)
    BY <2>4 DEF CheckZeroBalance, Invalidate, LookUpCache, LoadRow, FillCache, CheckAvailable,
         InsertHold, NoChange
  <2> QED
    BY <1>2, <2>1, <2>2, <2>3, <2>4 DEF Serve
<1>3. ASSUME NEW r \in Slots, Handle(r) PROVE [Next]_vars
  BY <1>3 DEF Next
<1>4. \A c \in Clerks : Call(c) \/ ClerkFault(c) => UNCHANGED vars
  BY DEF Call, ClerkFault, NoChange
<1>5. \A h \in HoldIds : ReleaseHold(h) => UNCHANGED vars
  BY DEF ReleaseHold
<1>6. \A a \in Accounts : Expire(a) => UNCHANGED vars
  BY DEF Expire
<1>7. UNCHANGED coreVars => UNCHANGED vars
  BY DEF coreVars
<1> QED
  BY <1>2, <1>3, <1>4, <1>5, <1>6, <1>7 DEF CoreNext

\* The composed system implements the engine: every theorem about Spec is one about CoreSpec.
THEOREM AccountsKeepTheEngine ==
    ASSUME StatusMoves = {<<"ABSENT", "ACTIVE">>, <<"ACTIVE", "FROZEN">>,
                          <<"ACTIVE", "CLOSED">>, <<"FROZEN", "CLOSED">>}
    PROVE  CoreSpec => EngineUnderAccounts
<1>1. CoreInit => Init
  BY DEF CoreInit
<1>2. CoreIInv /\ [CoreNext]_coreVars => [Next]_vars
  BY CoreStepIsEngineStep
<1> QED
  BY <1>1, <1>2, AccountServiceInvariant, PTL DEF CoreSpec, Spec, EngineUnderAccounts

\* Opening, freezing, closing and encumbering accounts lets nobody overdraw them further.
THEOREM OverdraftBoundedUnderAccounts ==
    ASSUME StatusMoves = {<<"ABSENT", "ACTIVE">>, <<"ACTIVE", "FROZEN">>,
                          <<"ACTIVE", "CLOSED">>, <<"FROZEN", "CLOSED">>}
    PROVE  CoreSpec => []OverdraftBounded
  BY AccountsKeepTheEngine, OverdraftStaysBounded DEF EngineUnderAccounts
----------------------------------------------------------------------------
\* Events

\* The events of an account are a sequence of names.
EventNames == {"AccountCreated", "AccountFrozen", "AccountClosed", "HoldPlaced"}
Story == announced \in [Accounts -> Seq(EventNames)]

\* Appending a name keeps what was there.
LEMMA OneMoreEvent ==
    ASSUME NEW s \in Seq(EventNames), NEW e \in EventNames
    PROVE  /\ Append(s, e) \in Seq(EventNames)
           /\ Len(s) \in Nat /\ Len(Append(s, e)) = Len(s) + 1
           /\ \A i \in 1 .. Len(s) : Append(s, e)[i] = s[i]
           /\ Append(s, e)[Len(s) + 1] = e
<1>1. /\ Append(s, e) \in Seq(EventNames) /\ Len(Append(s, e)) = Len(s) + 1
      /\ \A i \in 1 .. Len(s) : Append(s, e)[i] = s[i]
      /\ Append(s, e)[Len(s) + 1] = e
  BY AppendProperties
<1>2. Len(s) \in Nat
  BY LenProperties
<1> QED
  BY <1>1, <1>2

\* The events of a change of state are changes, and the last ones.
LEMMA ChangeIsTold ==
    ASSUME CoreIInv, Story, EventsTellTheState,
           NEW a \in Accounts, NEW s \in {"ACTIVE", "FROZEN", "CLOSED"}, ChangeStatus(a, s)
    PROVE  Story' /\ EventsTellTheState'
<1> DEFINE n == Len(announced[a])
<1>1. announced' = [announced EXCEPT ![a] = Append(@, EventOf(s))]
      /\ status' = [status EXCEPT ![a] = s] /\ version' = [version EXCEPT ![a] = @ + 1]
  BY DEF ChangeStatus
<1>2. EventOf(s) \in EventNames /\ EventOf(s) # "HoldPlaced"
  <2>1. CASE s = "ACTIVE"
    BY <2>1 DEF EventOf, EventNames
  <2>2. CASE s = "FROZEN"
    BY <2>2 DEF EventOf, EventNames
  <2>3. CASE s = "CLOSED"
    BY <2>3 DEF EventOf, EventNames
  <2> QED
    BY <2>1, <2>2, <2>3
<1>3. announced'[a] = Append(announced[a], EventOf(s)) /\ announced[a] \in Seq(EventNames)
  BY <1>1 DEF Story
<1>4. /\ announced'[a] \in Seq(EventNames) /\ n \in Nat /\ Len(announced'[a]) = n + 1
      /\ \A i \in 1 .. n : announced'[a][i] = announced[a][i]
      /\ announced'[a][n + 1] = EventOf(s)
  BY <1>2, <1>3, OneMoreEvent
<1>5. Story'
  BY <1>1, <1>3, <1>4 DEF Story
<1> HIDE DEF n
<1>6. Changes(a)' = Changes(a) \cup {n + 1} /\ n + 1 \notin Changes(a)
      /\ \A j \in Changes(a)' : j <= n + 1
  <2>1. Changes(a) = {i \in 1 .. n : announced[a][i] # "HoldPlaced"}
    BY DEF Changes, n
  <2>2. Changes(a)' = {i \in 1 .. n + 1 : announced'[a][i] # "HoldPlaced"}
    BY <1>4 DEF Changes
  <2> QED
    BY <1>2, <1>4, <2>1, <2>2
<1>7. IsFiniteSet(Changes(a))
  <2>1. Changes(a) \subseteq 1 .. n
    BY DEF Changes, n
  <2>2. IsFiniteSet(1 .. n)
    <3>1. n \in Int /\ 1 \in Int
      BY <1>4
    <3> QED
      BY <3>1, FS_Interval
  <2> QED
    BY <2>1, <2>2, FS_Subset
<1>8. Cardinality(Changes(a)') = version'[a]
  <2>1. Cardinality(Changes(a)') = Cardinality(Changes(a)) + 1
    BY <1>6, <1>7, FS_AddElement
  <2> QED
    BY <1>1, <2>1 DEF EventsTellTheState, CoreIInv, AccountTypeOK
<1>9. \E i \in Changes(a)' : /\ \A j \in Changes(a)' : j <= i
                            /\ announced'[a][i] = EventOf(status'[a])
  <2>1. status'[a] = s
    BY <1>1 DEF CoreIInv, AccountTypeOK
  <2> QED
    BY <1>4, <1>6, <2>1
<1>10. ASSUME NEW b \in Accounts \ {a}
       PROVE  announced'[b] = announced[b] /\ status'[b] = status[b] /\ version'[b] = version[b]
              /\ Changes(b)' = Changes(b) /\ EventOf(status'[b]) = EventOf(status[b])
  BY <1>1 DEF Story, CoreIInv, AccountTypeOK, Changes
<1>11. ASSUME NEW b \in Accounts
       PROVE  /\ Cardinality(Changes(b)') = version'[b]
              /\ status'[b] # "ABSENT" =>
                  \E i \in Changes(b)' : /\ \A j \in Changes(b)' : j <= i
                                         /\ announced'[b][i] = EventOf(status'[b])
  <2>1. CASE b = a
    BY <1>8, <1>9, <2>1
  <2>2. CASE b # a
    BY <1>10, <2>2 DEF EventsTellTheState
  <2> QED
    BY <2>1, <2>2
<1> QED
  BY <1>5, <1>11 DEF EventsTellTheState, EventOf

\* A hold adds an event that is no change of state.
LEMMA HoldIsToldApart ==
    ASSUME CoreIInv, Story, EventsTellTheState, NEW c \in Clerks, InsertHold(c)
    PROVE  Story' /\ EventsTellTheState'
<1>1. PICK a \in Accounts : a = task[c].account
  BY BusyClerk DEF InsertHold
<1>2. announced' = [announced EXCEPT ![a] = Append(@, "HoldPlaced")]
      /\ UNCHANGED <<status, version>>
  BY <1>1 DEF InsertHold, vars
<1> DEFINE n == Len(announced[a])
<1>3. announced'[a] = Append(announced[a], "HoldPlaced") /\ announced[a] \in Seq(EventNames)
  BY <1>1, <1>2 DEF Story
<1>4. /\ announced'[a] \in Seq(EventNames) /\ n \in Nat /\ Len(announced'[a]) = n + 1
      /\ \A i \in 1 .. n : announced'[a][i] = announced[a][i]
      /\ announced'[a][n + 1] = "HoldPlaced"
  BY <1>3, OneMoreEvent DEF EventNames
<1>5. Story'
  BY <1>1, <1>2, <1>3, <1>4 DEF Story
<1> HIDE DEF n
<1>6. Changes(a)' = Changes(a) /\ \A i \in Changes(a) : announced'[a][i] = announced[a][i]
  <2>1. Changes(a) = {i \in 1 .. n : announced[a][i] # "HoldPlaced"}
    BY DEF Changes, n
  <2>2. Changes(a)' = {i \in 1 .. n + 1 : announced'[a][i] # "HoldPlaced"}
    BY <1>4 DEF Changes
  <2> QED
    BY <1>4, <2>1, <2>2
<1>7. ASSUME NEW b \in Accounts
      PROVE  Changes(b)' = Changes(b) /\ \A i \in Changes(b) : announced'[b][i] = announced[b][i]
  <2>1. CASE b = a
    BY <1>6, <2>1 DEF Changes
  <2>2. CASE b # a
    <3>1. announced'[b] = announced[b]
      BY <1>1, <1>2, <2>2 DEF Story
    <3> QED
      BY <3>1 DEF Changes
  <2> QED
    BY <2>1, <2>2
<1> QED
  BY <1>2, <1>5, <1>7 DEF EventsTellTheState, EventOf

\* The other steps of clerks change neither states nor events.
LEMMA OtherStepsTellNothing ==
    ASSUME CoreIInv, [CoreNext]_coreVars,
           ~ \E c \in Clerks : CreateAccount(c) \/ FreezeAccount(c) \/ CloseRow(c) \/ InsertHold(c)
    PROVE  UNCHANGED <<status, version, announced>>
<1>1. ASSUME NEW r \in Slots, Handle(r), UNCHANGED accountVars
      PROVE  UNCHANGED <<status, version, announced>>
  BY <1>1, RequestsKeepStatus DEF accountVars
<1>2. ASSUME NEW c \in Clerks,
             \/ Call(c) \/ CheckZeroBalance(c) \/ LookUpCache(c) \/ LoadRow(c) \/ CheckAvailable(c)
             \/ Invalidate(c) \/ FillCache(c) \/ ClerkFault(c)
      PROVE  UNCHANGED <<status, version, announced>>
  BY <1>2 DEF Call, CheckZeroBalance, LookUpCache, LoadRow, CheckAvailable, Invalidate, FillCache,
       ClerkFault, NoChange, vars
<1>3. ASSUME NEW h \in HoldIds, ReleaseHold(h) PROVE UNCHANGED <<status, version, announced>>
  BY <1>3 DEF ReleaseHold, vars
<1>4. ASSUME NEW a \in Accounts, Expire(a) PROVE UNCHANGED <<status, version, announced>>
  BY <1>4 DEF Expire, vars
<1>5. CASE UNCHANGED coreVars
  BY <1>5 DEF coreVars, vars, accountVars
<1> QED
  BY <1>1, <1>2, <1>3, <1>4, <1>5 DEF CoreNext, Serve

\* The outbox tells the whole life of every account, one event for each version of its row,
\* whatever fails or races.
THEOREM EventsAreTheStory == CoreSpec => []EventsTellTheState
<1> DEFINE Inv == CoreIInv /\ Story /\ EventsTellTheState
<1>1. CoreInit => Inv
  <2> SUFFICES ASSUME CoreInit PROVE Story /\ EventsTellTheState
    BY InitCoreInv
  <2>1. ASSUME NEW a \in Accounts, a \in Opened
        PROVE  /\ announced[a] = <<"AccountCreated">> /\ announced[a] \in Seq(EventNames)
               /\ version[a] = 1 /\ Changes(a) = {1} /\ EventOf(status[a]) = "AccountCreated"
    <3>1. announced[a] = <<"AccountCreated">> /\ version[a] = 1 /\ status[a] = "ACTIVE"
      BY <2>1 DEF CoreInit, Init
    <3>2. Len(announced[a]) = 1 /\ announced[a][1] = "AccountCreated" /\ announced[a] \in Seq(EventNames)
      BY <3>1 DEF EventNames
    <3>3. Changes(a) = {1}
      BY <3>2 DEF Changes
    <3> QED
      BY <3>1, <3>2, <3>3 DEF EventOf
  <2>2. ASSUME NEW a \in Accounts, a \notin Opened
        PROVE  /\ announced[a] = <<>> /\ announced[a] \in Seq(EventNames)
               /\ version[a] = 0 /\ Changes(a) = {} /\ status[a] = "ABSENT"
    BY <2>2 DEF CoreInit, Init, Changes
  <2>3. Story
    BY <2>1, <2>2 DEF Story, CoreInit
  <2>4. Cardinality({1}) = 1 /\ Cardinality({}) = 0
    BY FS_Singleton, FS_EmptySet
  <2>5. ASSUME NEW a \in Accounts
        PROVE  /\ Cardinality(Changes(a)) = version[a]
               /\ status[a] # "ABSENT" =>
                   \E i \in Changes(a) : /\ \A j \in Changes(a) : j <= i
                                         /\ announced[a][i] = EventOf(status[a])
    <3>1. CASE a \in Opened
      <4>1. announced[a][1] = EventOf(status[a])
        BY <2>1, <3>1
      <4>2. Changes(a) = {1} /\ Cardinality(Changes(a)) = version[a]
        BY <2>1, <2>4, <3>1
      <4> QED
        BY <4>1, <4>2
    <3>2. CASE a \notin Opened
      BY <2>2, <2>4, <3>2
    <3> QED
      BY <3>1, <3>2
  <2> QED
    BY <2>3, <2>5 DEF EventsTellTheState
<1>2. Inv /\ [CoreNext]_coreVars => Inv'
  <2> SUFFICES ASSUME CoreIInv, Story, EventsTellTheState, [CoreNext]_coreVars
               PROVE  Story' /\ EventsTellTheState'
    BY NextCoreInv
  <2>1. CASE UNCHANGED <<status, version, announced>>
    BY <2>1 DEF Story, EventsTellTheState, Changes, EventOf
  <2>2. ASSUME NEW c \in Clerks, CreateAccount(c) \/ FreezeAccount(c) \/ CloseRow(c)
        PROVE  Story' /\ EventsTellTheState'
    <3>1. task[c].account \in Accounts
      BY <2>2, BusyClerk DEF CreateAccount, FreezeAccount, CloseRow
    <3>2. CASE NoChange
      BY <2>1, <3>2 DEF NoChange, vars
    <3>3. CASE \E s \in {"ACTIVE", "FROZEN", "CLOSED"} : ChangeStatus(task[c].account, s)
      BY <3>1, <3>3, ChangeIsTold
    <3> QED
      BY <2>2, <3>2, <3>3 DEF CreateAccount, FreezeAccount, CloseRow
  <2>3. ASSUME NEW c \in Clerks, InsertHold(c) PROVE Story' /\ EventsTellTheState'
    BY <2>3, HoldIsToldApart
  <2> QED
    BY <2>1, <2>2, <2>3, OtherStepsTellNothing
<1> QED
  BY <1>1, <1>2, PTL DEF CoreSpec
=============================================================================
