------------------------- MODULE GeneralLedgerProofs -------------------------
(***************************************************************************)
(* Proofs about GeneralLedger, for any number of replicas, any chart and   *)
(* any journal entries, with statements that fail and replicas that die: a *)
(* replica serves only with the whole chart, no entry is posted twice, and *)
(* the accounting identity holds.                                          *)
(***************************************************************************)
EXTENDS GeneralLedger, SumTheorems

\* The tables start empty and every replica has the whole chart before it.
LEMMA InitType == Init => TypeOK
  BY DEF Init, TypeOK

\* A code leaves the list of a replica only when it is in the table, which loses none.
LEMMA NextType == TypeOK /\ [Next]_vars => TypeOK'
<1> SUFFICES ASSUME TypeOK, [Next]_vars PROVE TypeOK'
  OBVIOUS
<1> USE DEF TypeOK
<1>1. ASSUME NEW r \in Replicas, NEW c \in Codes, CheckCode(r, c) PROVE TypeOK'
  <2>1. /\ UNCHANGED <<chart, journal, outbox, told>>
        /\ \A p \in Replicas \ {r} : at'[p] = at[p] /\ next'[p] = next[p]
        /\ at' \in [Replicas -> {"seeding", "inserting", "up"}]
        /\ next' \in [Replicas -> SUBSET Codes]
    BY <1>1 DEF CheckCode
  <2>2. /\ Codes \ next'[r] \subseteq chart
        /\ at'[r] = "inserting" => next'[r] # {}
        /\ at'[r] # "up"
    BY <1>1 DEF CheckCode
  <2> QED
    BY <2>1, <2>2
<1>2. ASSUME NEW r \in Replicas, NEW c \in Codes, InsertCode(r, c) PROVE TypeOK'
  <2>1. /\ UNCHANGED <<journal, outbox, told>>
        /\ chart \subseteq chart' /\ chart' \subseteq Codes
        /\ \A p \in Replicas \ {r} : at'[p] = at[p] /\ next'[p] = next[p]
        /\ at' \in [Replicas -> {"seeding", "inserting", "up"}]
        /\ next' \in [Replicas -> SUBSET Codes]
    BY <1>2 DEF InsertCode, Restart
  <2>2. Codes \ next'[r] \subseteq chart' /\ at'[r] = "seeding"
    BY <1>2 DEF InsertCode, Restart
  <2> QED
    BY <2>1, <2>2
<1>3. ASSUME NEW r \in Replicas, SeedingDone(r) PROVE TypeOK'
  BY <1>3 DEF SeedingDone
<1>4. ASSUME NEW r \in Replicas, NEW j \in Journals, PostJournalEntry(r, j) PROVE TypeOK'
  BY <1>4 DEF PostJournalEntry
<1>5. ASSUME NEW r \in Replicas, Crash(r) PROVE TypeOK'
  BY <1>5 DEF Crash, Restart
<1>6. CASE UNCHANGED vars
  BY <1>6 DEF vars
<1> QED
  BY <1>1, <1>2, <1>3, <1>4, <1>5, <1>6 DEF Next, Start

\* Whoever serves has the whole chart, whatever other replicas seed, fail or restart.
THEOREM ServesWithWholeChart == Spec => []TypeOK
  BY InitType, NextType, PTL DEF Spec

\* An entry is written only while its key and its reference are unused, with its event.
LEMMA NextPostedOnce == PostedOnce /\ [Next]_vars => PostedOnce'
<1> SUFFICES ASSUME PostedOnce, [Next]_vars PROVE PostedOnce'
  OBVIOUS
<1>1. ASSUME NEW r \in Replicas, NEW j \in Journals, PostJournalEntry(r, j) PROVE PostedOnce'
  <2>1. CASE UNCHANGED <<journal, outbox>>
    BY <2>1 DEF PostedOnce
  <2>2. CASE Accepted(j) /\ journal' = journal \cup {j} /\ outbox' = outbox \cup {j.key}
    <3>1. \A i \in journal : i.key # j.key /\ i.ref # j.ref
      BY <2>2 DEF Accepted
    <3>2. \A i, k \in journal' : i.key = k.key \/ i.ref = k.ref => i = k
      BY <2>2, <3>1 DEF PostedOnce
    <3>3. outbox' = {i.key : i \in journal'}
      BY <2>2 DEF PostedOnce
    <3> QED
      BY <3>2, <3>3 DEF PostedOnce
  <2> QED
    BY <1>1, <2>1, <2>2 DEF PostJournalEntry
<1>2. CASE UNCHANGED <<journal, outbox>>
  BY <1>2 DEF PostedOnce
<1>3. ASSUME NEW r \in Replicas, Start(r) \/ Crash(r) PROVE UNCHANGED <<journal, outbox>>
  BY <1>3 DEF Start, CheckCode, InsertCode, SeedingDone, Crash
<1> QED
  BY <1>1, <1>2, <1>3 DEF Next, vars

\* A key and a reference posts once, for any requests repeated in any order.
THEOREM PostsOnce == Spec => []PostedOnce
<1>1. Init => PostedOnce
  BY DEF Init, PostedOnce
<1> QED
  BY <1>1, NextPostedOnce, PTL DEF Spec

----------------------------------------------------------------------------
\* Rounding

\* The column keeps an amount it holds.
LEMMA StoredAmount ==
    ASSUME NEW l \in LineType
    PROVE  /\ l.amount \in Int /\ Stored(l.amount) \in Int
           /\ Fits(l) => 10 * Stored(l.amount) = l.amount
<1>1. l.amount \in Int
  BY DEF LineType
<1> DEFINE a == l.amount
<1> HIDE DEF a
<1>2. ASSUME a \in Int
      PROVE  Stored(a) \in Int /\ (a % 10 = 0 => 10 * Stored(a) = a)
  BY <1>2 DEF Stored
<1> QED
  BY <1>1, <1>2 DEF Fits, a

\* What is stored of lines the column holds is what was asked for.
LEMMA StoredTotals ==
    ASSUME NEW L, L \subseteq LineType, IsFiniteSet(L)
    PROVE  LET asked == Total(L, LAMBDA l : l.amount)
               stored == Total(L, LAMBDA l : Stored(l.amount)) IN
           /\ asked \in Int /\ stored \in Int
           /\ (\A l \in L : Fits(l)) => 10 * stored = asked
<1> DEFINE asked == [l \in L |-> l.amount]
           stored == [l \in L |-> Stored(l.amount)]
           tenfold == [l \in L |-> 10 * Stored(l.amount)]
<1>1. \A l \in L :
        /\ asked[l] \in Int /\ stored[l] \in Int /\ tenfold[l] \in Int
        /\ tenfold[l] = 10 * stored[l]
        /\ Fits(l) => tenfold[l] = asked[l]
  BY StoredAmount
<1> HIDE DEF asked, stored, tenfold
<1>2. SumFunctionOnSet(asked, L) \in Int /\ SumFunctionOnSet(stored, L) \in Int
  BY <1>1, SumInt
<1>3. SumFunctionOnSet(tenfold, L) = 10 * SumFunctionOnSet(stored, L)
  BY <1>1, SumScaled
<1>4. (\A l \in L : Fits(l)) => SumFunctionOnSet(tenfold, L) = SumFunctionOnSet(asked, L)
  BY <1>1, SumSame
<1> QED
  BY <1>2, <1>3, <1>4 DEF Total, asked, stored

\* The sides of an entry that was asked for.
LEMMA Sides ==
    ASSUME NEW j \in Journals, NEW t
    PROVE  /\ OfType(j.lines, t) \subseteq LineType /\ OfType(j.lines, t) \subseteq j.lines
           /\ IsFiniteSet(OfType(j.lines, t)) /\ IsFiniteSet(j.lines)
<1>1. j.lines \subseteq LineType /\ IsFiniteSet(j.lines)
  BY LedgerAssumption
<1>2. OfType(j.lines, t) \subseteq j.lines
  BY DEF OfType
<1> QED
  BY <1>1, <1>2, FS_Subset

\* An entry that balances as it was asked for balances as it is stored, when the column holds
\* its amounts.
LEMMA BalancedIsStored ==
    ASSUME NEW j \in Journals, Balanced(j), \A l \in j.lines : Fits(l)
    PROVE  LET StoredTotal(t) == Total(OfType(j.lines, t), LAMBDA l : Stored(l.amount)) IN
           StoredTotal("DEBIT") = StoredTotal("CREDIT")
<1> DEFINE D == OfType(j.lines, "DEBIT")
           C == OfType(j.lines, "CREDIT")
           Asked(L) == Total(L, LAMBDA l : l.amount)
           Kept(L) == Total(L, LAMBDA l : Stored(l.amount))
<1>1. Asked(D) = Asked(C)
  BY DEF Balanced
<1>2. /\ D \subseteq LineType /\ IsFiniteSet(D) /\ D \subseteq j.lines
      /\ C \subseteq LineType /\ IsFiniteSet(C) /\ C \subseteq j.lines
  BY Sides
<1> HIDE DEF D, C
<1>3. /\ Kept(D) \in Int /\ 10 * Kept(D) = Asked(D)
      /\ Kept(C) \in Int /\ 10 * Kept(C) = Asked(C)
  BY <1>2, StoredTotals
<1> HIDE DEF Asked, Kept
<1>4. Kept(D) = Kept(C)
  BY <1>1, <1>3
<1> QED
  BY <1>4 DEF D, C, Kept

----------------------------------------------------------------------------
\* The books

\* What has been posted to one side of all accounts together.
PostedSide(t) == Total({x \in Lines : x[2].type = t}, LAMBDA x : Stored(x[2].amount))

\* Every committed entry is on accounts of the chart, and while the column holds all amounts,
\* the two sides of the ledger are equal.
BooksInv ==
    /\ \A j \in journal : \A l \in j.lines : l.account \in chart
    /\ IsFiniteSet(Lines)
    /\ (\A x \in Lines : Fits(x[2])) => PostedSide("DEBIT") = PostedSide("CREDIT")

\* Lines are lines of journal entries.
LEMMA LinesAreLines ==
    ASSUME journal \subseteq Journals
    PROVE  /\ \A x \in Lines : \E j \in journal : x[1] = j.key /\ x[2] \in j.lines
           /\ \A x \in Lines : x[2] \in LineType /\ Stored(x[2].amount) \in Int
<1>1. \A x \in Lines : \E j \in journal : x[1] = j.key /\ x[2] \in j.lines
  BY DEF Lines
<1> QED
  BY <1>1, LedgerAssumption, StoredAmount

\* The lines an entry adds to one side come to the sum of that side of the entry.
LEMMA AddedLines ==
    ASSUME NEW j \in Journals, NEW t, NEW f,
           \A l \in j.lines : f[<<j.key, l>>] = Stored(l.amount)
    PROVE  SumFunctionOnSet(f, {<<j.key, l>> : l \in OfType(j.lines, t)})
             = Total(OfType(j.lines, t), LAMBDA l : Stored(l.amount))
<1> DEFINE L == OfType(j.lines, t)
           name == [l \in L |-> <<j.key, l>>]
           value == [l \in L |-> Stored(l.amount)]
<1>1. L \subseteq LineType /\ L \subseteq j.lines /\ IsFiniteSet(L)
  BY Sides
<1> HIDE DEF L
<1>2. /\ \A l \in L : value[l] \in Int /\ f[name[l]] = value[l]
      /\ \A l, k \in L : name[l] = name[k] => l = k
  BY <1>1, StoredAmount
<1>3. {<<j.key, l>> : l \in L} = {name[l] : l \in L}
  OBVIOUS
<1> HIDE DEF name, value
<1>4. SumFunctionOnSet(f, {name[l] : l \in L}) = SumFunctionOnSet(value, L)
  BY <1>1, <1>2, SumRenamed
<1> QED
  BY <1>3, <1>4 DEF L, value, Total

\* A new entry raises each side of the ledger by that side of the entry.
LEMMA PostingAdds ==
    ASSUME TypeOK, PostedOnce, IsFiniteSet(Lines), NEW j \in Journals, Accepted(j),
           journal' = journal \cup {j}, NEW t
    PROVE  /\ Lines' = Lines \cup {<<j.key, l>> : l \in j.lines}
           /\ IsFiniteSet(Lines')
           /\ PostedSide(t) \in Int
           /\ PostedSide(t)'
                = PostedSide(t) + Total(OfType(j.lines, t), LAMBDA l : Stored(l.amount))
<1> DEFINE Added == {<<j.key, l>> : l \in j.lines}
           Old == {x \in Lines : x[2].type = t}
           New == {<<j.key, l>> : l \in OfType(j.lines, t)}
           value == [x \in Lines \cup Added |-> Stored(x[2].amount)]
<1>1. Lines' = Lines \cup Added
  BY DEF Lines
<1>2. /\ \A x \in Lines : x[2] \in LineType /\ Stored(x[2].amount) \in Int /\ x[1] # j.key
      /\ \A x \in Added : x[1] = j.key /\ x[2] \in j.lines /\ Stored(x[2].amount) \in Int
  BY LinesAreLines, LedgerAssumption, StoredAmount DEF TypeOK, Accepted
<1>3. IsFiniteSet(Added)
  <2>1. IsFiniteSet(j.lines) /\ IsFiniteSet({j.key})
    BY Sides, FS_Singleton
  <2>2. IsFiniteSet({j.key} \X j.lines)
    BY <2>1, FS_Product
  <2>3. Added \in SUBSET ({j.key} \X j.lines)
    OBVIOUS
  <2> HIDE DEF Added
  <2> QED
    BY <2>2, <2>3, FS_Subset
<1>4. {x \in Lines' : x[2].type = t} = Old \cup New
  BY <1>1 DEF OfType
<1>5. Old \cap New = {} /\ Old \subseteq Lines /\ New \subseteq Added
  BY <1>2 DEF OfType
<1>6. /\ \A x \in Old \cup New : value[x] \in Int /\ value[x] = Stored(x[2].amount)
      /\ \A l \in j.lines : value[<<j.key, l>>] = Stored(l.amount)
  BY <1>2, <1>5
<1> HIDE DEF Added, Old, New, value
<1>7. IsFiniteSet(Lines') /\ IsFiniteSet(Old) /\ IsFiniteSet(New)
  BY <1>1, <1>3, <1>5, FS_Union, FS_Subset
<1>8. SumFunctionOnSet(value, Old \cup New)
        = SumFunctionOnSet(value, Old) + SumFunctionOnSet(value, New)
  BY <1>5, <1>6, <1>7, SumUnion
<1>9. PostedSide(t) = SumFunctionOnSet(value, Old) /\ PostedSide(t) \in Int
  <2> DEFINE own == [x \in Old |-> Stored(x[2].amount)]
  <2>1. \A x \in Old : value[x] \in Int /\ own[x] = value[x]
    BY <1>6
  <2> HIDE DEF own
  <2>2. SumFunctionOnSet(own, Old) = SumFunctionOnSet(value, Old)
    BY <1>7, <2>1, SumSame
  <2>3. SumFunctionOnSet(value, Old) \in Int
    BY <1>7, <2>1, SumInt
  <2>4. PostedSide(t) = SumFunctionOnSet(own, Old)
    BY DEF PostedSide, Total, own, Old
  <2> QED
    BY <2>2, <2>3, <2>4
<1>10. PostedSide(t)' = SumFunctionOnSet(value, Old \cup New)
  <2> DEFINE own == [x \in Old \cup New |-> Stored(x[2].amount)]
  <2>1. \A x \in Old \cup New : value[x] \in Int /\ own[x] = value[x]
    BY <1>6
  <2> HIDE DEF own
  <2>2. SumFunctionOnSet(own, Old \cup New) = SumFunctionOnSet(value, Old \cup New)
    BY <1>7, <2>1, FS_Union, SumSame
  <2>3. PostedSide(t)' = SumFunctionOnSet(own, Old \cup New)
    BY <1>4 DEF PostedSide, Total, own
  <2> QED
    BY <2>2, <2>3
<1>11. SumFunctionOnSet(value, New) = Total(OfType(j.lines, t), LAMBDA l : Stored(l.amount))
  BY <1>6, AddedLines DEF New
<1> QED
  BY <1>1, <1>7, <1>8, <1>9, <1>10, <1>11 DEF Added

\* Entries balance when they are posted, and the chart loses no account.
LEMMA NextBooks == TypeOK /\ PostedOnce /\ BooksInv /\ [Next]_vars => BooksInv'
<1> SUFFICES ASSUME TypeOK, PostedOnce, BooksInv, [Next]_vars PROVE BooksInv'
  OBVIOUS
<1>1. ASSUME chart \subseteq chart', UNCHANGED journal PROVE BooksInv'
  <2>1. Lines' = Lines
    BY <1>1 DEF Lines
  <2>2. \A t : PostedSide(t)' = PostedSide(t)
    BY <2>1 DEF PostedSide, Total, Stored
  <2> QED
    BY <1>1, <2>1, <2>2 DEF BooksInv, Fits
<1>2. ASSUME NEW r \in Replicas, NEW j \in Journals, PostJournalEntry(r, j) PROVE BooksInv'
  <2>1. CASE UNCHANGED journal
    BY <1>1, <1>2, <2>1 DEF PostJournalEntry
  <2>2. CASE Balanced(j) /\ Accepted(j) /\ journal' = journal \cup {j}
    <3> DEFINE Kept(t) == Total(OfType(j.lines, t), LAMBDA l : Stored(l.amount))
    <3>1. chart' = chart
      BY <1>2 DEF PostJournalEntry
    <3>2. /\ Lines' = Lines \cup {<<j.key, l>> : l \in j.lines}
          /\ IsFiniteSet(Lines')
          /\ \A t : PostedSide(t) \in Int /\ PostedSide(t)' = PostedSide(t) + Kept(t)
      BY <2>2, PostingAdds DEF BooksInv
    <3>3. \A i \in journal' : \A l \in i.lines : l.account \in chart
      BY <2>2 DEF BooksInv, Accepted
    <3>4. ASSUME \A x \in Lines' : Fits(x[2])
          PROVE  PostedSide("DEBIT")' = PostedSide("CREDIT")'
      <4>1. /\ \A x \in Lines : Fits(x[2])
            /\ \A l \in j.lines : Fits(l)
        <5>1. \A l \in j.lines : <<j.key, l>> \in Lines' /\ <<j.key, l>>[2] = l
          BY <3>2
        <5>2. Lines \subseteq Lines'
          BY <3>2
        <5> QED
          BY <3>4, <5>1, <5>2
      <4>2. Kept("DEBIT") = Kept("CREDIT")
        BY <2>2, <4>1, BalancedIsStored
      <4>3. Kept("DEBIT") \in Int /\ Kept("CREDIT") \in Int
        BY Sides, StoredTotals
      <4>4. PostedSide("DEBIT") = PostedSide("CREDIT")
        BY <4>1 DEF BooksInv
      <4> HIDE DEF Kept
      <4> QED
        BY <3>2, <4>2, <4>3, <4>4
    <3> QED
      BY <3>1, <3>2, <3>3, <3>4 DEF BooksInv, Fits
  <2> QED
    BY <1>2, <2>1, <2>2 DEF PostJournalEntry
<1>3. ASSUME NEW r \in Replicas, Start(r) \/ Crash(r) PROVE BooksInv'
  <2>1. chart \subseteq chart' /\ UNCHANGED journal
    BY <1>3 DEF Start, CheckCode, InsertCode, SeedingDone, Crash
  <2> QED
    BY <1>1, <2>1
<1>4. CASE UNCHANGED vars
  BY <1>1, <1>4 DEF vars
<1> QED
  BY <1>2, <1>3, <1>4 DEF Next

\* Nothing is posted yet.
LEMMA InitBooks == Init => BooksInv
<1> SUFFICES ASSUME Init PROVE BooksInv
  OBVIOUS
<1>1. journal = {} /\ Lines = {}
  BY DEF Init, Lines
<1>2. \A t : {x \in Lines : x[2].type = t} = {}
  BY <1>1
<1>3. \A t : PostedSide(t) = 0
  BY <1>2, SumEmpty DEF PostedSide, Total
<1> QED
  BY <1>1, <1>3, FS_EmptySet DEF BooksInv

----------------------------------------------------------------------------
\* The accounting identity

\* What is posted to a side, account by account over the chart, is the whole side.
LEMMA SideByAccount ==
    ASSUME journal \subseteq Journals, IsFiniteSet(Lines), IsFiniteSet(chart), NEW t,
           \A x \in Lines : x[2].account \in chart
    PROVE  /\ \A c \in chart : Posted(c, t) \in Int
           /\ SumFunctionOnSet([c \in chart |-> Posted(c, t)], chart) = PostedSide(t)
<1> DEFINE S == {x \in Lines : x[2].type = t}
           value == [x \in S |-> Stored(x[2].amount)]
           rows == [c \in chart |-> {x \in Lines : x[2].account = c /\ x[2].type = t}]
           posted == [c \in chart |-> Posted(c, t)]
<1>1. IsFiniteSet(S)
  BY FS_Subset
<1>2. \A x \in S : value[x] \in Int
  BY LinesAreLines
<1>3. ASSUME NEW c \in chart
      PROVE  /\ rows[c] \subseteq S /\ posted[c] = SumFunctionOnSet(value, rows[c])
             /\ posted[c] \in Int
  <2> DEFINE R == {x \in Lines : x[2].account = c /\ x[2].type = t}
             own == [x \in R |-> Stored(x[2].amount)]
  <2>1. posted[c] = SumFunctionOnSet(own, R)
    BY DEF Posted, Total
  <2>2. R = rows[c] /\ R \subseteq S
    OBVIOUS
  <2>3. \A x \in R : value[x] \in Int /\ own[x] = value[x]
    BY <1>2
  <2>4. IsFiniteSet(R)
    BY <1>1, <2>2, FS_Subset
  <2> HIDE DEF R, own, value, posted
  <2>5. SumFunctionOnSet(own, R) = SumFunctionOnSet(value, R)
    BY <2>3, <2>4, SumSame
  <2>6. SumFunctionOnSet(value, R) \in Int
    BY <2>3, <2>4, SumInt
  <2> QED
    BY <2>1, <2>2, <2>5, <2>6
<1>4. /\ \A c, d \in chart : c # d => rows[c] \cap rows[d] = {}
      /\ \A x \in S : \E c \in chart : x \in rows[c]
  OBVIOUS
<1>5. PostedSide(t) = SumFunctionOnSet(value, S)
  BY DEF PostedSide, Total
<1> HIDE DEF value, S, rows, posted
<1>6. SumFunctionOnSet(posted, chart) = SumFunctionOnSet(value, S)
  BY <1>1, <1>2, <1>3, <1>4, SumByGroup
<1>7. \A c \in chart : Posted(c, t) \in Int
  BY <1>3 DEF posted
<1> QED
  BY <1>5, <1>6, <1>7 DEF posted

\* A sum over the chart is the sum over its five classes.
LEMMA SumOverClasses ==
    ASSUME NEW f, IsFiniteSet(chart), chart \subseteq Codes, \A c \in chart : f[c] \in Int
    PROVE  LET Part(k) == SumFunctionOnSet(f, {c \in chart : Class[c] = k}) IN
           /\ \A k : Part(k) \in Int
           /\ SumFunctionOnSet(f, chart) = Part("ASSET") + Part("EXPENSE") + Part("LIABILITY")
                                            + Part("EQUITY") + Part("REVENUE")
<1> DEFINE Of(k) == {c \in chart : Class[c] = k}
           Part(k) == SumFunctionOnSet(f, Of(k))
<1>1. \A k : IsFiniteSet(Of(k)) /\ Of(k) \subseteq chart
  BY FS_Subset
<1>2. \A k : Part(k) \in Int
  <2> HIDE DEF Of
  <2> QED
    BY <1>1, SumInt
<1> DEFINE E == Of("EXPENSE") \cup Of("REVENUE")
           Q == Of("EQUITY") \cup E
           L == Of("LIABILITY") \cup Q
<1>3. /\ chart = Of("ASSET") \cup L /\ Of("ASSET") \cap L = {}
      /\ Of("LIABILITY") \cap Q = {} /\ Of("EQUITY") \cap E = {}
      /\ Of("EXPENSE") \cap Of("REVENUE") = {}
  BY LedgerAssumption DEF Classes
<1>4. /\ E \subseteq chart /\ IsFiniteSet(E) /\ Q \subseteq chart /\ IsFiniteSet(Q)
      /\ L \subseteq chart /\ IsFiniteSet(L)
  BY FS_Subset
<1> HIDE DEF Of
<1>5. SumFunctionOnSet(f, E) = Part("EXPENSE") + Part("REVENUE")
  BY <1>1, <1>3, SumUnion
<1> HIDE DEF E
<1>6. SumFunctionOnSet(f, Q) = Part("EQUITY") + SumFunctionOnSet(f, E)
  BY <1>1, <1>3, <1>4, SumUnion
<1> HIDE DEF Q
<1>7. SumFunctionOnSet(f, L) = Part("LIABILITY") + SumFunctionOnSet(f, Q)
  BY <1>1, <1>3, <1>4, SumUnion
<1> HIDE DEF L
<1>8. SumFunctionOnSet(f, chart) = Part("ASSET") + SumFunctionOnSet(f, L)
  BY <1>1, <1>3, <1>4, SumUnion
<1>9. SumFunctionOnSet(f, chart) = Part("ASSET") + Part("EXPENSE") + Part("LIABILITY")
                                   + Part("EQUITY") + Part("REVENUE")
  <2> HIDE DEF Part
  <2> QED
    BY <1>2, <1>5, <1>6, <1>7, <1>8
<1> QED
  BY <1>2, <1>9 DEF Of

\* The balance of a class is the difference of its sides, in its normal direction.
LEMMA ClassBalance ==
    ASSUME IsFiniteSet(chart), chart \subseteq Codes, NEW k \in Classes,
           \A c \in chart : Posted(c, "DEBIT") \in Int /\ Posted(c, "CREDIT") \in Int
    PROVE  LET Part(t) == SumFunctionOnSet([c \in chart |-> Posted(c, t)],
                                           {c \in chart : Class[c] = k}) IN
           /\ ClassTotal(k) \in Int
           /\ Part("DEBIT") \in Int /\ Part("CREDIT") \in Int
           /\ k \in {"ASSET", "EXPENSE"} => Part("DEBIT") = Part("CREDIT") + ClassTotal(k)
           /\ k \notin {"ASSET", "EXPENSE"} => Part("CREDIT") = Part("DEBIT") + ClassTotal(k)
<1> DEFINE C == {c \in chart : Class[c] = k}
           debit == [c \in chart |-> Posted(c, "DEBIT")]
           credit == [c \in chart |-> Posted(c, "CREDIT")]
           balance == [c \in C |-> BalanceOf(c)]
<1>1. IsFiniteSet(C)
  BY FS_Subset
<1>2. /\ \A c \in C : debit[c] \in Int /\ credit[c] \in Int /\ balance[c] \in Int
      /\ k \in {"ASSET", "EXPENSE"} => \A c \in C : debit[c] = credit[c] + balance[c]
      /\ k \notin {"ASSET", "EXPENSE"} => \A c \in C : credit[c] = debit[c] + balance[c]
  BY DEF BalanceOf, DebitNormal
<1>3. ClassTotal(k) = SumFunctionOnSet(balance, C)
  BY DEF ClassTotal, Total
<1> HIDE DEF C, debit, credit, balance
<1>4. /\ SumFunctionOnSet(debit, C) \in Int /\ SumFunctionOnSet(credit, C) \in Int
      /\ SumFunctionOnSet(balance, C) \in Int
  BY <1>1, <1>2, SumInt
<1>5. ASSUME k \in {"ASSET", "EXPENSE"}
      PROVE  SumFunctionOnSet(debit, C) = SumFunctionOnSet(credit, C) + SumFunctionOnSet(balance, C)
  BY <1>1, <1>2, <1>5, SumOfSums
<1>6. ASSUME k \notin {"ASSET", "EXPENSE"}
      PROVE  SumFunctionOnSet(credit, C) = SumFunctionOnSet(debit, C) + SumFunctionOnSet(balance, C)
  BY <1>1, <1>2, <1>6, SumOfSums
<1> QED
  BY <1>3, <1>4, <1>5, <1>6 DEF C, debit, credit

\* Two equal sides make the identity.
LEMMA BooksGiveIdentity == TypeOK /\ BooksInv => AccountingIdentity
<1> SUFFICES ASSUME TypeOK, BooksInv, \A x \in Lines : Fits(x[2])
             PROVE  /\ ClassTotal("ASSET") + ClassTotal("EXPENSE")
                          = ClassTotal("LIABILITY") + ClassTotal("EQUITY") + ClassTotal("REVENUE")
                    /\ TrialBalanceOK <=> ClassTotal("REVENUE") = ClassTotal("EXPENSE")
  BY DEF AccountingIdentity
<1> DEFINE posted(t) == [c \in chart |-> Posted(c, t)]
           Part(t, k) == SumFunctionOnSet(posted(t), {c \in chart : Class[c] = k})
<1>1. /\ journal \subseteq Journals /\ IsFiniteSet(Lines)
      /\ IsFiniteSet(chart) /\ chart \subseteq Codes
      /\ PostedSide("DEBIT") = PostedSide("CREDIT")
  BY LedgerAssumption, FS_Subset DEF TypeOK, BooksInv
<1>2. \A x \in Lines : x[2].account \in chart
  BY <1>1, LinesAreLines DEF BooksInv
<1>3. \A t : /\ \A c \in chart : Posted(c, t) \in Int /\ posted(t)[c] \in Int
             /\ SumFunctionOnSet(posted(t), chart) = PostedSide(t)
  BY <1>1, <1>2, SideByAccount
<1>4. \A t : SumFunctionOnSet(posted(t), chart)
               = Part(t, "ASSET") + Part(t, "EXPENSE") + Part(t, "LIABILITY")
                 + Part(t, "EQUITY") + Part(t, "REVENUE")
  <2> SUFFICES ASSUME NEW t PROVE SumFunctionOnSet(posted(t), chart)
               = Part(t, "ASSET") + Part(t, "EXPENSE") + Part(t, "LIABILITY")
                 + Part(t, "EQUITY") + Part(t, "REVENUE")
    OBVIOUS
  <2>1. \A c \in chart : posted(t)[c] \in Int
    BY <1>3
  <2> HIDE DEF posted
  <2> QED
    BY <1>1, <2>1, SumOverClasses
<1>5. \A k \in Classes :
        /\ ClassTotal(k) \in Int /\ Part("DEBIT", k) \in Int /\ Part("CREDIT", k) \in Int
        /\ k \in {"ASSET", "EXPENSE"} => Part("DEBIT", k) = Part("CREDIT", k) + ClassTotal(k)
        /\ k \notin {"ASSET", "EXPENSE"} => Part("CREDIT", k) = Part("DEBIT", k) + ClassTotal(k)
  BY <1>1, <1>3, ClassBalance
<1> HIDE DEF Part, posted
<1>6. Part("DEBIT", "ASSET") + Part("DEBIT", "EXPENSE") + Part("DEBIT", "LIABILITY")
        + Part("DEBIT", "EQUITY") + Part("DEBIT", "REVENUE")
      = Part("CREDIT", "ASSET") + Part("CREDIT", "EXPENSE") + Part("CREDIT", "LIABILITY")
        + Part("CREDIT", "EQUITY") + Part("CREDIT", "REVENUE")
  BY <1>1, <1>3, <1>4
<1> HIDE DEF Classes
<1>7. /\ Part("DEBIT", "ASSET") = Part("CREDIT", "ASSET") + ClassTotal("ASSET")
      /\ Part("DEBIT", "EXPENSE") = Part("CREDIT", "EXPENSE") + ClassTotal("EXPENSE")
      /\ Part("CREDIT", "LIABILITY") = Part("DEBIT", "LIABILITY") + ClassTotal("LIABILITY")
      /\ Part("CREDIT", "EQUITY") = Part("DEBIT", "EQUITY") + ClassTotal("EQUITY")
      /\ Part("CREDIT", "REVENUE") = Part("DEBIT", "REVENUE") + ClassTotal("REVENUE")
  BY <1>5 DEF Classes
<1>8. \A k \in {"ASSET", "EXPENSE", "LIABILITY", "EQUITY", "REVENUE"} :
        ClassTotal(k) \in Int /\ Part("DEBIT", k) \in Int /\ Part("CREDIT", k) \in Int
  BY <1>5 DEF Classes
<1>9. ClassTotal("ASSET") + ClassTotal("EXPENSE")
        = ClassTotal("LIABILITY") + ClassTotal("EQUITY") + ClassTotal("REVENUE")
  <2> DEFINE a == ClassTotal("ASSET")
             e == ClassTotal("EXPENSE")
             l == ClassTotal("LIABILITY")
             q == ClassTotal("EQUITY")
             r == ClassTotal("REVENUE")
             ca == Part("CREDIT", "ASSET")
             ce == Part("CREDIT", "EXPENSE")
             dl == Part("DEBIT", "LIABILITY")
             dq == Part("DEBIT", "EQUITY")
             dr == Part("DEBIT", "REVENUE")
  <2>1. /\ a \in Int /\ e \in Int /\ l \in Int /\ q \in Int /\ r \in Int
        /\ ca \in Int /\ ce \in Int /\ dl \in Int /\ dq \in Int /\ dr \in Int
    BY <1>8
  <2>2. (ca + a) + (ce + e) + dl + dq + dr = ca + ce + (dl + l) + (dq + q) + (dr + r)
    BY <1>6, <1>7
  <2> HIDE DEF a, e, l, q, r, ca, ce, dl, dq, dr
  <2>3. a + e = l + q + r
    BY <2>1, <2>2
  <2> QED
    BY <2>3 DEF a, e, l, q, r
<1> QED
  BY <1>8, <1>9 DEF TrialBalanceOK

\* While the column holds what is asked for, the identity holds over all five classes after
\* every posting, and the trial balance reports exactly the difference of revenue and expense.
THEOREM IdentityAlwaysHolds == Spec => []AccountingIdentity
<1>1. Init => PostedOnce
  BY DEF Init, PostedOnce
<1> QED
  BY <1>1, InitType, NextType, NextPostedOnce, InitBooks, NextBooks, BooksGiveIdentity, PTL
     DEF Spec
=============================================================================
