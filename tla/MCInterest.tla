----------------------------- MODULE MCInterest -----------------------------
\* Three savings accounts over two days at a rate of one fourth a day: the first's interest
\* is rounded to nothing, the second's down, the third's up from a half.
EXTENDS Interest, TLC

Deposits == 1 :> 1 @@ 2 :> 5 @@ 3 :> 2
DepositsOfTwo == 1 :> 5 @@ 2 :> 2

Accrue(d) == [op |-> "accrue", day |-> d]
Post(d) == [op |-> "post", day |-> d]

DailyCalls == {Accrue(1), Accrue(2), Post(2)}
\* Postings through two days, and the accruals of both.
MixedCalls == {Accrue(1), Accrue(2), Post(1), Post(2)}
=============================================================================
