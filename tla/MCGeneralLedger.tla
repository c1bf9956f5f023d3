-------------------------- MODULE MCGeneralLedger --------------------------
\* One account of each class, and journal entries of a bank's day.
EXTENDS GeneralLedger, TLC

\* Codes 1 to 5 stand for 1000, 2000, 3000, 4000 and 5000.
StandardClass == 1 :> "ASSET" @@ 2 :> "LIABILITY" @@ 3 :> "EQUITY" @@ 4 :> "REVENUE" @@ 5 :> "EXPENSE"

Line(n, a, t, m) == [line |-> n, account |-> a, type |-> t, amount |-> m]
Entry(k, r, lines) == [key |-> k, ref |-> r, lines |-> lines]
Pair(k, r, debit, credit, m) ==
    Entry(k, r, {Line(1, debit, "DEBIT", m), Line(2, credit, "CREDIT", m)})

\* A customer deposits cash, a dividend is paid, interest is paid to a customer, and a customer
\* pays a fee, so that revenue and expense differ and are equal again; the deposit comes again
\* with its key or with its reference; entries that must be refused; and one whose lines are
\* finer than the column.
DailyJournals ==
    {Pair("k1", "r1", 1, 2, 20), Pair("k2", "r2", 3, 1, 10),
     Pair("k3", "r3", 5, 2, 10), Pair("k10", "r10", 2, 4, 10),
     Pair("k1", "r4", 1, 2, 20), Pair("k4", "r1", 1, 2, 20),
     Entry("k5", "r5", {Line(1, 1, "DEBIT", 10), Line(2, 2, "CREDIT", 20)}),
     Entry("k6", "r6", {Line(1, 1, "DEBIT", -10), Line(2, 2, "CREDIT", -10)}),
     Entry("k7", "r7", {Line(1, 1, "DEBIT", 10), Line(2, 4, "CREDIT", 10), Line(3, 2, "OTHER", 10)}),
     Entry("k8", "r8", {}),
     Entry("k9", "r9", {Line(1, 1, "DEBIT", 5), Line(2, 1, "DEBIT", 5), Line(3, 2, "CREDIT", 10)})}
=============================================================================
