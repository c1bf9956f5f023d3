--------------------------- MODULE MCCompliance ---------------------------
\* One account and three entries: two near the reporting threshold of four, one at it; any
\* three are too many for a day, and the large one with another is too much.
EXTENDS Compliance, TLC

CONSTANTS near1, near2, large

Owner == [e \in Entries |-> 1]
Sums == [e \in Entries |-> IF e = large THEN 4 ELSE 3]
Alike == Permutations(Screeners) \cup Permutations({near1, near2})
===========================================================================
