----------------------------- MODULE SumTheorems -----------------------------
(***************************************************************************)
(* Facts about SumFunctionOnSet, the sum of a function over a finite set,  *)
(* which models SUM(...) of a query and the sums of loops over rows.       *)
(*                                                                         *)
(* The library defines the sum by recursion over subsets.  It is shown     *)
(* first that the recursion defines something, by looking at a smallest    *)
(* subset for which it would not; every fact after that is an induction    *)
(* over a set of subsets (SetInduction), so that no theorem takes an       *)
(* operator as a parameter.                                                *)
(***************************************************************************)
EXTENDS Integers, FiniteSets, FiniteSetTheorems, Functions, TLAPS

\* A set of subsets of a finite set has a smallest member.
LEMMA SmallestSubset ==
    ASSUME NEW S, IsFiniteSet(S), NEW C \in SUBSET (SUBSET S), C # {}
    PROVE  \E T \in C : \A U \in SUBSET T : U # T => U \notin C
<1>1. IsWellFoundedOn(StrictSubsetOrdering(S), SUBSET S)
  BY FS_StrictSubsetOrderingWellFounded, FS_FiniteSubsetsOfFinite
<1>2. PICK T \in C : \A U \in C : <<U, T>> \notin StrictSubsetOrdering(S)
  BY <1>1, WFMin
<1> QED
  BY <1>2 DEF StrictSubsetOrdering

\* Induction over a finite set: a collection that has the empty set, and with a set each set
\* of one element more, has the whole set.
LEMMA SetInduction ==
    ASSUME NEW S, IsFiniteSet(S), NEW C, {} \in C,
           \A T \in SUBSET S : \A x \in S \ T : T \in C => T \cup {x} \in C
    PROVE  S \in C
<1> SUFFICES ASSUME S \notin C PROVE FALSE
  OBVIOUS
<1> DEFINE Missing == (SUBSET S) \ C
<1>1. PICK T \in Missing : \A U \in SUBSET T : U # T => U \notin Missing
  <2>1. Missing \in SUBSET (SUBSET S) /\ Missing # {}
    OBVIOUS
  <2> HIDE DEF Missing
  <2> QED
    BY <2>1, SmallestSubset
<1>2. PICK x \in T : TRUE
  BY <1>1
<1>3. T \ {x} \in C /\ T \ {x} \in SUBSET S
  BY <1>1, <1>2
<1>4. (T \ {x}) \cup {x} = T
  BY <1>2
<1> QED
  BY <1>1, <1>2, <1>3, <1>4

\* A finite set of numbers has a largest.
LEMMA FiniteHasLargest ==
    ASSUME NEW A \in SUBSET Nat, IsFiniteSet(A), A # {}
    PROVE  \E m \in A : \A n \in A : n <= m
<1> DEFINE C == {T \in SUBSET A : T = {} \/ \E m \in T : \A n \in T : n <= m}
<1>1. {} \in C
  OBVIOUS
<1>2. ASSUME NEW T \in SUBSET A, NEW x \in A \ T, T \in C PROVE T \cup {x} \in C
  <2>1. CASE T = {}
    BY <2>1
  <2>2. ASSUME NEW m \in T, \A n \in T : n <= m PROVE T \cup {x} \in C
    <3>1. CASE x <= m
      BY <2>2, <3>1
    <3>2. CASE ~ x <= m
      BY <2>2, <3>2
    <3> QED
      BY <3>1, <3>2
  <2> QED
    BY <1>2, <2>1, <2>2
<1> HIDE DEF C
<1>3. A \in C
  BY <1>1, <1>2, SetInduction
<1> QED
  BY <1>3 DEF C

----------------------------------------------------------------------------
\* The recursion of the library

Pick(T) == CHOOSE x \in T : TRUE

Turn(f, g, T) == IF T = {} THEN 0 ELSE f[Pick(T)] + g[T \ {Pick(T)}]

Loop(f, S) == CHOOSE g : g = [T \in SUBSET S |-> Turn(f, g, T)]

Runs(f, S) == Loop(f, S) = [T \in SUBSET S |-> Turn(f, Loop(f, S), T)]

LEMMA SumIsLoop == \A f, S : SumFunctionOnSet(f, S) = Loop(f, S)[S]
  BY DEF SumFunctionOnSet, FoldFunctionOnSet, MapThenFoldSet, Loop, Turn, Pick

\* Two loops agree where both are defined.
LEMMA LoopsAgree ==
    ASSUME NEW f, NEW S, NEW R, NEW A, A \subseteq S, A \subseteq R, IsFiniteSet(A),
           Runs(f, S), Runs(f, R)
    PROVE  Loop(f, S)[A] = Loop(f, R)[A]
<1> DEFINE C == {T \in SUBSET A : Loop(f, S)[T] # Loop(f, R)[T]}
<1> SUFFICES ASSUME C # {} PROVE FALSE
  OBVIOUS
<1>1. PICK T \in C : \A U \in SUBSET T : U # T => U \notin C
  <2>1. C \in SUBSET (SUBSET A)
    OBVIOUS
  <2> HIDE DEF C
  <2> QED
    BY <2>1, SmallestSubset
<1>2. T \subseteq A /\ T \subseteq S /\ T \subseteq R
  BY <1>1
<1>3. Loop(f, S)[T] = Turn(f, Loop(f, S), T) /\ Loop(f, R)[T] = Turn(f, Loop(f, R), T)
  BY <1>2 DEF Runs
<1>4. T # {} => Pick(T) \in T
  BY DEF Pick
<1>5. T # {} => Loop(f, S)[T \ {Pick(T)}] = Loop(f, R)[T \ {Pick(T)}]
  BY <1>1, <1>2, <1>4
<1> QED
  BY <1>1, <1>3, <1>5 DEF Turn

\* The recursion defines a function on the subsets of a finite set.
LEMMA LoopRuns == ASSUME NEW f, NEW S, IsFiniteSet(S) PROVE Runs(f, S)
<1> DEFINE C == {T \in SUBSET S : ~Runs(f, T)}
<1> SUFFICES ASSUME C # {} PROVE FALSE
  OBVIOUS
<1>1. PICK A \in C : \A U \in SUBSET A : U # A => U \notin C
  <2>1. C \in SUBSET (SUBSET S)
    OBVIOUS
  <2> HIDE DEF C
  <2> QED
    BY <2>1, SmallestSubset
<1>2. A \in SUBSET S /\ \A U \in SUBSET A : U # A => Runs(f, U) /\ IsFiniteSet(U)
  BY <1>1, FS_Subset
<1> DEFINE g == [T \in SUBSET A |->
                    IF T = {} THEN 0
                    ELSE f[Pick(T)] + Loop(f, T \ {Pick(T)})[T \ {Pick(T)}]]
<1>3. \A T : T # {} => Pick(T) \in T
  BY DEF Pick
<1>4. ASSUME NEW U \in SUBSET A, U # A PROVE g[U] = Loop(f, U)[U]
  <2>1. Loop(f, U)[U] = Turn(f, Loop(f, U), U)
    BY <1>2, <1>4 DEF Runs
  <2>2. CASE U = {}
    BY <2>1, <2>2 DEF Turn
  <2>3. CASE U # {}
    <3> DEFINE V == U \ {Pick(U)}
    <3>1. V \in SUBSET A /\ V # A /\ V \subseteq U
      BY <1>3, <1>4, <2>3
    <3>2. Loop(f, U)[V] = Loop(f, V)[V]
      <4> HIDE DEF V
      <4> QED
        BY <1>2, <1>4, <3>1, LoopsAgree
    <3> QED
      BY <2>1, <2>3, <3>2 DEF Turn
  <2> QED
    BY <2>2, <2>3
<1>5. g = [T \in SUBSET A |-> Turn(f, g, T)]
  <2> SUFFICES ASSUME NEW T \in SUBSET A PROVE g[T] = Turn(f, g, T)
    OBVIOUS
  <2>1. CASE T = {}
    BY <2>1 DEF Turn
  <2>2. CASE T # {}
    <3>1. T \ {Pick(T)} \in SUBSET A /\ T \ {Pick(T)} # A
      BY <1>3, <2>2
    <3>2. g[T \ {Pick(T)}] = Loop(f, T \ {Pick(T)})[T \ {Pick(T)}]
      BY <1>4, <3>1
    <3> QED
      BY <2>2, <3>2 DEF Turn
  <2> QED
    BY <2>1, <2>2
<1>6. Runs(f, A)
  <2> HIDE DEF g
  <2>1. \E h : h = [T \in SUBSET A |-> Turn(f, h, T)]
    BY <1>5
  <2> QED
    BY <2>1 DEF Runs, Loop
<1> QED
  BY <1>1, <1>6

----------------------------------------------------------------------------
\* What a sum is

THEOREM SumEmpty == \A f : SumFunctionOnSet(f, {}) = 0
<1> SUFFICES ASSUME NEW f PROVE Loop(f, {})[{}] = 0
  BY SumIsLoop
<1>1. Runs(f, {})
  BY LoopRuns, FS_EmptySet
<1> QED
  BY <1>1 DEF Runs, Turn

\* The library's loop takes one element after the other.
LEMMA SumPicks ==
    ASSUME NEW f, NEW S, IsFiniteSet(S), S # {}
    PROVE  /\ Pick(S) \in S
           /\ SumFunctionOnSet(f, S) = f[Pick(S)] + SumFunctionOnSet(f, S \ {Pick(S)})
<1>1. Pick(S) \in S
  BY DEF Pick
<1> DEFINE R == S \ {Pick(S)}
<1>2. R \subseteq S /\ IsFiniteSet(R)
  BY FS_Subset
<1>3. Loop(f, S)[S] = f[Pick(S)] + Loop(f, S)[R]
  <2>1. Runs(f, S)
    BY LoopRuns
  <2> QED
    BY <2>1 DEF Runs, Turn
<1>4. Loop(f, S)[R] = Loop(f, R)[R]
  <2> HIDE DEF R
  <2> QED
    BY <1>2, LoopRuns, LoopsAgree
<1> QED
  BY <1>1, <1>3, <1>4, SumIsLoop

\* Any element may be taken first, and the sum is an integer.
LEMMA SumTakesAny ==
    ASSUME NEW f, NEW S, IsFiniteSet(S), \A x \in S : f[x] \in Int
    PROVE  /\ SumFunctionOnSet(f, S) \in Int
           /\ \A x \in S : SumFunctionOnSet(f, S) = f[x] + SumFunctionOnSet(f, S \ {x})
<1> DEFINE Right(T) == /\ SumFunctionOnSet(f, T) \in Int
                       /\ \A x \in T : SumFunctionOnSet(f, T)
                                          = f[x] + SumFunctionOnSet(f, T \ {x})
           C == {T \in SUBSET S : ~Right(T)}
<1> SUFFICES ASSUME C # {} PROVE FALSE
  OBVIOUS
<1>1. PICK T \in C : \A U \in SUBSET T : U # T => U \notin C
  <2>1. C \in SUBSET (SUBSET S)
    OBVIOUS
  <2> HIDE DEF C
  <2> QED
    BY <2>1, SmallestSubset
<1>2. T \in SUBSET S /\ IsFiniteSet(T) /\ \A U \in SUBSET T : U # T => Right(U)
  BY <1>1, FS_Subset
<1>3. CASE T = {}
  BY <1>1, <1>3, SumEmpty
<1>4. CASE T # {}
  <2> DEFINE p == Pick(T)
  <2>1. p \in T /\ SumFunctionOnSet(f, T) = f[p] + SumFunctionOnSet(f, T \ {p})
    BY <1>2, <1>4, SumPicks
  <2> HIDE DEF p
  <2>2. SumFunctionOnSet(f, T) \in Int
    BY <1>2, <2>1
  <2>3. ASSUME NEW x \in T, x # p
        PROVE  SumFunctionOnSet(f, T) = f[x] + SumFunctionOnSet(f, T \ {x})
    <3>1. SumFunctionOnSet(f, T \ {p}) = f[x] + SumFunctionOnSet(f, (T \ {p}) \ {x})
      BY <1>2, <2>1, <2>3
    <3>2. SumFunctionOnSet(f, T \ {x}) = f[p] + SumFunctionOnSet(f, (T \ {x}) \ {p})
      BY <1>2, <2>1, <2>3
    <3>3. (T \ {p}) \ {x} = (T \ {x}) \ {p}
      OBVIOUS
    <3>4. SumFunctionOnSet(f, (T \ {x}) \ {p}) \in Int
      BY <1>2, <2>1
    <3> QED
      BY <1>2, <2>1, <2>3, <3>1, <3>2, <3>3, <3>4
  <2> QED
    BY <1>1, <2>1, <2>2, <2>3
<1> QED
  BY <1>3, <1>4

THEOREM SumInt ==
    ASSUME NEW f, NEW S, IsFiniteSet(S), \A x \in S : f[x] \in Int
    PROVE  SumFunctionOnSet(f, S) \in Int
  BY SumTakesAny

THEOREM SumRemove ==
    ASSUME NEW f, NEW S, IsFiniteSet(S), \A x \in S : f[x] \in Int, NEW x \in S
    PROVE  SumFunctionOnSet(f, S) = f[x] + SumFunctionOnSet(f, S \ {x})
  BY SumTakesAny

THEOREM SumAdd ==
    ASSUME NEW f, NEW S, IsFiniteSet(S), NEW x, x \notin S,
           \A y \in S \cup {x} : f[y] \in Int
    PROVE  SumFunctionOnSet(f, S \cup {x}) = f[x] + SumFunctionOnSet(f, S)
<1>1. IsFiniteSet(S \cup {x})
  BY FS_AddElement
<1>2. (S \cup {x}) \ {x} = S
  OBVIOUS
<1> QED
  BY <1>1, <1>2, SumTakesAny

----------------------------------------------------------------------------
\* How sums compare

\* Only the values on the set count.
THEOREM SumSame ==
    ASSUME NEW f, NEW g, NEW S, IsFiniteSet(S),
           \A x \in S : f[x] \in Int /\ g[x] = f[x]
    PROVE  SumFunctionOnSet(g, S) = SumFunctionOnSet(f, S)
<1> DEFINE C == {T \in SUBSET S : SumFunctionOnSet(g, T) = SumFunctionOnSet(f, T)}
<1>1. {} \in C
  BY SumEmpty
<1>2. ASSUME NEW T \in SUBSET S, NEW x \in S \ T, T \in C PROVE T \cup {x} \in C
  <2>1. IsFiniteSet(T) /\ \A y \in T \cup {x} : f[y] \in Int /\ g[y] \in Int
    BY FS_Subset
  <2>2. /\ SumFunctionOnSet(f, T \cup {x}) = f[x] + SumFunctionOnSet(f, T)
        /\ SumFunctionOnSet(g, T \cup {x}) = g[x] + SumFunctionOnSet(g, T)
    BY <2>1, SumAdd
  <2> QED
    BY <1>2, <2>2
<1>3. S \in C
  <2> HIDE DEF C
  <2> QED
    BY <1>1, <1>2, SetInduction
<1> QED
  BY <1>3

\* Two disjoint sets are added up one after the other.
THEOREM SumUnion ==
    ASSUME NEW f, NEW S, NEW R, IsFiniteSet(S), IsFiniteSet(R), S \cap R = {},
           \A x \in S \cup R : f[x] \in Int
    PROVE  SumFunctionOnSet(f, S \cup R) = SumFunctionOnSet(f, S) + SumFunctionOnSet(f, R)
<1> DEFINE C == {T \in SUBSET S : SumFunctionOnSet(f, T \cup R)
                                   = SumFunctionOnSet(f, T) + SumFunctionOnSet(f, R)}
<1>1. {} \in C
  <2>1. {} \cup R = R
    OBVIOUS
  <2>2. SumFunctionOnSet(f, R) \in Int
    BY SumInt
  <2> QED
    BY <2>1, <2>2, SumEmpty
<1>2. ASSUME NEW T \in SUBSET S, NEW x \in S \ T, T \in C PROVE T \cup {x} \in C
  <2>1. IsFiniteSet(T) /\ IsFiniteSet(T \cup R) /\ x \notin T \cup R
    BY FS_Subset, FS_Union
  <2>2. /\ SumFunctionOnSet(f, T \cup {x}) = f[x] + SumFunctionOnSet(f, T)
        /\ SumFunctionOnSet(f, (T \cup R) \cup {x}) = f[x] + SumFunctionOnSet(f, T \cup R)
    BY <2>1, SumAdd
  <2>3. (T \cup {x}) \cup R = (T \cup R) \cup {x}
    OBVIOUS
  <2>4. SumFunctionOnSet(f, T) \in Int /\ SumFunctionOnSet(f, R) \in Int /\ f[x] \in Int
    BY <2>1, SumInt
  <2>5. SumFunctionOnSet(f, T \cup R) = SumFunctionOnSet(f, T) + SumFunctionOnSet(f, R)
    BY <1>2
  <2>6. SumFunctionOnSet(f, (T \cup R) \cup {x})
          = (f[x] + SumFunctionOnSet(f, T)) + SumFunctionOnSet(f, R)
    BY <2>2, <2>4, <2>5
  <2>7. SumFunctionOnSet(f, (T \cup {x}) \cup R)
          = SumFunctionOnSet(f, T \cup {x}) + SumFunctionOnSet(f, R)
    BY <2>2, <2>3, <2>6
  <2> QED
    BY <2>7
<1>3. S \in C
  <2> HIDE DEF C
  <2> QED
    BY <1>1, <1>2, SetInduction
<1> QED
  BY <1>3

\* The sum over a part and the sum over the rest.
THEOREM SumSplit ==
    ASSUME NEW f, NEW S, NEW R, IsFiniteSet(S), R \subseteq S, \A x \in S : f[x] \in Int
    PROVE  SumFunctionOnSet(f, S) = SumFunctionOnSet(f, R) + SumFunctionOnSet(f, S \ R)
<1>1. IsFiniteSet(R) /\ IsFiniteSet(S \ R)
  BY FS_Subset
<1>2. R \cup (S \ R) = S
  OBVIOUS
<1> QED
  BY <1>1, <1>2, SumUnion

\* Where nothing is negative nor is the sum, and a part has not more than the whole.
THEOREM SumNat ==
    ASSUME NEW f, NEW S, IsFiniteSet(S), \A x \in S : f[x] \in Nat
    PROVE  SumFunctionOnSet(f, S) \in Nat
<1> DEFINE C == {T \in SUBSET S : SumFunctionOnSet(f, T) \in Nat}
<1>1. {} \in C
  BY SumEmpty
<1>2. ASSUME NEW T \in SUBSET S, NEW x \in S \ T, T \in C PROVE T \cup {x} \in C
  <2>1. SumFunctionOnSet(f, T \cup {x}) = f[x] + SumFunctionOnSet(f, T)
    BY FS_Subset, SumAdd
  <2> QED
    BY <1>2, <2>1
<1>3. S \in C
  <2> HIDE DEF C
  <2> QED
    BY <1>1, <1>2, SetInduction
<1> QED
  BY <1>3

THEOREM SumOfPart ==
    ASSUME NEW f, NEW S, NEW R, IsFiniteSet(S), R \subseteq S, \A x \in S : f[x] \in Nat
    PROVE  SumFunctionOnSet(f, R) <= SumFunctionOnSet(f, S)
<1>1. /\ SumFunctionOnSet(f, S) = SumFunctionOnSet(f, R) + SumFunctionOnSet(f, S \ R)
      /\ IsFiniteSet(R) /\ IsFiniteSet(S \ R)
  BY FS_Subset, SumSplit
<1>2. SumFunctionOnSet(f, R) \in Nat /\ SumFunctionOnSet(f, S \ R) \in Nat
  BY <1>1, SumNat
<1> QED
  BY <1>1, <1>2

\* Adding up sums of two terms.
THEOREM SumOfSums ==
    ASSUME NEW f, NEW g, NEW h, NEW S, IsFiniteSet(S),
           \A x \in S : f[x] \in Int /\ g[x] \in Int /\ h[x] = f[x] + g[x]
    PROVE  SumFunctionOnSet(h, S) = SumFunctionOnSet(f, S) + SumFunctionOnSet(g, S)
<1> DEFINE C == {T \in SUBSET S : SumFunctionOnSet(h, T)
                                   = SumFunctionOnSet(f, T) + SumFunctionOnSet(g, T)}
<1>1. {} \in C
  BY SumEmpty
<1>2. ASSUME NEW T \in SUBSET S, NEW x \in S \ T, T \in C PROVE T \cup {x} \in C
  <2>1. IsFiniteSet(T) /\ \A y \in T \cup {x} : h[y] \in Int
    BY FS_Subset
  <2>2. /\ SumFunctionOnSet(f, T \cup {x}) = f[x] + SumFunctionOnSet(f, T)
        /\ SumFunctionOnSet(g, T \cup {x}) = g[x] + SumFunctionOnSet(g, T)
        /\ SumFunctionOnSet(h, T \cup {x}) = h[x] + SumFunctionOnSet(h, T)
    BY <2>1, SumAdd
  <2>3. SumFunctionOnSet(f, T) \in Int /\ SumFunctionOnSet(g, T) \in Int
    BY <2>1, SumInt
  <2> QED
    BY <1>2, <2>2, <2>3
<1>3. S \in C
  <2> HIDE DEF C
  <2> QED
    BY <1>1, <1>2, SetInduction
<1> QED
  BY <1>3

\* Terms that are all zero.
THEOREM SumZero ==
    ASSUME NEW f, NEW S, IsFiniteSet(S), \A x \in S : f[x] = 0
    PROVE  SumFunctionOnSet(f, S) = 0
<1> DEFINE C == {T \in SUBSET S : SumFunctionOnSet(f, T) = 0}
<1>1. {} \in C
  BY SumEmpty
<1>2. ASSUME NEW T \in SUBSET S, NEW x \in S \ T, T \in C PROVE T \cup {x} \in C
  <2>1. SumFunctionOnSet(f, T \cup {x}) = f[x] + SumFunctionOnSet(f, T)
    BY FS_Subset, SumAdd
  <2> QED
    BY <1>2, <2>1
<1>3. S \in C
  <2> HIDE DEF C
  <2> QED
    BY <1>1, <1>2, SetInduction
<1> QED
  BY <1>3

\* The terms may be taken under other names, if no two get the same one.
THEOREM SumRenamed ==
    ASSUME NEW f, NEW g, NEW h, NEW S, IsFiniteSet(S),
           \A x \in S : f[x] \in Int /\ g[h[x]] = f[x],
           \A x, y \in S : h[x] = h[y] => x = y
    PROVE  SumFunctionOnSet(g, {h[x] : x \in S}) = SumFunctionOnSet(f, S)
<1> DEFINE Names(T) == {h[x] : x \in T}
           C == {T \in SUBSET S : /\ IsFiniteSet(Names(T))
                                  /\ SumFunctionOnSet(g, Names(T)) = SumFunctionOnSet(f, T)}
<1>1. {} \in C
  <2>1. Names({}) = {}
    OBVIOUS
  <2> QED
    BY <2>1, SumEmpty, FS_EmptySet
<1>2. ASSUME NEW T \in SUBSET S, NEW x \in S \ T, T \in C PROVE T \cup {x} \in C
  <2>1. Names(T \cup {x}) = Names(T) \cup {h[x]} /\ h[x] \notin Names(T)
    OBVIOUS
  <2>2. \A y \in Names(T) \cup {h[x]} : g[y] \in Int
    OBVIOUS
  <2>3. /\ IsFiniteSet(Names(T)) /\ IsFiniteSet(T)
        /\ SumFunctionOnSet(g, Names(T)) = SumFunctionOnSet(f, T)
    BY <1>2, FS_Subset
  <2> HIDE DEF Names
  <2>4. IsFiniteSet(Names(T) \cup {h[x]})
    BY <2>3, FS_AddElement
  <2>5. SumFunctionOnSet(g, Names(T) \cup {h[x]}) = g[h[x]] + SumFunctionOnSet(g, Names(T))
    BY <2>1, <2>2, <2>3, SumAdd
  <2>6. SumFunctionOnSet(f, T \cup {x}) = f[x] + SumFunctionOnSet(f, T)
    BY <2>3, SumAdd
  <2> QED
    BY <2>1, <2>3, <2>4, <2>5, <2>6
<1>3. S \in C
  <2> HIDE DEF C
  <2> QED
    BY <1>1, <1>2, SetInduction
<1> QED
  BY <1>3

\* Rows in groups, added up by group and then over the groups.
THEOREM SumByGroup ==
    ASSUME NEW f, NEW S, NEW K, NEW group, NEW g, IsFiniteSet(S), IsFiniteSet(K),
           \A x \in S : f[x] \in Int,
           \A k \in K : group[k] \subseteq S /\ g[k] = SumFunctionOnSet(f, group[k]),
           \A k, j \in K : k # j => group[k] \cap group[j] = {},
           \A x \in S : \E k \in K : x \in group[k]
    PROVE  SumFunctionOnSet(g, K) = SumFunctionOnSet(f, S)
<1> DEFINE Rows(T) == {x \in S : \E k \in T : x \in group[k]}
           C == {T \in SUBSET K : SumFunctionOnSet(g, T) = SumFunctionOnSet(f, Rows(T))}
<1>0. /\ \A T \in SUBSET K : IsFiniteSet(T)
      /\ \A k \in K : IsFiniteSet(group[k]) /\ g[k] \in Int
  BY FS_Subset, SumInt
<1>1. {} \in C
  <2>1. Rows({}) = {}
    OBVIOUS
  <2> QED
    BY <2>1, SumEmpty
<1>2. ASSUME NEW T \in SUBSET K, NEW k \in K \ T, T \in C PROVE T \cup {k} \in C
  <2>1. /\ Rows(T \cup {k}) = Rows(T) \cup group[k]
        /\ Rows(T) \cap group[k] = {}
        /\ Rows(T) \subseteq S /\ group[k] \subseteq S
    OBVIOUS
  <2>2. SumFunctionOnSet(g, T) = SumFunctionOnSet(f, Rows(T))
    BY <1>2
  <2>3. g[k] = SumFunctionOnSet(f, group[k])
    OBVIOUS
  <2> HIDE DEF Rows
  <2>4. SumFunctionOnSet(g, T \cup {k}) = g[k] + SumFunctionOnSet(g, T)
    BY <1>0, SumAdd
  <2>5. /\ IsFiniteSet(Rows(T)) /\ \A x \in Rows(T) \cup group[k] : f[x] \in Int
    BY <2>1, FS_Subset
  <2>6. SumFunctionOnSet(f, Rows(T) \cup group[k])
          = SumFunctionOnSet(f, Rows(T)) + SumFunctionOnSet(f, group[k])
    BY <1>0, <2>1, <2>5, SumUnion
  <2>7. SumFunctionOnSet(f, Rows(T)) \in Int /\ SumFunctionOnSet(f, group[k]) \in Int
    BY <1>0, <2>1, <2>5, SumInt
  <2>8. SumFunctionOnSet(g, T \cup {k}) = SumFunctionOnSet(f, Rows(T) \cup group[k])
    BY <2>2, <2>3, <2>4, <2>6, <2>7
  <2> QED
    BY <2>1, <2>8
<1>3. K \in C
  <2> HIDE DEF C
  <2> QED
    BY <1>1, <1>2, SetInduction
<1>4. Rows(K) = S
  OBVIOUS
<1> QED
  BY <1>3, <1>4

\* One term changes.
THEOREM SumUpdate ==
    ASSUME NEW f, NEW g, NEW S, IsFiniteSet(S), NEW x \in S, g[x] \in Int,
           \A y \in S : f[y] \in Int, \A y \in S \ {x} : g[y] = f[y]
    PROVE  SumFunctionOnSet(g, S) = SumFunctionOnSet(f, S) - f[x] + g[x]
<1>1. IsFiniteSet(S \ {x}) /\ \A y \in S : g[y] \in Int
  BY FS_Subset
<1>2. /\ SumFunctionOnSet(f, S) = f[x] + SumFunctionOnSet(f, S \ {x})
      /\ SumFunctionOnSet(g, S) = g[x] + SumFunctionOnSet(g, S \ {x})
  BY <1>1, SumRemove
<1>3. SumFunctionOnSet(g, S \ {x}) = SumFunctionOnSet(f, S \ {x})
  BY <1>1, SumSame
<1>4. SumFunctionOnSet(f, S \ {x}) \in Int
  BY <1>1, SumInt
<1> QED
  BY <1>2, <1>3, <1>4

\* Every term is a multiple of the same number.
THEOREM SumScaled ==
    ASSUME NEW f, NEW g, NEW n \in Int, NEW S, IsFiniteSet(S),
           \A x \in S : f[x] \in Int /\ g[x] = n * f[x]
    PROVE  SumFunctionOnSet(g, S) = n * SumFunctionOnSet(f, S)
<1> DEFINE C == {T \in SUBSET S : SumFunctionOnSet(g, T) = n * SumFunctionOnSet(f, T)}
<1>1. {} \in C
  BY SumEmpty
<1>2. ASSUME NEW T \in SUBSET S, NEW x \in S \ T, T \in C PROVE T \cup {x} \in C
  <2>1. IsFiniteSet(T) /\ \A y \in T \cup {x} : g[y] \in Int
    BY FS_Subset
  <2>2. /\ SumFunctionOnSet(f, T \cup {x}) = f[x] + SumFunctionOnSet(f, T)
        /\ SumFunctionOnSet(g, T \cup {x}) = n * f[x] + SumFunctionOnSet(g, T)
    BY <2>1, SumAdd
  <2>3. SumFunctionOnSet(f, T) \in Int /\ f[x] \in Int
    BY <2>1, SumInt
  <2>4. \A a, b \in Int : n * (a + b) = n * a + n * b
    OBVIOUS
  <2>5. SumFunctionOnSet(g, T \cup {x}) = n * (f[x] + SumFunctionOnSet(f, T))
    BY <1>2, <2>2, <2>3, <2>4
  <2> QED
    BY <2>2, <2>5
<1>3. S \in C
  <2> HIDE DEF C
  <2> QED
    BY <1>1, <1>2, SetInduction
<1> QED
  BY <1>3

\* Terms of at most n add up to at most n for each.
THEOREM SumBounded ==
    ASSUME NEW f, NEW n \in Int, NEW S, IsFiniteSet(S),
           \A x \in S : f[x] \in Int /\ f[x] <= n
    PROVE  SumFunctionOnSet(f, S) <= n * Cardinality(S)
<1> DEFINE C == {T \in SUBSET S : SumFunctionOnSet(f, T) <= n * Cardinality(T)}
<1>1. {} \in C
  BY SumEmpty, FS_EmptySet
<1>2. ASSUME NEW T \in SUBSET S, NEW x \in S \ T, T \in C PROVE T \cup {x} \in C
  <2>1. IsFiniteSet(T)
    BY FS_Subset
  <2>2. SumFunctionOnSet(f, T \cup {x}) = f[x] + SumFunctionOnSet(f, T)
    BY <2>1, SumAdd
  <2>3. Cardinality(T \cup {x}) = Cardinality(T) + 1 /\ Cardinality(T) \in Nat
    BY <2>1, FS_AddElement, FS_CardinalityType
  <2>4. SumFunctionOnSet(f, T) \in Int /\ f[x] \in Int /\ f[x] <= n
    BY <2>1, SumInt
  <2>5. n * (Cardinality(T) + 1) = n * Cardinality(T) + n /\ n * Cardinality(T) \in Int
    <3>1. \A a, b \in Int : n * (a + b) = n * a + n * b
      OBVIOUS
    <3>2. n * (Cardinality(T) + 1) = n * Cardinality(T) + n * 1
      BY <2>3, <3>1
    <3> QED
      BY <2>3, <3>2
  <2>6. SumFunctionOnSet(f, T) <= n * Cardinality(T)
    BY <1>2
  <2>7. f[x] + SumFunctionOnSet(f, T) <= n * Cardinality(T) + n
    BY <2>4, <2>5, <2>6
  <2> QED
    BY <2>2, <2>3, <2>5, <2>7
<1>3. S \in C
  <2> HIDE DEF C
  <2> QED
    BY <1>1, <1>2, SetInduction
<1> QED
  BY <1>3
=============================================================================
