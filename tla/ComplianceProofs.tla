-------------------------- MODULE ComplianceProofs --------------------------
(***************************************************************************)
(* Proofs about Compliance: with any number of screeners, entries and      *)
(* accounts, and whatever fails and is repeated, every rule is applied to  *)
(* what was screened and nobody is flagged without a day that justifies    *)
(* it.                                                                     *)
(***************************************************************************)
EXTENDS Compliance, SumTheorems
----------------------------------------------------------------------------
\* Types, and how often an entry is screened

\* A screener that is not idle has an entry of its own, committed and not screened yet, and
\* took its time when it was past.
ScreensOK ==
    /\ \A s \in Screeners : at[s] # "idle" <=> entry[s] # NoEntry
    /\ \A s \in Screeners : at[s] # "idle" =>
        entry[s] \in committed /\ screened[entry[s]] = NoTime /\ now[s] <= clock
    /\ \A s, o \in Screeners : entry[s] # NoEntry /\ entry[s] = entry[o] => s = o
    /\ \A e \in Entries : screened[e] # NoTime => e \in committed /\ screened[e] <= clock

UnderWay(e) == screened[e] # NoTime \/ \E s \in Screeners : entry[s] = e

\* The screenings of an entry that failed.
Missed == [e \in Entries |-> IF UnderWay(e) THEN tries[e] - 1 ELSE tries[e]]

Busy == {s \in Screeners : at[s] # "idle"}

\* The bound on failures bounds the tries of every entry: the failures are those of the
\* entries together.
CountOK ==
    /\ \A e \in Entries : Missed[e] \in Nat
    /\ Failures = SumFunctionOnSet(Missed, Entries)
    /\ Failures <= MaxFailures

IInv == TypeOK /\ ScreensOK /\ CountOK

\* An entry is tried once more than all entries fail, at most.
LEMMA TriesBounded ==
    ASSUME NEW f, NEW m, NEW t, NEW e \in Entries, \A x \in Entries : f[x] \in Nat,
           m = SumFunctionOnSet(f, Entries), m <= MaxFailures, t \in Int, t = f[e] \/ t = f[e] + 1
    PROVE  t \in {0} \cup Tries /\ (t = f[e] + 1 => t \in Tries)
<1>1. f[e] \in Nat /\ MaxFailures \in Nat /\ IsFiniteSet(Entries)
  BY ComplianceAssumption
<1>2. IsFiniteSet(Entries \ {e}) /\ \A x \in Entries \ {e} : f[x] \in Nat
  BY <1>1, FS_Subset
<1>3. SumFunctionOnSet(f, Entries \ {e}) \in Nat
  BY <1>2, SumNat
<1>4. \A x \in Entries : f[x] \in Int
  OBVIOUS
<1>5. m = f[e] + SumFunctionOnSet(f, Entries \ {e})
  BY <1>1, <1>4, SumRemove
<1>6. f[e] <= MaxFailures
  <2> DEFINE r == SumFunctionOnSet(f, Entries \ {e})
  <2>1. r \in Nat /\ m = f[e] + r
    BY <1>3, <1>5
  <2> HIDE DEF r
  <2> QED
    BY <1>1, <2>1
<1> QED
  BY <1>1, <1>6 DEF Tries

LEMMA InitIInv == Init => IInv
<1> SUFFICES ASSUME Init PROVE IInv
  OBVIOUS
<1>1. TypeOK /\ ScreensOK
  BY ComplianceAssumption DEF Init, TypeOK, ScreensOK, Time, AlertTypes
<1>2. \A e \in Entries : ~UnderWay(e) /\ Missed[e] = 0 /\ tries[e] = 0
  BY ComplianceAssumption DEF Init, UnderWay, Missed
<1>3. SumFunctionOnSet(Missed, Entries) = 0
  BY <1>2, ComplianceAssumption, SumZero
<1>4. SumFunctionOnSet(tries, Entries) = 0
  BY <1>2, ComplianceAssumption, SumZero
<1>5. {e \in Entries : screened[e] # NoTime} = {} /\ {s \in Screeners : at[s] # "idle"} = {}
  BY DEF Init
<1>6. Failures = 0
  BY <1>4, <1>5, FS_EmptySet DEF Failures
<1>7. MaxFailures \in Nat
  BY ComplianceAssumption
<1> QED
  BY <1>1, <1>2, <1>3, <1>6, <1>7 DEF IInv, CountOK

\* A step that begins and ends no screening counts nothing.
LEMMA SameCount ==
    ASSUME IInv, UNCHANGED <<tries, screened, entry>>,
           \A s \in Screeners : at'[s] # "idle" <=> at[s] # "idle"
    PROVE  CountOK'
<1>1. Missed' = Missed
  BY DEF Missed, UnderWay
<1>2. {s \in Screeners : at'[s] # "idle"} = {s \in Screeners : at[s] # "idle"}
  OBVIOUS
<1>3. Failures' = Failures
  BY <1>2 DEF Failures
<1> QED
  BY <1>1, <1>3 DEF IInv, CountOK

\* The numbers of CountOK.
LEMMA Counts ==
    ASSUME IInv
    PROVE  /\ IsFiniteSet(Entries) /\ IsFiniteSet(Screened) /\ IsFiniteSet(Busy)
           /\ Cardinality(Screened) \in Nat /\ Cardinality(Busy) \in Nat /\ MaxFailures \in Nat
           /\ \A e \in Entries : tries[e] \in Int /\ Missed[e] \in Int /\ Missed[e] \in Nat
           /\ SumFunctionOnSet(tries, Entries) \in Int
           /\ SumFunctionOnSet(Missed, Entries) \in Int
           /\ Failures = SumFunctionOnSet(tries, Entries) - Cardinality(Screened) - Cardinality(Busy)
           /\ Failures = SumFunctionOnSet(Missed, Entries) /\ Failures <= MaxFailures
<1>1. IsFiniteSet(Entries) /\ IsFiniteSet(Screened) /\ IsFiniteSet(Busy)
  BY ComplianceAssumption, FS_Subset DEF Screened, Busy
<1>2. Cardinality(Screened) \in Nat /\ Cardinality(Busy) \in Nat /\ MaxFailures \in Nat
  BY <1>1, ComplianceAssumption, FS_CardinalityType
<1>3. \A e \in Entries : tries[e] \in Int /\ Missed[e] \in Int /\ Missed[e] \in Nat
  BY <1>2 DEF IInv, CountOK, TypeOK, Tries
<1>4. SumFunctionOnSet(tries, Entries) \in Int
  BY <1>1, <1>3, SumInt
<1>5. SumFunctionOnSet(Missed, Entries) \in Int
  BY <1>1, <1>3, SumInt
<1> QED
  BY <1>1, <1>2, <1>3, <1>4, <1>5 DEF IInv, CountOK, Failures, Screened, Busy

\* A screening that begins is a try and no failure.
LEMMA BeginCounts == ASSUME IInv, NEW s \in Screeners, NEW e \in Entries, Begin(s, e) PROVE CountOK'
<1> DEFINE m == SumFunctionOnSet(tries, Entries)
           b == Cardinality(Busy)
           d == Cardinality(Screened)
<1>1. /\ tries' = [tries EXCEPT ![e] = @ + 1] /\ entry' = [entry EXCEPT ![s] = e]
      /\ at' = [at EXCEPT ![s] = "ctr"] /\ UNCHANGED screened
      /\ at[s] = "idle" /\ screened[e] = NoTime /\ \A o \in Screeners : entry[o] # e
  BY DEF Begin, Goto
<1>2. /\ tries'[e] = tries[e] + 1 /\ \A x \in Entries \ {e} : tries'[x] = tries[x]
      /\ entry'[s] = e /\ \A o \in Screeners \ {s} : entry'[o] = entry[o]
      /\ entry[s] = NoEntry /\ NoEntry \notin Entries
  BY <1>1, ComplianceAssumption DEF IInv, TypeOK, ScreensOK
<1>3. ~UnderWay(e) /\ UnderWay(e)' /\ \A x \in Entries \ {e} : UnderWay(x)' <=> UnderWay(x)
  BY <1>1, <1>2 DEF UnderWay
<1>4. \A x \in Entries : Missed'[x] = Missed[x]
  <2>1. Missed'[e] = Missed[e]
    BY <1>2, <1>3, Counts DEF Missed
  <2>2. \A x \in Entries \ {e} : Missed'[x] = Missed[x]
    BY <1>2, <1>3 DEF Missed
  <2> QED
    BY <2>1, <2>2
<1>5. SumFunctionOnSet(Missed', Entries) = SumFunctionOnSet(Missed, Entries)
  BY <1>4, Counts, SumSame
<1>6. SumFunctionOnSet(tries', Entries) = m - tries[e] + tries'[e]
  <2>1. IsFiniteSet(Entries) /\ tries'[e] \in Int /\ \A x \in Entries : tries[x] \in Int
    BY <1>2, Counts
  <2> QED
    BY <1>2, <2>1, SumUpdate
<1>7. Busy' = Busy \cup {s} /\ s \notin Busy
  BY <1>1 DEF Busy, IInv, TypeOK
<1>8. Cardinality(Busy') = b + 1
  BY <1>7, Counts, FS_AddElement
<1>9. Screened' = Screened
  BY <1>1 DEF Screened
<1>10. Failures' = SumFunctionOnSet(tries', Entries) - Cardinality(Screened') - Cardinality(Busy')
  BY DEF Failures, Screened, Busy
<1>11. m \in Int /\ b \in Int /\ d \in Int /\ tries[e] \in Int /\ Failures = m - d - b
  BY Counts
<1> HIDE DEF m, b, d
<1>12. Failures' = Failures
  BY <1>2, <1>6, <1>8, <1>9, <1>10, <1>11 DEF d
<1> QED
  BY <1>4, <1>5, <1>12, Counts DEF CountOK

\* A screening that returns nil is no failure; one that fails is one.
LEMMA EndCounts ==
    ASSUME IInv, NEW s \in Screeners, at[s] # "idle", End(s),
           \/ screened' = [screened EXCEPT ![entry[s]] = now[s]]
           \/ UNCHANGED screened /\ Failures < MaxFailures
    PROVE  CountOK'
<1> DEFINE m == SumFunctionOnSet(tries, Entries)
           b == Cardinality(Busy)
           d == Cardinality(Screened)
<1>1. PICK e \in Entries : e = entry[s]
  BY DEF IInv, TypeOK, ScreensOK
<1>2. /\ entry'[s] = NoEntry /\ \A o \in Screeners \ {s} : entry'[o] = entry[o] /\ entry[o] # e
      /\ screened[e] = NoTime /\ UNCHANGED tries /\ NoEntry \notin Entries
      /\ at' = [at EXCEPT ![s] = "idle"]
  BY <1>1, ComplianceAssumption DEF End, Goto, IInv, TypeOK, ScreensOK
<1>3. UnderWay(e)
  BY <1>1 DEF UnderWay
<1>4. Busy' = Busy \ {s} /\ s \in Busy
  BY <1>2 DEF Busy, IInv, TypeOK
<1>5. Cardinality(Busy') = b - 1
  BY <1>4, Counts, FS_RemoveElement
<1>6. Failures' = SumFunctionOnSet(tries', Entries) - Cardinality(Screened') - Cardinality(Busy')
  BY DEF Failures, Screened, Busy
<1>7. m \in Int /\ b \in Int /\ d \in Int /\ MaxFailures \in Nat /\ Failures = m - d - b
      /\ Failures = SumFunctionOnSet(Missed, Entries) /\ Failures <= MaxFailures
  BY Counts
<1>8. CASE screened' = [screened EXCEPT ![entry[s]] = now[s]]
  <2>1. screened'[e] # NoTime /\ \A x \in Entries \ {e} : screened'[x] = screened[x]
    BY <1>1, <1>8, ComplianceAssumption DEF IInv, TypeOK, Time
  <2>2. \A x \in Entries : UnderWay(x)' <=> UnderWay(x)
    BY <1>1, <1>2, <1>3, <2>1 DEF UnderWay
  <2>3. Missed' = Missed
    BY <1>2, <2>2 DEF Missed
  <2>4. Screened' = Screened \cup {e} /\ e \notin Screened
    BY <1>2, <2>1 DEF Screened
  <2>5. Cardinality(Screened') = d + 1
    BY <2>4, Counts, FS_AddElement
  <2> HIDE DEF m, b, d
  <2>6. Failures' = Failures
    BY <1>2, <1>5, <1>6, <1>7, <2>5 DEF m
  <2> QED
    BY <2>3, <2>6, Counts DEF CountOK
<1>9. CASE UNCHANGED screened /\ Failures < MaxFailures
  <2>1. ~UnderWay(e)' /\ \A x \in Entries \ {e} : UnderWay(x)' <=> UnderWay(x)
    BY <1>1, <1>2, <1>9 DEF UnderWay
  <2>2. Missed'[e] = Missed[e] + 1 /\ \A x \in Entries \ {e} : Missed'[x] = Missed[x]
    BY <1>2, <1>3, <2>1, Counts DEF Missed
  <2>3. IsFiniteSet(Entries) /\ Missed'[e] \in Int /\ \A x \in Entries : Missed[x] \in Int
    BY <2>2, Counts
  <2>4. SumFunctionOnSet(Missed', Entries) = SumFunctionOnSet(Missed, Entries) - Missed[e] + Missed'[e]
    BY <2>2, <2>3, SumUpdate
  <2>5. Screened' = Screened
    BY <1>9 DEF Screened
  <2> HIDE DEF m, b, d
  <2>6. Failures' = Failures + 1
    BY <1>2, <1>5, <1>6, <1>7, <2>5 DEF m, d
  <2>7. SumFunctionOnSet(Missed', Entries) = Failures + 1
    BY <1>7, <2>2, <2>3, <2>4
  <2>8. \A x \in Entries : Missed'[x] \in Nat
    BY <2>2, Counts
  <2>9. Failures \in Int
    BY <1>7
  <2> QED
    BY <1>7, <1>9, <2>6, <2>7, <2>8, <2>9 DEF CountOK
<1> QED
  BY <1>8, <1>9

LEMMA NextCount == ASSUME IInv, [Next]_vars PROVE CountOK'
<1>1. ASSUME UNCHANGED screener, UNCHANGED <<tries, screened>> PROVE CountOK'
  BY <1>1, SameCount DEF screener
<1>2. ASSUME NEW s \in Screeners, ScreenAmount(s) \/ FlagVelocity(s) PROVE CountOK'
  <2>1. \A o \in Screeners : at'[o] # "idle" <=> at[o] # "idle"
    BY <1>2 DEF ScreenAmount, FlagVelocity, Goto, IInv, TypeOK
  <2> QED
    BY <1>2, <2>1, SameCount DEF ScreenAmount, FlagVelocity
<1>3. ASSUME NEW s \in Screeners, FlagStructuring(s) \/ Fail(s) PROVE CountOK'
  BY <1>3, EndCounts DEF FlagStructuring, Fail
<1> QED
  BY <1>1, <1>2, <1>3, BeginCounts
     DEF Next, Screen, Tick, Draw, CommitEntry, UpdateAlertStatus, vars, screener

\* An entry's tries stay in their type.
LEMMA NextTries == ASSUME IInv, [Next]_vars PROVE tries' \in [Entries -> {0} \cup Tries]
<1>1. CountOK'
  BY NextCount
<1>2. ASSUME NEW e \in Entries PROVE tries'[e] \in Int /\ (tries'[e] = Missed'[e] \/ tries'[e] = Missed'[e] + 1)
  <2>1. tries'[e] \in Int
    BY ComplianceAssumption
       DEF IInv, TypeOK, Tries, Next, Tick, Draw, CommitEntry, Begin, Screen, ScreenAmount, FlagVelocity,
           FlagStructuring, Fail, End, UpdateAlertStatus, vars
  <2> QED
    BY <2>1 DEF Missed
<1>3. ASSUME NEW e \in Entries PROVE tries'[e] \in {0} \cup Tries
  <2>1. /\ \A x \in Entries : Missed'[x] \in Nat
        /\ Failures' = SumFunctionOnSet(Missed', Entries) /\ Failures' <= MaxFailures
    BY <1>1 DEF CountOK
  <2> QED
    BY <1>2, <2>1, TriesBounded
<1>4. tries' = [e \in Entries |-> tries'[e]]
  BY DEF IInv, TypeOK, Next, Tick, Draw, CommitEntry, Begin, Screen, ScreenAmount, FlagVelocity,
         FlagStructuring, Fail, End, UpdateAlertStatus, vars
<1> QED
  BY <1>3, <1>4

\* A screening raises its alerts under the entry's present try.
LEMMA PresentTry == ASSUME IInv, NEW s \in Screeners, at[s] # "idle" PROVE tries[entry[s]] \in Tries
<1>1. PICK e \in Entries : e = entry[s]
  BY DEF IInv, TypeOK, ScreensOK
<1>2. UnderWay(e)
  BY <1>1 DEF UnderWay
<1>3. tries[e] = Missed[e] + 1 /\ tries[e] \in Int
  BY <1>2, Counts DEF Missed
<1>4. \A x \in Entries : Missed[x] \in Nat
  BY Counts
<1>5. Failures = SumFunctionOnSet(Missed, Entries) /\ Failures <= MaxFailures
  BY Counts
<1> QED
  BY <1>1, <1>3, <1>4, <1>5, TriesBounded

\* Alerts keep their type, and none is ever taken away.
AlertsOK ==
    /\ alerts \in [AlertTypes \X Entries \X Tries -> AlertType \cup {NoAlert}]
    /\ \A x \in DOMAIN alerts :
        alerts[x] # NoAlert => (alerts[x].resolved <=> alerts[x].status \in {"CLOSED", "FILED"})

LEMMA AlertRaised ==
    ASSUME IInv, NEW s \in Screeners, at[s] # "idle", NEW type \in AlertTypes, createAlert(s, type)
    PROVE  /\ AlertsOK'
           /\ \A x \in DOMAIN alerts : alerts[x] # NoAlert => alerts'[x] # NoAlert
           /\ \A x \in DOMAIN alerts : alerts'[x] # NoAlert =>
                alerts[x] # NoAlert \/ x = <<type, entry[s], tries[entry[s]]>>
           /\ alerts'[<<type, entry[s], tries[entry[s]]>>] # NoAlert
           /\ <<type, entry[s], tries[entry[s]]>> \in AlertTypes \X Entries \X Tries
<1> DEFINE y == <<type, entry[s], tries[entry[s]]>>
           v == [status |-> "OPEN", resolved |-> FALSE]
<1>1. entry[s] \in Entries
  BY DEF IInv, TypeOK, ScreensOK
<1>2. y \in AlertTypes \X Entries \X Tries
  BY <1>1, PresentTry
<1>3. v \in AlertType /\ v # NoAlert /\ (v.resolved <=> v.status \in {"CLOSED", "FILED"})
  <2>1. v \in AlertType
    BY DEF AlertType, AlertStatuses
  <2>2. v # NoAlert
    BY <2>1, ComplianceAssumption
  <2>3. v.resolved <=> v.status \in {"CLOSED", "FILED"}
    OBVIOUS
  <2> QED
    BY <2>1, <2>2, <2>3
<1>4. alerts' = [alerts EXCEPT ![y] = v]
  BY DEF createAlert
<1>5. AlertsOK
  BY DEF IInv, TypeOK, AlertsOK
<1> HIDE DEF y, v
<1>6. alerts'[y] = v /\ \A x \in (AlertTypes \X Entries \X Tries) \ {y} : alerts'[x] = alerts[x]
  BY <1>2, <1>4, <1>5 DEF AlertsOK
<1>7. AlertsOK'
  BY <1>2, <1>3, <1>4, <1>5, <1>6 DEF AlertsOK
<1> QED
  BY <1>2, <1>3, <1>5, <1>6, <1>7 DEF AlertsOK, y

LEMMA AlertDecided ==
    ASSUME IInv, NEW x \in DOMAIN alerts, NEW status \in Decisions, UpdateAlertStatus(x, status)
    PROVE  /\ AlertsOK'
           /\ \A z \in DOMAIN alerts : alerts[z] # NoAlert <=> alerts'[z] # NoAlert
<1> DEFINE over == status \in {"CLOSED", "FILED"}
           v == [status |-> status, resolved |-> over]
<1>1. v \in AlertType /\ v # NoAlert /\ (v.resolved <=> v.status \in {"CLOSED", "FILED"})
  <2>1. over \in BOOLEAN /\ status \in AlertStatuses
    BY ComplianceAssumption
  <2> HIDE DEF over
  <2>2. v \in AlertType
    BY <2>1 DEF AlertType
  <2>3. v # NoAlert
    BY <2>2, ComplianceAssumption
  <2>4. v.resolved = over /\ v.status = status
    OBVIOUS
  <2>5. v.resolved <=> v.status \in {"CLOSED", "FILED"}
    BY <2>4 DEF over
  <2> QED
    BY <2>2, <2>3, <2>5
<1>2. alerts' = [alerts EXCEPT ![x] = v] /\ alerts[x] # NoAlert
  BY DEF UpdateAlertStatus
<1>3. AlertsOK
  BY DEF IInv, TypeOK, AlertsOK
<1> HIDE DEF v
<1> QED
  BY <1>1, <1>2, <1>3 DEF AlertsOK

LEMMA NextAlerts ==
    ASSUME IInv, [Next]_vars
    PROVE  /\ AlertsOK'
           /\ \A x \in DOMAIN alerts : alerts[x] # NoAlert => alerts'[x] # NoAlert
<1>1. ASSUME UNCHANGED alerts PROVE AlertsOK'
  BY <1>1 DEF IInv, TypeOK, AlertsOK
<1>2. ASSUME NEW s \in Screeners, Screen(s), ~UNCHANGED alerts
      PROVE  at[s] # "idle" /\ \E type \in AlertTypes : createAlert(s, type)
  BY <1>2 DEF Screen, ScreenAmount, FlagVelocity, FlagStructuring, AlertTypes
<1>3. ASSUME NEW s \in Screeners, Screen(s)
      PROVE  AlertsOK' /\ \A x \in DOMAIN alerts : alerts[x] # NoAlert => alerts'[x] # NoAlert
  <2>1. CASE UNCHANGED alerts
    BY <1>1, <2>1
  <2>2. CASE ~UNCHANGED alerts
    <3>1. at[s] # "idle" /\ \E type \in AlertTypes : createAlert(s, type)
      BY <1>2, <1>3, <2>2
    <3> QED
      BY <3>1, AlertRaised
  <2> QED
    BY <2>1, <2>2
<1>4. ASSUME UNCHANGED alerts
      PROVE  AlertsOK' /\ \A x \in DOMAIN alerts : alerts[x] # NoAlert => alerts'[x] # NoAlert
  BY <1>1, <1>4
<1> QED
  BY <1>3, <1>4, AlertDecided DEF Next, Tick, Draw, CommitEntry, Fail, Begin, vars

\* The other variables stay in their types.
TablesOK ==
    /\ clock \in Time
    /\ created \in [Entries -> Time \cup {NoTime}]
    /\ committed \in SUBSET {e \in Entries : created[e] # NoTime}
    /\ screened \in [Entries -> Time \cup {NoTime}]
    /\ at \in [Screeners -> {"idle", "ctr", "velocity", "structuring"}]
    /\ entry \in [Screeners -> Entries \cup {NoEntry}]
    /\ now \in [Screeners -> Time]

LEMMA NextTables == ASSUME IInv, [Next]_vars PROVE TablesOK' /\ ScreensOK'
<1> USE DEF IInv, TypeOK, TablesOK
<1>0. 0 \in Time /\ NoTime \notin Time /\ NoEntry \notin Entries
  BY ComplianceAssumption DEF Time
<1>1. CASE Tick
  <2>1. clock' \in Time /\ clock <= clock' /\ UNCHANGED <<created, committed, screened, screener>>
    BY <1>1, ComplianceAssumption DEF Tick, Time
  <2>2. TablesOK'
    BY <2>1 DEF screener
  <2>3. \A t \in Time : t <= clock => t <= clock'
    BY <2>1 DEF Time
  <2> QED
    BY <2>1, <2>2, <2>3 DEF ScreensOK, screener
<1>2. ASSUME NEW e \in Entries, Draw(e) PROVE TablesOK' /\ ScreensOK'
  BY <1>0, <1>2 DEF Draw, ScreensOK, screener
<1>3. ASSUME NEW e \in Entries, CommitEntry(e) PROVE TablesOK' /\ ScreensOK'
  BY <1>3 DEF CommitEntry, ScreensOK, screener
<1>4. ASSUME NEW s \in Screeners, NEW e \in Entries, Begin(s, e) PROVE TablesOK' /\ ScreensOK'
  <2>1. TablesOK'
    BY <1>4 DEF Begin, Goto
  <2>2. /\ at'[s] = "ctr" /\ entry'[s] = e /\ now'[s] = clock /\ clock <= clock
        /\ \A o \in Screeners \ {s} : at'[o] = at[o] /\ entry'[o] = entry[o] /\ now'[o] = now[o]
        /\ e \in committed /\ screened[e] = NoTime /\ \A o \in Screeners : entry[o] # e
        /\ UNCHANGED <<clock, committed, screened>>
    BY <1>4 DEF Begin, Goto, Time
  <2> QED
    BY <1>0, <2>1, <2>2 DEF ScreensOK
<1>5. ASSUME NEW s \in Screeners, ScreenAmount(s) \/ FlagVelocity(s) PROVE TablesOK' /\ ScreensOK'
  BY <1>5 DEF ScreenAmount, FlagVelocity, Goto, ScreensOK
<1>6. ASSUME NEW s \in Screeners, at[s] # "idle", End(s),
             UNCHANGED screened \/ screened' = [screened EXCEPT ![entry[s]] = now[s]]
      PROVE  TablesOK' /\ ScreensOK'
  <2>1. PICK e \in Entries : e = entry[s] /\ e \in committed /\ now[s] <= clock /\ now[s] \in Time
    BY <1>6 DEF ScreensOK
  <2>2. /\ at'[s] = "idle" /\ entry'[s] = NoEntry /\ now'[s] = 0
        /\ \A o \in Screeners \ {s} : /\ at'[o] = at[o] /\ entry'[o] = entry[o] /\ now'[o] = now[o]
                                      /\ entry[o] # e
        /\ UNCHANGED <<clock, created, committed>>
        /\ screened'[e] = screened[e] \/ screened'[e] = now[s]
        /\ \A x \in Entries \ {e} : screened'[x] = screened[x]
    BY <1>0, <1>6, <2>1 DEF End, Goto, ScreensOK
  <2>3. TablesOK'
    BY <1>0, <1>6, <2>1 DEF End, Goto
  <2> QED
    BY <1>0, <2>1, <2>2, <2>3 DEF ScreensOK
<1>7. ASSUME NEW s \in Screeners, FlagStructuring(s) \/ Fail(s) PROVE TablesOK' /\ ScreensOK'
  BY <1>6, <1>7 DEF FlagStructuring, Fail
<1>8. ASSUME UNCHANGED <<clock, created, committed, screened, screener>> PROVE TablesOK' /\ ScreensOK'
  BY <1>8 DEF ScreensOK, screener
<1> QED
  BY <1>1, <1>2, <1>3, <1>4, <1>5, <1>7, <1>8 DEF Next, Screen, UpdateAlertStatus, vars

LEMMA NextIInv == IInv /\ [Next]_vars => IInv'
<1> SUFFICES ASSUME IInv, [Next]_vars PROVE IInv'
  OBVIOUS
<1>1. TablesOK' /\ ScreensOK' /\ CountOK' /\ AlertsOK' /\ tries' \in [Entries -> {0} \cup Tries]
  BY NextTables, NextCount, NextAlerts, NextTries
<1>2. TypeOK'
  BY <1>1 DEF TablesOK, AlertsOK, TypeOK
<1> QED
  BY <1>1, <1>2 DEF IInv

\* Screenings stay apart from each other and in their types, and an alert is resolved in its
\* two last states only.
THEOREM ComplianceTypes == Spec => []TypeOK
<1>1. IInv => TypeOK
  BY DEF IInv
<1> QED
  BY <1>1, InitIInv, NextIInv, PTL DEF Spec
----------------------------------------------------------------------------
\* The rules

Rules == {"VELOCITY", "STRUCTURING"}
Rule(type, S) == IF type = "VELOCITY" THEN Velocity(S) ELSE Structuring(S)

\* What breaks a rule breaks it with more entries too.
LEMMA MoreBreaksToo ==
    ASSUME NEW type \in Rules, NEW S \in SUBSET Entries, NEW T \in SUBSET S, Rule(type, T)
    PROVE  Rule(type, S)
<1>1. IsFiniteSet(Entries) /\ \A e \in Entries : Amount[e] \in Nat
  BY ComplianceAssumption
<1>2. IsFiniteSet(S) /\ IsFiniteSet(T)
  BY <1>1, FS_Subset
<1>3. VelocityCount \in Int /\ VelocityAmount \in Int /\ StructuringMinCount \in Int
  BY ComplianceAssumption
<1>4. CASE type = "VELOCITY"
  <2>1. Cardinality(T) <= Cardinality(S) /\ Cardinality(T) \in Int /\ Cardinality(S) \in Int
    BY <1>2, FS_Subset, FS_CardinalityType
  <2>2. \A e \in S : Amount[e] \in Nat
    BY <1>1
  <2>3. SumFunctionOnSet(Amount, T) <= SumFunctionOnSet(Amount, S)
    BY <1>2, <2>2, SumOfPart
  <2>4. SumFunctionOnSet(Amount, S) \in Int
    BY <1>2, <2>2, SumInt
  <2>5. SumFunctionOnSet(Amount, T) \in Int
    BY <1>2, <2>2, SumInt
  <2>6. Velocity(T)
    BY <1>4 DEF Rule
  <2>7. Velocity(S)
    BY <1>3, <2>1, <2>3, <2>4, <2>5, <2>6 DEF Velocity, SumAmounts
  <2> QED
    BY <1>4, <2>7 DEF Rule
<1>5. CASE type # "VELOCITY"
  <2>1. NearThreshold(T) \in SUBSET NearThreshold(S) /\ NearThreshold(S) \in SUBSET S
    BY DEF NearThreshold
  <2>2. IsFiniteSet(NearThreshold(S))
    BY <1>2, <2>1, FS_Subset
  <2>3. Cardinality(NearThreshold(T)) <= Cardinality(NearThreshold(S)) /\ IsFiniteSet(NearThreshold(T))
    BY <2>1, <2>2, FS_Subset
  <2>4. Cardinality(NearThreshold(T)) \in Int /\ Cardinality(NearThreshold(S)) \in Int
    BY <2>2, <2>3, FS_CardinalityType
  <2>5. Structuring(S)
    BY <1>3, <1>5, <2>3, <2>4 DEF Rule, Structuring
  <2> QED
    BY <1>5, <2>5 DEF Rule
<1> QED
  BY <1>4, <1>5

\* Entry e is or was screened with the time t; and its screening has asked the rule's query.
Since(e, t) == screened[e] = t \/ \E s \in Screeners : entry[s] = e /\ now[s] = t
Asked(type, e, t) ==
    \/ screened[e] = t
    \/ type = "VELOCITY" /\ \E s \in Screeners : entry[s] = e /\ now[s] = t /\ at[s] = "structuring"

Asks(type, s) == IF type = "VELOCITY" THEN FlagVelocity(s) ELSE FlagStructuring(s)

\* Entries of one account and one day, screened before its last moment t or asked about at t.
\* The last of those that asked at t saw them all.
Grounds(type, t, S) ==
    /\ \A e, f \in S : AccountOf[e] = AccountOf[f]
    /\ \A e \in S : Within(e, t)
    /\ \A e \in S : Asked(type, e, t) \/ \E u \in Time : u < t /\ Since(e, u)
    /\ \E e \in S : Asked(type, e, t)

HeldAgainst(type) ==
    \A t \in Time, S \in SUBSET Entries :
        Grounds(type, t, S) /\ Rule(type, S) => Raised(type, S)

\* Who was asked about or is screened is committed, and its time is past.
LEMMA SinceFacts ==
    ASSUME IInv, NEW e \in Entries, NEW t \in Time, NEW type \in Rules
    PROVE  /\ Asked(type, e, t) => Since(e, t)
           /\ Since(e, t) => e \in committed /\ created[e] \in Time /\ t <= clock
  BY ComplianceAssumption DEF IInv, TypeOK, ScreensOK, Since, Asked, Time

\* What a step can add to what was screened and asked.
LEMMA StepFacts ==
    ASSUME IInv, [Next]_vars, NEW e \in Entries
    PROVE  /\ e \in committed => e \in committed' /\ created'[e] = created[e]
           /\ \A t \in Time : Since(e, t)' => Since(e, t) \/ t = clock
           /\ \A t \in Time, type \in Rules :
                Asked(type, e, t)' =>
                    \/ Asked(type, e, t)
                    \/ \E s \in Screeners : Asks(type, s) /\ entry[s] = e /\ now[s] = t
<1> USE DEF IInv, TypeOK, ScreensOK
<1> DEFINE Old == /\ e \in committed => e \in committed' /\ created'[e] = created[e]
           Same == /\ \A t \in Time : Since(e, t)' => Since(e, t) \/ t = clock
                   /\ \A t \in Time, type \in Rules : Asked(type, e, t)' => Asked(type, e, t)
           Goal == /\ \A t \in Time : Since(e, t)' => Since(e, t) \/ t = clock
                   /\ \A t \in Time, type \in Rules :
                        Asked(type, e, t)' =>
                            \/ Asked(type, e, t)
                            \/ \E s \in Screeners : Asks(type, s) /\ entry[s] = e /\ now[s] = t
<1>0. NoTime \notin Time /\ NoEntry \notin Entries
  BY ComplianceAssumption DEF Time
<1>1. Old
  <2>1. ASSUME NEW x \in Entries, Draw(x) PROVE Old
    <3>1. created[x] = NoTime /\ created' = [created EXCEPT ![x] = clock] /\ committed' = committed
      BY <2>1 DEF Draw
    <3> QED
      BY <3>1
  <2>2. ASSUME NEW x \in Entries, CommitEntry(x) PROVE Old
    BY <2>2 DEF CommitEntry
  <2>3. ASSUME UNCHANGED <<created, committed>> PROVE Old
    BY <2>3
  <2> QED
    BY <2>1, <2>2, <2>3 DEF Next, Tick, Screen, ScreenAmount, FlagVelocity, FlagStructuring, Fail, End,
         Begin, UpdateAlertStatus, vars
<1>2. ASSUME UNCHANGED <<screened, screener>> PROVE Goal
  BY <1>2 DEF Since, Asked, screener
<1>3. ASSUME NEW s \in Screeners, NEW x \in Entries, Begin(s, x) PROVE Goal
  <2>1. /\ UNCHANGED screened /\ entry'[s] = x /\ now'[s] = clock /\ at'[s] = "ctr"
        /\ \A o \in Screeners \ {s} : at'[o] = at[o] /\ entry'[o] = entry[o] /\ now'[o] = now[o]
    BY <1>3 DEF Begin, Goto
  <2>2. \A t \in Time : Since(e, t)' => Since(e, t) \/ t = clock
    BY <2>1 DEF Since
  <2>3. \A t \in Time, type \in Rules : Asked(type, e, t)' => Asked(type, e, t)
    BY <2>1 DEF Asked
  <2> QED
    BY <2>2, <2>3
<1>4. ASSUME NEW s \in Screeners, ScreenAmount(s) PROVE Goal
  <2>1. /\ UNCHANGED <<screened, entry, now>> /\ at'[s] = "velocity"
        /\ \A o \in Screeners \ {s} : at'[o] = at[o]
    BY <1>4 DEF ScreenAmount, Goto
  <2> QED
    BY <2>1 DEF Since, Asked
<1>5. ASSUME NEW s \in Screeners, FlagVelocity(s) PROVE Goal
  <2>1. /\ UNCHANGED <<screened, entry, now>>
        /\ \A o \in Screeners \ {s} : at'[o] = at[o]
    BY <1>5 DEF FlagVelocity, Goto
  <2>2. \A t \in Time : Since(e, t)' => Since(e, t)
    BY <2>1 DEF Since
  <2>3. ASSUME NEW t \in Time, NEW type \in Rules, Asked(type, e, t)'
        PROVE  Asked(type, e, t) \/ \E o \in Screeners : Asks(type, o) /\ entry[o] = e /\ now[o] = t
    <3>1. CASE screened'[e] = t
      BY <2>1, <3>1 DEF Asked
    <3>2. CASE type = "VELOCITY" /\ \E o \in Screeners : entry'[o] = e /\ now'[o] = t /\ at'[o] = "structuring"
      <4>1. PICK o \in Screeners : entry[o] = e /\ now[o] = t /\ at'[o] = "structuring"
        BY <2>1, <3>2
      <4>2. CASE o = s
        BY <1>5, <3>2, <4>1, <4>2 DEF Asks
      <4>3. CASE o # s
        BY <2>1, <3>2, <4>1, <4>3 DEF Asked
      <4> QED
        BY <4>2, <4>3
    <3> QED
      BY <2>3, <3>1, <3>2 DEF Asked
  <2> QED
    BY <2>2, <2>3
<1>6. ASSUME NEW s \in Screeners, FlagStructuring(s) PROVE Goal
  <2>1. PICK x \in Entries : x = entry[s] /\ at[s] = "structuring"
    BY <1>6 DEF FlagStructuring
  <2>2. /\ screened'[x] = now[s] /\ \A y \in Entries \ {x} : screened'[y] = screened[y]
        /\ entry'[s] = NoEntry
        /\ \A o \in Screeners \ {s} : at'[o] = at[o] /\ entry'[o] = entry[o] /\ now'[o] = now[o]
    BY <1>6, <2>1 DEF FlagStructuring, End, Goto
  <2>3. \A t \in Time : Since(e, t)' => Since(e, t)
    BY <1>0, <2>1, <2>2 DEF Since
  <2>4. ASSUME NEW t \in Time, NEW type \in Rules, Asked(type, e, t)'
        PROVE  Asked(type, e, t) \/ \E o \in Screeners : Asks(type, o) /\ entry[o] = e /\ now[o] = t
    <3>1. CASE screened'[e] = t
      <4>1. CASE e = x
        <5>1. now[s] = t
          BY <2>2, <3>1, <4>1
        <5>2. CASE type = "VELOCITY"
          BY <2>1, <4>1, <5>1, <5>2 DEF Asked
        <5>3. CASE type # "VELOCITY"
          BY <1>6, <2>1, <4>1, <5>1, <5>3 DEF Asks
        <5> QED
          BY <5>2, <5>3
      <4>2. CASE e # x
        BY <2>2, <3>1, <4>2 DEF Asked
      <4> QED
        BY <4>1, <4>2
    <3>2. CASE type = "VELOCITY" /\ \E o \in Screeners : entry'[o] = e /\ now'[o] = t /\ at'[o] = "structuring"
      BY <1>0, <2>2, <3>2 DEF Asked
    <3> QED
      BY <2>4, <3>1, <3>2 DEF Asked
  <2> QED
    BY <2>3, <2>4
<1>7. ASSUME NEW s \in Screeners, Fail(s) PROVE Goal
  <2>1. /\ UNCHANGED screened /\ entry'[s] = NoEntry
        /\ \A o \in Screeners \ {s} : at'[o] = at[o] /\ entry'[o] = entry[o] /\ now'[o] = now[o]
    BY <1>7 DEF Fail, End, Goto
  <2> QED
    BY <1>0, <2>1 DEF Since, Asked
<1>8. Goal
  BY <1>2, <1>3, <1>4, <1>5, <1>6, <1>7
     DEF Next, Screen, Tick, Draw, CommitEntry, UpdateAlertStatus, vars, screener
<1> QED
  BY <1>1, <1>8

\* Who asks is under way, and raises the rule's alert if what it sees breaks the rule.
LEMMA AskingFacts ==
    ASSUME IInv, NEW type \in Rules, NEW s \in Screeners, Asks(type, s)
    PROVE  /\ at[s] # "idle" /\ entry[s] \in committed /\ entry[s] \in Entries
           /\ now[s] \in Time /\ now[s] <= clock
           /\ Recent(s) \in SUBSET Entries
           /\ Recent(s) = OwnDay(AccountOf[entry[s]], now[s])
           /\ UNCHANGED <<committed, created>>
           /\ Rule(type, Recent(s)) => createAlert(s, type)
           /\ ~Rule(type, Recent(s)) => UNCHANGED alerts
<1>1. at[s] # "idle" /\ UNCHANGED <<committed, created>>
  BY DEF Asks, FlagVelocity, FlagStructuring, End
<1>2. /\ Rule(type, Recent(s)) => createAlert(s, type)
      /\ ~Rule(type, Recent(s)) => UNCHANGED alerts
  <2>1. CASE type = "VELOCITY"
    BY <2>1 DEF Asks, Rule, FlagVelocity
  <2>2. CASE type = "STRUCTURING"
    BY <2>2 DEF Asks, Rule, FlagStructuring
  <2> QED
    BY <2>1, <2>2 DEF Rules
<1>3. Recent(s) \in SUBSET Entries
  BY DEF Recent, IInv, TypeOK
<1>4. Recent(s) = OwnDay(AccountOf[entry[s]], now[s])
  BY DEF Recent, OwnDay, Own
<1> QED
  BY <1>1, <1>2, <1>3, <1>4 DEF IInv, TypeOK, ScreensOK

\* Grounds are there already, or the last entry of them is being asked about, and its query
\* sees all of them: what was screened before was committed before, what has asked at the
\* same time too.
LEMMA LastSeesAll ==
    ASSUME IInv, [Next]_vars, NEW type \in Rules, NEW t \in Time, NEW S \in SUBSET Entries,
           Grounds(type, t, S)'
    PROVE  \/ Grounds(type, t, S)
           \/ \E s \in Screeners : Asks(type, s) /\ entry[s] \in S /\ S \subseteq Recent(s)
<1> DEFINE Asking(e) == \E s \in Screeners : Asks(type, s) /\ entry[s] = e /\ now[s] = t
<1>1. ASSUME NEW e \in S, Asked(type, e, t)' PROVE Asked(type, e, t) \/ Asking(e)
  BY <1>1, StepFacts
<1>2. ASSUME NEW e \in S, Asked(type, e, t) \/ Asking(e) PROVE e \in committed /\ t <= clock
  <2>1. CASE Asked(type, e, t)
    BY <2>1, SinceFacts
  <2>2. CASE Asking(e)
    BY <2>2, AskingFacts
  <2> QED
    BY <1>2, <2>1, <2>2
<1>3. t <= clock
  BY <1>1, <1>2 DEF Grounds
<1>4. ASSUME NEW e \in S, NEW u \in Time, u < t, Since(e, u)' PROVE Since(e, u) /\ e \in committed
  <2>1. Since(e, u) \/ u = clock
    BY <1>4, StepFacts
  <2>2. u # clock
    BY <1>3, <1>4 DEF Time, IInv, TypeOK
  <2> QED
    BY <2>1, <2>2, SinceFacts DEF Rules
<1>5. \A e \in S : e \in committed
  <2> SUFFICES ASSUME NEW e \in S PROVE e \in committed
    OBVIOUS
  <2>1. CASE Asked(type, e, t)'
    BY <1>1, <1>2, <2>1
  <2>2. CASE ~Asked(type, e, t)'
    <3>1. PICK u \in Time : u < t /\ Since(e, u)'
      BY <2>2 DEF Grounds
    <3> QED
      BY <1>4, <3>1
  <2> QED
    BY <2>1, <2>2
<1>6. \A e \in S : Within(e, t)
  BY <1>5, StepFacts DEF Grounds, Within
<1>7. CASE \E e \in S : Asking(e)
  <2>1. PICK s \in Screeners : Asks(type, s) /\ entry[s] \in S /\ now[s] = t
    BY <1>7
  <2>2. S \subseteq Recent(s)
    BY <1>5, <1>6, <2>1 DEF Recent, Grounds
  <2> QED
    BY <2>1, <2>2
<1>8. CASE \A e \in S : ~Asking(e)
  <2>1. \A e \in S : Asked(type, e, t)' => Asked(type, e, t)
    BY <1>1, <1>8
  <2>2. \A e \in S : Asked(type, e, t) \/ \E u \in Time : u < t /\ Since(e, u)
    <3> SUFFICES ASSUME NEW e \in S, ~Asked(type, e, t) PROVE \E u \in Time : u < t /\ Since(e, u)
      OBVIOUS
    <3>1. PICK u \in Time : u < t /\ Since(e, u)'
      BY <2>1 DEF Grounds
    <3> QED
      BY <1>4, <3>1
  <2>3. (\E e \in S : Asked(type, e, t)) /\ \A e, f \in S : AccountOf[e] = AccountOf[f]
    BY <2>1 DEF Grounds
  <2> QED
    BY <1>6, <2>2, <2>3 DEF Grounds
<1> QED
  BY <1>7, <1>8

LEMMA NextHeld ==
    ASSUME IInv, [Next]_vars, NEW type \in Rules, HeldAgainst(type) PROVE HeldAgainst(type)'
<1> SUFFICES ASSUME NEW t \in Time, NEW S \in SUBSET Entries, Grounds(type, t, S)', Rule(type, S)
             PROVE  Raised(type, S)'
  BY DEF HeldAgainst, Rule, Velocity, Structuring, NearThreshold, SumAmounts
<1>1. CASE Grounds(type, t, S)
  <2>1. PICK e \in S, n \in Tries : alerts[<<type, e, n>>] # NoAlert
    BY <1>1 DEF HeldAgainst, Raised
  <2>2. <<type, e, n>> \in DOMAIN alerts
    BY DEF IInv, TypeOK, Rules, AlertTypes
  <2>3. alerts'[<<type, e, n>>] # NoAlert
    BY <2>1, <2>2, NextAlerts
  <2> QED
    BY <2>3 DEF Raised
<1>2. CASE \E s \in Screeners : Asks(type, s) /\ entry[s] \in S /\ S \subseteq Recent(s)
  <2>1. PICK s \in Screeners : Asks(type, s) /\ entry[s] \in S /\ S \subseteq Recent(s)
    BY <1>2
  <2>2. Rule(type, Recent(s))
    BY <2>1, AskingFacts, MoreBreaksToo
  <2>3. createAlert(s, type) /\ at[s] # "idle"
    BY <2>1, <2>2, AskingFacts
  <2>4. type \in AlertTypes
    BY DEF Rules, AlertTypes
  <2>5. alerts'[<<type, entry[s], tries[entry[s]]>>] # NoAlert /\ tries[entry[s]] \in Tries
    BY <2>3, <2>4, AlertRaised, PresentTry
  <2> QED
    BY <2>1, <2>5 DEF Raised
<1> QED
  BY <1>1, <1>2, LastSeesAll

\* The report of a large amount is made before anything else is asked.
Reported ==
    /\ \A s \in Screeners :
        at[s] \in {"velocity", "structuring"} /\ Large(entry[s]) => Raised("CTR", {entry[s]})
    /\ LargeIsReported

LEMMA NextReported == ASSUME IInv, [Next]_vars, Reported PROVE Reported'
<1>1. ASSUME NEW e \in Entries, Raised("CTR", {e}) PROVE Raised("CTR", {e})'
  <2>1. PICK n \in Tries : alerts[<<"CTR", e, n>>] # NoAlert
    BY <1>1 DEF Raised
  <2>2. <<"CTR", e, n>> \in DOMAIN alerts
    BY DEF IInv, TypeOK, AlertTypes
  <2>3. alerts'[<<"CTR", e, n>>] # NoAlert
    BY <2>1, <2>2, NextAlerts
  <2> QED
    BY <2>3 DEF Raised
<1>2. \A s \in Screeners : at[s] # "idle" => entry[s] \in Entries
  BY DEF IInv, TypeOK, ScreensOK
<1>3. ASSUME \A s \in Screeners : at'[s] \in {"velocity", "structuring"} =>
                 at[s] \in {"velocity", "structuring"} /\ entry'[s] = entry[s],
             \A e \in Entries : screened'[e] # NoTime => screened[e] # NoTime
      PROVE  Reported'
  BY <1>1, <1>2, <1>3 DEF Reported, LargeIsReported, Screened, Large
<1>4. ASSUME UNCHANGED <<screened, screener>> PROVE Reported'
  BY <1>3, <1>4 DEF screener
<1>5. ASSUME NEW s \in Screeners, NEW e \in Entries, Begin(s, e) PROVE Reported'
  BY <1>3, <1>5 DEF Begin, Goto, IInv, TypeOK
<1>6. ASSUME NEW s \in Screeners, FlagVelocity(s) PROVE Reported'
  BY <1>3, <1>6 DEF FlagVelocity, Goto, IInv, TypeOK
<1>7. ASSUME NEW s \in Screeners, Fail(s) PROVE Reported'
  BY <1>3, <1>7 DEF Fail, End, Goto, IInv, TypeOK
<1>8. ASSUME NEW s \in Screeners, ScreenAmount(s) PROVE Reported'
  <2>1. /\ at[s] = "ctr" /\ UNCHANGED <<screened, entry>> /\ entry[s] \in Entries
        /\ \A o \in Screeners \ {s} : at'[o] = at[o]
    BY <1>2, <1>8 DEF ScreenAmount, Goto, IInv, TypeOK
  <2>2. Large(entry[s]) => Raised("CTR", {entry[s]})'
    <3> SUFFICES ASSUME Large(entry[s]) PROVE Raised("CTR", {entry[s]})'
      OBVIOUS
    <3>1. createAlert(s, "CTR") /\ "CTR" \in AlertTypes
      BY <1>8 DEF ScreenAmount, AlertTypes
    <3>2. alerts'[<<"CTR", entry[s], tries[entry[s]]>>] # NoAlert /\ tries[entry[s]] \in Tries
      BY <2>1, <3>1, AlertRaised, PresentTry
    <3>3. entry'[s] = entry[s]
      BY <2>1
    <3> QED
      BY <3>2, <3>3 DEF Raised
  <2>3. \A o \in Screeners : at'[o] \in {"velocity", "structuring"} /\ Large(entry'[o]) =>
            Raised("CTR", {entry[o]})'
    BY <1>1, <1>2, <2>1, <2>2 DEF Reported
  <2>4. LargeIsReported'
    BY <1>1, <2>1 DEF Reported, LargeIsReported, Screened, Large
  <2> QED
    BY <2>1, <2>3, <2>4 DEF Reported, Large
<1>9. ASSUME NEW s \in Screeners, FlagStructuring(s) PROVE Reported'
  <2>1. PICK x \in Entries : x = entry[s] /\ at[s] = "structuring"
    BY <1>2, <1>9 DEF FlagStructuring
  <2>2. /\ at'[s] = "idle"
        /\ \A o \in Screeners \ {s} : at'[o] = at[o] /\ entry'[o] = entry[o]
        /\ \A e \in Entries \ {x} : screened'[e] = screened[e]
    BY <1>9, <2>1 DEF FlagStructuring, End, Goto, IInv, TypeOK
  <2>3. Large(x) => Raised("CTR", {x})'
    BY <1>1, <2>1 DEF Reported
  <2>4. LargeIsReported'
    BY <1>1, <2>2, <2>3 DEF Reported, LargeIsReported, Screened, Large
  <2>5. \A o \in Screeners : at'[o] \in {"velocity", "structuring"} /\ Large(entry'[o]) =>
            Raised("CTR", {entry[o]})' /\ entry'[o] = entry[o]
    BY <1>1, <1>2, <2>2 DEF Reported
  <2> QED
    BY <2>4, <2>5 DEF Reported, Large, Raised
<1> QED
  BY <1>4, <1>5, <1>6, <1>7, <1>8, <1>9
     DEF Next, Screen, Tick, Draw, CommitEntry, UpdateAlertStatus, vars, screener

\* Whatever is screened is held against every rule, however screenings run at once, fail and
\* are repeated: the one that asks last among those of one moment sees all the others.
THEOREM RulesAlwaysApplied == Spec => []RulesAreApplied
<1> DEFINE Inv == IInv /\ Reported /\ \A type \in Rules : HeldAgainst(type)
<1>1. Init => Inv
  <2> SUFFICES ASSUME Init PROVE Reported /\ \A type \in Rules : HeldAgainst(type)
    BY InitIInv
  <2>1. Reported
    BY DEF Init, Reported, LargeIsReported, Screened
  <2>2. \A type \in Rules, t \in Time, e \in Entries : ~Asked(type, e, t)
    BY ComplianceAssumption DEF Init, Asked, Time
  <2> QED
    BY <2>1, <2>2 DEF HeldAgainst, Grounds
<1>2. Inv /\ [Next]_vars => Inv'
  BY NextIInv, NextReported, NextHeld
<1>3. Inv => RulesAreApplied
  <2> SUFFICES ASSUME Inv PROVE RulesAreApplied
    OBVIOUS
  <2>1. ASSUME NEW type \in Rules, NEW a \in Accounts, NEW t \in Time,
               Begun(ScreenedDay(a, t), t), Rule(type, ScreenedDay(a, t))
        PROVE  Raised(type, ScreenedDay(a, t))
    <3> DEFINE S == ScreenedDay(a, t)
    <3>1. S \in SUBSET Entries
      BY DEF ScreenedDay, Screened
    <3>2. \A e \in S : Asked(type, e, t) \/ \E u \in Time : u < t /\ Since(e, u)
      <4> SUFFICES ASSUME NEW e \in S PROVE Asked(type, e, t) \/ \E u \in Time : u < t /\ Since(e, u)
        OBVIOUS
      <4>1. screened[e] \in Time /\ screened[e] <= t
        BY DEF ScreenedDay, Screened, IInv, TypeOK
      <4>2. screened[e] = t \/ screened[e] < t
        BY <4>1 DEF Time
      <4> QED
        BY <4>1, <4>2 DEF Asked, Since
    <3>3. \E e \in S : Asked(type, e, t)
      BY <2>1 DEF Begun, Asked
    <3>4. (\A e, f \in S : AccountOf[e] = AccountOf[f]) /\ \A e \in S : Within(e, t)
      BY DEF ScreenedDay
    <3> HIDE DEF S
    <3>5. Grounds(type, t, S)
      BY <3>2, <3>3, <3>4 DEF Grounds
    <3>6. Rule(type, S)
      BY <2>1 DEF S
    <3>7. Raised(type, S)
      BY <3>1, <3>5, <3>6 DEF HeldAgainst
    <3> QED
      BY <3>7 DEF S
  <2>2. VelocityIsFlagged
    BY <2>1 DEF VelocityIsFlagged, Rule, Rules
  <2>3. StructuringIsFlagged
    BY <2>1 DEF StructuringIsFlagged, Rule, Rules
  <2> QED
    BY <2>2, <2>3 DEF RulesAreApplied, Reported
<1> QED
  BY <1>1, <1>2, <1>3, PTL DEF Spec

\* An alert of a rule has a day of its account that breaks the rule.
Justified ==
    \A type \in Rules, e \in Entries, n \in Tries :
        alerts[<<type, e, n>>] # NoAlert =>
            e \in committed /\ \E t \in Time : Rule(type, OwnDay(AccountOf[e], t))

\* Where an alert of a rule comes from.
LEMMA AlertsOrigin ==
    ASSUME IInv, [Next]_vars, NEW type \in Rules, NEW e \in Entries, NEW n \in Tries,
           alerts'[<<type, e, n>>] # NoAlert
    PROVE  \/ alerts[<<type, e, n>>] # NoAlert
           \/ \E s \in Screeners : Asks(type, s) /\ entry[s] = e /\ Rule(type, Recent(s))
<1> DEFINE x == <<type, e, n>>
<1>1. x \in DOMAIN alerts
  BY DEF IInv, TypeOK, Rules, AlertTypes
<1>2. CASE UNCHANGED alerts
  BY <1>2
<1>3. ASSUME NEW s \in Screeners, NEW kind \in AlertTypes, createAlert(s, kind), at[s] # "idle"
      PROVE  alerts[x] # NoAlert \/ (kind = type /\ entry[s] = e)
  <2>1. alerts[x] # NoAlert \/ x = <<kind, entry[s], tries[entry[s]]>>
    BY <1>1, <1>3, AlertRaised
  <2> QED
    BY <2>1
<1>4. ASSUME NEW s \in Screeners, ScreenAmount(s) PROVE alerts[x] # NoAlert
  <2>1. CASE UNCHANGED alerts
    BY <2>1
  <2>2. CASE createAlert(s, "CTR")
    <3>1. at[s] # "idle" /\ "CTR" \in AlertTypes /\ "CTR" # type
      BY <1>4 DEF ScreenAmount, AlertTypes, Rules
    <3> QED
      BY <1>3, <2>2, <3>1
  <2> QED
    BY <1>4, <2>1, <2>2 DEF ScreenAmount
<1>5. ASSUME NEW s \in Screeners, NEW kind \in Rules, Asks(kind, s)
      PROVE  alerts[x] # NoAlert \/ (Asks(type, s) /\ entry[s] = e /\ Rule(type, Recent(s)))
  <2>1. CASE ~Rule(kind, Recent(s))
    BY <1>5, <2>1, AskingFacts
  <2>2. CASE Rule(kind, Recent(s))
    <3>1. kind \in AlertTypes /\ createAlert(s, kind) /\ at[s] # "idle"
      BY <1>5, <2>2, AskingFacts DEF Rules, AlertTypes
    <3>2. alerts[x] # NoAlert \/ (kind = type /\ entry[s] = e)
      BY <1>3, <3>1
    <3> QED
      BY <1>5, <2>2, <3>2
  <2> QED
    BY <2>1, <2>2
<1>6. ASSUME NEW s \in Screeners, FlagVelocity(s) \/ FlagStructuring(s)
      PROVE  \E kind \in Rules : Asks(kind, s)
  <2>1. "VELOCITY" \in Rules /\ "STRUCTURING" \in Rules
    BY DEF Rules
  <2> QED
    BY <1>6, <2>1 DEF Asks
<1>7. ASSUME NEW y \in DOMAIN alerts, NEW status \in Decisions, UpdateAlertStatus(y, status)
      PROVE  alerts[x] # NoAlert
  BY <1>1, <1>7, AlertDecided
<1>8. ASSUME NEW s \in Screeners, Screen(s)
      PROVE  alerts[x] # NoAlert \/ (Asks(type, s) /\ entry[s] = e /\ Rule(type, Recent(s)))
  BY <1>4, <1>5, <1>6, <1>8 DEF Screen
<1> QED
  BY <1>2, <1>7, <1>8 DEF Next, Tick, Draw, CommitEntry, Begin, Fail, vars

\* Nobody is flagged for transactions that lie more than a day apart: what a query has seen
\* stays in the ledger.
THEOREM FlagsAlwaysJustified == Spec => []FlagsAreJustified
<1> DEFINE Inv == IInv /\ Justified
<1>1. Init => Inv
  <2> SUFFICES ASSUME Init PROVE Justified
    BY InitIInv
  <2> QED
    BY DEF Init, Justified, Rules, AlertTypes
<1>2. Inv /\ [Next]_vars => Inv'
  <2> SUFFICES ASSUME IInv, Justified, [Next]_vars PROVE Justified'
    BY NextIInv
  <2>1. ASSUME NEW type \in Rules, NEW a \in Accounts, NEW t \in Time, Rule(type, OwnDay(a, t))
        PROVE  Rule(type, OwnDay(a, t))'
    <3> DEFINE S == OwnDay(a, t)
               T == OwnDay(a, t)'
    <3>1. S \subseteq T
      BY StepFacts DEF OwnDay, Own, Within, IInv, TypeOK
    <3>2. T \subseteq Entries
      BY NextIInv DEF OwnDay, Own, IInv, TypeOK
    <3> HIDE DEF S, T
    <3>3. Rule(type, T)
      BY <2>1, <3>1, <3>2, MoreBreaksToo DEF S
    <3> QED
      BY <3>3 DEF T, Rule, Velocity, Structuring, NearThreshold, SumAmounts
  <2> SUFFICES ASSUME NEW type \in Rules, NEW e \in Entries, NEW n \in Tries,
                      alerts'[<<type, e, n>>] # NoAlert
               PROVE  e \in committed' /\ \E t \in Time : Rule(type, OwnDay(AccountOf[e], t))'
    BY DEF Justified
  <2>2. e \in committed /\ \E t \in Time : Rule(type, OwnDay(AccountOf[e], t))
    <3>1. CASE alerts[<<type, e, n>>] # NoAlert
      BY <3>1 DEF Justified
    <3>2. CASE \E s \in Screeners : Asks(type, s) /\ entry[s] = e /\ Rule(type, Recent(s))
      <4>1. PICK s \in Screeners : Asks(type, s) /\ entry[s] = e /\ Rule(type, Recent(s))
        BY <3>2
      <4>2. now[s] \in Time /\ e \in committed /\ Recent(s) = OwnDay(AccountOf[e], now[s])
        BY <4>1, AskingFacts
      <4>3. Rule(type, OwnDay(AccountOf[e], now[s]))
        BY <4>1, <4>2
      <4> QED
        BY <4>2, <4>3
    <3> QED
      BY <3>1, <3>2, AlertsOrigin
  <2>3. e \in committed' /\ AccountOf[e] \in Accounts
    BY <2>2, StepFacts, ComplianceAssumption
  <2> QED
    BY <2>1, <2>2, <2>3
<1>3. Inv => FlagsAreJustified
  <2> SUFFICES ASSUME Justified, NEW a \in Accounts, NEW type \in Rules, Raised(type, Own(a)), IInv
               PROVE  \E t \in Time : Rule(type, OwnDay(a, t))
    BY DEF FlagsAreJustified, Rule, Rules
  <2>1. PICK e \in Own(a), n \in Tries : alerts[<<type, e, n>>] # NoAlert
    BY DEF Raised
  <2>2. e \in Entries /\ AccountOf[e] = a
    BY DEF Own, IInv, TypeOK
  <2> QED
    BY <2>1, <2>2 DEF Justified
<1> QED
  BY <1>1, <1>2, <1>3, PTL DEF Spec
=============================================================================
