----------------------------- MODULE Compliance -----------------------------
(***************************************************************************)
(* Screening of transactions against the money-laundering rules and the    *)
(* alerts it raises: internal/domain/compliance.                           *)
(*                                                                         *)
(* ScreenTransaction takes the time once, then runs one statement after    *)
(* the other on the pool, each committed by itself: an alert for a large   *)
(* amount, a query over the account's entries of the last 24 hours and an  *)
(* alert, a second query and an alert.  An error ends it and leaves the    *)
(* alerts raised so far.  Investigators change the state of alerts         *)
(* meanwhile.                                                              *)
(*                                                                         *)
(* Nothing in the repository calls ScreenTransaction.  The caller is taken *)
(* to screen each committed transaction, again if it gets an error, and    *)
(* the clocks of the replicas to agree.                                    *)
(***************************************************************************)
EXTENDS Integers, FiniteSets, Functions

CONSTANTS
    Screeners,          \* goroutines that screen
    Accounts,
    Entries,            \* rows of transaction_entries
    AccountOf, Amount,  \* their columns account_id and amount
    CTRThreshold, StructuringMargin, VelocityCount, VelocityAmount, StructuringMinCount,
    Window,             \* velocityWindowHours, in ticks of the clock
    NoTime, NoAlert, NoEntry, \* there is no such time, row or entry
    Decisions,          \* the states investigators give alerts
    MaxTime, MaxFailures, MaxDecided \* bounds for TLC: the clock, the screenings that
                        \* fail, the alerts that are not open

Time == 0 .. MaxTime
Tries == 1 .. MaxFailures + 1
AlertTypes == {"CTR", "VELOCITY", "STRUCTURING"}
AlertStatuses == {"OPEN", "INVESTIGATING", "ESCALATED", "CLOSED", "FILED"}
AlertType == [status : AlertStatuses, resolved : BOOLEAN]

ASSUME ComplianceAssumption ==
    /\ IsFiniteSet(Entries) /\ IsFiniteSet(Screeners)
    /\ AccountOf \in [Entries -> Accounts] /\ Amount \in [Entries -> Nat]
    /\ {CTRThreshold, StructuringMargin, VelocityCount, VelocityAmount, StructuringMinCount,
        Window, MaxTime, MaxFailures, MaxDecided} \subseteq Nat
    /\ NoTime \notin Nat /\ NoAlert \notin AlertType /\ NoEntry \notin Entries
    /\ Decisions \subseteq AlertStatuses

VARIABLES
    clock,
    created,    \* created_at, drawn before the entry is written
    committed,  \* the entries whose transaction is committed
    alerts,     \* rows of aml_alerts, by type, entry and the screening that raised them
    tries,      \* how often an entry's screening was begun
    screened,   \* when the screening that returned nil was begun, by entry
    at,         \* where each screener is
    entry,      \* the entry it screens
    now         \* the time it took

screener == <<at, entry, now>>
vars == <<clock, created, committed, alerts, tries, screened, screener>>

Init ==
    /\ clock = 0
    /\ created = [e \in Entries |-> NoTime]
    /\ committed = {}
    /\ alerts = [x \in AlertTypes \X Entries \X Tries |-> NoAlert]
    /\ tries = [e \in Entries |-> 0]
    /\ screened = [e \in Entries |-> NoTime]
    /\ at = [s \in Screeners |-> "idle"]
    /\ entry = [s \in Screeners |-> NoEntry]
    /\ now = [s \in Screeners |-> 0]

Tick == clock < MaxTime /\ clock' = clock + 1
        /\ UNCHANGED <<created, committed, alerts, tries, screened, screener>>

\* The engine draws created_at, and commits later, or not at all.
Draw(e) ==
    /\ created[e] = NoTime
    /\ created' = [created EXCEPT ![e] = clock]
    /\ UNCHANGED <<clock, committed, alerts, tries, screened, screener>>

CommitEntry(e) ==
    /\ created[e] # NoTime /\ e \notin committed
    /\ committed' = committed \cup {e}
    /\ UNCHANGED <<clock, created, alerts, tries, screened, screener>>

----------------------------------------------------------------------------
\* ScreenTransaction

Goto(s, l) == at' = [at EXCEPT ![s] = l]

Begin(s, e) ==
    /\ at[s] = "idle"
    /\ e \in committed /\ screened[e] = NoTime
    /\ \A o \in Screeners : entry[o] # e
    /\ tries' = [tries EXCEPT ![e] = @ + 1]
    /\ entry' = [entry EXCEPT ![s] = e]
    /\ now' = [now EXCEPT ![s] = clock]
    /\ Goto(s, "ctr")
    /\ UNCHANGED <<clock, created, committed, alerts, screened>>

\* The screening returns; nothing of it stays with the goroutine.
End(s) ==
    /\ Goto(s, "idle")
    /\ entry' = [entry EXCEPT ![s] = NoEntry]
    /\ now' = [now EXCEPT ![s] = 0]
    /\ UNCHANGED <<clock, created, committed, tries>>

createAlert(s, type) ==
    alerts' = [alerts EXCEPT ![<<type, entry[s], tries[entry[s]]>>] =
                  [status |-> "OPEN", resolved |-> FALSE]]

Large(e) == Amount[e] >= CTRThreshold

\* The report of a large amount.
ScreenAmount(s) ==
    /\ at[s] = "ctr"
    /\ IF Large(entry[s]) THEN createAlert(s, "CTR") ELSE UNCHANGED alerts
    /\ Goto(s, "velocity")
    /\ UNCHANGED <<clock, created, committed, tries, screened, entry, now>>

Within(e, t) == created[e] >= t - Window /\ created[e] <= t

\* Slips: the window is open at its end; it has no beginning.
RecentBefore(s) == {e \in committed :
    AccountOf[e] = AccountOf[entry[s]] /\ Within(e, now[s]) /\ created[e] < now[s]}
RecentEver(s) == {e \in committed : AccountOf[e] = AccountOf[entry[s]] /\ created[e] <= now[s]}

\* The entries a query of the screening counts.
Recent(s) == {e \in committed : AccountOf[e] = AccountOf[entry[s]] /\ Within(e, now[s])}

SumAmounts(S) == SumFunctionOnSet(Amount, S)

Velocity(S) == Cardinality(S) > VelocityCount \/ SumAmounts(S) > VelocityAmount

NearThreshold(S) == {e \in S : Amount[e] >= StructuringMargin /\ Amount[e] < CTRThreshold}

Structuring(S) == Cardinality(NearThreshold(S)) >= StructuringMinCount

\* A rule's query and the alert it leads to are two statements and one step: an alert is
\* nothing another screening looks at, and an error between them is one before the query.
FlagVelocity(s) ==
    /\ at[s] = "velocity"
    /\ IF Velocity(Recent(s)) THEN createAlert(s, "VELOCITY") ELSE UNCHANGED alerts
    /\ Goto(s, "structuring")
    /\ UNCHANGED <<clock, created, committed, tries, screened, entry, now>>

\* A slip: an account that is flagged by one rule is not looked at by the other.
FlagOneRule(s) ==
    /\ at[s] = "structuring"
    /\ IF Structuring(Recent(s)) /\ ~Velocity(Recent(s))
          THEN createAlert(s, "STRUCTURING") ELSE UNCHANGED alerts
    /\ screened' = [screened EXCEPT ![entry[s]] = now[s]]
    /\ End(s)

\* Over the same window, though the clock has gone on.
FlagStructuring(s) ==
    /\ at[s] = "structuring"
    /\ IF Structuring(Recent(s)) THEN createAlert(s, "STRUCTURING") ELSE UNCHANGED alerts
    /\ screened' = [screened EXCEPT ![entry[s]] = now[s]]
    /\ End(s)

Failures ==
    SumFunctionOnSet(tries, Entries)
        - Cardinality({e \in Entries : screened[e] # NoTime})
        - Cardinality({s \in Screeners : at[s] # "idle"})

\* A slip: an error is logged and not returned.
FailUnnoticed(s) ==
    /\ Failures < MaxFailures
    /\ at[s] # "idle"
    /\ screened' = [screened EXCEPT ![entry[s]] = now[s]]
    /\ End(s)
    /\ UNCHANGED alerts

\* A statement fails, or the goroutine dies: the caller does not get nil.
Fail(s) ==
    /\ Failures < MaxFailures
    /\ at[s] # "idle"
    /\ End(s)
    /\ UNCHANGED <<alerts, screened>>

----------------------------------------------------------------------------
Decided == {x \in DOMAIN alerts : alerts[x] # NoAlert /\ alerts[x].status # "OPEN"}

\* A slip: reopening an alert keeps the time it was resolved.
ReopenKeepsResolved(x, status) ==
    /\ alerts[x] # NoAlert
    /\ alerts' = [alerts EXCEPT ![x] =
          [status |-> status, resolved |-> @.resolved \/ status \in {"CLOSED", "FILED"}]]
    /\ Cardinality(Decided') <= MaxDecided
    /\ UNCHANGED <<clock, created, committed, tries, screened, screener>>

\* UpdateAlertStatus: from any state to any other, whatever the investigator has seen.
UpdateAlertStatus(x, status) ==
    /\ alerts[x] # NoAlert
    /\ alerts' = [alerts EXCEPT ![x] =
          [status |-> status, resolved |-> status \in {"CLOSED", "FILED"}]]
    /\ Cardinality(Decided') <= MaxDecided
    /\ UNCHANGED <<clock, created, committed, tries, screened, screener>>

Screen(s) == ScreenAmount(s) \/ FlagVelocity(s) \/ FlagStructuring(s)

Next ==
    \/ Tick
    \/ \E e \in Entries : Draw(e) \/ CommitEntry(e)
    \/ \E s \in Screeners : Screen(s) \/ Fail(s) \/ \E e \in Entries : Begin(s, e)
    \/ \E x \in DOMAIN alerts, status \in Decisions : UpdateAlertStatus(x, status)

Spec == Init /\ [][Next]_vars
----------------------------------------------------------------------------
\* Properties

\* Every variable stays in its type, and an alert is resolved in its two last states only.
TypeOK ==
    /\ clock \in Time
    /\ created \in [Entries -> Time \cup {NoTime}]
    /\ committed \in SUBSET {e \in Entries : created[e] # NoTime}
    /\ alerts \in [AlertTypes \X Entries \X Tries -> AlertType \cup {NoAlert}]
    /\ \A x \in DOMAIN alerts :
        alerts[x] # NoAlert => (alerts[x].resolved <=> alerts[x].status \in {"CLOSED", "FILED"})
    /\ tries \in [Entries -> {0} \cup Tries]
    /\ screened \in [Entries -> Time \cup {NoTime}]
    /\ at \in [Screeners -> {"idle", "ctr", "velocity", "structuring"}]
    /\ entry \in [Screeners -> Entries \cup {NoEntry}]
    /\ now \in [Screeners -> Time]

Screened == {e \in Entries : screened[e] # NoTime}

\* There is an alert of the type, raised by a screening of one of the entries.
Raised(type, S) == \E e \in S, n \in Tries : alerts[<<type, e, n>>] # NoAlert

\* What of an account was created and screened in the day that ends at t, and whether that is
\* when one of the screenings was begun.
ScreenedDay(a, t) ==
    {e \in Screened : AccountOf[e] = a /\ screened[e] <= t /\ Within(e, t)}

Begun(S, t) == \E e \in S : screened[e] = t

\* A large transaction that was screened has its report, though the screening that raised it
\* may have failed and another may have ended well.
LargeIsReported == \A e \in Screened : Large(e) => Raised("CTR", {e})

\* Transactions of one day that are too many or too much together are flagged when each of
\* them has been screened: screenings that run at once do not each leave it to the other,
\* and a rule is not skipped for what another found.
VelocityIsFlagged ==
    \A a \in Accounts, t \in Time :
        LET S == ScreenedDay(a, t) IN Begun(S, t) /\ Velocity(S) => Raised("VELOCITY", S)

\* So are several just under the reporting threshold (service.go:71 "multiple transactions
\* just under the CTR threshold").
StructuringIsFlagged ==
    \A a \in Accounts, t \in Time :
        LET S == ScreenedDay(a, t) IN Begun(S, t) /\ Structuring(S) => Raised("STRUCTURING", S)

\* Whatever is screened is held against every rule, however screenings run at once, fail and
\* are repeated.
RulesAreApplied == LargeIsReported /\ VelocityIsFlagged /\ StructuringIsFlagged

\* What of an account is committed, and of that what was created in the day that ends at t.
Own(a) == {e \in committed : AccountOf[e] = a}
OwnDay(a, t) == {e \in Own(a) : Within(e, t)}

\* Nobody is flagged for transactions that lie more than a day apart.
FlagsAreJustified ==
    \A a \in Accounts :
        /\ Raised("VELOCITY", Own(a)) => \E t \in Time : Velocity(OwnDay(a, t))
        /\ Raised("STRUCTURING", Own(a)) => \E t \in Time : Structuring(OwnDay(a, t))
=============================================================================
