---------------------------- MODULE RequestBudget ---------------------------
(***************************************************************************)
(* The allowance of broker requests that every process shares: the         *)
(* function questrade_acquire_request_budget (151-questrade-budget-        *)
(* acquire.sql) and PostgresRequestBudget.block, and the second copy of    *)
(* the decision, decideBudget (questrade/request-budget.ts).               *)
(*                                                                         *)
(* A call of the function is one transaction.  It creates or locks the     *)
(* row of the namespace, reads the clock, counts the grants of the rolling *)
(* windows and inserts its own; other calls run between its statements.    *)
(* Instants are natural numbers, a NULL instant is {} and instant t is {t}.*)
(***************************************************************************)
EXTENDS Integers, FiniteSets

CONSTANTS
  Processes,
  Second, Hour,      \* widths of the rolling windows
  Spacing, DiscoverySpacing,
  SecondLimit, HourLimit, DiscoveryLimit,
  MonitoringReserve, \* grants of an hour that discovery leaves untouched
  Start,             \* the instant the model begins at
  Earlier,           \* the usages that may precede it, each a set of calls
  Resets,            \* reset times, from the present, the broker may ask for
  MaxClock           \* bound on the instants

\* A call of the broker.  The spacing keeps any two apart, so that a set of
\* them loses none.
Calls == [at : Nat, discovery : BOOLEAN]

Discoveries(calls) == {g \in calls : g.discovery}
Since(calls, t) == {g \in calls : g.at > t}
Window(calls, t, width) == {g \in Since(calls, t - width) : g.at =< t}

\* What the broker allows: no window of a second or an hour holds more than
\* its limit (the fullest windows end at a call), and no two calls are closer
\* than the spacing.
WithinLimits(calls) ==
  /\ \A g \in calls : Cardinality(Window(calls, g.at, Second)) =< SecondLimit
  /\ \A g \in calls : Cardinality(Window(calls, g.at, Hour)) =< HourLimit
  /\ \A g, h \in calls : g # h => h.at >= g.at + Spacing \/ g.at >= h.at + Spacing

\* What discovery is held to: its own limit and spacing, and every discovery
\* call ends an hour that left MonitoringReserve of the limit unused.
DiscoveryWithinLimits(calls) ==
  LET low == Discoveries(calls) IN
  \A g \in low :
    /\ Cardinality(Window(low, g.at, Hour)) =< DiscoveryLimit
    /\ Cardinality(Window(calls, g.at, Hour)) =< HourLimit - MonitoringReserve
    /\ \A h \in low :
         g # h => h.at >= g.at + DiscoverySpacing \/ g.at >= h.at + DiscoverySpacing

ASSUME WidthsAssumption ==
  /\ {Second, Hour, Spacing, DiscoverySpacing} \subseteq Nat \ {0}
  /\ Second =< Hour /\ Spacing =< Hour /\ DiscoverySpacing =< Hour
ASSUME LimitsAssumption ==
  /\ {SecondLimit, HourLimit, DiscoveryLimit} \subseteq Nat \ {0}
  /\ MonitoringReserve \in 0 .. HourLimit - 1
ASSUME EarlierAssumption ==
  /\ Start \in Nat /\ MaxClock \in Nat /\ Resets \subseteq Nat
  /\ \A usage \in Earlier :
       /\ usage \subseteq Calls /\ IsFiniteSet(usage)
       /\ \A g \in usage : g.at =< Start
       /\ WithinLimits(usage) /\ DiscoveryWithinLimits(usage)

VARIABLES
  clock,    \* the database's clock
  known,    \* the namespace has a row in questrade_request_budget
  budget,   \* that row
  grants,   \* the rows of questrade_request_grant
  holder,   \* the processes whose transaction holds the row's lock
  pc, asks, \* where each process's call stands, and whether for discovery
  row,      \* the row as its transaction locked it
  vNow,     \* v_now
  granted   \* history: every call granted, and the unrecorded earlier ones

vars == <<clock, known, budget, grants, holder, pc, asks, row, vNow, granted>>

Rows == [blockedUntil : Nat, lastStarted : SUBSET Nat, lastDiscovery : SUBSET Nat]
NewRow(until) == [blockedUntil |-> until, lastStarted |-> {}, lastDiscovery |-> {}]

TypeOK ==
  /\ clock \in Nat /\ known \in BOOLEAN /\ budget \in Rows
  /\ granted \subseteq Calls /\ IsFiniteSet(granted) /\ grants \subseteq granted
  /\ holder = {p \in Processes : pc[p] # "idle"}
  /\ \A p, q \in holder : p = q
  /\ pc \in [Processes -> {"idle", "locked", "timed"}]
  /\ asks \in [Processes -> BOOLEAN]
  /\ row \in [Processes -> Rows]
  /\ vNow \in [Processes -> Nat]

Init ==
  /\ clock = Start
  /\ known = FALSE /\ budget = NewRow(0)
  /\ grants = {} /\ granted \in Earlier
  /\ holder = {}
  /\ pc = [p \in Processes |-> "idle"]
  /\ asks = [p \in Processes |-> FALSE]
  /\ row = [p \in Processes |-> NewRow(0)]
  /\ vNow = [p \in Processes |-> 0]

----------------------------------------------------------------------------
(* The decision *)

\* min(started_at)
Oldest(calls) == CHOOSE t \in {g.at : g \in calls} : \A g \in calls : t =< g.at

Latest(times) == CHOOSE t \in times : \A u \in times : u =< t

\* Mutant: the newest call of a full window instead of the oldest.
ReopensWithNewest(calls, limit, width) ==
  IF Cardinality(calls) >= limit THEN {Latest({g.at : g \in calls}) + width} ELSE {}

\* A full window opens again when its oldest call leaves it.
Reopens(calls, limit, width) ==
  IF Cardinality(calls) >= limit THEN {Oldest(calls) + width} ELSE {}

After(last, spacing) == {t + spacing : t \in last}

\* The instants of which v_next is the greatest.
Bounds(now, discovery, b, rows) ==
  LET hour == Since(rows, now - Hour) IN
  {now, b.blockedUntil}
  \cup After(b.lastStarted, Spacing)
  \cup Reopens(Since(rows, now - Second), SecondLimit, Second)
  \cup Reopens(hour, HourLimit, Hour)
  \cup (IF discovery
        THEN After(b.lastDiscovery, DiscoverySpacing)
             \cup Reopens(Discoveries(hour), DiscoveryLimit, Hour)
             \cup Reopens(hour, HourLimit - MonitoringReserve, Hour)
        ELSE {})

\* v_next <= v_now
IsGranted(now, discovery, b, rows) ==
  \A t \in Bounds(now, discovery, b, rows) : t =< now

Positive(n) == IF n > 0 THEN n ELSE 0
Lesser(m, n) == IF m < n THEN m ELSE n
Count(condition) == IF condition THEN 1 ELSE 0

\* The columns the function returns.
Answer(now, discovery, b, rows) ==
  LET hour == Since(rows, now - Hour)
      given == IsGranted(now, discovery, b, rows) IN
  [granted |-> given,
   retryAfter |-> Latest(Bounds(now, discovery, b, rows)) - now,
   remainingHour |-> Positive(HourLimit - Cardinality(hour) - Count(given)),
   remainingDiscovery |->
     Positive(Lesser(
       DiscoveryLimit - Cardinality(Discoveries(hour)) - Count(given /\ discovery),
       HourLimit - MonitoringReserve - Cardinality(hour) - Count(given)))]

----------------------------------------------------------------------------
(* questrade_acquire_request_budget *)

\* Mutant: SELECT without FOR UPDATE.
LockNothing(p) ==
  /\ holder' = holder \cup {p}
  /\ row' = [row EXCEPT ![p] = IF known THEN budget ELSE NewRow(clock + Hour)]

\* Mutant: an unknown namespace is not blocked.
LockUnblocked(p) ==
  /\ holder = {}
  /\ holder' = {p}
  /\ row' = [row EXCEPT ![p] = IF known THEN budget ELSE NewRow(0)]

\* INSERT .. ON CONFLICT DO NOTHING; SELECT .. FOR UPDATE.  An unknown
\* namespace is blocked for an hour, by the default of the column.
Lock(p) ==
  /\ holder = {}
  /\ holder' = {p}
  /\ row' = [row EXCEPT ![p] = IF known THEN budget ELSE NewRow(clock + Hour)]

Acquire(p, discovery) ==
  /\ pc[p] = "idle"
  /\ Lock(p)
  /\ pc' = [pc EXCEPT ![p] = "locked"]
  /\ asks' = [asks EXCEPT ![p] = discovery]
  /\ UNCHANGED <<clock, known, budget, grants, vNow, granted>>

\* v_now := clock_timestamp()
ReadClock(p) ==
  /\ pc[p] = "locked"
  /\ vNow' = [vNow EXCEPT ![p] = clock]
  /\ pc' = [pc EXCEPT ![p] = "timed"]
  /\ UNCHANGED <<clock, known, budget, grants, holder, asks, row, granted>>

\* Mutant: last_discovery_at is not renewed.
StartedForgetsDiscovery(b, now, discovery) == [b EXCEPT !.lastStarted = {now}]

\* The row after a grant at instant now.
Started(b, now, discovery) ==
  [b EXCEPT !.lastStarted = {now},
            !.lastDiscovery = IF discovery THEN {now} ELSE @]

\* The transaction is over: the lock is released, the variables are gone.
Ends(p) ==
  /\ holder' = holder \ {p}
  /\ pc' = [pc EXCEPT ![p] = "idle"]
  /\ asks' = [asks EXCEPT ![p] = FALSE]
  /\ row' = [row EXCEPT ![p] = NewRow(0)]
  /\ vNow' = [vNow EXCEPT ![p] = 0]

\* Count, decide, insert, commit.
Decide(p) ==
  LET now == vNow[p]
      live == Since(grants, now - Hour)
      call == [at |-> now, discovery |-> asks[p]] IN
  /\ pc[p] = "timed"
  /\ IF IsGranted(now, asks[p], row[p], live)
       THEN /\ grants' = live \cup {call}
            /\ granted' = granted \cup {call}
            /\ budget' = Started(row[p], now, asks[p])
       ELSE /\ grants' = live
            /\ budget' = row[p]
            /\ UNCHANGED granted
  /\ known' = TRUE
  /\ Ends(p)
  /\ UNCHANGED clock

\* The connection or the process is lost before the commit.
Rollback(p) ==
  /\ pc[p] # "idle"
  /\ Ends(p)
  /\ UNCHANGED <<clock, known, budget, grants, granted>>

(* PostgresRequestBudget.block: one statement, which waits for the row. *)

Greater(m, n) == IF m > n THEN m ELSE n

\* Mutant: GREATEST left out, the last reset time wins.
BlockedUntilLast(until) ==
  IF known THEN [budget EXCEPT !.blockedUntil = until]
           ELSE NewRow(Greater(until, clock + Hour))

Blocked(until) ==
  IF known THEN [budget EXCEPT !.blockedUntil = Greater(@, until)]
           ELSE NewRow(Greater(until, clock + Hour))

Block(until) ==
  /\ holder = {}
  /\ budget' = Blocked(until)
  /\ known' = TRUE
  /\ UNCHANGED <<clock, grants, holder, pc, asks, row, vNow, granted>>

Tick ==
  /\ clock < MaxClock
  /\ clock' = clock + 1
  /\ UNCHANGED <<known, budget, grants, holder, pc, asks, row, vNow, granted>>

Next ==
  \/ \E p \in Processes, discovery \in BOOLEAN : Acquire(p, discovery)
  \/ \E p \in Processes : ReadClock(p) \/ Decide(p) \/ Rollback(p)
  \/ \E wait \in Resets : Block(clock + wait)
  \/ Tick

Spec == Init /\ [][Next]_vars

----------------------------------------------------------------------------
(* decideBudget and MemoryRequestBudget.acquire, the copy in the program   *)

Times(calls) == {g.at : g \in calls}
OldestOrZero(calls) == IF calls = {} THEN 0 ELSE Oldest(calls)
Last(calls) == IF calls = {} THEN {} ELSE {Latest(Times(calls))}

UsageOf(now, calls, blockedUntil) ==
  LET hour == Since(calls, now - Hour)
      second == Since(hour, now - Second)
      low == Discoveries(hour) IN
  [second |-> Cardinality(second), hour |-> Cardinality(hour),
   discoveryHour |-> Cardinality(low),
   oldestSecond |-> OldestOrZero(second), oldestHour |-> OldestOrZero(hour),
   oldestDiscovery |-> OldestOrZero(low),
   last |-> Last(hour), lastDiscovery |-> Last(low),
   blockedUntil |-> blockedUntil]

\* Mutant: > instead of >= in the copy.
AboveLimit(count, limit, opens) == IF count > limit THEN {opens} ELSE {}

AtLimit(count, limit, opens) == IF count >= limit THEN {opens} ELSE {}

NextDiscovery(usage) ==
  After(usage.lastDiscovery, DiscoverySpacing)
  \cup AtLimit(usage.discoveryHour, DiscoveryLimit, usage.oldestDiscovery + Hour)
  \cup AtLimit(usage.hour, HourLimit - MonitoringReserve, usage.oldestHour + Hour)

decideBudget(now, discovery, usage) ==
  LET next == Latest(
        {now, usage.blockedUntil} \cup After(usage.last, Spacing)
        \cup AtLimit(usage.second, SecondLimit, usage.oldestSecond + Second)
        \cup AtLimit(usage.hour, HourLimit, usage.oldestHour + Hour)
        \cup (IF discovery THEN NextDiscovery(usage) ELSE {}))
      one == Count(next =< now) IN
  [granted |-> next =< now,
   retryAfter |-> Positive(next - now),
   remainingHour |-> Positive(HourLimit - usage.hour - one),
   remainingDiscovery |->
     Positive(Lesser(
       DiscoveryLimit - usage.discoveryHour - Count(next =< now /\ discovery),
       HourLimit - MonitoringReserve - usage.hour - one))]

----------------------------------------------------------------------------
(* Properties *)

\* Whatever processes ask, and whatever was called before the namespace was
\* known, no rolling window holds more than its limit and no two calls are
\* closer than the spacing (docs: 20 per rolling second, 15,000 per rolling
\* hour, 50 ms, an unknown namespace waits an hour for unrecorded usage).
BrokerLimitsHold == WithinLimits(granted)

\* Discovery keeps its own limit and spacing and ends no hour that used more
\* than the limit less the monitoring reserve (discovery branch, lines 59-68).
DiscoveryLeavesReserve == DiscoveryWithinLimits(granted)

\* An embargo recorded by block survives the transactions that run beside it:
\* blocked_until never goes back and no grant starts while it lies ahead.
EmbargoHolds ==
  [][known => /\ budget'.blockedUntil >= budget.blockedUntil
              /\ \A g \in granted' \ granted : g.at >= budget.blockedUntil]_vars

EarliestStart(discovery) ==
  Latest(Bounds(clock, discovery, budget, Since(grants, clock - Hour)))

\* retry_after_ms never lets a caller wait too long: no call can start before
\* the instant a refusal names, for that instant only moves forward.
RetryIsNeverTooLate ==
  [][known => \A discovery \in BOOLEAN :
                EarliestStart(discovery)' >= EarliestStart(discovery)]_vars

\* The copy of the decision in the program, fed with the same grants and the
\* same clock, gives the answer of the database's copy.
CopiesAgree ==
  known => \A discovery \in BOOLEAN :
    decideBudget(clock, discovery, UsageOf(clock, grants, budget.blockedUntil))
      = Answer(clock, discovery, budget, Since(grants, clock - Hour))
=============================================================================
