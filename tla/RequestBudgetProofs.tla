------------------------- MODULE RequestBudgetProofs ------------------------
(***************************************************************************)
(* Proofs about RequestBudget, for any limits, widths and processes: the   *)
(* limits of the rolling windows, the reserve and the embargo hold.        *)
(*                                                                         *)
(* A grant is decided on the grants the table still holds.  The inductive  *)
(* invariant says why that is enough: whatever was called and is no longer *)
(* (or never was) in the table lies an hour before the instant decided for *)
(* or before the end of the embargo, and nothing was called later than the *)
(* last start the locked row records.                                      *)
(***************************************************************************)
EXTENDS RequestBudget, FiniteSetTheorems, TLAPS

\* Call g is out of reach of grants under row b: its hour ends with an embargo.
Embargoed(g, b) == g.at + Hour =< b.blockedUntil

\* Nothing in reach started after the last start that row b records.
Covers(b, calls) ==
  /\ \A g \in calls : Embargoed(g, b) \/ \E t \in b.lastStarted : g.at =< t
  /\ \A g \in Discoveries(calls) :
       Embargoed(g, b) \/ \E t \in b.lastDiscovery : g.at =< t

\* A call that the table does not hold has left every window by instant now.
Recorded(now, b, rows, calls) ==
  \A g \in calls : g \in rows \/ g.at + Hour =< now \/ Embargoed(g, b)

Sound(now, b) == Covers(b, granted) /\ Recorded(now, b, grants, granted)

KnownIsSound ==
  /\ Start =< clock
  /\ known => Sound(clock, budget)
  /\ ~known => \A g \in granted : g.at =< Start

LockedIsSound ==
  \A p \in Processes : pc[p] # "idle" =>
    /\ known => row[p] = budget
    /\ Sound(clock, row[p])
    /\ pc[p] = "timed" => vNow[p] =< clock /\ Sound(vNow[p], row[p])

BudgetInv == TypeOK /\ KnownIsSound /\ LockedIsSound

----------------------------------------------------------------------------
(* Windows *)

\* A finite set of calls has an oldest one: take the call with the fewest
\* older calls, in the well-founded ordering of finite sets by inclusion.
LEMMA OldestExists ==
  ASSUME NEW S \in SUBSET Calls, IsFiniteSet(S), S # {}
  PROVE  \E g \in S : Oldest(S) = g.at /\ \A h \in S : g.at =< h.at
<1> DEFINE Older(g) == {h \in S : h.at < g.at}
           R == StrictSubsetOrdering(S)
           T == {Older(g) : g \in S}
<1>1. IsWellFoundedOn(R, SUBSET S)
  BY FS_StrictSubsetOrderingWellFounded, FS_FiniteSubsetsOfFinite
<1>2. T \subseteq SUBSET S /\ T # {}
  OBVIOUS
<1>3. \E A \in T : \A B \in T : <<B, A>> \notin R
  <2> HIDE DEF R, T
  <2> QED  BY <1>1, <1>2, WFMin
<1>4. PICK g \in S : \A h \in S : <<Older(h), Older(g)>> \notin R
  BY <1>3
<1>5. \A h \in S : g.at =< h.at
  <2>1. SUFFICES ASSUME NEW h \in S, ~ (g.at =< h.at) PROVE FALSE
    OBVIOUS
  <2>2. g.at \in Nat /\ h.at \in Nat /\ h.at < g.at
    BY <2>1 DEF Calls
  <2>3. Older(h) \subseteq Older(g)
    BY <2>2 DEF Calls
  <2>4. h \in Older(g) /\ h \notin Older(h)
    BY <2>2
  <2>5. <<Older(h), Older(g)>> \in R
    BY <2>3, <2>4 DEF StrictSubsetOrdering
  <2> QED
    BY <1>4, <2>5
<1>6. \E t \in {h.at : h \in S} : \A h \in S : t =< h.at
  BY <1>5
<1>7. Oldest(S) \in {h.at : h \in S} /\ \A h \in S : Oldest(S) =< h.at
  BY <1>6, Zenon DEF Oldest
<1> HIDE DEF Older, R, T
<1> QED
  BY <1>7, Zenon

\* A window whose reopening is not awaited is not full.
LEMMA OpenWindow ==
  ASSUME NEW calls \in SUBSET Calls, NEW now \in Nat, NEW width \in Nat,
         NEW limit \in Nat \ {0},
         \A t \in Reopens(Since(calls, now - width), limit, width) : t =< now,
         IsFiniteSet(calls)
  PROVE  Cardinality(Since(calls, now - width)) < limit
<1> DEFINE S == Since(calls, now - width)
<1>1. S \in SUBSET calls /\ S \in SUBSET Calls
  BY DEF Since
<1>2. IsFiniteSet(S) /\ Cardinality(S) \in Nat
  BY <1>1, FS_Subset, FS_CardinalityType
<1>3. SUFFICES ASSUME Cardinality(S) >= limit PROVE FALSE
  BY <1>2
<1>4. S # {}
  BY <1>3, FS_EmptySet
<1>5. PICK g \in S : Oldest(S) = g.at
  <2> HIDE DEF S
  <2> QED  BY <1>1, <1>2, <1>4, OldestExists
<1>6. g.at > now - width /\ g.at \in Nat
  BY <1>1 DEF Since, Calls
<1>7. Oldest(S) + width =< now
  BY <1>3 DEF Reopens
<1> QED
  BY <1>5, <1>6, <1>7

\* One more call fills a window by one at most.
LEMMA OneMore ==
  ASSUME NEW S, IsFiniteSet(S), NEW x, NEW T \in SUBSET (S \cup {x}),
         NEW limit \in Nat, Cardinality(S) < limit
  PROVE  Cardinality(T) =< limit
<1>1. /\ IsFiniteSet(S \cup {x})
      /\ Cardinality(S \cup {x}) = Cardinality(S) \/ Cardinality(S \cup {x}) = Cardinality(S) + 1
  BY FS_AddElement
<1>2. Cardinality(S) \in Nat /\ Cardinality(T) \in Nat /\ Cardinality(T) =< Cardinality(S \cup {x})
  BY <1>1, FS_Subset, FS_CardinalityType
<1> QED
  BY <1>1, <1>2

----------------------------------------------------------------------------
(* What a grant was decided on *)

LEMMA Constants ==
  /\ Second \in Nat \ {0} /\ Hour \in Nat \ {0} /\ Second =< Hour
  /\ Spacing \in Nat \ {0} /\ Spacing =< Hour
  /\ DiscoverySpacing \in Nat \ {0} /\ DiscoverySpacing =< Hour
  /\ SecondLimit \in Nat \ {0} /\ HourLimit \in Nat \ {0}
  /\ DiscoveryLimit \in Nat \ {0}
  /\ HourLimit - MonitoringReserve \in Nat \ {0}
  /\ Start \in Nat /\ Resets \subseteq Nat
BY WidthsAssumption, LimitsAssumption, EarlierAssumption

\* The grants in the table are all that the windows of an instant decided for
\* contain, each window has room for one more, and the last call in reach is
\* far enough.
Admitted(n, low, live) ==
  /\ IsFiniteSet(live) /\ live \subseteq Calls
  /\ \A g \in granted : g.at > n - Hour => g \in live
  /\ \A g \in granted : n >= g.at + Spacing
  /\ Cardinality(Since(live, n - Second)) < SecondLimit
  /\ Cardinality(live) < HourLimit
  /\ low => /\ \A g \in Discoveries(granted) : n >= g.at + DiscoverySpacing
            /\ Cardinality(Discoveries(live)) < DiscoveryLimit
            /\ Cardinality(live) < HourLimit - MonitoringReserve

LEMMA Admission ==
  ASSUME TypeOK, NEW n \in Nat, NEW low \in BOOLEAN, NEW b \in Rows,
         Sound(n, b), IsGranted(n, low, b, Since(grants, n - Hour))
  PROVE  Admitted(n, low, Since(grants, n - Hour))
<1> USE Constants
<1> DEFINE live == Since(grants, n - Hour)
<1>1. live \subseteq Calls /\ IsFiniteSet(live)
  <2>1. live \subseteq granted /\ granted \subseteq Calls /\ IsFiniteSet(granted)
    BY DEF Since, TypeOK
  <2> QED  BY <2>1, FS_Subset
<1>2. Since(live, n - Hour) = live
  BY DEF Since
<1>3. b.blockedUntil =< n /\ b.blockedUntil \in Nat
  BY DEF IsGranted, Bounds, Rows
<1>4. \A g \in granted : g.at > n - Hour => g \in live
  BY <1>3 DEF Sound, Recorded, Embargoed, Since, TypeOK, Calls
<1>5. \A g \in granted : n >= g.at + Spacing
  <2>1. \A t \in b.lastStarted : t + Spacing =< n /\ t \in Nat
    BY DEF IsGranted, Bounds, After, Rows
  <2> QED  BY <1>3, <2>1 DEF Sound, Covers, Embargoed, TypeOK, Calls
<1>6. Cardinality(Since(live, n - Second)) < SecondLimit
  <2>1. \A t \in Reopens(Since(live, n - Second), SecondLimit, Second) : t =< n
    BY DEF IsGranted, Bounds
  <2> HIDE DEF live
  <2> QED  BY <1>1, <2>1, OpenWindow
<1>7. Cardinality(live) < HourLimit
  <2>1. \A t \in Reopens(Since(live, n - Hour), HourLimit, Hour) : t =< n
    BY DEF IsGranted, Bounds
  <2> HIDE DEF live
  <2> QED  BY <1>1, <1>2, <2>1, OpenWindow
<1>8. ASSUME low
      PROVE  /\ \A g \in Discoveries(granted) : n >= g.at + DiscoverySpacing
             /\ Cardinality(Discoveries(live)) < DiscoveryLimit
             /\ Cardinality(live) < HourLimit - MonitoringReserve
  <2>1. \A t \in After(b.lastDiscovery, DiscoverySpacing) : t =< n
    BY <1>8 DEF IsGranted, Bounds
  <2>2. \A t \in b.lastDiscovery : t + DiscoverySpacing =< n /\ t \in Nat
    BY <2>1 DEF After, Rows
  <2>3. \A g \in Discoveries(granted) : n >= g.at + DiscoverySpacing
    BY <1>3, <2>2 DEF Sound, Covers, Embargoed, TypeOK, Calls, Discoveries
  <2>4. Since(Discoveries(live), n - Hour) = Discoveries(live)
    BY DEF Since, Discoveries
  <2>5. Discoveries(Since(live, n - Hour)) = Discoveries(live)
    BY <1>2
  <2>6. Discoveries(live) \subseteq Calls /\ IsFiniteSet(Discoveries(live))
    <3>1. Discoveries(live) \subseteq live
      BY DEF Discoveries
    <3> QED  BY <1>1, <3>1, FS_Subset
  <2>7. \A t \in Reopens(Discoveries(live), DiscoveryLimit, Hour) : t =< n
    BY <1>8, <2>5 DEF IsGranted, Bounds
  <2>8. Cardinality(Discoveries(live)) < DiscoveryLimit
    <3> HIDE DEF live
    <3> QED  BY <2>4, <2>6, <2>7, OpenWindow
  <2>9. \A t \in Reopens(Since(live, n - Hour), HourLimit - MonitoringReserve, Hour) : t =< n
    BY <1>8 DEF IsGranted, Bounds
  <2>10. Cardinality(live) < HourLimit - MonitoringReserve
    <3> HIDE DEF live
    <3> QED  BY <1>1, <1>2, <2>9, OpenWindow
  <2> QED  BY <2>3, <2>8, <2>10
<1> QED
  BY <1>1, <1>4, <1>5, <1>6, <1>7, <1>8 DEF Admitted

----------------------------------------------------------------------------
(* A grant keeps the limits *)

LEMMA GrantKeepsLimits ==
  ASSUME TypeOK, NEW n \in Nat, NEW low \in BOOLEAN, NEW live,
         Admitted(n, low, live), BrokerLimitsHold
  PROVE  WithinLimits(granted \cup {[at |-> n, discovery |-> low]})
<1> USE Constants
<1> DEFINE call == [at |-> n, discovery |-> low]
           after == granted \cup {call}
<1>1. granted \in SUBSET Calls /\ call \in Calls /\ call.at = n
  BY DEF TypeOK, Calls
<1>2. \A g \in granted : n > g.at /\ n >= g.at + Spacing
  BY <1>1 DEF Admitted, Calls
<1>3. /\ Window(after, n, Second) \subseteq Since(live, n - Second) \cup {call}
      /\ Window(after, n, Hour) \subseteq live \cup {call}
  BY <1>1, <1>2 DEF Admitted, Window, Since, Calls
<1>4. /\ Cardinality(Window(after, n, Second)) =< SecondLimit
      /\ Cardinality(Window(after, n, Hour)) =< HourLimit
  <2>1. Since(live, n - Second) \subseteq live /\ IsFiniteSet(live)
    BY DEF Since, Admitted
  <2>2. IsFiniteSet(Since(live, n - Second))
    BY <2>1, FS_Subset
  <2> HIDE DEF after, call
  <2> QED  BY <1>3, <2>1, <2>2, OneMore DEF Admitted
\* The windows that end at earlier calls do not see a later one.
<1>5. ASSUME NEW g \in granted
      PROVE  /\ Window(after, g.at, Second) = Window(granted, g.at, Second)
             /\ Window(after, g.at, Hour) = Window(granted, g.at, Hour)
  <2>1. g.at \in Nat /\ call.at \in Nat /\ call.at > g.at
    BY <1>1, <1>2 DEF Calls
  <2> HIDE DEF call
  <2> QED  BY <2>1 DEF Window, Since
<1>6. ASSUME NEW g \in after
      PROVE  /\ Cardinality(Window(after, g.at, Second)) =< SecondLimit
             /\ Cardinality(Window(after, g.at, Hour)) =< HourLimit
  <2> HIDE DEF after
  <2>1. CASE g \in granted
    BY <2>1, <1>5 DEF BrokerLimitsHold, WithinLimits
  <2>2. CASE g = call
    BY <2>2, <1>1, <1>4
  <2> QED  BY <2>1, <2>2 DEF after
<1>7. ASSUME NEW g \in after, NEW h \in after, g # h
      PROVE  h.at >= g.at + Spacing \/ g.at >= h.at + Spacing
  BY <1>1, <1>2, <1>7 DEF BrokerLimitsHold, WithinLimits
<1> HIDE DEF after
<1> QED
  BY <1>6, <1>7 DEF WithinLimits, after

LEMMA GrantKeepsReserve ==
  ASSUME TypeOK, NEW n \in Nat, NEW low \in BOOLEAN, NEW live,
         Admitted(n, low, live), DiscoveryLeavesReserve
  PROVE  DiscoveryWithinLimits(granted \cup {[at |-> n, discovery |-> low]})
<1> USE Constants
<1> DEFINE call == [at |-> n, discovery |-> low]
           after == granted \cup {call}
           scans == Discoveries(granted)
<1>1. /\ granted \in SUBSET Calls /\ call \in Calls /\ call.at = n
      /\ call.discovery = low /\ scans \in SUBSET Calls /\ scans \subseteq granted
  BY DEF TypeOK, Calls, Discoveries
<1>2. \A g \in granted : n > g.at
  BY <1>1 DEF Admitted, Calls
<1>3. Discoveries(after) = IF low THEN scans \cup {call} ELSE scans
  BY DEF Discoveries
<1>4. ASSUME NEW g \in scans
      PROVE  /\ Cardinality(Window(Discoveries(after), g.at, Hour)) =< DiscoveryLimit
             /\ Cardinality(Window(after, g.at, Hour)) =< HourLimit - MonitoringReserve
  <2>0. g.at \in Nat /\ call.at \in Nat /\ call.at > g.at
    BY <1>1, <1>2 DEF Calls
  <2> HIDE DEF scans, call
  <2>1. Window(after, g.at, Hour) = Window(granted, g.at, Hour)
    BY <2>0 DEF Window, Since
  <2>2. Window(Discoveries(after), g.at, Hour) = Window(scans, g.at, Hour)
    <3>1. Window(scans \cup {call}, g.at, Hour) = Window(scans, g.at, Hour)
      BY <2>0 DEF Window, Since
    <3> HIDE DEF after
    <3> QED  BY <1>3, <3>1
  <2> USE DEF scans
  <2> HIDE DEF after
  <2> QED  BY <2>1, <2>2 DEF DiscoveryLeavesReserve, DiscoveryWithinLimits
<1>5. ASSUME low
      PROVE  /\ Cardinality(Window(Discoveries(after), n, Hour)) =< DiscoveryLimit
             /\ Cardinality(Window(after, n, Hour)) =< HourLimit - MonitoringReserve
  <2>1. /\ Window(after, n, Hour) \subseteq live \cup {call}
        /\ Window(Discoveries(after), n, Hour) \subseteq Discoveries(live) \cup {call}
    BY <1>1, <1>2 DEF Admitted, Window, Since, Calls, Discoveries
  <2>2. Discoveries(live) \subseteq live /\ IsFiniteSet(live)
    BY DEF Discoveries, Admitted
  <2>3. IsFiniteSet(Discoveries(live))
    BY <2>2, FS_Subset
  <2> HIDE DEF after, call
  <2> QED  BY <1>5, <2>1, <2>2, <2>3, OneMore DEF Admitted
<1>6. ASSUME NEW g \in Discoveries(after)
      PROVE  /\ Cardinality(Window(Discoveries(after), g.at, Hour)) =< DiscoveryLimit
             /\ Cardinality(Window(after, g.at, Hour)) =< HourLimit - MonitoringReserve
  <2>1. CASE g \in scans
    BY <2>1, <1>4
  <2>2. CASE low /\ g = call
    BY <2>2, <1>1, <1>5
  <2> HIDE DEF scans, call, after
  <2> QED  BY <1>3, <2>1, <2>2
<1>7. ASSUME NEW g \in Discoveries(after), NEW h \in Discoveries(after), g # h
      PROVE  h.at >= g.at + DiscoverySpacing \/ g.at >= h.at + DiscoverySpacing
  <2>1. low => \A k \in scans : n >= k.at + DiscoverySpacing
    BY DEF Admitted
  <2>2. CASE g \in scans /\ h \in scans
    BY <1>7, <2>2 DEF DiscoveryLeavesReserve, DiscoveryWithinLimits
  <2>3. CASE low /\ (g = call \/ h = call)
    BY <1>1, <1>3, <1>7, <2>1, <2>3
  <2> QED  BY <1>3, <2>2, <2>3
<1> HIDE DEF after
<1> QED
  BY <1>6, <1>7 DEF DiscoveryWithinLimits, after

----------------------------------------------------------------------------
(* The inductive invariant *)

LEMMA InitBudget == Init => BudgetInv /\ BrokerLimitsHold /\ DiscoveryLeavesReserve
<1> SUFFICES ASSUME Init PROVE BudgetInv /\ BrokerLimitsHold /\ DiscoveryLeavesReserve
  OBVIOUS
<1> USE EarlierAssumption
<1>1. TypeOK
  BY DEF Init, TypeOK, Rows, NewRow
<1>2. KnownIsSound /\ LockedIsSound
  BY Constants DEF Init, KnownIsSound, LockedIsSound
<1>3. BrokerLimitsHold /\ DiscoveryLeavesReserve
  BY DEF Init, BrokerLimitsHold, DiscoveryLeavesReserve
<1> QED
  BY <1>1, <1>2, <1>3 DEF BudgetInv

\* A row created at an instant of the clock is sound: nothing was recorded, and
\* the hour of whatever was called ends with its embargo.
LEMMA NewRowIsSound ==
  ASSUME BudgetInv, ~known, NEW until \in Nat, clock + Hour =< until, NEW t \in Nat
  PROVE  NewRow(until) \in Rows /\ Sound(t, NewRow(until))
<1>1. \A g \in granted : g.at \in Nat /\ g.at + Hour =< until
  BY Constants DEF BudgetInv, KnownIsSound, TypeOK, Calls
<1>2. \A g \in granted : Embargoed(g, NewRow(until))
  BY <1>1 DEF Embargoed, NewRow
<1>3. Discoveries(granted) \subseteq granted
  BY DEF Discoveries
<1> QED
  BY <1>2, <1>3 DEF Sound, Covers, Recorded, NewRow, Rows

\* Time and a longer embargo put more calls out of reach.
LEMMA SoundLater ==
  ASSUME TypeOK, NEW t \in Nat, NEW u \in Nat, t =< u, NEW b \in Rows,
         NEW c \in Rows, b.blockedUntil =< c.blockedUntil,
         b.lastStarted = c.lastStarted, b.lastDiscovery = c.lastDiscovery,
         Sound(t, b)
  PROVE  Sound(u, c)
<1>1. \A g \in granted : g.at \in Nat /\ (Embargoed(g, b) => Embargoed(g, c))
  BY Constants DEF TypeOK, Calls, Embargoed, Rows
<1>2. Discoveries(granted) \subseteq granted
  BY DEF Discoveries
<1>3. Covers(c, granted)
  BY <1>1, <1>2 DEF Sound, Covers
<1>4. \A g \in granted : g \in grants \/ g.at + Hour =< u \/ Embargoed(g, c)
  BY <1>1, Constants DEF Sound, Recorded
<1> QED
  BY <1>3, <1>4 DEF Sound, Recorded

LEMMA AcquireKeeps ==
  ASSUME BudgetInv, NEW p \in Processes, NEW low \in BOOLEAN, Acquire(p, low)
  PROVE  BudgetInv'
<1> DEFINE b == IF known THEN budget ELSE NewRow(clock + Hour)
<1>1. clock \in Nat /\ b \in Rows /\ Sound(clock, b)
  BY NewRowIsSound, Constants DEF BudgetInv, TypeOK, KnownIsSound
<1>2. /\ pc[p] = "idle" /\ holder = {} /\ holder' = {p}
      /\ row' = [row EXCEPT ![p] = b]
      /\ pc' = [pc EXCEPT ![p] = "locked"]
      /\ asks' = [asks EXCEPT ![p] = low]
      /\ UNCHANGED <<clock, known, budget, grants, vNow, granted>>
  BY DEF Acquire, Lock
<1>3. TypeOK'
  BY <1>1, <1>2 DEF BudgetInv, TypeOK
<1>4. KnownIsSound'
  BY <1>2 DEF BudgetInv, KnownIsSound, Sound
<1>5. \A q \in Processes : pc'[q] # "idle" => q = p /\ pc'[q] = "locked" /\ row'[q] = b
  BY <1>2 DEF BudgetInv, TypeOK
<1>6. LockedIsSound'
  <2> HIDE DEF b
  <2>1. (known => b = budget) /\ Sound(clock, b)
    BY <1>1 DEF b
  <2> SUFFICES ASSUME NEW q \in Processes, pc'[q] # "idle"
               PROVE  /\ known' => row'[q] = budget'
                      /\ Sound(clock, row[q])'
                      /\ pc'[q] # "timed"
    BY DEF LockedIsSound
  <2> QED  BY <1>2, <1>5, <2>1 DEF Sound
<1> QED
  BY <1>3, <1>4, <1>6 DEF BudgetInv

LEMMA ReadClockKeeps ==
  ASSUME BudgetInv, NEW p \in Processes, ReadClock(p)
  PROVE  BudgetInv'
<1>1. /\ pc[p] = "locked"
      /\ vNow' = [vNow EXCEPT ![p] = clock]
      /\ pc' = [pc EXCEPT ![p] = "timed"]
      /\ UNCHANGED <<clock, known, budget, grants, holder, asks, row, granted>>
  BY DEF ReadClock
<1>2. /\ TypeOK /\ clock \in Nat
  BY DEF BudgetInv, TypeOK
<1>3. TypeOK'
  BY <1>1, <1>2 DEF TypeOK
<1>4. KnownIsSound'
  BY <1>1 DEF BudgetInv, KnownIsSound, Sound
<1>5. \A q \in Processes : /\ pc'[q] # "idle" => pc[q] # "idle"
                           /\ q = p => vNow'[q] = clock
                           /\ q # p => vNow'[q] = vNow[q] /\ pc'[q] = pc[q]
  BY <1>1, <1>2 DEF TypeOK
<1>6. LockedIsSound'
  <2> SUFFICES ASSUME NEW q \in Processes, pc'[q] # "idle"
               PROVE  /\ known => row[q] = budget
                      /\ Sound(clock, row[q])
                      /\ pc'[q] = "timed" =>
                           vNow'[q] =< clock /\ Sound(vNow'[q], row[q])
    BY <1>1 DEF LockedIsSound, Sound
  <2> QED  BY <1>2, <1>5 DEF BudgetInv, LockedIsSound
<1> QED
  BY <1>3, <1>4, <1>6 DEF BudgetInv

\* The end of a transaction leaves every process idle.
LEMMA EndsIdle ==
  ASSUME TypeOK, NEW p \in Processes, pc[p] # "idle", Ends(p)
  PROVE  /\ \A q \in Processes : pc'[q] = "idle"
         /\ holder' = {q \in Processes : pc'[q] # "idle"}
         /\ pc' \in [Processes -> {"idle", "locked", "timed"}]
         /\ asks' \in [Processes -> BOOLEAN] /\ row' \in [Processes -> Rows]
         /\ vNow' \in [Processes -> Nat]
<1>1. holder = {p} /\ holder' = {}
  BY DEF TypeOK, Ends
<1>2. \A q \in Processes : pc'[q] = "idle"
  BY <1>1 DEF TypeOK, Ends
<1>3. NewRow(0) \in Rows
  BY DEF NewRow, Rows
<1>4. /\ pc' \in [Processes -> {"idle", "locked", "timed"}]
      /\ asks' \in [Processes -> BOOLEAN] /\ row' \in [Processes -> Rows]
      /\ vNow' \in [Processes -> Nat]
  BY <1>3 DEF TypeOK, Ends
<1> QED
  BY <1>1, <1>2, <1>4

LEMMA RollbackKeeps ==
  ASSUME BudgetInv, NEW p \in Processes, Rollback(p)
  PROVE  BudgetInv'
<1>1. /\ pc[p] # "idle" /\ Ends(p)
      /\ UNCHANGED <<clock, known, budget, grants, granted>>
  BY DEF Rollback
<1>2. TypeOK'
  BY <1>1, EndsIdle DEF BudgetInv, TypeOK
<1>3. KnownIsSound'
  BY <1>1 DEF BudgetInv, KnownIsSound, Sound
<1>4. LockedIsSound'
  BY <1>1, EndsIdle DEF BudgetInv, LockedIsSound
<1> QED
  BY <1>2, <1>3, <1>4 DEF BudgetInv

LEMMA BlockKeeps ==
  ASSUME BudgetInv, NEW wait \in Resets, Block(clock + wait)
  PROVE  BudgetInv'
<1> USE Constants
<1>1. /\ holder = {} /\ budget' = Blocked(clock + wait) /\ known' = TRUE
      /\ UNCHANGED <<clock, grants, holder, pc, asks, row, vNow, granted>>
  BY DEF Block
<1>2. /\ TypeOK /\ clock \in Nat /\ clock + wait \in Nat /\ budget \in Rows
      /\ \A p \in Processes : pc[p] = "idle"
  BY <1>1 DEF BudgetInv, TypeOK
<1>3. budget' \in Rows /\ Sound(clock, budget')
  <2>1. CASE known
    <3>1. /\ budget' \in Rows /\ budget.blockedUntil =< budget'.blockedUntil
          /\ budget.lastStarted = budget'.lastStarted
          /\ budget.lastDiscovery = budget'.lastDiscovery
      BY <1>1, <1>2, <2>1 DEF Blocked, Greater, Rows
    <3> QED
      BY <1>2, <2>1, <3>1, SoundLater DEF BudgetInv, KnownIsSound
  <2>2. CASE ~known
    <3>1. /\ budget' = NewRow(Greater(clock + wait, clock + Hour))
          /\ Greater(clock + wait, clock + Hour) \in Nat
          /\ clock + Hour =< Greater(clock + wait, clock + Hour)
      BY <1>1, <1>2, <2>2 DEF Blocked, Greater
    <3> QED
      BY <1>2, <2>2, <3>1, NewRowIsSound
  <2> QED  BY <2>1, <2>2
<1>4. TypeOK'
  BY <1>1, <1>2, <1>3 DEF TypeOK
<1>5. KnownIsSound'
  BY <1>1, <1>3 DEF BudgetInv, KnownIsSound, Sound
<1>6. LockedIsSound'
  BY <1>1, <1>2 DEF LockedIsSound
<1> QED
  BY <1>4, <1>5, <1>6 DEF BudgetInv

LEMMA TickKeeps ==
  ASSUME BudgetInv, Tick
  PROVE  BudgetInv'
<1> USE Constants
<1>1. /\ clock' = clock + 1
      /\ UNCHANGED <<known, budget, grants, holder, pc, asks, row, vNow, granted>>
  BY DEF Tick
<1>2. TypeOK /\ TypeOK' /\ clock \in Nat /\ clock' \in Nat
  BY <1>1 DEF BudgetInv, TypeOK
<1>3. ASSUME NEW b \in Rows, Sound(clock, b) PROVE Sound(clock', b)
  <2>1. b.blockedUntil \in Nat /\ clock =< clock'
    BY <1>1, <1>2 DEF Rows
  <2>2. b.blockedUntil =< b.blockedUntil
    BY <2>1
  <2> QED
    BY <1>2, <1>3, <2>1, <2>2, SoundLater
<1>4. KnownIsSound'
  BY <1>1, <1>2, <1>3 DEF BudgetInv, KnownIsSound, Sound, TypeOK
<1>5. LockedIsSound'
  <2> SUFFICES ASSUME NEW p \in Processes, pc[p] # "idle"
               PROVE  /\ known => row[p] = budget
                      /\ Sound(clock', row[p])
                      /\ pc[p] = "timed" => vNow[p] =< clock' /\ Sound(vNow[p], row[p])
    BY <1>1 DEF LockedIsSound, Sound
  <2>1. row[p] \in Rows /\ vNow[p] \in Nat
    BY <1>2 DEF TypeOK
  <2> QED
    BY <1>1, <1>2, <1>3, <2>1 DEF BudgetInv, LockedIsSound
<1> QED
  BY <1>2, <1>4, <1>5 DEF BudgetInv

\* Pruning the table at an instant leaves it sound at that instant, and a grant
\* that starts then is covered by the row that records it.
LEMMA RefusalIsSound ==
  ASSUME TypeOK, NEW n \in Nat, NEW b \in Rows, Sound(n, b)
  PROVE  /\ Covers(b, granted)
         /\ Recorded(n, b, Since(grants, n - Hour), granted)
BY Constants DEF Sound, Recorded, Since, TypeOK, Calls

LEMMA GrantIsSound ==
  ASSUME TypeOK, NEW n \in Nat, NEW low \in BOOLEAN, NEW b \in Rows, Sound(n, b),
         Admitted(n, low, Since(grants, n - Hour))
  PROVE  LET call == [at |-> n, discovery |-> low]
             live == Since(grants, n - Hour) IN
         /\ Started(b, n, low) \in Rows
         /\ Covers(Started(b, n, low), granted \cup {call})
         /\ Recorded(n, Started(b, n, low), live \cup {call}, granted \cup {call})
<1> DEFINE call == [at |-> n, discovery |-> low]
           live == Since(grants, n - Hour)
           c == Started(b, n, low)
<1>1. /\ c \in Rows /\ c.blockedUntil = b.blockedUntil /\ c.lastStarted = {n}
      /\ c.lastDiscovery = IF low THEN {n} ELSE b.lastDiscovery
  BY DEF Started, Rows
<1>2. \A g \in granted : g.at \in Nat /\ g.at =< n
  BY Constants DEF Admitted, TypeOK, Calls
<1>3. \A g \in granted \cup {call} : \E t \in c.lastStarted : g.at =< t
  BY <1>1, <1>2
<1>4. ASSUME NEW g \in Discoveries(granted \cup {call})
      PROVE  Embargoed(g, c) \/ \E t \in c.lastDiscovery : g.at =< t
  <2>1. CASE low
    <3>1. g.at =< n
      BY <1>2, <1>4 DEF Discoveries
    <3> QED  BY <1>1, <2>1, <3>1
  <2>2. CASE ~low
    <3>1. g \in Discoveries(granted)
      BY <1>4, <2>2 DEF Discoveries
    <3> QED  BY <1>1, <2>2, <3>1 DEF Sound, Covers, Embargoed
  <2> QED  BY <2>1, <2>2
<1>5. Recorded(n, b, live, granted)
  BY RefusalIsSound
<1>6. Recorded(n, c, live \cup {call}, granted \cup {call})
  <2> HIDE DEF live, call
  <2> QED  BY <1>1, <1>5 DEF Recorded, Embargoed
<1> QED
  BY <1>1, <1>3, <1>4, <1>6 DEF Covers

LEMMA DecideKeeps ==
  ASSUME BudgetInv, BrokerLimitsHold, DiscoveryLeavesReserve,
         NEW p \in Processes, Decide(p)
  PROVE  BudgetInv' /\ BrokerLimitsHold' /\ DiscoveryLeavesReserve'
<1> DEFINE n == vNow[p]
           low == asks[p]
           b == row[p]
           live == Since(grants, n - Hour)
           call == [at |-> n, discovery |-> low]
           given == IsGranted(n, low, b, live)
<1>1. /\ pc[p] = "timed" /\ Ends(p) /\ known' = TRUE /\ clock' = clock
      /\ given => /\ grants' = live \cup {call}
                  /\ granted' = granted \cup {call}
                  /\ budget' = Started(b, n, low)
      /\ ~given => grants' = live /\ budget' = b /\ granted' = granted
  BY DEF Decide
<1>2. /\ TypeOK /\ clock \in Nat /\ Start =< clock
      /\ n \in Nat /\ low \in BOOLEAN /\ b \in Rows /\ n =< clock /\ Sound(n, b)
  BY <1>1 DEF BudgetInv, LockedIsSound, KnownIsSound, TypeOK
<1> HIDE DEF n, low, b
<1>3. given => Admitted(n, low, live)
  BY <1>2, Admission
<1>4. /\ budget' \in Rows /\ Covers(budget', granted')
      /\ Recorded(n, budget', grants', granted')
  <2>1. CASE given
    <3> HIDE DEF given
    <3> QED  BY <1>1, <1>2, <1>3, <2>1, GrantIsSound
  <2>2. CASE ~given
    <3> HIDE DEF given
    <3> QED  BY <1>1, <1>2, <2>2, RefusalIsSound
  <2> QED  BY <2>1, <2>2
<1>5. /\ granted' \subseteq Calls /\ IsFiniteSet(granted') /\ grants' \subseteq granted'
  <2>1. live \subseteq granted /\ granted \subseteq Calls /\ IsFiniteSet(granted)
    BY <1>2 DEF TypeOK, Since
  <2>2. IsFiniteSet(granted \cup {call}) /\ call \in Calls
    BY <1>2, <2>1, FS_AddElement DEF Calls
  <2> HIDE DEF live, call, given
  <2> QED  BY <1>1, <2>1, <2>2
<1>6. TypeOK'
  <2>1. \A q \in Processes : pc'[q] = "idle"
    BY <1>1, <1>2, EndsIdle
  <2>2. /\ holder' = {q \in Processes : pc'[q] # "idle"}
        /\ pc' \in [Processes -> {"idle", "locked", "timed"}]
        /\ asks' \in [Processes -> BOOLEAN] /\ row' \in [Processes -> Rows]
        /\ vNow' \in [Processes -> Nat]
    BY <1>1, <1>2, EndsIdle
  <2>3. clock' \in Nat /\ known' \in BOOLEAN
    BY <1>1, <1>2
  <2> QED  BY <1>4, <1>5, <2>1, <2>2, <2>3 DEF TypeOK
<1>7. KnownIsSound'
  <2>1. Recorded(clock', budget', grants', granted')
    <3>1. \A g \in granted' : g.at \in Nat
      BY <1>5 DEF Calls
    <3> QED  BY <1>1, <1>2, <1>4, <3>1, Constants DEF Recorded
  <2> QED  BY <1>1, <1>2, <1>4, <2>1 DEF KnownIsSound, Sound
<1>8. LockedIsSound'
  BY <1>1, <1>2, EndsIdle DEF LockedIsSound
<1>9. BrokerLimitsHold' /\ DiscoveryLeavesReserve'
  <2>1. given => /\ WithinLimits(granted \cup {call})
                 /\ DiscoveryWithinLimits(granted \cup {call})
    BY <1>2, <1>3, GrantKeepsLimits, GrantKeepsReserve
  <2>2. WithinLimits(granted) /\ DiscoveryWithinLimits(granted)
    BY DEF BrokerLimitsHold, DiscoveryLeavesReserve
  <2>3. WithinLimits(granted') /\ DiscoveryWithinLimits(granted')
    <3> HIDE DEF given, call, live
    <3> QED  BY <1>1, <2>1, <2>2
  <2> QED  BY <2>3 DEF BrokerLimitsHold, DiscoveryLeavesReserve
<1> QED
  BY <1>6, <1>7, <1>8, <1>9 DEF BudgetInv

LEMMA StepBudget ==
  BudgetInv /\ BrokerLimitsHold /\ DiscoveryLeavesReserve /\ [Next]_vars
    => BudgetInv' /\ BrokerLimitsHold' /\ DiscoveryLeavesReserve'
<1> SUFFICES ASSUME BudgetInv, BrokerLimitsHold, DiscoveryLeavesReserve, [Next]_vars
             PROVE  BudgetInv' /\ BrokerLimitsHold' /\ DiscoveryLeavesReserve'
  OBVIOUS
<1>1. ASSUME NEW p \in Processes, Decide(p)
      PROVE  BudgetInv' /\ BrokerLimitsHold' /\ DiscoveryLeavesReserve'
  BY <1>1, DecideKeeps
<1>2. ASSUME UNCHANGED granted PROVE BrokerLimitsHold' /\ DiscoveryLeavesReserve'
  BY <1>2 DEF BrokerLimitsHold, DiscoveryLeavesReserve
<1>3. ASSUME NEW p \in Processes, NEW low \in BOOLEAN, Acquire(p, low)
      PROVE  BudgetInv' /\ UNCHANGED granted
  BY <1>3, AcquireKeeps DEF Acquire
<1>4. ASSUME NEW p \in Processes, ReadClock(p) PROVE BudgetInv' /\ UNCHANGED granted
  BY <1>4, ReadClockKeeps DEF ReadClock
<1>5. ASSUME NEW p \in Processes, Rollback(p) PROVE BudgetInv' /\ UNCHANGED granted
  BY <1>5, RollbackKeeps DEF Rollback
<1>6. ASSUME NEW wait \in Resets, Block(clock + wait)
      PROVE  BudgetInv' /\ UNCHANGED granted
  BY <1>6, BlockKeeps DEF Block
<1>7. ASSUME Tick PROVE BudgetInv' /\ UNCHANGED granted
  BY <1>7, TickKeeps DEF Tick
<1>8. ASSUME UNCHANGED vars PROVE BudgetInv' /\ UNCHANGED granted
  <2>1. TypeOK' /\ KnownIsSound' /\ LockedIsSound'
    BY <1>8 DEF vars, BudgetInv, TypeOK, KnownIsSound, LockedIsSound, Sound
  <2> QED  BY <1>8, <2>1 DEF BudgetInv, vars
<1> QED
  BY <1>1, <1>2, <1>3, <1>4, <1>5, <1>6, <1>7, <1>8 DEF Next

----------------------------------------------------------------------------
(* Theorems *)

LEMMA BudgetInvariant ==
  Spec => [](BudgetInv /\ BrokerLimitsHold /\ DiscoveryLeavesReserve)
BY InitBudget, StepBudget, PTL DEF Spec

\* The row lock has at most one holder and every variable keeps its type.
THEOREM BudgetTypes == Spec => []TypeOK
<1>1. BudgetInv => TypeOK
  BY DEF BudgetInv
<1> QED
  BY <1>1, BudgetInvariant, PTL

\* No window of a second or an hour ever holds more calls than its limit, and
\* calls keep their spacing, for any limits, widths, processes and usage that
\* preceded the namespace (questrade_acquire_request_budget).
THEOREM LimitsHold == Spec => []BrokerLimitsHold
BY BudgetInvariant, PTL

\* Discovery stays within its own limit and leaves the monitoring reserve
\* (the discovery branch of questrade_acquire_request_budget).
THEOREM ReserveHolds == Spec => []DiscoveryLeavesReserve
BY BudgetInvariant, PTL

\* No step lowers an embargo or starts a call under one (block, FOR UPDATE).
THEOREM EmbargoIsKept == Spec => EmbargoHolds
<1> DEFINE Kept == known => /\ budget'.blockedUntil >= budget.blockedUntil
                            /\ \A g \in granted' \ granted : g.at >= budget.blockedUntil
<1>1. BudgetInv /\ [Next]_vars => [Kept]_vars
  <2> SUFFICES ASSUME BudgetInv, Next, known PROVE Kept
    BY Zenon
  <2>1. budget.blockedUntil \in Nat /\ clock \in Nat
    BY DEF BudgetInv, TypeOK, Rows
  <2>2. ASSUME UNCHANGED <<budget, granted>> PROVE Kept
    BY <2>1, <2>2
  <2>3. ASSUME NEW wait \in Resets, Block(clock + wait) PROVE Kept
    <3>1. clock + wait \in Nat
      BY <2>1, Constants
    <3>2. budget \in Rows /\ granted' = granted
      BY <2>3 DEF Block, BudgetInv, TypeOK
    <3>3. budget'.blockedUntil = Greater(budget.blockedUntil, clock + wait)
      BY <2>3, <3>2 DEF Block, Blocked, Rows
    <3> QED  BY <2>1, <3>1, <3>2, <3>3 DEF Greater
  <2>4. ASSUME NEW p \in Processes, Decide(p) PROVE Kept
    <3>1. row[p] = budget /\ budget \in Rows
      BY <2>4 DEF Decide, BudgetInv, LockedIsSound, TypeOK
    <3>2. budget'.blockedUntil = budget.blockedUntil
      BY <2>4, <3>1 DEF Decide, Started, Rows
    <3>3. ASSUME NEW g \in granted', g \notin granted
          PROVE  g.at >= budget.blockedUntil
      <4>1. /\ g.at = vNow[p]
            /\ IsGranted(vNow[p], asks[p], row[p], Since(grants, vNow[p] - Hour))
        BY <2>4, <3>3 DEF Decide
      <4>2. vNow[p] \in Nat
        BY DEF BudgetInv, TypeOK
      <4> QED  BY <2>1, <3>1, <4>1, <4>2 DEF IsGranted, Bounds
    <3> QED  BY <2>1, <3>2, <3>3
  <2> QED
    BY <2>2, <2>3, <2>4 DEF Next, Acquire, ReadClock, Rollback, Tick
<1>2. Spec => []BudgetInv
  BY BudgetInvariant, PTL
<1> QED
  BY <1>1, <1>2, PTL DEF Spec, EmbargoHolds
=============================================================================
