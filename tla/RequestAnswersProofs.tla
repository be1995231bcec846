------------------------ MODULE RequestAnswersProofs ------------------------
(* Proofs about the answers of RequestBudget: the instant a refusal names  *)
(* only moves forward, and the copy of the decision in the program gives   *)
(* the answer of the database's copy.                                      *)
EXTENDS RequestBudgetProofs

----------------------------------------------------------------------------
(* Latest instants *)

\* At most one instant.
Stamp(T) == T = {} \/ \E t \in Nat : T = {t}

HasLatest(S) == S \subseteq Nat /\ \E t \in S : \A u \in S : u =< t

\* No instant of S is later than all of T.
Dominates(T, S) == \A x \in S : \E y \in T : x =< y

LEMMA LatestIsGreatest ==
  ASSUME NEW S, HasLatest(S)
  PROVE  Latest(S) \in S /\ Latest(S) \in Nat /\ \A u \in S : u =< Latest(S)
BY Zenon DEF HasLatest, Latest

LEMMA DominatedIsEarlier ==
  ASSUME NEW S, HasLatest(S), NEW T, HasLatest(T), Dominates(T, S)
  PROVE  Latest(S) =< Latest(T)
<1>1. Latest(S) \in S /\ Latest(S) \in Nat
  BY LatestIsGreatest
<1>2. Latest(T) \in Nat /\ \A u \in T : u =< Latest(T)
  BY LatestIsGreatest
<1>3. PICK y \in T : Latest(S) =< y
  BY <1>1 DEF Dominates
<1>4. y \in Nat /\ y =< Latest(T)
  BY <1>2 DEF HasLatest
<1> QED
  BY <1>1, <1>2, <1>3, <1>4

LEMMA JoinHasLatest ==
  ASSUME NEW S, HasLatest(S), NEW T, Stamp(T)
  PROVE  HasLatest(S \cup T)
<1>1. PICK s \in S : s \in Nat /\ \A u \in S : u =< s
  BY DEF HasLatest
<1>2. CASE T = {}
  BY <1>2 DEF HasLatest
<1>3. ASSUME NEW t \in Nat, T = {t} PROVE HasLatest(S \cup T)
  <2>1. CASE s =< t
    BY <1>1, <1>3, <2>1 DEF HasLatest
  <2>2. CASE ~ (s =< t)
    BY <1>1, <1>3, <2>2 DEF HasLatest
  <2> QED  BY <2>1, <2>2
<1> QED
  BY <1>2, <1>3 DEF Stamp

LEMMA AfterIsStamp ==
  ASSUME NEW last, Stamp(last), NEW spacing \in Nat
  PROVE  Stamp(After(last, spacing))
<1>1. CASE last = {}
  BY <1>1 DEF Stamp, After
<1>2. ASSUME NEW t \in Nat, last = {t} PROVE Stamp(After(last, spacing))
  <2>1. After(last, spacing) = {t + spacing} /\ t + spacing \in Nat
    BY <1>2 DEF After
  <2> QED  BY <2>1 DEF Stamp
<1> QED
  BY <1>1, <1>2 DEF Stamp

\* A full window opens once.
LEMMA FullWindow ==
  ASSUME NEW W \in SUBSET Calls, IsFiniteSet(W), NEW limit \in Nat \ {0}, NEW width \in Nat,
         Cardinality(W) >= limit
  PROVE  \E g \in W : /\ Oldest(W) = g.at /\ \A h \in W : g.at =< h.at
                      /\ Reopens(W, limit, width) = {g.at + width}
<1>1. W # {}
  BY FS_EmptySet
<1> QED
  BY <1>1, OldestExists DEF Reopens

LEMMA ReopensIsStamp ==
  ASSUME NEW W \in SUBSET Calls, IsFiniteSet(W), NEW limit \in Nat \ {0}, NEW width \in Nat
  PROVE  Stamp(Reopens(W, limit, width))
<1>1. CASE Cardinality(W) >= limit
  <2>1. PICK g \in W : Reopens(W, limit, width) = {g.at + width}
    BY <1>1, FullWindow
  <2>2. g.at + width \in Nat
    BY DEF Calls
  <2> QED  BY <2>1, <2>2 DEF Stamp
<1>2. CASE ~ (Cardinality(W) >= limit)
  BY <1>2 DEF Reopens, Stamp
<1> QED
  BY <1>1, <1>2

\* The windows of a decision are finite sets of calls.
LEMMA WindowsAreFinite ==
  ASSUME NEW rows \in SUBSET Calls, IsFiniteSet(rows), NEW now, NEW width
  PROVE  /\ Since(rows, now - width) \in SUBSET Calls /\ IsFiniteSet(Since(rows, now - width))
         /\ Discoveries(rows) \in SUBSET Calls /\ IsFiniteSet(Discoveries(rows))
<1>1. Since(rows, now - width) \subseteq rows /\ Discoveries(rows) \subseteq rows
  BY DEF Since, Discoveries
<1> QED
  BY <1>1, FS_Subset

LEMMA BoundsHaveLatest ==
  ASSUME NEW now \in Nat, NEW low \in BOOLEAN, NEW b \in Rows,
         Stamp(b.lastStarted), Stamp(b.lastDiscovery),
         NEW rows \in SUBSET Calls, IsFiniteSet(rows)
  PROVE  HasLatest(Bounds(now, low, b, rows))
<1> DEFINE hour == Since(rows, now - Hour)
           second == Since(rows, now - Second)
           B1 == {now} \cup {b.blockedUntil}
           B2 == B1 \cup After(b.lastStarted, Spacing)
           B3 == B2 \cup Reopens(second, SecondLimit, Second)
           B4 == B3 \cup Reopens(hour, HourLimit, Hour)
           B5 == B4 \cup After(b.lastDiscovery, DiscoverySpacing)
           B6 == B5 \cup Reopens(Discoveries(hour), DiscoveryLimit, Hour)
           B7 == B6 \cup Reopens(hour, HourLimit - MonitoringReserve, Hour)
<1>1. /\ hour \in SUBSET Calls /\ IsFiniteSet(hour)
      /\ second \in SUBSET Calls /\ IsFiniteSet(second)
      /\ Discoveries(hour) \in SUBSET Calls /\ IsFiniteSet(Discoveries(hour))
  BY WindowsAreFinite
<1>2. Bounds(now, low, b, rows) = IF low THEN B7 ELSE B4
  BY DEF Bounds
<1> HIDE DEF hour, second
<1>3. b.blockedUntil \in Nat
  BY DEF Rows
<1>4. HasLatest(B1)
  <2>1. HasLatest({now}) /\ Stamp({b.blockedUntil})
    BY <1>3 DEF HasLatest, Stamp
  <2> QED  BY <2>1, JoinHasLatest
<1>5. HasLatest(B2)
  BY <1>4, AfterIsStamp, JoinHasLatest, Constants
<1>6. HasLatest(B3)
  BY <1>1, <1>5, ReopensIsStamp, JoinHasLatest, Constants
<1>7. HasLatest(B4)
  BY <1>1, <1>6, ReopensIsStamp, JoinHasLatest, Constants
<1>8. HasLatest(B5)
  BY <1>7, AfterIsStamp, JoinHasLatest, Constants
<1>9. HasLatest(B6)
  BY <1>1, <1>8, ReopensIsStamp, JoinHasLatest, Constants
<1>10. HasLatest(B7)
  BY <1>1, <1>9, ReopensIsStamp, JoinHasLatest, Constants
<1> QED
  BY <1>2, <1>7, <1>10

----------------------------------------------------------------------------
(* Bounds that move on *)

\* When calls only leave a window by age and join it with the latest instant,
\* it does not open earlier.
LEMMA WindowMovesOn ==
  ASSUME NEW W \in SUBSET Calls, IsFiniteSet(W), NEW V \in SUBSET Calls, IsFiniteSet(V),
         NEW later \in Nat, NEW limit \in Nat \ {0}, NEW width \in Nat,
         \A g \in W : g.at + width > later => g \in V,
         \A g \in V : g \in W \/ \A h \in W : h.at =< g.at,
         NEW t \in Reopens(W, limit, width)
  PROVE  t =< later \/ \E u \in Reopens(V, limit, width) : t =< u
<1>1. Cardinality(W) >= limit
  BY DEF Reopens
<1>2. PICK g \in W : /\ \A h \in W : g.at =< h.at
                     /\ Reopens(W, limit, width) = {g.at + width}
  BY <1>1, FullWindow
<1>3. t = g.at + width /\ g.at \in Nat
  BY <1>2 DEF Calls
<1> SUFFICES ASSUME ~ (t =< later) PROVE \E u \in Reopens(V, limit, width) : t =< u
  OBVIOUS
<1>4. W \subseteq V
  <2> SUFFICES ASSUME NEW h \in W PROVE h \in V
    OBVIOUS
  <2>1. h.at \in Nat /\ g.at =< h.at
    BY <1>2 DEF Calls
  <2> QED  BY <1>3, <2>1
<1>5. Cardinality(V) >= limit
  <2>1. Cardinality(W) \in Nat /\ Cardinality(V) \in Nat /\ Cardinality(W) =< Cardinality(V)
    BY <1>4, FS_Subset, FS_CardinalityType
  <2> QED  BY <1>1, <2>1
<1>6. PICK f \in V : Reopens(V, limit, width) = {f.at + width}
  BY <1>5, FullWindow
<1>7. g.at =< f.at /\ f.at \in Nat
  BY <1>2 DEF Calls
<1> QED
  BY <1>3, <1>6, <1>7

LEMMA BoundsMoveOn ==
  ASSUME NEW now \in Nat, NEW later \in Nat, now =< later, NEW low \in BOOLEAN,
         NEW b \in Rows, NEW c \in Rows, b.blockedUntil =< c.blockedUntil,
         \A t \in b.lastStarted : t + Spacing =< later \/ t \in c.lastStarted,
         \A t \in b.lastDiscovery : t + DiscoverySpacing =< later \/ t \in c.lastDiscovery,
         NEW old \in SUBSET Calls, IsFiniteSet(old), NEW new \in SUBSET Calls, IsFiniteSet(new),
         \A g \in old : g.at + Hour > later => g \in new,
         \A g \in new : g \in old \/ \A h \in old : h.at =< g.at
  PROVE  Dominates(Bounds(later, low, c, Since(new, later - Hour)),
                   Bounds(now, low, b, Since(old, now - Hour)))
<1> DEFINE rows(calls, at) == Since(calls, at - Hour)
           hour(calls, at) == Since(rows(calls, at), at - Hour)
           second(calls, at) == Since(rows(calls, at), at - Second)
           B == Bounds(now, low, b, rows(old, now))
           C == Bounds(later, low, c, rows(new, later))
           Passed(t) == \E u \in C : t =< u
<1>1. later \in C /\ c.blockedUntil \in C
  BY DEF Bounds
<1>2. \A g \in Calls : g.at \in Nat
  BY DEF Calls
<1>3. Since(old, now - Hour) \in SUBSET Calls /\ IsFiniteSet(Since(old, now - Hour))
      /\ Since(new, later - Hour) \in SUBSET Calls /\ IsFiniteSet(Since(new, later - Hour))
  BY WindowsAreFinite
<1>4. /\ hour(old, now) \in SUBSET Calls /\ IsFiniteSet(hour(old, now))
      /\ hour(new, later) \in SUBSET Calls /\ IsFiniteSet(hour(new, later))
      /\ second(old, now) \in SUBSET Calls /\ IsFiniteSet(second(old, now))
      /\ second(new, later) \in SUBSET Calls /\ IsFiniteSet(second(new, later))
  BY <1>3, WindowsAreFinite
<1>5. /\ Discoveries(hour(old, now)) \in SUBSET Calls /\ IsFiniteSet(Discoveries(hour(old, now)))
      /\ Discoveries(hour(new, later)) \in SUBSET Calls /\ IsFiniteSet(Discoveries(hour(new, later)))
  BY <1>4, WindowsAreFinite
<1>6. /\ \A g \in hour(old, now) : g.at + Hour > later => g \in hour(new, later)
      /\ \A g \in hour(new, later) : g \in hour(old, now) \/ \A h \in hour(old, now) : h.at =< g.at
  BY <1>2, Constants DEF Since
<1>7. /\ \A g \in second(old, now) : g.at + Second > later => g \in second(new, later)
      /\ \A g \in second(new, later) :
           g \in second(old, now) \/ \A h \in second(old, now) : h.at =< g.at
  BY <1>2, Constants DEF Since
<1>8. /\ \A g \in Discoveries(hour(old, now)) :
           g.at + Hour > later => g \in Discoveries(hour(new, later))
      /\ \A g \in Discoveries(hour(new, later)) :
           g \in Discoveries(hour(old, now)) \/ \A h \in Discoveries(hour(old, now)) : h.at =< g.at
  BY <1>6 DEF Discoveries
<1> SUFFICES ASSUME NEW t \in B PROVE Passed(t)
  BY DEF Dominates
<1>9. CASE t \in {now, b.blockedUntil}
  BY <1>1, <1>9
<1>10. CASE t \in After(b.lastStarted, Spacing)
  <2>1. \A u \in After(c.lastStarted, Spacing) : u \in C
    BY DEF Bounds
  <2>2. PICK s \in b.lastStarted : t = s + Spacing /\ s \in Nat
    BY <1>10 DEF After, Rows
  <2>3. t =< later \/ t \in After(c.lastStarted, Spacing)
    BY <2>2 DEF After
  <2> QED  BY <1>1, <2>1, <2>2, <2>3, Constants
<1>11. CASE t \in Reopens(second(old, now), SecondLimit, Second)
  <2>1. \A u \in Reopens(second(new, later), SecondLimit, Second) : u \in C
    BY DEF Bounds
  <2>2. SecondLimit \in Nat \ {0} /\ Second \in Nat
    BY Constants
  <2>3. t \in Reopens(second(old, now), SecondLimit, Second)
    BY <1>11
  <2> HIDE DEF second, C
  <2>4. t =< later \/ \E u \in Reopens(second(new, later), SecondLimit, Second) : t =< u
    BY <1>4, <1>7, <2>2, <2>3, WindowMovesOn
  <2> QED  BY <1>1, <2>1, <2>4
<1>12. CASE t \in Reopens(hour(old, now), HourLimit, Hour)
  <2>1. \A u \in Reopens(hour(new, later), HourLimit, Hour) : u \in C
    BY DEF Bounds
  <2>2. HourLimit \in Nat \ {0} /\ Hour \in Nat
    BY Constants
  <2>3. t \in Reopens(hour(old, now), HourLimit, Hour)
    BY <1>12
  <2> HIDE DEF hour, C
  <2>4. t =< later \/ \E u \in Reopens(hour(new, later), HourLimit, Hour) : t =< u
    BY <1>4, <1>6, <2>2, <2>3, WindowMovesOn
  <2> QED  BY <1>1, <2>1, <2>4
<1>13. CASE low /\ t \in After(b.lastDiscovery, DiscoverySpacing)
  <2>1. \A u \in After(c.lastDiscovery, DiscoverySpacing) : u \in C
    BY <1>13 DEF Bounds
  <2>2. PICK s \in b.lastDiscovery : t = s + DiscoverySpacing /\ s \in Nat
    BY <1>13 DEF After, Rows
  <2>3. t =< later \/ t \in After(c.lastDiscovery, DiscoverySpacing)
    BY <2>2 DEF After
  <2> QED  BY <1>1, <2>1, <2>2, <2>3, Constants
<1>14. CASE low /\ t \in Reopens(Discoveries(hour(old, now)), DiscoveryLimit, Hour)
  <2>1. \A u \in Reopens(Discoveries(hour(new, later)), DiscoveryLimit, Hour) : u \in C
    BY <1>14 DEF Bounds
  <2>2. DiscoveryLimit \in Nat \ {0} /\ Hour \in Nat
    BY Constants
  <2>3. t \in Reopens(Discoveries(hour(old, now)), DiscoveryLimit, Hour)
    BY <1>14
  <2> HIDE DEF hour, C
  <2>4. t =< later \/ \E u \in Reopens(Discoveries(hour(new, later)), DiscoveryLimit, Hour) : t =< u
    BY <1>5, <1>8, <2>2, <2>3, WindowMovesOn
  <2> QED  BY <1>1, <2>1, <2>4
<1>15. CASE low /\ t \in Reopens(hour(old, now), HourLimit - MonitoringReserve, Hour)
  <2>1. \A u \in Reopens(hour(new, later), HourLimit - MonitoringReserve, Hour) : u \in C
    BY <1>15 DEF Bounds
  <2>2. HourLimit - MonitoringReserve \in Nat \ {0} /\ Hour \in Nat
    BY Constants
  <2>3. t \in Reopens(hour(old, now), HourLimit - MonitoringReserve, Hour)
    BY <1>15
  <2> HIDE DEF hour, C
  <2>4. \/ t =< later
        \/ \E u \in Reopens(hour(new, later), HourLimit - MonitoringReserve, Hour) : t =< u
    BY <1>4, <1>6, <2>2, <2>3, WindowMovesOn
  <2> QED  BY <1>1, <2>1, <2>4
<1>16. \/ t \in {now, b.blockedUntil}
       \/ t \in After(b.lastStarted, Spacing)
       \/ t \in Reopens(second(old, now), SecondLimit, Second)
       \/ t \in Reopens(hour(old, now), HourLimit, Hour)
       \/ low /\ t \in After(b.lastDiscovery, DiscoverySpacing)
       \/ low /\ t \in Reopens(Discoveries(hour(old, now)), DiscoveryLimit, Hour)
       \/ low /\ t \in Reopens(hour(old, now), HourLimit - MonitoringReserve, Hour)
  <2> HIDE DEF rows
  <2>1. t \in Bounds(now, low, b, rows(old, now))
    OBVIOUS
  <2> QED  BY <2>1, Zenon DEF Bounds
<1> HIDE DEF C, hour, second
<1> QED
  BY <1>9, <1>10, <1>11, <1>12, <1>13, <1>14, <1>15, <1>16

----------------------------------------------------------------------------
(* The last starts of the row and the recorded calls *)

\* last is the newest of the recorded calls, or its hour has passed.
Tracks(last, calls, now) ==
  /\ Stamp(last)
  /\ \A g \in calls : \E t \in last : g.at =< t
  /\ \A t \in last : t + Hour =< now \/ \E g \in calls : g.at = t

RowTracks(b, calls, now) ==
  /\ Tracks(b.lastStarted, calls, now)
  /\ Tracks(b.lastDiscovery, Discoveries(calls), now)

TracksInv ==
  /\ known => RowTracks(budget, grants, clock)
  /\ ~known => grants = {}
  /\ \A p \in Processes : pc[p] # "idle" => RowTracks(row[p], grants, clock)

LEMMA TracksLater ==
  ASSUME NEW last, NEW old \in SUBSET Calls, NEW new \in SUBSET old,
         NEW now \in Nat, NEW later \in Nat, now =< later,
         \A g \in old : g.at + Hour > later => g \in new,
         Tracks(last, old, now)
  PROVE  Tracks(last, new, later)
<1>1. \A t \in last : t \in Nat
  BY DEF Tracks, Stamp
<1> QED
  BY <1>1, Constants DEF Tracks, Calls

LEMMA RowTracksLater ==
  ASSUME NEW b, NEW old \in SUBSET Calls, NEW new \in SUBSET old,
         NEW now \in Nat, NEW later \in Nat, now =< later,
         \A g \in old : g.at + Hour > later => g \in new,
         RowTracks(b, old, now)
  PROVE  RowTracks(b, new, later)
<1>1. /\ Discoveries(old) \in SUBSET Calls /\ Discoveries(new) \in SUBSET Discoveries(old)
      /\ \A g \in Discoveries(old) : g.at + Hour > later => g \in Discoveries(new)
  BY DEF Discoveries
<1> QED
  BY <1>1, TracksLater DEF RowTracks

LEMMA NewRowTracks ==
  ASSUME NEW until, NEW now
  PROVE  RowTracks(NewRow(until), {}, now)
BY DEF RowTracks, Tracks, Stamp, NewRow, Discoveries

LEMMA CallTracks ==
  ASSUME NEW n \in Nat, NEW call, call.at = n, NEW now, NEW calls \in SUBSET Calls,
         \A g \in calls : g.at =< n
  PROVE  Tracks({n}, calls \cup {call}, now)
<1>1. Stamp({n})
  BY DEF Stamp
<1>2. \A g \in calls \cup {call} : \E t \in {n} : g.at =< t
  OBVIOUS
<1>3. \A t \in {n} : \E g \in calls \cup {call} : g.at = t
  OBVIOUS
<1> QED
  BY <1>1, <1>2, <1>3 DEF Tracks

LEMMA StartedTracks ==
  ASSUME NEW b \in Rows, NEW n \in Nat, NEW low \in BOOLEAN, NEW now \in Nat,
         NEW live \in SUBSET Calls, RowTracks(b, live, now), \A g \in live : g.at =< n
  PROVE  RowTracks(Started(b, n, low), live \cup {[at |-> n, discovery |-> low]}, now)
<1> DEFINE call == [at |-> n, discovery |-> low]
           c == Started(b, n, low)
<1>1. c.lastStarted = {n} /\ c.lastDiscovery = IF low THEN {n} ELSE b.lastDiscovery
  BY DEF Started, Rows
<1>2. Tracks({n}, live \cup {call}, now)
  BY CallTracks
<1>3. CASE low
  <2>1. Discoveries(live \cup {call}) = Discoveries(live) \cup {call}
    BY <1>3 DEF Discoveries
  <2>2. Discoveries(live) \in SUBSET Calls /\ \A g \in Discoveries(live) : g.at =< n
    BY DEF Discoveries
  <2>3. Tracks({n}, Discoveries(live) \cup {call}, now)
    BY <2>2, CallTracks
  <2> QED  BY <1>1, <1>2, <1>3, <2>1, <2>3 DEF RowTracks
<1>4. CASE ~low
  <2>1. Discoveries(live \cup {call}) = Discoveries(live)
    BY <1>4 DEF Discoveries
  <2> QED  BY <1>1, <1>2, <1>4, <2>1 DEF RowTracks
<1> QED
  BY <1>3, <1>4

\* What a decision does to the row and the table.
Decided(p, now, live) ==
  /\ pc[p] = "timed" /\ known' = TRUE /\ Ends(p) /\ UNCHANGED clock
  /\ \/ /\ IsGranted(now, asks[p], row[p], live)
        /\ grants' = live \cup {[at |-> now, discovery |-> asks[p]]}
        /\ budget' = Started(row[p], now, asks[p])
     \/ grants' = live /\ budget' = row[p]

LEMMA DecideShape ==
  ASSUME NEW p \in Processes, Decide(p)
  PROVE  Decided(p, vNow[p], Since(grants, vNow[p] - Hour))
BY DEF Decide, Decided

\* What is known of a call that is about to be decided.
LEMMA TimedCall ==
  ASSUME BudgetInv, TracksInv, NEW p \in Processes, pc[p] = "timed"
  PROVE  LET live == Since(grants, vNow[p] - Hour) IN
         /\ vNow[p] \in Nat /\ clock \in Nat /\ vNow[p] =< clock
         /\ asks[p] \in BOOLEAN /\ row[p] \in Rows
         /\ grants \in SUBSET Calls /\ IsFiniteSet(grants)
         /\ live \in SUBSET grants
         /\ \A g \in grants : g.at + Hour > clock => g \in live
         /\ RowTracks(row[p], live, clock)
         /\ known => row[p] = budget
         /\ IsGranted(vNow[p], asks[p], row[p], live) =>
              \A g \in granted : vNow[p] >= g.at + Spacing
<1> DEFINE live == Since(grants, vNow[p] - Hour)
<1>1. TypeOK /\ LockedIsSound
  BY DEF BudgetInv
<1>2. /\ vNow[p] \in Nat /\ clock \in Nat /\ asks[p] \in BOOLEAN /\ row[p] \in Rows
      /\ grants \subseteq granted /\ granted \subseteq Calls /\ IsFiniteSet(granted)
  BY <1>1 DEF TypeOK
<1>3. grants \in SUBSET Calls /\ IsFiniteSet(grants)
  BY <1>2, FS_Subset
<1>4. vNow[p] =< clock /\ (known => row[p] = budget) /\ Sound(vNow[p], row[p])
  BY <1>1 DEF LockedIsSound
<1>5. live \in SUBSET grants /\ \A g \in grants : g.at + Hour > clock => g \in live
  BY <1>2, <1>3, <1>4, Constants DEF Since, Calls
<1>6. RowTracks(row[p], grants, clock)
  BY DEF TracksInv
<1>7. RowTracks(row[p], live, clock)
  <2> HIDE DEF live
  <2>1. clock =< clock
    BY <1>2
  <2> QED  BY <1>2, <1>3, <1>5, <1>6, <2>1, RowTracksLater
<1>8. ASSUME IsGranted(vNow[p], asks[p], row[p], live)
      PROVE  \A g \in granted : vNow[p] >= g.at + Spacing
  <2>1. Admitted(vNow[p], asks[p], live)
    BY <1>1, <1>2, <1>4, <1>8, Admission
  <2> QED  BY <2>1 DEF Admitted
<1> QED
  BY <1>2, <1>3, <1>4, <1>5, <1>7, <1>8

LEMMA TracksStep ==
  ASSUME BudgetInv, TracksInv, [Next]_vars
  PROVE  TracksInv'
<1>1. /\ TypeOK /\ clock \in Nat /\ grants \in SUBSET Calls /\ budget \in Rows
  BY DEF BudgetInv, TypeOK
<1>2. ASSUME NEW p \in Processes, NEW low \in BOOLEAN, Acquire(p, low) PROVE TracksInv'
  <2>1. RowTracks(IF known THEN budget ELSE NewRow(clock + Hour), grants, clock)
    BY NewRowTracks DEF TracksInv
  <2>2. /\ row' = [row EXCEPT ![p] = IF known THEN budget ELSE NewRow(clock + Hour)]
        /\ pc' = [pc EXCEPT ![p] = "locked"]
        /\ UNCHANGED <<clock, known, budget, grants>>
    BY <1>2 DEF Acquire, Lock
  <2>3. \A q \in Processes : pc'[q] # "idle" =>
          \/ pc[q] # "idle" /\ row'[q] = row[q]
          \/ row'[q] = IF known THEN budget ELSE NewRow(clock + Hour)
    BY <1>1, <2>2 DEF TypeOK
  <2> QED  BY <2>1, <2>2, <2>3 DEF TracksInv
<1>3. ASSUME NEW p \in Processes, ReadClock(p) PROVE TracksInv'
  <2>1. /\ UNCHANGED <<clock, known, budget, grants, row>>
        /\ \A q \in Processes : pc'[q] # "idle" => pc[q] # "idle"
    BY <1>1, <1>3 DEF ReadClock, TypeOK
  <2> QED  BY <2>1 DEF TracksInv
<1>4. ASSUME NEW p \in Processes, Decide(p) PROVE TracksInv'
  <2> DEFINE live == Since(grants, vNow[p] - Hour)
             call == [at |-> vNow[p], discovery |-> asks[p]]
  <2>1. Decided(p, vNow[p], live)
    BY <1>4, DecideShape
  <2>2. /\ vNow[p] \in Nat /\ asks[p] \in BOOLEAN /\ row[p] \in Rows
        /\ live \in SUBSET grants /\ RowTracks(row[p], live, clock)
        /\ IsGranted(vNow[p], asks[p], row[p], live) =>
             \A g \in granted : vNow[p] >= g.at + Spacing
    BY <2>1, TimedCall DEF Decided
  <2>3. known' /\ clock' = clock /\ \A q \in Processes : pc'[q] = "idle"
    BY <1>1, <2>1, EndsIdle DEF Decided
  <2> HIDE DEF live
  <2>4. RowTracks(budget', grants', clock)
    <3>1. CASE grants' = live /\ budget' = row[p]
      BY <2>2, <3>1
    <3>2. CASE /\ IsGranted(vNow[p], asks[p], row[p], live)
               /\ grants' = live \cup {call}
               /\ budget' = Started(row[p], vNow[p], asks[p])
      <4>1. \A g \in live : g.at =< vNow[p]
        BY <1>1, <2>2, <3>2, Constants DEF TypeOK, Calls
      <4>2. live \in SUBSET Calls
        BY <1>1, <2>2
      <4> QED  BY <1>1, <2>2, <3>2, <4>1, <4>2, StartedTracks
    <3> QED  BY <2>1, <3>1, <3>2 DEF Decided
  <2> QED  BY <2>3, <2>4 DEF TracksInv
<1>5. ASSUME NEW p \in Processes, Rollback(p) PROVE TracksInv'
  <2>1. /\ UNCHANGED <<clock, known, budget, grants>>
        /\ \A q \in Processes : pc'[q] = "idle"
    BY <1>1, <1>5, EndsIdle DEF Rollback
  <2> QED  BY <2>1 DEF TracksInv
<1>6. ASSUME NEW wait \in Resets, Block(clock + wait) PROVE TracksInv'
  <2>1. /\ budget' = Blocked(clock + wait) /\ known' = TRUE /\ holder = {}
        /\ UNCHANGED <<clock, grants, pc>>
    BY <1>6 DEF Block
  <2>2. \A q \in Processes : pc'[q] = "idle"
    BY <1>1, <2>1 DEF TypeOK
  <2>3. RowTracks(budget', grants, clock)
    <3>1. CASE known
      <4>1. /\ budget'.lastStarted = budget.lastStarted
            /\ budget'.lastDiscovery = budget.lastDiscovery
        BY <1>1, <2>1, <3>1 DEF Blocked, Rows
      <4> QED  BY <3>1, <4>1 DEF TracksInv, RowTracks
    <3>2. CASE ~known
      <4>1. budget' = NewRow(Greater(clock + wait, clock + Hour)) /\ grants = {}
        BY <2>1, <3>2 DEF Blocked, TracksInv
      <4> QED  BY <4>1, NewRowTracks
    <3> QED  BY <3>1, <3>2
  <2> QED  BY <2>1, <2>2, <2>3 DEF TracksInv
<1>7. ASSUME Tick PROVE TracksInv'
  <2>1. clock' = clock + 1 /\ UNCHANGED <<known, budget, grants, row, pc>>
    BY <1>7 DEF Tick
  <2>2. clock' \in Nat /\ clock =< clock'
    BY <1>1, <2>1
  <2>3. ASSUME NEW b, RowTracks(b, grants, clock) PROVE RowTracks(b, grants, clock')
    BY <1>1, <2>2, <2>3, RowTracksLater
  <2> QED  BY <2>1, <2>3 DEF TracksInv
<1>8. CASE UNCHANGED vars
  BY <1>8 DEF vars, TracksInv
<1> QED
  BY <1>2, <1>3, <1>4, <1>5, <1>6, <1>7, <1>8 DEF Next

LEMMA InitTracks == Init => TracksInv
BY DEF Init, TracksInv

----------------------------------------------------------------------------
(* The instant a refusal names *)

LEMMA EarliestMovesOn ==
  ASSUME BudgetInv, BudgetInv', TracksInv, TracksInv', known, known', NEW low \in BOOLEAN,
         clock =< clock', budget.blockedUntil =< budget'.blockedUntil,
         \A t \in budget.lastStarted :
           t + Spacing =< clock' \/ t \in budget'.lastStarted,
         \A t \in budget.lastDiscovery :
           t + DiscoverySpacing =< clock' \/ t \in budget'.lastDiscovery,
         \A g \in grants : g.at + Hour > clock' => g \in grants',
         \A g \in grants' : g \in grants \/ \A h \in grants : h.at =< g.at
  PROVE  EarliestStart(low)' >= EarliestStart(low)
<1> DEFINE B == Bounds(clock, low, budget, Since(grants, clock - Hour))
           C == Bounds(clock', low, budget', Since(grants', clock' - Hour))
<1>1. /\ clock \in Nat /\ budget \in Rows /\ grants \in SUBSET Calls /\ IsFiniteSet(grants)
      /\ clock' \in Nat /\ budget' \in Rows /\ grants' \in SUBSET Calls /\ IsFiniteSet(grants')
  <2>1. TypeOK /\ TypeOK'
    BY DEF BudgetInv
  <2>2. /\ grants \subseteq granted /\ IsFiniteSet(granted) /\ granted \subseteq Calls
        /\ grants' \subseteq granted' /\ IsFiniteSet(granted') /\ granted' \subseteq Calls
    BY <2>1 DEF TypeOK
  <2>3. IsFiniteSet(grants) /\ IsFiniteSet(grants')
    BY <2>2, FS_Subset
  <2> QED  BY <2>1, <2>2, <2>3 DEF TypeOK
<1>2. Dominates(C, B)
  BY <1>1, BoundsMoveOn
<1>3. /\ Stamp(budget.lastStarted) /\ Stamp(budget.lastDiscovery)
      /\ Stamp(budget'.lastStarted) /\ Stamp(budget'.lastDiscovery)
  BY DEF TracksInv, RowTracks, Tracks
<1>4. HasLatest(B) /\ HasLatest(C)
  <2>1. /\ Since(grants, clock - Hour) \in SUBSET Calls
        /\ IsFiniteSet(Since(grants, clock - Hour))
        /\ Since(grants', clock' - Hour) \in SUBSET Calls
        /\ IsFiniteSet(Since(grants', clock' - Hour))
    BY <1>1, WindowsAreFinite
  <2> QED  BY <1>1, <1>3, <2>1, BoundsHaveLatest
<1> HIDE DEF B, C
<1>5. Latest(B) =< Latest(C)
  BY <1>2, <1>4, DominatedIsEarlier
<1>6. Latest(B) \in Nat /\ Latest(C) \in Nat
  BY <1>4, LatestIsGreatest
<1>7. EarliestStart(low) = Latest(B) /\ EarliestStart(low)' = Latest(C)
  BY DEF EarliestStart, B, C
<1> QED
  BY <1>5, <1>6, <1>7

LEMMA RetryStep ==
  ASSUME BudgetInv, BudgetInv', TracksInv, TracksInv', known, Next, NEW low \in BOOLEAN
  PROVE  EarliestStart(low)' >= EarliestStart(low)
<1>1. /\ TypeOK /\ clock \in Nat /\ grants \in SUBSET Calls /\ budget \in Rows
      /\ budget.blockedUntil \in Nat
      /\ \A g \in grants : g.at \in Nat
      /\ \A t \in budget.lastStarted \cup budget.lastDiscovery : t \in Nat
  BY DEF BudgetInv, TypeOK, Calls, Rows
<1>2. ASSUME UNCHANGED <<known, budget, grants>>, clock' = clock \/ clock' = clock + 1
      PROVE  EarliestStart(low)' >= EarliestStart(low)
  <2>1. clock =< clock' /\ budget.blockedUntil =< budget'.blockedUntil
    BY <1>1, <1>2
  <2> QED  BY <1>2, <2>1, EarliestMovesOn
<1>3. ASSUME NEW wait \in Resets, Block(clock + wait)
      PROVE  EarliestStart(low)' >= EarliestStart(low)
  <2>1. /\ known' = TRUE /\ UNCHANGED <<clock, grants>>
        /\ budget' = [budget EXCEPT !.blockedUntil = Greater(@, clock + wait)]
    BY <1>3 DEF Block, Blocked
  <2>2. /\ budget'.lastStarted = budget.lastStarted
        /\ budget'.lastDiscovery = budget.lastDiscovery
        /\ budget.blockedUntil =< budget'.blockedUntil /\ clock =< clock'
    BY <1>1, <2>1, Constants DEF Rows, Greater
  <2> QED  BY <2>1, <2>2, EarliestMovesOn
<1>4. ASSUME NEW p \in Processes, Decide(p)
      PROVE  EarliestStart(low)' >= EarliestStart(low)
  <2> DEFINE live == Since(grants, vNow[p] - Hour)
             call == [at |-> vNow[p], discovery |-> asks[p]]
  <2>1. Decided(p, vNow[p], live)
    BY <1>4, DecideShape
  <2>2. /\ vNow[p] \in Nat /\ vNow[p] =< clock /\ asks[p] \in BOOLEAN /\ row[p] = budget
        /\ live \in SUBSET grants /\ \A g \in grants : g.at + Hour > clock => g \in live
        /\ IsGranted(vNow[p], asks[p], row[p], live) =>
             \A g \in granted : vNow[p] >= g.at + Spacing
    BY <2>1, TimedCall DEF Decided
  <2>3. known' /\ clock' = clock /\ clock =< clock' /\ budget.blockedUntil =< budget.blockedUntil
    BY <1>1, <2>1 DEF Decided
  <2> HIDE DEF live
  <2>4. CASE grants' = live /\ budget' = row[p]
    BY <2>2, <2>3, <2>4, EarliestMovesOn
  <2>5. CASE /\ IsGranted(vNow[p], asks[p], row[p], live)
             /\ grants' = live \cup {call}
             /\ budget' = Started(row[p], vNow[p], asks[p])
    <3>1. \A h \in grants : h.at =< call.at
      BY <1>1, <2>2, <2>5, Constants DEF TypeOK
    <3>2. \A g \in grants' : g \in grants \/ \A h \in grants : h.at =< g.at
      BY <2>2, <2>5, <3>1
    <3>3. budget'.blockedUntil = budget.blockedUntil
      BY <1>1, <2>2, <2>5 DEF Started, Rows
    <3>4. \A t \in budget.lastStarted : t + Spacing =< clock'
      <4>1. \A t \in budget.lastStarted : t + Spacing =< vNow[p]
        BY <2>2, <2>5 DEF IsGranted, Bounds, After
      <4> QED  BY <1>1, <2>2, <2>3, <4>1, Constants
    <3>5. \A t \in budget.lastDiscovery :
            t + DiscoverySpacing =< clock' \/ t \in budget'.lastDiscovery
      <4>1. CASE asks[p]
        <5>1. \A t \in budget.lastDiscovery : t + DiscoverySpacing =< vNow[p]
          BY <2>2, <2>5, <4>1 DEF IsGranted, Bounds, After
        <5> QED  BY <1>1, <2>2, <2>3, <5>1, Constants
      <4>2. CASE ~asks[p]
        BY <1>1, <2>2, <2>5, <4>2 DEF Started, Rows
      <4> QED  BY <4>1, <4>2
    <3>6. \A g \in grants : g.at + Hour > clock' => g \in grants'
      BY <2>2, <2>3, <2>5
    <3> QED  BY <2>3, <3>2, <3>3, <3>4, <3>5, <3>6, EarliestMovesOn
  <2> QED  BY <2>1, <2>4, <2>5 DEF Decided
<1> QED
  BY <1>1, <1>2, <1>3, <1>4 DEF Next, Acquire, ReadClock, Rollback, Tick

----------------------------------------------------------------------------
(* The copy of the decision *)

LEMMA AtLimitReopens ==
  ASSUME NEW W, IsFiniteSet(W), NEW limit \in Nat \ {0}, NEW width
  PROVE  AtLimit(Cardinality(W), limit, OldestOrZero(W) + width) = Reopens(W, limit, width)
<1>1. W = {} => ~ (Cardinality(W) >= limit)
  BY FS_EmptySet
<1> QED
  BY <1>1 DEF AtLimit, OldestOrZero, Reopens

\* The newest recorded call of the hour is the recorded last start, unless that
\* one's hour has passed.
LEMMA LastIsTracked ==
  ASSUME NEW calls \in SUBSET Calls, NEW now \in Nat, NEW last, Tracks(last, calls, now)
  PROVE  LET W == Since(calls, now - Hour) IN
         Last(W) = last \/ (Last(W) = {} /\ \A t \in last : t \in Nat /\ t + Hour =< now)
<1> DEFINE W == Since(calls, now - Hour)
<1>1. \A g \in calls : g.at \in Nat
  BY DEF Calls
<1>2. CASE last = {}
  <2>1. W = {}
    BY <1>2 DEF Tracks, Since
  <2> QED  BY <1>2, <2>1 DEF Last
<1>3. ASSUME NEW t \in Nat, last = {t}
      PROVE  Last(W) = last \/ (Last(W) = {} /\ \A u \in last : u \in Nat /\ u + Hour =< now)
  <2>1. \A g \in calls : g.at =< t
    BY <1>3 DEF Tracks
  <2>2. CASE t + Hour =< now
    <3>1. W = {}
      BY <1>1, <2>1, <2>2, Constants DEF Since
    <3> QED  BY <1>3, <2>2, <3>1 DEF Last
  <2>3. CASE ~ (t + Hour =< now)
    <3>1. PICK g \in calls : g.at = t
      BY <1>3, <2>3 DEF Tracks
    <3>2. g \in W
      BY <2>3, <3>1, Constants DEF Since
    <3>3. t \in Times(W) /\ \A u \in Times(W) : u \in Nat /\ u =< t
      BY <1>1, <2>1, <3>1, <3>2 DEF Times, Since
    <3>4. HasLatest(Times(W))
      BY <3>3 DEF HasLatest
    <3>5. Latest(Times(W)) \in Times(W) /\ \A u \in Times(W) : u =< Latest(Times(W))
      BY <3>4, LatestIsGreatest
    <3>6. Latest(Times(W)) = t
      <4> HIDE DEF W
      <4>1. Latest(Times(W)) \in Nat /\ Latest(Times(W)) =< t /\ t =< Latest(Times(W))
        BY <3>3, <3>5
      <4> QED  BY <4>1
    <3>7. W # {}
      BY <3>2
    <3> HIDE DEF W
    <3> QED  BY <1>3, <3>6, <3>7 DEF Last
  <2> QED  BY <2>2, <2>3
<1> QED
  BY <1>2, <1>3 DEF Tracks, Stamp

\* The row as the copy sees it.
Seen(b, hour) ==
  [blockedUntil |-> b.blockedUntil, lastStarted |-> Last(hour),
   lastDiscovery |-> Last(Discoveries(hour))]

\* The copy decides on the bounds of the row it sees.
LEMMA CopyBounds ==
  ASSUME NEW now \in Nat, NEW low \in BOOLEAN, NEW b \in Rows,
         NEW calls \in SUBSET Calls, IsFiniteSet(calls)
  PROVE  LET hour == Since(calls, now - Hour)
             usage == UsageOf(now, calls, b.blockedUntil) IN
         {now, usage.blockedUntil} \cup After(usage.last, Spacing)
         \cup AtLimit(usage.second, SecondLimit, usage.oldestSecond + Second)
         \cup AtLimit(usage.hour, HourLimit, usage.oldestHour + Hour)
         \cup (IF low THEN NextDiscovery(usage) ELSE {})
           = Bounds(now, low, Seen(b, hour), hour)
<1> DEFINE hour == Since(calls, now - Hour)
           second == Since(hour, now - Second)
           scans == Discoveries(hour)
           usage == UsageOf(now, calls, b.blockedUntil)
<1>1. hour \in SUBSET Calls /\ IsFiniteSet(hour)
  BY WindowsAreFinite
<1>2. IsFiniteSet(second) /\ IsFiniteSet(scans) /\ Since(hour, now - Hour) = hour
  <2>1. IsFiniteSet(second) /\ IsFiniteSet(scans)
    <3> HIDE DEF hour
    <3> QED  BY <1>1, WindowsAreFinite
  <2>2. Since(hour, now - Hour) = hour
    BY DEF Since
  <2> QED  BY <2>1, <2>2
<1>3. /\ usage.blockedUntil = b.blockedUntil
      /\ usage.last = Last(hour) /\ usage.lastDiscovery = Last(scans)
      /\ usage.second = Cardinality(second) /\ usage.oldestSecond = OldestOrZero(second)
      /\ usage.hour = Cardinality(hour) /\ usage.oldestHour = OldestOrZero(hour)
      /\ usage.discoveryHour = Cardinality(scans)
      /\ usage.oldestDiscovery = OldestOrZero(scans)
  BY DEF UsageOf
<1> HIDE DEF usage, hour, second, scans
<1>4. /\ AtLimit(usage.second, SecondLimit, usage.oldestSecond + Second)
           = Reopens(second, SecondLimit, Second)
      /\ AtLimit(usage.hour, HourLimit, usage.oldestHour + Hour)
           = Reopens(hour, HourLimit, Hour)
      /\ AtLimit(usage.hour, HourLimit - MonitoringReserve, usage.oldestHour + Hour)
           = Reopens(hour, HourLimit - MonitoringReserve, Hour)
      /\ AtLimit(usage.discoveryHour, DiscoveryLimit, usage.oldestDiscovery + Hour)
           = Reopens(scans, DiscoveryLimit, Hour)
  BY <1>1, <1>2, <1>3, AtLimitReopens, Constants
<1>5. Bounds(now, low, Seen(b, hour), hour)
        = {now, b.blockedUntil} \cup After(Last(hour), Spacing)
          \cup Reopens(second, SecondLimit, Second)
          \cup Reopens(hour, HourLimit, Hour)
          \cup (IF low
                THEN After(Last(scans), DiscoverySpacing)
                     \cup Reopens(scans, DiscoveryLimit, Hour)
                     \cup Reopens(hour, HourLimit - MonitoringReserve, Hour)
                ELSE {})
  BY <1>2, Zenon DEF Bounds, Seen, second, scans
<1>6. NextDiscovery(usage)
        = After(Last(scans), DiscoverySpacing)
          \cup Reopens(scans, DiscoveryLimit, Hour)
          \cup Reopens(hour, HourLimit - MonitoringReserve, Hour)
  BY <1>3, <1>4 DEF NextDiscovery
<1> QED
  BY <1>3, <1>4, <1>5, <1>6 DEF usage, hour

\* Both rows name the same earliest instant.
LEMMA SeenIsAsEarly ==
  ASSUME NEW now \in Nat, NEW low \in BOOLEAN, NEW b \in Rows,
         NEW calls \in SUBSET Calls, IsFiniteSet(calls), RowTracks(b, calls, now)
  PROVE  LET hour == Since(calls, now - Hour)
             B == Bounds(now, low, b, hour) IN
         /\ HasLatest(B)
         /\ Latest(B) = Latest(Bounds(now, low, Seen(b, hour), hour))
<1> DEFINE hour == Since(calls, now - Hour)
           c == Seen(b, hour)
           B == Bounds(now, low, b, hour)
           D == Bounds(now, low, c, hour)
<1>1. \/ Last(hour) = b.lastStarted
      \/ Last(hour) = {} /\ \A t \in b.lastStarted : t \in Nat /\ t + Hour =< now
  BY LastIsTracked DEF RowTracks
<1>2. \/ Last(Discoveries(hour)) = b.lastDiscovery
      \/ /\ Last(Discoveries(hour)) = {}
         /\ \A t \in b.lastDiscovery : t \in Nat /\ t + Hour =< now
  <2>1. Discoveries(hour) = Since(Discoveries(calls), now - Hour)
    BY DEF Discoveries, Since
  <2>2. Discoveries(calls) \in SUBSET Calls
    BY DEF Discoveries
  <2>3. Tracks(b.lastDiscovery, Discoveries(calls), now)
    BY DEF RowTracks
  <2> HIDE DEF hour
  <2> QED  BY <2>1, <2>2, <2>3, LastIsTracked
<1>3. /\ c.lastStarted = Last(hour) /\ c.lastDiscovery = Last(Discoveries(hour))
      /\ c.blockedUntil = b.blockedUntil /\ b.blockedUntil \in Nat
  BY DEF Seen, Rows
<1>4. /\ Stamp(b.lastStarted) /\ Stamp(b.lastDiscovery)
      /\ Stamp(c.lastStarted) /\ Stamp(c.lastDiscovery)
  BY <1>1, <1>2, <1>3 DEF RowTracks, Tracks, Stamp
<1>5. c \in Rows
  BY <1>3, <1>4 DEF Seen, Rows, Stamp
<1>6. hour \in SUBSET Calls /\ IsFiniteSet(hour)
  BY WindowsAreFinite
<1> HIDE DEF c
<1>7. HasLatest(B) /\ HasLatest(D)
  <2> HIDE DEF hour
  <2> QED  BY <1>4, <1>5, <1>6, BoundsHaveLatest
<1>8. Dominates(D, B)
  <2>1. /\ \A t \in b.lastStarted : t + Spacing =< now \/ t \in c.lastStarted
        /\ \A t \in b.lastDiscovery : t + DiscoverySpacing =< now \/ t \in c.lastDiscovery
    BY <1>1, <1>2, <1>3, Constants
  <2>2. now =< now /\ b.blockedUntil =< c.blockedUntil
    BY <1>3
  <2> QED  BY <1>5, <2>1, <2>2, BoundsMoveOn
<1>9. Dominates(B, D)
  <2>1. c.lastStarted \subseteq b.lastStarted /\ c.lastDiscovery \subseteq b.lastDiscovery
    BY <1>1, <1>2, <1>3
  <2>2. now =< now /\ c.blockedUntil =< b.blockedUntil
    BY <1>3
  <2> QED  BY <1>5, <2>1, <2>2, BoundsMoveOn
<1> HIDE DEF B, D
<1>10. Latest(B) =< Latest(D) /\ Latest(D) =< Latest(B)
  BY <1>7, <1>8, <1>9, DominatedIsEarlier
<1>11. Latest(B) \in Nat /\ Latest(D) \in Nat
  BY <1>7, LatestIsGreatest
<1>12. Latest(B) = Latest(D)
  BY <1>10, <1>11
<1> QED
  BY <1>7, <1>12 DEF B, D, c

LEMMA TracksAgree == BudgetInv /\ TracksInv => CopiesAgree
<1> SUFFICES ASSUME BudgetInv, TracksInv, known, NEW low \in BOOLEAN
             PROVE  decideBudget(clock, low, UsageOf(clock, grants, budget.blockedUntil))
                      = Answer(clock, low, budget, Since(grants, clock - Hour))
  BY DEF CopiesAgree
<1> DEFINE hour == Since(grants, clock - Hour)
           usage == UsageOf(clock, grants, budget.blockedUntil)
           B == Bounds(clock, low, budget, hour)
           n == Latest(B)
<1>1. clock \in Nat /\ budget \in Rows /\ grants \in SUBSET Calls /\ IsFiniteSet(grants)
  <2>1. grants \subseteq granted /\ IsFiniteSet(granted) /\ granted \subseteq Calls
    BY DEF BudgetInv, TypeOK
  <2> QED  BY <2>1, FS_Subset DEF BudgetInv, TypeOK
<1>2. RowTracks(budget, grants, clock)
  BY DEF TracksInv
<1>3. HasLatest(B) /\ n = Latest(Bounds(clock, low, Seen(budget, hour), hour))
  BY <1>1, <1>2, SeenIsAsEarly
<1>4. n = Latest({clock, usage.blockedUntil} \cup After(usage.last, Spacing)
                 \cup AtLimit(usage.second, SecondLimit, usage.oldestSecond + Second)
                 \cup AtLimit(usage.hour, HourLimit, usage.oldestHour + Hour)
                 \cup (IF low THEN NextDiscovery(usage) ELSE {}))
  <2>1. Bounds(clock, low, Seen(budget, hour), hour)
          = {clock, usage.blockedUntil} \cup After(usage.last, Spacing)
            \cup AtLimit(usage.second, SecondLimit, usage.oldestSecond + Second)
            \cup AtLimit(usage.hour, HourLimit, usage.oldestHour + Hour)
            \cup (IF low THEN NextDiscovery(usage) ELSE {})
    BY <1>1, CopyBounds
  <2> HIDE DEF n, hour, usage
  <2> QED  BY <1>3, <2>1
<1>5. Since(hour, clock - Hour) = hour
  BY DEF Since
<1>6. usage.hour = Cardinality(hour) /\ usage.discoveryHour = Cardinality(Discoveries(hour))
  BY DEF UsageOf
<1>7. clock \in B
  BY DEF Bounds
<1> HIDE DEF B, hour, usage
<1>8. n \in Nat /\ n \in B /\ \A t \in B : t =< n
  BY <1>3, LatestIsGreatest
<1>9. IsGranted(clock, low, budget, hour) = (n =< clock)
  <2>1. IsGranted(clock, low, budget, hour) <=> \A t \in B : t =< clock
    BY DEF IsGranted, B
  <2>2. \A t \in B : t \in Nat
    BY <1>3 DEF HasLatest
  <2>3. (\A t \in B : t =< clock) <=> n =< clock
    BY <1>1, <1>8, <2>2
  <2>4. IsGranted(clock, low, budget, hour) \in BOOLEAN
    BY DEF IsGranted
  <2> QED  BY <2>1, <2>3, <2>4
<1>10. Positive(n - clock) = n - clock
  BY <1>1, <1>7, <1>8 DEF Positive
<1> HIDE DEF n
<1>11. decideBudget(clock, low, usage) =
         [granted |-> n =< clock, retryAfter |-> n - clock,
          remainingHour |-> Positive(HourLimit - usage.hour - Count(n =< clock)),
          remainingDiscovery |->
            Positive(Lesser(
              DiscoveryLimit - usage.discoveryHour - Count(n =< clock /\ low),
              HourLimit - MonitoringReserve - usage.hour - Count(n =< clock)))]
  BY <1>4, <1>10, Zenon DEF decideBudget
<1>12. Answer(clock, low, budget, hour) =
         [granted |-> n =< clock, retryAfter |-> n - clock,
          remainingHour |-> Positive(HourLimit - Cardinality(hour) - Count(n =< clock)),
          remainingDiscovery |->
            Positive(Lesser(
              DiscoveryLimit - Cardinality(Discoveries(hour)) - Count(n =< clock /\ low),
              HourLimit - MonitoringReserve - Cardinality(hour) - Count(n =< clock)))]
  BY <1>5, <1>9, Zenon DEF Answer, n, B
<1> QED
  BY <1>6, <1>11, <1>12, Zenon DEF usage, hour

----------------------------------------------------------------------------
(* Theorems *)

LEMMA TracksInvariant == Spec => [](BudgetInv /\ TracksInv)
<1>1. Spec => []BudgetInv
  BY BudgetInvariant, PTL
<1>2. BudgetInv /\ TracksInv /\ [Next]_vars => TracksInv'
  BY TracksStep
<1> QED
  BY <1>1, <1>2, InitTracks, PTL DEF Spec

\* decideBudget, fed with the table's grants, gives the answer of the function
\* questrade_acquire_request_budget, for any limits and widths.
THEOREM TheCopiesAgree == Spec => []CopiesAgree
BY TracksInvariant, TracksAgree, PTL

\* The instant a refusal names (v_next, retry_after_ms) only moves forward:
\* neither time, nor pruning, nor another process's grant or embargo opens the
\* allowance earlier than a caller was told.
THEOREM RefusalsNeverTooLate == Spec => RetryIsNeverTooLate
<1> DEFINE MovesOn == known => \A discovery \in BOOLEAN :
                         EarliestStart(discovery)' >= EarliestStart(discovery)
           Inv == BudgetInv /\ TracksInv
<1>1. Inv /\ Inv' /\ [Next]_vars => [MovesOn]_vars
  <2> SUFFICES ASSUME Inv, Inv', Next, known, NEW low \in BOOLEAN
               PROVE  EarliestStart(low)' >= EarliestStart(low)
    BY Zenon
  <2> QED  BY RetryStep
<1>2. Spec => []Inv
  BY TracksInvariant
<1> QED
  BY <1>1, <1>2, PTL DEF Spec, RetryIsNeverTooLate

============================================================================
