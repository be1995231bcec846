-------------------------- MODULE RateLimiterProofs --------------------------
(* The scheduler of broker requests, for any requests, slots and discovery   *)
(* queue. A loop of the drain is one lemma (Drained), entered by a kick or   *)
(* after the await of a grant; every step is then one StepShape, over which  *)
(* the invariant is shown once.                                              *)
EXTENDS RateLimiter, FiniteSetTheorems, TLAPS

\* The life of a request.
States == {"new", "queued", "running"} \cup Settled

\* The queue, the states and the count of dispatched operations agree.
Agree(q, st, busy) ==
  /\ DOMAIN q \subseteq Requests /\ q \in [DOMAIN q -> Nat]
  /\ st \in [Requests -> States]
  /\ \A r \in Requests : r \in DOMAIN q <=> st[r] = "queued"
  /\ busy \in Nat /\ busy = Cardinality({r \in Requests : st[r] = "running"})

\* What scheduleWake leaves behind: a free slot or a deadline has its timer.
TimerIsSet(q, busy, timer) ==
  /\ timer \in {"none", "expiry", "any"}
  /\ busy < MaxConcurrent /\ DOMAIN q # {} => timer = "any"
  /\ DOMAIN q \cap CanExpire # {} => timer # "none"

\* Marking requests changes their state and no other.
LEMMA MarkIsTyped ==
  ASSUME NEW st \in [Requests -> States], NEW S, NEW label \in States
  PROVE  /\ Mark(st, S, label) \in [Requests -> States]
         /\ \A r \in Requests : Mark(st, S, label)[r] = IF r \in S THEN label ELSE st[r]
BY DEF Mark

\* Requests can be counted.
LEMMA FiniteRequests ==
  ASSUME NEW S, S \subseteq Requests
  PROVE  IsFiniteSet(S) /\ Cardinality(S) \in Nat
BY RequestsAssumption, FS_Subset, FS_CardinalityType

\* More running: going requests join those that run.
LEMMA MoreRunning ==
  ASSUME NEW A, A \subseteq Requests, NEW B, B \subseteq Requests, A \cap B = {}
  PROVE  Cardinality(A \cup B) = Cardinality(A) + Cardinality(B)
<1>1. IsFiniteSet(A) /\ IsFiniteSet(B) /\ Cardinality(A) \in Nat /\ Cardinality(B) \in Nat
  BY FiniteRequests
<1>2. Cardinality(A \cup B) = Cardinality(A) + Cardinality(B) - Cardinality(A \cap B)
  BY <1>1, FS_Union
<1>3. Cardinality(A \cap B) = 0
  BY FS_EmptySet
<1>4. QED BY <1>1, <1>2, <1>3

\* scheduleWake sets the timer that the queue and the slots call for.
LEMMA TimerGetsSet ==
  ASSUME NEW q, NEW busy
  PROVE  TimerIsSet(q, busy, ScheduleWake(q, busy))
BY DEF TimerIsSet, ScheduleWake

\* The drain loop rejects the expired, dispatches token redemptions into free
\* slots and either awaits a grant with a slot free or leaves its timer set.
LEMMA Drained ==
  ASSUME NEW q, NEW st, NEW busy, NEW later, NEW others,
         Agree(q, st, busy), busy <= MaxConcurrent,
         DrainFrom(q, st, busy, later, others)
  PROVE  /\ Agree(queue', state', active') /\ active' <= MaxConcurrent
         /\ \A r \in Requests :
              \/ state'[r] = st[r]
              \/ st[r] = "queued" /\ state'[r] = "expired"
              \/ st[r] = "queued" /\ state'[r] = "running" /\ IsAuth(r)
         /\ \/ acquiring' = others /\ TimerIsSet(queue', active', wake')
            \/ /\ \E r \in DOMAIN queue' : acquiring' = others \cup {r}
               /\ active' < MaxConcurrent /\ wake' = "none"
<1> DEFINE lapsed == DOMAIN q \cap expired
           swept  == DOMAIN q \ lapsed
           tokens == {r \in swept : Eligible(r, later) /\ IsAuth(r)}
           free   == IF busy < MaxConcurrent THEN MaxConcurrent - busy ELSE 0
           number == Cardinality(tokens)
           marked == Mark(st, lapsed, "expired")
<1>1. PICK going \in SUBSET tokens :
        /\ Cardinality(going) = IF number <= free THEN number ELSE free
        /\ queue' = Only(q, swept \ going)
        /\ state' = Mark(marked, going, "running")
        /\ active' = busy + Cardinality(going)
        /\ \/ /\ active' < MaxConcurrent
              /\ \E r \in swept \ going : acquiring' = others \cup {r}
              /\ wake' = "none"
           \/ /\ acquiring' = others
              /\ wake' = ScheduleWake(queue', active')
  <2>1. PICK going \in SUBSET tokens :
          LET left    == swept \ going
              ready   == {r \in left : Eligible(r, later)}
              running == busy + Cardinality(going)
          IN /\ Cardinality(going) = IF number <= free THEN number ELSE free
             /\ \A r \in going, s \in tokens \ going : Before(q, r, s)
             /\ queue' = Only(q, left)
             /\ state' = Mark(Mark(st, lapsed, "expired"), going, "running")
             /\ active' = running
             /\ \/ /\ running < MaxConcurrent
                   /\ \E r \in ready :
                        /\ \A s \in ready \ {r} : Before(q, r, s)
                        /\ acquiring' = others \cup {r}
                   /\ wake' = "none"
                \/ /\ running >= MaxConcurrent \/ ready = {}
                   /\ acquiring' = others
                   /\ wake' = ScheduleWake(queue', running)
    BY DEF DrainFrom
  <2>2. QED BY <2>1
<1>2. /\ DOMAIN q \subseteq Requests /\ q \in [DOMAIN q -> Nat]
      /\ st \in [Requests -> States]
      /\ \A r \in Requests : r \in DOMAIN q <=> st[r] = "queued"
      /\ busy \in Nat /\ busy = Cardinality({r \in Requests : st[r] = "running"})
  BY DEF Agree
<1>3. going \subseteq tokens /\ tokens \subseteq swept /\ swept \subseteq DOMAIN q
      /\ \A r \in going : IsAuth(r)
  OBVIOUS
<1>4. /\ state' \in [Requests -> States]
      /\ \A r \in Requests : state'[r] = IF r \in going THEN "running"
                                         ELSE IF r \in lapsed THEN "expired" ELSE st[r]
  <2>1. /\ marked \in [Requests -> States]
        /\ \A r \in Requests : marked[r] = IF r \in lapsed THEN "expired" ELSE st[r]
    <3>1. "expired" \in States
      BY DEF States, Settled
    <3>2. QED BY <1>2, <3>1, MarkIsTyped
  <2> HIDE DEF marked
  <2>2. "running" \in States
    BY DEF States
  <2>3. QED BY <1>1, <2>1, <2>2, MarkIsTyped
<1>5. queue' \in [DOMAIN queue' -> Nat] /\ DOMAIN queue' = swept \ going
  BY <1>1, <1>2 DEF Only
<1>6. Cardinality(going) \in Nat /\ number \in Nat
  BY <1>2, <1>3, FiniteRequests
<1>7. active' = Cardinality({r \in Requests : state'[r] = "running"}) /\ active' \in Nat
  <2>1. {r \in Requests : state'[r] = "running"}
          = {r \in Requests : st[r] = "running"} \cup going
    BY <1>2, <1>3, <1>4
  <2>2. {r \in Requests : st[r] = "running"} \cap going = {}
    BY <1>2, <1>3
  <2>3. going \subseteq Requests
    BY <1>2, <1>3
  <2> HIDE DEF tokens, number, free
  <2>4. Cardinality({r \in Requests : st[r] = "running"} \cup going)
          = Cardinality({r \in Requests : st[r] = "running"}) + Cardinality(going)
    BY <2>2, <2>3, MoreRunning
  <2>5. active' = busy + Cardinality(going)
    BY <1>1
  <2>6. QED BY <1>2, <1>6, <2>1, <2>4, <2>5
<1>8. active' <= MaxConcurrent
  <2> HIDE DEF tokens, number
  <2>1. free \in Nat /\ Cardinality(going) <= free
    BY <1>1, <1>2, <1>6, LimitsAssumption
  <2>2. QED BY <1>1, <1>2, <1>6, <2>1, LimitsAssumption
<1>9. Agree(queue', state', active')
  <2>1. DOMAIN queue' \subseteq Requests
    BY <1>2, <1>5
  <2>2. \A r \in Requests : r \in DOMAIN queue' <=> state'[r] = "queued"
    BY <1>2, <1>3, <1>4, <1>5
  <2>3. QED BY <1>4, <1>5, <1>7, <2>1, <2>2 DEF Agree
<1>10. ASSUME NEW r \in Requests
       PROVE  \/ state'[r] = st[r]
              \/ st[r] = "queued" /\ state'[r] = "expired"
              \/ st[r] = "queued" /\ state'[r] = "running" /\ IsAuth(r)
  BY <1>2, <1>3, <1>4
<1>11. \/ acquiring' = others /\ TimerIsSet(queue', active', wake')
       \/ /\ \E r \in DOMAIN queue' : acquiring' = others \cup {r}
          /\ active' < MaxConcurrent /\ wake' = "none"
  BY <1>1, <1>5, TimerGetsSet
<1>12. QED BY <1>8, <1>9, <1>10, <1>11

\* So does kick, unless a loop is draining: then it only edits.
LEMMA Kicked ==
  ASSUME NEW q, NEW st, NEW busy,
         Agree(q, st, busy), busy <= MaxConcurrent, Kick(q, st, busy)
  PROVE  /\ Agree(queue', state', active') /\ active' <= MaxConcurrent
         /\ \A r \in Requests :
              \/ state'[r] = st[r]
              \/ st[r] = "queued" /\ state'[r] = "expired"
              \/ st[r] = "queued" /\ state'[r] = "running" /\ IsAuth(r)
         /\ \/ acquiring' = {} /\ TimerIsSet(queue', active', wake')
            \/ /\ \E r \in DOMAIN queue' : acquiring' = {r}
               /\ active' < MaxConcurrent /\ wake' = "none"
            \/ /\ acquiring # {} /\ acquiring' = acquiring /\ state' = st
               /\ active' = busy /\ wake' = "none"
<1>1. CASE acquiring = {}
  <2>1. DrainFrom(q, st, busy, deferred, {})
    BY <1>1 DEF Kick
  <2>2. \A r : {} \cup {r} = {r}
    OBVIOUS
  <2>3. QED BY <2>1, <2>2, Drained
<1>2. CASE acquiring # {}
  BY <1>2 DEF Kick
<1>3. QED BY <1>1, <1>2

\* What one step may do to a request: nothing, or a move forward; only a
\* token redemption or the request that is granted gets to run.
Moves(r, granted) ==
  \/ state'[r] = state[r]
  \/ state[r] = "new" /\ state'[r] \in {"queued", "full", "cancelled", "expired"}
  \/ state[r] = "queued" /\ state'[r] \in {"cancelled", "expired", "failed"}
  \/ /\ state[r] \in {"new", "queued"} /\ state'[r] = "running"
     /\ IsAuth(r) \/ granted = {r}
  \/ state[r] = "running" /\ state'[r] = "completed"

\* The loop awaits one grant, with a slot free, for a request that is not
\* charged yet and was not dispatched behind its back.
AcquiringWaits ==
  /\ acquiring \subseteq Requests /\ \A r, s \in acquiring : r = s
  /\ acquiring # {} => active < MaxConcurrent
  /\ \A r \in acquiring :
       charged[r] = 0 /\ state[r] \in {"queued", "cancelled", "expired", "failed"}
\* While no loop runs the timer is set.
TimersAreSet ==
  acquiring = {} => TimerIsSet(queue, active, wake)
\* The rest of the types.
TimesTyped ==
  /\ wake \in {"none", "expiry", "any"}
  /\ deferred \subseteq Requests /\ expired \subseteq CanExpire
  /\ embargo \in BOOLEAN /\ blocking \in BOOLEAN /\ sequence \in Nat

\* The inductive invariant.
IInv ==
  /\ Agree(queue, state, active) /\ active <= MaxConcurrent
  /\ TimesTyped /\ charged \in [Requests -> Nat]
  /\ AcquiringWaits /\ TimersAreSet /\ EveryCallIsCharged

\* What every step does, as far as the invariant is concerned; granted is the
\* request charged by it, if any.
StepShape(granted) ==
  /\ Agree(queue', state', active') /\ active' <= MaxConcurrent
  /\ \A r \in Requests : Moves(r, granted)
  /\ granted \subseteq acquiring
  /\ \A r \in granted : state'[r] # "queued"
  /\ charged' = [r \in Requests |-> IF r \in granted THEN charged[r] + 1 ELSE charged[r]]
  /\ \/ acquiring' = {} /\ TimerIsSet(queue', active', wake')
     \/ /\ \E r \in DOMAIN queue' : acquiring' = {r}
        /\ active' < MaxConcurrent
     \/ /\ acquiring' = acquiring /\ active' <= active /\ granted = {}
        /\ acquiring = {} => TimerIsSet(queue', active', wake')
        /\ \A r \in acquiring : state'[r] = state[r] \/ state'[r] = "cancelled"
  /\ wake' \in {"none", "expiry", "any"}

\* A step of that shape keeps the invariant and every outcome.
LEMMA ShapePreserves ==
  ASSUME IInv, TimesTyped', NEW granted, StepShape(granted)
  PROVE  IInv' /\ \A r \in Requests : state[r] \in Settled => state'[r] = state[r]
<1>1. charged \in [Requests -> Nat] /\ active \in Nat /\ active' \in Nat
      /\ state \in [Requests -> States] /\ state' \in [Requests -> States]
  BY DEF IInv, StepShape, Agree
<1>2. charged' \in [Requests -> Nat]
      /\ \A r \in Requests : charged'[r] = IF r \in granted THEN charged[r] + 1 ELSE charged[r]
  BY <1>1 DEF StepShape
<1>3. granted \subseteq Requests
      /\ \A r \in granted : charged[r] = 0
           /\ state[r] \in {"queued", "cancelled", "expired", "failed"}
  BY DEF IInv, StepShape, AcquiringWaits
<1>4. ASSUME NEW r \in Requests
      PROVE  /\ Rank[r] > 0 /\ state'[r] \in {"running", "completed"} => charged'[r] = 1
             /\ state'[r] \in {"queued", "new", "full"} => charged'[r] = 0
  <2>1. /\ Rank[r] > 0 /\ state[r] \in {"running", "completed"} => charged[r] = 1
        /\ state[r] \in {"queued", "new", "full"} => charged[r] = 0
    BY DEF IInv, EveryCallIsCharged
  <2>2. CASE r \in granted
    <3>1. charged'[r] = 1 /\ state'[r] # "queued"
      BY <1>2, <1>3, <2>2 DEF StepShape
    <3>2. state'[r] \notin {"new", "full"}
      BY <1>3, <2>2 DEF StepShape, Moves
    <3>3. QED BY <3>1, <3>2
  <2>3. CASE r \notin granted
    <3>1. charged'[r] = charged[r]
      BY <1>2, <2>3
    <3>2. Moves(r, granted) /\ granted # {r}
      BY <2>3 DEF StepShape
    <3>3. Rank[r] > 0 => ~IsAuth(r)
      BY DEF IsAuth
    <3>4. QED BY <2>1, <3>1, <3>2, <3>3 DEF Moves
  <2>4. QED BY <2>2, <2>3
<1>5. EveryCallIsCharged'
  BY <1>4 DEF EveryCallIsCharged
<1>6. AcquiringWaits' /\ TimersAreSet'
  <2>1. CASE acquiring' = {} /\ TimerIsSet(queue', active', wake')
    BY <2>1 DEF AcquiringWaits, TimersAreSet
  <2>2. CASE active' < MaxConcurrent /\ \E r \in DOMAIN queue' : acquiring' = {r}
    <3>1. PICK r \in DOMAIN queue' : acquiring' = {r}
      BY <2>2
    <3>2. r \in Requests /\ state'[r] = "queued"
      BY DEF StepShape, Agree
    <3>3. charged'[r] = 0
      BY <1>4, <3>2
    <3>4. QED BY <2>2, <3>1, <3>2, <3>3 DEF AcquiringWaits, TimersAreSet
  <2>3. CASE /\ acquiring' = acquiring /\ active' <= active /\ granted = {}
             /\ acquiring = {} => TimerIsSet(queue', active', wake')
             /\ \A r \in acquiring : state'[r] = state[r] \/ state'[r] = "cancelled"
    <3>1. \A r \in Requests : charged'[r] = charged[r]
      BY <1>2, <2>3
    <3>2. active < MaxConcurrent => active' < MaxConcurrent
      BY <1>1, <2>3, LimitsAssumption
    <3>3. QED BY <2>3, <3>1, <3>2 DEF IInv, AcquiringWaits, TimersAreSet
  <2>4. QED BY <2>1, <2>2, <2>3 DEF StepShape
<1>7. \A r \in Requests : state[r] \in Settled => state'[r] = state[r]
  BY DEF StepShape, Moves, Settled
<1>8. QED BY <1>2, <1>5, <1>6, <1>7 DEF IInv, StepShape

\* kick() after an edit of the queue that cancels, appends or completes.
LEMMA KickShapes ==
  ASSUME IInv, NEW q, NEW st, NEW busy, Agree(q, st, busy), busy <= active,
         \A r \in Requests :
           \/ st[r] = state[r]
           \/ state[r] = "new" /\ st[r] = "queued"
           \/ state[r] = "queued" /\ st[r] = "cancelled"
           \/ state[r] = "running" /\ st[r] = "completed",
         Kick(q, st, busy), charged' = charged
  PROVE  StepShape({})
<1>1. busy <= MaxConcurrent /\ active \in Nat /\ busy \in Nat
  BY LimitsAssumption DEF IInv, Agree
<1>2. /\ Agree(queue', state', active') /\ active' <= MaxConcurrent
      /\ \A r \in Requests :
           \/ state'[r] = st[r]
           \/ st[r] = "queued" /\ state'[r] = "expired"
           \/ st[r] = "queued" /\ state'[r] = "running" /\ IsAuth(r)
      /\ \/ acquiring' = {} /\ TimerIsSet(queue', active', wake')
         \/ /\ \E r \in DOMAIN queue' : acquiring' = {r}
            /\ active' < MaxConcurrent /\ wake' = "none"
         \/ /\ acquiring # {} /\ acquiring' = acquiring /\ state' = st
            /\ active' = busy /\ wake' = "none"
  BY <1>1, Kicked
<1>3. \A r \in Requests : Moves(r, {})
  BY <1>2 DEF Moves
<1>4. charged' = [r \in Requests |-> IF r \in {} THEN charged[r] + 1 ELSE charged[r]]
  BY DEF IInv
<1>5. \A r \in acquiring : r \in Requests /\ state[r] \in {"queued", "cancelled", "expired", "failed"}
  BY DEF IInv, AcquiringWaits
<1>6. state' = st => \A r \in acquiring : state'[r] = state[r] \/ state'[r] = "cancelled"
  BY <1>5
<1>7. wake' \in {"none", "expiry", "any"}
  BY <1>2 DEF TimerIsSet
<1>8. QED BY <1>2, <1>3, <1>4, <1>6, <1>7 DEF StepShape

\* The loop going on after its await.
LEMMA GoingOnShapes ==
  ASSUME IInv, NEW g \in acquiring, NEW granted, granted \in {{}, {g}},
         NEW q, NEW st, NEW busy, NEW later, Agree(q, st, busy), busy <= MaxConcurrent,
         \A r \in Requests :
           \/ st[r] = state[r]
           \/ r = g /\ state[r] = "queued" /\ st[r] \in {"expired", "failed"}
           \/ r = g /\ granted = {g} /\ state[r] = "queued" /\ st[r] = "running",
         granted = {g} => st[g] # "queued",
         GoOn(g, q, st, busy, later),
         charged' = [r \in Requests |-> IF r \in granted THEN charged[r] + 1 ELSE charged[r]]
  PROVE  StepShape(granted)
<1>1. acquiring \ {g} = {} /\ g \in Requests
  BY DEF IInv, AcquiringWaits
<1>2. DrainFrom(q, st, busy, later, {})
  BY <1>1 DEF GoOn
<1>3. \A r : {} \cup {r} = {r}
  OBVIOUS
<1>4. /\ Agree(queue', state', active') /\ active' <= MaxConcurrent
      /\ \A r \in Requests :
           \/ state'[r] = st[r]
           \/ st[r] = "queued" /\ state'[r] = "expired"
           \/ st[r] = "queued" /\ state'[r] = "running" /\ IsAuth(r)
      /\ \/ acquiring' = {} /\ TimerIsSet(queue', active', wake')
         \/ /\ \E r \in DOMAIN queue' : acquiring' = {r}
            /\ active' < MaxConcurrent /\ wake' = "none"
  BY <1>2, <1>3, Drained
<1>5. \A r \in Requests : Moves(r, granted)
  BY <1>4 DEF Moves
<1>6. \A r \in granted : state'[r] # "queued"
  BY <1>1, <1>4
<1>7. wake' \in {"none", "expiry", "any"}
  BY <1>4 DEF TimerIsSet
<1>8. QED BY <1>4, <1>5, <1>6, <1>7 DEF StepShape

\* The dispatched requests of a state.
Runs(st) == {r \in Requests : st[r] = "running"}

\* Waiting requests leave the queue for an outcome.
LEMMA Removed ==
  ASSUME IInv, NEW S, NEW label \in Settled
  PROVE  /\ Agree(Without(queue, S), Mark(state, S \cap Waiting, label), active)
         /\ \A r \in Requests :
              \/ Mark(state, S \cap Waiting, label)[r] = state[r]
              \/ /\ r \in S /\ state[r] = "queued"
                 /\ Mark(state, S \cap Waiting, label)[r] = label
<1> DEFINE R == S \cap Waiting
<1> DEFINE st == Mark(state, R, label)
           q == Without(queue, S)
<1>1. /\ Waiting \subseteq Requests /\ queue \in [Waiting -> Nat]
      /\ state \in [Requests -> States]
      /\ \A r \in Requests : r \in Waiting <=> state[r] = "queued"
      /\ active \in Nat /\ active = Cardinality(Runs(state))
  BY DEF IInv, Agree, Runs, Waiting
<1>2. st \in [Requests -> States]
      /\ \A r \in Requests : st[r] = IF r \in R THEN label ELSE state[r]
  <2>1. label \in States
    BY DEF States
  <2>2. QED BY <1>1, <2>1, MarkIsTyped
<1>3. DOMAIN q = Waiting \ S /\ q \in [Waiting \ S -> Nat]
  BY <1>1 DEF Without, Only
<1> HIDE DEF st, q
<1>4. label # "queued" /\ label # "running"
  BY DEF Settled
<1>5. Runs(st) = Runs(state)
  BY <1>1, <1>2, <1>4 DEF Runs
<1>6. \A r \in Requests : r \in DOMAIN q <=> st[r] = "queued"
  BY <1>1, <1>2, <1>3, <1>4
<1>7. Agree(q, st, active)
  BY <1>1, <1>2, <1>3, <1>5, <1>6 DEF Agree, Runs, Waiting
<1>8. \A r \in Requests : \/ st[r] = state[r]
                          \/ r \in S /\ state[r] = "queued" /\ st[r] = label
  BY <1>1, <1>2
<1>9. QED BY <1>7, <1>8 DEF st, q

\* A new request joins the queue.
LEMMA Appended ==
  ASSUME IInv, NEW r \in Requests, state[r] = "new"
  PROVE  /\ Agree(Pushed(r), Mark(state, {r}, "queued"), active)
         /\ \A x \in Requests :
              \/ Mark(state, {r}, "queued")[x] = state[x]
              \/ state[x] = "new" /\ Mark(state, {r}, "queued")[x] = "queued"
<1> DEFINE st == Mark(state, {r}, "queued")
           q == Pushed(r)
<1>1. /\ Waiting \subseteq Requests /\ queue \in [Waiting -> Nat]
      /\ state \in [Requests -> States]
      /\ \A x \in Requests : x \in Waiting <=> state[x] = "queued"
      /\ active \in Nat /\ active = Cardinality(Runs(state)) /\ sequence \in Nat
  BY DEF IInv, Agree, Runs, TimesTyped, Waiting
<1>2. st \in [Requests -> States]
      /\ \A x \in Requests : st[x] = IF x = r THEN "queued" ELSE state[x]
  BY <1>1, MarkIsTyped DEF States
<1>3. DOMAIN q = Waiting \cup {r} /\ q \in [Waiting \cup {r} -> Nat]
  BY <1>1 DEF Pushed
<1> HIDE DEF st, q
<1>4. Runs(st) = Runs(state)
  BY <1>1, <1>2 DEF Runs
<1>5. Agree(q, st, active)
  BY <1>1, <1>2, <1>3, <1>4 DEF Agree, Runs, Waiting
<1>6. QED BY <1>2, <1>5 DEF st, q

\* The granted request leaves the queue for a slot.
LEMMA Dispatched ==
  ASSUME IInv, NEW r \in Waiting
  PROVE  /\ Agree(Without(queue, {r}), Mark(state, {r}, "running"), active + 1)
         /\ \A x \in Requests : Mark(state, {r}, "running")[x] = IF x = r THEN "running" ELSE state[x]
<1> DEFINE st == Mark(state, {r}, "running")
           q == Without(queue, {r})
<1>1. /\ Waiting \subseteq Requests /\ queue \in [Waiting -> Nat]
      /\ state \in [Requests -> States]
      /\ \A x \in Requests : x \in Waiting <=> state[x] = "queued"
      /\ active \in Nat /\ active = Cardinality(Runs(state))
  BY DEF IInv, Agree, Runs, Waiting
<1>2. st \in [Requests -> States]
      /\ \A x \in Requests : st[x] = IF x = r THEN "running" ELSE state[x]
  BY <1>1, MarkIsTyped DEF States
<1>3. DOMAIN q = Waiting \ {r} /\ q \in [Waiting \ {r} -> Nat]
  BY <1>1 DEF Without, Only
<1> HIDE DEF st, q
<1>4. Runs(st) = Runs(state) \cup {r} /\ Runs(state) \cap {r} = {}
      /\ Runs(state) \subseteq Requests /\ {r} \subseteq Requests
  BY <1>1, <1>2 DEF Runs
<1>5. Cardinality(Runs(st)) = active + 1
  <2>1. Cardinality({r}) = 1
    BY FS_Singleton
  <2>2. Cardinality(Runs(state) \cup {r}) = Cardinality(Runs(state)) + Cardinality({r})
    BY <1>4, MoreRunning
  <2>3. QED BY <1>1, <1>4, <2>1, <2>2
<1>6. Agree(q, st, active + 1)
  BY <1>1, <1>2, <1>3, <1>5 DEF Agree, Runs, Waiting
<1>7. QED BY <1>2, <1>6 DEF st, q

\* A settled operation gives its slot back.
LEMMA Settling ==
  ASSUME IInv, NEW r \in Running
  PROVE  /\ Agree(queue, Mark(state, {r}, "completed"), active - 1) /\ active - 1 <= active
         /\ \A x \in Requests :
              \/ Mark(state, {r}, "completed")[x] = state[x]
              \/ state[x] = "running" /\ Mark(state, {r}, "completed")[x] = "completed"
<1> DEFINE st == Mark(state, {r}, "completed")
<1>1. /\ Waiting \subseteq Requests /\ queue \in [Waiting -> Nat]
      /\ state \in [Requests -> States]
      /\ \A x \in Requests : x \in Waiting <=> state[x] = "queued"
      /\ active \in Nat /\ active = Cardinality(Runs(state))
  BY DEF IInv, Agree, Runs, Waiting
<1>2. st \in [Requests -> States]
      /\ \A x \in Requests : st[x] = IF x = r THEN "completed" ELSE state[x]
  BY <1>1, MarkIsTyped DEF States, Settled
<1> HIDE DEF st
<1>3. r \in Requests /\ state[r] = "running"
  BY DEF Running
<1>4. Runs(state) = Runs(st) \cup {r} /\ Runs(st) \cap {r} = {}
      /\ Runs(st) \subseteq Requests /\ {r} \subseteq Requests
  BY <1>2, <1>3 DEF Runs
<1>5. active = Cardinality(Runs(st)) + 1 /\ Cardinality(Runs(st)) \in Nat
  <2>1. Cardinality({r}) = 1
    BY FS_Singleton
  <2>2. Cardinality(Runs(st) \cup {r}) = Cardinality(Runs(st)) + Cardinality({r})
    BY <1>4, MoreRunning
  <2>3. Cardinality(Runs(st)) \in Nat
    BY <1>4, FiniteRequests
  <2>4. QED BY <1>1, <1>4, <2>1, <2>2, <2>3
<1>6. active - 1 \in Nat /\ active - 1 = Cardinality(Runs(st)) /\ active - 1 <= active
  BY <1>1, <1>5
<1>7. Agree(queue, st, active - 1)
  BY <1>1, <1>2, <1>3, <1>6 DEF Agree, Runs, Waiting
<1>8. \A x \in Requests : \/ st[x] = state[x]
                          \/ state[x] = "running" /\ st[x] = "completed"
  BY <1>2, <1>3
<1>9. QED BY <1>6, <1>7, <1>8 DEF st

\* What a step gives: its shape and the types of its instants.
Shaped == TimesTyped' /\ \E granted \in SUBSET Requests : StepShape(granted)

\* Charges that stay are charges that nobody got.
LEMMA NothingGranted ==
  ASSUME IInv, charged' = charged
  PROVE  charged' = [r \in Requests |-> IF r \in {} THEN charged[r] + 1 ELSE charged[r]]
BY DEF IInv

\* A step without a grant.
LEMMA UngrantedShapes ==
  ASSUME StepShape({}), TimesTyped'
  PROVE  Shaped
BY DEF Shaped

\* Draining touches no instant.
LEMMA KickedTimes ==
  ASSUME IInv, NEW granted, StepShape(granted), UNCHANGED <<deferred, expired, embargo>>,
         blocking' \in BOOLEAN, sequence' \in Nat
  PROVE  TimesTyped'
BY DEF IInv, TimesTyped, StepShape

\* schedule(), admitted or rejected.
LEMMA ScheduleShapes ==
  ASSUME IInv, NEW r \in Requests, Schedule(r)
  PROVE  Shaped
<1>1. UNCHANGED <<deferred, expired, embargo, blocking>> /\ charged' = charged /\ state[r] = "new"
      /\ blocking \in BOOLEAN /\ sequence \in Nat
  BY DEF Schedule, timeVars, IInv, TimesTyped
<1>2. CASE Kick(Pushed(r), Mark(state, {r}, "queued"), active) /\ sequence' = sequence + 1
  <2>1. active <= active
    BY DEF IInv, Agree
  <2>2. StepShape({})
    BY <1>1, <1>2, <2>1, Appended, KickShapes
  <2>3. QED BY <1>1, <1>2, <2>2, KickedTimes, UngrantedShapes
<1>3. CASE /\ \/ state' = Mark(state, {r}, "full")
              \/ state' = Mark(state, {r}, "cancelled")
              \/ state' = Mark(state, {r}, "expired")
           /\ UNCHANGED <<queue, sequence, active, acquiring, wake>>
  <2>1. PICK label \in {"full", "cancelled", "expired"} : state' = Mark(state, {r}, label)
    BY <1>3
  <2>2. /\ Waiting \subseteq Requests /\ queue \in [Waiting -> Nat]
        /\ state \in [Requests -> States]
        /\ \A x \in Requests : x \in Waiting <=> state[x] = "queued"
        /\ active \in Nat /\ active = Cardinality(Runs(state))
    BY DEF IInv, Agree, Runs, Waiting
  <2>3. label \in States
    BY DEF States, Settled
  <2>4. state' \in [Requests -> States]
        /\ \A x \in Requests : state'[x] = IF x = r THEN label ELSE state[x]
    BY <2>1, <2>2, <2>3, MarkIsTyped
  <2>5. Runs(state') = Runs(state)
    BY <1>1, <2>4 DEF Runs
  <2>6. Agree(queue', state', active')
    BY <1>1, <1>3, <2>2, <2>4, <2>5 DEF Agree, Runs, Waiting
  <2>7. \A x \in Requests : Moves(x, {})
    BY <1>1, <2>4 DEF Moves
  <2>8. \A x \in acquiring : x # r /\ x \in Requests
    BY <1>1 DEF IInv, AcquiringWaits
  <2>9. StepShape({})
    BY <1>1, <1>3, <2>2, <2>4, <2>6, <2>7, <2>8, NothingGranted
       DEF StepShape, IInv, TimersAreSet, TimesTyped
  <2>10. QED BY <1>1, <1>3, <2>9, KickedTimes, UngrantedShapes
<1>4. QED BY <1>2, <1>3 DEF Schedule

\* Cancellation of one request or of all discovery.
LEMMA LeavingShapes ==
  ASSUME IInv, (\E r \in Requests : Abort(r)) \/ CancelPendingDiscovery
  PROVE  Shaped
<1>1. PICK S : Kick(Without(queue, S), Mark(state, S \cap Waiting, "cancelled"), active)
  <2>1. ASSUME NEW r \in Requests, Abort(r)
        PROVE  Kick(Without(queue, {r}), Mark(state, {r} \cap Waiting, "cancelled"), active)
    <3>1. {r} \cap Waiting = {r}
      BY <2>1 DEF Abort
    <3>2. QED BY <2>1, <3>1 DEF Abort
  <2>2. ASSUME CancelPendingDiscovery
        PROVE  Kick(Without(queue, Discovery), Mark(state, Discovery \cap Waiting, "cancelled"), active)
    <3>1. DiscoveryQueued = Discovery \cap Waiting
      BY DEF DiscoveryQueued
    <3>2. QED BY <2>2, <3>1 DEF CancelPendingDiscovery
  <2>3. QED BY <2>1, <2>2
<1>2. /\ UNCHANGED <<deferred, expired, embargo, blocking, sequence>> /\ charged' = charged
      /\ blocking \in BOOLEAN /\ sequence \in Nat
  BY DEF Abort, CancelPendingDiscovery, timeVars, IInv, TimesTyped
<1>3. "cancelled" \in Settled
  BY DEF Settled
<1>4. active <= active
  BY DEF IInv, Agree
<1>5. /\ Agree(Without(queue, S), Mark(state, S \cap Waiting, "cancelled"), active)
      /\ \A r \in Requests :
           \/ Mark(state, S \cap Waiting, "cancelled")[r] = state[r]
           \/ /\ r \in S /\ state[r] = "queued"
              /\ Mark(state, S \cap Waiting, "cancelled")[r] = "cancelled"
  BY <1>1, <1>3, Removed
<1>6. StepShape({})
  BY <1>1, <1>2, <1>4, <1>5, KickShapes
<1>7. QED BY <1>2, <1>6, KickedTimes, UngrantedShapes

\* The loop after its await: the request is looked up again, so it is
\* dispatched only if it still waits, and charged whatever became of it.
LEMMA AnswerShapes ==
  ASSUME IInv, NEW r \in Requests, BudgetAnswers(r)
  PROVE  Shaped
<1>1. /\ r \in acquiring /\ UNCHANGED <<expired, embargo, blocking, sequence>>
      /\ blocking \in BOOLEAN /\ sequence \in Nat
  BY DEF BudgetAnswers, Granted, Denied, BudgetFails, timeVars, IInv, TimesTyped
<1>2. /\ Agree(queue, state, active) /\ active \in Nat /\ active < MaxConcurrent
      /\ active <= MaxConcurrent /\ active + 1 <= MaxConcurrent
      /\ Waiting \subseteq Requests
      /\ \A x \in Requests : x \in Waiting <=> state[x] = "queued"
  <2>1. Agree(queue, state, active) /\ active < MaxConcurrent
    BY <1>1 DEF IInv, AcquiringWaits
  <2>2. active \in Nat /\ Waiting \subseteq Requests
        /\ \A x \in Requests : x \in Waiting <=> state[x] = "queued"
    BY <2>1 DEF Agree, Waiting
  <2>3. QED BY <2>1, <2>2, LimitsAssumption
<1>3. "expired" \in Settled /\ "failed" \in Settled
  BY DEF Settled
<1>4. CASE Granted(r)
  <2>1. /\ charged' = [charged EXCEPT ![r] = @ + 1]
        /\ UNCHANGED deferred
    BY <1>4 DEF Granted, timeVars
  <2>2. charged' = [x \in Requests |-> IF x \in {r} THEN charged[x] + 1 ELSE charged[x]]
    BY <2>1 DEF IInv
  <2>3. CASE r \notin Waiting
    <3>1. GoOn(r, queue, state, active, deferred)
      BY <1>4, <2>3 DEF Granted, StillQueued
    <3>2. state[r] # "queued"
      BY <1>2, <2>3
    <3>3. StepShape({r})
      BY <1>1, <1>2, <2>2, <3>1, <3>2, GoingOnShapes
    <3>4. QED BY <1>1, <2>1, <3>3, KickedTimes DEF Shaped
  <2>4. CASE r \in Waiting /\ r \in expired
    <3>1. GoOn(r, Without(queue, {r}), Mark(state, {r}, "expired"), active, deferred)
      BY <1>4, <2>4 DEF Granted, StillQueued
    <3>2. {r} = {r} \cap Waiting
      BY <2>4
    <3>3. /\ Agree(Without(queue, {r}), Mark(state, {r}, "expired"), active)
          /\ \A x \in Requests :
               \/ Mark(state, {r}, "expired")[x] = state[x]
               \/ x \in {r} /\ state[x] = "queued" /\ Mark(state, {r}, "expired")[x] = "expired"
      <4>1. /\ Agree(Without(queue, {r}), Mark(state, {r} \cap Waiting, "expired"), active)
            /\ \A x \in Requests :
                 \/ Mark(state, {r} \cap Waiting, "expired")[x] = state[x]
                 \/ /\ x \in {r} /\ state[x] = "queued"
                    /\ Mark(state, {r} \cap Waiting, "expired")[x] = "expired"
        BY <1>3, Removed
      <4>2. QED BY <3>2, <4>1
    <3>4. Mark(state, {r}, "expired")[r] # "queued"
      BY DEF Mark
    <3>5. StepShape({r})
      BY <1>1, <1>2, <2>2, <3>1, <3>3, <3>4, GoingOnShapes
    <3>6. QED BY <1>1, <2>1, <3>5, KickedTimes DEF Shaped
  <2>5. CASE r \in Waiting /\ r \notin expired
    <3>1. GoOn(r, Without(queue, {r}), Mark(state, {r}, "running"), active + 1, deferred)
      BY <1>4, <2>5 DEF Granted, StillQueued
    <3>2. /\ Agree(Without(queue, {r}), Mark(state, {r}, "running"), active + 1)
          /\ \A x \in Requests : Mark(state, {r}, "running")[x] = IF x = r THEN "running" ELSE state[x]
      BY <2>5, Dispatched
    <3>3. Mark(state, {r}, "running")[r] # "queued" /\ state[r] = "queued"
      BY <1>2, <2>5, <3>2
    <3>4. StepShape({r})
      BY <1>1, <1>2, <2>2, <3>1, <3>2, <3>3, GoingOnShapes
    <3>5. QED BY <1>1, <2>1, <3>4, KickedTimes DEF Shaped
  <2>6. QED BY <2>3, <2>4, <2>5
<1>5. CASE Denied(r)
  <2>1. /\ GoOn(r, queue, state, active, deferred') /\ charged' = charged
        /\ deferred' \subseteq Requests
    BY <1>2, <1>5 DEF Denied, SameClass, IInv, TimesTyped
  <2>2. charged' = [x \in Requests |-> IF x \in {} THEN charged[x] + 1 ELSE charged[x]]
    BY <2>1, NothingGranted
  <2>3. {r} # {}
    OBVIOUS
  <2>4. StepShape({})
    BY <1>1, <1>2, <2>1, <2>2, <2>3, GoingOnShapes
  <2>5. TimesTyped'
    BY <1>1, <2>1, <2>4 DEF IInv, TimesTyped, StepShape
  <2>6. QED BY <2>4, <2>5, UngrantedShapes
<1>6. CASE BudgetFails(r)
  <2>1. /\ GoOn(r, Without(queue, {r}), Mark(state, {r} \cap Waiting, "failed"), active, deferred)
        /\ charged' = charged /\ UNCHANGED deferred
    BY <1>6 DEF BudgetFails, timeVars
  <2>2. charged' = [x \in Requests |-> IF x \in {} THEN charged[x] + 1 ELSE charged[x]]
    BY <2>1, NothingGranted
  <2>3. /\ Agree(Without(queue, {r}), Mark(state, {r} \cap Waiting, "failed"), active)
        /\ \A x \in Requests :
             \/ Mark(state, {r} \cap Waiting, "failed")[x] = state[x]
             \/ /\ x \in {r} /\ state[x] = "queued"
                /\ Mark(state, {r} \cap Waiting, "failed")[x] = "failed"
    BY <1>3, Removed
  <2>4. {r} # {}
    OBVIOUS
  <2>5. StepShape({})
    BY <1>1, <1>2, <2>1, <2>2, <2>3, <2>4, GoingOnShapes
  <2>6. QED BY <1>1, <2>1, <2>5, KickedTimes, UngrantedShapes
<1>7. QED BY <1>4, <1>5, <1>6 DEF BudgetAnswers

\* The finally clause of an operation.
LEMMA SettlingShapes ==
  ASSUME IInv, NEW r \in Requests, OperationSettles(r)
  PROVE  Shaped
<1>1. /\ r \in Running /\ Kick(queue, Mark(state, {r}, "completed"), active - 1)
      /\ UNCHANGED <<deferred, expired, embargo, blocking, sequence>> /\ charged' = charged
      /\ blocking \in BOOLEAN /\ sequence \in Nat
  BY DEF OperationSettles, timeVars, IInv, TimesTyped
<1>2. /\ Agree(queue, Mark(state, {r}, "completed"), active - 1) /\ active - 1 <= active
      /\ \A x \in Requests :
           \/ Mark(state, {r}, "completed")[x] = state[x]
           \/ state[x] = "running" /\ Mark(state, {r}, "completed")[x] = "completed"
  BY <1>1, Settling
<1>3. StepShape({})
  BY <1>1, <1>2, KickShapes
<1>4. QED BY <1>1, <1>3, KickedTimes, UngrantedShapes

\* The timer, and the end of observeLimit.
LEMMA BareKickShapes ==
  ASSUME IInv, Kick(queue, state, active), charged' = charged
  PROVE  StepShape({})
<1>1. Agree(queue, state, active) /\ active <= active
  BY DEF IInv, Agree
<1>2. QED BY <1>1, KickShapes

\* Time and headers leave queue, slots and timer alone.
LEMMA IdlingShapes ==
  ASSUME IInv, Idling, charged' = charged
  PROVE  StepShape({}) /\ sequence' = sequence /\ wake' = wake
<1>1. UNCHANGED <<queue, sequence, state, active, acquiring, wake>>
  BY DEF Idling
<1>2. Agree(queue', state', active') /\ active' <= MaxConcurrent /\ active' <= active
  BY <1>1 DEF IInv, Agree
<1>3. \A r \in Requests : Moves(r, {})
  BY <1>1 DEF Moves
<1>4. charged' = [x \in Requests |-> IF x \in {} THEN charged[x] + 1 ELSE charged[x]]
  BY NothingGranted
<1>5. QED BY <1>1, <1>2, <1>3, <1>4 DEF StepShape, IInv, TimersAreSet, TimesTyped

\* Every step has that shape.
LEMMA StepsShape ==
  ASSUME IInv, Next
  PROVE  Shaped
<1>1. CASE \E r \in Requests : Schedule(r) \/ BudgetAnswers(r) \/ OperationSettles(r)
  BY <1>1, ScheduleShapes, AnswerShapes, SettlingShapes
<1>2. CASE (\E r \in Requests : Abort(r)) \/ CancelPendingDiscovery
  BY <1>2, LeavingShapes
<1>3. ASSUME NEW r \in Requests, BecomesAvailable(r) \/ Expires(r) PROVE Shaped
  <2>1. Idling /\ charged' = charged
    BY <1>3 DEF BecomesAvailable, Expires
  <2>2. StepShape({}) /\ sequence' = sequence /\ wake' = wake
    BY <2>1, IdlingShapes
  <2>3. TimesTyped'
    BY <1>3, <2>2 DEF BecomesAvailable, Expires, IInv, TimesTyped
  <2>4. QED BY <2>2, <2>3, UngrantedShapes
<1>4. CASE ObserveLimit \/ EmbargoEnds
  <2>1. Idling /\ charged' = charged
    BY <1>4 DEF ObserveLimit, EmbargoEnds
  <2>2. StepShape({}) /\ sequence' = sequence /\ wake' = wake
    BY <2>1, IdlingShapes
  <2>3. TimesTyped'
    BY <1>4, <2>2 DEF ObserveLimit, EmbargoEnds, IInv, TimesTyped
  <2>4. QED BY <2>2, <2>3, UngrantedShapes
<1>5. CASE BlockEnds \/ WakeFires
  <2>1. /\ Kick(queue, state, active) \/ Idling
        /\ UNCHANGED <<deferred, expired, embargo, sequence>> /\ charged' = charged
        /\ blocking' \in BOOLEAN /\ sequence \in Nat
    BY <1>5 DEF BlockEnds, WakeFires, timeVars, IInv, TimesTyped
  <2>2. StepShape({})
    BY <2>1, BareKickShapes, IdlingShapes
  <2>3. QED BY <2>1, <2>2, KickedTimes, UngrantedShapes
<1>6. QED BY <1>1, <1>2, <1>3, <1>4, <1>5 DEF Next

\* An empty queue satisfies the invariant.
LEMMA Initially == Init => IInv
<1> SUFFICES ASSUME Init PROVE IInv
  OBVIOUS
<1>1. DOMAIN queue = {} /\ queue \in [{} -> Nat] /\ state \in [Requests -> States]
      /\ \A r \in Requests : state[r] = "new"
  BY DEF Init, States
<1>2. {r \in Requests : state[r] = "running"} = {}
  BY <1>1
<1>3. active = 0 /\ Cardinality({}) = 0
  BY FS_EmptySet DEF Init
<1>4. Agree(queue, state, active) /\ active <= MaxConcurrent
  <2>1. active = Cardinality({r \in Requests : state[r] = "running"})
    BY <1>2, <1>3
  <2>2. 0 \in Nat /\ 0 <= MaxConcurrent
    BY LimitsAssumption
  <2>3. queue \in [DOMAIN queue -> Nat] /\ \A r \in Requests : r \in DOMAIN queue <=> state[r] = "queued"
    BY <1>1
  <2>4. QED BY <1>1, <1>3, <2>1, <2>2, <2>3 DEF Agree
<1>5. TimesTyped /\ charged \in [Requests -> Nat]
  BY DEF Init, TimesTyped
<1>6. AcquiringWaits /\ TimersAreSet /\ EveryCallIsCharged
  BY <1>1 DEF Init, AcquiringWaits, TimersAreSet, TimerIsSet, EveryCallIsCharged
<1>7. QED BY <1>4, <1>5, <1>6 DEF IInv

\* Every step keeps the invariant and every outcome.
LEMMA StepPreserves ==
  ASSUME IInv, [Next]_vars
  PROVE  IInv' /\ \A r \in Requests : state[r] \in Settled => state'[r] = state[r]
<1>1. CASE Next
  <2>1. PICK granted \in SUBSET Requests : StepShape(granted) /\ TimesTyped'
    BY <1>1, StepsShape DEF Shaped
  <2>2. QED BY <2>1, ShapePreserves
<1>2. CASE UNCHANGED vars
  <2>1. UNCHANGED <<queue, sequence, state, active, acquiring, wake, deferred, expired, embargo>>
        /\ UNCHANGED <<blocking, charged>>
    BY <1>2 DEF vars
  <2>2. QED BY <2>1 DEF IInv, Agree, TimesTyped, AcquiringWaits, TimersAreSet, TimerIsSet, EveryCallIsCharged
<1>3. QED BY <1>1, <1>2

\* The invariant holds: the argument behind the theorems that follow.
THEOREM Inductive == Spec => []IInv
<1>1. Init => IInv
  BY Initially
<1>2. IInv /\ [Next]_vars => IInv'
  BY StepPreserves
<1>3. QED BY <1>1, <1>2, PTL DEF Spec

\* Queue, states, counts, timers and instants are always well formed.
THEOREM LimiterTypes == Spec => []TypeOK
<1>1. IInv => TypeOK
  BY DEF IInv, Agree, TimesTyped, AcquiringWaits, TypeOK, Waiting, States
<1>2. QED BY <1>1, Inductive, PTL

\* The broker never sees more calls at once than maxConcurrent, and active counts
\* them, though the loop awaits a grant between check and dispatch.
THEOREM SlotsHold == Spec => []BoundedConcurrency
<1>1. IInv => BoundedConcurrency
  BY DEF IInv, Agree, BoundedConcurrency, Running
<1>2. QED BY <1>1, Inductive, PTL

\* Every market-data call the broker sees was charged once; a request that waits
\* or was turned away was not charged.
THEOREM ChargesMatchCalls == Spec => []EveryCallIsCharged
<1>1. IInv => EveryCallIsCharged
  BY DEF IInv
<1>2. QED BY <1>1, Inductive, PTL

\* Whenever drain() has ended with a request that could go or has expired, the
\* wake timer is due.
THEOREM WakeupsAreKept == Spec => []NoLostWakeup
<1>1. IInv => NoLostWakeup
  <2>1. ASSUME IInv, acquiring = {} PROVE /\ active < MaxConcurrent /\ Waiting # {} => wake = "any"
                                          /\ Waiting \cap expired # {} => wake # "none"
    BY <2>1 DEF IInv, TimersAreSet, TimerIsSet, TimesTyped, Waiting
  <2>2. QED BY <2>1 DEF NoLostWakeup, WakeDue
<1>2. QED BY <1>1, Inductive, PTL

\* A caller gets one outcome: what rejectQueued or a settled operation answered
\* is never answered again.
THEOREM OutcomesAreFinal == Spec => OneOutcome
<1>1. IInv /\ [Next]_vars =>
        [\A r \in Requests : state[r] \in Settled => state'[r] = state[r]]_vars
  BY StepPreserves
<1>2. QED BY <1>1, Inductive, PTL DEF Spec, OneOutcome

=============================================================================
