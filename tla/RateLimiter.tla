----------------------------- MODULE RateLimiter ----------------------------
(***************************************************************************)
(* The scheduler of broker requests (questrade/rate-limiter.ts): one queue *)
(* by priority, one drain loop that asks the durable budget for a grant    *)
(* before each dispatch, a wake-up timer, cancellation, expiry and the     *)
(* embargo a response header imposes.                                      *)
(*                                                                         *)
(* JavaScript runs a synchronous stretch to its end: a step runs the drain *)
(* loop up to its end or to the await of budget.acquire, the only place    *)
(* where it gives way.  Instants are abstracted to what the code compares  *)
(* them with: a request is expired or not, deferred (availableAt in the    *)
(* future) or not, and the embargo is in force or over.                    *)
(***************************************************************************)
EXTENDS Naturals, FiniteSets

CONSTANTS
  Requests,        \* each is scheduled at most once
  Rank,            \* Requests -> 0..4: P0..P4, P4 for discovery
  Discovery,       \* requests scheduled with the discovery option
  Expiring,        \* other requests scheduled with an expiresAt
  MaxConcurrent,   \* maxConcurrent
  DiscoveryQueue   \* BROKER_BUDGET.discoveryQueue

ASSUME RequestsAssumption == IsFiniteSet(Requests)
ASSUME RankAssumption ==
  /\ Rank \in [Requests -> 0 .. 4]
  /\ Discovery \subseteq Requests /\ Expiring \subseteq Requests
  /\ \A r \in Discovery : Rank[r] = 4
ASSUME LimitsAssumption ==
  MaxConcurrent \in Nat \ {0} /\ DiscoveryQueue \in Nat

VARIABLES
  queue,      \* the waiting requests, each with its sequence number
  sequence,   \* the next sequence number
  state,      \* of each request, with its outcome once it is settled
  active,     \* operations dispatched and not settled
  acquiring,  \* the request the loop awaits a grant for; {}: not draining
  wake,       \* what wakeTimer waits for: "none", "expiry", or "any" instant
  deferred,   \* requests whose availableAt lies ahead
  expired,    \* requests whose expiresAt has passed
  embargo,    \* blockedUntilMs lies ahead
  blocking,   \* observeLimit awaits budget.block
  charged     \* history: grants spent on each request

vars == <<queue, sequence, state, active, acquiring, wake, deferred, expired, embargo,
          blocking, charged>>
timeVars == <<deferred, expired, embargo>>

Settled == {"completed", "failed", "cancelled", "expired", "full"}
Waiting == DOMAIN queue
DiscoveryQueued == Waiting \cap Discovery
Running == {r \in Requests : state[r] = "running"}
CanExpire == Discovery \cup Expiring

\* Mutant: quotes (P1) are dispatched like token redemptions.
IsUrgent(r) == Rank[r] <= 1

\* P0: token redemption, outside the market-data budget.
IsAuth(r) == Rank[r] = 0

TypeOK ==
  /\ Waiting \subseteq Requests /\ queue \in [Waiting -> Nat] /\ sequence \in Nat
  /\ state \in [Requests -> {"new", "queued", "running"} \cup Settled]
  /\ active \in Nat
  /\ acquiring \subseteq Requests
  /\ wake \in {"none", "expiry", "any"}
  /\ deferred \subseteq Requests /\ expired \subseteq CanExpire
  /\ embargo \in BOOLEAN /\ blocking \in BOOLEAN
  /\ charged \in [Requests -> Nat]

Init ==
  /\ queue = [r \in {} |-> 0] /\ sequence = 0
  /\ state = [r \in Requests |-> "new"]
  /\ active = 0
  /\ acquiring = {}
  /\ wake = "none"
  /\ deferred = {} /\ expired = {}
  /\ embargo = FALSE /\ blocking = FALSE
  /\ charged = [r \in Requests |-> 0]

-----------------------------------------------------------------------------
(* The queue and the drain loop.                                           *)

\* queue.sort: by priority, then by sequence number.
Before(q, r, s) ==
  \/ Rank[r] < Rank[s]
  \/ Rank[r] = Rank[s] /\ q[r] < q[s]

Only(q, S) == [r \in S |-> q[r]]
Without(q, S) == Only(q, DOMAIN q \ S)

Mark(st, S, label) == [r \in Requests |-> IF r \in S THEN label ELSE st[r]]

\* Mutant: the embargo holds for token redemptions too.
EligibleUnlessEmbargoed(r, later) == r \notin later /\ ~embargo

\* availableAt and blockedUntilMs, given the deferred requests.
Eligible(r, later) == r \notin later /\ (IsAuth(r) \/ ~embargo)

\* Mutant: no timer is set while nothing may be dispatched.
WakeIfReady(q, busy) ==
  IF busy < MaxConcurrent /\ \E r \in DOMAIN q : Eligible(r, deferred) THEN "any"
  ELSE "none"

\* scheduleWake(): the earliest instant at which a waiting request expires
\* or, with a slot free, may be dispatched.
ScheduleWake(q, busy) ==
  IF DOMAIN q = {} THEN "none"
  ELSE IF busy < MaxConcurrent THEN "any"
  ELSE IF DOMAIN q \cap CanExpire # {} THEN "expiry"
  ELSE "none"

\* drain() from queue q, states st and active count busy: expired requests
\* are rejected, token redemptions fill the free slots, and if one is left
\* the loop awaits a grant for the first other request that may go.
\* (others: what other loops await; there is never another one.)
DrainFrom(q, st, busy, later, others) ==
  LET lapsed == DOMAIN q \cap expired
      swept  == DOMAIN q \ lapsed
      tokens == {r \in swept : Eligible(r, later) /\ IsAuth(r)}
      free   == IF busy < MaxConcurrent THEN MaxConcurrent - busy ELSE 0
      number == Cardinality(tokens)
  IN \E going \in SUBSET tokens :
       LET left    == swept \ going
           ready   == {r \in left : Eligible(r, later)}
           running == busy + Cardinality(going)
       IN /\ Cardinality(going) = IF number <= free THEN number ELSE free
          /\ \A r \in going, s \in tokens \ going : Before(q, r, s)
          /\ queue' = Only(q, left)
          /\ state' = Mark(Mark(st, lapsed, "expired"), going, "running")
          /\ active' = running
          /\ \/ /\ running < MaxConcurrent
                /\ \E r \in ready :
                     /\ \A s \in ready \ {r} : Before(q, r, s)
                     /\ acquiring' = others \cup {r}
                /\ wake' = "none"
             \/ /\ running >= MaxConcurrent \/ ready = {}
                /\ acquiring' = others
                /\ wake' = ScheduleWake(queue', running)

\* Mutant: a second loop starts while the first awaits its grant.
KickAlways(q, st, busy) == DrainFrom(q, st, busy, deferred, acquiring)

\* kick(): the timer is cleared; a loop starts unless one is draining.
Kick(q, st, busy) ==
  IF acquiring = {} THEN DrainFrom(q, st, busy, deferred, {})
  ELSE /\ queue' = q /\ state' = st /\ active' = busy
       /\ wake' = "none" /\ UNCHANGED acquiring

\* queue.push of a new request.
Pushed(r) == [q \in Waiting \cup {r} |-> IF q = r THEN sequence ELSE queue[q]]

\* The discovery requests waiting are bounded.
Admitted(r) == r \in Discovery => Cardinality(DiscoveryQueued) < DiscoveryQueue

\* schedule(); "cancelled" and "expired": its signal is already aborted or
\* its deadline already past.
Schedule(r) ==
  /\ state[r] = "new"
  /\ \/ /\ Admitted(r)
        /\ Kick(Pushed(r), Mark(state, {r}, "queued"), active)
        /\ sequence' = sequence + 1
     \/ /\ \/ ~Admitted(r) /\ state' = Mark(state, {r}, "full")
           \/ state' = Mark(state, {r}, "cancelled")
           \/ r \in CanExpire /\ state' = Mark(state, {r}, "expired")
        /\ UNCHANGED <<queue, sequence, active, acquiring, wake>>
  /\ UNCHANGED <<timeVars, blocking, charged>>

\* The abort listener of a request: rejectQueued, then kick.  ("cancelled"
\* stands for both codes of signalAbortCode.)
Abort(r) ==
  /\ r \in Waiting
  /\ Kick(Without(queue, {r}), Mark(state, {r}, "cancelled"), active)
  /\ UNCHANGED <<timeVars, sequence, blocking, charged>>

CancelPendingDiscovery ==
  /\ DiscoveryQueued # {}
  /\ Kick(Without(queue, Discovery), Mark(state, DiscoveryQueued, "cancelled"), active)
  /\ UNCHANGED <<timeVars, sequence, blocking, charged>>

\* Mutant: the request is not looked up again after the await.
AlwaysWanted(r) == TRUE

\* queue.includes(request), after the await.
StillQueued(r) == r \in Waiting

\* The loop goes on after the await of a grant for r.
GoOn(r, q, st, busy, later) == DrainFrom(q, st, busy, later, acquiring \ {r})

\* budget.acquire answers granted, and the charge is kept: the request is
\* dispatched unless it left the queue or expired meanwhile.
Granted(r) ==
  /\ r \in acquiring
  /\ charged' = [charged EXCEPT ![r] = @ + 1]
  /\ LET rest == Without(queue, {r}) IN
     IF ~StillQueued(r) THEN GoOn(r, queue, state, active, deferred)
     ELSE IF r \in expired THEN GoOn(r, rest, Mark(state, {r}, "expired"), active, deferred)
     ELSE GoOn(r, rest, Mark(state, {r}, "running"), active + 1, deferred)
  /\ UNCHANGED <<timeVars, sequence, blocking>>

\* The waiting requests a refusal of r defers: those of its class.
SameClass(r) ==
  {q \in Waiting : ~IsAuth(q) /\ (q \in Discovery <=> r \in Discovery)}

\* It answers not granted.
Denied(r) ==
  /\ r \in acquiring
  /\ deferred' = IF r \in Waiting THEN deferred \cup SameClass(r) ELSE deferred
  /\ GoOn(r, queue, state, active, deferred')
  /\ UNCHANGED <<sequence, expired, embargo, blocking, charged>>

\* It rejects: a request still in the queue fails without a dispatch.
BudgetFails(r) ==
  /\ r \in acquiring
  /\ GoOn(r, Without(queue, {r}), Mark(state, {r} \cap Waiting, "failed"), active,
          deferred)
  /\ UNCHANGED <<timeVars, sequence, blocking, charged>>

\* A dispatched operation settles, with a value or an error ("completed"
\* stands for both); its finally clause kicks the loop.
OperationSettles(r) ==
  /\ r \in Running
  /\ Kick(queue, Mark(state, {r}, "completed"), active - 1)
  /\ UNCHANGED <<timeVars, sequence, blocking, charged>>

-----------------------------------------------------------------------------
(* Response headers and time.                                              *)

Idling == UNCHANGED <<queue, sequence, state, active, acquiring, wake>>

\* observeLimit: the embargo holds at once, and is then made durable.
ObserveLimit ==
  /\ Running # {} /\ ~blocking
  /\ embargo' = TRUE
  /\ blocking' = TRUE
  /\ Idling /\ UNCHANGED <<deferred, expired, charged>>

\* budget.block answers, and kicks, or rejects.
BlockEnds ==
  /\ blocking
  /\ blocking' = FALSE
  /\ Kick(queue, state, active) \/ Idling
  /\ UNCHANGED <<timeVars, sequence, charged>>

EmbargoEnds ==
  /\ embargo
  /\ embargo' = FALSE
  /\ Idling /\ UNCHANGED <<deferred, expired, blocking, charged>>

BecomesAvailable(r) ==
  /\ r \in deferred
  /\ deferred' = deferred \ {r}
  /\ Idling /\ UNCHANGED <<expired, embargo, blocking, charged>>

\* Mutant: requests without a deadline expire too.
ExpiresAnything(r) ==
  /\ r \in Waiting \ expired
  /\ expired' = expired \cup {r}
  /\ Idling /\ UNCHANGED <<deferred, embargo, blocking, charged>>

Expires(r) ==
  /\ r \in Waiting \cap CanExpire /\ r \notin expired
  /\ expired' = expired \cup {r}
  /\ Idling /\ UNCHANGED <<deferred, embargo, blocking, charged>>

\* An instant wakeTimer waits for has come.
WakeDue ==
  \/ wake # "none" /\ Waiting \cap expired # {}
  \/ wake = "any" /\ \E r \in Waiting : Eligible(r, deferred)

WakeFires ==
  /\ WakeDue
  /\ Kick(queue, state, active)
  /\ UNCHANGED <<timeVars, sequence, blocking, charged>>

BudgetAnswers(r) == Granted(r) \/ Denied(r) \/ BudgetFails(r)

Next ==
  \/ \E r \in Requests :
       \/ Schedule(r) \/ BudgetAnswers(r) \/ OperationSettles(r)
       \/ Abort(r) \/ BecomesAvailable(r) \/ Expires(r)
  \/ CancelPendingDiscovery
  \/ ObserveLimit \/ BlockEnds \/ EmbargoEnds \/ WakeFires

Spec == Init /\ [][Next]_vars

\* A timer that is due fires, a database call and a broker call (15 s) end,
\* and a fixed deadline passes.  No fairness on the end of the embargo, on
\* availableAt or on what the budget answers.
FairSpec ==
  /\ Spec
  /\ WF_vars(WakeFires)
  /\ \A r \in Requests :
       WF_vars(BudgetAnswers(r)) /\ WF_vars(OperationSettles(r)) /\ WF_vars(Expires(r))

-----------------------------------------------------------------------------
(* Properties.                                                             *)

\* The broker never sees more calls at once than maxConcurrent, although the
\* loop awaits a grant between its check of active and the dispatch.
BoundedConcurrency == active = Cardinality(Running) /\ active <= MaxConcurrent

\* A caller gets one outcome: what was settled is never dispatched or
\* settled again (a cancellation against a grant in flight).
OneOutcome ==
  [][\A r \in Requests : state[r] \in Settled => state'[r] = state[r]]_vars

\* Every market-data call the broker sees was charged once to the durable
\* budget; only requests that were cancelled or expired waste a charge.
EveryCallIsCharged ==
  \A r \in Requests :
    /\ Rank[r] > 0 /\ state[r] \in {"running", "completed"} => charged[r] = 1
    /\ state[r] \in {"queued", "new", "full"} => charged[r] = 0

\* No wake-up is lost: while no loop runs and a slot is free, a request that
\* could go, or that has expired, has a timer due.
NoLostWakeup ==
  acquiring = {} /\ (\/ active < MaxConcurrent /\ \E r \in Waiting : Eligible(r, deferred)
                    \/ Waiting \cap expired # {}) => WakeDue

\* A token redemption reaches the broker whatever the embargo and the budget
\* do to market data.
AuthIsServed ==
  \A r \in Requests : IsAuth(r) => (state[r] = "queued" ~> state[r] # "queued")

\* A discovery request settles whatever the embargo and the budget do: it is
\* served or it expires.
DiscoverySettles ==
  \A r \in Discovery : state[r] = "queued" ~> state[r] \in Settled
=============================================================================
