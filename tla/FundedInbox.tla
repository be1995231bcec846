---------------------------- MODULE FundedInbox ----------------------------
(* The durable fact inbox of one funded paper run and the order service it *)
(* drives: funded-live-adapter.ts builds the facts of a cycle,             *)
(* funded-fact-adapter.ts admits and drains them, funded-order-service.ts  *)
(* and pending-order-repository.ts apply them to orders and reservations.  *)
(* A process may die between the transactions of one fact: its claim, its  *)
(* effect and its acknowledgement.                                         *)
(*                                                                         *)
(* Money is left to FundedLedger: here a reservation is present or absent  *)
(* and a veto is a choice. The run trades one instrument. Instants are     *)
(* numbers; 0 precedes the session.                                        *)
EXTENDS Integers, FiniteSets

CONSTANTS
  Orders,     \* paper signal observations: their ids are the order ids
  MaxTime,    \* bound: the wall clock stops here
  Close,      \* the run's scheduled close
  Validity,   \* how long a signal may still be submitted
  MaxEvents,  \* bound: invalidation events of one setup
  MaxCrashes  \* bound: deaths of the process

ASSUME OrdersAssumption == Orders \subseteq Nat
ASSUME TimeAssumption ==
  /\ MaxTime \in Nat \ {0} /\ MaxEvents \in Nat /\ MaxCrashes \in Nat
  /\ Close \in Nat \ {0} /\ Validity \in Nat \ {0}

VARIABLES
  now,          \* the wall clock
  observed,     \* the signal timestamp of each eligible observation, or 0
  invalidated,  \* INVALIDATED events <<order, timestamp>> of the setups
  outcome,      \* paper_funded_fact: the outcome of every fact in the inbox
  clock,        \* paper_funded_run.clock_at
  inflight,     \* the in-flight barrier: {} or the fact it names
  order,        \* paper_entry_order: [status, submittedAt]
  reserved,     \* the orders with a reservation in the ledger
  lastEvent,    \* the ledger's lastEventAt
  lastQuote,    \* paper_entry_liquidity: the last allocated quote
  run,          \* the run's lifecycle status
  phase,        \* what the holder of the inbox lock does; "idle": nobody
  batch,        \* the facts of the enqueue transaction still to be admitted
  result,       \* the outcome of the effect just committed, in memory
  crashes       \* deaths so far

world   == <<now, observed, invalidated>>
ledger  == <<order, reserved, lastEvent, lastQuote>>
barrier == <<clock, inflight>>
vars == <<world, outcome, barrier, ledger, run, phase, batch, result, crashes>>

Instants == 0..MaxTime
NoOrder  == -1
Live     == {"PENDING", "FILLED"}

(* ------------------------------ The facts ------------------------------ *)

Clock(at)     == [type |-> "CLOCK", at |-> at, order |-> NoOrder, pre |-> FALSE, stale |-> FALSE]
Quote(at)     == [type |-> "QUOTE", at |-> at, order |-> NoOrder, pre |-> FALSE, stale |-> FALSE]
Signal(o, at) == [type |-> "SIGNAL", at |-> at, order |-> o, pre |-> FALSE, stale |-> FALSE]

\* pre: the envelope carries a preSubmissionEventId; stale: it names the
\* expiry of the signal ("stale-signal:<id>") and not an event of the setup.
Cancel(o, at, pre, stale) ==
  [type |-> "CANCEL", at |-> at, order |-> o, pre |-> pre, stale |-> stale]

factPriority(f) ==
  CASE f.type = "CANCEL" -> 0 [] f.type = "CLOCK" -> 1
    [] f.type = "SIGNAL" -> 2 [] f.type = "QUOTE" -> 3

\* The chronological order of the inbox: time, priority, sort key.
Before(f, g) ==
  \/ f.at < g.at
  \/ f.at = g.at /\ factPriority(f) < factPriority(g)
  \/ f.at = g.at /\ factPriority(f) = factPriority(g) /\ f.order < g.order

Inbox      == DOMAIN outcome
Pending    == {f \in Inbox : outcome[f] = "NULL"}
Processed  == Inbox \ Pending
SignalsOf(o) == {f \in Inbox : f.type = "SIGNAL" /\ f.order = o}
CancelsOf(o) == {f \in Inbox : f.type = "CANCEL" /\ f.order = o}
With(out, f, value) == [g \in DOMAIN out \cup {f} |-> IF g = f THEN value ELSE out[g]]

Later(a, b) == IF a >= b THEN a ELSE b
Sooner(a, b) == IF a <= b THEN a ELSE b

Init ==
  /\ now = 1
  /\ observed = [o \in Orders |-> 0]
  /\ invalidated = {}
  /\ outcome = [f \in {} |-> "NULL"]
  /\ clock = 0 /\ inflight = {}
  /\ order = [o \in Orders |-> [status |-> "NONE", submittedAt |-> 0]]
  /\ reserved = {} /\ lastEvent = 0 /\ lastQuote = 0
  /\ run = "RUNNING"
  /\ phase = "idle" /\ batch = {} /\ result = "NULL" /\ crashes = 0

(* ------------------------------ The world ------------------------------ *)
(* Only a cycle reads the observations and the events, at its start, so they *)
(* change between cycles; the clock runs on, because the settlement reads it,*)
(* save in an enqueue, which commutes with it.                               *)

Tick ==
  /\ now < MaxTime /\ phase # "enqueue"
  /\ now' = now + 1
  /\ UNCHANGED <<observed, invalidated, outcome, barrier, ledger, run, phase, batch, result, crashes>>

\* An eligible observation surfaces, possibly long after its signal: the
\* binding of the run waits for the previous one, and the READY events that
\* were missed are reconciled later.
Observe(o) ==
  /\ phase = "idle" /\ observed[o] = 0
  /\ \E at \in 1..now : observed' = [observed EXCEPT ![o] = at]
  /\ UNCHANGED <<now, invalidated, outcome, barrier, ledger, run, phase, batch, result, crashes>>

\* The setup is invalidated at the timestamp of the bar that shows it.
Invalidate(o) ==
  /\ phase = "idle" /\ observed[o] # 0
  /\ Cardinality({e \in invalidated : e[1] = o}) < MaxEvents
  /\ \E at \in {now - 1, now} :
       at >= observed[o] /\ invalidated' = invalidated \cup {<<o, at>>}
  /\ UNCHANGED <<now, observed, outcome, barrier, ledger, run, phase, batch, result, crashes>>

(* ----------------------- A cycle of the live adapter ----------------------- *)

fundedSignalValidityDeadline(o) == Sooner(observed[o] + Validity, Close)

\* Events of the setup that no envelope of the inbox names yet.
findFundedInvalidations(o) ==
  {e[2] : e \in {x \in invalidated :
     x[1] = o /\ \A f \in CancelsOf(o) : f.stale \/ f.at # x[2]}}

Suppressed(o) ==
  IF SignalsOf(o) = {}
  THEN \E f \in CancelsOf(o) : f.pre
  ELSE \E f \in SignalsOf(o) : outcome[f] = "PRE_SUBMISSION_SUPPRESSED"

SubmittedAt(o) ==
  IF SignalsOf(o) = {} THEN now ELSE (CHOOSE f \in SignalsOf(o) : TRUE).at

\* The earliest known invalidation at or before the submission, as a set.
priorInvalidation(o) ==
  LET prior == {at \in findFundedInvalidations(o) : at <= SubmittedAt(o)} IN
  {at \in prior : \A other \in prior : at <= other}

Expired(o) ==
  /\ now >= fundedSignalValidityDeadline(o)
  /\ findFundedInvalidations(o) = {}

StaleCancelsOf(o) == {f \in CancelsOf(o) : f.stale}

\* The new envelopes of one observation. Those it has already are sent again
\* unchanged and recognised by their id.
ObservationEnvelopes(o) ==
  LET deadline == fundedSignalValidityDeadline(o) IN
  IF Suppressed(o) THEN {}
  ELSE IF Expired(o) /\ SignalsOf(o) = {} THEN {Cancel(o, deadline, TRUE, TRUE)}
  ELSE IF Expired(o)
  THEN {Cancel(o, deadline, FALSE, TRUE) : f \in
          IF StaleCancelsOf(o) = {} /\ order[o].status = "PENDING" THEN {o} ELSE {}}
  ELSE IF SignalsOf(o) # {} /\ order[o].status = "NONE" /\ SignalsOf(o) \subseteq Processed
  THEN {}
  ELSE IF priorInvalidation(o) # {}
  THEN {Cancel(o, at, TRUE, FALSE) : at \in priorInvalidation(o)}
  ELSE {Signal(o, now) : f \in IF SignalsOf(o) = {} THEN {o} ELSE {}}

\* An observation that produced an invalidation of its own is not cancelled
\* a second time in the same cycle.
preSubmission(o) ==
  \/ \E f \in ObservationEnvelopes(o) : f.type = "CANCEL"
  \/ ~Suppressed(o) /\ Expired(o) /\ StaleCancelsOf(o) # {}

InvalidationEnvelopes(o) ==
  {Cancel(o, at, FALSE, FALSE) : at \in
     IF preSubmission(o) THEN {} ELSE findFundedInvalidations(o)}

Envelopes(quotes) ==
  LET seen == {o \in Orders : observed[o] # 0} IN
  {Clock(now)} \cup {Quote(at) : at \in quotes}
  \cup UNION {ObservationEnvelopes(o) \cup InvalidationEnvelopes(o) : o \in seen}

\* Two cancellations of one order at one instant are one economic fact; they
\* conflict unless neither names the event that refused the submission.
Conflicting(f, g) ==
  /\ f # g /\ f.type = "CANCEL" /\ g.type = "CANCEL"
  /\ f.order = g.order /\ f.at = g.at
  /\ f.pre \/ g.pre

\* A cycle reads the database and opens the enqueue transaction, which takes
\* the inbox lock and the run's row. A conflict refuses the whole batch.
Cycle ==
  /\ phase = "idle"
  /\ Clock(now) \notin Inbox
  /\ \E quotes \in {{}, {now}, {now - 1} \ {0}} :
       LET facts == Envelopes(quotes) IN
       /\ \A f \in facts, g \in facts \cup Inbox : ~Conflicting(f, g)
       /\ batch' = facts
  /\ phase' = "enqueue"
  /\ UNCHANGED <<world, outcome, barrier, ledger, run, result, crashes>>

(* ------------------- enqueue: one transaction, fact by fact ------------------- *)

\* The order in which the adapter pushes its envelopes.
PushedBefore(f, g) ==
  LET place(x) == CASE x.type = "CLOCK" -> 0
                    [] x.type = "SIGNAL" -> 1
                    [] x.type = "CANCEL" -> IF x.pre \/ x.stale THEN 1 ELSE 2
                    [] x.type = "QUOTE" -> 3
  IN \/ place(f) < place(g)
     \/ place(f) = place(g) /\ f.order < g.order

AlreadyKnown(f) ==
  \/ f \in Inbox
  \/ f.type = "CANCEL" /\ \E g \in CancelsOf(f.order) : g.at = f.at

\* Mutant: a fact before the one in flight is admitted.
LateBarrierless(f) == f.at < clock \/ \E g \in Processed : g.at >= f.at

Late(f) ==
  \/ \E g \in Processed : g.at >= f.at
  \/ f.at < clock
  \/ \E g \in inflight : ~Before(g, f)

Stored(f) == With(outcome, f, IF Late(f) THEN "LATE_FACT" ELSE "NULL")

Insert(f) ==
  /\ ~(f.type = "CANCEL" /\ f.pre)
  /\ outcome' = Stored(f)
  /\ UNCHANGED ledger

\* Mutant: the pending signal of the suppressed order is left to the drain.
SuppressNothing(f) ==
  /\ f.pre /\ order[f.order].status = "NONE"
  /\ outcome' = Stored(f)
  /\ UNCHANGED ledger

\* The signal was never submitted: its pending fact is answered here.
Suppress(f) ==
  /\ f.pre /\ order[f.order].status = "NONE"
  /\ outcome' = [g \in DOMAIN Stored(f) |->
       IF g \in Pending /\ g \in SignalsOf(f.order)
       THEN "PRE_SUBMISSION_SUPPRESSED" ELSE Stored(f)[g]]
  /\ UNCHANGED ledger

\* The order exists, though the acknowledgement of its signal may be missing:
\* it is cancelled and its reservation released at once.
Reconcile(f) ==
  LET at == Later(order[f.order].submittedAt, Later(lastEvent, clock)) IN
  /\ f.pre /\ order[f.order].status = "PENDING"
  /\ f.at <= order[f.order].submittedAt
  /\ outcome' = With(outcome, f, "APPLIED")
  /\ order' = [order EXCEPT ![f.order].status = "CANCELLED"]
  /\ reserved' = reserved \ {f.order}
  /\ lastEvent' = at
  /\ UNCHANGED lastQuote

\* The order left PENDING before the invalidation was known.
InsertSettled(f) ==
  /\ f.pre /\ order[f.order].status \notin {"NONE", "PENDING"}
  /\ outcome' = Stored(f)
  /\ UNCHANGED ledger

Admit(f) ==
  /\ phase = "enqueue"
  /\ f \in batch /\ \A g \in batch : ~PushedBefore(g, f)
  /\ batch' = batch \ {f}
  /\ IF AlreadyKnown(f) THEN UNCHANGED <<outcome, ledger>>
     ELSE Insert(f) \/ Suppress(f) \/ Reconcile(f) \/ InsertSettled(f)
  /\ UNCHANGED <<world, barrier, run, phase, result, crashes>>

Enqueued ==
  /\ phase = "enqueue" /\ batch = {}
  /\ phase' = "drain"
  /\ UNCHANGED <<world, outcome, barrier, ledger, run, batch, result, crashes>>

(* ------------------------- drain, under the inbox lock ------------------------- *)

\* The timer of a backlog, or the first drain of a new process.
StartDrain ==
  /\ phase = "idle" /\ Pending # {}
  /\ phase' = "drain"
  /\ UNCHANGED <<world, outcome, barrier, ledger, run, batch, result, crashes>>

First(f) == f \in Pending /\ \A g \in Pending : g = f \/ Before(f, g)

\* Mutant: a barrier of a process that died is never taken over.
ClaimUnclaimed ==
  /\ phase = "drain"
  /\ \E f \in Pending : First(f) /\ inflight \cap Pending = {} /\ inflight' = {f}
  /\ phase' = "claimed"
  /\ UNCHANGED <<world, outcome, clock, ledger, run, batch, result, crashes>>

\* Mutant: a stale barrier is not cleared.
ClaimBesideStale ==
  /\ phase = "drain"
  /\ \E f \in Pending :
       First(f) /\ inflight \cap Pending \subseteq {f} /\ inflight' = inflight \cup {f}
  /\ phase' = "claimed"
  /\ UNCHANGED <<world, outcome, clock, ledger, run, batch, result, crashes>>

\* A barrier whose fact has its outcome is stale; one that names another
\* unanswered fact refuses the claim.
Claim ==
  /\ phase = "drain"
  /\ \E f \in Pending :
       /\ First(f)
       /\ inflight \cap Pending \subseteq {f}
       /\ inflight' = {f}
  /\ phase' = "claimed"
  /\ UNCHANGED <<world, outcome, clock, ledger, run, batch, result, crashes>>

\* Nothing is pending, or the budget is spent after one fact at least.
DrainEnds ==
  /\ phase = "drain" /\ (Pending = {} \/ result # "NULL")
  /\ phase' = "idle" /\ result' = "NULL"
  /\ UNCHANGED <<world, outcome, barrier, ledger, run, batch, crashes>>

(* --------------------- The effects of the order service --------------------- *)

\* Mutant: a retry does not see an order that was cancelled meanwhile.
OrderedAndLive(o) == order[o].status \in Live

Ordered(o)   == order[o].status # "NONE"
PendingOrder(o) == order[o].status = "PENDING"

\* A later invalidation of an order that never was is answered without one.
VetoedSignal(o)   == \E g \in SignalsOf(o) : outcome[g] = "RISK_VETO"
SuppressedAt(o, at) ==
  \E g \in CancelsOf(o) :
    g.pre /\ outcome[g] = "PRE_SUBMISSION_SUPPRESSED" /\ g.at <= at

UnknownOrder(f) ==
  /\ f.type = "CANCEL" /\ ~f.pre
  /\ ~Ordered(f.order) /\ ~VetoedSignal(f.order) /\ ~SuppressedAt(f.order, f.at)

\* verifyTime, the ledger and the orders refuse what comes too late.
OutOfOrder(f) == f.at < clock \/ f.at < lastEvent

Throws(f) ==
  \/ UnknownOrder(f)
  \/ /\ f.type = "CLOCK" /\ OutOfOrder(f)
  \/ /\ f.type = "SIGNAL" /\ ~Ordered(f.order)
     /\ OutOfOrder(f) \/ f.at >= Close \/ run = "COMPLETED"
  \/ /\ f.type = "CANCEL" /\ PendingOrder(f.order)
     /\ OutOfOrder(f) \/ f.at < order[f.order].submittedAt
  \/ /\ f.type = "QUOTE" /\ lastQuote # f.at
     /\ OutOfOrder(f) \/ f.at < lastQuote

\* Orders leave PENDING together with their reservation.
Cancelled(orders, at) ==
  /\ order' = [o \in Orders |->
       IF o \in orders THEN [order[o] EXCEPT !.status = "CANCELLED"] ELSE order[o]]
  /\ reserved' = reserved \ orders
  /\ lastEvent' = IF orders = {} THEN lastEvent ELSE at

Effect(f) ==
  /\ phase = "claimed" /\ inflight = {f} /\ ~Throws(f)
  /\ phase' = "effected"
  /\ UNCHANGED <<world, outcome, inflight, run, batch, crashes>>

Submit(f) ==
  /\ f.type = "SIGNAL" /\ Effect(f)
  /\ \/ /\ Ordered(f.order)              \* a retry finds its effects
        /\ result' = "APPLIED"
        /\ UNCHANGED <<order, reserved, lastEvent>>
     \/ /\ ~Ordered(f.order)             \* order and reservation together
        /\ result' = "APPLIED"
        /\ order' = [order EXCEPT ![f.order] = [status |-> "PENDING", submittedAt |-> f.at]]
        /\ reserved' = reserved \cup {f.order}
        /\ lastEvent' = f.at
     \/ /\ ~Ordered(f.order)             \* the insert is rolled back
        /\ result' = "RISK_VETO"
        /\ UNCHANGED <<order, reserved, lastEvent>>
  /\ UNCHANGED <<clock, lastQuote>>

\* Orders a fact at this instant closes: the session or their validity is over.
Expiring(at) ==
  {o \in Orders : PendingOrder(o) /\ at >= fundedSignalValidityDeadline(o)}

AdvanceClock(f) ==
  /\ f.type = "CLOCK" /\ Effect(f)
  /\ Cancelled(Expiring(f.at), f.at)
  /\ clock' = f.at
  /\ result' = "APPLIED"
  /\ UNCHANGED lastQuote

CancelOrder(f) ==
  /\ f.type = "CANCEL" /\ Effect(f)
  /\ Cancelled({f.order} \cap {o \in Orders : PendingOrder(o)}, f.at)
  /\ result' = IF Ordered(f.order) THEN "APPLIED"
               ELSE IF ~f.pre /\ VetoedSignal(f.order) THEN "CANCEL_NOOP"
               ELSE "PRE_SUBMISSION_SUPPRESSED"
  /\ UNCHANGED <<clock, lastQuote>>

\* Marks the ledger, closes positions, cancels, rejects or fills what is
\* pending; the quote of a retry finds its allocation.
AllocateQuote(f) ==
  /\ f.type = "QUOTE" /\ Effect(f)
  /\ result' = "APPLIED"
  /\ IF lastQuote = f.at THEN UNCHANGED ledger
     ELSE \E filled, rejected, closed \in SUBSET Orders :
       /\ filled \cup rejected \subseteq {o \in Orders : PendingOrder(o)} \ Expiring(f.at)
       /\ filled \cap rejected = {}
       /\ closed \subseteq {o \in Orders : order[o].status = "FILLED"}
       /\ order' = [o \in Orders |->
            [order[o] EXCEPT !.status =
               CASE o \in filled -> "FILLED"
                 [] o \in rejected \cup Expiring(f.at) -> "CANCELLED"
                 [] o \in closed -> "CLOSED"
                 [] OTHER -> order[o].status]]
       /\ reserved' = reserved \ (filled \cup rejected \cup Expiring(f.at))
       /\ lastEvent' = f.at /\ lastQuote' = f.at
  /\ UNCHANGED clock

\* The ledger or the portfolio vetoes one of the fills: the allocation is
\* rolled back, that order is cancelled in a transaction of its own and the
\* quote is tried again.
VetoFill(f, o) ==
  /\ f.type = "QUOTE" /\ phase = "claimed" /\ inflight = {f} /\ ~Throws(f)
  /\ lastQuote # f.at
  /\ PendingOrder(o) /\ o \notin Expiring(f.at)
  /\ Cancelled({o}, f.at)
  /\ UNCHANGED <<world, outcome, barrier, lastQuote, run, phase, batch, result, crashes>>

\* The drain ends with an error; the barrier keeps naming the fact.
Refused ==
  /\ phase = "claimed" /\ \E f \in inflight : Throws(f)
  /\ phase' = "idle" /\ result' = "NULL"
  /\ UNCHANGED <<world, outcome, barrier, ledger, run, batch, crashes>>

Acknowledge ==
  /\ phase = "effected"
  /\ \E f \in inflight :
       outcome' = IF outcome[f] = "NULL" THEN With(outcome, f, result) ELSE outcome
  /\ inflight' = {}
  /\ phase' = "drain"
  /\ UNCHANGED <<world, clock, ledger, run, batch, result, crashes>>

(* --------------------------- Faults and settlement --------------------------- *)

\* What was committed stays; the lock goes with the connection. Before its
\* commit an enqueue leaves nothing behind.
Crash ==
  /\ phase \in {"drain", "claimed", "effected"} /\ crashes < MaxCrashes
  /\ crashes' = crashes + 1
  /\ phase' = "idle" /\ result' = "NULL"
  /\ UNCHANGED <<world, outcome, barrier, ledger, run, batch>>

\* Mutant: only orders still pending keep the run open.
UnresolvedOrders == Pending # {} \/ \E o \in Orders : order[o].status = "PENDING"

\* Mutant: unanswered facts do not keep the run open.
UnresolvedIgnoringFacts == \E o \in Orders : order[o].status \in Live

Unresolved ==
  \/ \E o \in Orders : order[o].status \in Live
  \/ Pending # {}

\* settleRunAfterCloseRequest, which needs the row an enqueue holds.
Settle ==
  /\ now >= Close /\ phase # "enqueue"
  /\ run' = IF Unresolved THEN "CLOSE_PENDING" ELSE "COMPLETED"
  /\ UNCHANGED <<world, outcome, barrier, ledger, phase, batch, result, crashes>>

Adapter ==
  \/ Cycle \/ Enqueued \/ StartDrain \/ Claim \/ DrainEnds \/ Refused \/ Acknowledge
  \/ \E f \in batch : Admit(f)
  \/ \E f \in inflight :
       \/ Submit(f) \/ AdvanceClock(f) \/ CancelOrder(f) \/ AllocateQuote(f)
       \/ \E o \in Orders : VetoFill(f, o)

World == Tick \/ Settle \/ Crash \/ \E o \in Orders : Observe(o) \/ Invalidate(o)

Next == Adapter \/ World

Spec     == Init /\ [][Next]_vars
\* The cycle and the backlog timer run for as long as the process lives.
FairSpec == Spec /\ WF_vars(Adapter)

(* ---------------------------- The orders' promise ---------------------------- *)

StageOf(status) ==
  CASE status = "NONE"      -> "none"
    [] status = "PENDING"   -> "reserved"
    [] status = "CANCELLED" -> "released"
    [] status = "FILLED"    -> "owned"
    [] status = "CLOSED"    -> "sold"

stageOf == [o \in Orders |-> StageOf(order[o].status)]

Life == INSTANCE OrderLife WITH stage <- stageOf, held <- reserved, latest <- lastEvent

\* Behind the inbox with its retries, late facts, reconciliations and crashes
\* each order lives as OrderLife says: its row and its reservation in the ledger,
\* kept by two repositories, never part, and the ledger is never asked to go
\* back in time.
ImplementsOrderLife == Life!Spec

(* ------------------------------- Properties ------------------------------- *)

Facts ==
  {Clock(at) : at \in Instants} \cup {Quote(at) : at \in Instants}
  \cup {Signal(o, at) : o \in Orders, at \in Instants}
  \cup {Cancel(o, at, pre, stale) :
       o \in Orders, at \in Instants, pre \in BOOLEAN, stale \in BOOLEAN}

Outcomes == {"NULL", "LATE_FACT", "APPLIED", "RISK_VETO",
             "PRE_SUBMISSION_SUPPRESSED", "CANCEL_NOOP"}

\* The state of the run, its facts, orders and reservations is well formed.
TypeOK ==
  /\ now \in 1..MaxTime
  /\ observed \in [Orders -> Instants]
  /\ invalidated \subseteq Orders \X Instants
  /\ Inbox \subseteq Facts /\ outcome \in [Inbox -> Outcomes]
  /\ clock \in Instants /\ lastEvent \in Instants /\ lastQuote \in Instants
  /\ inflight \subseteq Inbox /\ \A f, g \in inflight : f = g
  /\ order \in [Orders -> [status : {"NONE", "PENDING", "FILLED", "CANCELLED", "CLOSED"},
                           submittedAt : Instants]]
  /\ reserved \subseteq Orders
  /\ run \in {"RUNNING", "CLOSE_PENDING", "COMPLETED"}
  /\ phase \in {"idle", "enqueue", "drain", "claimed", "effected"}
  /\ batch \subseteq Facts
  /\ result \in Outcomes
  /\ crashes \in 0..MaxCrashes

\* Whatever is enqueued after a crash, the fact in flight is still the first
\* unanswered one: the next drain takes up the same fact, and no other.
BarrierIsFirst == \A f \in inflight : f \in Pending => First(f)

\* A fact the inbox admitted in time is never out of order when its turn
\* comes, after crashes, retries and reconciliations: the only fact the
\* service can refuse cancels an order that never existed.
OnlyUnknownOrdersStop ==
  phase = "claimed" => \A f \in inflight : Throws(f) => UnknownOrder(f)

\* A signal whose invalidation was known before its submission never becomes
\* an order, and an order that had just been submitted is never filled.
InvalidatedNeverTrade ==
  [][\A o \in Orders :
       order[o].status # order'[o].status /\ order'[o].status \in Live
         => \A f \in CancelsOf(o) : ~f.pre]_vars

\* Settlement never closes the books of a run with an order, a position or a
\* reservation, whatever a drain that is under way does next.
CompletedRunIsResolved ==
  run = "COMPLETED" =>
    reserved = {} /\ \A o \in Orders : order[o].status \notin Live

\* Every fact gets its outcome, unless an order that never existed holds the
\* inbox: nothing else stops the drain for good.
InboxDrains ==
  \/ <>[](Pending = {})
  \/ <>[](\E f \in Pending : First(f) /\ UnknownOrder(f))

\* The baseline document: a repeated invalidation is answered when the original
\* suppression, acknowledged in the same run, is no later.
RepeatedInvalidationIsAnswered ==
  \A f \in Pending :
    /\ phase = "claimed" /\ inflight = {f} /\ f.type = "CANCEL"
    /\ \E g \in CancelsOf(f.order) : g.pre /\ g \in Processed /\ g.at <= f.at
    => ~Throws(f)

=============================================================================
